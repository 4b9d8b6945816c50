----------------------------- MODULE MCAgentRun -----------------------------
(***************************************************************************)
(* The agent for TLC: two tools of the core server and one of the web      *)
(* server, which may also advertise each other's.                          *)
(***************************************************************************)
EXTENDS AgentRun

MCAllowed    == [core |-> {"ls", "cat"}, web |-> {"browse_url"}]
MCAdvertised == {{}, {"cat"}, {"browse_url"}, {"ls", "browse_url"}}
MCProfiles   == <<[tools |-> <<"browse_url">>, keywords |-> {"web"}],
                  [tools |-> <<"cat", "browse_url", "ls">>, keywords |-> {"file", "web"}]>>
MCFallback   == <<"cat", "ls">>
MCRequests   == {{}, {"web"}, {"file", "web"}}
MCToolOf     == [k1 |-> "cat", k2 |-> "browse_url"]
=============================================================================
