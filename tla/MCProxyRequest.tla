--------------------------- MODULE MCProxyRequest ---------------------------
(***************************************************************************)
(* Requests and responses for TLC.                                         *)
(***************************************************************************)
EXTENDS ProxyRequest

Ask(body, stream, tools) == [body |-> body, stream |-> stream, tools |-> tools]
Says(kind, calls)        == [kind |-> kind, calls |-> calls]

MCForms ==
  {Ask("chat", FALSE, FALSE), Ask("chat", TRUE, TRUE), Ask("null", FALSE, FALSE),
   Ask("other", FALSE, FALSE), Ask("large", FALSE, FALSE)}

MCResponses ==
  {Says("failed", << >>), Says("other", <<"a", "a">>), Says("json", << >>),
   Says("json", <<"a", "b", "a">>), Says("json", <<"a", "junk", "b">>), Says("json", <<"a", "a", "b", "c">>)}
=============================================================================
