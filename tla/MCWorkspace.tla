----------------------------- MODULE MCWorkspace -----------------------------
(***************************************************************************)
(* Small workspaces for TLC: a file a of two writes, a link l to it, a     *)
(* directory d with a file b; and one where l leads nowhere.               *)
(***************************************************************************)
EXTENDS ToolPromises

MCNames == {"a", "b", "d", "l"}
MCOrder == <<"a", "b", "d", "l">>
NamesIn(f) == Dir([n \in MCNames |-> IF n \in DOMAIN f THEN f[n] ELSE None])

Inode(nodes) == [i \in 1 .. MaxInode |-> IF i <= Len(nodes) THEN nodes[i] ELSE Free]
Full   == Inode(<<NamesIn([a |-> 2, l |-> 3, d |-> 4]), File(<<10, 11>>), Link("a"),
                  NamesIn([b |-> 5]), File(<<20>>)>>)
Bare   == Inode(<<NamesIn([l |-> 2, d |-> 3, b |-> 4]), Link("a"), NamesIn(<< >>), NamesIn(<< >>)>>)
MCTrees == {Full, Bare}
FullTree == {Full}

At(tool, p)        == [tool |-> tool, path |-> p]
Cat(p, view)       == [tool |-> "cat", path |-> p, view |-> view]
Put(p, yes, add)   == [tool |-> "write_file", path |-> p, consent |-> yes, append |-> add, large |-> FALSE]
To(tool, p, q, yes) == [tool |-> tool, path |-> p, dest |-> q, consent |-> yes]

MCCalls ==
  {At("ls", << >>), At("ls", <<"d">>), Cat(<<"l">>, "full"), Cat(<<"a">>, "tail"),
   [tool |-> "find", path |-> << >>, match |-> {"a", "b", "l"}],
   At("touch", <<"b">>), At("touch", <<"l">>), At("mkdir", <<"b">>), At("mkdir", <<"l">>),
   Put(<<"a">>, FALSE, FALSE), Put(<<"l">>, FALSE, TRUE), Put(<<"d", "a">>, TRUE, FALSE),
   Put(<<"..", "a">>, TRUE, FALSE), Put(<<"b">>, TRUE, TRUE),
   [Put(<<"b">>, FALSE, FALSE) EXCEPT !.large = TRUE],
   To("cp", <<"d", "b">>, <<"l">>, TRUE), To("cp", <<"a">>, <<"b">>, FALSE),
   To("mv", <<"d">>, <<"b">>, TRUE), To("mv", <<"l">>, <<"d", "b">>, TRUE),
   To("mv", <<"d", "b">>, <<"l">>, FALSE), To("mv", <<"b">>, <<"l">>, TRUE), To("mv", <<"d">>, <<"d", "..", "b">>, FALSE),
   At("rm", <<"l">>), At("rm", <<"d", "b">>), At("rmdir", <<"d">>)}

OverwriteCalls == {Put(<<"b">>, FALSE, FALSE), At("mkdir", <<"b">>), Cat(<<"b">>, "full")}

Good    == [token |-> "right", method |-> "POST", media |-> "json", body |-> "call"]
MCForms == {Good, [Good EXCEPT !.token = "wrong"], [Good EXCEPT !.method = "GET"],
            [Good EXCEPT !.media = "other"], [Good EXCEPT !.body = "batch"],
            [Good EXCEPT !.body = "notification"]}
GoodForms == {Good}
=============================================================================
