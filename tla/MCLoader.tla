------------------------------- MODULE MCLoader -------------------------------
EXTENDS Loader, TLC
CONSTANTS app, sub, ping, pong, parser, object
F(op, n) == [op |-> op, name |-> n]
(* app needs sub, sub has a parser, that needs a shared object, ping and pong need one another. *)
TheContents ==
  (app :> <<F("require", sub), F("require", object)>>) @@ (ping :> <<F("require", pong)>>)
  @@ (parser :> <<F("require", object)>>) @@ (pong :> <<F("try", ping), F("load", parser)>>)
  @@ (sub :> <<F("eval", sub)>>) @@ (object :> <<>>)
TheParser == (sub :> parser) @@ [n \in Names |-> None]
TheFound == (parser :> {"lib"}) @@ [n \in Names |-> {"cwd"}]
Symmetric == Permutations(Cells)
=============================================================================
