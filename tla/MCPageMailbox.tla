--------------------------- MODULE MCPageMailbox ---------------------------
(* Two keys, the path of one under the path of the other's, so that a drop *)
(* takes one change and leaves the other, and a replace tells them apart;  *)
(* one key where two tabs and a login make the instance large.             *)
EXTENDS PageMailbox

KeyDef == {[path |-> <<"a">>, reason |-> "set", fired |-> FALSE],
           [path |-> <<"a", "b">>, reason |-> "set", fired |-> TRUE]}
OneKey == {[path |-> <<"a">>, reason |-> "set", fired |-> FALSE]}

Symmetric == Permutations(Thread) \cup Permutations(Page)
=============================================================================
