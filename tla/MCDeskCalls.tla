---------------------------- MODULE MCDeskCalls ----------------------------
(* Two pages under two connections of two users, one table and two keys,   *)
(* one a prefix of the other's path: a connection and a user can be        *)
(* dropped with and without pages, and a dropped page can have a sibling.  *)
EXTENDS DeskCalls

KeyDef == {[path |-> <<"a">>, reason |-> "set", fired |-> FALSE], [path |-> <<"a", "b">>, reason |-> "set", fired |-> TRUE]}
=============================================================================
