---------------------------- MODULE MCIndexCalls ----------------------------
(* The index driven by every sequence of calls over three pages and three  *)
(* tables: enough for a table to lose one subscriber and keep another, and *)
(* for one drop to delete some table keys and keep others.                 *)
EXTENDS IndexCalls
=============================================================================
