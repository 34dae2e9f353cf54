---------------------------- MODULE MCStoreLocks ----------------------------
(* Threads that hold one item and want another's, in either order, and     *)
(* one that enters an item it already holds.                               *)
EXTENDS StoreLocks
=============================================================================
