--------------------------- MODULE MCGlobalStore ---------------------------
(* Two threads on one key with two leaves: a leaf written by one while the *)
(* other writes its sibling, the whole key, or holds a block.  No symmetry: *)
(* liveness is checked.                                                    *)
EXTENDS GlobalStore
=============================================================================
