----------------------------- MODULE MCUserView -----------------------------
(* Two paths, one under the other, so that a prefix captures both or one. *)
EXTENDS UserView, TLC

Paths == {<<"gnr">>, <<"gnr", "batch">>}

Symmetric == Permutations(Thread) \cup Permutations(Bag)
=============================================================================
