--------------------------- MODULE MCTableEvents ---------------------------
(* Two pages of one worker, two requests at once.  The pages and the       *)
(* threads are interchangeable.                                            *)
EXTENDS TableEvents

Symmetric == Permutations(Page) \cup Permutations(Request)
=============================================================================
