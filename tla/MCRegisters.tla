---------------------------- MODULE MCRegisters ----------------------------
(* Two tabs of two names in one or two browsers, of guests and of one user. *)
EXTENDS Registers, TLC

CONSTANTS p1, p2, mario

Names == (p1 :> "index") @@ (p2 :> "chat")
Filters == {[user |-> {mario}],
            [user |-> {Guest(c) : c \in Connection}, pagename |-> {"chat"}]}

Symmetric == Permutations(Thread) \cup Permutations(Connection)
=============================================================================
