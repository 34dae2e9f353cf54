--------------------------- MODULE TableInterest ---------------------------
(***************************************************************************)
(* What the subscription index promises, with no maps in sight: a relation *)
(* between pages and tables, and an answer to every call that says whether *)
(* the set of tables anybody wants has moved.  The desk announces the set  *)
(* to the workers exactly when the answer is TRUE, so the answer being     *)
(* right is what keeps the workers' source filter right.                   *)
(***************************************************************************)
CONSTANTS Page, Table

VARIABLES subs,   \* the <<page, table>> pairs
          answer  \* the last call and what it answered

vars == <<subs, answer>>

Wanted(rel) == {pair[2] : pair \in rel}

Init == subs = {} /\ answer = [call |-> <<"new">>, moved |-> FALSE]

\* One call: the relation becomes rel, and the answer tells whether the
\* wanted set changed.
Becomes(rel, call) ==
    /\ subs' = rel
    /\ answer' = [call |-> call, moved |-> Wanted(rel) # Wanted(subs)]

Subscribe(p, t) == Becomes(subs \cup {<<p, t>>}, <<"subscribe", p, t>>)
Unsubscribe(p, t) == Becomes(subs \ {<<p, t>>}, <<"unsubscribe", p, t>>)
DropPage(p) == Becomes(subs \ ({p} \X Table), <<"drop_page", p>>)

Next ==
    \E p \in Page :
        \/ \E t \in Table : Subscribe(p, t) \/ Unsubscribe(p, t)
        \/ DropPage(p)

Spec == Init /\ [][Next]_vars
=============================================================================
