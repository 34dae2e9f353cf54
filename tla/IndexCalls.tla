----------------------------- MODULE IndexCalls -----------------------------
(***************************************************************************)
(* The subscription index as its one caller sees it: a sequence of calls   *)
(* of the three primitives, each answered with a boolean.  The calls never *)
(* interleave: on the commander they are sync methods of one event loop.   *)
(***************************************************************************)
EXTENDS SubscriptionIndex

VARIABLE answer   \* the last call and the boolean it returned

callVars == <<table_pages, page_tables, answer>>

CallInit == IndexInit /\ answer = [call |-> <<"new">>, moved |-> FALSE]

Subscribe(p, t) ==
    /\ subscribe(p, {t})
    /\ answer' = [call |-> <<"subscribe", p, t>>, moved |-> Creates({t})]

Unsubscribe(p, t) ==
    /\ unsubscribe(p, t)
    /\ answer' = [call |-> <<"unsubscribe", p, t>>, moved |-> Deletes({p}, {t})]

DropPage(p) ==
    /\ index_drop_pages({p})
    /\ answer' = [call |-> <<"drop_page", p>>, moved |-> Deletes({p}, TablesOf({p}))]

CallNext ==
    \E p \in Page :
        \/ \E t \in Table : Subscribe(p, t) \/ Unsubscribe(p, t)
        \/ DropPage(p)

CallSpec == CallInit /\ [][CallNext]_callVars
-----------------------------------------------------------------------------
\* The relation the two maps stand for, read from the fan-out direction.
pairs == {pair \in Page \X Table : pair[1] \in pages_for(pair[2])}

Interest == INSTANCE TableInterest WITH subs <- pairs

\* The index implements the abstract relation: whatever the sequence of
\* calls, the two maps encode one relation, a dropped page leaves no pair
\* behind, and created/deleted is returned exactly when the set of wanted
\* tables moves (subscription_index.py, subscribe/unsubscribe/drop_page).
ImplementsTableInterest == Interest!Spec
=============================================================================
