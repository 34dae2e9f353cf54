----------------------------- MODULE DeskCalls -----------------------------
(***************************************************************************)
(* The desk served by the commander's loop: any sequence of worker CALLs   *)
(* and envelope folds, in any order.  No order is assumed between a page's *)
(* CALLs and the folds of its birth and of its drop: a CALL placed during  *)
(* a request overtakes the events that ride that request's REPLY.          *)
(***************************************************************************)
EXTENDS DeliveryDesk

CONSTANTS Key,        \* keys of the changes: [path, reason, fired]
          MaxQueue,   \* bound: the length of one pending queue
          MaxClock    \* bound: the writes filed, each stamped with an instant

ASSUME BoundsAssumption == MaxQueue \in Nat \ {0} /\ MaxClock \in Nat

vars == <<filterVars, populationVars, queueVars, clock>>

Init == FilterInit /\ DeskInit

Messages ==
    LET address == [kind : {"page"}, target : Page] \cup [kind : {"user_store"}, target : User]
        writes == {[op |-> "set_datachange", kind |-> a.kind, target |-> a.target,
                    replace |-> r, change |-> [key |-> k, arrival_ts |-> 0]] :
                        a \in address, r \in BOOLEAN, k \in Key}
        drops == {[op |-> "drop_datachanges", kind |-> "page", target |-> p, path |-> k.path] :
                        p \in Page, k \in Key}
        resets == {[op |-> "reset_datachanges", kind |-> "page", target |-> p] : p \in Page}
    IN  writes \cup drops \cup resets

\* The bounds on the queues, on the CALLs that may lengthen one.
QueueRoom ==
    /\ \A p \in Page : /\ Len(Pending(page_datachange_map, p)) < MaxQueue
                       /\ Len(Pending(page_dbevent_map, p)) < MaxQueue
    /\ \A u \in User : Len(Pending(user_store_change_map, u)) < MaxQueue

SubscribeTable(p, t, opening) ==
    /\ subscribe_table(p, t, opening)
    /\ UNCHANGED <<populationVars, queueVars>>

Exchange(p, u, deposits) ==
    /\ exchange(p, u, deposits)
    /\ UNCHANGED <<indexVars, push_tasks, populationVars>>

Deposit(deposits) ==
    /\ deposit(deposits)
    /\ UNCHANGED <<indexVars, push_tasks, populationVars>>

OnDatachange(message) ==
    /\ on_datachange(message)
    /\ UNCHANGED <<indexVars, push_tasks, populationVars>>

\* A page id is announced once, under a connection of one user.
NewPage(p, cid, u, tables) ==
    /\ p \notin DOMAIN page_connection_map
    /\ cid \in DOMAIN connection_user => connection_user[cid] = u
    /\ on_new_page(p, cid, u, tables)

Batches == {<<>>} \cup {<<[table |-> t]>> : t \in Table}

Call ==
    /\ \/ \E p \in Page, t \in Table, opening \in BOOLEAN : SubscribeTable(p, t, opening)
       \/ \E p \in Page, u \in User, deposits \in Batches : QueueRoom /\ Exchange(p, u, deposits)
       \/ \E deposits \in Batches : QueueRoom /\ Deposit(deposits)
    /\ UNCHANGED clock

Write == \E message \in Messages : clock < MaxClock /\ QueueRoom /\ OnDatachange(message)

Fold ==
    /\ \/ \E p \in Page, cid \in Connection, u \in User, tables \in SUBSET Table :
            NewPage(p, cid, u, tables)
       \/ \E p \in Page : drop_page(p)
       \/ \E cid \in Connection : drop_connection(cid)
       \/ \E u \in User : drop_user(u)
    /\ UNCHANGED clock

Next == (Call \/ Write \/ Fold) /\ UNCHANGED <<poolVars, wire, source_filter>>

Spec == Init /\ [][Next]_vars
-----------------------------------------------------------------------------
PopulationTypeOK ==
    /\ DOMAIN page_connection_map \subseteq Page
    /\ page_connection_map \in [DOMAIN page_connection_map -> Connection]
    /\ DOMAIN connection_user \subseteq Connection
    /\ connection_user \in [DOMAIN connection_user -> User]
    /\ user_map \subseteq User

\* The population hangs together: a page's connection is known and so is the
\* connection's user, so dropping a user reaches every page of his.
Rooted ==
    /\ \A p \in DOMAIN page_connection_map :
            page_connection_map[p] \in DOMAIN connection_user
    /\ \A cid \in DOMAIN connection_user : connection_user[cid] \in user_map

TypeOK == IndexInv /\ PopulationTypeOK /\ Rooted

\* No addressed write (a datachange of a page, a write to a user's store) waits
\* for somebody the vertex does not hold: no queue of them is born for a page
\* that never existed, and the drops of pages, connections and users leave none
\* behind (delivery_desk.py, on_datachange and drop_page).  The queues of table
\* events are outside: subscribe_table files a page whoever it is.
QueuesHaveOwners ==
    /\ DOMAIN page_datachange_map \subseteq DOMAIN page_connection_map
    /\ DOMAIN user_store_change_map \subseteq user_map

\* A page that leaves the vertex leaves the desk whole in the same step: both
\* its queues and its subscriptions, whichever of the three drops took it
\* (genropy_spa_commander.py, drop_page / drop_connection / drop_user).
DepartureIsComplete ==
    [][\A p \in DOMAIN page_connection_map \ DOMAIN page_connection_map' :
          p \notin DOMAIN page_datachange_map' \cup DOMAIN page_dbevent_map'
                     \cup DOMAIN page_tables']_vars
=============================================================================
