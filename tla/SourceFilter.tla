---------------------------- MODULE SourceFilter ----------------------------
(***************************************************************************)
(* The source filter: every worker process keeps a copy of the desk's      *)
(* subscribed-table set, and drops at the source the events of a commit    *)
(* on a table that is not in it.  The copy is written only by a push from  *)
(* the commander (spa/genropy_spa_commander.py): one task per living       *)
(* worker on every transition of the set, and one for a newborn worker.    *)
(* A task reads the set when it runs, not when it was created, puts it on  *)
(* the worker's wire and forgets about it: the 5 s timeout on the answer   *)
(* is logged and changes nothing, and a wire that is gone loses the push.  *)
(*                                                                         *)
(* The wire is one ordered stream (core library), so pushes to one worker  *)
(* arrive in the order they were sent; a worker's name is minted once, so  *)
(* a dead worker is never presented again.                                 *)
(***************************************************************************)
EXTENDS SubscriptionIndex, Sequences

CONSTANTS Worker,     \* names of worker processes
          MaxPushes   \* bound: pushes outstanding toward one worker

ASSUME MaxPushesAssumption == MaxPushes \in Nat \ {0}

VARIABLES presented,      \* workers that have presented themselves so far
          living,         \* those whose process is alive
          push_tasks,     \* worker -> push tasks created and not yet run
          wire,           \* worker -> pushes in flight, oldest first
          source_filter   \* worker -> its copy, worker.subscribed_tables

poolVars == <<presented, living>>
pushVars == <<push_tasks, wire, source_filter>>

PushInit ==
    /\ presented = {}
    /\ living = {}
    /\ push_tasks = [w \in Worker |-> 0]
    /\ wire = [w \in Worker |-> <<>>]
    /\ source_filter = [w \in Worker |-> {}]
-----------------------------------------------------------------------------
(* The vertex: the desk's index operations and the announcement they make. *)

\* Faulty variant: a worker that already has a task pending is skipped, and
\* one whose last push is still in flight too.
BroadcastToIdle ==
    push_tasks' = [w \in Worker |->
        IF w \in living /\ push_tasks[w] = 0 /\ wire[w] = <<>> THEN 1 ELSE push_tasks[w]]

\* One task per living worker; the operation that caused it awaits none.
broadcast_subscribed_tables ==
    push_tasks' = [w \in Worker |->
        IF w \in living THEN push_tasks[w] + 1 ELSE push_tasks[w]]

\* _announce_subscribed_tables, only when the set has moved.
Announce(moved) ==
    IF moved THEN broadcast_subscribed_tables ELSE UNCHANGED push_tasks

\* A page's birth or wake files the tables its row carries.
record_page_table_subscriptions(p, tables) ==
    /\ subscribe(p, tables)
    /\ Announce(Creates(tables))

subscribe_table(p, t, opening) ==
    \/ /\ opening
       /\ subscribe(p, {t})
       /\ Announce(Creates({t}))
    \/ /\ ~opening
       /\ unsubscribe(p, t)
       /\ Announce(Deletes({p}, {t}))

\* The subscription half of the desk's drop_page.  The pages of a connection
\* go in one loop with no await; each drop that deletes a key broadcasts, and
\* since every push reads the set when it is sent one broadcast stands for all.
forget_pages(pages) ==
    /\ index_drop_pages(pages)
    /\ Announce(Deletes(pages, TablesOf(pages)))
-----------------------------------------------------------------------------
(* The pool and the pushes. *)

on_worker_presented(w) ==
    /\ w \notin presented
    /\ presented' = presented \cup {w}
    /\ living' = living \cup {w}
    /\ push_tasks' = [push_tasks EXCEPT ![w] = @ + 1]
    /\ UNCHANGED <<wire, source_filter, indexVars>>

\* The process dies: its wire and its copy go with it.
WorkerDies(w) ==
    /\ w \in living
    /\ living' = living \ {w}
    /\ wire' = [wire EXCEPT ![w] = <<>>]
    /\ source_filter' = [source_filter EXCEPT ![w] = {}]
    /\ UNCHANGED <<presented, push_tasks, indexVars>>

\* _push_subscribed_tables up to the CALL: the set is read here, at send time.
SendPush(w) ==
    /\ push_tasks[w] > 0
    /\ w \in living
    /\ push_tasks' = [push_tasks EXCEPT ![w] = @ - 1]
    /\ wire' = [wire EXCEPT ![w] = Append(@, subscribed_tables)]
    /\ UNCHANGED <<source_filter, poolVars, indexVars>>

\* The same, on a wire that is gone: ConnectionError, logged and left alone.
PushFindsNoWire(w) ==
    /\ push_tasks[w] > 0
    /\ w \notin living
    /\ push_tasks' = [push_tasks EXCEPT ![w] = @ - 1]
    /\ UNCHANGED <<wire, source_filter, poolVars, indexVars>>

\* Faulty variant: the pushed set is added to the copy instead of replacing it.
ApplyPushAddOnly(w) ==
    /\ wire[w] # <<>>
    /\ source_filter' = [source_filter EXCEPT ![w] = @ \cup Head(wire[w])]
    /\ wire' = [wire EXCEPT ![w] = Tail(@)]
    /\ UNCHANGED <<push_tasks, poolVars, indexVars>>

\* DeliveryOrders.subscribed_tables, under dispatch_lock: replaced whole.
ApplyPush(w) ==
    /\ wire[w] # <<>>
    /\ source_filter' = [source_filter EXCEPT ![w] = Head(wire[w])]
    /\ wire' = [wire EXCEPT ![w] = Tail(@)]
    /\ UNCHANGED <<push_tasks, poolVars, indexVars>>
-----------------------------------------------------------------------------
filterVars == <<table_pages, page_tables, presented, living, push_tasks, wire, source_filter>>

FilterInit == IndexInit /\ PushInit

\* The bound on what is outstanding, on the operations that may add to it.
Room == \A w \in Worker : push_tasks[w] + Len(wire[w]) < MaxPushes

SubscriptionOp ==
    /\ Room
    /\ \/ \E p \in Page, tables \in SUBSET Table : record_page_table_subscriptions(p, tables)
       \/ \E p \in Page, t \in Table, opening \in BOOLEAN : subscribe_table(p, t, opening)
       \/ \E pages \in SUBSET Page : forget_pages(pages)
    /\ UNCHANGED <<poolVars, wire, source_filter>>

PoolOp(w) == on_worker_presented(w) \/ WorkerDies(w)

PushOp(w) == SendPush(w) \/ PushFindsNoWire(w) \/ ApplyPush(w)

FilterNext == SubscriptionOp \/ \E w \in Worker : PoolOp(w) \/ PushOp(w)

FilterSpec == FilterInit /\ [][FilterNext]_filterVars

\* The event loop runs every task it holds, and a living process serves the
\* CALLs that reach it.  Nothing makes anybody subscribe or a worker die.
FairFilterSpec == FilterSpec /\ \A w \in Worker : WF_filterVars(PushOp(w))
-----------------------------------------------------------------------------
PushTypeOK ==
    /\ presented \subseteq Worker
    /\ living \subseteq presented
    /\ push_tasks \in [Worker -> Nat]
    /\ wire \in [Worker -> Seq(SUBSET Table)]
    /\ source_filter \in [Worker -> SUBSET Table]

FilterTypeOK == IndexInv /\ PushTypeOK

\* What a worker will filter with once every push already sent has landed.
Landing(w) == IF wire[w] = <<>> THEN source_filter[w] ELSE wire[w][Len(wire[w])]

\* A living worker whose last push will leave it with another set than the
\* desk's has a task still to run: no transition of the set is ever missed,
\* however the tasks, the pushes, the births and the deaths interleave
\* (genropy_spa_commander.py: "the next transition carries the whole set again").
NoMissedTransition ==
    \A w \in living : push_tasks[w] = 0 => Landing(w) = subscribed_tables

\* Once the subscriptions stop moving, every living worker ends up with the
\* desk's set and keeps it, and dead workers hold nothing up.
FilterConverges ==
    \A tables \in SUBSET Table :
        <>[](subscribed_tables = tables)
            => <>[](\A w \in living : source_filter[w] = tables)
=============================================================================
