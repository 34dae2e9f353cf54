---------------------------- MODULE GlobalStore ----------------------------
(***************************************************************************)
(* The global store: one dictionary on the commander behind one FIFO lock  *)
(* (the core's, external), and siteregister/global_store_adapter.py, which *)
(* maps the site's dotted paths onto it from any thread of any worker.  A  *)
(* whole key is one CALL; a leaf is a keyed turn, read-modify-write under  *)
(* the lock; a `with globalStore()` block holds the whole dictionary in a  *)
(* private copy that its exit publishes.                                   *)
(*                                                                         *)
(* A value is a date or a Bag of dates.  The site's clocks are naive and   *)
(* local; the wire reads a naive date as UTC, which shifts it; a date in a *)
(* Bag carries its offset.  A Bag is a value here, so the private copies   *)
(* of legacy_value need no action.  Before a worker attaches a local Bag   *)
(* answers, one thread at a time: that stage is over when Init holds.      *)
(***************************************************************************)
EXTENDS Sequences, Integers, FiniteSets

CONSTANTS Thread,     \* the threads that use the store, of every worker
          Key, Leaf,  \* dictionary keys, and labels inside a Bag
          Clock,      \* the dates the site writes
          MaxBlock    \* bound: the operations of one block

ASSUME BlockAssumption == MaxBlock \in Nat \ {0}

VARIABLES master,   \* the commander's dictionary
          queue,    \* the threads waiting for the lock, oldest first
          holder,   \* the thread whose turn is in force, or NoThread
          call,     \* thread -> the operation it is in
          turn,     \* thread -> its block's private dictionary, or NoTurn
          last      \* the last block that took effect, with its answers (history)

vars == <<master, queue, holder, call, turn, last>>

NoThread == "none"
ASSUME NoThreadAssumption == NoThread \notin Thread

NoTurn == [kind |-> "no turn"]
Idle == [pc |-> "idle"]
NoValue == [kind |-> "no value"]

Date(c, zone) == [kind |-> "date", clock |-> c, zone |-> zone]
IsBag(value) == value.kind = "bag"
EmptyBag == [kind |-> "bag", leaves |-> [l \in {} |-> 0]]

With(f, k, v) == [j \in DOMAIN f \cup {k} |-> IF j = k THEN v ELSE f[j]]
Without(f, k) == [j \in DOMAIN f \ {k} |-> f[j]]

\* split_global_path: the first segment is the key, the rest is inside it.
Paths == {<<k>> : k \in Key} \cup {<<k, l>> : k \in Key, l \in Leaf}

Op == {[name |-> n, path |-> p, value |-> NoValue] : n \in {"get", "delete"}, p \in Paths}
      \cup {[name |-> "set", path |-> p, value |-> Date(c, "naive")] : p \in Paths, c \in Clock}

Init ==
    /\ master = [k \in {} |-> 0]
    /\ queue = <<>>
    /\ holder = NoThread
    /\ call = [t \in Thread |-> Idle]
    /\ turn = [t \in Thread |-> NoTurn]
    /\ last = <<>>
-----------------------------------------------------------------------------
(* The date boundary. *)

\* A date on the wire: a naive one is read as UTC at the other end.
OverTheWire(value) ==
    IF value.kind = "date" /\ value.zone = "naive" THEN Date(value.clock, "utc") ELSE value

\* A naive date gets the local zone, its clock preserved.
wire_value(value) ==
    IF value.kind = "date" /\ value.zone = "naive" THEN Date(value.clock, "local") ELSE value

\* An aware date becomes naive local: one the wire took for UTC is shifted.
legacy_date(value) ==
    CASE value.kind = "date" /\ value.zone = "local" -> Date(value.clock, "naive")
      [] value.kind = "date" /\ value.zone = "utc" -> Date("shifted", "naive")
      [] OTHER -> value

legacy_value(value) ==
    IF IsBag(value)
    THEN [value EXCEPT !.leaves = [l \in DOMAIN value.leaves |-> legacy_date(value.leaves[l])]]
    ELSE legacy_date(value)

Default == [kind |-> "default"]

\* _legacy_read of a path in a dictionary, the default for what is not there.
LegacyRead(dict, path) ==
    IF path[1] \notin DOMAIN dict THEN Default
    ELSE IF Len(path) = 1 THEN legacy_value(dict[path[1]])
    ELSE IF IsBag(dict[path[1]]) /\ path[2] \in DOMAIN dict[path[1]].leaves
    THEN legacy_value(dict[path[1]].leaves[path[2]])
    ELSE Default

TookEffect(op, answer) == last' = <<[op |-> op, answer |-> answer]>>
-----------------------------------------------------------------------------
(* A call outside a block: it waits for the lock, then it is served. *)

NeedsTurn(op) == op.name = "with" \/ (op.name # "get" /\ Len(op.path) = 2)

\* get_global_item, set_global_item, delete_global_item and open_turn up to the
\* CALL, on a thread with no turn in force.
Ask(t, op) ==
    /\ call[t] = Idle
    /\ turn[t] = NoTurn
    /\ call' = [call EXCEPT ![t] = [pc |-> "waiting", op |-> op]]
    /\ queue' = Append(queue, t)
    /\ UNCHANGED <<master, holder, turn, last>>

\* The channel is down, or open_turn's GnrDaemonLocked.
AskFails(t) ==
    /\ call[t].pc = "waiting"
    /\ call' = [call EXCEPT ![t] = Idle]
    /\ \E i \in DOMAIN queue :
          queue[i] = t /\ queue' = SubSeq(queue, 1, i - 1) \o SubSeq(queue, i + 1, Len(queue))
    /\ UNCHANGED <<master, holder, turn, last>>

\* t is the first in the queue and the lock is free.
HasLock(t) == call[t].pc = "waiting" /\ Head(queue) = t /\ holder = NoThread

\* get, set and delete of a whole key, and a read inside one.
ServeWhole(t) ==
    /\ HasLock(t)
    /\ ~NeedsTurn(call[t].op)
    /\ LET op == call[t].op
       IN  /\ master' = CASE op.name = "get" -> master
                          [] op.name = "set" ->
                                With(master, op.path[1], OverTheWire(wire_value(op.value)))
                          [] op.name = "delete" -> Without(master, op.path[1])
           /\ TookEffect(op, IF op.name = "get" THEN LegacyRead(master, op.path) ELSE Default)
    /\ queue' = Tail(queue)
    /\ call' = [call EXCEPT ![t] = Idle]
    /\ UNCHANGED <<holder, turn>>

\* Faulty variant: the leaf's key is read and the lock is not kept.
KeyedReadsThenWrites(t) ==
    /\ HasLock(t)
    /\ call[t].op.name # "with" /\ NeedsTurn(call[t].op)
    /\ LET k == call[t].op.path[1]
       IN  call' = [call EXCEPT ![t] = [pc |-> "keyed", op |-> call[t].op, exists |-> k \in DOMAIN master,
                                        value |-> IF k \in DOMAIN master THEN master[k] ELSE Default]]
    /\ queue' = Tail(queue)
    /\ UNCHANGED <<master, holder, turn, last>>

\* for_update(key): the turn is t's, with a private copy of the key's value.
KeyedTurn(t) ==
    /\ HasLock(t)
    /\ call[t].op.name # "with" /\ NeedsTurn(call[t].op)
    /\ holder' = t
    /\ LET k == call[t].op.path[1]
       IN  call' = [call EXCEPT ![t] = [pc |-> "keyed", op |-> call[t].op, exists |-> k \in DOMAIN master,
                                        value |-> IF k \in DOMAIN master THEN master[k] ELSE Default]]
    /\ queue' = Tail(queue)
    /\ UNCHANGED <<master, turn, last>>

Releases(t) == holder' = IF holder = t THEN NoThread ELSE holder

HasBag(keyed) == keyed.exists /\ IsBag(keyed.value)

\* set_global_item on a leaf: the Bag read under the lock, or a new one.
KeyedSet(t) ==
    LET keyed == call[t]  op == keyed.op
        bag == IF HasBag(keyed) THEN keyed.value ELSE EmptyBag
    IN  /\ keyed.pc = "keyed" /\ op.name = "set"
        /\ master' = With(master, op.path[1], [bag EXCEPT !.leaves = With(@, op.path[2], op.value)])
        /\ TookEffect(op, Default)
        /\ Releases(t)
        /\ call' = [call EXCEPT ![t] = Idle]
        /\ UNCHANGED <<queue, turn>>

\* delete_global_item on a leaf: the turn aborts when there is no Bag.
KeyedDelete(t) ==
    LET keyed == call[t]  op == keyed.op
    IN  /\ keyed.pc = "keyed" /\ op.name = "delete"
        /\ master' = IF HasBag(keyed)
                     THEN With(master, op.path[1], [keyed.value EXCEPT !.leaves = Without(@, op.path[2])])
                     ELSE master
        /\ TookEffect(op, Default)
        /\ Releases(t)
        /\ call' = [call EXCEPT ![t] = Idle]
        /\ UNCHANGED <<queue, turn>>

\* The exit of a keyed turn fails: nothing is applied.
KeyedFails(t) ==
    /\ call[t].pc = "keyed"
    /\ Releases(t)
    /\ call' = [call EXCEPT ![t] = Idle]
    /\ UNCHANGED <<master, queue, turn, last>>
-----------------------------------------------------------------------------
(* A with globalStore() block: the thread's turn, found on every operation. *)

open_turn(t) ==
    /\ HasLock(t)
    /\ call[t].op.name = "with"
    /\ holder' = t
    /\ turn' = [turn EXCEPT ![t] = [kind |-> "turn", value |-> master, log |-> <<>>]]
    /\ queue' = Tail(queue)
    /\ call' = [call EXCEPT ![t] = Idle]
    /\ UNCHANGED <<master, last>>

\* _write_into the private dictionary.
WriteInto(content, path, value) ==
    IF Len(path) = 1 THEN With(content, path[1], wire_value(legacy_value(value)))
    ELSE LET k == path[1]
             bag == IF k \in DOMAIN content /\ IsBag(content[k]) THEN content[k] ELSE EmptyBag
         IN  With(content, k, [bag EXCEPT !.leaves = With(@, path[2], legacy_value(value))])

\* _delete_from the private dictionary.
DeleteFrom(content, path) ==
    IF Len(path) = 1 THEN Without(content, path[1])
    ELSE IF path[1] \in DOMAIN content /\ IsBag(content[path[1]])
    THEN [content EXCEPT ![path[1]].leaves = Without(@, path[2])]
    ELSE content

\* get, set and delete with a turn in force: the private copy alone.
TurnOp(t, op) ==
    /\ turn[t] # NoTurn
    /\ Len(turn[t].log) < MaxBlock
    /\ LET content == turn[t].value
           answer == IF op.name = "get" THEN LegacyRead(content, op.path) ELSE Default
       IN  turn' = [turn EXCEPT ![t] =
               [kind |-> "turn",
                value |-> CASE op.name = "get" -> content
                            [] op.name = "set" -> WriteInto(content, op.path, op.value)
                            [] op.name = "delete" -> DeleteFrom(content, op.path),
                log |-> Append(turn[t].log, [op |-> op, answer |-> answer])]]
    /\ UNCHANGED <<master, queue, holder, call, last>>

\* Faulty variant: a body that raised leaves without the lease's exit.
CloseTurnOnlyCommits(t) ==
    /\ turn[t] # NoTurn
    /\ turn' = [turn EXCEPT ![t] = NoTurn]
    /\ \/ /\ master' = [k \in DOMAIN turn[t].value |-> OverTheWire(wire_value(turn[t].value[k]))]
          /\ last' = turn[t].log
          /\ Releases(t)
       \/ UNCHANGED <<master, last, holder>>
    /\ UNCHANGED <<queue, call>>

\* close_turn: the whole dictionary is published at once, or, when the body
\* raised or the commit failed, nothing is.  No turn is left on the thread.
close_turn(t) ==
    /\ turn[t] # NoTurn
    /\ turn' = [turn EXCEPT ![t] = NoTurn]
    /\ \/ /\ master' = [k \in DOMAIN turn[t].value |-> OverTheWire(wire_value(turn[t].value[k]))]
          /\ last' = turn[t].log
       \/ UNCHANGED <<master, last>>
    /\ Releases(t)
    /\ UNCHANGED <<queue, call>>
-----------------------------------------------------------------------------
WithBlock == [name |-> "with", path |-> <<>>, value |-> NoValue]

Served(t) ==
    \/ ServeWhole(t) \/ KeyedTurn(t) \/ open_turn(t)
    \/ KeyedSet(t) \/ KeyedDelete(t) \/ KeyedFails(t)

Next ==
    \E t \in Thread :
        \/ \E op \in Op \cup {WithBlock} : Ask(t, op)
        \/ AskFails(t)
        \/ \E op \in Op : TurnOp(t, op)
        \/ Served(t)
        \/ close_turn(t)

Spec == Init /\ [][Next]_vars

\* The commander serves the lock's queue, a keyed turn runs to its exit, and a
\* with block ends: its body is the site's own code, and its exit closes it.
FairSpec == Spec /\ \A t \in Thread : WF_vars(Served(t)) /\ WF_vars(close_turn(t))
-----------------------------------------------------------------------------
\* The lock's holder is the one thread with a turn, keyed or whole; the threads
\* in the queue are the ones that wait, once each.
TypeOK ==
    /\ DOMAIN master \subseteq Key
    /\ \A t \in Thread : (call[t].pc = "keyed" \/ turn[t] # NoTurn) <=> holder = t
    /\ \A t \in Thread : call[t].pc = "waiting" <=> \E i \in DOMAIN queue : queue[i] = t
    /\ \A i, j \in DOMAIN queue : queue[i] = queue[j] => i = j

\* The dictionary as the site reads it.
SiteView == [k \in DOMAIN master |-> legacy_value(master[k])]

Atomic == INSTANCE AtomicStore WITH dict <- SiteView, last <- last

\* Every block and every single call takes effect whole and alone, and its
\* reads answer accordingly: no leaf a sibling wrote is dropped by a
\* read-modify-write, nothing of a block is seen before its exit or after a
\* failed one, a delete under an absent key publishes nothing, and no date is
\* shifted (global_store_adapter.py, the module's contract).
ImplementsAtomicStore == Atomic!Spec

\* Whoever waits for the store gets an answer: no turn is kept.
NobodyWaitsForever == \A t \in Thread : call[t].pc = "waiting" ~> call[t].pc # "waiting"
=============================================================================
