----------------------------- MODULE StoreLocks -----------------------------
(***************************************************************************)
(* The item locks behind `with pageStore(...)`, `userStore`,               *)
(* `connectionStore` (siteregister/siteregister_client.py): ServerStore's  *)
(* enter and exit, lock_item and unlock_item on one dictionary per process *)
(* guarded by one mutex, both created the first time anybody asks.         *)
(*                                                                         *)
(* Dictionaries are objects: the client's name holds the number of one.    *)
(* The critical section of lock_item and of unlock_item is one step, so    *)
(* only whether there is a mutex matters, not which.  A thread enters      *)
(* stores one inside the other; its reason is its own id.  The waits       *)
(* between two attempts are left out.                                      *)
(***************************************************************************)
EXTENDS Integers, Sequences, FiniteSets

CONSTANTS Thread,        \* pool threads
          Item,          \* register items: pages, connections, users
          MaxDepth,      \* bound: the stores a thread holds one inside the other
          LOCK_MAX_RETRY \* the retries of one enter

ASSUME LocksAssumption == MaxDepth \in Nat /\ LOCK_MAX_RETRY \in Nat

VARIABLES item_locks,   \* the dictionary object the client's name holds, 0 for none
          locks_mutex,  \* whether the client's name holds a mutex
          dicts,        \* the dictionary objects so far: item -> [reason, count]
          thread,       \* thread -> what it is doing and what it holds
          made          \* history: how many dictionaries each thread has made

vars == <<item_locks, locks_mutex, dicts, thread, made>>

EmptyDict == [i \in {} |-> 0]

Init ==
    /\ item_locks = 0
    /\ locks_mutex = FALSE
    /\ dicts = <<>>
    /\ thread = [t \in Thread |-> [pc |-> "body", wants |-> {}, attempt |-> 0, held |-> <<>>]]
    /\ made = [t \in Thread |-> 0]

At(t, pc) == thread[t].pc = pc
Goes(t, pc) == thread' = [thread EXCEPT ![t].pc = pc]
-----------------------------------------------------------------------------
(* The lazy state, read and created with no lock held. *)

\* ServerStore.__enter__ begins.
Enter(t, i) ==
    /\ At(t, "body")
    /\ Len(thread[t].held) < MaxDepth
    /\ thread' = [thread EXCEPT ![t].pc = "reading", ![t].wants = {i}, ![t].attempt = 0]
    /\ UNCHANGED <<item_locks, locks_mutex, dicts, made>>

\* Faulty variant: `if not locks`, so that an empty dictionary is made again.
ReadLocksTruthy(t) ==
    /\ At(t, "reading")
    /\ Goes(t, IF item_locks = 0 \/ DOMAIN dicts[item_locks] = {} THEN "creating" ELSE "fetching")
    /\ UNCHANGED <<item_locks, locks_mutex, dicts, made>>

\* item_locks, as locks_mutex calls it: is there a dictionary?
ReadLocks(t) ==
    /\ At(t, "reading")
    /\ Goes(t, IF item_locks = 0 THEN "creating" ELSE "fetching")
    /\ UNCHANGED <<item_locks, locks_mutex, dicts, made>>

CreateDict(t) ==
    /\ At(t, "creating")
    /\ dicts' = Append(dicts, EmptyDict)
    /\ item_locks' = Len(dicts) + 1
    /\ Goes(t, "creating mutex")
    /\ made' = [made EXCEPT ![t] = @ + 1]
    /\ UNCHANGED locks_mutex

CreateMutex(t) ==
    /\ At(t, "creating mutex")
    /\ locks_mutex' = TRUE
    /\ Goes(t, "fetching")
    /\ UNCHANGED <<item_locks, dicts, made>>

\* The mutex is fetched by name: KeyError when nobody has put it there yet.
FetchMutex(t) ==
    /\ At(t, "fetching")
    /\ IF ~locks_mutex
       THEN thread' = [thread EXCEPT ![t].pc = "failed", ![t].wants = {}]
       ELSE Goes(t, "trying")
    /\ UNCHANGED <<item_locks, locks_mutex, dicts, made>>
-----------------------------------------------------------------------------
(* The locks. *)

Wanted(t) == CHOOSE i \in thread[t].wants : TRUE
Locks == dicts[item_locks]

\* Faulty variant: whose the lock is does not matter.
FreeForAnyone(t, i) == TRUE

\* lock_item's answer: nobody holds the item, or the same reason does.
Free(t, i) == i \in DOMAIN Locks => Locks[i].reason = t

Taken(t, i) ==
    [j \in DOMAIN Locks \cup {i} |->
        IF j # i THEN Locks[j]
        ELSE [reason |-> t, count |-> (IF i \in DOMAIN Locks THEN Locks[i].count ELSE 0) + 1]]

lock_item(t) ==
    /\ At(t, "trying")
    /\ Free(t, Wanted(t))
    /\ dicts' = [dicts EXCEPT ![item_locks] = Taken(t, Wanted(t))]
    /\ thread' = [thread EXCEPT ![t].pc = "body", ![t].wants = {}, ![t].attempt = 0,
                                ![t].held = Append(@, Wanted(t))]
    /\ UNCHANGED <<item_locks, locks_mutex, made>>

\* Faulty variant: the attempts are not counted.
RetryForever(t) ==
    /\ At(t, "trying")
    /\ ~Free(t, Wanted(t))
    /\ Goes(t, "fetching")
    /\ UNCHANGED <<item_locks, locks_mutex, dicts, made>>

\* Faulty variant: one attempt too many.
RetryOnceMore(t) ==
    /\ At(t, "trying")
    /\ ~Free(t, Wanted(t))
    /\ thread' = [thread EXCEPT ![t] =
            IF @.attempt <= LOCK_MAX_RETRY
            THEN [@ EXCEPT !.pc = "fetching", !.attempt = thread[t].attempt + 1]
            ELSE [@ EXCEPT !.pc = "failed", !.wants = {}]]
    /\ UNCHANGED <<item_locks, locks_mutex, dicts, made>>

\* lock_item answers False: one more attempt, or GnrDaemonLocked.
Retry(t) ==
    /\ At(t, "trying")
    /\ ~Free(t, Wanted(t))
    /\ thread' = [thread EXCEPT ![t] =
            IF @.attempt < LOCK_MAX_RETRY
            THEN [@ EXCEPT !.pc = "fetching", !.attempt = thread[t].attempt + 1]
            ELSE [@ EXCEPT !.pc = "failed", !.wants = {}]]
    /\ UNCHANGED <<item_locks, locks_mutex, dicts, made>>

\* Faulty variant: the first exit frees the item, however deep it was entered.
UnlockedAtOnce(i) == [j \in DOMAIN Locks \ {i} |-> Locks[j]]

\* The dictionary after unlock_item: one count less, the key gone at zero.  The
\* caller's reason is not looked at; an item nobody holds is left alone.
Unlocked(i) ==
    [j \in {k \in DOMAIN Locks : k # i \/ Locks[k].count > 1} |->
        IF j = i THEN [Locks[j] EXCEPT !.count = @ - 1] ELSE Locks[j]]

\* ServerStore.__exit__ of the innermost store, on a body that ends or on an
\* enter of its own that failed.
unlock_item(t) ==
    LET held == thread[t].held
    IN  /\ At(t, "body") \/ At(t, "failed")
        /\ held # <<>>
        /\ dicts' = [dicts EXCEPT ![item_locks] = Unlocked(held[Len(held)])]
        /\ thread' = [thread EXCEPT ![t].held = SubSeq(held, 1, Len(held) - 1), ![t].pc = "body"]
        /\ UNCHANGED <<item_locks, locks_mutex, made>>

\* The exception has left the outermost block: the thread is reused.
Reused(t) ==
    /\ At(t, "failed")
    /\ thread[t].held = <<>>
    /\ Goes(t, "body")
    /\ UNCHANGED <<item_locks, locks_mutex, dicts, made>>
-----------------------------------------------------------------------------
Entering(t) ==
    ReadLocks(t) \/ CreateDict(t) \/ CreateMutex(t) \/ FetchMutex(t) \/ lock_item(t) \/ Retry(t)

Next ==
    \E t \in Thread : \/ \E i \in Item : Enter(t, i)
                      \/ Entering(t)
                      \/ unlock_item(t)
                      \/ Reused(t)

Spec == Init /\ [][Next]_vars

\* A thread that is entering runs; nothing says that a body ever ends.
FairSpec == Spec /\ \A t \in Thread : WF_vars(Entering(t))
-----------------------------------------------------------------------------
Holds(t, i) == Cardinality({d \in DOMAIN thread[t].held : thread[t].held[d] = i})

TypeOK ==
    /\ item_locks \in 0..Len(dicts)
    /\ locks_mutex \in BOOLEAN
    /\ \A t \in Thread : Len(thread[t].held) <= MaxDepth /\ thread[t].attempt \in 0..LOCK_MAX_RETRY

\* Two threads are never inside stores over the same item (ServerStore: "lock
\* on enter, unlock on exit"), as long as one dictionary was made.  Two first
\* callers of item_locks can make one each, and then both may be inside.
OneHolder ==
    Len(dicts) = 1 =>
        \A t, u \in Thread, i \in Item : Holds(t, i) > 0 /\ Holds(u, i) > 0 => t = u

\* With one dictionary made, the count on an item is how many times its holder
\* has entered it, and an item nobody is in has no lock left on it: an inner
\* exit never frees what an outer block still holds, nothing is locked forever.
CountIsDepth ==
    Len(dicts) = 1 =>
        \A i \in Item :
            IF i \in DOMAIN Locks
            THEN Locks[i].count = Holds(Locks[i].reason, i) /\ Locks[i].count > 0
            ELSE \A t \in Thread : Holds(t, i) = 0

\* A thread makes the dictionary at most once, and then only because it asked
\* while there was none: once the first touch is over every lock is in the same
\* dictionary, however empty it gets.
EachCreatesOnce == \A t \in Thread : made[t] <= 1

\* An enter ends, inside or with GnrDaemonLocked, even when two threads hold
\* one item each and want the other's and no body ever ends.
EnterEnds == \A t \in Thread : thread[t].wants # {} ~> thread[t].wants = {}
=============================================================================
