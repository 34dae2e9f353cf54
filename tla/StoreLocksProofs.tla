-------------------------- MODULE StoreLocksProofs --------------------------
(***************************************************************************)
(* The item locks, for any threads, items, depth and number of retries:    *)
(* one holder and a count that follows the nesting while one dictionary    *)
(* exists, and at most one dictionary made by each thread.                 *)
(***************************************************************************)
EXTENDS StoreLocks, FiniteSetTheorems, SequenceTheorems, TLAPS

States == {"body", "reading", "creating", "creating mutex", "fetching", "trying", "failed"}

Locking == [reason : Thread, count : Nat \ {0}]

\* The contents of a lock dictionary.
Dict == UNION {[D -> Locking] : D \in SUBSET Item}

\* What a thread is doing.
Records == [pc : States, wants : SUBSET Item, attempt : 0..LOCK_MAX_RETRY, held : Seq(Item)]

\* The states of an enter under way.
Inside == States \ {"body", "failed"}

\* The shape of the state: the locks are kept in the last dictionary made.
Shape ==
    /\ dicts \in Seq(Dict)
    /\ item_locks = Len(dicts)
    /\ locks_mutex \in BOOLEAN
    /\ thread \in [Thread -> Records]
    /\ \A t \in Thread : Len(thread[t].held) <= MaxDepth

\* An enter wants one item, and there is room in the nest for it.
Entered(r) == (\E i \in Item : r.wants = {i}) /\ Len(r.held) < MaxDepth

\* Who is where: there is a dictionary for a thread to try in; who has been
\* through a dictionary, or holds anything, knows it is there.
Order ==
    /\ locks_mutex => item_locks > 0
    /\ \A t \in Thread :
          /\ At(t, "trying") => item_locks > 0
          /\ At(t, "creating mutex") => item_locks > 0
          /\ thread[t].held # <<>> => item_locks > 0
          /\ thread[t].pc \in Inside => Entered(thread[t])

\* With one dictionary, who is inside an item is whom its lock names.
HolderIsNamed ==
    Len(dicts) = 1 =>
        \A t \in Thread, i \in Item :
            Holds(t, i) > 0 => i \in DOMAIN Locks /\ Locks[i].reason = t

\* The count on an item is its holder's depth.
Counted(i) ==
    /\ i \in DOMAIN Locks => /\ Locks[i].count > 0
                             /\ \A t \in Thread : t = Locks[i].reason => Locks[i].count = Holds(t, i)
    /\ i \notin DOMAIN Locks => \A t \in Thread : Holds(t, i) = 0

Depths == Len(dicts) = 1 => \A i \in Item : Counted(i)

\* A thread that is to make a dictionary has made none yet, and who has made one
\* left one behind: nobody sets out to make one once there is one.
MadeOnce ==
    /\ made \in [Thread -> {0, 1}]
    /\ \A t \in Thread : /\ At(t, "creating") => made[t] = 0
                         /\ made[t] = 1 => item_locks > 0

LocksInv == Shape /\ Order /\ HolderIsNamed /\ Depths /\ MadeOnce
-----------------------------------------------------------------------------
(* How often an item occurs in the nest of a thread. *)

Occurs(s, i) == {d \in DOMAIN s : s[d] = i}

LEMMA OccursFinite ==
    ASSUME NEW s \in Seq(Item), NEW i \in Item
    PROVE  IsFiniteSet(Occurs(s, i)) /\ Cardinality(Occurs(s, i)) \in Nat
  <1>1. IsFiniteSet(1..Len(s))
    BY LenProperties, FS_Interval
  <1>2. Occurs(s, i) \in SUBSET (1..Len(s))
    BY LenProperties DEF Occurs
  <1> QED BY <1>1, <1>2, FS_Subset, FS_CardinalityType

\* One enter more.
LEMMA OccursAppend ==
    ASSUME NEW s \in Seq(Item), NEW i \in Item, NEW j \in Item
    PROVE  Cardinality(Occurs(Append(s, j), i)) =
               IF i = j THEN Cardinality(Occurs(s, i)) + 1 ELSE Cardinality(Occurs(s, i))
  <1>1. /\ Append(s, j) \in Seq(Item) /\ Len(Append(s, j)) = Len(s) + 1
        /\ \A d \in 1..Len(s) : Append(s, j)[d] = s[d]
        /\ Append(s, j)[Len(s) + 1] = j
    BY AppendProperties
  <1>2. DOMAIN s = 1..Len(s) /\ DOMAIN Append(s, j) = 1..Len(s) + 1 /\ Len(s) \in Nat
    BY <1>1, LenProperties
  <1>3. CASE i = j
    <2>1. Occurs(Append(s, j), i) = Occurs(s, i) \cup {Len(s) + 1}
      BY <1>1, <1>2, <1>3 DEF Occurs
    <2>2. Len(s) + 1 \notin Occurs(s, i)
      BY <1>2 DEF Occurs
    <2> QED BY <1>3, <2>1, <2>2, OccursFinite, FS_AddElement
  <1>4. CASE i # j
    <2>1. Occurs(Append(s, j), i) = Occurs(s, i)
      BY <1>1, <1>2, <1>4 DEF Occurs
    <2> QED BY <1>4, <2>1
  <1> QED BY <1>3, <1>4

\* One exit: the innermost store leaves the nest.
LEMMA OccursExit ==
    ASSUME NEW s \in Seq(Item), NEW i \in Item, s # <<>>
    PROVE  LET front == SubSeq(s, 1, Len(s) - 1)
           IN  /\ s[Len(s)] \in Item
               /\ front \in Seq(Item) /\ Len(front) = Len(s) - 1 /\ Len(s) \in Nat \ {0}
               /\ Cardinality(Occurs(s, i)) =
                      IF i = s[Len(s)] THEN Cardinality(Occurs(front, i)) + 1
                                       ELSE Cardinality(Occurs(front, i))
  <1> DEFINE front == SubSeq(s, 1, Len(s) - 1)
  <1>1. Len(s) \in Nat \ {0}
    BY EmptySeq
  <1>2. s[Len(s)] \in Item /\ \A k \in 1..Len(s) - 1 : s[k] \in Item
    BY <1>1, ElementOfSeq
  <1>3. /\ front \in Seq(Item) /\ Len(front) = Len(s) - 1
        /\ \A d \in 1..Len(s) - 1 : front[d] = s[d]
    <2> DEFINE n == Len(s) - 1
    <2>1. n \in Nat /\ 1 \in Int /\ n \in Int /\ \A k \in 1..n : s[k] \in Item
      BY <1>1, <1>2
    <2> HIDE DEF n
    <2>2. /\ SubSeq(s, 1, n) \in Seq(Item)
          /\ Len(SubSeq(s, 1, n)) = IF 1 <= n THEN n - 1 + 1 ELSE 0
          /\ \A k \in 1..n - 1 + 1 : SubSeq(s, 1, n)[k] = s[1 + k - 1]
      BY <2>1, SubSeqProperties
    <2>3. /\ Len(SubSeq(s, 1, n)) = n
          /\ \A k \in 1..n : SubSeq(s, 1, n)[k] = s[k]
      BY <2>1, <2>2
    <2> QED BY <2>2, <2>3 DEF n
  <1>4. /\ Append(front, s[Len(s)]) \in Seq(Item)
        /\ Len(Append(front, s[Len(s)])) = Len(s)
        /\ \A d \in 1..Len(s) : Append(front, s[Len(s)])[d] = s[d]
    BY <1>1, <1>2, <1>3, AppendProperties
  <1>5. Append(front, s[Len(s)]) = s
    BY <1>4, SeqEqual
  <1> HIDE DEF front
  <1>6. Cardinality(Occurs(Append(front, s[Len(s)]), i)) =
            IF i = s[Len(s)] THEN Cardinality(Occurs(front, i)) + 1
                             ELSE Cardinality(Occurs(front, i))
    BY ONLY <1>2, <1>3, i \in Item, OccursAppend
  <1> QED BY <1>1, <1>2, <1>3, <1>5, <1>6 DEF front
-----------------------------------------------------------------------------
(* The dictionaries. *)

LEMMA DictShape ==
    ASSUME NEW d \in Dict
    PROVE  DOMAIN d \subseteq Item /\ \A i \in DOMAIN d : d[i] \in Locking
  BY DEF Dict

LEMMA DictMade ==
    ASSUME NEW d, DOMAIN d \subseteq Item, \A i \in DOMAIN d : d[i] \in Locking,
           d = [i \in DOMAIN d |-> d[i]]
    PROVE  d \in Dict
  <1>1. d \in [DOMAIN d -> Locking]
    OBVIOUS
  <1>2. DOMAIN d \in SUBSET Item
    OBVIOUS
  <1> QED BY <1>1, <1>2 DEF Dict

LEMMA TakenIsDict ==
    ASSUME NEW t \in Thread, NEW i \in Item, Locks \in Dict
    PROVE  Taken(t, i) \in Dict
  <1>1. \A j \in DOMAIN Locks : Locks[j] \in Locking /\ j \in Item
    BY DictShape
  <1>2. \A j \in DOMAIN Taken(t, i) : Taken(t, i)[j] \in Locking
    BY <1>1 DEF Taken, Locking
  <1>3. DOMAIN Taken(t, i) \subseteq Item /\ Taken(t, i) = [j \in DOMAIN Taken(t, i) |-> Taken(t, i)[j]]
    BY <1>1 DEF Taken
  <1> QED BY <1>2, <1>3, DictMade

LEMMA UnlockedIsDict ==
    ASSUME NEW i \in Item, Locks \in Dict
    PROVE  Unlocked(i) \in Dict
  <1>1. \A j \in DOMAIN Locks : Locks[j] \in Locking /\ j \in Item
    BY DictShape
  <1>2. \A j \in DOMAIN Unlocked(i) : Unlocked(i)[j] \in Locking
    BY <1>1 DEF Unlocked, Locking
  <1>3. DOMAIN Unlocked(i) \subseteq Item /\ Unlocked(i) = [j \in DOMAIN Unlocked(i) |-> Unlocked(i)[j]]
    BY <1>1 DEF Unlocked
  <1> QED BY <1>2, <1>3, DictMade

LEMMA EmptyIsDict == EmptyDict \in Dict
  BY DictMade DEF EmptyDict
-----------------------------------------------------------------------------
(* The steps that touch neither the locks nor the nests. *)

Quiet(t) ==
    \/ \E i \in Item : Enter(t, i)
    \/ ReadLocks(t) \/ CreateMutex(t) \/ FetchMutex(t) \/ Retry(t) \/ Reused(t)

\* What such a step of t leaves alone.
Aside(t) ==
    /\ dicts' = dicts /\ item_locks' = item_locks /\ made' = made /\ locks_mutex' \in BOOLEAN
    /\ thread' \in [Thread -> Records]
    /\ thread'[t].held = thread[t].held
    /\ \A u \in Thread : u # t => thread'[u] = thread[u]

LEMMA QuietSteps ==
    ASSUME NEW t \in Thread, Shape, Quiet(t)
    PROVE  /\ Aside(t)
           /\ thread'[t].pc \in Inside =>
                  Entered(thread'[t]) \/ (thread[t].pc \in Inside /\ thread'[t].wants = thread[t].wants)
           /\ At(t, "trying")' => locks_mutex
           /\ At(t, "creating mutex")' => At(t, "creating mutex")
           /\ At(t, "creating")' => item_locks = 0 \/ At(t, "creating")
           /\ locks_mutex' => locks_mutex \/ At(t, "creating mutex")
  <1> DEFINE me == thread[t]
             Done(r) == thread' = [thread EXCEPT ![t] = r]
  <1>0. thread \in [Thread -> Records] /\ me \in Records /\ locks_mutex \in BOOLEAN
    BY DEF Shape, Records
  <1>a. /\ me.attempt \in 0..LOCK_MAX_RETRY /\ LOCK_MAX_RETRY \in Nat
        /\ {"reading", "creating", "fetching", "trying", "failed", "body"} \subseteq States
    BY <1>0, LocksAssumption DEF Records, States
  <1>b. ASSUME NEW r \in Records, Done(r)
        PROVE  /\ thread' \in [Thread -> Records] /\ thread'[t] = r
               /\ \A u \in Thread : u # t => thread'[u] = thread[u]
    BY <1>0, <1>b
  <1>1. CASE \E i \in Item : Enter(t, i)
    <2>1. PICK i \in Item : Enter(t, i)
      BY <1>1
    <2> DEFINE w == {i}
               r == [me EXCEPT !.pc = "reading", !.wants = w, !.attempt = 0]
    <2>3. Done(r)
      BY <1>0, <2>1 DEF Enter
    <2>2. r \in Records /\ r.pc = "reading" /\ r.wants = w /\ r.held = me.held
      <3>1. w \in SUBSET Item /\ 0 \in 0..LOCK_MAX_RETRY
        BY <1>a
      <3> HIDE DEF w
      <3> QED BY <1>0, <1>a, <3>1 DEF Records
    <2> HIDE DEF r
    <2> QED BY <1>0, <1>b, <2>1, <2>2, <2>3 DEF Enter, Aside, At, Entered
  <1>2. CASE ReadLocks(t)
    <2> DEFINE q == IF item_locks = 0 THEN "creating" ELSE "fetching"
               r == [me EXCEPT !.pc = q]
    <2>1. Done(r)
      BY <1>0, <1>2 DEF ReadLocks, Goes
    <2>2. r \in Records /\ r.pc = q /\ r.wants = me.wants /\ r.held = me.held
      BY <1>0, <1>a DEF Records
    <2> HIDE DEF r
    <2> QED BY <1>0, <1>2, <1>b, <2>1, <2>2 DEF ReadLocks, Aside, At, States, Inside
  <1>3. CASE CreateMutex(t)
    <2> DEFINE r == [me EXCEPT !.pc = "fetching"]
    <2>1. Done(r)
      BY <1>0, <1>3 DEF CreateMutex, Goes
    <2>2. r \in Records /\ r.pc = "fetching" /\ r.wants = me.wants /\ r.held = me.held
      BY <1>0, <1>a DEF Records
    <2>3. At(t, "creating mutex") /\ dicts' = dicts /\ item_locks' = item_locks /\ made' = made
      BY <1>3 DEF CreateMutex
    <2>4. locks_mutex' \in BOOLEAN
      BY <1>3, Zenon DEF CreateMutex
    <2> HIDE DEF r
    <2> QED BY <1>b, <2>1, <2>2, <2>3, <2>4 DEF Aside, At, States, Inside
  <1>4. CASE FetchMutex(t)
    <2>1. CASE locks_mutex
      <3> DEFINE r == [me EXCEPT !.pc = "trying"]
      <3>1. Done(r)
        BY <1>0, <1>4, <2>1 DEF FetchMutex, Goes
      <3>2. r \in Records /\ r.pc = "trying" /\ r.wants = me.wants /\ r.held = me.held
        BY <1>0, <1>a DEF Records
      <3> HIDE DEF r
      <3> QED BY <1>0, <1>4, <1>b, <2>1, <3>1, <3>2 DEF FetchMutex, Aside, At, States, Inside
    <2>2. CASE ~locks_mutex
      <3> DEFINE r == [me EXCEPT !.pc = "failed", !.wants = {}]
      <3>1. Done(r)
        BY <1>0, <1>4, <2>2 DEF FetchMutex
      <3>2. r \in Records /\ r.pc = "failed" /\ r.held = me.held
        BY <1>0, <1>a DEF Records
      <3> HIDE DEF r
      <3> QED BY <1>0, <1>4, <1>b, <3>1, <3>2 DEF FetchMutex, Aside, At, Inside
    <2> QED BY <2>1, <2>2
  <1>5. CASE Retry(t)
    <2>1. CASE me.attempt < LOCK_MAX_RETRY
      <3> DEFINE n == me.attempt + 1
                 r == [me EXCEPT !.pc = "fetching", !.attempt = n]
      <3>1. Done(r)
        BY <1>5, <2>1 DEF Retry
      <3>2. n \in 0..LOCK_MAX_RETRY
        BY <1>a, <2>1
      <3> HIDE DEF n
      <3>3. r \in Records /\ r.pc = "fetching" /\ r.wants = me.wants /\ r.held = me.held
        BY <1>0, <1>a, <3>2 DEF Records
      <3> HIDE DEF r
      <3> QED BY <1>0, <1>5, <1>b, <3>1, <3>3 DEF Retry, Aside, At, States, Inside
    <2>2. CASE ~(me.attempt < LOCK_MAX_RETRY)
      <3> DEFINE r == [me EXCEPT !.pc = "failed", !.wants = {}]
      <3>1. Done(r)
        BY <1>5, <2>2 DEF Retry
      <3>2. r \in Records /\ r.pc = "failed" /\ r.held = me.held
        BY <1>0, <1>a DEF Records
      <3> HIDE DEF r
      <3> QED BY <1>0, <1>5, <1>b, <3>1, <3>2 DEF Retry, Aside, At, Inside
    <2> QED BY <2>1, <2>2
  <1>6. CASE Reused(t)
    <2> DEFINE r == [me EXCEPT !.pc = "body"]
    <2>1. Done(r)
      BY <1>0, <1>6 DEF Reused, Goes
    <2>2. r \in Records /\ r.pc = "body" /\ r.wants = me.wants /\ r.held = me.held
      BY <1>0, <1>a DEF Records
    <2> HIDE DEF r
    <2> QED BY <1>0, <1>6, <1>b, <2>1, <2>2 DEF Reused, Aside, At, Inside
  <1> QED BY <1>1, <1>2, <1>3, <1>4, <1>5, <1>6 DEF Quiet

LEMMA QuietKeepsOrder ==
    ASSUME NEW t \in Thread, Shape, Order, Quiet(t)
    PROVE  Order'
  <1>0. Aside(t)
    BY QuietSteps
  <1>1. ASSUME NEW u \in Thread, u # t
        PROVE  /\ At(u, "trying")' => item_locks' > 0
               /\ At(u, "creating mutex")' => item_locks' > 0
               /\ thread'[u].held # <<>> => item_locks' > 0
               /\ thread'[u].pc \in Inside => Entered(thread'[u])
    BY <1>0, <1>1 DEF Aside, Order, At
  <1>2. /\ At(t, "trying")' => item_locks' > 0
        /\ At(t, "creating mutex")' => item_locks' > 0
        /\ thread'[t].held # <<>> => item_locks' > 0
        /\ thread'[t].pc \in Inside => Entered(thread'[t])
    BY <1>0, QuietSteps DEF Aside, Order, At, Entered
  <1>3. locks_mutex' => item_locks' > 0
    BY <1>0, QuietSteps DEF Aside, Order
  <1> QED BY <1>1, <1>2, <1>3 DEF Order

\* Nobody sets out to make a dictionary once there is one.
LEMMA QuietKeepsMade ==
    ASSUME NEW t \in Thread, Shape, MadeOnce, Quiet(t)
    PROVE  MadeOnce'
  <1>0. Aside(t)
    BY QuietSteps
  <1>1. At(t, "creating")' => item_locks = 0 \/ At(t, "creating")
    BY QuietSteps
  <1> QED BY <1>0, <1>1 DEF MadeOnce, Aside, At, Shape

\* Locks and nests are what the two properties look at.
LEMMA QuietKeepsCounts ==
    ASSUME NEW t \in Thread, Shape, HolderIsNamed, Depths, Aside(t)
    PROVE  HolderIsNamed' /\ Depths'
  <1>1. \A u \in Thread, i \in Item : Holds(u, i)' = Holds(u, i)
    BY DEF Aside, Holds
  <1>2. Locks' = Locks /\ Len(dicts)' = Len(dicts)
    BY DEF Aside, Locks
  <1>3. HolderIsNamed'
    BY <1>1, <1>2 DEF HolderIsNamed
  <1>4. Depths'
    BY <1>1, <1>2 DEF Depths, Counted
  <1> QED BY <1>3, <1>4

LEMMA QuietKeepsInv ==
    ASSUME NEW t \in Thread, LocksInv, Quiet(t)
    PROVE  LocksInv'
  <1>1. Aside(t)
    BY QuietSteps DEF LocksInv
  <1>2. Shape'
    BY <1>1 DEF LocksInv, Shape, Aside
  <1> QED BY <1>1, <1>2, QuietKeepsOrder, QuietKeepsMade, QuietKeepsCounts DEF LocksInv
-----------------------------------------------------------------------------
(* The steps that make and write the dictionaries. *)

\* The first dictionary is empty, and nobody holds anything; of a second one the
\* two properties say nothing.
LEMMA CreateDictKeepsInv ==
    ASSUME NEW t \in Thread, LocksInv, CreateDict(t)
    PROVE  LocksInv'
  <1> DEFINE me == thread[t]
             r == [me EXCEPT !.pc = "creating mutex"]
  <1>0. /\ thread \in [Thread -> Records] /\ me \in Records /\ me.pc = "creating"
        /\ dicts \in Seq(Dict) /\ item_locks = Len(dicts) /\ locks_mutex \in BOOLEAN
        /\ dicts' = Append(dicts, EmptyDict) /\ item_locks' = Len(dicts) + 1
        /\ locks_mutex' = locks_mutex
    BY DEF LocksInv, Shape, CreateDict, At
  <1>1. r \in Records /\ r.pc = "creating mutex" /\ r.wants = me.wants /\ r.held = me.held
    BY <1>0 DEF Records, States
  <1>2. thread' = [thread EXCEPT ![t] = r]
    BY <1>0 DEF CreateDict, Goes
  <1> HIDE DEF r
  <1>3. /\ thread' \in [Thread -> Records] /\ thread'[t] = r
        /\ \A u \in Thread : u # t => thread'[u] = thread[u]
    BY <1>0, <1>1, <1>2
  <1>4. /\ dicts' \in Seq(Dict) /\ Len(dicts') = Len(dicts) + 1 /\ Len(dicts) \in Nat
        /\ dicts'[Len(dicts) + 1] = EmptyDict
    BY <1>0, EmptyIsDict, AppendProperties, LenProperties
  <1>5. Shape'
    BY <1>0, <1>1, <1>3, <1>4 DEF LocksInv, Shape
  <1>6. Order'
    <2>1. item_locks' > 0
      BY <1>0, <1>4
    <2>2. \A u \in Thread : thread'[u].pc \in Inside => Entered(thread'[u])
      BY <1>0, <1>1, <1>3 DEF LocksInv, Order, Entered, Inside, States
    <2> QED BY <2>1, <2>2 DEF Order
  <1>7. ASSUME Len(dicts') = 1
        PROVE  DOMAIN Locks' = {} /\ \A u \in Thread, i \in Item : Holds(u, i)' = 0
    <2>1. ~(item_locks > 0)
      BY <1>0, <1>4, <1>7
    <2>2. \A u \in Thread : thread[u].held = <<>>
      BY <2>1, Zenon DEF LocksInv, Order
    <2>3. \A u \in Thread : thread'[u].held = <<>>
      BY <1>1, <1>3, <2>2
    <2>4. ASSUME NEW u \in Thread, NEW i \in Item
          PROVE  Holds(u, i)' = 0
      <3>1. {d \in DOMAIN thread'[u].held : thread'[u].held[d] = i} = {}
        BY <2>3
      <3> QED BY <3>1, FS_EmptySet DEF Holds
    <2>5. Locks' = EmptyDict
      BY <1>0, <1>4 DEF Locks
    <2> QED BY <2>4, <2>5 DEF EmptyDict
  <1>8. HolderIsNamed' /\ Depths'
    BY <1>7 DEF HolderIsNamed, Depths, Counted
  <1>9. MadeOnce'
    <2>1. made \in [Thread -> {0, 1}] /\ made[t] = 0 /\ made' = [made EXCEPT ![t] = @ + 1]
      BY DEF LocksInv, MadeOnce, CreateDict
    <2>2. made' \in [Thread -> {0, 1}] /\ \A u \in Thread : u # t => made'[u] = made[u]
      BY <2>1
    <2>3. item_locks' > 0
      BY <1>0, <1>4
    <2> QED BY <1>1, <1>3, <2>2, <2>3 DEF LocksInv, MadeOnce, At
  <1> QED BY <1>5, <1>6, <1>8, <1>9 DEF LocksInv

\* A step of t that writes the last dictionary and ends in its body.
Writes(t, d, h) ==
    /\ d \in Dict /\ h \in Seq(Item) /\ Len(h) <= MaxDepth
    /\ item_locks > 0 /\ thread[t].pc # "creating"
    /\ dicts' = [dicts EXCEPT ![item_locks] = d]
    /\ item_locks' = item_locks /\ locks_mutex' = locks_mutex /\ made' = made
    /\ thread' \in [Thread -> Records]
    /\ thread'[t].held = h /\ thread'[t].pc = "body"
    /\ \A u \in Thread : u # t => thread'[u] = thread[u]

LEMMA WritesKeep ==
    ASSUME NEW t \in Thread, NEW d, NEW h, LocksInv, Writes(t, d, h)
    PROVE  /\ Shape' /\ Order' /\ MadeOnce'
           /\ Locks' = d /\ Len(dicts') = Len(dicts) /\ Locks \in Dict
           /\ \A i \in Item : Holds(t, i)' = Cardinality(Occurs(h, i))
           /\ \A u \in Thread, i \in Item : u # t => Holds(u, i)' = Holds(u, i)
  <1>0. /\ dicts \in Seq(Dict) /\ item_locks = Len(dicts) /\ item_locks > 0
        /\ Len(dicts) \in Nat /\ item_locks \in 1..Len(dicts) /\ d \in Dict
    BY LenProperties DEF LocksInv, Shape, Writes
  <1>1. dicts' \in Seq(Dict) /\ Len(dicts') = Len(dicts) /\ dicts'[item_locks] = d
    BY <1>0, ExceptSeq DEF Writes
  <1>2. Locks' = d /\ Locks \in Dict
    BY <1>0, <1>1, ElementOfSeq DEF Writes, Locks
  <1>3. Shape'
    BY <1>0, <1>1 DEF LocksInv, Shape, Writes
  <1>4. Order'
    BY <1>0 DEF LocksInv, Order, Writes, Inside, At
  <1>6. MadeOnce'
    BY DEF LocksInv, MadeOnce, Writes, At
  <1>7. \A i \in Item : Holds(t, i)' = Cardinality(Occurs(h, i))
    BY DEF Writes, Holds, Occurs
  <1>8. \A u \in Thread, i \in Item : u # t => Holds(u, i)' = Holds(u, i)
    BY DEF Writes, Holds
  <1> QED BY <1>1, <1>2, <1>3, <1>4, <1>6, <1>7, <1>8

LEMMA lock_itemKeepsInv ==
    ASSUME NEW t \in Thread, LocksInv, lock_item(t)
    PROVE  LocksInv'
  <1> DEFINE me == thread[t]
  <1>0. /\ thread \in [Thread -> Records] /\ me \in Records /\ me.pc = "trying"
        /\ item_locks > 0 /\ Entered(me) /\ me.held \in Seq(Item) /\ 0 \in 0..LOCK_MAX_RETRY
    <2>1. thread \in [Thread -> Records] /\ me \in Records /\ me.pc = "trying" /\ me.held \in Seq(Item)
      BY DEF LocksInv, Shape, lock_item, At, Records
    <2>2. 0 \in 0..LOCK_MAX_RETRY
      BY LocksAssumption
    <2>3. item_locks > 0 /\ Entered(me)
      BY <2>1 DEF LocksInv, Order, At, Inside, States
    <2> QED BY <2>1, <2>2, <2>3
  <1>1. PICK i \in Item : me.wants = {i}
    BY <1>0 DEF Entered
  <1>2. Wanted(t) = i
    BY <1>1 DEF Wanted
  <1> DEFINE h == Append(me.held, i)
             w == {}
             r == [me EXCEPT !.pc = "body", !.wants = w, !.attempt = 0, !.held = h]
  <1>3. h \in Seq(Item) /\ Len(h) = Len(me.held) + 1 /\ Len(me.held) \in Nat
    BY <1>0, AppendProperties, LenProperties
  <1>4. thread' = [thread EXCEPT ![t] = r]
    BY <1>0, <1>2 DEF lock_item
  <1>5. r \in Records /\ r.pc = "body" /\ r.held = h
    <2>1. w \in SUBSET Item
      OBVIOUS
    <2> HIDE DEF w, h
    <2> QED BY <1>0, <1>3, <2>1 DEF Records, States
  <1> HIDE DEF h, r
  <1>6. /\ thread' \in [Thread -> Records] /\ thread'[t] = r
        /\ \A u \in Thread : u # t => thread'[u] = thread[u]
    BY <1>0, <1>4, <1>5
  <1>7. item_locks \in 1..Len(dicts) /\ Locks \in Dict
    <2>1. item_locks \in 1..Len(dicts) /\ dicts \in Seq(Dict)
      BY <1>0, LenProperties DEF LocksInv, Shape
    <2> QED BY <2>1, ElementOfSeq DEF Locks
  <1>8. Taken(t, i) \in Dict
    BY <1>7, TakenIsDict
  <1>9. Writes(t, Taken(t, i), h)
    <2>1. Len(h) <= MaxDepth
      BY <1>0, <1>3, LocksAssumption DEF Entered
    <2>2. /\ dicts' = [dicts EXCEPT ![item_locks] = Taken(t, i)]
          /\ item_locks' = item_locks /\ locks_mutex' = locks_mutex /\ made' = made
      BY <1>2 DEF lock_item
    <2> QED BY <1>0, <1>3, <1>5, <1>6, <1>8, <2>1, <2>2 DEF Writes
  <1>10. /\ Shape' /\ Order' /\ MadeOnce'
         /\ Locks' = Taken(t, i) /\ Len(dicts') = Len(dicts)
         /\ \A j \in Item : Holds(t, j)' = Cardinality(Occurs(h, j))
         /\ \A u \in Thread, j \in Item : u # t => Holds(u, j)' = Holds(u, j)
    BY <1>9, WritesKeep
  <1>11. \A j \in Item : /\ Holds(t, j) \in Nat
                         /\ Holds(t, j)' = IF j = i THEN Holds(t, j) + 1 ELSE Holds(t, j)
    BY <1>0, <1>10, OccursAppend, OccursFinite DEF Holds, Occurs, h
  <1>12. /\ DOMAIN Locks' = DOMAIN Locks \cup {i}
         /\ \A j \in DOMAIN Locks : j # i => Locks'[j] = Locks[j]
         /\ Locks'[i].reason = t
         /\ Locks'[i].count = (IF i \in DOMAIN Locks THEN Locks[i].count ELSE 0) + 1
    BY <1>10 DEF Taken
  <1>13. i \in DOMAIN Locks => Locks[i].reason = t
    BY <1>2 DEF lock_item, Free
  <1>14. \A j \in DOMAIN Locks : Locks[j].reason \in Thread /\ Locks[j].count \in Nat
    BY <1>7, DictShape DEF Locking
  <1>15. HolderIsNamed'
    BY <1>10, <1>11, <1>12, <1>13 DEF LocksInv, HolderIsNamed
  <1>16. Depths'
    <2> SUFFICES ASSUME Len(dicts') = 1, NEW j \in Item
                 PROVE  Counted(j)'
      BY DEF Depths, Counted
    <2>1. Counted(j)
      BY <1>10 DEF LocksInv, Depths
    <2>2. CASE j = i
      BY <1>11, <1>12, <1>13, <1>14, <2>1, <2>2 DEF Counted
    <2>3. CASE j # i
      <3>1. \A u \in Thread : Holds(u, j)' = Holds(u, j)
        BY <1>10, <1>11, <2>3
      <3> QED BY <1>12, <1>14, <2>1, <2>3, <3>1 DEF Counted
    <2> QED BY <2>2, <2>3
  <1> QED BY <1>10, <1>15, <1>16 DEF LocksInv

LEMMA unlock_itemKeepsInv ==
    ASSUME NEW t \in Thread, LocksInv, unlock_item(t)
    PROVE  LocksInv'
  <1> DEFINE me == thread[t]
             h == SubSeq(me.held, 1, Len(me.held) - 1)
             r == [me EXCEPT !.held = h, !.pc = "body"]
  <1>0. /\ thread \in [Thread -> Records] /\ me \in Records /\ me.pc \in {"body", "failed"}
        /\ me.held \in Seq(Item) /\ me.held # <<>> /\ item_locks > 0 /\ Len(me.held) <= MaxDepth
    BY DEF LocksInv, Shape, Order, unlock_item, At, Records
  <1>1. PICK any \in Item : TRUE
    BY <1>0, EmptySeq, ElementOfSeq
  <1>a. me.held[Len(me.held)] \in Item
    BY <1>0, <1>1, OccursExit
  <1>b. PICK i \in Item : i = me.held[Len(me.held)]
    BY <1>a
  <1>2. h \in Seq(Item) /\ Len(h) = Len(me.held) - 1 /\ Len(me.held) \in Nat \ {0}
    BY <1>0, <1>1, OccursExit
  <1>4. thread' = [thread EXCEPT ![t] = r]
    BY <1>0 DEF unlock_item
  <1>5. r \in Records /\ r.pc = "body" /\ r.held = h
    <2> HIDE DEF h
    <2> QED BY <1>0, <1>2 DEF Records, States
  <1>3. \A j \in Item : Cardinality(Occurs(me.held, j)) =
            IF j = i THEN Cardinality(Occurs(h, j)) + 1 ELSE Cardinality(Occurs(h, j))
    BY <1>0, <1>b, OccursExit
  <1> HIDE DEF r
  <1>6. /\ thread' \in [Thread -> Records] /\ thread'[t] = r
        /\ \A u \in Thread : u # t => thread'[u] = thread[u]
    BY <1>0, <1>4, <1>5
  <1>7. item_locks \in 1..Len(dicts) /\ Locks \in Dict
    <2>1. item_locks \in 1..Len(dicts) /\ dicts \in Seq(Dict)
      BY <1>0, LenProperties DEF LocksInv, Shape
    <2> QED BY <2>1, ElementOfSeq DEF Locks
  <1>8. Unlocked(i) \in Dict
    BY <1>2, <1>7, UnlockedIsDict
  <1>9a. Len(h) <= MaxDepth
    BY <1>0, <1>2, LocksAssumption
  <1>9b. dicts' = [dicts EXCEPT ![item_locks] = Unlocked(i)] /\ item_locks' = item_locks
         /\ locks_mutex' = locks_mutex /\ made' = made
    BY <1>b DEF unlock_item
  <1> HIDE DEF h
  <1>9. Writes(t, Unlocked(i), h)
    BY <1>0, <1>2, <1>5, <1>6, <1>8, <1>9a, <1>9b DEF Writes
  <1>10. /\ Shape' /\ Order' /\ MadeOnce'
         /\ Locks' = Unlocked(i) /\ Len(dicts') = Len(dicts)
         /\ \A j \in Item : Holds(t, j)' = Cardinality(Occurs(h, j))
         /\ \A u \in Thread, j \in Item : u # t => Holds(u, j)' = Holds(u, j)
    BY <1>9, WritesKeep
  <1>11. \A j \in Item : /\ Holds(t, j)' \in Nat
                         /\ Holds(t, j) = IF j = i THEN Holds(t, j)' + 1 ELSE Holds(t, j)'
    BY <1>2, <1>3, <1>10, OccursFinite DEF Holds, Occurs
  <1>12. /\ DOMAIN Locks' = {k \in DOMAIN Locks : k # i \/ Locks[k].count > 1}
         /\ \A j \in DOMAIN Locks : j # i => Locks'[j] = Locks[j]
         /\ i \in DOMAIN Locks' => /\ Locks'[i].count = Locks[i].count - 1
                                    /\ Locks'[i].reason = Locks[i].reason
    <2>1. \A j \in DOMAIN Locks : Locks[j] \in Locking
      BY <1>7, DictShape
    <2> QED BY <1>10, <2>1 DEF Unlocked, Locking
  <1>14. \A j \in DOMAIN Locks : Locks[j].reason \in Thread /\ Locks[j].count \in Nat
    BY <1>7, DictShape DEF Locking
  <1> SUFFICES ASSUME Len(dicts') = 1
               PROVE  HolderIsNamed' /\ Depths'
    BY <1>10 DEF LocksInv, HolderIsNamed, Depths, Counted
  <1>13. i \in DOMAIN Locks /\ Locks[i].reason = t /\ Locks[i].count = Holds(t, i)
    <2>1. Holds(t, i) > 0 /\ Len(dicts) = 1
      <3>1. Holds(t, i)' \in Nat /\ Holds(t, i) = Holds(t, i)' + 1
        BY <1>2, <1>11
      <3>2. Holds(t, i) > 0
        BY ONLY <3>1
      <3>3. Len(dicts) = 1
        BY <1>10
      <3> QED BY <3>2, <3>3
    <2>2. i \in DOMAIN Locks /\ Locks[i].reason = t
      BY <1>2, <2>1 DEF LocksInv, HolderIsNamed
    <2> QED BY <1>2, <2>1, <2>2 DEF LocksInv, Depths, Counted
  <1>15. \A u \in Thread : u # t => ~(Holds(u, i) > 0)
    BY <1>2, <1>10, <1>13 DEF LocksInv, HolderIsNamed
  <1>16. HolderIsNamed'
    <2> SUFFICES ASSUME NEW u \in Thread, NEW j \in Item, Holds(u, j)' > 0
                 PROVE  j \in DOMAIN Locks' /\ Locks'[j].reason = u
      BY DEF HolderIsNamed
    <2>1. Holds(u, j) > 0
      BY <1>10, <1>11
    <2>2. j \in DOMAIN Locks /\ Locks[j].reason = u
      BY <1>10, <2>1 DEF LocksInv, HolderIsNamed
    <2>3. CASE j = i
      BY <1>2, <1>11, <1>12, <1>13, <2>2, <2>3
    <2>4. CASE j # i
      BY <1>12, <2>2, <2>4
    <2> QED BY <2>3, <2>4
  <1>17. Depths'
    <2> SUFFICES ASSUME NEW j \in Item
                 PROVE  Counted(j)'
      BY DEF Depths, Counted
    <2>1. Counted(j)
      BY <1>10 DEF LocksInv, Depths
    <2>2. CASE j = i /\ i \in DOMAIN Locks'
      BY <1>2, <1>11, <1>12, <1>13, <1>14, <2>2 DEF Counted
    <2>3. CASE j = i /\ i \notin DOMAIN Locks'
      <3>1. Holds(t, j)' = 0
        BY <1>2, <1>11, <1>12, <1>13, <2>3
      <3>2. Holds(t, j) \in Nat /\ \A u \in Thread : Holds(u, j) \in Nat
        BY OccursFinite DEF LocksInv, Shape, Records, Holds, Occurs
      <3>3. \A u \in Thread : Holds(u, j)' = 0
        BY <1>10, <1>15, <2>3, <3>1, <3>2
      <3> QED BY <2>3, <3>3 DEF Counted
    <2>4. CASE j # i
      <3>1. \A u \in Thread : Holds(u, j)' = Holds(u, j)
        BY <1>10, <1>11, <2>4
      <3> QED BY <1>12, <1>14, <2>1, <2>4, <3>1 DEF Counted
    <2> QED BY <2>2, <2>3, <2>4
  <1> QED BY <1>16, <1>17
-----------------------------------------------------------------------------
LEMMA LocksInvInductive == Spec => []LocksInv
  <1>1. Init => LocksInv
    <2> SUFFICES ASSUME Init PROVE LocksInv
      OBVIOUS
    <2>1. Shape
      <3>1. [pc |-> "body", wants |-> {}, attempt |-> 0, held |-> <<>>] \in Records
        BY LocksAssumption, EmptySeq DEF Records, States
      <3>2. thread \in [Thread -> Records] /\ \A t \in Thread : thread[t].held = <<>>
        BY <3>1 DEF Init
      <3>3. dicts \in Seq(Dict) /\ Len(dicts) = 0 /\ item_locks = 0 /\ locks_mutex \in BOOLEAN
        BY EmptySeq DEF Init
      <3> QED BY <3>2, <3>3, LocksAssumption, EmptySeq DEF Shape
    <2>2. Order
      BY DEF Init, Order, At, Inside
    <2>3. HolderIsNamed /\ Depths
      BY EmptySeq DEF Init, HolderIsNamed, Depths
    <2>4. MadeOnce
      BY DEF Init, MadeOnce, At
    <2> QED BY <2>1, <2>2, <2>3, <2>4 DEF LocksInv
  <1>2. LocksInv /\ [Next]_vars => LocksInv'
    <2> SUFFICES ASSUME LocksInv, [Next]_vars PROVE LocksInv'
      OBVIOUS
    <2>1. ASSUME NEW t \in Thread, Quiet(t) PROVE LocksInv'
      BY <2>1, QuietKeepsInv
    <2>2. ASSUME NEW t \in Thread, CreateDict(t) PROVE LocksInv'
      BY <2>2, CreateDictKeepsInv
    <2>3. ASSUME NEW t \in Thread, lock_item(t) PROVE LocksInv'
      BY <2>3, lock_itemKeepsInv
    <2>4. ASSUME NEW t \in Thread, unlock_item(t) PROVE LocksInv'
      BY <2>4, unlock_itemKeepsInv
    <2>5. CASE UNCHANGED vars
      <3>1. /\ item_locks' = item_locks /\ locks_mutex' = locks_mutex
            /\ dicts' = dicts /\ thread' = thread /\ made' = made
        BY <2>5 DEF vars
      <3>2. Shape' /\ Order' /\ MadeOnce'
        BY <3>1 DEF LocksInv, Shape, Order, MadeOnce, At
      <3>3. Locks' = Locks /\ \A u \in Thread, i \in Item : Holds(u, i)' = Holds(u, i)
        BY <3>1 DEF Locks, Holds
      <3>4. HolderIsNamed' /\ Depths'
        BY <3>1, <3>3 DEF LocksInv, HolderIsNamed, Depths, Counted
      <3> QED BY <3>2, <3>4 DEF LocksInv
    <2> QED BY <2>1, <2>2, <2>3, <2>4, <2>5 DEF Next, Entering, Quiet
  <1> QED BY <1>1, <1>2, PTL DEF Spec

\* The state has its type: the name always points at a dictionary that exists,
\* and no enter is retried more often than LOCK_MAX_RETRY (ServerStore.__enter__).
THEOREM LocksTypeOK == Spec => []TypeOK
  <1>1. LocksInv => TypeOK
    <2> SUFFICES ASSUME LocksInv PROVE TypeOK
      OBVIOUS
    <2>1. item_locks \in 0..Len(dicts)
      BY LenProperties DEF LocksInv, Shape
    <2> QED BY <2>1 DEF LocksInv, Shape, TypeOK, Records
  <1> QED BY <1>1, LocksInvInductive, PTL

\* With one dictionary made, two threads are never inside the same item
\* (ServerStore: "lock on enter, unlock on exit").
THEOREM LocksOneHolder == Spec => []OneHolder
  <1>1. LocksInv => OneHolder
    BY DEF LocksInv, HolderIsNamed, OneHolder
  <1> QED BY <1>1, LocksInvInductive, PTL

\* With one dictionary made, the count of lock_item and unlock_item is the depth
\* of the holder's nest, and no lock stays on an item nobody is in.
THEOREM LocksCountIsDepth == Spec => []CountIsDepth
  <1>1. LocksInv => CountIsDepth
    <2> SUFFICES ASSUME LocksInv, Len(dicts) = 1, NEW i \in Item
                 PROVE  IF i \in DOMAIN Locks
                        THEN Locks[i].count = Holds(Locks[i].reason, i) /\ Locks[i].count > 0
                        ELSE \A t \in Thread : Holds(t, i) = 0
      BY DEF CountIsDepth
    <2>1. item_locks \in 1..Len(dicts) /\ dicts \in Seq(Dict)
      BY DEF LocksInv, Shape
    <2>2. i \in DOMAIN Locks => Locks[i].reason \in Thread
      BY <2>1, ElementOfSeq, DictShape DEF Locks, Locking
    <2>3. Counted(i)
      BY DEF LocksInv, Depths
    <2> QED BY <2>2, <2>3 DEF Counted
  <1> QED BY <1>1, LocksInvInductive, PTL

\* No thread makes the lock dictionary twice (item_locks): a thread that found
\* none and made one finds it there ever after, however empty it gets.
THEOREM LocksEachCreatesOnce == Spec => []EachCreatesOnce
  <1>1. LocksInv => EachCreatesOnce
    BY DEF LocksInv, MadeOnce, EachCreatesOnce
  <1> QED BY <1>1, LocksInvInductive, PTL
=============================================================================
