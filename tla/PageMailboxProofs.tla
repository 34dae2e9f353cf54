------------------------- MODULE PageMailboxProofs -------------------------
(***************************************************************************)
(* Proofs about PageMailbox: what waits for a page, what a collect has     *)
(* retired and what the browser has received are always apart, each queue  *)
(* and each batch in arrival order, and no step of a collect drops a       *)
(* change or a STATE write except where the request itself fails.          *)
(***************************************************************************)
EXTENDS PageMailbox, SequenceTheorems, NaturalsInduction, WellFoundedInduction, TLAPS

CaptureKey == {[path |-> path, reason |-> "serverChange", fired |-> FALSE] : path \in Paths}

\* A change, and a queue of them.
OneChange == [key : Key \cup CaptureKey, arrival_ts : Nat, of : Nat]
Changes == Seq(OneChange)

Row == [datachanges : Changes, subscribed_paths : SUBSET Paths,
        user_view : [paths : SUBSET Paths, changes : Changes]]

Reply == [datachanges : Changes, dbevents : {<<>>}, store_changes : Changes]

\* The batches a request holds, by page.
Envelope == UNION {[Q -> Changes] : Q \in SUBSET Page}

Request == [pc : {"exchanging", "collecting", "next"}, page : Page, user : User,
            reply : Reply, children : SUBSET Page, envelope : Envelope]

Shape ==
    /\ clock \in Nat
    /\ user \in User
    /\ store \in Changes
    /\ DOMAIN rows \subseteq Page /\ \A p \in DOMAIN rows : rows[p] \in Row
    /\ DOMAIN page_datachange_map \subseteq Page
    /\ \A p \in DOMAIN page_datachange_map : page_datachange_map[p] \in Changes
    /\ page_dbevent_map = EmptyMap
    /\ \A u \in DOMAIN user_store_change_map : user_store_change_map[u] \in Changes
    /\ DOMAIN collects \subseteq Thread /\ \A t \in DOMAIN collects : collects[t] \in Request
    /\ delivered \in [Page -> Seq(Changes)]

\* A queue in arrival order, with nothing in it from after `now`.
InOrder(changes, now) == Sorted(changes) /\ \A x \in Stamps(changes) : x <= now

\* A request holds a reply only between its exchange and its drain, and no batch
\* yet of a page it has still to drain.
RequestOK(r, now) ==
    /\ r.page \notin r.children
    /\ r.children \cap DOMAIN r.envelope = {}
    /\ r.pc # "collecting" => r.reply = NoReply
    /\ r.pc # "next" => r.page \notin DOMAIN r.envelope
    /\ InOrder(r.reply.datachanges, now)
    /\ \A p \in DOMAIN r.envelope : InOrder(r.envelope[p], now)

RowOK(row, now) == InOrder(row.datachanges, now) /\ InOrder(row.user_view.changes, now)

AllInOrder ==
    /\ \A p \in DOMAIN rows : RowOK(rows[p], clock)
    /\ \A p \in DOMAIN page_datachange_map : InOrder(page_datachange_map[p], clock)
    /\ \A t \in DOMAIN collects : RequestOK(collects[t], clock)
    /\ \A p \in Page : \A batch \in ToSet(delivered[p]) : InOrder(batch, clock)

\* What request t holds for page p, if t is in one.
Mine(t, p) == IF t \in DOMAIN collects THEN Held(t, p) ELSE {}

OnRowStamps(p) == Stamps(rows[p].datachanges)
InViewStamps(p) == Stamps(rows[p].user_view.changes)
AtDeskStamps(p) == Stamps(Pending(page_datachange_map, p))

\* The three queues of a page have no change in common, and neither have two
\* requests that hold some of its mail.
Apart ==
    \A p \in DOMAIN rows :
        /\ OnRowStamps(p) \cap InViewStamps(p) = {}
        /\ OnRowStamps(p) \cap AtDeskStamps(p) = {}
        /\ InViewStamps(p) \cap AtDeskStamps(p) = {}
        /\ \A s, t \in DOMAIN collects : s # t => Held(s, p) \cap Held(t, p) = {}

MailInv == Shape /\ AllInOrder /\ Apart /\ MailDeliveredOnce
-----------------------------------------------------------------------------
(* Queues of changes: their stamps and their order. *)

LEMMA StampsIn ==
    ASSUME NEW s, NEW x
    PROVE  x \in Stamps(s) <=> \E i \in DOMAIN s : s[i].arrival_ts = x
  BY DEF Stamps, ToSet

LEMMA StampsAreNat ==
    ASSUME NEW s \in Changes
    PROVE  Stamps(s) \subseteq Nat
  <1>1. \A i \in DOMAIN s : s[i] \in OneChange
    BY ElementOfSeq, LenProperties DEF Changes
  <1>2. \A c \in OneChange : c.arrival_ts \in Nat
    BY DEF OneChange
  <1> QED BY <1>1, <1>2 DEF Stamps, ToSet

LEMMA NoChanges ==
    <<>> \in Changes /\ Stamps(<<>>) = {} /\ Sorted(<<>>) /\ ToSet(<<>>) = {}
  BY EmptySeq DEF Stamps, ToSet, Sorted, Changes

\* A change that arrives last joins its queue at the end.
LEMMA OneMoreChange ==
    ASSUME NEW s \in Changes, NEW c \in OneChange
    PROVE  /\ Append(s, c) \in Changes
           /\ Stamps(Append(s, c)) = Stamps(s) \cup {c.arrival_ts}
           /\ ToSet(Append(s, c)) = ToSet(s) \cup {c}
           /\ Sorted(s) /\ (\A x \in Stamps(s) : x < c.arrival_ts) => Sorted(Append(s, c))
  <1>1. /\ Append(s, c) \in Seq(OneChange)
        /\ DOMAIN Append(s, c) = 1..(Len(s) + 1) /\ DOMAIN s = 1..Len(s) /\ Len(s) \in Nat
        /\ \A i \in 1..Len(s) : Append(s, c)[i] = s[i]
        /\ Append(s, c)[Len(s) + 1] = c
    BY AppendProperties, LenProperties DEF Changes
  <1>2. \A i \in 1..(Len(s) + 1) : i \in 1..Len(s) \/ i = Len(s) + 1
    BY <1>1
  <1>3. 1..Len(s) \subseteq 1..(Len(s) + 1) /\ Len(s) + 1 \in 1..(Len(s) + 1)
    BY <1>1
  <1> DEFINE a == Append(s, c)
  <1> HIDE DEF a
  <1>4. /\ DOMAIN a = 1..(Len(s) + 1) /\ a[Len(s) + 1] = c
        /\ \A i \in 1..Len(s) : a[i] = s[i]
    BY <1>1 DEF a
  <1>5. ToSet(a) = ToSet(s) \cup {c}
    BY <1>1, <1>2, <1>3, <1>4 DEF ToSet
  <1>6. Stamps(a) = Stamps(s) \cup {c.arrival_ts}
    BY <1>5 DEF Stamps
  <1>7. ASSUME Sorted(s), \A x \in Stamps(s) : x < c.arrival_ts
        PROVE  Sorted(a)
    <2>1. \A i \in 1..Len(s) : s[i].arrival_ts < c.arrival_ts
      BY <1>1, <1>7, StampsIn
    <2>2. \A i, j \in 1..Len(s) : i < j => s[i].arrival_ts < s[j].arrival_ts
      BY <1>1, <1>7 DEF Sorted
    <2>3. SUFFICES ASSUME NEW i \in 1..(Len(s) + 1), NEW j \in 1..(Len(s) + 1), i < j
                   PROVE  a[i].arrival_ts < a[j].arrival_ts
      BY <1>4 DEF Sorted
    <2>4. i \in 1..Len(s)
      BY <1>1, <2>3
    <2>5. CASE j \in 1..Len(s)
      BY <1>4, <2>2, <2>3, <2>4, <2>5
    <2>6. CASE j = Len(s) + 1
      BY <1>4, <2>1, <2>4, <2>6
    <2> QED BY <1>2, <2>5, <2>6
  <1> QED BY <1>1, <1>5, <1>6, <1>7 DEF a, Changes

\* One queue after the other.
LEMMA TwoQueues ==
    ASSUME NEW s \in Changes, NEW r \in Changes
    PROVE  /\ s \o r \in Changes
           /\ Stamps(s \o r) = Stamps(s) \cup Stamps(r)
           /\ ToSet(s \o r) = ToSet(s) \cup ToSet(r)
           /\ Sorted(s) /\ Sorted(r) /\ (\A x \in Stamps(s), y \in Stamps(r) : x < y)
                 => Sorted(s \o r)
  <1>1. /\ s \o r \in Seq(OneChange) /\ Len(s) \in Nat /\ Len(r) \in Nat
        /\ DOMAIN s = 1..Len(s) /\ DOMAIN r = 1..Len(r)
        /\ DOMAIN (s \o r) = 1..(Len(s) + Len(r))
    BY ConcatProperties, LenProperties DEF Changes
  <1> DEFINE a == s \o r
  <1>2. \A i \in 1..Len(s) : a[i] = s[i]
    BY <1>1, ConcatProperties DEF Changes
  <1>3. \A i \in 1..Len(r) : a[Len(s) + i] = r[i]
    BY <1>1, ConcatProperties DEF Changes
  <1>4. \A i \in 1..(Len(s) + Len(r)) : i \in 1..Len(s) \/ (i - Len(s) \in 1..Len(r) /\ i > Len(s))
    BY <1>1
  <1>5. /\ 1..Len(s) \subseteq 1..(Len(s) + Len(r))
        /\ \A i \in 1..Len(r) : Len(s) + i \in 1..(Len(s) + Len(r))
        /\ \A i \in 1..(Len(s) + Len(r)) : Len(s) + (i - Len(s)) = i
    BY <1>1
  <1>6. DOMAIN a = 1..(Len(s) + Len(r))
    BY <1>1
  <1> HIDE DEF a
  <1>7. ToSet(a) = ToSet(s) \cup ToSet(r)
    <2>1. ASSUME NEW i \in DOMAIN a
          PROVE  a[i] \in ToSet(s) \cup ToSet(r)
      <3>1. CASE i \in 1..Len(s)
        BY <1>1, <1>2, <3>1 DEF ToSet
      <3>2. CASE i - Len(s) \in 1..Len(r)
        <4>1. a[i] = r[i - Len(s)]
          BY <1>3, <1>5, <1>6, <3>2
        <4> QED BY <1>1, <3>2, <4>1 DEF ToSet
      <3> QED BY <1>4, <1>6, <3>1, <3>2
    <2>2. \A i \in DOMAIN s : s[i] \in ToSet(a)
      BY <1>1, <1>2, <1>5, <1>6 DEF ToSet
    <2>3. \A i \in DOMAIN r : r[i] \in ToSet(a)
      BY <1>1, <1>3, <1>5, <1>6 DEF ToSet
    <2> QED BY <2>1, <2>2, <2>3 DEF ToSet
  <1>8. Stamps(a) = Stamps(s) \cup Stamps(r)
    BY <1>7 DEF Stamps
  <1>9. ASSUME Sorted(s), Sorted(r), \A x \in Stamps(s), y \in Stamps(r) : x < y
        PROVE  Sorted(a)
    <2>1. SUFFICES ASSUME NEW i \in 1..(Len(s) + Len(r)), NEW j \in 1..(Len(s) + Len(r)), i < j
                   PROVE  a[i].arrival_ts < a[j].arrival_ts
      BY <1>6 DEF Sorted
    <2>2. CASE i \in 1..Len(s) /\ j \in 1..Len(s)
      BY <1>1, <1>2, <1>9, <2>1, <2>2 DEF Sorted
    <2>3. CASE i \in 1..Len(s) /\ j - Len(s) \in 1..Len(r)
      <3>1. a[j] = r[j - Len(s)]
        BY <1>3, <1>5, <2>3
      <3>2. a[i].arrival_ts \in Stamps(s) /\ a[j].arrival_ts \in Stamps(r)
        BY <1>1, <1>2, <2>3, <3>1, StampsIn
      <3> QED BY <1>9, <3>2
    <2>4. CASE i - Len(s) \in 1..Len(r) /\ i > Len(s)
      <3>1. j - Len(s) \in 1..Len(r) /\ i - Len(s) < j - Len(s)
        BY <1>1, <2>1, <2>4
      <3>2. a[i] = r[i - Len(s)] /\ a[j] = r[j - Len(s)]
        BY <1>3, <1>5, <2>4, <3>1
      <3> QED BY <1>1, <1>9, <2>4, <3>1, <3>2 DEF Sorted
    <2> QED BY <1>4, <2>2, <2>3, <2>4
  <1> QED BY <1>1, <1>7, <1>8, <1>9 DEF a, Changes
-----------------------------------------------------------------------------
(* The loops over a queue, as recursive functions. *)

LEMMA NaturalsFrom ==
    ASSUME NEW S, 0 \in S, \A n \in S \cap Nat : n + 1 \in S
    PROVE  \A n \in Nat : n \in S
  <1> DEFINE R == {ss \in Nat \X Nat : ss[1] < ss[2]}
             T == {n \in Nat : n \notin S}
  <1>1. IsWellFoundedOn(R, Nat)
    BY NatLessThanWellFounded DEF OpToRel
  <1>2. SUFFICES ASSUME T # {} PROVE FALSE
    OBVIOUS
  <1>3. T \subseteq Nat
    OBVIOUS
  <1>4. PICK x \in T : \A y \in T : <<y, x>> \notin R
    <2> HIDE DEF R, T
    <2> QED BY <1>1, <1>2, <1>3, WFMin
  <1>5. x \in Nat /\ x # 0 /\ x \notin S
    OBVIOUS
  <1>6. x - 1 \in Nat /\ (x - 1) + 1 = x
    BY <1>5
  <1>7. x - 1 \notin T
    <2>1. <<x - 1, x>> \in R
      BY <1>5, <1>6
    <2> QED BY <1>4, <2>1
  <1>8. x - 1 \in S \cap Nat
    BY <1>6, <1>7
  <1> QED BY <1>5, <1>6, <1>8

\* kept is what the loop of Kept holds after each change of the queue.
KeepLoop(kept, queue, keep, last) ==
    kept = [n \in 0..last |->
              IF n = 0 THEN <<>>
              ELSE IF queue[n] \in keep THEN Append(kept[n - 1], queue[n]) ELSE kept[n - 1]]

LEMMA KeepLoopRuns ==
    ASSUME NEW queue, NEW keep, NEW last \in Nat
    PROVE  \E kept : KeepLoop(kept, queue, keep, last)
  <1> DEFINE S == {n \in Nat : \E kept : KeepLoop(kept, queue, keep, n)}
             Step(n, before) == IF queue[n] \in keep THEN Append(before, queue[n]) ELSE before
  <1>1. 0 \in S
    <2> DEFINE f == [n \in 0..0 |-> <<>>]
    <2>1. KeepLoop(f, queue, keep, 0)
      BY DEF KeepLoop
    <2> QED BY <2>1
  <1>2. ASSUME NEW n \in S \cap Nat
        PROVE  n + 1 \in S
    <2>1. PICK f : KeepLoop(f, queue, keep, n)
      OBVIOUS
    <2>2. f = [k \in 0..n |-> IF k = 0 THEN <<>> ELSE Step(k, f[k - 1])]
      BY <2>1 DEF KeepLoop
    <2> DEFINE g == [k \in 0..(n + 1) |-> IF k = n + 1 THEN Step(n + 1, f[n]) ELSE f[k]]
               h == [k \in 0..(n + 1) |-> IF k = 0 THEN <<>> ELSE Step(k, g[k - 1])]
    <2> HIDE DEF Step
    <2>3. ASSUME NEW k \in 0..(n + 1)
          PROVE  g[k] = h[k]
      <3>1. CASE k = 0
        <4>1. f[0] = <<>>
          BY <2>2
        <4> QED BY <3>1, <4>1
      <3>2. CASE k = n + 1
        <4>1. k - 1 = n /\ k # 0 /\ n \in 0..(n + 1) /\ n # n + 1
          BY <3>2
        <4> QED BY <3>2, <4>1
      <3>3. CASE k # 0 /\ k # n + 1
        <4>1. k \in 0..n /\ k - 1 \in 0..n /\ k - 1 \in 0..(n + 1) /\ k - 1 # n + 1
          BY <3>3
        <4>2. f[k] = Step(k, f[k - 1])
          BY <2>2, <3>3, <4>1
        <4> QED BY <3>3, <4>1, <4>2
      <3> QED BY <3>1, <3>2, <3>3
    <2>4. g = h
      BY <2>3
    <2>5. KeepLoop(g, queue, keep, n + 1)
      BY <2>4 DEF KeepLoop, Step
    <2> QED BY <2>5
  <1>3. last \in S
    <2> HIDE DEF S
    <2> QED BY <1>1, <1>2, NaturalsFrom
  <1> QED BY <1>3

\* What Kept leaves is of the queue and in its order.
LEMMA KeptOfQueue ==
    ASSUME NEW s \in Changes, NEW keep
    PROVE  /\ Kept(s, keep) \in Changes
           /\ ToSet(Kept(s, keep)) = ToSet(s) \cap keep
           /\ Sorted(s) => Sorted(Kept(s, keep))
  <1>0. Len(s) \in Nat /\ DOMAIN s = 1..Len(s) /\ \A i \in 1..Len(s) : s[i] \in OneChange
    BY ElementOfSeq, LenProperties DEF Changes
  <1> DEFINE kept == CHOOSE f : KeepLoop(f, s, keep, Len(s))
  <1>1. KeepLoop(kept, s, keep, Len(s))
    BY <1>0, KeepLoopRuns
  <1>2. Kept(s, keep) = kept[Len(s)]
    BY DEF Kept, KeepLoop
  <1> HIDE DEF kept
  <1>3. kept[0] = <<>>
    BY <1>0, <1>1 DEF KeepLoop
  <1>4. \A n \in 1..Len(s) :
           kept[n] = IF s[n] \in keep THEN Append(kept[n - 1], s[n]) ELSE kept[n - 1]
    <2> DEFINE Step(n, before) == IF s[n] \in keep THEN Append(before, s[n]) ELSE before
    <2>1. kept = [n \in 0..Len(s) |-> IF n = 0 THEN <<>> ELSE Step(n, kept[n - 1])]
      BY <1>1 DEF KeepLoop
    <2> HIDE DEF Step
    <2>2. \A n \in 1..Len(s) : kept[n] = Step(n, kept[n - 1])
      BY <1>0, <2>1
    <2> QED BY <2>2 DEF Step
  <1> DEFINE First(n) == {s[i] : i \in 1..n}
             Good(n) == /\ kept[n] \in Changes
                        /\ ToSet(kept[n]) = First(n) \cap keep
                        /\ Sorted(s) => Sorted(kept[n])
             S == {n \in Nat : n <= Len(s) => Good(n)}
  <1>5. 0 \in S
    <2>1. First(0) = {}
      OBVIOUS
    <2> QED BY <1>3, <2>1, NoChanges
  <1>6. ASSUME NEW n \in S \cap Nat
        PROVE  n + 1 \in S
    <2>1. SUFFICES ASSUME n + 1 <= Len(s) PROVE Good(n + 1)
      OBVIOUS
    <2>2. n + 1 \in 1..Len(s) /\ (n + 1) - 1 = n /\ Good(n) /\ n <= Len(s)
      BY <1>0, <2>1
    <2> HIDE DEF Good
    <2>3. /\ kept[n] \in Changes /\ ToSet(kept[n]) = First(n) \cap keep
          /\ Sorted(s) => Sorted(kept[n])
      BY <2>2 DEF Good
    <2>4. First(n + 1) = First(n) \cup {s[n + 1]}
      <3>1. 1..(n + 1) = (1..n) \cup {n + 1}
        OBVIOUS
      <3> QED BY <3>1
    <2>5. s[n + 1] \in OneChange
      BY <1>0, <2>2
    <2>6. CASE s[n + 1] \notin keep
      <3>1. kept[n + 1] = kept[n]
        BY <1>4, <2>2, <2>6
      <3>2. First(n + 1) \cap keep = First(n) \cap keep
        BY <2>4, <2>6
      <3> QED BY <2>3, <3>1, <3>2 DEF Good
    <2>7. CASE s[n + 1] \in keep
      <3>1. kept[n + 1] = Append(kept[n], s[n + 1])
        BY <1>4, <2>2, <2>7
      <3>2. First(n + 1) \cap keep = (First(n) \cap keep) \cup {s[n + 1]}
        BY <2>4, <2>7
      <3>3. ASSUME Sorted(s) PROVE \A x \in Stamps(kept[n]) : x < s[n + 1].arrival_ts
        <4>1. \A i \in 1..n : s[i].arrival_ts < s[n + 1].arrival_ts
          <5>1. \A i \in 1..n : i \in DOMAIN s /\ i < n + 1
            BY <1>0, <2>2
          <5>2. n + 1 \in DOMAIN s
            BY <1>0, <2>2
          <5> QED BY <3>3, <5>1, <5>2 DEF Sorted
        <4>2. \A c \in ToSet(kept[n]) : c \in First(n)
          BY <2>3
        <4> QED BY <4>1, <4>2 DEF Stamps
      <3> QED BY <2>3, <2>5, <3>1, <3>2, <3>3, OneMoreChange DEF Good
    <2> QED BY <2>6, <2>7
  <1>7. Len(s) \in S
    <2> HIDE DEF S
    <2> QED BY <1>0, <1>5, <1>6, NaturalsFrom
  <1>8. Good(Len(s))
    BY <1>0, <1>7
  <1>9. First(Len(s)) = ToSet(s)
    BY <1>0 DEF ToSet
  <1> QED BY <1>2, <1>8, <1>9

LEMMA KeptStamps ==
    ASSUME NEW s \in Changes, NEW keep
    PROVE  Stamps(Kept(s, keep)) \subseteq Stamps(s)
  BY KeptOfQueue DEF Stamps
-----------------------------------------------------------------------------
(* heapq.merge. *)

\* How many changes come from a after n of them, when `before` did before.
TakenNext(a, b, n, before) ==
    LET i == before + 1  j == n - before
    IN  IF i <= Len(a) /\ (j <= Len(b) => a[i].arrival_ts <= b[j].arrival_ts)
        THEN i ELSE i - 1

MergeLoop(taken, a, b, last) ==
    taken = [n \in 0..last |-> IF n = 0 THEN 0 ELSE TakenNext(a, b, n, taken[n - 1])]

LEMMA MergeLoopRuns ==
    ASSUME NEW a, NEW b, NEW last \in Nat
    PROVE  \E taken : MergeLoop(taken, a, b, last)
  <1> DEFINE S == {n \in Nat : \E taken : MergeLoop(taken, a, b, n)}
  <1>1. 0 \in S
    <2> DEFINE f == [n \in 0..0 |-> 0]
    <2>1. MergeLoop(f, a, b, 0)
      BY DEF MergeLoop
    <2> QED BY <2>1
  <1>2. ASSUME NEW n \in S \cap Nat
        PROVE  n + 1 \in S
    <2>1. PICK f : MergeLoop(f, a, b, n)
      OBVIOUS
    <2> DEFINE g == [k \in 0..(n + 1) |-> IF k = n + 1 THEN TakenNext(a, b, n + 1, f[n]) ELSE f[k]]
               h == [k \in 0..(n + 1) |-> IF k = 0 THEN 0 ELSE TakenNext(a, b, k, g[k - 1])]
    <2>2. ASSUME NEW k \in 0..(n + 1)
          PROVE  g[k] = h[k]
      <3>1. CASE k = 0
        <4>1. f[0] = 0
          BY <2>1 DEF MergeLoop
        <4> QED BY <3>1, <4>1
      <3>2. CASE k = n + 1
        <4>1. k - 1 = n /\ k # 0 /\ n \in 0..(n + 1) /\ n # n + 1
          BY <3>2
        <4> QED BY <3>2, <4>1
      <3>3. CASE k # 0 /\ k # n + 1
        <4>1. k \in 0..n /\ k - 1 \in 0..n /\ k - 1 \in 0..(n + 1) /\ k - 1 # n + 1
          BY <3>3
        <4>2. f[k] = TakenNext(a, b, k, f[k - 1])
          BY <2>1, <3>3, <4>1 DEF MergeLoop
        <4> QED BY <3>3, <4>1, <4>2
      <3> QED BY <3>1, <3>2, <3>3
    <2>3. g = h
      BY <2>2
    <2>4. MergeLoop(g, a, b, n + 1)
      BY <2>3 DEF MergeLoop
    <2> QED BY <2>4
  <1>3. last \in S
    <2> HIDE DEF S
    <2> QED BY <1>1, <1>2, NaturalsFrom
  <1> QED BY <1>3

\* Every step of the merge takes the head of one list; of b only when it is
\* earlier than the head of a, if a has one.
LEMMA MergeSteps ==
    ASSUME NEW a \in Changes, NEW b \in Changes
    PROVE  \E taken :
              /\ taken[0] = 0
              /\ \A n \in 0..(Len(a) + Len(b)) : taken[n] \in 0..Len(a) /\ n - taken[n] \in 0..Len(b)
              /\ Merged(a, b) = [n \in 1..(Len(a) + Len(b)) |-> Merged(a, b)[n]]
              /\ \A n \in 1..(Len(a) + Len(b)) :
                    LET i == taken[n - 1] + 1  j == n - taken[n - 1]
                    IN  \/ /\ taken[n] = i /\ i <= Len(a) /\ Merged(a, b)[n] = a[i]
                           /\ j <= Len(b) => a[i].arrival_ts <= b[j].arrival_ts
                        \/ /\ taken[n] = i - 1 /\ j <= Len(b) /\ Merged(a, b)[n] = b[j]
                           /\ i <= Len(a) => ~(a[i].arrival_ts <= b[j].arrival_ts)
  <1> DEFINE N == Len(a) + Len(b)
  <1>0. Len(a) \in Nat /\ Len(b) \in Nat /\ N \in Nat
    BY LenProperties DEF Changes
  <1> DEFINE taken == CHOOSE f : MergeLoop(f, a, b, N)
             out == [n \in 1..N |-> IF taken[n] > taken[n - 1] THEN a[taken[n]] ELSE b[n - taken[n]]]
  <1>1. MergeLoop(taken, a, b, N)
    BY <1>0, MergeLoopRuns
  <1>2. Merged(a, b) = out
    BY DEF Merged, MergeLoop, TakenNext
  <1> HIDE DEF taken, N
  <1>3. taken[0] = 0 /\ \A n \in 1..N : taken[n] = TakenNext(a, b, n, taken[n - 1])
    BY <1>0, <1>1 DEF MergeLoop
  <1> DEFINE In(n) == taken[n] \in 0..Len(a) /\ n - taken[n] \in 0..Len(b)
             S == {n \in Nat : n <= N => In(n)}
  <1>4. 0 \in S
    BY <1>0, <1>3
  <1>5. ASSUME NEW n \in S \cap Nat
        PROVE  n + 1 \in S
    <2>1. SUFFICES ASSUME n + 1 <= N PROVE In(n + 1)
      OBVIOUS
    <2>2. n + 1 \in 1..N /\ (n + 1) - 1 = n /\ In(n)
      BY <1>0, <2>1
    <2>3. taken[n + 1] = TakenNext(a, b, n + 1, taken[n])
      BY <1>3, <2>2
    <2>4. taken[n] \in Nat /\ taken[n] <= Len(a) /\ n - taken[n] \in Nat /\ n - taken[n] <= Len(b)
      BY <1>0, <2>2
    <2>5. CASE taken[n + 1] = taken[n] + 1 /\ taken[n] + 1 <= Len(a)
      BY <1>0, <2>4, <2>5
    <2>6. CASE taken[n + 1] = (taken[n] + 1) - 1 /\ (taken[n] + 1 > Len(a) \/ (n + 1) - taken[n] <= Len(b))
      BY <1>0, <2>1, <2>4, <2>6 DEF N
    <2> QED BY <1>0, <2>3, <2>4, <2>5, <2>6 DEF TakenNext
  <1>6. \A n \in Nat : n \in S
    <2> HIDE DEF S
    <2> QED BY <1>4, <1>5, NaturalsFrom
  <1>7. \A n \in 0..N : In(n)
    BY <1>0, <1>6
  <1>8. ASSUME NEW n \in 1..N
        PROVE  LET i == taken[n - 1] + 1  j == n - taken[n - 1]
               IN  \/ /\ taken[n] = i /\ i <= Len(a) /\ out[n] = a[i]
                      /\ j <= Len(b) => a[i].arrival_ts <= b[j].arrival_ts
                   \/ /\ taken[n] = i - 1 /\ j <= Len(b) /\ out[n] = b[j]
                      /\ i <= Len(a) => ~(a[i].arrival_ts <= b[j].arrival_ts)
    <2> DEFINE i == taken[n - 1] + 1
               j == n - taken[n - 1]
    <2>1. n - 1 \in 0..N /\ n \in 0..N /\ n \in Nat
      BY <1>0
    <2>2. In(n) /\ In(n - 1)
      BY <1>7, <2>1
    <2>3. taken[n - 1] \in Nat /\ taken[n] \in Nat /\ i \in Nat /\ j \in Int /\ i - 1 = taken[n - 1]
      BY <1>0, <2>1, <2>2
    <2>4. taken[n] = IF i <= Len(a) /\ (j <= Len(b) => a[i].arrival_ts <= b[j].arrival_ts)
                     THEN i ELSE i - 1
      BY <1>3 DEF TakenNext
    <2>5. CASE i <= Len(a) /\ (j <= Len(b) => a[i].arrival_ts <= b[j].arrival_ts)
      <3>1. taken[n] = i /\ taken[n] > taken[n - 1]
        BY <2>3, <2>4, <2>5
      <3> QED BY <2>5, <3>1
    <2>6. CASE ~(i <= Len(a) /\ (j <= Len(b) => a[i].arrival_ts <= b[j].arrival_ts))
      <3>1. taken[n] = i - 1 /\ ~(taken[n] > taken[n - 1]) /\ taken[n] = taken[n - 1]
        BY <2>3, <2>4, <2>6
      <3>2. out[n] = b[j]
        BY <3>1
      <3>3. j <= Len(b)
        BY <1>0, <2>1, <2>2, <3>1
      <3> QED BY <2>6, <3>1, <3>2, <3>3
    <2> QED BY <2>5, <2>6
  <1>9. out = [n \in 1..N |-> out[n]]
    OBVIOUS
  <1> HIDE DEF out
  <1> QED BY <1>2, <1>3, <1>7, <1>8, <1>9 DEF N

\* The merge of two lists has the changes of both; two lists in arrival order
\* with no change in common merge into one in arrival order.
LEMMA MergedQueues ==
    ASSUME NEW a \in Changes, NEW b \in Changes
    PROVE  /\ Merged(a, b) \in Changes
           /\ ToSet(Merged(a, b)) = ToSet(a) \cup ToSet(b)
           /\ Stamps(Merged(a, b)) = Stamps(a) \cup Stamps(b)
           /\ Sorted(a) /\ Sorted(b) /\ Stamps(a) \cap Stamps(b) = {} => Sorted(Merged(a, b))
  <1> DEFINE N == Len(a) + Len(b)
             m == Merged(a, b)
  <1>0. /\ Len(a) \in Nat /\ Len(b) \in Nat /\ N \in Nat
        /\ DOMAIN a = 1..Len(a) /\ DOMAIN b = 1..Len(b)
        /\ \A i \in 1..Len(a) : a[i] \in OneChange
        /\ \A i \in 1..Len(b) : b[i] \in OneChange
    BY ElementOfSeq, LenProperties DEF Changes
  <1>1. PICK taken :
           /\ taken[0] = 0
           /\ \A n \in 0..N : taken[n] \in 0..Len(a) /\ n - taken[n] \in 0..Len(b)
           /\ m = [n \in 1..N |-> m[n]]
           /\ \A n \in 1..N :
                    LET i == taken[n - 1] + 1  j == n - taken[n - 1]
                    IN  \/ /\ taken[n] = i /\ i <= Len(a) /\ m[n] = a[i]
                           /\ j <= Len(b) => a[i].arrival_ts <= b[j].arrival_ts
                        \/ /\ taken[n] = i - 1 /\ j <= Len(b) /\ m[n] = b[j]
                           /\ i <= Len(a) => ~(a[i].arrival_ts <= b[j].arrival_ts)
    BY MergeSteps
  <1> HIDE DEF m, N
  <1>2. DOMAIN m = 1..N
    BY <1>1
  <1> DEFINE FromA(n) == /\ taken[n] = taken[n - 1] + 1 /\ taken[n] \in 1..Len(a)
                         /\ n - taken[n] = (n - 1) - taken[n - 1]
                         /\ m[n] = a[taken[n]]
                         /\ (n - taken[n]) + 1 <= Len(b)
                              => a[taken[n]].arrival_ts <= b[(n - taken[n]) + 1].arrival_ts
             FromB(n) == /\ taken[n] = taken[n - 1] /\ n - taken[n] \in 1..Len(b)
                         /\ n - taken[n] = ((n - 1) - taken[n - 1]) + 1
                         /\ m[n] = b[n - taken[n]]
                         /\ taken[n] + 1 <= Len(a)
                              => ~(a[taken[n] + 1].arrival_ts <= b[n - taken[n]].arrival_ts)
  <1>4. ASSUME NEW n \in 1..N
        PROVE  FromA(n) \/ FromB(n)
    <2>1. n - 1 \in 0..N /\ n \in 0..N /\ n \in Nat
      BY <1>0
    <2>2. /\ taken[n - 1] \in 0..Len(a) /\ (n - 1) - taken[n - 1] \in 0..Len(b)
          /\ taken[n] \in 0..Len(a) /\ n - taken[n] \in 0..Len(b)
      BY <1>1, <2>1
    <2>3. taken[n] \in Nat /\ taken[n - 1] \in Nat
      BY <1>0, <2>2
    <2> DEFINE i == taken[n - 1] + 1
               j == n - taken[n - 1]
    <2>4. \/ /\ taken[n] = i /\ i <= Len(a) /\ m[n] = a[i]
             /\ j <= Len(b) => a[i].arrival_ts <= b[j].arrival_ts
          \/ /\ taken[n] = i - 1 /\ j <= Len(b) /\ m[n] = b[j]
             /\ i <= Len(a) => ~(a[i].arrival_ts <= b[j].arrival_ts)
      BY <1>1
    <2>5. CASE /\ taken[n] = i /\ i <= Len(a) /\ m[n] = a[i]
               /\ j <= Len(b) => a[i].arrival_ts <= b[j].arrival_ts
      <3>1. (n - taken[n]) + 1 = j /\ taken[n] \in 1..Len(a) /\ n - taken[n] = (n - 1) - taken[n - 1]
        BY <1>0, <2>1, <2>2, <2>3, <2>5
      <3> QED BY <2>5, <3>1
    <2>6. CASE /\ taken[n] = i - 1 /\ j <= Len(b) /\ m[n] = b[j]
               /\ i <= Len(a) => ~(a[i].arrival_ts <= b[j].arrival_ts)
      <3>0. taken[n] = i - 1 /\ j <= Len(b) /\ (n - 1) - taken[n - 1] \in Nat
        BY <1>0, <2>2, <2>6
      <3>1. /\ n - taken[n] = j /\ taken[n] = taken[n - 1] /\ taken[n] + 1 = i
            /\ j \in 1..Len(b) /\ j = ((n - 1) - taken[n - 1]) + 1
        BY <1>0, <2>1, <2>3, <3>0
      <3> QED BY <2>6, <3>1
    <2> QED BY <2>4, <2>5, <2>6
  <1>5. \A n \in 1..N : m[n] \in OneChange
    BY <1>0, <1>4
  <1>6. m \in Changes
    <2>1. N \in Nat /\ m = [n \in 1..N |-> m[n]]
      BY <1>0, <1>1
    <2> HIDE DEF FromA, FromB
    <2>2. [n \in 1..N |-> m[n]] \in Seq(OneChange)
      BY <1>5, <2>1
    <2> QED BY <2>1, <2>2 DEF Changes
  <1> DEFINE First(s, n) == {s[i] : i \in 1..n}
             Out(n) == First(m, n) = First(a, taken[n]) \cup First(b, n - taken[n])
             S == {n \in Nat : n <= N => Out(n)}
  <1>7. \A s : \A n \in Nat : First(s, n + 1) = First(s, n) \cup {s[n + 1]}
    <2>1. \A n \in Nat : 1..(n + 1) = (1..n) \cup {n + 1}
      OBVIOUS
    <2> QED BY <2>1
  <1>8. 0 \in S
    BY <1>0, <1>1
  <1>9. ASSUME NEW n \in S \cap Nat
        PROVE  n + 1 \in S
    <2> HIDE DEF Out
    <2>1. SUFFICES ASSUME n + 1 <= N PROVE Out(n + 1)
      OBVIOUS
    <2>2. n + 1 \in 1..N /\ (n + 1) - 1 = n /\ Out(n) /\ n \in 0..N
      BY <1>0, <2>1
    <2> USE DEF Out
    <2>3. taken[n] \in Nat /\ n - taken[n] \in Nat
      BY <1>0, <1>1, <2>2
    <2> HIDE DEF First
    <2>4. First(m, n + 1) = First(m, n) \cup {m[n + 1]}
      BY <1>7
    <2>5. CASE FromA(n + 1)
      <3>1. /\ taken[n + 1] = taken[n] + 1 /\ (n + 1) - taken[n + 1] = n - taken[n]
            /\ m[n + 1] = a[taken[n] + 1]
        BY <2>2, <2>5
      <3>2. First(a, taken[n] + 1) = First(a, taken[n]) \cup {a[taken[n] + 1]}
        BY <1>7, <2>3
      <3> QED BY <2>2, <2>4, <3>1, <3>2
    <2>6. CASE FromB(n + 1)
      <3>1. /\ taken[n + 1] = taken[n] /\ (n + 1) - taken[n + 1] = (n - taken[n]) + 1
            /\ m[n + 1] = b[(n - taken[n]) + 1]
        BY <2>2, <2>6
      <3>2. First(b, (n - taken[n]) + 1) = First(b, n - taken[n]) \cup {b[(n - taken[n]) + 1]}
        BY <1>7, <2>3
      <3> QED BY <2>2, <2>4, <3>1, <3>2
    <2> QED BY <1>4, <2>2, <2>5, <2>6
  <1>10. Out(N)
    <2>1. N \in S
      <3> HIDE DEF S
      <3> QED BY <1>0, <1>8, <1>9, NaturalsFrom
    <2> HIDE DEF Out
    <2> QED BY <1>0, <2>1
  <1>11. taken[N] = Len(a) /\ N - taken[N] = Len(b)
    <2>1. taken[N] \in 0..Len(a) /\ N - taken[N] \in 0..Len(b)
      BY <1>0, <1>1
    <2> QED BY <1>0, <2>1 DEF N
  <1>12. ToSet(m) = ToSet(a) \cup ToSet(b)
    BY <1>0, <1>2, <1>10, <1>11 DEF ToSet
  <1>13. Stamps(m) = Stamps(a) \cup Stamps(b)
    BY <1>12 DEF Stamps
  <1>14. ASSUME Sorted(a), Sorted(b), Stamps(a) \cap Stamps(b) = {}
         PROVE  Sorted(m)
    <2>1. /\ \A i \in 1..Len(a) : a[i].arrival_ts \in Nat /\ a[i].arrival_ts \in Stamps(a)
          /\ \A i \in 1..Len(b) : b[i].arrival_ts \in Nat /\ b[i].arrival_ts \in Stamps(b)
      BY <1>0, StampsIn DEF OneChange
    <2>2. \A i \in 1..Len(a), j \in 1..Len(b) : a[i].arrival_ts # b[j].arrival_ts
      BY <1>14, <2>1
    <2>3. /\ \A i, j \in 1..Len(a) : i < j => a[i].arrival_ts < a[j].arrival_ts
          /\ \A i, j \in 1..Len(b) : i < j => b[i].arrival_ts < b[j].arrival_ts
      BY <1>0, <1>14 DEF Sorted
    <2> DEFINE Ahead(x, n) ==
                 /\ \A y \in 1..Len(a) : y > taken[n] => x.arrival_ts < a[y].arrival_ts
                 /\ \A y \in 1..Len(b) : y > n - taken[n] => x.arrival_ts < b[y].arrival_ts
               T == {n \in Nat : n <= N => \A x \in 1..n : Ahead(m[x], n)}
    <2>4. ASSUME NEW n \in 1..N
          PROVE  Ahead(m[n], n)
      <3>0. taken[n] \in Nat /\ n - taken[n] \in Nat /\ taken[n] <= Len(a) /\ n - taken[n] <= Len(b)
        BY <1>0, <1>1
      <3>1. CASE FromA(n)
        <4> DEFINE k == taken[n]
                   l == (n - taken[n]) + 1
        <4>0. k \in 1..Len(a) /\ m[n] = a[k]
          BY <3>1
        <4>1. k \in 1..Len(a) /\ m[n] = a[k] /\ l \in Nat \ {0}
          BY <3>0, <4>0
        <4>2. \A y \in 1..Len(a) : y > k => a[k].arrival_ts < a[y].arrival_ts
          BY <2>3, <4>1
        <4>3. ASSUME NEW y \in 1..Len(b), y > n - taken[n]
              PROVE  a[k].arrival_ts < b[y].arrival_ts
          <5>1. l \in 1..Len(b) /\ l <= y
            BY <1>0, <3>0, <4>1, <4>3
          <5>2. a[k].arrival_ts < b[l].arrival_ts
            BY <2>1, <2>2, <3>1, <4>1, <5>1
          <5>3. l = y \/ b[l].arrival_ts < b[y].arrival_ts
            BY <2>3, <5>1
          <5> QED BY <2>1, <4>1, <5>1, <5>2, <5>3
        <4> QED BY <4>1, <4>2, <4>3
      <3>2. CASE FromB(n)
        <4> DEFINE k == n - taken[n]
                   l == taken[n] + 1
        <4>1. k \in 1..Len(b) /\ m[n] = b[k] /\ l \in Nat \ {0}
          BY <3>0, <3>2
        <4>2. \A y \in 1..Len(b) : y > k => b[k].arrival_ts < b[y].arrival_ts
          BY <2>3, <4>1
        <4>3. ASSUME NEW y \in 1..Len(a), y > taken[n]
              PROVE  b[k].arrival_ts < a[y].arrival_ts
          <5>1. l \in 1..Len(a) /\ l <= y
            BY <1>0, <3>0, <4>1, <4>3
          <5>2. b[k].arrival_ts < a[l].arrival_ts
            BY <2>1, <2>2, <3>2, <4>1, <5>1
          <5>3. l = y \/ a[l].arrival_ts < a[y].arrival_ts
            BY <2>3, <5>1
          <5> QED BY <2>1, <4>1, <5>1, <5>2, <5>3
        <4> QED BY <4>1, <4>2, <4>3
      <3> QED BY <1>4, <3>1, <3>2
    <2>5. 0 \in T
      OBVIOUS
    <2>6. ASSUME NEW n \in T \cap Nat
          PROVE  n + 1 \in T
      <3>1. SUFFICES ASSUME n + 1 <= N, NEW x \in 1..(n + 1)
                     PROVE  Ahead(m[x], n + 1)
        OBVIOUS
      <3>2. n + 1 \in 1..N /\ n \in 0..N /\ (n + 1) - 1 = n /\ \A z \in 1..n : Ahead(m[z], n)
        BY <1>0, <3>1
      <3>3. CASE x = n + 1
        BY <2>4, <3>2, <3>3
      <3>4. CASE x \in 1..n
        <4>1. /\ taken[n] \in Nat /\ n - taken[n] \in Nat
              /\ taken[n + 1] \in Nat /\ (n + 1) - taken[n + 1] \in Nat
          BY <1>0, <1>1, <3>2
        <4>2. taken[n + 1] >= taken[n] /\ (n + 1) - taken[n + 1] >= n - taken[n]
          BY <1>4, <3>2, <4>1
        <4>3. Ahead(m[x], n)
          BY <3>2, <3>4
        <4> HIDE DEF FromA, FromB
        <4> QED BY <1>0, <4>1, <4>2, <4>3
      <3> QED BY <3>1, <3>3, <3>4
    <2>7. \A n \in Nat : n \in T
      <3> HIDE DEF T
      <3> QED BY <2>5, <2>6, NaturalsFrom
    <2>8. SUFFICES ASSUME NEW x \in 1..N, NEW z \in 1..N, x < z
                   PROVE  m[x].arrival_ts < m[z].arrival_ts
      BY <1>2 DEF Sorted
    <2>9. z - 1 \in Nat /\ z - 1 <= N /\ x \in 1..(z - 1) /\ z - 1 \in 0..N
      BY <1>0, <2>8
    <2>10. Ahead(m[x], z - 1)
      BY <2>7, <2>9
    <2>11. taken[z - 1] \in Nat /\ (z - 1) - taken[z - 1] \in Nat
      BY <1>0, <1>1, <2>9
    <2>12. CASE FromA(z)
      <3>1. taken[z] \in 1..Len(a) /\ taken[z] > taken[z - 1] /\ m[z] = a[taken[z]]
        BY <2>11, <2>12
      <3> QED BY <2>10, <3>1
    <2>13. CASE FromB(z)
      <3>1. z - taken[z] \in 1..Len(b) /\ z - taken[z] > (z - 1) - taken[z - 1] /\ m[z] = b[z - taken[z]]
        BY <2>11, <2>13
      <3> QED BY <2>10, <3>1
    <2> QED BY <1>4, <2>12, <2>13
  <1> QED BY <1>6, <1>12, <1>13, <1>14 DEF m
-----------------------------------------------------------------------------
(* What the operations do to a queue. *)

\* An addressed write: the change last, its predecessors perhaps gone.
LEMMA ExtendedQueue ==
    ASSUME NEW q \in Changes, NEW change \in OneChange, NEW replace \in BOOLEAN, NEW stamp \in Nat
    PROVE  /\ Extended(q, change, replace, stamp) \in Changes
           /\ Stamps(Extended(q, change, replace, stamp)) \subseteq Stamps(q) \cup {stamp}
           /\ Sorted(q) /\ (\A x \in Stamps(q) : x < stamp)
                 => Sorted(Extended(q, change, replace, stamp))
  <1> DEFINE K == {c \in ToSet(q) : c.key # change.key}
             r == IF replace THEN Kept(q, K) ELSE q
             c == [change EXCEPT !.arrival_ts = stamp]
  <1>1. r \in Changes /\ Stamps(r) \subseteq Stamps(q) /\ (Sorted(q) => Sorted(r))
    <2> HIDE DEF K
    <2>1. CASE replace
      BY <2>1, KeptOfQueue, KeptStamps
    <2>2. CASE ~replace
      BY <2>2
    <2> QED BY <2>1, <2>2
  <1>2. c \in OneChange /\ c.arrival_ts = stamp
    BY DEF OneChange
  <1>3. Extended(q, change, replace, stamp) = Append(r, c)
    BY DEF Extended
  <1> HIDE DEF r, c
  <1> QED BY <1>1, <1>2, <1>3, OneMoreChange

\* file_datachange, on the queue of its target.
LEMMA FiledQueue ==
    ASSUME NEW q \in Changes, NEW message, NEW stamp \in Nat,
           \/ message.op = "reset_datachanges"
           \/ message.op = "drop_datachanges"
           \/ /\ message.op = "set_datachange"
              /\ message.change \in OneChange /\ message.replace \in BOOLEAN
    PROVE  /\ Filed(q, message, stamp) \in Changes
           /\ Stamps(Filed(q, message, stamp)) \subseteq
                 Stamps(q) \cup (IF message.op = "set_datachange" THEN {stamp} ELSE {})
           /\ Sorted(q) /\ (\A x \in Stamps(q) : x < stamp) => Sorted(Filed(q, message, stamp))
  <1>1. CASE message.op = "reset_datachanges"
    <2>1. Filed(q, message, stamp) = <<>>
      BY <1>1 DEF Filed
    <2> QED BY <1>1, <2>1, NoChanges
  <1>2. CASE message.op = "drop_datachanges"
    <2> DEFINE K == {c \in ToSet(q) : ~Under(c.key.path, message.path)}
    <2>1. Filed(q, message, stamp) = Kept(q, K)
      BY <1>2 DEF Filed, Pruned
    <2> HIDE DEF K
    <2> QED BY <1>2, <2>1, KeptOfQueue, KeptStamps
  <1>3. CASE message.op = "set_datachange" /\ message.change \in OneChange /\ message.replace \in BOOLEAN
    <2>1. Filed(q, message, stamp) = Extended(q, message.change, message.replace, stamp)
      BY <1>3 DEF Filed
    <2> QED BY <1>3, <2>1, ExtendedQueue
  <1> QED BY <1>1, <1>2, <1>3

\* What a view captures of some STATE writes is stamped after all that was
\* there, in order, and leaves out no write under a watched prefix.
LEMMA CapturedQueue ==
    ASSUME NEW writes \in Changes, NEW paths, clock \in Nat
    PROVE  /\ Captures(paths, writes) \in Changes
           /\ Sorted(Captures(paths, writes))
           /\ \A x \in Stamps(Captures(paths, writes)) : clock < x /\ x <= clock + Len(writes)
           /\ \A i \in DOMAIN writes : CapturedBy(paths, writes[i].key.path) =>
                 \E c \in ToSet(Captures(paths, writes)) : c.of = writes[i].arrival_ts
  <1> DEFINE stamped == [i \in DOMAIN writes |->
                 [writes[i] EXCEPT !.arrival_ts = clock + i, !.of = writes[i].arrival_ts]]
             K == {c \in ToSet(stamped) : CapturedBy(paths, c.key.path)}
  <1>1. /\ DOMAIN writes = 1..Len(writes) /\ Len(writes) \in Nat
        /\ \A i \in DOMAIN writes : writes[i] \in OneChange
    BY ElementOfSeq, LenProperties DEF Changes
  <1>2. ASSUME NEW i \in DOMAIN writes
        PROVE  /\ stamped[i] \in OneChange /\ stamped[i].arrival_ts = clock + i
               /\ stamped[i].of = writes[i].arrival_ts /\ stamped[i].key = writes[i].key
    <2>1. writes[i] \in OneChange /\ clock + i \in Nat
      BY <1>1
    <2>2. stamped[i] = [writes[i] EXCEPT !.arrival_ts = clock + i, !.of = writes[i].arrival_ts]
      OBVIOUS
    <2> HIDE DEF stamped
    <2> QED BY <2>1, <2>2 DEF OneChange
  <1>3. stamped = [i \in 1..Len(writes) |-> stamped[i]]
    BY <1>1
  <1>4. Captures(paths, writes) = Kept(stamped, K)
    BY DEF Captures
  <1>5. DOMAIN stamped = 1..Len(writes)
    BY <1>1
  <1> HIDE DEF stamped
  <1>6. stamped \in Changes
    <2>1. \A i \in 1..Len(writes) : stamped[i] \in OneChange
      BY <1>1, <1>2
    <2>2. [i \in 1..Len(writes) |-> stamped[i]] \in Seq(OneChange)
      BY <1>1, <2>1
    <2> QED BY <1>3, <2>2 DEF Changes
  <1>7. Sorted(stamped)
    BY <1>1, <1>2, <1>5 DEF Sorted
  <1>8. \A x \in Stamps(stamped) : clock < x /\ x <= clock + Len(writes)
    BY <1>1, <1>2, <1>5, StampsIn
  <1>9. ASSUME NEW i \in DOMAIN writes, CapturedBy(paths, writes[i].key.path)
        PROVE  \E c \in ToSet(Captures(paths, writes)) : c.of = writes[i].arrival_ts
    <2>1. stamped[i] \in ToSet(stamped)
      BY <1>1, <1>5 DEF ToSet
    <2>2. stamped[i] \in K
      BY <1>2, <1>9, <2>1
    <2> HIDE DEF K
    <2>3. stamped[i] \in ToSet(Kept(stamped, K))
      BY <1>6, <2>1, <2>2, KeptOfQueue
    <2> QED BY <1>2, <1>4, <2>3
  <1> HIDE DEF K
  <1>10. Stamps(Kept(stamped, K)) \subseteq Stamps(stamped)
    BY <1>6, KeptStamps
  <1>11. Kept(stamped, K) \in Changes /\ Sorted(Kept(stamped, K))
    BY <1>6, <1>7, KeptOfQueue
  <1> QED BY <1>4, <1>8, <1>9, <1>10, <1>11

\* The row of a page after its view has captured some STATE writes.
LEMMA CapturedRow ==
    ASSUME NEW row \in Row, NEW writes \in Changes, clock \in Nat
    PROVE  /\ AfterCaptures(row, writes) \in Row
           /\ AfterCaptures(row, writes).datachanges = row.datachanges
           /\ AfterCaptures(row, writes).user_view.changes
                = row.user_view.changes \o Captures(row.user_view.paths, writes)
           /\ AfterCaptures(row, writes).user_view.paths = row.user_view.paths
  <1> DEFINE new == Captures(row.user_view.paths, writes)
  <1>1. new \in Changes
    BY CapturedQueue
  <1> HIDE DEF new
  <1>2. row.user_view.changes \in Changes
    BY DEF Row
  <1> DEFINE all == row.user_view.changes \o new
  <1>3. all \in Changes
    BY <1>1, <1>2, TwoQueues
  <1>4. AfterCaptures(row, writes) = [row EXCEPT !.user_view.changes = all]
    BY DEF AfterCaptures, new
  <1> HIDE DEF all
  <1>5. /\ [row EXCEPT !.user_view.changes = all] \in Row
        /\ [row EXCEPT !.user_view.changes = all].datachanges = row.datachanges
        /\ [row EXCEPT !.user_view.changes = all].user_view.changes = all
        /\ [row EXCEPT !.user_view.changes = all].user_view.paths = row.user_view.paths
    BY <1>3 DEF Row
  <1> QED BY <1>4, <1>5 DEF all, new

LEMMA DrainedRow ==
    ASSUME NEW row \in Row
    PROVE  /\ Drained(row) \in Row
           /\ Drained(row).datachanges = <<>> /\ Drained(row).user_view.changes = <<>>
  BY NoChanges DEF Drained, Row

\* A batch is all that was in the three queues, in arrival order.
LEMMA BatchOfQueues ==
    ASSUME NEW row \in Row, NEW desk \in Changes
    PROVE  /\ Batch(row, desk) \in Changes
           /\ Stamps(Batch(row, desk)) =
                 Stamps(row.datachanges) \cup Stamps(desk) \cup Stamps(row.user_view.changes)
           /\ ToSet(row.user_view.changes) \subseteq ToSet(Batch(row, desk))
           /\ /\ Sorted(row.datachanges) /\ Sorted(desk) /\ Sorted(row.user_view.changes)
              /\ Stamps(row.datachanges) \cap Stamps(desk) = {}
              /\ Stamps(row.datachanges) \cap Stamps(row.user_view.changes) = {}
              /\ Stamps(desk) \cap Stamps(row.user_view.changes) = {}
              => Sorted(Batch(row, desk))
  <1>1. row.datachanges \in Changes /\ row.user_view.changes \in Changes
    BY DEF Row
  <1> DEFINE one == Merged(row.datachanges, desk)
  <1>2. /\ one \in Changes /\ Stamps(one) = Stamps(row.datachanges) \cup Stamps(desk)
        /\ Sorted(row.datachanges) /\ Sorted(desk)
              /\ Stamps(row.datachanges) \cap Stamps(desk) = {} => Sorted(one)
    BY <1>1, MergedQueues
  <1> HIDE DEF one
  <1>3. Batch(row, desk) = Merged(one, row.user_view.changes)
    BY DEF Batch, one
  <1>4. /\ Merged(one, row.user_view.changes) \in Changes
        /\ ToSet(Merged(one, row.user_view.changes)) = ToSet(one) \cup ToSet(row.user_view.changes)
        /\ Stamps(Merged(one, row.user_view.changes)) = Stamps(one) \cup Stamps(row.user_view.changes)
        /\ Sorted(one) /\ Sorted(row.user_view.changes)
              /\ Stamps(one) \cap Stamps(row.user_view.changes) = {}
              => Sorted(Merged(one, row.user_view.changes))
    BY <1>1, <1>2, MergedQueues
  <1> QED BY <1>2, <1>3, <1>4
-----------------------------------------------------------------------------
(* What every step preserves: the mail of a page that lives moves from one    *)
(* place to another, and what is new is stamped after all that is there.      *)

Later == {x \in Nat : clock < x}

\* What a step of request t can put for page p in its places.
Pool(t, p) == Waiting(p) \cup Mine(t, p) \cup Later

\* The places of the mail of p after a step of t, in which the browser receives
\* `batch`, hold what was in the pool, and nothing is in two of them.
Parted(t, p, batch) ==
    /\ OnRowStamps(p)' \subseteq Pool(t, p)
    /\ InViewStamps(p)' \subseteq Pool(t, p)
    /\ AtDeskStamps(p)' \subseteq Pool(t, p)
    /\ Mine(t, p)' \subseteq Pool(t, p)
    /\ Stamps(batch) \subseteq Pool(t, p)
    /\ OnRowStamps(p)' \cap InViewStamps(p)' = {}
    /\ OnRowStamps(p)' \cap AtDeskStamps(p)' = {}
    /\ InViewStamps(p)' \cap AtDeskStamps(p)' = {}
    /\ Waiting(p)' \cap Mine(t, p)' = {}
    /\ Stamps(batch) \cap (Waiting(p)' \cup Mine(t, p)') = {}

\* The other requests stay as they are.
OthersStay(t) ==
    \A s : s # t => /\ s \in DOMAIN collects' <=> s \in DOMAIN collects
                    /\ s \in DOMAIN collects => collects'[s] = collects[s]

LEMMA PendingChanges ==
    ASSUME NEW f, \A k \in DOMAIN f : f[k] \in Changes, NEW k
    PROVE  Pending(f, k) \in Changes
  BY NoChanges DEF Pending

LEMMA PendingInOrder ==
    ASSUME NEW f, NEW now, \A k \in DOMAIN f : InOrder(f[k], now), NEW k
    PROVE  InOrder(Pending(f, k), now)
  BY NoChanges DEF Pending, InOrder

LEMMA HeldInOrder ==
    ASSUME Shape, AllInOrder, NEW t \in DOMAIN collects, NEW p
    PROVE  \A x \in Held(t, p) : x \in Nat /\ x <= clock
  <1>1. collects[t] \in Request /\ RequestOK(collects[t], clock)
    BY DEF Shape, AllInOrder
  <1> DEFINE r == collects[t]
  <1>2. /\ r.reply.datachanges \in Changes /\ InOrder(r.reply.datachanges, clock)
        /\ \A q \in DOMAIN r.envelope : r.envelope[q] \in Changes /\ InOrder(r.envelope[q], clock)
    BY <1>1 DEF Request, Reply, Envelope, RequestOK
  <1>3. Pending(r.envelope, p) \in Changes /\ InOrder(Pending(r.envelope, p), clock)
    BY <1>2, PendingChanges, PendingInOrder
  <1>4. \A q \in Changes : InOrder(q, clock) => \A x \in Stamps(q) : x \in Nat /\ x <= clock
    BY StampsAreNat DEF InOrder
  <1> QED BY <1>2, <1>3, <1>4 DEF Held

LEMMA ReceivesBatch ==
    ASSUME NEW batches \in Seq(Changes), NEW batch \in Changes
    PROVE  /\ Receives(batches, batch) \in Seq(Changes)
           /\ ToSet(Receives(batches, batch)) = ToSet(batches) \cup (IF batch = <<>> THEN {} ELSE {batch})
           /\ Len(batches) \in Nat /\ DOMAIN batches = 1..Len(batches)
           /\ batch # <<>> => DOMAIN Receives(batches, batch) = 1..(Len(batches) + 1)
           /\ \A i \in 1..Len(batches) : Receives(batches, batch)[i] = batches[i]
           /\ batch # <<>> => Receives(batches, batch)[Len(batches) + 1] = batch
  <1>1. /\ Append(batches, batch) \in Seq(Changes)
        /\ DOMAIN Append(batches, batch) = 1..(Len(batches) + 1)
        /\ DOMAIN batches = 1..Len(batches) /\ Len(batches) \in Nat
        /\ \A i \in 1..Len(batches) : Append(batches, batch)[i] = batches[i]
        /\ Append(batches, batch)[Len(batches) + 1] = batch
    BY AppendProperties, LenProperties
  <1>2. CASE batch = <<>>
    BY <1>1, <1>2 DEF Receives, ToSet
  <1>3. CASE batch # <<>>
    <2> DEFINE a == Append(batches, batch)
    <2> HIDE DEF a
    <2>1. 1..(Len(batches) + 1) = 1..Len(batches) \cup {Len(batches) + 1}
      BY <1>1
    <2>2. ToSet(a) = ToSet(batches) \cup {batch}
      BY <1>1, <2>1 DEF ToSet, a
    <2> QED BY <1>1, <1>3, <2>2 DEF Receives, a
  <1> QED BY <1>2, <1>3

LEMMA StaysApart ==
    ASSUME MailInv, delivered' \in [Page -> Seq(Changes)], NEW t, NEW got \in [Page -> Changes],
           OthersStay(t), DOMAIN rows' \subseteq DOMAIN rows,
           \A p \in Page : delivered'[p] = Receives(delivered[p], got[p]),
           \A p \in DOMAIN rows' : Parted(t, p, got[p])
    PROVE  Apart' /\ MailDeliveredOnce'
  <1>0. Shape /\ AllInOrder /\ Apart /\ MailDeliveredOnce
    BY DEF MailInv
  <1>1. SUFFICES ASSUME NEW p \in DOMAIN rows'
        PROVE  /\ OnRowStamps(p)' \cap InViewStamps(p)' = {}
               /\ OnRowStamps(p)' \cap AtDeskStamps(p)' = {}
               /\ InViewStamps(p)' \cap AtDeskStamps(p)' = {}
               /\ \A s, r \in DOMAIN collects' : s # r => Held(s, p)' \cap Held(r, p)' = {}
               /\ Received(p)' \cap (Waiting(p)' \cup Retired(p)') = {}
               /\ Waiting(p)' \cap Retired(p)' = {}
               /\ \A i, j \in DOMAIN delivered'[p] :
                     i # j => Stamps(delivered'[p][i]) \cap Stamps(delivered'[p][j]) = {}
    <2>1. Apart'
      BY <1>1 DEF Apart, OnRowStamps, InViewStamps, AtDeskStamps
    <2>2. MailDeliveredOnce'
      BY <1>1 DEF MailDeliveredOnce
    <2> QED BY <2>1, <2>2
  <1>2. p \in DOMAIN rows /\ p \in Page /\ Parted(t, p, got[p])
    BY <1>0 DEF Shape
  <1> DEFINE b == got[p]
  <1>3. b \in Changes /\ delivered[p] \in Seq(Changes) /\ delivered'[p] = Receives(delivered[p], b)
    BY <1>0, <1>2 DEF Shape
  <1>4. \A x \in Received(p) : x \in Nat /\ x <= clock
    <2>1. \A batch \in ToSet(delivered[p]) : batch \in Changes /\ InOrder(batch, clock)
      <3>1. \A i \in DOMAIN delivered[p] : delivered[p][i] \in Changes
        BY <1>3, ElementOfSeq, LenProperties
      <3> QED BY <1>0, <1>2, <3>1 DEF AllInOrder, ToSet
    <2>2. \A q \in Changes : InOrder(q, clock) => \A x \in Stamps(q) : x \in Nat /\ x <= clock
      BY StampsAreNat DEF InOrder
    <2> QED BY <2>1, <2>2 DEF Received
  <1>5. \A s \in DOMAIN collects : \A x \in Held(s, p) : x \in Nat /\ x <= clock
    BY <1>0, HeldInOrder
  <1>6. \A s \in DOMAIN collects : Held(s, p) \subseteq Retired(p)
    BY DEF Retired
  <1>7. clock \in Nat /\ \A x \in Later : x \in Nat /\ ~(x <= clock)
    BY <1>0 DEF Shape, Later
  <1>8. /\ Received(p) \cap (Waiting(p) \cup Retired(p)) = {} /\ Waiting(p) \cap Retired(p) = {}
        /\ \A s, r \in DOMAIN collects : s # r => Held(s, p) \cap Held(r, p) = {}
    BY <1>0, <1>2 DEF Apart, MailDeliveredOnce
  <1>9. Received(p) \cap Pool(t, p) = {}
    BY <1>4, <1>6, <1>7, <1>8 DEF Pool, Mine
  <1>10. \A s \in DOMAIN collects : s # t => Held(s, p) \cap Pool(t, p) = {}
    BY <1>5, <1>6, <1>7, <1>8 DEF Pool, Mine
  <1>11. \A s \in DOMAIN collects' : s # t => s \in DOMAIN collects /\ Held(s, p)' = Held(s, p)
    BY DEF OthersStay, Held
  <1>12. \A s \in DOMAIN collects' : s = t => Held(s, p)' = Mine(t, p)'
    BY DEF Mine
  <1>13. Received(p)' = Received(p) \cup Stamps(b)
    <2> HIDE DEF b
    <2>0. ToSet(Receives(delivered[p], b)) = ToSet(delivered[p]) \cup (IF b = <<>> THEN {} ELSE {b})
      BY <1>3, ReceivesBatch
    <2>1. ToSet(delivered'[p]) = ToSet(delivered[p]) \cup (IF b = <<>> THEN {} ELSE {b})
      BY <1>3, <2>0
    <2>2. Received(p)' = UNION {Stamps(batch) : batch \in ToSet(delivered'[p])}
      BY DEF Received
    <2> QED BY <2>1, <2>2, NoChanges DEF Received
  <1>14. \A x \in Retired(p)' : x \in Mine(t, p)' \/ \E s \in DOMAIN collects : s # t /\ x \in Held(s, p)
    <2>1. Retired(p)' = UNION {Held(s, p)' : s \in DOMAIN collects'}
      BY DEF Retired
    <2> QED BY <1>11, <1>12, <2>1
  <1>15. Waiting(p)' = OnRowStamps(p)' \cup InViewStamps(p)' \cup AtDeskStamps(p)'
    BY DEF Waiting, OnRowStamps, InViewStamps, AtDeskStamps
  <1>16. /\ Waiting(p)' \subseteq Pool(t, p) /\ Mine(t, p)' \subseteq Pool(t, p)
         /\ Stamps(b) \subseteq Pool(t, p) /\ Waiting(p)' \cap Mine(t, p)' = {}
         /\ Stamps(b) \cap (Waiting(p)' \cup Mine(t, p)') = {}
    BY <1>2, <1>15 DEF Parted
  <1> HIDE DEF b
  <1>17. \A s \in DOMAIN collects : s # t => Held(s, p) \subseteq Retired(p)
    BY <1>6
  <1>18. Waiting(p)' \cap Retired(p)' = {}
    BY <1>10, <1>14, <1>16
  <1>19. Received(p)' \cap (Waiting(p)' \cup Retired(p)') = {}
    BY <1>8, <1>9, <1>10, <1>13, <1>14, <1>16, <1>17
  <1>20. \A s, r \in DOMAIN collects' : s # r => Held(s, p)' \cap Held(r, p)' = {}
    BY <1>8, <1>10, <1>11, <1>12, <1>16
  <1>21. \A i, j \in DOMAIN delivered'[p] :
             i # j => Stamps(delivered'[p][i]) \cap Stamps(delivered'[p][j]) = {}
    <2>1. \A i, j \in DOMAIN delivered[p] :
             i # j => Stamps(delivered[p][i]) \cap Stamps(delivered[p][j]) = {}
      BY <1>0, <1>2 DEF MailDeliveredOnce
    <2>2. CASE b = <<>>
      BY <1>3, <2>1, <2>2 DEF Receives
    <2>3. CASE b # <<>>
      <3> DEFINE d == delivered[p]
                 e == Receives(d, b)
                 n == Len(d) + 1
      <3>0. d \in Seq(Changes) /\ delivered'[p] = e
        BY <1>3
      <3> HIDE DEF d
      <3>1. /\ DOMAIN d = 1..Len(d) /\ Len(d) \in Nat /\ DOMAIN e = 1..n
            /\ \A i \in 1..Len(d) : e[i] = d[i]
            /\ e[n] = b
        <4>1. Len(d) \in Nat /\ DOMAIN d = 1..Len(d)
          BY <3>0, LenProperties
        <4>2. DOMAIN e = 1..(Len(d) + 1)
          BY <1>3, <2>3, <3>0, ReceivesBatch
        <4>3. \A i \in 1..Len(d) : e[i] = d[i]
          BY <1>3, <2>3, <3>0, ReceivesBatch
        <4>4. e[Len(d) + 1] = b
          BY <1>3, <2>3, <3>0, ReceivesBatch
        <4> QED BY <4>1, <4>2, <4>3, <4>4
      <3>2. \A i \in 1..Len(d) : Stamps(d[i]) \subseteq Received(p)
        BY <3>1 DEF Received, ToSet, d
      <3>3. \A i \in 1..Len(d) : Stamps(d[i]) \cap Stamps(b) = {}
        BY <1>9, <1>16, <3>2
      <3>4. \A i \in 1..n : i \in 1..Len(d) \/ i = n
        BY <3>1
      <3> HIDE DEF d, e, n
      <3>5. \A i, j \in DOMAIN e : i # j => Stamps(e[i]) \cap Stamps(e[j]) = {}
        BY <2>1, <3>1, <3>3, <3>4 DEF d
      <3> QED BY <3>0, <3>5
    <2> QED BY <2>2, <2>3
  <1> QED BY <1>2, <1>18, <1>19, <1>20, <1>21 DEF Parted

LEMMA InOrderLater ==
    ASSUME NEW q \in Changes, NEW now \in Nat, NEW then \in Nat, now <= then, InOrder(q, now)
    PROVE  InOrder(q, then)
  BY StampsAreNat DEF InOrder

LEMMA RequestLater ==
    ASSUME NEW r \in Request, NEW now \in Nat, NEW then \in Nat, now <= then, RequestOK(r, now)
    PROVE  RequestOK(r, then)
  <1>1. /\ r.reply.datachanges \in Changes
        /\ \A p \in DOMAIN r.envelope : r.envelope[p] \in Changes
    BY DEF Request, Reply, Envelope
  <1> QED BY <1>1, InOrderLater DEF RequestOK

LEMMA StepKeeps ==
    ASSUME MailInv, Shape', clock <= clock', NEW t, NEW got \in [Page -> Changes],
           OthersStay(t), DOMAIN rows' \subseteq DOMAIN rows,
           \A p \in Page : delivered'[p] = Receives(delivered[p], got[p]),
           \A p \in Page : InOrder(got[p], clock'),
           \A p \in DOMAIN rows' : Parted(t, p, got[p]) /\ RowOK(rows'[p], clock'),
           \A p \in DOMAIN page_datachange_map' : InOrder(page_datachange_map'[p], clock'),
           t \in DOMAIN collects' => RequestOK(collects'[t], clock')
    PROVE  MailInv'
  <1>0. Shape /\ AllInOrder /\ clock \in Nat /\ clock' \in Nat
    BY DEF MailInv, Shape
  <1>1. Apart' /\ MailDeliveredOnce'
    <2>1. delivered' \in [Page -> Seq(Changes)]
      BY DEF Shape
    <2> QED BY <2>1, StaysApart
  <1>2. ASSUME NEW s \in DOMAIN collects'
        PROVE  RequestOK(collects'[s], clock')
    <2>1. CASE s = t
      BY <2>1
    <2>2. CASE s # t
      <3>1. s \in DOMAIN collects /\ collects'[s] = collects[s]
        BY <2>2 DEF OthersStay
      <3>2. collects[s] \in Request /\ RequestOK(collects[s], clock)
        BY <1>0, <3>1 DEF Shape, AllInOrder
      <3> QED BY <1>0, <3>1, <3>2, RequestLater
    <2> QED BY <2>1, <2>2
  <1>3. ASSUME NEW p \in Page, NEW batch \in ToSet(delivered'[p])
        PROVE  InOrder(batch, clock')
    <2> DEFINE b == got[p]
               d == delivered[p]
    <2>0. b \in Changes /\ d \in Seq(Changes) /\ delivered'[p] = Receives(d, b) /\ InOrder(b, clock')
      BY <1>0 DEF Shape
    <2>1. \A old \in ToSet(d) : old \in Changes /\ InOrder(old, clock)
      <3>1. \A i \in DOMAIN d : d[i] \in Changes
        BY <2>0, ElementOfSeq, LenProperties
      <3> QED BY <1>0, <3>1 DEF AllInOrder, ToSet
    <2> HIDE DEF b, d
    <2>2. ToSet(Receives(d, b)) = ToSet(d) \cup (IF b = <<>> THEN {} ELSE {b})
      BY <2>0, ReceivesBatch
    <2>3. batch \in ToSet(d) \/ batch = b
      BY <2>0, <2>2
    <2> QED BY <1>0, <2>0, <2>1, <2>3, InOrderLater
  <1>4. AllInOrder'
    BY <1>2, <1>3 DEF AllInOrder
  <1> QED BY <1>1, <1>4 DEF MailInv

\* A step that touches no request and delivers nothing: a write, a drop, a login.
LEMMA QuietStep ==
    ASSUME MailInv, clock' \in Nat, clock <= clock', user' \in User,
           UNCHANGED <<collects, delivered, store>>, page_dbevent_map' = EmptyMap,
           DOMAIN rows' \subseteq DOMAIN rows, \A p \in DOMAIN rows' : rows'[p] \in Row,
           DOMAIN page_datachange_map' \subseteq Page,
           \A p \in DOMAIN page_datachange_map' : page_datachange_map'[p] \in Changes,
           \A u \in DOMAIN user_store_change_map' : user_store_change_map'[u] \in Changes,
           \A p \in DOMAIN rows' :
              /\ RowOK(rows'[p], clock')
              /\ InViewStamps(p)' \subseteq InViewStamps(p)
              /\ OnRowStamps(p)' \subseteq OnRowStamps(p) \cup Later
              /\ AtDeskStamps(p)' \subseteq AtDeskStamps(p) \cup Later
              /\ OnRowStamps(p)' \subseteq OnRowStamps(p) \/ AtDeskStamps(p)' \subseteq AtDeskStamps(p),
           \A p \in DOMAIN page_datachange_map' : InOrder(page_datachange_map'[p], clock')
    PROVE  MailInv'
  <1>0. Shape /\ AllInOrder /\ Apart /\ MailDeliveredOnce
    BY DEF MailInv
  <1>1. Shape'
    BY <1>0 DEF Shape
  <1> DEFINE got == [p \in Page |-> <<>>]
  <1>2. got \in [Page -> Changes] /\ \A p \in Page : got[p] = <<>>
    BY NoChanges
  <1>3. \A p \in Page : InOrder(got[p], clock')
    BY <1>2, NoChanges DEF InOrder
  <1>4. \A p \in Page : delivered'[p] = Receives(delivered[p], got[p])
    BY <1>2 DEF Receives
  <1> HIDE DEF got
  <1> PICK t : OthersStay(t)
    BY DEF OthersStay
  <1>5. t \in DOMAIN collects' => RequestOK(collects'[t], clock')
    <2>1. \A s \in DOMAIN collects : collects[s] \in Request /\ RequestOK(collects[s], clock)
      BY <1>0 DEF Shape, AllInOrder
    <2>2. clock \in Nat
      BY <1>0 DEF Shape
    <2> QED BY <2>1, <2>2, RequestLater
  <1>6. ASSUME NEW p \in DOMAIN rows'
        PROVE  Parted(t, p, got[p])
    <2>1. p \in DOMAIN rows /\ p \in Page
      BY <1>0 DEF Shape
    <2>2. /\ OnRowStamps(p) \cap InViewStamps(p) = {}
          /\ OnRowStamps(p) \cap AtDeskStamps(p) = {}
          /\ InViewStamps(p) \cap AtDeskStamps(p) = {}
      BY <1>0, <2>1 DEF Apart
    <2>3. Waiting(p) = OnRowStamps(p) \cup InViewStamps(p) \cup AtDeskStamps(p)
      BY DEF Waiting, OnRowStamps, InViewStamps, AtDeskStamps
    <2>4. Waiting(p)' = OnRowStamps(p)' \cup InViewStamps(p)' \cup AtDeskStamps(p)'
      BY DEF Waiting, OnRowStamps, InViewStamps, AtDeskStamps
    <2>5. Mine(t, p)' = Mine(t, p)
      BY DEF Mine, Held
    <2>6. Stamps(got[p]) = {}
      BY <1>2, <2>1, NoChanges
    <2>7. Waiting(p) \cap Mine(t, p) = {}
      BY <1>0, <2>1 DEF MailDeliveredOnce, Mine, Retired
    <2>8. \A x \in OnRowStamps(p) \cup InViewStamps(p) \cup AtDeskStamps(p) : x \notin Later
      <3>1. /\ rows[p] \in Row /\ RowOK(rows[p], clock) /\ clock \in Nat
            /\ Pending(page_datachange_map, p) \in Changes
            /\ InOrder(Pending(page_datachange_map, p), clock)
        BY <1>0, <2>1, PendingChanges, PendingInOrder DEF Shape, AllInOrder
      <3>2. /\ rows[p].datachanges \in Changes /\ InOrder(rows[p].datachanges, clock)
            /\ rows[p].user_view.changes \in Changes /\ InOrder(rows[p].user_view.changes, clock)
        BY <3>1 DEF Row, RowOK
      <3>3. \A q \in Changes : InOrder(q, clock) => \A x \in Stamps(q) : x \notin Later
        BY <3>1, StampsAreNat DEF InOrder, Later
      <3> QED BY <3>1, <3>2, <3>3 DEF OnRowStamps, InViewStamps, AtDeskStamps
    <2>9. \A x \in Mine(t, p) : x \notin Later
      <3>1. \A s \in DOMAIN collects : \A x \in Held(s, p) : x \in Nat /\ x <= clock
        BY <1>0, HeldInOrder
      <3>2. clock \in Nat
        BY <1>0 DEF Shape
      <3> QED BY <3>1, <3>2 DEF Mine, Later
    <2>10. /\ InViewStamps(p)' \subseteq InViewStamps(p)
           /\ OnRowStamps(p)' \subseteq OnRowStamps(p) \cup Later
           /\ AtDeskStamps(p)' \subseteq AtDeskStamps(p) \cup Later
           /\ OnRowStamps(p)' \subseteq OnRowStamps(p) \/ AtDeskStamps(p)' \subseteq AtDeskStamps(p)
      OBVIOUS
    <2>11. OnRowStamps(p)' \cap AtDeskStamps(p)' = {}
      BY <2>2, <2>8, <2>10
    <2>12. InViewStamps(p)' \cap (OnRowStamps(p)' \cup AtDeskStamps(p)') = {}
      BY <2>2, <2>8, <2>10
    <2>13. Waiting(p)' \cap Mine(t, p)' = {}
      BY <2>3, <2>4, <2>5, <2>7, <2>9, <2>10
    <2>14. Waiting(p)' \subseteq Pool(t, p) /\ Mine(t, p)' \subseteq Pool(t, p)
      BY <2>3, <2>4, <2>5, <2>10 DEF Pool
    <2> QED BY <2>4, <2>6, <2>11, <2>12, <2>13, <2>14 DEF Parted
  <1> QED BY <1>1, <1>2, <1>3, <1>4, <1>5, <1>6, StepKeeps
-----------------------------------------------------------------------------
(* The writes. *)

LEMMA QueuesLater ==
    ASSUME MailInv, NEW then \in Nat, clock <= then
    PROVE  /\ \A p \in DOMAIN rows : rows[p] \in Row /\ RowOK(rows[p], then)
           /\ \A p \in DOMAIN page_datachange_map :
                 page_datachange_map[p] \in Changes /\ InOrder(page_datachange_map[p], then)
  <1>0. Shape /\ AllInOrder /\ clock \in Nat
    BY DEF MailInv, Shape
  <1>1. \A row \in Row : row.datachanges \in Changes /\ row.user_view.changes \in Changes
    BY DEF Row
  <1>2. \A p \in DOMAIN rows : rows[p] \in Row /\ RowOK(rows[p], clock)
    BY <1>0 DEF Shape, AllInOrder
  <1>3. \A p \in DOMAIN page_datachange_map :
           page_datachange_map[p] \in Changes /\ InOrder(page_datachange_map[p], clock)
    BY <1>0 DEF Shape, AllInOrder
  <1>4. \A p \in DOMAIN rows : RowOK(rows[p], then)
    BY <1>0, <1>1, <1>2, InOrderLater DEF RowOK
  <1> QED BY <1>0, <1>2, <1>3, <1>4, InOrderLater

LEMMA RowReplaced ==
    ASSUME NEW row \in Row, NEW q \in Changes
    PROVE  /\ [row EXCEPT !.datachanges = q] \in Row
           /\ [row EXCEPT !.datachanges = q].datachanges = q
           /\ [row EXCEPT !.datachanges = q].user_view = row.user_view
  BY DEF Row

\* The row's own queue is written.
LEMMA RowWrite ==
    ASSUME MailInv, NEW p \in DOMAIN rows, NEW q \in Changes, OnRow(p, q),
           clock' \in Nat, clock <= clock', InOrder(q, clock'),
           Stamps(q) \subseteq Stamps(rows[p].datachanges) \cup Later,
           UNCHANGED <<user, store, collects, delivered>>
    PROVE  MailInv'
  <1>0. Shape
    BY DEF MailInv
  <1>1. /\ rows' = [rows EXCEPT ![p].datachanges = q]
        /\ UNCHANGED <<page_datachange_map, user_store_change_map, page_dbevent_map>>
    BY DEF OnRow
  <1>2. /\ \A r \in DOMAIN rows : rows[r] \in Row /\ RowOK(rows[r], clock')
        /\ \A r \in DOMAIN page_datachange_map :
              page_datachange_map[r] \in Changes /\ InOrder(page_datachange_map[r], clock')
    BY QueuesLater
  <1>3. /\ DOMAIN rows' = DOMAIN rows
        /\ rows'[p] = [rows[p] EXCEPT !.datachanges = q]
        /\ \A r \in DOMAIN rows : r # p => rows'[r] = rows[r]
    BY <1>1
  <1>4. /\ rows'[p] \in Row /\ rows'[p].datachanges = q /\ rows'[p].user_view = rows[p].user_view
    BY <1>2, <1>3, RowReplaced
  <1>5. \A r \in DOMAIN rows' : rows'[r] \in Row /\ RowOK(rows'[r], clock')
    BY <1>2, <1>3, <1>4 DEF RowOK
  <1>6. \A r \in DOMAIN rows' :
            /\ InViewStamps(r)' \subseteq InViewStamps(r)
            /\ OnRowStamps(r)' \subseteq OnRowStamps(r) \cup Later
            /\ AtDeskStamps(r)' \subseteq AtDeskStamps(r)
    BY <1>1, <1>3, <1>4 DEF InViewStamps, OnRowStamps, AtDeskStamps
  <1> HIDE DEF OnRow
  <1> QED BY <1>0, <1>1, <1>2, <1>3, <1>5, <1>6, QuietStep DEF Shape

\* What the desk is asked to file: for a page of its own, or for a user's store.
Message(message) ==
    /\ \/ message.op = "reset_datachanges"
       \/ message.op = "drop_datachanges"
       \/ /\ message.op = "set_datachange"
          /\ message.change \in OneChange /\ message.replace \in BOOLEAN
    /\ message.kind \in {"page", "user_store"}
    /\ message.kind = "page" => message.target \in Page

LEMMA DeskWrite ==
    ASSUME MailInv, NEW message, Message(message), AtDesk(message),
           UNCHANGED <<user, store, collects, delivered>>
    PROVE  MailInv'
  <1>0. Shape /\ clock \in Nat /\ page_dbevent_map = EmptyMap /\ user \in User
    BY DEF MailInv, Shape
  <1>1. on_datachange(message) /\ rows' = rows /\ page_dbevent_map' = page_dbevent_map
    BY DEF AtDesk, on_datachange
  <1>2. \/ UNCHANGED <<page_datachange_map, user_store_change_map, clock>>
        \/ /\ clock' = IF message.op = "set_datachange" THEN clock + 1 ELSE clock
           /\ \/ /\ user_store_change_map' = FiledAt(user_store_change_map, message)
                 /\ UNCHANGED page_datachange_map
              \/ /\ message.kind = "page"
                 /\ page_datachange_map' = FiledAt(page_datachange_map, message)
                 /\ UNCHANGED user_store_change_map
    BY <1>1 DEF on_datachange, Message, STATE_KINDS
  <1>3. clock' \in Nat /\ clock <= clock'
    BY <1>0, <1>2
  <1>4. /\ \A r \in DOMAIN rows : rows[r] \in Row /\ RowOK(rows[r], clock')
        /\ \A r \in DOMAIN page_datachange_map :
              page_datachange_map[r] \in Changes /\ InOrder(page_datachange_map[r], clock')
    BY <1>3, QueuesLater
  <1>5. /\ \A r \in DOMAIN page_datachange_map : page_datachange_map[r] \in Changes
        /\ \A r \in DOMAIN user_store_change_map : user_store_change_map[r] \in Changes
        /\ DOMAIN page_datachange_map \subseteq Page
    BY <1>0 DEF Shape
  <1> DEFINE Q(f) == Filed(Pending(f, message.target), message, clock + 1)
  <1>6. ASSUME NEW f, \A r \in DOMAIN f : f[r] \in Changes
        PROVE  /\ DOMAIN FiledAt(f, message) = DOMAIN f \cup {message.target}
               /\ FiledAt(f, message)[message.target] = Q(f)
               /\ \A r \in DOMAIN f : r # message.target => FiledAt(f, message)[r] = f[r]
               /\ Q(f) \in Changes
    <2>1. Q(f) \in Changes
      <3>1. Pending(f, message.target) \in Changes /\ clock + 1 \in Nat
        BY <1>0, <1>6, PendingChanges
      <3> QED BY <3>1, FiledQueue DEF Message
    <2> QED BY <2>1 DEF FiledAt
  <1> HIDE DEF Q
  <1>7. CASE UNCHANGED page_datachange_map
    <2>1. \A r \in DOMAIN user_store_change_map' : user_store_change_map'[r] \in Changes
      BY <1>2, <1>5, <1>6, <1>7
    <2>2. \A r \in DOMAIN rows' :
              /\ InViewStamps(r)' \subseteq InViewStamps(r)
              /\ OnRowStamps(r)' \subseteq OnRowStamps(r)
              /\ AtDeskStamps(r)' \subseteq AtDeskStamps(r)
      BY <1>1, <1>7 DEF InViewStamps, OnRowStamps, AtDeskStamps
    <2> QED BY <1>0, <1>1, <1>3, <1>4, <1>5, <1>7, <2>1, <2>2, QuietStep
  <1>8. CASE /\ clock' = (IF message.op = "set_datachange" THEN clock + 1 ELSE clock)
             /\ message.kind = "page"
             /\ page_datachange_map' = FiledAt(page_datachange_map, message)
             /\ UNCHANGED user_store_change_map
    <2> DEFINE old == Pending(page_datachange_map, message.target)
               new == Q(page_datachange_map)
    <2>1. /\ DOMAIN page_datachange_map' = DOMAIN page_datachange_map \cup {message.target}
          /\ page_datachange_map'[message.target] = new /\ new \in Changes
          /\ \A r \in DOMAIN page_datachange_map :
                r # message.target => page_datachange_map'[r] = page_datachange_map[r]
          /\ message.target \in Page
      BY <1>5, <1>6, <1>8 DEF Message
    <2>2. old \in Changes /\ InOrder(old, clock)
      <3>1. \A r \in DOMAIN page_datachange_map : InOrder(page_datachange_map[r], clock)
        BY DEF MailInv, AllInOrder
      <3> QED BY <1>5, <3>1, PendingChanges, PendingInOrder
    <2>3. new = Filed(old, message, clock + 1)
      BY DEF Q
    <2> HIDE DEF old, new
    <2>4. \A x \in Stamps(old) : x \in Nat /\ x <= clock /\ x < clock + 1
      BY <1>0, <2>2, StampsAreNat DEF InOrder
    <2>5. /\ Sorted(new)
          /\ Stamps(new) \subseteq
               Stamps(old) \cup (IF message.op = "set_datachange" THEN {clock + 1} ELSE {})
      BY <1>0, <2>2, <2>3, <2>4, FiledQueue DEF Message, InOrder
    <2>6. InOrder(new, clock')
      BY <1>0, <1>8, <2>4, <2>5 DEF InOrder
    <2>7. Stamps(new) \subseteq Stamps(old) \cup Later
      BY <1>0, <2>5 DEF Later
    <2>8. \A r \in DOMAIN page_datachange_map' :
              page_datachange_map'[r] \in Changes /\ InOrder(page_datachange_map'[r], clock')
      BY <1>4, <2>1, <2>6
    <2>9. ASSUME NEW r \in DOMAIN rows'
          PROVE  /\ InViewStamps(r)' \subseteq InViewStamps(r)
                 /\ OnRowStamps(r)' \subseteq OnRowStamps(r)
                 /\ AtDeskStamps(r)' \subseteq AtDeskStamps(r) \cup Later
      <3>1. InViewStamps(r)' = InViewStamps(r) /\ OnRowStamps(r)' = OnRowStamps(r)
        BY <1>1 DEF InViewStamps, OnRowStamps
      <3>2. CASE r = message.target
        BY <2>1, <2>7, <3>1, <3>2 DEF AtDeskStamps, Pending, old
      <3>3. CASE r # message.target
        BY <2>1, <3>1, <3>3 DEF AtDeskStamps, Pending
      <3> QED BY <3>2, <3>3
    <2>10. DOMAIN page_datachange_map' \subseteq Page
      BY <1>5, <2>1
    <2>11. \A r \in DOMAIN user_store_change_map' : user_store_change_map'[r] \in Changes
      BY <1>5, <1>8
    <2> QED BY <1>0, <1>1, <1>3, <1>4, <2>8, <2>9, <2>10, <2>11, QuietStep
  <1> QED BY <1>2, <1>7, <1>8

LEMMA ChangeOfKey ==
    ASSUME NEW key \in Key \cup CaptureKey
    PROVE  Change(key) \in OneChange
  BY DEF Change, OneChange

LEMMA AppendedOnRow ==
    ASSUME MailInv, NEW p \in DOMAIN rows, NEW key \in Key \cup CaptureKey, NEW replace \in BOOLEAN
    PROVE  LET q == append_page_datachange(rows[p].datachanges, Change(key), replace)
           IN  /\ q \in Changes /\ InOrder(q, clock + 1)
               /\ Stamps(q) \subseteq Stamps(rows[p].datachanges) \cup Later
  <1> DEFINE old == rows[p].datachanges
             q == Extended(old, Change(key), replace, clock + 1)
  <1>1. clock \in Nat /\ rows[p] \in Row /\ RowOK(rows[p], clock)
    BY DEF MailInv, Shape, AllInOrder
  <1>2. old \in Changes /\ InOrder(old, clock) /\ clock + 1 \in Nat
    BY <1>1 DEF Row, RowOK
  <1> HIDE DEF old
  <1>3. \A x \in Stamps(old) : x \in Nat /\ x <= clock /\ x < clock + 1
    BY <1>1, <1>2, StampsAreNat DEF InOrder
  <1>4. q \in Changes /\ Stamps(q) \subseteq Stamps(old) \cup {clock + 1} /\ Sorted(q)
    BY <1>2, <1>3, ExtendedQueue, ChangeOfKey DEF InOrder
  <1> HIDE DEF q
  <1>5. InOrder(q, clock + 1) /\ Stamps(q) \subseteq Stamps(old) \cup Later
    BY <1>1, <1>3, <1>4 DEF InOrder, Later
  <1> QED BY <1>4, <1>5 DEF append_page_datachange, q, old

\* A queue some changes of a row's queue are left in.
LEMMA LessOnRow ==
    ASSUME MailInv, NEW p \in DOMAIN rows, NEW q \in Changes, Sorted(q),
           Stamps(q) \subseteq Stamps(rows[p].datachanges), OnRow(p, q),
           UNCHANGED <<clock, user, store, collects, delivered>>
    PROVE  MailInv'
  <1>1. clock \in Nat /\ clock <= clock /\ RowOK(rows[p], clock)
    BY DEF MailInv, Shape, AllInOrder
  <1>2. InOrder(q, clock)
    BY <1>1 DEF InOrder, RowOK
  <1> QED BY <1>1, <1>2, RowWrite

LEMMA SetDatachangeStep ==
    ASSUME MailInv, NEW p \in Page, NEW key \in Key, NEW replace \in BOOLEAN, NEW here \in BOOLEAN,
           set_datachange(p, key, replace, here), UNCHANGED <<user, store, collects, delivered>>
    PROVE  MailInv'
  <1>0. clock \in Nat
    BY DEF MailInv, Shape
  <1>1. CASE /\ LocalRoad(p, here) /\ clock' = clock + 1
             /\ OnRow(p, append_page_datachange(rows[p].datachanges, Change(key), replace))
    <2> DEFINE q == append_page_datachange(rows[p].datachanges, Change(key), replace)
    <2>1. p \in DOMAIN rows
      BY <1>1 DEF LocalRoad
    <2>2. /\ q \in Changes /\ InOrder(q, clock')
          /\ Stamps(q) \subseteq Stamps(rows[p].datachanges) \cup Later
      BY <1>1, <2>1, AppendedOnRow
    <2>3. clock' \in Nat /\ clock <= clock'
      BY <1>0, <1>1
    <2> HIDE DEF q
    <2>4. OnRow(p, q)
      BY <1>1 DEF q
    <2> QED BY <2>1, <2>2, <2>3, <2>4, RowWrite
  <1> DEFINE message == [op |-> "set_datachange", kind |-> "page", target |-> p,
                         replace |-> replace, change |-> Change(key)]
  <1>2. CASE AtDesk(message)
    <2>1. Message(message)
      BY ChangeOfKey DEF Message
    <2> HIDE DEF message
    <2> QED BY <1>2, <2>1, DeskWrite
  <1> QED BY <1>1, <1>2 DEF set_datachange

LEMMA ResetDatachangesStep ==
    ASSUME MailInv, NEW p \in Page, NEW here \in BOOLEAN,
           reset_datachanges(p, here), UNCHANGED <<user, store, collects, delivered>>
    PROVE  MailInv'
  <1>1. CASE LocalRoad(p, here) /\ OnRow(p, <<>>) /\ UNCHANGED clock
    BY <1>1, NoChanges, LessOnRow DEF LocalRoad
  <1> DEFINE message == [op |-> "reset_datachanges", kind |-> "page", target |-> p]
  <1>2. CASE AtDesk(message)
    <2>1. Message(message)
      BY DEF Message
    <2> HIDE DEF message
    <2> QED BY <1>2, <2>1, DeskWrite
  <1> QED BY <1>1, <1>2 DEF reset_datachanges

LEMMA DropDatachangesStep ==
    ASSUME MailInv, NEW p \in Page, NEW path \in Paths, NEW here \in BOOLEAN,
           drop_datachanges(p, path, here), UNCHANGED <<user, store, collects, delivered>>
    PROVE  MailInv'
  <1>1. CASE LocalRoad(p, here) /\ OnRow(p, Pruned(rows[p].datachanges, path)) /\ UNCHANGED clock
    <2> DEFINE old == rows[p].datachanges
               K == {c \in ToSet(old) : ~Under(c.key.path, path)}
    <2>1. p \in DOMAIN rows
      BY <1>1 DEF LocalRoad
    <2>2. rows[p] \in Row /\ RowOK(rows[p], clock)
      BY <2>1 DEF MailInv, Shape, AllInOrder
    <2>3. old \in Changes /\ Sorted(old)
      BY <2>2 DEF Row, RowOK, InOrder
    <2>4. OnRow(p, Kept(old, K))
      BY <1>1 DEF Pruned
    <2> HIDE DEF K
    <2>5. /\ Kept(old, K) \in Changes /\ Sorted(Kept(old, K))
          /\ Stamps(Kept(old, K)) \subseteq Stamps(old)
      BY <2>3, KeptOfQueue, KeptStamps
    <2> QED BY <1>1, <2>1, <2>4, <2>5, LessOnRow
  <1> DEFINE message == [op |-> "drop_datachanges", kind |-> "page", target |-> p, path |-> path]
  <1>2. CASE AtDesk(message)
    <2>1. Message(message)
      BY DEF Message
    <2> HIDE DEF message
    <2> QED BY <1>2, <2>1, DeskWrite
  <1> QED BY <1>1, <1>2 DEF drop_datachanges

LEMMA SetUserStoreStep ==
    ASSUME MailInv, NEW u \in User, NEW key \in Key, NEW replace \in BOOLEAN,
           set_user_store(u, key, replace), UNCHANGED <<user, store, collects, delivered>>
    PROVE  MailInv'
  <1> DEFINE message == [op |-> "set_datachange", kind |-> "user_store", target |-> u,
                         replace |-> replace, change |-> Change(key)]
  <1>1. AtDesk(message)
    BY DEF set_user_store
  <1>2. Message(message)
    BY ChangeOfKey DEF Message
  <1> HIDE DEF message
  <1> QED BY <1>1, <1>2, DeskWrite

LEMMA PageStoreStep ==
    ASSUME MailInv, NEW p \in Page, NEW path \in Paths,
           subscribe_page_store(p, path), UNCHANGED <<user, store, collects, delivered>>
    PROVE  MailInv'
  <1> DEFINE key == [path |-> path, reason |-> "serverChange", fired |-> FALSE]
             q == append_page_datachange(rows[p].datachanges, Change(key), FALSE)
  <1>0. key \in CaptureKey /\ clock \in Nat
    BY DEF CaptureKey, MailInv, Shape
  <1>1. p \in DOMAIN rows /\ clock' = clock + 1 /\ OnRow(p, q)
    BY DEF subscribe_page_store
  <1> HIDE DEF key
  <1>2. /\ q \in Changes /\ InOrder(q, clock')
        /\ Stamps(q) \subseteq Stamps(rows[p].datachanges) \cup Later
    BY <1>0, <1>1, AppendedOnRow
  <1>3. clock' \in Nat /\ clock <= clock'
    BY <1>0, <1>1
  <1> HIDE DEF q
  <1> QED BY <1>1, <1>2, <1>3, RowWrite

\* The rows keep their queues, or go.
LEMMA RowsKeepQueues ==
    ASSUME MailInv, user' \in User, page_dbevent_map' = EmptyMap,
           UNCHANGED <<clock, collects, delivered, store, page_datachange_map>>,
           \A u \in DOMAIN user_store_change_map' : user_store_change_map'[u] \in Changes,
           DOMAIN rows' \subseteq DOMAIN rows,
           \A p \in DOMAIN rows' :
              /\ rows'[p] \in Row
              /\ rows'[p].datachanges = rows[p].datachanges
              /\ rows'[p].user_view.changes = rows[p].user_view.changes
    PROVE  MailInv'
  <1>0. Shape /\ clock \in Nat /\ clock' \in Nat /\ clock <= clock'
    BY DEF MailInv, Shape
  <1>1. /\ \A r \in DOMAIN rows : rows[r] \in Row /\ RowOK(rows[r], clock')
        /\ \A r \in DOMAIN page_datachange_map :
              page_datachange_map[r] \in Changes /\ InOrder(page_datachange_map[r], clock')
    BY <1>0, QueuesLater
  <1>2. \A r \in DOMAIN rows' :
           /\ RowOK(rows'[r], clock')
           /\ InViewStamps(r)' \subseteq InViewStamps(r)
           /\ OnRowStamps(r)' \subseteq OnRowStamps(r)
           /\ AtDeskStamps(r)' \subseteq AtDeskStamps(r)
    BY <1>1 DEF RowOK, InViewStamps, OnRowStamps, AtDeskStamps
  <1>3. DOMAIN page_datachange_map \subseteq Page
    BY <1>0 DEF Shape
  <1> QED BY <1>0, <1>1, <1>2, <1>3, QuietStep

LEMMA SubscriptionStep ==
    ASSUME MailInv, NEW p \in Page, NEW prefix \in Paths, NEW active \in BOOLEAN,
           setPageSubscription(p, prefix, active) \/ setUserSubscription(p, prefix, active),
           UNCHANGED <<user, store, collects, delivered>>
    PROVE  MailInv'
  <1>0. Shape
    BY DEF MailInv
  <1>1. /\ p \in DOMAIN rows
        /\ UNCHANGED <<page_datachange_map, user_store_change_map, page_dbevent_map, clock>>
    BY DEF setPageSubscription, setUserSubscription, queueVars
  <1>2. rows[p] \in Row
    BY <1>0, <1>1 DEF Shape
  <1>3. DOMAIN rows' = DOMAIN rows /\ \A r \in DOMAIN rows : r # p => rows'[r] = rows[r]
    BY DEF setPageSubscription, setUserSubscription
  <1>4. /\ rows'[p] \in Row
        /\ rows'[p].datachanges = rows[p].datachanges
        /\ rows'[p].user_view.changes = rows[p].user_view.changes
    <2> DEFINE now == IF active THEN rows[p].subscribed_paths \cup {prefix}
                                ELSE rows[p].subscribed_paths \ {prefix}
               then == IF active THEN rows[p].user_view.paths \cup {prefix}
                                 ELSE rows[p].user_view.paths \ {prefix}
    <2>1. now \in SUBSET Paths /\ then \in SUBSET Paths
      BY <1>2 DEF Row
    <2>2. \/ rows'[p] = [rows[p] EXCEPT !.subscribed_paths = now]
          \/ rows'[p] = [rows[p] EXCEPT !.user_view.paths = then]
      BY <1>1 DEF setPageSubscription, setUserSubscription
    <2> HIDE DEF now, then
    <2> QED BY <1>2, <2>1, <2>2 DEF Row
  <1>5. user' \in User /\ page_dbevent_map' = EmptyMap
    BY <1>0, <1>1 DEF Shape
  <1>6. \A u \in DOMAIN user_store_change_map' : user_store_change_map'[u] \in Changes
    BY <1>0, <1>1 DEF Shape
  <1>7. \A r \in DOMAIN rows' :
           /\ rows'[r] \in Row /\ rows'[r].datachanges = rows[r].datachanges
           /\ rows'[r].user_view.changes = rows[r].user_view.changes
    BY <1>0, <1>3, <1>4 DEF Shape
  <1> QED BY <1>1, <1>3, <1>5, <1>6, <1>7, RowsKeepQueues

LEMMA WriteStep ==
    ASSUME MailInv, Write
    PROVE  MailInv'
  <1>1. UNCHANGED <<user, store, collects, delivered>> /\ (PageWrite \/ PageStoreWrite \/ UserWrite)
    BY DEF Write
  <1>2. CASE PageWrite
    BY <1>1, <1>2, SetDatachangeStep, ResetDatachangesStep, DropDatachangesStep DEF PageWrite
  <1>3. CASE PageStoreWrite
    BY <1>1, <1>3, PageStoreStep, SubscriptionStep DEF PageStoreWrite
  <1>4. CASE UserWrite
    BY <1>1, <1>4, SetUserStoreStep, SubscriptionStep DEF UserWrite
  <1> QED BY <1>1, <1>2, <1>3, <1>4
-----------------------------------------------------------------------------
(* Drops and logins. *)

LEMMA PoppedMap ==
    ASSUME NEW f, NEW keys
    PROVE  /\ DOMAIN Popped(f, keys) = DOMAIN f \ keys
           /\ \A k \in DOMAIN f \ keys : Popped(f, keys)[k] = f[k]
  BY DEF Popped, Restrict

LEMMA PoppedEmpty ==
    ASSUME NEW keys
    PROVE  Popped(EmptyMap, keys) = EmptyMap
  BY DEF Popped, Restrict, EmptyMap

LEMMA DropStep ==
    ASSUME MailInv, NEW p \in Page, worker_drop_page(p)
    PROVE  MailInv'
  <1>0. Shape
    BY DEF MailInv
  <1>1. /\ rows' = Popped(rows, {p})
        /\ UNCHANGED <<page_datachange_map, page_dbevent_map, user_store_change_map,
                       clock, user, store, collects, delivered>>
    BY DEF worker_drop_page, deskVars, queueVars
  <1>2. /\ user' \in User /\ page_dbevent_map' = EmptyMap
        /\ \A u \in DOMAIN user_store_change_map' : user_store_change_map'[u] \in Changes
    BY <1>0, <1>1 DEF Shape
  <1>3. /\ DOMAIN rows' \subseteq DOMAIN rows
        /\ \A r \in DOMAIN rows' : rows'[r] = rows[r] /\ rows[r] \in Row
    BY <1>0, <1>1 DEF Shape, Popped, Restrict
  <1> QED BY <1>1, <1>2, <1>3, RowsKeepQueues

LEMMA FoldDropStep ==
    ASSUME MailInv, NEW p \in Page, FoldDropPage(p)
    PROVE  MailInv'
  <1>0. Shape /\ clock \in Nat /\ clock <= clock
    BY DEF MailInv, Shape
  <1>1. /\ page_datachange_map' = Popped(page_datachange_map, {p})
        /\ page_dbevent_map' = Popped(page_dbevent_map, {p})
        /\ UNCHANGED <<user_store_change_map, clock, user, rows, store, collects, delivered>>
    BY DEF FoldDropPage, drop_page, desk_drop_pages, mailboxVars
  <1>2. /\ user' \in User /\ page_dbevent_map' = EmptyMap
        /\ \A u \in DOMAIN user_store_change_map' : user_store_change_map'[u] \in Changes
    BY <1>0, <1>1, PoppedEmpty DEF Shape
  <1>3. /\ DOMAIN page_datachange_map' = DOMAIN page_datachange_map \ {p}
        /\ \A r \in DOMAIN page_datachange_map' : page_datachange_map'[r] = page_datachange_map[r]
    BY <1>1 DEF Popped, Restrict
  <1>4. /\ \A r \in DOMAIN rows : rows[r] \in Row /\ RowOK(rows[r], clock)
        /\ \A r \in DOMAIN page_datachange_map :
              page_datachange_map[r] \in Changes /\ InOrder(page_datachange_map[r], clock)
    BY <1>0, QueuesLater
  <1>5. \A r \in DOMAIN rows' :
           /\ InViewStamps(r)' = InViewStamps(r)
           /\ OnRowStamps(r)' = OnRowStamps(r)
           /\ AtDeskStamps(r)' \subseteq AtDeskStamps(r)
    <2>1. \A r : Stamps(Pending(page_datachange_map', r)) \subseteq Stamps(Pending(page_datachange_map, r))
      BY <1>3, NoChanges DEF Pending
    <2> QED BY <1>1, <2>1 DEF InViewStamps, OnRowStamps, AtDeskStamps
  <1>6. DOMAIN page_datachange_map' \subseteq Page
    BY <1>0, <1>3 DEF Shape
  <1> QED BY <1>0, <1>1, <1>2, <1>3, <1>4, <1>5, <1>6, QuietStep

LEMMA LoginStep ==
    ASSUME MailInv, NEW u \in User, change_connection_user(u)
    PROVE  MailInv'
  <1>0. Shape
    BY DEF MailInv
  <1>1. /\ user' = u
        /\ UNCHANGED <<page_datachange_map, page_dbevent_map, user_store_change_map,
                       clock, rows, store, collects, delivered>>
    BY DEF change_connection_user, deskVars, queueVars
  <1> QED BY <1>0, <1>1, RowsKeepQueues DEF Shape

LEMMA FoldLoginStep ==
    ASSUME MailInv, FoldLogin
    PROVE  MailInv'
  <1>0. Shape
    BY DEF MailInv
  <1>1. /\ user_store_change_map' = Popped(user_store_change_map, {TheGuest})
        /\ UNCHANGED <<page_datachange_map, page_dbevent_map, user,
                       clock, rows, store, collects, delivered>>
    BY DEF FoldLogin, mailboxVars
  <1>2. \A u \in DOMAIN user_store_change_map' : user_store_change_map'[u] \in Changes
    BY <1>0, <1>1 DEF Shape, Popped, Restrict
  <1> QED BY <1>0, <1>1, <1>2, RowsKeepQueues DEF Shape
-----------------------------------------------------------------------------
(* The requests. *)

LEMMA NoReplyFits ==
    /\ NoReply \in Reply /\ NoReply.datachanges = <<>> /\ NoReply.store_changes = <<>>
    /\ \A now : InOrder(NoReply.datachanges, now)
  BY NoChanges DEF NoReply, Reply, InOrder

LEMMA EnvelopeMap ==
    ASSUME NEW e \in Envelope
    PROVE  /\ DOMAIN e \subseteq Page
           /\ \A p \in DOMAIN e : e[p] \in Changes
           /\ \A p \in Page, batch \in Changes :
                 /\ Put(e, p, batch) \in Envelope
                 /\ DOMAIN Put(e, p, batch) = DOMAIN e \cup {p}
                 /\ Put(e, p, batch)[p] = batch
                 /\ \A q \in DOMAIN e : q # p => Put(e, p, batch)[q] = e[q]
  <1>1. PICK Q \in SUBSET Page : e \in [Q -> Changes]
    BY DEF Envelope
  <1>2. DOMAIN e \subseteq Page /\ \A p \in DOMAIN e : e[p] \in Changes
    BY <1>1
  <1>3. ASSUME NEW p \in Page, NEW batch \in Changes
        PROVE  /\ Put(e, p, batch) \in [DOMAIN e \cup {p} -> Changes]
               /\ DOMAIN e \cup {p} \in SUBSET Page
               /\ Put(e, p, batch)[p] = batch
               /\ \A q \in DOMAIN e : q # p => Put(e, p, batch)[q] = e[q]
    BY <1>2 DEF Put
  <1>4. ASSUME NEW p \in Page, NEW batch \in Changes
        PROVE  Put(e, p, batch) \in Envelope /\ DOMAIN Put(e, p, batch) = DOMAIN e \cup {p}
    BY <1>3, <1>4 DEF Envelope
  <1> QED BY <1>2, <1>3, <1>4

LEMMA EmptyEnvelope == EmptyMap \in Envelope /\ DOMAIN EmptyMap = {}
  <1>1. EmptyMap \in [{} -> Changes]
    BY DEF EmptyMap
  <1> QED BY <1>1 DEF Envelope

LEMMA NewRequest ==
    ASSUME Shape, NEW p \in Page, NEW children \in SUBSET Page, NEW e \in Envelope,
           p \notin children, children \cap DOMAIN e = {}, p \notin DOMAIN e,
           \A q \in DOMAIN e : InOrder(e[q], clock)
    PROVE  /\ collect_page(p, children, e) \in Request
           /\ RequestOK(collect_page(p, children, e), clock)
           /\ collect_page(p, children, e).reply = NoReply
           /\ collect_page(p, children, e).envelope = e
  <1> DEFINE r == collect_page(p, children, e)
  <1>1. r = [pc |-> "exchanging", page |-> p, user |-> user, reply |-> NoReply,
             children |-> children, envelope |-> e]
    BY DEF collect_page
  <1>2. user \in User
    BY DEF Shape
  <1>3. r \in Request
    BY <1>1, <1>2, NoReplyFits DEF Request
  <1>4. RequestOK(r, clock)
    BY <1>1, NoReplyFits DEF RequestOK
  <1> QED BY <1>1, <1>3, <1>4

\* What a step of t makes of its own request and of what the browser has: the
\* parts of StepKeeps that are about them, and where the mail of t goes.
Answered(t, got, env, now) ==
    /\ OthersStay(t)
    /\ DOMAIN collects' \subseteq DOMAIN collects \cup {t}
    /\ t \in DOMAIN collects' => collects'[t] \in Request /\ RequestOK(collects'[t], now)
    /\ \A p \in Page :
          /\ delivered'[p] = Receives(delivered[p], got[p])
          /\ InOrder(got[p], now)
          /\ Mine(t, p)' \cup Stamps(got[p]) = Stamps(Pending(env, p))
          /\ Mine(t, p)' \cap Stamps(got[p]) = {}

LEMMA AnswersEffect ==
    ASSUME Shape, NEW t \in DOMAIN collects, NEW env \in Envelope, NEW children \in SUBSET Page,
           collects[t].page \notin children, children \cap DOMAIN env = {}, NEW now,
           \A p \in DOMAIN env : InOrder(env[p], now),
           Answers(t, children, env)
    PROVE  \E got \in [Page -> Changes] :
              /\ Answered(t, got, env, now) /\ delivered' \in [Page -> Seq(Changes)]
              /\ children = {} => got = [p \in Page |-> Pending(env, p)]
                                  /\ DOMAIN collects' = DOMAIN collects \ {t}
              /\ children # {} => t \in DOMAIN collects' /\ collects'[t].envelope = env
                                  /\ collects'[t].reply = NoReply
  <1>0. collects[t] \in Request /\ delivered \in [Page -> Seq(Changes)]
    BY DEF Shape
  <1>1. /\ DOMAIN env \subseteq Page /\ \A p \in Page : Pending(env, p) \in Changes
        /\ \A p \in Page : InOrder(Pending(env, p), now)
    BY EnvelopeMap, PendingChanges, PendingInOrder
  <1>2. CASE children = {} /\ delivered' = Delivered(env) /\ Ends(t)
    <2> DEFINE got == [p \in Page |-> Pending(env, p)]
    <2>1. got \in [Page -> Changes] /\ \A p \in Page : got[p] = Pending(env, p)
      BY <1>1
    <2>2. \A p \in Page : delivered'[p] = Receives(delivered[p], got[p])
      BY <1>2 DEF Delivered, Pending, Receives
    <2>3. DOMAIN collects' = DOMAIN collects \ {t} /\ OthersStay(t)
      BY <1>2, PoppedMap DEF Ends, OthersStay
    <2>4. \A p : Mine(t, p)' = {}
      BY <2>3 DEF Mine
    <2>5. delivered' \in [Page -> Seq(Changes)]
      <3>1. \A p \in Page : delivered'[p] \in Seq(Changes)
        BY <1>0, <2>1, <2>2, ReceivesBatch
      <3>2. delivered' = [p \in Page |-> delivered'[p]]
        BY <1>2 DEF Delivered
      <3> QED BY <3>1, <3>2
    <2>6. Answered(t, got, env, now)
      BY <1>1, <2>1, <2>2, <2>3, <2>4 DEF Answered
    <2> QED BY <1>2, <2>1, <2>3, <2>5, <2>6
  <1>3. CASE /\ children # {}
             /\ collects' = [collects EXCEPT ![t] =
                     [@ EXCEPT !.pc = "next", !.reply = NoReply,
                               !.children = children, !.envelope = env]]
             /\ UNCHANGED delivered
    <2> DEFINE got == [p \in Page |-> <<>>]
               r == [collects[t] EXCEPT !.pc = "next", !.reply = NoReply,
                                        !.children = children, !.envelope = env]
    <2>1. got \in [Page -> Changes] /\ \A p \in Page : got[p] = <<>>
      BY NoChanges
    <2>2. \A p \in Page : delivered'[p] = Receives(delivered[p], got[p]) /\ InOrder(got[p], now)
      BY <1>3, <2>1, NoChanges DEF Receives, InOrder
    <2>3. /\ r \in Request /\ r.pc = "next" /\ r.reply = NoReply /\ r.children = children
          /\ r.envelope = env /\ r.page = collects[t].page
      BY <1>0, NoReplyFits DEF Request
    <2>4. collects' = [collects EXCEPT ![t] = r]
      BY <1>3
    <2> HIDE DEF r, got
    <2>5. /\ OthersStay(t) /\ DOMAIN collects' = DOMAIN collects /\ collects'[t] = r
      BY <2>4 DEF OthersStay
    <2>6. RequestOK(r, now)
      BY <2>3, NoReplyFits DEF RequestOK
    <2>7. \A p : Mine(t, p)' = Stamps(Pending(env, p))
      BY <2>3, <2>5, NoReplyFits, NoChanges DEF Mine, Held
    <2>8. \A p \in Page : Stamps(got[p]) = {}
      BY <2>1, NoChanges
    <2>9. Answered(t, got, env, now)
      BY <2>2, <2>3, <2>5, <2>6, <2>7, <2>8 DEF Answered
    <2> QED BY <1>0, <1>3, <2>1, <2>3, <2>5, <2>9
  <1> QED BY <1>2, <1>3 DEF Answers

\* The rows and the desk stay, and t keeps or delivers some of what it held.
LEMMA RequestStep ==
    ASSUME MailInv, NEW t \in Thread, NEW got \in [Page -> Changes], NEW env,
           Answered(t, got, env, clock), delivered' \in [Page -> Seq(Changes)],
           UNCHANGED <<page_datachange_map, page_dbevent_map, user_store_change_map,
                       clock, user, rows, store>>,
           \A p \in DOMAIN rows : Stamps(Pending(env, p)) \subseteq Mine(t, p)
    PROVE  MailInv'
  <1>0. /\ Shape /\ Apart /\ MailDeliveredOnce /\ clock \in Nat /\ clock <= clock'
        /\ DOMAIN rows \subseteq Page
    BY DEF MailInv, Shape
  <1>1. /\ OthersStay(t)
        /\ DOMAIN collects' \subseteq DOMAIN collects \cup {t}
        /\ t \in DOMAIN collects' => collects'[t] \in Request /\ RequestOK(collects'[t], clock)
        /\ \A p \in Page : delivered'[p] = Receives(delivered[p], got[p])
        /\ \A p \in Page : InOrder(got[p], clock)
        /\ \A p \in Page : /\ Mine(t, p)' \cup Stamps(got[p]) = Stamps(Pending(env, p))
                           /\ Mine(t, p)' \cap Stamps(got[p]) = {}
    BY DEF Answered
  <1>2. Shape'
    <2>1. DOMAIN collects' \subseteq Thread /\ \A s \in DOMAIN collects' : collects'[s] \in Request
      BY <1>0, <1>1 DEF Shape, OthersStay
    <2> QED BY <1>0, <2>1 DEF Shape
  <1>3. /\ \A p \in DOMAIN rows : RowOK(rows[p], clock)
        /\ \A p \in DOMAIN page_datachange_map : InOrder(page_datachange_map[p], clock)
    BY DEF MailInv, AllInOrder
  <1>4. ASSUME NEW p \in DOMAIN rows'
        PROVE  Parted(t, p, got[p])
    <2>1. p \in DOMAIN rows /\ p \in Page
      BY <1>0
    <2>2. /\ OnRowStamps(p)' = OnRowStamps(p) /\ InViewStamps(p)' = InViewStamps(p)
          /\ AtDeskStamps(p)' = AtDeskStamps(p) /\ Waiting(p)' = Waiting(p)
      BY DEF OnRowStamps, InViewStamps, AtDeskStamps, Waiting
    <2>3. Waiting(p) = OnRowStamps(p) \cup InViewStamps(p) \cup AtDeskStamps(p)
      BY DEF Waiting, OnRowStamps, InViewStamps, AtDeskStamps
    <2>4. /\ OnRowStamps(p) \cap InViewStamps(p) = {}
          /\ OnRowStamps(p) \cap AtDeskStamps(p) = {}
          /\ InViewStamps(p) \cap AtDeskStamps(p) = {}
      BY <1>0, <2>1 DEF Apart
    <2>5. Waiting(p) \cap Mine(t, p) = {}
      BY <1>0, <2>1 DEF MailDeliveredOnce, Mine, Retired
    <2>6. /\ Mine(t, p)' \subseteq Mine(t, p) /\ Stamps(got[p]) \subseteq Mine(t, p)
          /\ Mine(t, p)' \cap Stamps(got[p]) = {}
      BY <1>1, <2>1
    <2> QED BY <2>2, <2>3, <2>4, <2>5, <2>6 DEF Parted, Pool
  <1> QED BY <1>0, <1>1, <1>2, <1>3, <1>4, StepKeeps

\* t has nothing for anybody, before or after.
LEMMA NothingGot ==
    ASSUME Shape, NEW now
    PROVE  \E got \in [Page -> Changes] :
              /\ \A p \in Page : Stamps(got[p]) = {} /\ InOrder(got[p], now)
              /\ \A p \in Page : delivered[p] = Receives(delivered[p], got[p])
  <1> DEFINE got == [p \in Page |-> <<>>]
  <1>1. got \in [Page -> Changes] /\ \A p \in Page : got[p] = <<>>
    BY NoChanges
  <1>2. \A p \in Page : /\ Stamps(got[p]) = {} /\ InOrder(got[p], now)
                        /\ delivered[p] = Receives(delivered[p], got[p])
    BY <1>1, NoChanges DEF InOrder, Receives
  <1> HIDE DEF got
  <1> QED BY <1>1, <1>2

LEMMA PingStep ==
    ASSUME MailInv, NEW t \in Thread, NEW p \in Page, NEW children \in SUBSET (Page \ {p}),
           handle_ping(t, p, children)
    PROVE  MailInv'
  <1>0. Shape
    BY DEF MailInv
  <1> DEFINE r == collect_page(p, children, EmptyMap)
  <1>1. /\ t \notin DOMAIN collects
        /\ DOMAIN collects' = DOMAIN collects \cup {t} /\ collects'[t] = r
        /\ \A s \in DOMAIN collects : collects'[s] = collects[s]
        /\ UNCHANGED <<page_datachange_map, page_dbevent_map, user_store_change_map,
                       clock, user, rows, store, delivered>>
    BY DEF handle_ping, deskVars, queueVars
  <1>2. r \in Request /\ RequestOK(r, clock) /\ r.reply = NoReply /\ r.envelope = EmptyMap
    BY <1>0, EmptyEnvelope, NewRequest
  <1> HIDE DEF r
  <1>3. OthersStay(t)
    BY <1>1 DEF OthersStay
  <1>4. \A q : Stamps(Pending(EmptyMap, q)) = {}
    BY EmptyEnvelope, NoChanges DEF Pending
  <1>5. \A q : Mine(t, q)' = {}
    BY <1>1, <1>2, <1>4, NoReplyFits, NoChanges DEF Mine, Held
  <1>6. PICK got \in [Page -> Changes] :
           /\ \A q \in Page : Stamps(got[q]) = {} /\ InOrder(got[q], clock)
           /\ \A q \in Page : delivered[q] = Receives(delivered[q], got[q])
    BY <1>0, NothingGot
  <1>7. Answered(t, got, EmptyMap, clock)
    BY <1>1, <1>2, <1>3, <1>4, <1>5, <1>6 DEF Answered
  <1>8. delivered' \in [Page -> Seq(Changes)]
    BY <1>0, <1>1 DEF Shape
  <1> QED BY <1>1, <1>4, <1>7, <1>8, RequestStep

\* The request of t fails.
LEMMA FailStep ==
    ASSUME MailInv, NEW t \in DOMAIN collects, Ends(t),
           UNCHANGED <<page_datachange_map, page_dbevent_map, user_store_change_map,
                       clock, user, rows, store, delivered>>
    PROVE  MailInv'
  <1>0. Shape /\ t \in Thread
    BY DEF MailInv, Shape
  <1>1. DOMAIN collects' = DOMAIN collects \ {t} /\ OthersStay(t)
    BY DEF Ends, OthersStay, Popped, Restrict
  <1>2. \A q : Mine(t, q)' = {}
    BY <1>1 DEF Mine
  <1>3. \A q : Stamps(Pending(EmptyMap, q)) = {}
    BY EmptyEnvelope, NoChanges DEF Pending
  <1>4. PICK got \in [Page -> Changes] :
           /\ \A q \in Page : Stamps(got[q]) = {} /\ InOrder(got[q], clock)
           /\ \A q \in Page : delivered[q] = Receives(delivered[q], got[q])
    BY <1>0, NothingGot
  <1>5. Answered(t, got, EmptyMap, clock)
    BY <1>1, <1>2, <1>3, <1>4 DEF Answered
  <1>6. delivered' \in [Page -> Seq(Changes)]
    BY <1>0 DEF Shape
  <1> QED BY <1>0, <1>3, <1>5, <1>6, RequestStep

LEMMA RequestParts ==
    ASSUME MailInv, NEW t \in DOMAIN collects
    PROVE  /\ t \in Thread /\ collects[t] \in Request /\ RequestOK(collects[t], clock)
           /\ collects[t].page \in Page /\ collects[t].user \in User
           /\ collects[t].reply \in Reply /\ collects[t].reply.datachanges \in Changes
           /\ collects[t].reply.store_changes \in Changes
           /\ collects[t].children \in SUBSET Page /\ collects[t].envelope \in Envelope
           /\ \A p \in DOMAIN collects[t].envelope : InOrder(collects[t].envelope[p], clock)
  BY DEF MailInv, Shape, AllInOrder, Request, Reply, RequestOK

\* What t holds is its reply, for the page it is at, and its envelope.
LEMMA HeldWithoutReply ==
    ASSUME MailInv, NEW t \in DOMAIN collects, NEW p,
           collects[t].pc # "collecting" \/ p # collects[t].page
    PROVE  Mine(t, p) = Stamps(Pending(collects[t].envelope, p))
  <1>1. RequestOK(collects[t], clock)
    BY RequestParts
  <1>2. collects[t].page = p => Stamps(collects[t].reply.datachanges) = {}
    BY <1>1, NoReplyFits, NoChanges DEF RequestOK
  <1> QED BY <1>2 DEF Mine, Held

\* An answer with the batches t has.
LEMMA AnswerStep ==
    ASSUME MailInv, NEW t \in DOMAIN collects, NEW children \in SUBSET collects[t].children,
           Answers(t, children, collects[t].envelope),
           \A p \in DOMAIN rows : collects[t].pc # "collecting" \/ p # collects[t].page,
           UNCHANGED <<page_datachange_map, page_dbevent_map, user_store_change_map,
                       clock, user, rows, store>>
    PROVE  MailInv'
  <1> DEFINE env == collects[t].envelope
  <1>0. Shape /\ t \in Thread
    BY DEF MailInv, Shape
  <1>1. /\ env \in Envelope /\ children \in SUBSET Page /\ collects[t].page \notin children
        /\ children \cap DOMAIN env = {} /\ \A p \in DOMAIN env : InOrder(env[p], clock)
    BY RequestParts DEF RequestOK
  <1>2. \A p \in DOMAIN rows : Stamps(Pending(env, p)) \subseteq Mine(t, p)
    BY HeldWithoutReply
  <1> HIDE DEF env
  <1>3. Answers(t, children, env)
    BY DEF env
  <1>4. PICK got \in [Page -> Changes] :
           Answered(t, got, env, clock) /\ delivered' \in [Page -> Seq(Changes)]
    BY <1>0, <1>1, <1>3, AnswersEffect
  <1> QED BY <1>0, <1>2, <1>4, RequestStep

LEMMA NextChildStep ==
    ASSUME MailInv, NEW t \in Thread, NEW p \in Page, NextChild(t, p)
    PROVE  MailInv'
  <1> DEFINE children == collects[t].children \ {p}
             env == collects[t].envelope
             r == collect_page(p, children, env)
  <1>0. Shape
    BY DEF MailInv
  <1>1. /\ t \in DOMAIN collects /\ collects[t].pc = "next" /\ p \in collects[t].children
        /\ UNCHANGED <<page_datachange_map, page_dbevent_map, user_store_change_map,
                       clock, user, rows, store>>
    BY DEF NextChild, At, deskVars, queueVars
  <1>2. CASE collects' = [collects EXCEPT ![t] = r] /\ UNCHANGED delivered
    <2>1. /\ env \in Envelope /\ children \in SUBSET Page /\ p \notin children
          /\ children \cap DOMAIN env = {} /\ p \notin DOMAIN env
          /\ \A q \in DOMAIN env : InOrder(env[q], clock)
      BY <1>1, RequestParts DEF RequestOK
    <2>2. \A q : Mine(t, q) = Stamps(Pending(env, q))
      BY <1>1, HeldWithoutReply
    <2> HIDE DEF env, children
    <2>3. r \in Request /\ RequestOK(r, clock) /\ r.reply = NoReply /\ r.envelope = env
      BY <1>0, <2>1, NewRequest
    <2> HIDE DEF r
    <2>4. DOMAIN collects' = DOMAIN collects /\ collects'[t] = r /\ OthersStay(t)
      BY <1>1, <1>2 DEF OthersStay
    <2>5. \A q : Mine(t, q)' = Stamps(Pending(env, q))
      BY <1>1, <2>3, <2>4, NoReplyFits, NoChanges DEF Mine, Held
    <2>6. PICK got \in [Page -> Changes] :
             /\ \A q \in Page : Stamps(got[q]) = {} /\ InOrder(got[q], clock)
             /\ \A q \in Page : delivered[q] = Receives(delivered[q], got[q])
      BY <1>0, NothingGot
    <2>7. Answered(t, got, env, clock)
      BY <1>1, <1>2, <2>3, <2>4, <2>5, <2>6 DEF Answered
    <2>8. delivered' \in [Page -> Seq(Changes)]
      BY <1>0, <1>2 DEF Shape
    <2> QED BY <1>1, <2>2, <2>7, <2>8, RequestStep
  <1>3. CASE Answers(t, children, env)
    <2>1. children \in SUBSET collects[t].children
      OBVIOUS
    <2> HIDE DEF children
    <2> QED BY <1>1, <1>3, <2>1, AnswerStep
  <1> QED BY <1>2, <1>3 DEF NextChild

LEMMA NoPageStep ==
    ASSUME MailInv, NEW t \in Thread, CollectFindsNoPage(t)
    PROVE  MailInv'
  <1>1. /\ t \in DOMAIN collects /\ collects[t].page \notin DOMAIN rows
        /\ Answers(t, collects[t].children, collects[t].envelope)
        /\ UNCHANGED <<page_datachange_map, page_dbevent_map, user_store_change_map,
                       clock, user, rows, store>>
    BY DEF CollectFindsNoPage, At, deskVars, queueVars
  <1>2. collects[t].children \in SUBSET collects[t].children
    OBVIOUS
  <1> QED BY <1>1, <1>2, AnswerStep

LEMMA RefusedStep ==
    ASSUME MailInv, NEW t \in Thread, ExchangeRefused(t) \/ CollectFindsNoUser(t)
    PROVE  MailInv'
  <1>1. /\ t \in DOMAIN collects /\ Ends(t)
        /\ UNCHANGED <<page_datachange_map, page_dbevent_map, user_store_change_map,
                       clock, user, rows, store, delivered>>
    BY DEF ExchangeRefused, CollectFindsNoUser, At, deskVars, queueVars
  <1> QED BY <1>1, FailStep

LEMMA NothingFiled == FiledDbevents(<<>>) = page_dbevent_map
  <1> DEFINE Loop(f) == f = [n \in 0..0 |->
                               IF n = 0 THEN page_dbevent_map ELSE file_dbevent(f[n - 1], <<>>[n])]
             filed == CHOOSE f : Loop(f)
  <1>1. Loop([n \in 0..0 |-> page_dbevent_map])
    OBVIOUS
  <1> HIDE DEF Loop
  <1>2. Loop(filed)
    BY <1>1
  <1> USE DEF Loop
  <1>3. filed[0] = page_dbevent_map
    <2> HIDE DEF filed
    <2> QED BY <1>2
  <1>4. FiledDbevents(<<>>) = filed[0]
    BY EmptySeq DEF FiledDbevents
  <1> QED BY <1>3, <1>4

LEMMA ExchangeStep ==
    ASSUME MailInv, NEW t \in Thread, ExchangeCall(t)
    PROVE  MailInv'
  <1> DEFINE p == collects[t].page
             u == collects[t].user
             reply == [datachanges |-> Pending(page_datachange_map, p), dbevents |-> <<>>,
                       store_changes |-> Pending(user_store_change_map, u)]
             r == [collects[t] EXCEPT !.pc = "collecting", !.reply = reply]
  <1>0. /\ Shape /\ AllInOrder /\ Apart /\ MailDeliveredOnce /\ clock \in Nat /\ clock <= clock
        /\ page_dbevent_map = EmptyMap /\ DOMAIN rows \subseteq Page
    BY DEF MailInv, Shape
  <1>1. /\ t \in DOMAIN collects /\ collects[t].pc = "exchanging"
        /\ page_datachange_map' = Popped(page_datachange_map, {p})
        /\ user_store_change_map' = Popped(user_store_change_map, {u})
        /\ UNCHANGED <<clock, user, rows, store, delivered>>
    BY DEF ExchangeCall, At, exchange
  <1>2. page_dbevent_map' = EmptyMap
    BY <1>0, NothingFiled, PoppedEmpty DEF ExchangeCall, exchange
  <1>3. ExchangeReply(p, u, <<>>) = reply
    BY <1>0, NothingFiled, EmptyEnvelope DEF ExchangeReply, Pending
  <1>4. collects' = [collects EXCEPT ![t] = r]
    BY <1>3 DEF ExchangeCall
  <1>5. /\ Pending(page_datachange_map, p) \in Changes
        /\ InOrder(Pending(page_datachange_map, p), clock)
        /\ Pending(user_store_change_map, u) \in Changes
    BY <1>0, PendingChanges, PendingInOrder DEF Shape, AllInOrder
  <1>6. reply \in Reply /\ reply.datachanges = Pending(page_datachange_map, p)
    BY <1>5 DEF Reply
  <1> HIDE DEF reply
  <1>7. /\ r \in Request /\ r.page = p /\ r.reply = reply /\ r.pc = "collecting"
        /\ r.children = collects[t].children /\ r.envelope = collects[t].envelope
    BY <1>1, <1>6, RequestParts DEF Request
  <1> HIDE DEF r
  <1>8. RequestOK(r, clock)
    <2>1. RequestOK(collects[t], clock)
      BY <1>1, RequestParts
    <2> QED BY <1>1, <1>5, <1>6, <1>7, <2>1 DEF RequestOK
  <1>9. DOMAIN collects' = DOMAIN collects /\ collects'[t] = r /\ OthersStay(t)
    BY <1>1, <1>4 DEF OthersStay
  <1>10. /\ DOMAIN page_datachange_map' = DOMAIN page_datachange_map \ {p}
         /\ \A q \in DOMAIN page_datachange_map' : page_datachange_map'[q] = page_datachange_map[q]
    BY <1>1 DEF Popped, Restrict
  <1>11. \A w \in DOMAIN user_store_change_map' : user_store_change_map'[w] \in Changes
    BY <1>0, <1>1 DEF Shape, Popped, Restrict
  <1>12. Shape'
    <2>1. DOMAIN collects' \subseteq Thread /\ \A s \in DOMAIN collects' : collects'[s] \in Request
      BY <1>0, <1>7, <1>9 DEF Shape, OthersStay
    <2> QED BY <1>0, <1>1, <1>2, <1>10, <1>11, <2>1 DEF Shape
  <1>13. PICK got \in [Page -> Changes] :
            /\ \A q \in Page : Stamps(got[q]) = {} /\ InOrder(got[q], clock)
            /\ \A q \in Page : delivered[q] = Receives(delivered[q], got[q])
    BY <1>0, NothingGot
  <1>14. ASSUME NEW q \in DOMAIN rows'
         PROVE  Parted(t, q, got[q])
    <2>1. q \in DOMAIN rows /\ q \in Page /\ Stamps(got[q]) = {}
      BY <1>0, <1>1, <1>13
    <2>2. OnRowStamps(q)' = OnRowStamps(q) /\ InViewStamps(q)' = InViewStamps(q)
      BY <1>1 DEF OnRowStamps, InViewStamps
    <2>3. /\ Waiting(q) = OnRowStamps(q) \cup InViewStamps(q) \cup AtDeskStamps(q)
          /\ Waiting(q)' = OnRowStamps(q)' \cup InViewStamps(q)' \cup AtDeskStamps(q)'
      BY DEF Waiting, OnRowStamps, InViewStamps, AtDeskStamps
    <2>4. /\ OnRowStamps(q) \cap InViewStamps(q) = {}
          /\ OnRowStamps(q) \cap AtDeskStamps(q) = {}
          /\ InViewStamps(q) \cap AtDeskStamps(q) = {}
      BY <1>0, <2>1 DEF Apart
    <2>5. Waiting(q) \cap Mine(t, q) = {}
      BY <1>0, <2>1 DEF MailDeliveredOnce, Mine, Retired
    <2>6. Mine(t, q) = Stamps(Pending(collects[t].envelope, q))
      BY <1>1, HeldWithoutReply
    <2>7. Mine(t, q)' = (IF p = q THEN AtDeskStamps(q) ELSE {}) \cup Mine(t, q)
      BY <1>1, <1>6, <1>7, <1>9, <2>6 DEF Mine, Held, AtDeskStamps
    <2>8. AtDeskStamps(q)' = IF p = q THEN {} ELSE AtDeskStamps(q)
      BY <1>10, NoChanges DEF AtDeskStamps, Pending
    <2> HIDE DEF p
    <2> QED BY <2>1, <2>2, <2>3, <2>4, <2>5, <2>7, <2>8 DEF Parted, Pool
  <1>15. /\ \A q \in DOMAIN rows : RowOK(rows[q], clock)
         /\ \A q \in DOMAIN page_datachange_map : InOrder(page_datachange_map[q], clock)
    BY <1>0 DEF AllInOrder
  <1> QED BY <1>0, <1>1, <1>8, <1>9, <1>10, <1>12, <1>13, <1>14, <1>15, StepKeeps

\* The state a drain finds and the batch it makes.
Draining(t) ==
    /\ t \in DOMAIN collects /\ collects[t].pc = "collecting"
    /\ collects[t].page \in DOMAIN rows

Writes(t) == collects[t].reply.store_changes
SeenBy(p, t) == AfterCaptures(rows[p], Writes(t))
BatchOf(t) == Batch(SeenBy(collects[t].page, t), collects[t].reply.datachanges)

LEMMA ViewAfterCaptures ==
    ASSUME MailInv, NEW t \in DOMAIN collects, NEW p \in DOMAIN rows
    PROVE  /\ SeenBy(p, t) \in Row
           /\ SeenBy(p, t).datachanges = rows[p].datachanges
           /\ InOrder(SeenBy(p, t).user_view.changes, clock + Len(Writes(t)))
           /\ \A x \in Stamps(SeenBy(p, t).user_view.changes) : x \in InViewStamps(p) \/ x \in Later
           /\ InViewStamps(p) \subseteq Stamps(SeenBy(p, t).user_view.changes)
           /\ Len(Writes(t)) \in Nat
  <1> DEFINE w == Writes(t)
             new == Captures(rows[p].user_view.paths, w)
             old == rows[p].user_view.changes
  <1>0. clock \in Nat /\ rows[p] \in Row /\ RowOK(rows[p], clock)
    BY DEF MailInv, Shape, AllInOrder
  <1>1. w \in Changes /\ Len(w) \in Nat
    BY RequestParts, LenProperties DEF Writes, Changes
  <1> HIDE DEF w
  <1>2. /\ SeenBy(p, t) \in Row /\ SeenBy(p, t).datachanges = rows[p].datachanges
        /\ SeenBy(p, t).user_view.changes = old \o new
    BY <1>0, <1>1, CapturedRow DEF SeenBy, w
  <1>3. /\ new \in Changes /\ Sorted(new)
        /\ \A x \in Stamps(new) : clock < x /\ x <= clock + Len(w)
    BY <1>0, <1>1, CapturedQueue
  <1>4. old \in Changes /\ InOrder(old, clock)
    BY <1>0 DEF Row, RowOK
  <1> HIDE DEF new, old
  <1>5. /\ \A x \in Stamps(old) : x \in Nat /\ x <= clock
        /\ \A x \in Stamps(new) : x \in Nat
    BY <1>3, <1>4, StampsAreNat DEF InOrder
  <1>6. \A x \in Stamps(old), y \in Stamps(new) : x < y
    BY <1>0, <1>3, <1>5
  <1>7. Stamps(old \o new) = Stamps(old) \cup Stamps(new) /\ Sorted(old \o new)
    BY <1>3, <1>4, <1>6, TwoQueues DEF InOrder
  <1>8. InOrder(old \o new, clock + Len(w))
    BY <1>0, <1>1, <1>3, <1>5, <1>7 DEF InOrder
  <1>9. \A x \in Stamps(new) : x \in Later
    BY <1>3, <1>5 DEF Later
  <1>10. Stamps(old) = InViewStamps(p)
    BY DEF old, InViewStamps
  <1> QED BY <1>1, <1>2, <1>7, <1>8, <1>9, <1>10 DEF w

LEMMA NotLater ==
    ASSUME MailInv, NEW p \in DOMAIN rows
    PROVE  \A x \in Waiting(p) \cup Retired(p) : x \notin Later
  <1>0. Shape /\ AllInOrder /\ clock \in Nat
    BY DEF MailInv, Shape
  <1>1. /\ rows[p] \in Row /\ RowOK(rows[p], clock)
        /\ Pending(page_datachange_map, p) \in Changes
        /\ InOrder(Pending(page_datachange_map, p), clock)
    BY <1>0, PendingChanges, PendingInOrder DEF Shape, AllInOrder
  <1>2. /\ rows[p].datachanges \in Changes /\ InOrder(rows[p].datachanges, clock)
        /\ rows[p].user_view.changes \in Changes /\ InOrder(rows[p].user_view.changes, clock)
    BY <1>1 DEF Row, RowOK
  <1>3. \A q \in Changes : InOrder(q, clock) => \A x \in Stamps(q) : x \notin Later
    BY <1>0, StampsAreNat DEF InOrder, Later
  <1>4. \A x \in Waiting(p) : x \notin Later
    BY <1>1, <1>2, <1>3 DEF Waiting
  <1>5. \A s \in DOMAIN collects : \A x \in Held(s, p) : x \in Nat /\ x <= clock
    BY <1>0, HeldInOrder
  <1>6. \A x \in Retired(p) : x \notin Later
    BY <1>0, <1>5 DEF Retired, Later
  <1> QED BY <1>4, <1>6

LEMMA DrainBatch ==
    ASSUME MailInv, NEW t, Draining(t)
    PROVE  LET p == collects[t].page
           IN  /\ BatchOf(t) \in Changes
               /\ InOrder(BatchOf(t), clock + Len(Writes(t)))
               /\ OnRowStamps(p) \cup InViewStamps(p) \cup Mine(t, p) \subseteq Stamps(BatchOf(t))
               /\ Stamps(BatchOf(t)) \subseteq OnRowStamps(p) \cup InViewStamps(p) \cup Mine(t, p) \cup Later
  <1> DEFINE p == collects[t].page
             row == SeenBy(p, t)
             desk == collects[t].reply.datachanges
             now == clock + Len(Writes(t))
  <1>0. t \in DOMAIN collects /\ p \in DOMAIN rows /\ collects[t].pc = "collecting"
    BY DEF Draining
  <1>1. /\ desk \in Changes /\ InOrder(desk, clock) /\ p \notin DOMAIN collects[t].envelope
    BY <1>0, RequestParts DEF RequestOK
  <1>2. Mine(t, p) = Stamps(desk)
    BY <1>0, <1>1, NoChanges DEF Mine, Held, Pending
  <1>3. /\ row \in Row /\ row.datachanges = rows[p].datachanges
        /\ InOrder(row.user_view.changes, now)
        /\ \A x \in Stamps(row.user_view.changes) : x \in InViewStamps(p) \/ x \in Later
        /\ InViewStamps(p) \subseteq Stamps(row.user_view.changes)
        /\ Len(Writes(t)) \in Nat
    BY <1>0, ViewAfterCaptures
  <1>4. clock \in Nat /\ rows[p] \in Row /\ RowOK(rows[p], clock)
    BY <1>0 DEF MailInv, Shape, AllInOrder
  <1>5. rows[p].datachanges \in Changes /\ InOrder(rows[p].datachanges, clock)
    BY <1>4 DEF Row, RowOK
  <1>6. /\ OnRowStamps(p) \cap InViewStamps(p) = {}
        /\ Waiting(p) \cap Mine(t, p) = {}
        /\ \A x \in OnRowStamps(p) \cup InViewStamps(p) \cup Mine(t, p) : x \notin Later
        /\ OnRowStamps(p) \cup InViewStamps(p) \subseteq Waiting(p)
    <2>1. Mine(t, p) \subseteq Retired(p)
      BY <1>0 DEF Mine, Retired
    <2>2. OnRowStamps(p) \cup InViewStamps(p) \subseteq Waiting(p)
      BY DEF Waiting, OnRowStamps, InViewStamps
    <2>3. Apart /\ MailDeliveredOnce
      BY DEF MailInv
    <2>4. OnRowStamps(p) \cap InViewStamps(p) = {} /\ Waiting(p) \cap Retired(p) = {}
      BY <1>0, <2>3 DEF Apart, MailDeliveredOnce
    <2> QED BY <1>0, <2>1, <2>2, <2>4, NotLater
  <1>7. OnRowStamps(p) = Stamps(row.datachanges)
    BY <1>3 DEF OnRowStamps
  <1>8. BatchOf(t) = Batch(row, desk)
    BY DEF BatchOf
  <1> HIDE DEF row, desk, p
  <1>9. /\ Batch(row, desk) \in Changes
        /\ Stamps(Batch(row, desk)) =
              Stamps(row.datachanges) \cup Stamps(desk) \cup Stamps(row.user_view.changes)
    BY <1>1, <1>3, BatchOfQueues
  <1>10. /\ Stamps(row.datachanges) \cap Stamps(desk) = {}
         /\ Stamps(row.datachanges) \cap Stamps(row.user_view.changes) = {}
         /\ Stamps(desk) \cap Stamps(row.user_view.changes) = {}
    BY <1>2, <1>3, <1>6, <1>7
  <1>11. Sorted(row.datachanges) /\ Sorted(desk) /\ Sorted(row.user_view.changes)
    BY <1>1, <1>3, <1>5 DEF InOrder
  <1>12. Sorted(Batch(row, desk))
    BY <1>1, <1>3, <1>10, <1>11, BatchOfQueues
  <1>13. InOrder(Batch(row, desk), now)
    <2>1. now \in Nat /\ clock <= now
      BY <1>3, <1>4
    <2>2. InOrder(desk, now) /\ InOrder(rows[p].datachanges, now)
      BY <1>1, <1>4, <1>5, <2>1, InOrderLater
    <2> QED BY <1>3, <1>9, <1>12, <2>2 DEF InOrder
  <1> QED BY <1>2, <1>3, <1>7, <1>8, <1>9, <1>13 DEF p

LEMMA CapturedRowsInOrder ==
    ASSUME MailInv, NEW t, Draining(t), NEW p \in DOMAIN rows
    PROVE  RowOK(SeenBy(p, t), clock + Len(Writes(t)))
  <1>0. t \in DOMAIN collects
    BY DEF Draining
  <1>1. /\ SeenBy(p, t).datachanges = rows[p].datachanges /\ Len(Writes(t)) \in Nat
        /\ InOrder(SeenBy(p, t).user_view.changes, clock + Len(Writes(t)))
    BY <1>0, ViewAfterCaptures
  <1>2. clock \in Nat /\ rows[p] \in Row /\ RowOK(rows[p], clock)
    BY DEF MailInv, Shape, AllInOrder
  <1>3. rows[p].datachanges \in Changes /\ InOrder(rows[p].datachanges, clock)
    BY <1>2 DEF Row, RowOK
  <1>4. clock + Len(Writes(t)) \in Nat /\ clock <= clock + Len(Writes(t))
    BY <1>1, <1>2
  <1> QED BY <1>1, <1>2, <1>3, <1>4, InOrderLater DEF RowOK

\* What CollectDrain does, by its parts.
LEMMA DrainEffect ==
    ASSUME MailInv, NEW t \in Thread, CollectDrain(t)
    PROVE  LET p == collects[t].page
           IN  /\ Draining(t)
               /\ store' = store \o Writes(t) /\ clock' = clock + Len(Writes(t))
               /\ clock' \in Nat /\ clock <= clock'
               /\ Answers(t, collects[t].children, Put(collects[t].envelope, p, BatchOf(t)))
               /\ DOMAIN rows' = DOMAIN rows
               /\ rows'[p] = Drained(SeenBy(p, t))
               /\ \A q \in DOMAIN rows : q # p => rows'[q] = SeenBy(q, t)
               /\ UNCHANGED <<page_datachange_map, page_dbevent_map, user_store_change_map, user>>
  <1> DEFINE p == collects[t].page
  <1>1. Draining(t) /\ t \in DOMAIN collects /\ p \in DOMAIN rows
    BY DEF CollectDrain, Draining, At
  <1>2. /\ store' = store \o Writes(t) /\ clock' = clock + Len(Writes(t))
        /\ UNCHANGED <<page_datachange_map, page_dbevent_map, user_store_change_map, user>>
    BY DEF CollectDrain, Applies, Writes, deskVars, queueVars
  <1>3. Answers(t, collects[t].children, Put(collects[t].envelope, p, BatchOf(t)))
    BY DEF CollectDrain, Applies, Writes, BatchOf, SeenBy
  <1>4. rows' = [q \in DOMAIN rows |-> IF q = p THEN Drained(SeenBy(q, t)) ELSE SeenBy(q, t)]
    BY DEF CollectDrain, Applies, Writes, SeenBy
  <1>5. clock \in Nat /\ Len(Writes(t)) \in Nat
    BY <1>1, ViewAfterCaptures DEF MailInv, Shape
  <1>6. clock' \in Nat /\ clock <= clock'
    BY <1>2, <1>5
  <1>7. /\ DOMAIN rows' = DOMAIN rows /\ rows'[p] = Drained(SeenBy(p, t))
        /\ \A q \in DOMAIN rows : q # p => rows'[q] = SeenBy(q, t)
    BY <1>1, <1>4
  <1> QED BY <1>1, <1>2, <1>3, <1>6, <1>7

\* The envelope of t with the batch of the page it is at.
LEMMA DrainEnvelope ==
    ASSUME MailInv, NEW t, Draining(t)
    PROVE  LET p == collects[t].page  env == Put(collects[t].envelope, p, BatchOf(t))
           IN  /\ env \in Envelope
               /\ DOMAIN env = DOMAIN collects[t].envelope \cup {p}
               /\ Pending(env, p) = BatchOf(t)
               /\ \A q : q # p => Pending(env, q) = Pending(collects[t].envelope, q)
               /\ \A q \in DOMAIN env : InOrder(env[q], clock + Len(Writes(t)))
               /\ collects[t].children \cap DOMAIN env = {}
               /\ collects[t].children \in SUBSET Page /\ p \notin collects[t].children
  <1> DEFINE p == collects[t].page
             e == collects[t].envelope
             env == Put(e, p, BatchOf(t))
             now == clock + Len(Writes(t))
  <1>0. t \in DOMAIN collects /\ p \in DOMAIN rows
    BY DEF Draining
  <1>1. /\ e \in Envelope /\ p \in Page /\ \A q \in DOMAIN e : InOrder(e[q], clock)
        /\ collects[t].children \cap DOMAIN e = {} /\ p \notin collects[t].children
        /\ collects[t].children \in SUBSET Page
    BY <1>0, RequestParts DEF RequestOK
  <1>2. BatchOf(t) \in Changes /\ InOrder(BatchOf(t), now)
    BY DrainBatch
  <1>3. now \in Nat /\ clock \in Nat /\ clock <= now
    <2>1. clock \in Nat /\ Len(Writes(t)) \in Nat
      BY <1>0, ViewAfterCaptures DEF MailInv, Shape
    <2> QED BY <2>1
  <1> HIDE DEF p, e, now
  <1>4. /\ env \in Envelope /\ DOMAIN env = DOMAIN e \cup {p} /\ env[p] = BatchOf(t)
        /\ \A q \in DOMAIN e : q # p => env[q] = e[q]
        /\ \A q \in DOMAIN e : e[q] \in Changes
    <2>1. e \in Envelope /\ p \in Page /\ BatchOf(t) \in Changes
      BY <1>1, <1>2
    <2> HIDE DEF env
    <2>2. /\ \A q \in DOMAIN e : e[q] \in Changes
          /\ \A pp \in Page, batch \in Changes :
                 /\ Put(e, pp, batch) \in Envelope
                 /\ DOMAIN Put(e, pp, batch) = DOMAIN e \cup {pp}
                 /\ Put(e, pp, batch)[pp] = batch
                 /\ \A q \in DOMAIN e : q # pp => Put(e, pp, batch)[q] = e[q]
      BY <2>1, EnvelopeMap
    <2>3. env = Put(e, p, BatchOf(t))
      BY DEF env
    <2> QED BY <2>1, <2>2, <2>3
  <1> HIDE DEF env
  <1>5. \A q \in DOMAIN e : InOrder(e[q], now)
    BY <1>1, <1>3, <1>4, InOrderLater
  <1>6. \A q \in DOMAIN env : InOrder(env[q], now)
    BY <1>2, <1>4, <1>5
  <1>7. Pending(env, p) = BatchOf(t) /\ \A q : q # p => Pending(env, q) = Pending(e, q)
    BY <1>4 DEF Pending
  <1> QED BY <1>1, <1>4, <1>6, <1>7 DEF p, e, env, now

LEMMA DrainStep ==
    ASSUME MailInv, NEW t \in Thread, CollectDrain(t)
    PROVE  MailInv'
  <1> DEFINE p == collects[t].page
             env == Put(collects[t].envelope, p, BatchOf(t))
             now == clock + Len(Writes(t))
  <1>0. /\ Shape /\ AllInOrder /\ Apart /\ MailDeliveredOnce /\ clock \in Nat
        /\ DOMAIN rows \subseteq Page /\ store \in Changes
    BY DEF MailInv, Shape
  <1>1. /\ Draining(t)
        /\ store' = store \o Writes(t) /\ clock' = now /\ clock' \in Nat /\ clock <= clock'
        /\ Answers(t, collects[t].children, env)
        /\ DOMAIN rows' = DOMAIN rows
        /\ rows'[p] = Drained(SeenBy(p, t))
        /\ \A q \in DOMAIN rows : q # p => rows'[q] = SeenBy(q, t)
        /\ UNCHANGED <<page_datachange_map, page_dbevent_map, user_store_change_map, user>>
    BY DrainEffect
  <1>2. t \in DOMAIN collects /\ p \in DOMAIN rows /\ p \in Page
    BY <1>0, <1>1 DEF Draining
  <1>3. /\ env \in Envelope /\ Pending(env, p) = BatchOf(t)
        /\ \A q : q # p => Pending(env, q) = Pending(collects[t].envelope, q)
        /\ \A q \in DOMAIN env : InOrder(env[q], now)
        /\ collects[t].children \cap DOMAIN env = {}
        /\ collects[t].children \in SUBSET Page /\ p \notin collects[t].children
    BY <1>1, DrainEnvelope
  <1> HIDE DEF env, now
  <1>4. PICK got \in [Page -> Changes] :
           Answered(t, got, env, now) /\ delivered' \in [Page -> Seq(Changes)]
    BY <1>0, <1>1, <1>2, <1>3, AnswersEffect
  <1>5. /\ OthersStay(t)
        /\ DOMAIN collects' \subseteq DOMAIN collects \cup {t}
        /\ t \in DOMAIN collects' => collects'[t] \in Request /\ RequestOK(collects'[t], now)
        /\ \A q \in Page : delivered'[q] = Receives(delivered[q], got[q])
        /\ \A q \in Page : InOrder(got[q], now)
        /\ \A q \in Page : /\ Mine(t, q)' \cup Stamps(got[q]) = Stamps(Pending(env, q))
                           /\ Mine(t, q)' \cap Stamps(got[q]) = {}
    BY <1>4 DEF Answered
  <1>6. \A q \in DOMAIN rows' :
           /\ rows'[q] \in Row /\ RowOK(rows'[q], clock')
    <2>1. \A q \in DOMAIN rows : SeenBy(q, t) \in Row /\ RowOK(SeenBy(q, t), clock')
      BY <1>1, <1>2, ViewAfterCaptures, CapturedRowsInOrder DEF now
    <2>2. rows'[p] \in Row /\ rows'[p].datachanges = <<>> /\ rows'[p].user_view.changes = <<>>
      BY <1>1, <1>2, <2>1, DrainedRow
    <2>3. RowOK(rows'[p], clock')
      BY <2>2, NoChanges DEF RowOK, InOrder
    <2> QED BY <1>1, <2>1, <2>2, <2>3
  <1>7. Shape'
    <2>1. DOMAIN collects' \subseteq Thread /\ \A s \in DOMAIN collects' : collects'[s] \in Request
      BY <1>0, <1>2, <1>5 DEF Shape, OthersStay
    <2>2. store' \in Changes
      <3>1. Writes(t) \in Changes
        BY <1>2, RequestParts DEF Writes
      <3> QED BY <1>0, <1>1, <3>1, TwoQueues
    <2> QED BY <1>0, <1>1, <1>4, <1>6, <2>1, <2>2 DEF Shape
  <1>8. ASSUME NEW q \in DOMAIN rows'
        PROVE  Parted(t, q, got[q])
    <2>1. q \in DOMAIN rows /\ q \in Page
      BY <1>0, <1>1
    <2>2. /\ Waiting(q) = OnRowStamps(q) \cup InViewStamps(q) \cup AtDeskStamps(q)
          /\ Waiting(q)' = OnRowStamps(q)' \cup InViewStamps(q)' \cup AtDeskStamps(q)'
      BY DEF Waiting, OnRowStamps, InViewStamps, AtDeskStamps
    <2>3. /\ OnRowStamps(q) \cap InViewStamps(q) = {}
          /\ OnRowStamps(q) \cap AtDeskStamps(q) = {}
          /\ InViewStamps(q) \cap AtDeskStamps(q) = {}
      BY <1>0, <2>1 DEF Apart
    <2>4. Waiting(q) \cap Mine(t, q) = {} /\ \A x \in Waiting(q) \cup Mine(t, q) : x \notin Later
      <3>1. Mine(t, q) \subseteq Retired(q)
        BY DEF Mine, Retired
      <3>2. Waiting(q) \cap Retired(q) = {}
        BY <1>0, <2>1 DEF MailDeliveredOnce
      <3> QED BY <2>1, <3>1, <3>2, NotLater
    <2>5. AtDeskStamps(q)' = AtDeskStamps(q)
      BY <1>1 DEF AtDeskStamps
    <2>6. /\ Mine(t, q)' \cup Stamps(got[q]) = Stamps(Pending(env, q))
          /\ Mine(t, q)' \cap Stamps(got[q]) = {}
      BY <1>5, <2>1
    <2>7. CASE q = p
      <3>1. Stamps(Pending(env, q)) \subseteq OnRowStamps(q) \cup InViewStamps(q) \cup Mine(t, q) \cup Later
        BY <1>1, <1>3, <2>7, DrainBatch
      <3>2. OnRowStamps(q)' = {} /\ InViewStamps(q)' = {}
        <4>1. rows'[q].datachanges = <<>> /\ rows'[q].user_view.changes = <<>>
          BY <1>1, <1>2, <2>7, DrainedRow, ViewAfterCaptures
        <4> QED BY <4>1, NoChanges DEF OnRowStamps, InViewStamps
      <3>3. Waiting(q)' = AtDeskStamps(q)
        BY <2>2, <2>5, <3>2
      <3>4. AtDeskStamps(q) \cap Stamps(Pending(env, q)) = {}
        BY <2>2, <2>3, <2>4, <3>1
      <3>5. Stamps(Pending(env, q)) \subseteq Pool(t, q) /\ AtDeskStamps(q) \subseteq Pool(t, q)
        BY <2>2, <3>1 DEF Pool
      <3> QED BY <2>5, <2>6, <3>2, <3>3, <3>4, <3>5 DEF Parted
    <2>8. CASE q # p
      <3>1. Stamps(Pending(env, q)) = Mine(t, q)
        BY <1>2, <1>3, <2>8, HeldWithoutReply
      <3>2. rows'[q] = SeenBy(q, t)
        BY <1>1, <2>1, <2>8
      <3>3. OnRowStamps(q)' = OnRowStamps(q) /\ \A x \in InViewStamps(q)' : x \in InViewStamps(q) \/ x \in Later
        BY <1>2, <2>1, <3>2, ViewAfterCaptures DEF OnRowStamps, InViewStamps
      <3>4. OnRowStamps(q)' \cap InViewStamps(q)' = {} /\ InViewStamps(q)' \cap AtDeskStamps(q)' = {}
        BY <2>2, <2>3, <2>4, <2>5, <3>3
      <3>5. OnRowStamps(q)' \cap AtDeskStamps(q)' = {}
        BY <2>3, <2>5, <3>3
      <3>6. Waiting(q)' \subseteq Waiting(q) \cup Later
        BY <2>2, <2>5, <3>3
      <3>7. Waiting(q)' \cap Mine(t, q) = {}
        BY <2>4, <3>6
      <3> QED BY <2>2, <2>6, <3>1, <3>4, <3>5, <3>6, <3>7 DEF Parted, Pool
    <2> QED BY <2>7, <2>8
  <1>9. \A q \in DOMAIN page_datachange_map' : InOrder(page_datachange_map'[q], clock')
    <2>1. clock' \in Nat /\ clock <= clock'
      BY <1>1
    <2>2. \A q \in DOMAIN page_datachange_map : InOrder(page_datachange_map[q], clock')
      BY <2>1, QueuesLater
    <2> QED BY <1>1, <2>2
  <1> QED BY <1>1, <1>5, <1>6, <1>7, <1>8, <1>9, StepKeeps

LEMMA CollectStep ==
    ASSUME MailInv, NEW t \in Thread, Collect(t)
    PROVE  MailInv'
  <1>1. CASE \E p \in Page : \E children \in (IF "ping" \in Kinds THEN SUBSET (Page \ {p}) ELSE {{}}) :
                handle_ping(t, p, children)
    <2>1. PICK p \in Page : \E children \in (IF "ping" \in Kinds THEN SUBSET (Page \ {p}) ELSE {{}}) :
                               handle_ping(t, p, children)
      BY <1>1
    <2>2. PICK children \in SUBSET (Page \ {p}) : handle_ping(t, p, children)
      BY <2>1
    <2> QED BY <2>2, PingStep
  <1>2. CASE \E p \in Page : NextChild(t, p)
    BY <1>2, NextChildStep
  <1>3. CASE ExchangeCall(t)
    BY <1>3, ExchangeStep
  <1>4. CASE ExchangeRefused(t) \/ CollectFindsNoUser(t)
    BY <1>4, RefusedStep
  <1>5. CASE CollectDrain(t)
    BY <1>5, DrainStep
  <1>6. CASE CollectFindsNoPage(t)
    BY <1>6, NoPageStep
  <1> QED BY <1>1, <1>2, <1>3, <1>4, <1>5, <1>6 DEF Collect

LEMMA InvInit ==
    ASSUME Init
    PROVE  MailInv
  <1>1. TheGuest \in User
    BY MailboxAssumption DEF TheGuest
  <1>2. NewRow \in Row /\ NewRow.datachanges = <<>> /\ NewRow.user_view.changes = <<>>
    BY NoChanges DEF NewRow, NoView, Row
  <1>3. /\ clock = 0 /\ user = TheGuest /\ store = <<>> /\ DOMAIN rows = Page
        /\ \A p \in Page : rows[p] = NewRow
        /\ page_datachange_map = EmptyMap /\ page_dbevent_map = EmptyMap
        /\ user_store_change_map = EmptyMap /\ collects = EmptyMap
        /\ delivered = [p \in Page |-> <<>>]
    BY DEF Init
  <1>4. DOMAIN EmptyMap = {}
    BY EmptyEnvelope
  <1>5. <<>> \in Seq(Changes) /\ ToSet(<<>>) = {} /\ DOMAIN <<>> = {}
    BY EmptySeq DEF ToSet
  <1>6. Shape
    BY <1>1, <1>2, <1>3, <1>4, <1>5, NoChanges DEF Shape
  <1>7. AllInOrder
    BY <1>2, <1>3, <1>4, <1>5, NoChanges DEF AllInOrder, RowOK, InOrder
  <1>8. \A p \in Page : /\ OnRowStamps(p) = {} /\ InViewStamps(p) = {} /\ AtDeskStamps(p) = {}
                        /\ Waiting(p) = {} /\ Retired(p) = {} /\ Received(p) = {}
                        /\ delivered[p] = <<>>
    <2>1. \A p \in Page : OnRowStamps(p) = {} /\ InViewStamps(p) = {} /\ AtDeskStamps(p) = {}
      BY <1>2, <1>3, <1>4, NoChanges DEF OnRowStamps, InViewStamps, AtDeskStamps, Pending
    <2>2. \A p \in Page : Waiting(p) = {}
      BY <2>1 DEF Waiting, OnRowStamps, InViewStamps, AtDeskStamps
    <2>3. \A p \in Page : Retired(p) = {} /\ Received(p) = {} /\ delivered[p] = <<>>
      BY <1>3, <1>4, <1>5 DEF Retired, Received
    <2> QED BY <2>1, <2>2, <2>3
  <1>9. Apart /\ MailDeliveredOnce
    BY <1>3, <1>4, <1>5, <1>8 DEF Apart, MailDeliveredOnce
  <1> QED BY <1>6, <1>7, <1>9 DEF MailInv

LEMMA InvStutter ==
    ASSUME MailInv, UNCHANGED vars
    PROVE  MailInv'
  <1>1. UNCHANGED <<page_datachange_map, page_dbevent_map, user_store_change_map,
                    clock, user, rows, store, collects, delivered>>
    BY DEF vars, queueVars, mailboxVars
  <1> QED BY <1>1, RowsKeepQueues DEF MailInv, Shape

LEMMA InvNext ==
    ASSUME MailInv, [Next]_vars
    PROVE  MailInv'
  <1>1. CASE Write
    BY <1>1, WriteStep
  <1>2. CASE \E t \in Thread : Collect(t)
    BY <1>2, CollectStep
  <1>3. CASE \E p \in Page : worker_drop_page(p) \/ FoldDropPage(p)
    BY <1>3, DropStep, FoldDropStep
  <1>4. CASE \E u \in User : change_connection_user(u)
    BY <1>4, LoginStep
  <1>5. CASE FoldLogin
    BY <1>5, FoldLoginStep
  <1>6. CASE UNCHANGED vars
    BY <1>6, InvStutter
  <1> QED BY <1>1, <1>2, <1>3, <1>4, <1>5, <1>6 DEF Next
-----------------------------------------------------------------------------
(* The invariants. *)

\* What waits for a page that lives, what the collects hold for it and what its
\* browser has had are apart, and every queue and batch is in arrival order, for
\* any pages, threads, users, keys and number of writes.
THEOREM MailInvariant == Spec => []MailInv
  BY InvInit, InvNext, PTL DEF Spec

\* Each of the three queues of a page is in its own arrival order, which is what
\* heapq.merge takes for granted (genropy_worker.py, collect_page).
THEOREM MailboxTypeOK == Spec => []TypeOK
  <1>1. MailInv => TypeOK
    <2> SUFFICES ASSUME MailInv PROVE TypeOK
      OBVIOUS
    <2>1. Shape /\ AllInOrder
      BY DEF MailInv
    <2>2. \A p \in DOMAIN rows : /\ Sorted(rows[p].datachanges) /\ Sorted(rows[p].user_view.changes)
                                 /\ rows[p].subscribed_paths \subseteq Paths
                                 /\ rows[p].user_view.paths \subseteq Paths
      BY <2>1 DEF Shape, Row, AllInOrder, RowOK, InOrder
    <2>3. \A p \in Page : Sorted(Pending(page_datachange_map, p))
      BY <2>1, PendingInOrder DEF AllInOrder, InOrder
    <2>4. \A t \in DOMAIN collects : Sorted(collects[t].reply.datachanges)
      BY <2>1 DEF AllInOrder, RequestOK, InOrder
    <2> QED BY <2>1, <2>2, <2>3, <2>4 DEF TypeOK, Shape
  <1> QED BY <1>1, MailInvariant, PTL

\* Every batch a browser receives is in arrival order, whichever of the three
\* queues its changes waited in (genropy_worker.py, collect_page, the two merges).
THEOREM BatchesInOrder == Spec => []BatchInArrivalOrder
  <1>1. MailInv => BatchInArrivalOrder
    BY DEF MailInv, AllInOrder, InOrder, BatchInArrivalOrder
  <1> QED BY <1>1, MailInvariant, PTL

\* No change reaches a page twice, whatever collects, pings, refused exchanges,
\* logins and drops interleave (genropy_worker.py, collect_page; delivery_desk.py,
\* exchange).
THEOREM DeliveredOnce == Spec => []MailDeliveredOnce
  <1>1. MailInv => MailDeliveredOnce
    BY DEF MailInv
  <1> QED BY <1>1, MailInvariant, PTL
-----------------------------------------------------------------------------
(* What a step of a collect takes away. *)

\* A step of t keeps the mail of a page when it keeps what waits for it and what
\* t holds, but for what is lost: the other collects and the batches received
\* before stay.
LEMMA MailStays ==
    ASSUME MailInv, NEW t, NEW p \in Page, NEW batch \in Changes, NEW lost,
           OthersStay(t), delivered'[p] = Receives(delivered[p], batch),
           Waiting(p) \cup Mine(t, p) \subseteq Waiting(p)' \cup Mine(t, p)' \cup Stamps(batch) \cup lost
    PROVE  Mail(p) \ Mail(p)' \subseteq lost
  <1>1. delivered[p] \in Seq(Changes)
    BY DEF MailInv, Shape
  <1>2. Received(p)' = Received(p) \cup Stamps(batch)
    <2>1. ToSet(Receives(delivered[p], batch)) = ToSet(delivered[p]) \cup (IF batch = <<>> THEN {} ELSE {batch})
      BY <1>1, ReceivesBatch
    <2>2. ToSet(delivered'[p]) = ToSet(delivered[p]) \cup (IF batch = <<>> THEN {} ELSE {batch})
      BY <2>1
    <2>3. Received(p)' = UNION {Stamps(b) : b \in ToSet(delivered'[p])}
      BY DEF Received
    <2> QED BY <2>2, <2>3, NoChanges DEF Received
  <1>3. \A s \in DOMAIN collects : s # t => s \in DOMAIN collects' /\ Held(s, p)' = Held(s, p)
    BY DEF OthersStay, Held
  <1>4. Retired(p)' = UNION {Held(s, p)' : s \in DOMAIN collects'}
    BY DEF Retired
  <1>5. Mine(t, p)' \subseteq Retired(p)'
    BY <1>4 DEF Mine
  <1>6. Retired(p) \subseteq Mine(t, p) \cup Retired(p)'
    BY <1>3, <1>4 DEF Mine, Retired
  <1>7. Mail(p)' = Waiting(p)' \cup Retired(p)' \cup Received(p)'
    BY DEF Mail
  <1> QED BY <1>2, <1>5, <1>6, <1>7 DEF Mail

\* The collect t fails: what it held is lost with it, and nothing else.
LEMMA FailLosesOwn ==
    ASSUME MailInv, NEW t \in DOMAIN collects, Ends(t), NEW p \in Page,
           UNCHANGED <<page_datachange_map, rows, delivered>>
    PROVE  Mail(p) \ Mail(p)' \subseteq Held(t, p)
  <1>1. OthersStay(t)
    BY DEF Ends, OthersStay, Popped, Restrict
  <1>2. Waiting(p)' = Waiting(p) /\ Mine(t, p) = Held(t, p)
    BY DEF Waiting, Mine
  <1>3. <<>> \in Changes /\ delivered'[p] = Receives(delivered[p], <<>>)
    BY NoChanges DEF Receives
  <1> QED BY <1>1, <1>2, <1>3, MailStays

\* t begins, or begins with a child: no batch moves.
LEMMA BeginLosesNothing ==
    ASSUME MailInv, NEW t, NEW p \in Page, OthersStay(t), Mine(t, p) \subseteq Mine(t, p)',
           UNCHANGED <<page_datachange_map, rows, delivered>>
    PROVE  Mail(p) \ Mail(p)' \subseteq {}
  <1>1. Waiting(p)' = Waiting(p)
    BY DEF Waiting
  <1>2. <<>> \in Changes /\ delivered'[p] = Receives(delivered[p], <<>>)
    BY NoChanges DEF Receives
  <1> QED BY <1>1, <1>2, MailStays

LEMMA PingLosesNothing ==
    ASSUME MailInv, NEW t \in Thread, NEW p \in Page, NEW children, NEW q \in Page,
           handle_ping(t, p, children)
    PROVE  Mail(q) \ Mail(q)' \subseteq {}
  <1>1. /\ t \notin DOMAIN collects /\ DOMAIN collects' = DOMAIN collects \cup {t}
        /\ \A s \in DOMAIN collects : collects'[s] = collects[s]
        /\ UNCHANGED <<page_datachange_map, rows, delivered>>
    BY DEF handle_ping, deskVars, queueVars
  <1>2. OthersStay(t) /\ Mine(t, q) = {}
    BY <1>1 DEF OthersStay, Mine
  <1> QED BY <1>1, <1>2, BeginLosesNothing

\* t answers with the batches it has, its page not here any more.
LEMMA AnswerLosesNothing ==
    ASSUME MailInv, NEW t \in DOMAIN collects, NEW children \in SUBSET collects[t].children,
           Answers(t, children, collects[t].envelope), NEW p \in Page,
           collects[t].pc # "collecting" \/ p # collects[t].page,
           UNCHANGED <<page_datachange_map, rows>>
    PROVE  Mail(p) \ Mail(p)' \subseteq {}
  <1> DEFINE env == collects[t].envelope
  <1>0. Shape
    BY DEF MailInv
  <1>1. /\ env \in Envelope /\ children \in SUBSET Page /\ collects[t].page \notin children
        /\ children \cap DOMAIN env = {} /\ \A q \in DOMAIN env : InOrder(env[q], clock)
    BY RequestParts DEF RequestOK
  <1>2. Mine(t, p) = Stamps(Pending(env, p))
    BY HeldWithoutReply
  <1> HIDE DEF env
  <1>3. Answers(t, children, env)
    BY DEF env
  <1>4. PICK got \in [Page -> Changes] : Answered(t, got, env, clock)
    BY <1>0, <1>1, <1>3, AnswersEffect
  <1>5. /\ OthersStay(t) /\ got[p] \in Changes /\ delivered'[p] = Receives(delivered[p], got[p])
        /\ Mine(t, p)' \cup Stamps(got[p]) = Stamps(Pending(env, p))
    BY <1>4 DEF Answered
  <1>6. Waiting(p)' = Waiting(p)
    BY DEF Waiting
  <1>7. Waiting(p) \cup Mine(t, p) \subseteq Waiting(p)' \cup Mine(t, p)' \cup Stamps(got[p]) \cup {}
    BY <1>2, <1>5, <1>6
  <1> QED BY <1>5, <1>7, MailStays

LEMMA NextChildLosesNothing ==
    ASSUME MailInv, NEW t \in Thread, NEW p \in Page, NextChild(t, p), NEW q \in Page
    PROVE  Mail(q) \ Mail(q)' \subseteq {}
  <1> DEFINE children == collects[t].children \ {p}
             env == collects[t].envelope
             r == collect_page(p, children, env)
  <1>1. /\ t \in DOMAIN collects /\ collects[t].pc = "next"
        /\ UNCHANGED <<page_datachange_map, rows>>
    BY DEF NextChild, At, deskVars, queueVars
  <1>2. CASE collects' = [collects EXCEPT ![t] = r] /\ UNCHANGED delivered
    <2>1. Mine(t, q) = Stamps(Pending(env, q))
      BY <1>1, HeldWithoutReply
    <2>2. r.envelope = env
      BY DEF collect_page
    <2> HIDE DEF r
    <2>3. DOMAIN collects' = DOMAIN collects /\ collects'[t] = r /\ OthersStay(t)
      BY <1>1, <1>2 DEF OthersStay
    <2>4. Mine(t, q) \subseteq Mine(t, q)'
      BY <1>1, <2>1, <2>2, <2>3 DEF Mine, Held
    <2> QED BY <1>1, <1>2, <2>3, <2>4, BeginLosesNothing
  <1>3. CASE Answers(t, children, env)
    <2>1. children \in SUBSET collects[t].children
      OBVIOUS
    <2> HIDE DEF children
    <2> QED BY <1>1, <1>3, <2>1, AnswerLosesNothing
  <1> QED BY <1>2, <1>3 DEF NextChild

LEMMA ExchangeLosesNothing ==
    ASSUME MailInv, NEW t \in Thread, ExchangeCall(t), NEW q \in Page
    PROVE  Mail(q) \ Mail(q)' \subseteq {}
  <1>1. /\ t \in DOMAIN collects /\ collects[t].pc = "exchanging"
        /\ page_datachange_map' = Popped(page_datachange_map, {collects[t].page})
        /\ UNCHANGED <<rows, delivered>>
        /\ DOMAIN collects' = DOMAIN collects /\ OthersStay(t)
        /\ \A k : k # collects[t].page => Pending(page_datachange_map', k) = Pending(page_datachange_map, k)
    BY DEF ExchangeCall, At, exchange, OthersStay, Pending, Popped, Restrict
  <1>2. /\ collects'[t].page = collects[t].page /\ collects'[t].envelope = collects[t].envelope
        /\ collects'[t].reply.datachanges = Pending(page_datachange_map, collects[t].page)
    BY <1>1, RequestParts DEF ExchangeCall, ExchangeReply, Request
  <1>3. Mine(t, q) = Stamps(Pending(collects[t].envelope, q))
    BY <1>1, HeldWithoutReply
  <1>4. /\ Mine(t, q) \subseteq Mine(t, q)'
        /\ q = collects[t].page => AtDeskStamps(q) \subseteq Mine(t, q)'
    BY <1>1, <1>2, <1>3 DEF Mine, Held, AtDeskStamps
  <1>5. q # collects[t].page => AtDeskStamps(q)' = AtDeskStamps(q)
    BY <1>1 DEF AtDeskStamps
  <1>6. /\ Waiting(q) = OnRowStamps(q) \cup InViewStamps(q) \cup AtDeskStamps(q)
        /\ Waiting(q)' = OnRowStamps(q)' \cup InViewStamps(q)' \cup AtDeskStamps(q)'
        /\ OnRowStamps(q)' = OnRowStamps(q) /\ InViewStamps(q)' = InViewStamps(q)
    BY <1>1 DEF Waiting, OnRowStamps, InViewStamps, AtDeskStamps
  <1>7. <<>> \in Changes /\ delivered'[q] = Receives(delivered[q], <<>>)
    BY <1>1, NoChanges DEF Receives
  <1>8. Waiting(q) \cup Mine(t, q) \subseteq Waiting(q)' \cup Mine(t, q)' \cup Stamps(<<>>) \cup {}
    BY <1>4, <1>5, <1>6
  <1> QED BY <1>1, <1>7, <1>8, MailStays

\* The batch and the answer of a drain.
LEMMA DrainAnswers ==
    ASSUME MailInv, NEW t \in Thread, CollectDrain(t)
    PROVE  \E got \in [Page -> Changes] :
              LET p == collects[t].page  env == Put(collects[t].envelope, p, BatchOf(t))
              IN  /\ Answered(t, got, env, clock') /\ delivered' \in [Page -> Seq(Changes)]
                  /\ collects[t].children = {} => /\ got[p] = BatchOf(t)
                                                  /\ DOMAIN collects' = DOMAIN collects \ {t}
                  /\ collects[t].children # {} => /\ t \in DOMAIN collects'
                                                  /\ collects'[t].envelope = env
  <1> DEFINE p == collects[t].page
             env == Put(collects[t].envelope, p, BatchOf(t))
             children == collects[t].children
  <1>0. Shape
    BY DEF MailInv
  <1>1. Draining(t) /\ clock' = clock + Len(Writes(t)) /\ Answers(t, children, env)
    BY DrainEffect
  <1>2. t \in DOMAIN collects /\ p \in Page
    BY <1>1, RequestParts DEF Draining
  <1>3. /\ env \in Envelope /\ Pending(env, p) = BatchOf(t)
        /\ \A q \in DOMAIN env : InOrder(env[q], clock')
        /\ children \cap DOMAIN env = {} /\ children \in SUBSET Page /\ p \notin children
    BY <1>1, DrainEnvelope
  <1> HIDE DEF env, children
  <1>4. PICK got \in [Page -> Changes] :
              /\ Answered(t, got, env, clock') /\ delivered' \in [Page -> Seq(Changes)]
              /\ children = {} => got = [q \in Page |-> Pending(env, q)]
                                  /\ DOMAIN collects' = DOMAIN collects \ {t}
              /\ children # {} => t \in DOMAIN collects' /\ collects'[t].envelope = env
    BY <1>0, <1>1, <1>2, <1>3, AnswersEffect
  <1>5. children = {} => got[p] = BatchOf(t)
    BY <1>2, <1>3, <1>4
  <1> QED BY <1>4, <1>5 DEF env, children

LEMMA DrainLosesNothing ==
    ASSUME MailInv, NEW t \in Thread, CollectDrain(t), NEW q \in DOMAIN rows
    PROVE  Mail(q) \ Mail(q)' \subseteq {}
  <1> DEFINE p == collects[t].page
             env == Put(collects[t].envelope, p, BatchOf(t))
  <1>0. q \in Page
    BY DEF MailInv, Shape
  <1>1. /\ Draining(t) /\ t \in DOMAIN collects /\ p \in DOMAIN rows
        /\ rows'[p] = Drained(SeenBy(p, t))
        /\ q # p => rows'[q] = SeenBy(q, t)
        /\ UNCHANGED page_datachange_map
    BY DrainEffect DEF Draining
  <1>2. /\ Pending(env, p) = BatchOf(t)
        /\ q # p => Pending(env, q) = Pending(collects[t].envelope, q)
    BY <1>1, DrainEnvelope
  <1> HIDE DEF env
  <1>3. PICK got \in [Page -> Changes] : Answered(t, got, env, clock')
    BY DrainAnswers DEF env
  <1>4. /\ OthersStay(t) /\ got[q] \in Changes /\ delivered'[q] = Receives(delivered[q], got[q])
        /\ Mine(t, q)' \cup Stamps(got[q]) = Stamps(Pending(env, q))
    BY <1>0, <1>3 DEF Answered
  <1>5. /\ Waiting(q) = OnRowStamps(q) \cup InViewStamps(q) \cup AtDeskStamps(q)
        /\ Waiting(q)' = OnRowStamps(q)' \cup InViewStamps(q)' \cup AtDeskStamps(q)'
        /\ AtDeskStamps(q)' = AtDeskStamps(q)
    BY <1>1 DEF Waiting, OnRowStamps, InViewStamps, AtDeskStamps
  <1>6. Waiting(q) \cup Mine(t, q) \subseteq Waiting(q)' \cup Mine(t, q)' \cup Stamps(got[q]) \cup {}
    <2>1. CASE q = p
      <3>1. OnRowStamps(q) \cup InViewStamps(q) \cup Mine(t, q) \subseteq Stamps(Pending(env, q))
        BY <1>1, <1>2, <2>1, DrainBatch
      <3> QED BY <1>4, <1>5, <3>1
    <2>2. CASE q # p
      <3>1. Mine(t, q) = Stamps(Pending(env, q))
        BY <1>1, <1>2, <2>2, HeldWithoutReply
      <3>2. OnRowStamps(q)' = OnRowStamps(q) /\ InViewStamps(q) \subseteq InViewStamps(q)'
        BY <1>1, <2>2, ViewAfterCaptures DEF OnRowStamps, InViewStamps
      <3> QED BY <1>4, <1>5, <3>1, <3>2
    <2> QED BY <2>1, <2>2
  <1> QED BY <1>0, <1>4, <1>6, MailStays

\* The steps that are not a collect's.
LEMMA NotACollect ==
    ASSUME [Next]_vars, ~\E t \in Thread : Collect(t)
    PROVE  UNCHANGED <<collects, delivered, store>>
  <1>1. CASE Write
    BY <1>1 DEF Write
  <1>2. CASE \E p \in Page : worker_drop_page(p) \/ FoldDropPage(p)
    BY <1>2 DEF worker_drop_page, FoldDropPage, mailboxVars
  <1>3. CASE \E u \in User : change_connection_user(u)
    BY <1>3 DEF change_connection_user
  <1>4. CASE FoldLogin
    BY <1>4 DEF FoldLogin, mailboxVars
  <1>5. CASE UNCHANGED vars
    BY <1>5 DEF vars, mailboxVars
  <1> QED BY <1>1, <1>2, <1>3, <1>4, <1>5 DEF Next

\* The collects that fail on this step.
Failed == {s \in DOMAIN collects \ DOMAIN collects' : MayFail(s)}

LEMMA CollectLoses ==
    ASSUME MailInv, NEW t \in Thread, Collect(t), NEW p \in DOMAIN rows'
    PROVE  Mail(p) \ Mail(p)' \subseteq UNION {Held(s, p) : s \in Failed}
  <1>0. DOMAIN rows \subseteq Page
    BY DEF MailInv, Shape
  <1>1. CASE \E q \in Page : \E children \in (IF "ping" \in Kinds THEN SUBSET (Page \ {q}) ELSE {{}}) :
                handle_ping(t, q, children)
    <2>1. PICK q \in Page : \E children : handle_ping(t, q, children)
      BY <1>1
    <2>2. PICK children : handle_ping(t, q, children)
      BY <2>1
    <2>3. p \in Page
      BY <1>0, <2>2 DEF handle_ping
    <2>4. Mail(p) \ Mail(p)' \subseteq {}
      BY <2>2, <2>3, PingLosesNothing
    <2> QED BY <2>4
  <1>2. CASE \E q \in Page : NextChild(t, q)
    <2>1. PICK q \in Page : NextChild(t, q)
      BY <1>2
    <2>2. p \in Page
      BY <1>0, <2>1 DEF NextChild
    <2>3. Mail(p) \ Mail(p)' \subseteq {}
      BY <2>1, <2>2, NextChildLosesNothing
    <2> QED BY <2>3
  <1>3. CASE ExchangeCall(t)
    <2>1. p \in Page
      BY <1>0, <1>3 DEF ExchangeCall
    <2>2. Mail(p) \ Mail(p)' \subseteq {}
      BY <1>3, <2>1, ExchangeLosesNothing
    <2> QED BY <2>2
  <1>4. CASE ExchangeRefused(t) \/ CollectFindsNoUser(t)
    <2>1. /\ t \in DOMAIN collects /\ Ends(t) /\ MayFail(t)
          /\ UNCHANGED <<page_datachange_map, rows, delivered>>
      BY <1>4 DEF ExchangeRefused, CollectFindsNoUser, At, MayFail, deskVars, queueVars
    <2>2. t \in Failed
      BY <2>1 DEF Failed, Ends, Popped, Restrict
    <2>3. Mail(p) \ Mail(p)' \subseteq Held(t, p)
      BY <1>0, <2>1, FailLosesOwn
    <2> QED BY <2>2, <2>3
  <1>5. CASE CollectDrain(t)
    <2>1. p \in DOMAIN rows
      BY <1>5, DrainEffect
    <2>2. Mail(p) \ Mail(p)' \subseteq {}
      BY <1>5, <2>1, DrainLosesNothing
    <2> QED BY <2>2
  <1>6. CASE CollectFindsNoPage(t)
    <2>1. /\ t \in DOMAIN collects /\ p \in Page /\ p # collects[t].page
          /\ Answers(t, collects[t].children, collects[t].envelope)
          /\ UNCHANGED <<page_datachange_map, rows>>
      BY <1>0, <1>6 DEF CollectFindsNoPage, At, deskVars, queueVars
    <2>2. collects[t].children \in SUBSET collects[t].children
      OBVIOUS
    <2>3. Mail(p) \ Mail(p)' \subseteq {}
      BY <2>1, <2>2, AnswerLosesNothing
    <2> QED BY <2>3
  <1> QED BY <1>1, <1>2, <1>3, <1>4, <1>5, <1>6 DEF Collect

\* No step of a collect loses a change of a page that lives, but for what a
\* request that fails on its way held (genropy_worker.py, collect_page and
\* handle_ping; delivery_desk.py, exchange).
THEOREM NothingIsLost == Spec => CollectLosesNothing
  <1>1. MailInv /\ [Next]_vars =>
            [\/ UNCHANGED <<collects, delivered>>
             \/ \A p \in DOMAIN rows' :
                  Mail(p) \ Mail(p)' \subseteq
                      UNION {Held(t, p) : t \in {s \in DOMAIN collects \ DOMAIN collects' : MayFail(s)}}]_vars
    <2> SUFFICES ASSUME MailInv, [Next]_vars
                 PROVE  \/ UNCHANGED <<collects, delivered>>
                        \/ \A p \in DOMAIN rows' :
                             Mail(p) \ Mail(p)' \subseteq UNION {Held(t, p) : t \in Failed}
      BY DEF Failed
    <2> QED BY NotACollect, CollectLoses
  <1> QED BY MailInvariant, <1>1, PTL DEF Spec, CollectLosesNothing
-----------------------------------------------------------------------------
(* The STATE writes: applied, and seen by the pages that watch their path. *)

Sees(changes, write) == \E c \in ToSet(changes) : c.of = write.arrival_ts

\* A page that watches the path of a write that t applies captures it.
LEMMA WatchedIsCaptured ==
    ASSUME MailInv, NEW t \in DOMAIN collects, NEW p \in DOMAIN rows, NEW i \in DOMAIN Writes(t),
           CapturedBy(rows[p].user_view.paths, Writes(t)[i].key.path)
    PROVE  Sees(SeenBy(p, t).user_view.changes, Writes(t)[i])
  <1> DEFINE w == Writes(t)
             new == Captures(rows[p].user_view.paths, w)
             old == rows[p].user_view.changes
  <1>1. clock \in Nat /\ rows[p] \in Row /\ old \in Changes
    BY DEF MailInv, Shape, Row
  <1>2. w \in Changes
    BY RequestParts DEF Writes
  <1>3. SeenBy(p, t).user_view.changes = old \o new
    BY <1>1, <1>2, CapturedRow DEF SeenBy
  <1> HIDE DEF w, old
  <1>4. new \in Changes /\ Sees(new, w[i])
    <2>1. i \in DOMAIN w /\ CapturedBy(rows[p].user_view.paths, w[i].key.path)
      BY DEF w
    <2> QED BY <1>1, <1>2, <2>1, CapturedQueue DEF Sees
  <1> HIDE DEF new
  <1>5. ToSet(old \o new) = ToSet(old) \cup ToSet(new)
    BY <1>1, <1>4, TwoQueues
  <1>6. Sees(old \o new, w[i])
    BY <1>4, <1>5 DEF Sees
  <1> QED BY <1>3, <1>6 DEF w

\* The page t is at reads it in the batch of this delivery.
LEMMA WatchedIsInBatch ==
    ASSUME MailInv, NEW t, Draining(t), NEW i \in DOMAIN Writes(t),
           CapturedBy(rows[collects[t].page].user_view.paths, Writes(t)[i].key.path)
    PROVE  Sees(BatchOf(t), Writes(t)[i]) /\ BatchOf(t) # <<>>
  <1> DEFINE p == collects[t].page
             row == SeenBy(p, t)
  <1>1. t \in DOMAIN collects /\ p \in DOMAIN rows
    BY DEF Draining
  <1>2. Sees(row.user_view.changes, Writes(t)[i])
    BY <1>1, WatchedIsCaptured
  <1>3. row \in Row /\ collects[t].reply.datachanges \in Changes
    BY <1>1, ViewAfterCaptures, RequestParts
  <1>4. BatchOf(t) = Batch(row, collects[t].reply.datachanges)
    BY DEF BatchOf
  <1> HIDE DEF row
  <1>5. ToSet(row.user_view.changes) \subseteq ToSet(BatchOf(t))
    BY <1>3, <1>4, BatchOfQueues
  <1>6. Sees(BatchOf(t), Writes(t)[i])
    BY <1>2, <1>5 DEF Sees
  <1> QED BY <1>6, NoChanges DEF Sees

\* The last of the batches received.
LEMMA LastReceived ==
    ASSUME NEW batches \in Seq(Changes), NEW batch \in Changes, batch # <<>>
    PROVE  /\ Len(Receives(batches, batch)) > Len(batches)
           /\ Last(Receives(batches, batch)) = batch
  <1>1. Receives(batches, batch) = Append(batches, batch)
    BY DEF Receives
  <1> QED BY <1>1, AppendProperties, LenProperties DEF Last

\* What AppliedIsSeen says of page p and write i.
SeenAfter(p, i) ==
    LET here == {t \in DOMAIN collects : collects[t].page = p /\ Steps(t)}
    IN  \/ here = {} /\ Sees(rows'[p].user_view.changes, store'[i])
        \/ \E t \in here \cap DOMAIN collects' : Sees(Pending(collects'[t].envelope, p), store'[i])
        \/ \E t \in here \ DOMAIN collects' :
             Len(delivered'[p]) > Len(delivered[p]) /\ Sees(Last(delivered'[p]), store'[i])

LEMMA DrainIsSeen ==
    ASSUME MailInv, NEW t \in Thread, CollectDrain(t), NEW p \in DOMAIN rows,
           NEW i \in Len(store) + 1..Len(store'),
           CapturedBy(rows[p].user_view.paths, store'[i].key.path)
    PROVE  SeenAfter(p, i)
  <1> DEFINE k == i - Len(store)
             here == {s \in DOMAIN collects : collects[s].page = p /\ Steps(s)}
  <1>0. store \in Changes /\ Len(store) \in Nat /\ delivered \in [Page -> Seq(Changes)] /\ p \in Page
    BY LenProperties DEF MailInv, Shape, Changes
  <1>1. /\ Draining(t) /\ t \in DOMAIN collects /\ collects[t].page \in DOMAIN rows
        /\ store' = store \o Writes(t)
        /\ p # collects[t].page => rows'[p] = SeenBy(p, t)
    BY DrainEffect DEF Draining
  <1>2. Writes(t) \in Changes /\ Len(Writes(t)) \in Nat
    BY <1>1, RequestParts, LenProperties DEF Writes, Changes
  <1>3. k \in DOMAIN Writes(t) /\ store'[i] = Writes(t)[k]
    <2>1. Len(store') = Len(store) + Len(Writes(t))
      BY <1>0, <1>1, <1>2, ConcatProperties DEF Changes
    <2>2. k \in 1..Len(Writes(t)) /\ i = Len(store) + k
      BY <1>0, <1>2, <2>1
    <2>3. DOMAIN Writes(t) = 1..Len(Writes(t))
      BY <1>2, LenProperties DEF Changes
    <2> QED BY <1>0, <1>1, <1>2, <2>1, <2>2, <2>3, ConcatProperties DEF Changes
  <1> HIDE DEF k
  <1>4. CASE p = collects[t].page
    <2> DEFINE env == Put(collects[t].envelope, p, BatchOf(t))
    <2>1. Sees(BatchOf(t), store'[i]) /\ BatchOf(t) # <<>> /\ BatchOf(t) \in Changes
      BY <1>1, <1>3, <1>4, WatchedIsInBatch, DrainBatch
    <2>2. PICK got \in [Page -> Changes] :
             /\ Answered(t, got, env, clock')
             /\ collects[t].children = {} => /\ got[p] = BatchOf(t)
                                             /\ DOMAIN collects' = DOMAIN collects \ {t}
             /\ collects[t].children # {} => /\ t \in DOMAIN collects'
                                             /\ collects'[t].envelope = env
      BY <1>4, DrainAnswers
    <2>3. Pending(env, p) = BatchOf(t) /\ p \in DOMAIN env
      BY <1>1, <1>4, DrainEnvelope
    <2>4. p \notin DOMAIN collects[t].envelope
      BY <1>1, <1>4, RequestParts DEF RequestOK, Draining
    <2> HIDE DEF env
    <2>5. CASE collects[t].children = {}
      <3>1. t \in here \ DOMAIN collects'
        BY <1>1, <1>4, <2>2, <2>5 DEF Steps
      <3>2. delivered'[p] = Receives(delivered[p], BatchOf(t))
        BY <1>0, <2>2, <2>5 DEF Answered
      <3>3. Len(delivered'[p]) > Len(delivered[p]) /\ Last(delivered'[p]) = BatchOf(t)
        BY <1>0, <2>1, <3>2, LastReceived
      <3> QED BY <2>1, <3>1, <3>3 DEF SeenAfter
    <2>6. CASE collects[t].children # {}
      <3>1. t \in here \cap DOMAIN collects'
        BY <1>1, <1>4, <2>2, <2>3, <2>4, <2>6 DEF Steps
      <3> QED BY <2>1, <2>2, <2>3, <2>6, <3>1 DEF SeenAfter
    <2> QED BY <2>5, <2>6
  <1>5. CASE p # collects[t].page
    <2>1. PICK got : Answered(t, got, Put(collects[t].envelope, collects[t].page, BatchOf(t)), clock')
      BY DrainAnswers
    <2>2. OthersStay(t)
      BY <2>1 DEF Answered
    <2>3. here = {}
      BY <1>5, <2>2 DEF OthersStay, Steps
    <2>4. Sees(rows'[p].user_view.changes, store'[i])
      BY <1>1, <1>3, <1>5, WatchedIsCaptured
    <2> QED BY <2>3, <2>4 DEF SeenAfter
  <1> QED BY <1>4, <1>5

\* Only a drain writes on the user's Bag.
LEMMA OnlyDrainApplies ==
    ASSUME [Next]_vars, store' # store
    PROVE  \E t \in Thread : CollectDrain(t)
  <1>1. PICK t \in Thread : Collect(t)
    BY NotACollect
  <1> QED BY <1>1 DEF Collect, handle_ping, NextChild, ExchangeCall, ExchangeRefused,
                      CollectFindsNoPage, CollectFindsNoUser

\* A STATE write applied to the Bag is in this very delivery of the page that
\* retired it, and in the view of every sibling that watches its path
\* (genropy_worker.py, collect_page).
THEOREM AppliedWritesAreSeen == Spec => AppliedIsSeen
  <1>1. MailInv /\ [Next]_vars =>
            [\A p \in DOMAIN rows', i \in Len(store) + 1..Len(store') :
                LET sees(changes) == \E c \in ToSet(changes) : c.of = store'[i].arrival_ts
                    here == {t \in DOMAIN collects : collects[t].page = p /\ Steps(t)}
                IN  p \in DOMAIN rows /\ CapturedBy(rows[p].user_view.paths, store'[i].key.path)
                        => \/ here = {} /\ sees(rows'[p].user_view.changes)
                           \/ \E t \in here \cap DOMAIN collects' : sees(Pending(collects'[t].envelope, p))
                           \/ \E t \in here \ DOMAIN collects' :
                                Len(delivered'[p]) > Len(delivered[p]) /\ sees(Last(delivered'[p]))]_vars
    <2> SUFFICES ASSUME MailInv, [Next]_vars, NEW p \in DOMAIN rows', p \in DOMAIN rows,
                        NEW i \in Len(store) + 1..Len(store'),
                        CapturedBy(rows[p].user_view.paths, store'[i].key.path)
                 PROVE  SeenAfter(p, i)
      BY DEF SeenAfter, Sees
    <2>1. Len(store) \in Nat
      BY LenProperties DEF MailInv, Shape, Changes
    <2>2. store' # store
      BY <2>1
    <2>3. PICK t \in Thread : CollectDrain(t)
      BY <2>2, OnlyDrainApplies
    <2> QED BY <2>3, DrainIsSeen
  <1> QED BY MailInvariant, <1>1, PTL DEF Spec, AppliedIsSeen

\* The STATE writes t has retired, and the ones at the desk.
RetiredWrites(t) == IF t \in DOMAIN collects THEN Stamps(collects[t].reply.store_changes) ELSE {}
DeskWrites == UNION {Stamps(Pending(user_store_change_map, u)) : u \in User}

\* A step of t keeps the STATE writes when it keeps the Bag's, the desk's and
\* its own, but for what is lost.
LEMMA StateStays ==
    ASSUME NEW t, NEW lost, OthersStay(t),
           Stamps(store) \cup DeskWrites \cup RetiredWrites(t) \subseteq
               Stamps(store)' \cup DeskWrites' \cup RetiredWrites(t)' \cup lost
    PROVE  StateMail \ StateMail' \subseteq lost
  <1> DEFINE all == UNION {Stamps(collects[s].reply.store_changes) : s \in DOMAIN collects}
  <1>1. /\ StateMail = Stamps(store) \cup DeskWrites \cup all
        /\ StateMail' = Stamps(store)' \cup DeskWrites' \cup all'
    BY DEF StateMail, DeskWrites
  <1>2. RetiredWrites(t)' \subseteq all'
    BY DEF RetiredWrites
  <1>3. all \subseteq RetiredWrites(t) \cup all'
    BY DEF RetiredWrites, OthersStay
  <1> HIDE DEF all
  <1> QED BY <1>1, <1>2, <1>3

\* t has retired nothing yet: no step of it that leaves the Bag and the desk
\* loses a write.
LEMMA EmptyHanded ==
    ASSUME NEW t, OthersStay(t), RetiredWrites(t) = {}, UNCHANGED <<store, user_store_change_map>>
    PROVE  StateMail \ StateMail' \subseteq {}
  <1>1. Stamps(store)' = Stamps(store) /\ DeskWrites' = DeskWrites
    BY DEF DeskWrites
  <1> QED BY <1>1, StateStays

\* Before the exchange, and between two pages, t has no reply.
LEMMA NoReplyYet ==
    ASSUME MailInv, NEW t \in DOMAIN collects, collects[t].pc # "collecting"
    PROVE  RetiredWrites(t) = {}
  <1>1. collects[t].reply = NoReply
    BY RequestParts DEF RequestOK
  <1> QED BY <1>1, NoReplyFits, NoChanges DEF RetiredWrites

LEMMA AnswersMoves ==
    ASSUME NEW t \in DOMAIN collects, NEW children, NEW envelope, Answers(t, children, envelope),
           collects[t].pc = "collecting" => collects[t] \in Request
    PROVE  OthersStay(t) /\ (collects[t].pc = "collecting" => Steps(t))
  <1>1. CASE Ends(t)
    BY <1>1 DEF Ends, OthersStay, Steps, Popped, Restrict
  <1>2. CASE collects' = [collects EXCEPT ![t] =
                 [@ EXCEPT !.pc = "next", !.reply = NoReply,
                           !.children = children, !.envelope = envelope]]
    <2>1. OthersStay(t)
      BY <1>2 DEF OthersStay
    <2>2. collects[t].pc = "collecting" => collects'[t].pc = "next"
      BY <1>2 DEF Request
    <2> QED BY <2>1, <2>2 DEF Steps
  <1> QED BY <1>1, <1>2 DEF Answers

\* The collects whose page or user has gone, on a step of theirs.
LateSteps == {s \in DOMAIN collects : Overtaken(s) /\ Steps(s)}

\* t is overtaken: it goes on without the writes it has retired.
LEMMA OvertakenLosesOwn ==
    ASSUME NEW t \in DOMAIN collects, Overtaken(t), Steps(t), OthersStay(t),
           UNCHANGED <<store, user_store_change_map>>
    PROVE  StateMail \ StateMail' \subseteq
               UNION {Stamps(collects[s].reply.store_changes) : s \in LateSteps}
  <1>1. Stamps(store)' = Stamps(store) /\ DeskWrites' = DeskWrites
    BY DEF DeskWrites
  <1>2. t \in LateSteps /\ RetiredWrites(t) = Stamps(collects[t].reply.store_changes)
    BY DEF LateSteps, RetiredWrites
  <1>3. RetiredWrites(t) \subseteq UNION {Stamps(collects[s].reply.store_changes) : s \in LateSteps}
    BY <1>2
  <1> QED BY <1>1, <1>3, StateStays

LEMMA ExchangeKeepsState ==
    ASSUME MailInv, NEW t \in Thread, ExchangeCall(t)
    PROVE  StateMail \ StateMail' \subseteq {}
  <1> DEFINE u == collects[t].user
  <1>1. /\ t \in DOMAIN collects /\ collects[t].pc = "exchanging"
        /\ UNCHANGED store /\ DOMAIN collects' = DOMAIN collects /\ OthersStay(t)
        /\ \A v : v # u => Pending(user_store_change_map', v) = Pending(user_store_change_map, v)
    BY DEF ExchangeCall, At, exchange, OthersStay, Pending, Popped, Restrict
  <1>2. collects'[t].reply.store_changes = Pending(user_store_change_map, u)
    BY <1>1, RequestParts DEF ExchangeCall, ExchangeReply, Request
  <1>3. RetiredWrites(t) = {}
    BY <1>1, NoReplyYet
  <1>4. RetiredWrites(t)' = Stamps(Pending(user_store_change_map, u))
    BY <1>1, <1>2 DEF RetiredWrites
  <1>5. DeskWrites \subseteq DeskWrites' \cup RetiredWrites(t)'
    <2> HIDE DEF u
    <2>1. DeskWrites' = UNION {Stamps(Pending(user_store_change_map', v)) : v \in User}
      BY DEF DeskWrites
    <2> QED BY <1>1, <1>4, <2>1 DEF DeskWrites
  <1>6. Stamps(store)' = Stamps(store)
    BY <1>1
  <1> QED BY <1>1, <1>3, <1>5, <1>6, StateStays

LEMMA DrainKeepsState ==
    ASSUME MailInv, NEW t \in Thread, CollectDrain(t)
    PROVE  StateMail \ StateMail' \subseteq {}
  <1>1. /\ t \in DOMAIN collects /\ store' = store \o Writes(t) /\ UNCHANGED user_store_change_map
    BY DrainEffect DEF Draining
  <1>2. PICK got : Answered(t, got, Put(collects[t].envelope, collects[t].page, BatchOf(t)), clock')
    BY DrainAnswers
  <1>3. OthersStay(t)
    BY <1>2 DEF Answered
  <1>4. store \in Changes /\ Writes(t) \in Changes
    BY <1>1, RequestParts DEF MailInv, Shape, Writes
  <1>5. Stamps(store)' = Stamps(store) \cup RetiredWrites(t)
    BY <1>1, <1>4, TwoQueues DEF RetiredWrites, Writes
  <1>6. DeskWrites' = DeskWrites
    BY <1>1 DEF DeskWrites
  <1> QED BY <1>3, <1>5, <1>6, StateStays

LEMMA CollectAppliesRetired ==
    ASSUME MailInv, NEW t \in Thread, Collect(t)
    PROVE  StateMail \ StateMail' \subseteq
               UNION {Stamps(collects[s].reply.store_changes) : s \in LateSteps}
  <1>1. CASE \E p \in Page : \E children \in (IF "ping" \in Kinds THEN SUBSET (Page \ {p}) ELSE {{}}) :
                handle_ping(t, p, children)
    <2>1. /\ t \notin DOMAIN collects /\ DOMAIN collects' = DOMAIN collects \cup {t}
          /\ \A s \in DOMAIN collects : collects'[s] = collects[s]
          /\ UNCHANGED <<store, user_store_change_map>>
      BY <1>1 DEF handle_ping, deskVars, queueVars
    <2>2. OthersStay(t) /\ RetiredWrites(t) = {}
      BY <2>1 DEF OthersStay, RetiredWrites
    <2>3. StateMail \ StateMail' \subseteq {}
      BY <2>1, <2>2, EmptyHanded
    <2> QED BY <2>3
  <1>2. CASE \E p \in Page : NextChild(t, p)
    <2>1. PICK p \in Page : NextChild(t, p)
      BY <1>2
    <2>2. /\ t \in DOMAIN collects /\ collects[t].pc = "next"
          /\ UNCHANGED <<store, user_store_change_map>>
      BY <2>1 DEF NextChild, At, deskVars, queueVars
    <2>3. OthersStay(t)
      <3>1. CASE \E r : collects' = [collects EXCEPT ![t] = r]
        BY <3>1 DEF OthersStay
      <3>2. CASE \E children, envelope : Answers(t, children, envelope)
        BY <2>2, <3>2, AnswersMoves
      <3> QED BY <2>1, <3>1, <3>2 DEF NextChild
    <2>4. RetiredWrites(t) = {}
      BY <2>2, NoReplyYet
    <2>5. StateMail \ StateMail' \subseteq {}
      BY <2>2, <2>3, <2>4, EmptyHanded
    <2> QED BY <2>5
  <1>3. CASE ExchangeCall(t)
    <2>1. StateMail \ StateMail' \subseteq {}
      BY <1>3, ExchangeKeepsState
    <2> QED BY <2>1
  <1>4. CASE ExchangeRefused(t)
    <2>1. /\ t \in DOMAIN collects /\ collects[t].pc = "exchanging" /\ Ends(t)
          /\ UNCHANGED <<store, user_store_change_map>>
      BY <1>4 DEF ExchangeRefused, At, deskVars, queueVars
    <2>2. OthersStay(t) /\ RetiredWrites(t) = {}
      BY <2>1, NoReplyYet DEF Ends, OthersStay, Popped, Restrict
    <2>3. StateMail \ StateMail' \subseteq {}
      BY <2>1, <2>2, EmptyHanded
    <2> QED BY <2>3
  <1>5. CASE CollectDrain(t)
    <2>1. StateMail \ StateMail' \subseteq {}
      BY <1>5, DrainKeepsState
    <2> QED BY <2>1
  <1>6. CASE CollectFindsNoPage(t)
    <2>1. /\ t \in DOMAIN collects /\ Overtaken(t) /\ collects[t].pc = "collecting"
          /\ Answers(t, collects[t].children, collects[t].envelope)
          /\ UNCHANGED <<store, user_store_change_map>>
      BY <1>6 DEF CollectFindsNoPage, Overtaken, At, deskVars, queueVars
    <2>2. OthersStay(t) /\ Steps(t)
      BY <2>1, RequestParts, AnswersMoves
    <2> QED BY <2>1, <2>2, OvertakenLosesOwn
  <1>7. CASE CollectFindsNoUser(t)
    <2>1. /\ t \in DOMAIN collects /\ Overtaken(t) /\ Ends(t)
          /\ UNCHANGED <<store, user_store_change_map>>
      BY <1>7 DEF CollectFindsNoUser, Overtaken, At, deskVars, queueVars
    <2>2. OthersStay(t) /\ Steps(t)
      BY <2>1 DEF Ends, OthersStay, Steps, Popped, Restrict
    <2> QED BY <2>1, <2>2, OvertakenLosesOwn
  <1> QED BY <1>1, <1>2, <1>3, <1>4, <1>5, <1>6, <1>7 DEF Collect

\* A STATE write that a collect retires is applied to the user's Bag, unless
\* that collect finds its page or its user gone (genropy_worker.py,
\* collect_page; delivery_desk.py, exchange).
THEOREM RetiredWritesAreApplied == Spec => RetiredIsApplied
  <1>1. MailInv /\ [Next]_vars =>
            [\/ UNCHANGED <<collects, store>>
             \/ StateMail \ StateMail' \subseteq
                  UNION {Stamps(collects[t].reply.store_changes) :
                            t \in {s \in DOMAIN collects : Overtaken(s) /\ Steps(s)}}]_vars
    <2> SUFFICES ASSUME MailInv, [Next]_vars
                 PROVE  \/ UNCHANGED <<collects, store>>
                        \/ StateMail \ StateMail' \subseteq
                             UNION {Stamps(collects[t].reply.store_changes) : t \in LateSteps}
      BY DEF LateSteps
    <2> QED BY NotACollect, CollectAppliesRetired
  <1> QED BY MailInvariant, <1>1, PTL DEF Spec, RetiredIsApplied
=============================================================================
