--------------------------- MODULE TableEventsProofs ---------------------------
(***************************************************************************)
(* The road of a table event for any pages, tables, workers, threads and   *)
(* number of batches: every deposit is in one place on its way to a page,  *)
(* none that is owed is lost, a hidden one stays with its page, and a page *)
(* that wakes is back in the index with the tables it slept with.          *)
(***************************************************************************)
EXTENDS TableEvents, SubscriptionIndexProofs, WellFoundedInduction, TLAPS
-----------------------------------------------------------------------------
(* The inductive invariant. *)

Batch == [id : Nat, table : Table, from_page_id : Page, hidden : BOOLEAN]

Announcement == [name : {"new_page", "drop_page"}, page : Page, tables : SUBSET Table]

Phase == {"running", "subscribing", "exchanging", "collecting", "failed", "replying"}

RequestType ==
    [pc : Phase, worker : Worker, page : Page, dbevents : Seq(Batch), own_dbevents : Seq(Batch),
     events : Seq(Announcement), reply : Seq(Batch), call : Seq(Table \cup BOOLEAN)]

\* The pages that live on a row or sleep in a parcel.
Alive == DOMAIN rows \cup DOMAIN parcels

RowShape ==
    /\ minted \subseteq Page
    /\ rows \in [DOMAIN rows -> [worker : Worker, table_subscriptions : SUBSET Table]]
    /\ parcels \in [DOMAIN parcels -> SUBSET Table]
    /\ Alive \subseteq minted
    /\ DOMAIN rows \cap DOMAIN parcels = {}
    /\ leaving \subseteq DOMAIN parcels

DepositShape ==
    /\ committed \in 0..MaxDeposits
    /\ owed \in [1..MaxDeposits -> SUBSET Page]
    /\ page_dbevent_map \in [DOMAIN page_dbevent_map -> Seq(Batch)]
    /\ DOMAIN page_dbevent_map \subseteq Page
    /\ delivered \in [Page -> Seq(Batch)]

RequestShape == request \in [DOMAIN request -> RequestType]

Shape == IndexInv /\ RowShape /\ DepositShape /\ RequestShape

\* The pages the desk's index knows have been minted.
Indexed == \A t \in Table : pages_for(t) \subseteq minted

\* Where a request is says what it can hold.
Control(r) ==
    /\ request[r].page \in minted \ DOMAIN parcels
    /\ request[r].pc = "subscribing" =>
          /\ request[r].call[1] \in Table
          /\ request[r].call[2] \in BOOLEAN
    /\ request[r].pc # "collecting" => request[r].reply = <<>>
    /\ request[r].pc = "replying" =>
          request[r].dbevents = <<>> /\ request[r].own_dbevents = <<>>

\* What the events a request will fold can be: the birth of its own page,
\* first of all, and the drops of pages that will never be back.
Announced(r) ==
    \A i \in DOMAIN request[r].events :
        /\ request[r].events[i].page \in minted
        /\ request[r].events[i].name = "new_page" =>
              i = 1 /\ request[r].events[i].page = request[r].page
        /\ request[r].events[i].name = "drop_page" => request[r].events[i].page \notin Alive

Controlled == \A r \in DOMAIN request : Control(r) /\ Announced(r)

\* No hidden deposit where it could reach another page than its own.
Homes ==
    /\ HiddenStaysHome
    /\ \A r \in DOMAIN request :
          /\ \A d \in ToSet(request[r].dbevents) : ~d.hidden
          /\ \A d \in ToSet(request[r].reply) : ~d.hidden
          /\ \A d \in ToSet(request[r].own_dbevents) : d.from_page_id = request[r].page

Slot(r) == Ids(request[r].dbevents)
Own(r) == Ids(request[r].own_dbevents)
Reply(r) == Ids(request[r].reply)
Got(p) == Ids(delivered[p])
Waits(p) == Ids(Pending(page_dbevent_map, p))

\* No identifier is of a batch not committed yet.
Issued ==
    /\ \A r \in DOMAIN request : Slot(r) \cup Own(r) \cup Reply(r) \subseteq 1..committed
    /\ \A p \in Page : Got(p) \cup Waits(p) \subseteq 1..committed

\* A deposit not filed yet is in one slot and nowhere else; a filed one is, for
\* each page, in one of its queue, one reply and what it received.
OnePlace ==
    /\ \A p \in Page :
          /\ Distinct(delivered[p]) /\ Distinct(Pending(page_dbevent_map, p))
          /\ Got(p) \cap Waits(p) = {}
    /\ \A r \in DOMAIN request :
          /\ Distinct(request[r].dbevents)
          /\ Distinct(request[r].own_dbevents)
          /\ Distinct(request[r].reply)
          /\ Slot(r) \cap Own(r) = {}
    /\ \A r \in DOMAIN request, p \in Page :
          /\ (Slot(r) \cup Own(r)) \cap (Got(p) \cup Waits(p)) = {}
          /\ request[r].page = p => Reply(r) \cap (Got(p) \cup Waits(p)) = {}
    /\ \A r, s \in DOMAIN request :
          /\ (Slot(r) \cup Own(r)) \cap Reply(s) = {}
          /\ r # s => (Slot(r) \cup Own(r)) \cap (Slot(s) \cup Own(s)) = {}
          /\ r # s /\ request[r].page = request[s].page => Reply(r) \cap Reply(s) = {}

\* The deposits no CALL has taken up yet.
Slots == UNION {ToSet(request[s].dbevents) : s \in DOMAIN request}

\* Who is owed a deposit in a slot is in the index, and will get it filed; who
\* is owed one that was filed has it, asleep or awake.
Owing ==
    /\ \A i \in 1..MaxDeposits : owed[i] \subseteq minted
    /\ \A i \in 1..MaxDeposits : i > committed => owed[i] = {}
    /\ \A d \in Slots : owed[d.id] \subseteq pages_for(d.table)
    /\ \A i \in 1..committed, p \in Alive :
          i \notin InSlots /\ p \in owed[i] => i \in Got(p) \cup Waits(p) \cup InReplies(p)

\* The birth of its page waits to be folded among the events of r.
Birth(r) == request[r].events # <<>> /\ request[r].events[1].name = "new_page"

\* What a page slept with is in its parcel, on its row when it wakes, and on
\* its way to the desk in the one birth that announces it.
Sleeping ==
    /\ DOMAIN slept \subseteq minted
    /\ \A p \in DOMAIN parcels : p \in DOMAIN slept /\ slept[p] = parcels[p]
    /\ \A r \in DOMAIN request : request[r].pc = "subscribing" => request[r].page \notin DOMAIN slept
    /\ \A r \in DOMAIN request :
          Birth(r) /\ request[r].page \in DOMAIN slept =>
              /\ request[r].events[1].tables = slept[request[r].page]
              /\ tables_for(request[r].page) = {}
    /\ \A r, s \in DOMAIN request :
          Birth(r) /\ Birth(s) /\ request[r].page = request[s].page => r = s

Mail == Homes /\ Issued /\ OnePlace
Rest == Sleeping /\ WakeRestoresIndex

RoadInv == Shape /\ Indexed /\ Controlled /\ Mail /\ Owing /\ Rest
-----------------------------------------------------------------------------
(* Induction and the loop that files deposits. *)

\* A set of naturals that has 0 and the successor of each of its members is all
\* of them: the form of induction used here, on a set instead of a predicate.
LEMMA NaturalsFrom ==
    ASSUME NEW S, 0 \in S, \A n \in S \cap Nat : n + 1 \in S
    PROVE  \A n \in Nat : n \in S
  <1> DEFINE R == {ss \in Nat \X Nat : ss[1] < ss[2]}
             T == {n \in Nat : n \notin S}
  <1>1. IsWellFoundedOn(R, Nat)
    BY NatLessThanWellFounded DEF OpToRel
  <1>2. SUFFICES ASSUME T # {} PROVE FALSE
    OBVIOUS
  <1>3. T \subseteq Nat
    OBVIOUS
  <1>4. PICK x \in T : \A y \in T : <<y, x>> \notin R
    <2> HIDE DEF R, T
    <2> QED BY <1>1, <1>2, <1>3, WFMin
  <1>5. x \in Nat /\ x # 0 /\ x \notin S
    OBVIOUS
  <1>6. x - 1 \in Nat /\ (x - 1) + 1 = x
    BY <1>5
  <1>7. x - 1 \notin T
    <2>1. <<x - 1, x>> \in R
      BY <1>5, <1>6
    <2> QED BY <1>4, <2>1
  <1>8. x - 1 \in S \cap Nat
    BY <1>6, <1>7
  <1> QED BY <1>5, <1>6, <1>8

\* filed is what the loop over deposits computes, turn by turn.
Loop(filed, queues, deposits, last) ==
    filed = [n \in 0..last |->
                IF n = 0 THEN queues ELSE file_dbevent(filed[n - 1], deposits[n])]

\* The loop can be run for any number of turns.
LEMMA LoopRuns ==
    ASSUME NEW queues, NEW deposits, NEW last \in Nat
    PROVE  \E filed : Loop(filed, queues, deposits, last)
  <1> DEFINE S == {n \in Nat : \E filed : Loop(filed, queues, deposits, n)}
  <1>1. 0 \in S
    <2> DEFINE f == [n \in 0..0 |-> queues]
    <2>1. Loop(f, queues, deposits, 0)
      BY DEF Loop
    <2> QED BY <2>1
  <1>2. ASSUME NEW n \in S \cap Nat
        PROVE  n + 1 \in S
    <2>1. PICK f : Loop(f, queues, deposits, n)
      OBVIOUS
    <2> DEFINE g == [k \in 0..(n + 1) |->
                        IF k = n + 1 THEN file_dbevent(f[n], deposits[n + 1]) ELSE f[k]]
               h == [k \in 0..(n + 1) |->
                        IF k = 0 THEN queues ELSE file_dbevent(g[k - 1], deposits[k])]
    <2>2. ASSUME NEW k \in 0..(n + 1)
          PROVE  g[k] = h[k]
      <3>1. CASE k = 0
        <4>1. f[0] = queues
          BY <2>1 DEF Loop
        <4> QED BY <3>1, <4>1
      <3>2. CASE k = n + 1
        <4>1. k - 1 = n /\ k # 0 /\ n \in 0..(n + 1) /\ n # n + 1
          BY <3>2
        <4> QED BY <3>2, <4>1
      <3>3. CASE k # 0 /\ k # n + 1
        <4>1. k \in 0..n /\ k - 1 \in 0..n /\ k - 1 \in 0..(n + 1) /\ k - 1 # n + 1
          BY <3>3
        <4>2. f[k] = file_dbevent(f[k - 1], deposits[k])
          BY <2>1, <3>3, <4>1 DEF Loop
        <4> QED BY <3>3, <4>1, <4>2
      <3> QED BY <3>1, <3>2, <3>3
    <2>3. g = h
      BY <2>2
    <2>4. Loop(g, queues, deposits, n + 1)
      BY <2>3 DEF Loop
    <2> QED BY <2>4
  <1>3. last \in S
    <2> HIDE DEF S
    <2> QED BY <1>1, <1>2, NaturalsFrom
  <1> QED BY <1>3

\* FiledDbevents is the last turn of such a loop.
LEMMA FiledIsLoop ==
    ASSUME NEW deposits, Len(deposits) \in Nat
    PROVE  \E filed : /\ Loop(filed, page_dbevent_map, deposits, Len(deposits))
                      /\ FiledDbevents(deposits) = filed[Len(deposits)]
  <1> DEFINE g == CHOOSE filed : Loop(filed, page_dbevent_map, deposits, Len(deposits))
  <1>1. Loop(g, page_dbevent_map, deposits, Len(deposits))
    BY LoopRuns
  <1>2. FiledDbevents(deposits) = g[Len(deposits)]
    BY DEF FiledDbevents, Loop
  <1> QED BY <1>1, <1>2
-----------------------------------------------------------------------------
(* Sequences of deposits. *)

LEMMA ToSetIn ==
    ASSUME NEW s, NEW d
    PROVE  d \in ToSet(s) <=> \E k \in DOMAIN s : s[k] = d
  BY DEF ToSet

LEMMA IdsIn ==
    ASSUME NEW s, NEW i
    PROVE  i \in Ids(s) <=> \E k \in DOMAIN s : s[k].id = i
  BY DEF Ids, ToSet

LEMMA NoDeposits == Ids(<<>>) = {} /\ ToSet(<<>>) = {} /\ Distinct(<<>>)
  BY DEF Ids, ToSet, Distinct

LEMMA OneMore ==
    ASSUME NEW S, NEW s \in Seq(S), NEW d \in S
    PROVE  /\ ToSet(Append(s, d)) = ToSet(s) \cup {d}
           /\ Ids(Append(s, d)) = Ids(s) \cup {d.id}
           /\ Distinct(s) /\ d.id \notin Ids(s) => Distinct(Append(s, d))
  <1>1. /\ Append(s, d) \in Seq(S)
        /\ DOMAIN Append(s, d) = 1..(Len(s) + 1)
        /\ \A k \in 1..Len(s) : Append(s, d)[k] = s[k]
        /\ Append(s, d)[Len(s) + 1] = d
        /\ DOMAIN s = 1..Len(s) /\ Len(s) \in Nat
    OBVIOUS
  <1>2. ToSet(Append(s, d)) = ToSet(s) \cup {d}
    <2> HIDE DEF ToSet
    <2>1. \A e : e \in ToSet(Append(s, d)) => e \in ToSet(s) \cup {d}
      BY <1>1 DEF ToSet
    <2>2. d \in ToSet(Append(s, d))
      BY <1>1 DEF ToSet
    <2>3. \A e \in ToSet(s) : e \in ToSet(Append(s, d))
      BY <1>1 DEF ToSet
    <2> QED BY <2>1, <2>2, <2>3
  <1>3. Ids(Append(s, d)) = Ids(s) \cup {d.id}
    BY <1>2 DEF Ids
  <1>4. ASSUME Distinct(s), d.id \notin Ids(s)
        PROVE  Distinct(Append(s, d))
    <2>1. \A k \in 1..Len(s) : s[k].id # d.id
      BY <1>1, <1>4, IdsIn
    <2> SUFFICES ASSUME NEW i \in DOMAIN Append(s, d), NEW j \in DOMAIN Append(s, d),
                        Append(s, d)[i].id = Append(s, d)[j].id
                 PROVE  i = j
      BY DEF Distinct
    <2> QED BY <1>1, <1>4, <2>1 DEF Distinct
  <1> QED BY <1>2, <1>3, <1>4

LEMMA OneAfterAnother ==
    ASSUME NEW S, NEW s \in Seq(S), NEW t \in Seq(S)
    PROVE  /\ ToSet(s \o t) = ToSet(s) \cup ToSet(t)
           /\ Ids(s \o t) = Ids(s) \cup Ids(t)
           /\ Distinct(s) /\ Distinct(t) /\ Ids(s) \cap Ids(t) = {} => Distinct(s \o t)
  <1>1. /\ s \o t \in Seq(S)
        /\ DOMAIN (s \o t) = 1..(Len(s) + Len(t))
        /\ \A k \in 1..Len(s) : (s \o t)[k] = s[k]
        /\ \A k \in 1..(Len(s) + Len(t)) : k > Len(s) => (s \o t)[k] = t[k - Len(s)]
        /\ DOMAIN s = 1..Len(s) /\ Len(s) \in Nat
        /\ DOMAIN t = 1..Len(t) /\ Len(t) \in Nat
    OBVIOUS
  <1> DEFINE u == s \o t
  <1>0. \A k \in DOMAIN u : \/ k \in DOMAIN s /\ u[k] = s[k]
                            \/ k - Len(s) \in DOMAIN t /\ u[k] = t[k - Len(s)]
    BY <1>1
  <1>5. \A k \in DOMAIN t : Len(s) + k \in DOMAIN u /\ u[Len(s) + k] = t[k]
    <2> TAKE k \in DOMAIN t
    <2>1. Len(s) + k \in 1..(Len(s) + Len(t)) /\ Len(s) + k > Len(s) /\ (Len(s) + k) - Len(s) = k
      BY <1>1
    <2> QED BY <1>1, <2>1
  <1>6. \A k \in DOMAIN s : k \in DOMAIN u /\ u[k] = s[k]
    BY <1>1
  <1> HIDE DEF u
  <1>2. ToSet(u) = ToSet(s) \cup ToSet(t)
    <2>1. \A e : e \in ToSet(u) => e \in ToSet(s) \cup ToSet(t)
      BY <1>0 DEF ToSet
    <2>2. \A e \in ToSet(s) : e \in ToSet(u)
      BY <1>6 DEF ToSet
    <2>3. \A e \in ToSet(t) : e \in ToSet(u)
      BY <1>5 DEF ToSet
    <2> QED BY <2>1, <2>2, <2>3
  <1>3. Ids(u) = Ids(s) \cup Ids(t)
    BY <1>2 DEF Ids
  <1>4. ASSUME Distinct(s), Distinct(t), Ids(s) \cap Ids(t) = {}
        PROVE  Distinct(u)
    <2> SUFFICES ASSUME NEW i \in DOMAIN u, NEW j \in DOMAIN u, u[i].id = u[j].id
                 PROVE  i = j
      BY DEF Distinct
    <2>1. i \in Nat /\ j \in Nat
      BY <1>1 DEF u
    <2>2. \A k \in DOMAIN s, l \in DOMAIN t : s[k].id # t[l].id
      BY <1>4, IdsIn
    <2>3. CASE i \in DOMAIN s /\ u[i] = s[i] /\ j \in DOMAIN s /\ u[j] = s[j]
      BY <1>4, <2>3 DEF Distinct
    <2>4. CASE i - Len(s) \in DOMAIN t /\ u[i] = t[i - Len(s)]
               /\ j - Len(s) \in DOMAIN t /\ u[j] = t[j - Len(s)]
      <3>1. i - Len(s) = j - Len(s)
        BY <1>4, <2>4 DEF Distinct
      <3> QED BY <1>1, <2>1, <3>1
    <2> QED BY <1>0, <2>2, <2>3, <2>4
  <1> QED BY <1>2, <1>3, <1>4 DEF u
IsQueues(queues) ==
    /\ queues \in [DOMAIN queues -> Seq(Batch)]
    /\ DOMAIN queues \subseteq Page

\* One deposit filed: it is at the end of the queue of each page that wants it.
LEMMA FilingTurn ==
    ASSUME IndexInv, NEW queues, IsQueues(queues), NEW d \in Batch
    PROVE  /\ IsQueues(file_dbevent(queues, d))
           /\ \A p \in Page :
                 /\ Pending(queues, p) \in Seq(Batch)
                 /\ Pending(file_dbevent(queues, d), p) =
                       IF p \in pages_for(d.table) THEN Append(Pending(queues, p), d)
                       ELSE Pending(queues, p)
  <1>1. d.table \in Table /\ pages_for(d.table) \subseteq Page
    BY DEF Batch, IndexInv, IndexTypeOK, pages_for, GetSet
  <1>2. \A p \in Page : Pending(queues, p) \in Seq(Batch)
    BY DEF Pending, IsQueues
  <1>3. IsQueues(file_dbevent(queues, d))
    BY <1>1, <1>2 DEF IsQueues, file_dbevent
  <1>4. ASSUME NEW p \in Page
        PROVE  Pending(file_dbevent(queues, d), p) =
                  IF p \in pages_for(d.table) THEN Append(Pending(queues, p), d)
                  ELSE Pending(queues, p)
    BY DEF Pending, file_dbevent
  <1> QED BY <1>2, <1>3, <1>4

\* What filing a slot does to the queues: each page has what it had and the
\* deposits of the tables it subscribes, and none twice if none was there.
LEMMA Filing ==
    ASSUME IndexInv, IsQueues(page_dbevent_map), NEW deposits \in Seq(Batch)
    PROVE  /\ IsQueues(FiledDbevents(deposits))
           /\ \A p \in Page :
                 /\ Pending(page_dbevent_map, p) \in Seq(Batch)
                 /\ Pending(FiledDbevents(deposits), p) \in Seq(Batch)
                 /\ ToSet(Pending(FiledDbevents(deposits), p)) =
                       ToSet(Pending(page_dbevent_map, p))
                          \cup {d \in ToSet(deposits) : p \in pages_for(d.table)}
                 /\ /\ Distinct(Pending(page_dbevent_map, p)) /\ Distinct(deposits)
                    /\ Ids(Pending(page_dbevent_map, p)) \cap Ids(deposits) = {}
                    => Distinct(Pending(FiledDbevents(deposits), p))
  <1> DEFINE old(p) == Pending(page_dbevent_map, p)
  <1>0. Len(deposits) \in Nat /\ DOMAIN deposits = 1..Len(deposits)
    OBVIOUS
  <1>1. PICK filed : /\ Loop(filed, page_dbevent_map, deposits, Len(deposits))
                     /\ FiledDbevents(deposits) = filed[Len(deposits)]
    BY <1>0, FiledIsLoop
  <1>2. /\ filed[0] = page_dbevent_map
        /\ \A n \in Nat : n < Len(deposits) =>
              filed[n + 1] = file_dbevent(filed[n], deposits[n + 1])
    <2>1. filed[0] = page_dbevent_map
      BY <1>0, <1>1 DEF Loop
    <2>2. ASSUME NEW n \in Nat, n < Len(deposits)
          PROVE  filed[n + 1] = file_dbevent(filed[n], deposits[n + 1])
      <3>1. n + 1 \in 0..Len(deposits) /\ n + 1 # 0 /\ (n + 1) - 1 = n
        BY <1>0, <2>2
      <3> QED BY <1>1, <3>1 DEF Loop
    <2> QED BY <2>1, <2>2
  <1> DEFINE turn(n) ==
          /\ IsQueues(filed[n])
          /\ \A p \in Page :
                /\ Pending(filed[n], p) \in Seq(Batch)
                /\ \A d : d \in ToSet(Pending(filed[n], p)) <=>
                       \/ d \in ToSet(old(p))
                       \/ \E k \in 1..n : deposits[k] = d /\ p \in pages_for(d.table)
                /\ /\ Distinct(old(p)) /\ Distinct(deposits)
                   /\ Ids(old(p)) \cap Ids(deposits) = {}
                   => Distinct(Pending(filed[n], p))
  <1> DEFINE S == {n \in Nat : n <= Len(deposits) => turn(n)}
  <1>3. 0 \in S
    <2>1. \A p \in Page : old(p) \in Seq(Batch)
      BY DEF Pending, IsQueues
    <2>2. turn(0)
      BY <1>2, <2>1
    <2> QED BY <2>2
  <1>4. ASSUME NEW n \in S \cap Nat
        PROVE  n + 1 \in S
    <2> SUFFICES ASSUME n + 1 <= Len(deposits) PROVE turn(n + 1)
      OBVIOUS
    <2>1. n \in Nat /\ n < Len(deposits) /\ turn(n)
      BY <1>0
    <2> DEFINE next == deposits[n + 1]
    <2>2. next \in Batch /\ n + 1 \in DOMAIN deposits
      BY <1>0, <2>1
    <2>3. filed[n + 1] = file_dbevent(filed[n], next)
      BY <1>2, <2>1
    <2> HIDE DEF next
    <2>4. /\ IsQueues(filed[n + 1])
          /\ \A p \in Page : Pending(filed[n + 1], p) =
                IF p \in pages_for(next.table) THEN Append(Pending(filed[n], p), next)
                ELSE Pending(filed[n], p)
      <3>1. IsQueues(filed[n])
        BY <2>1
      <3> HIDE DEF turn, S
      <3> QED BY <2>2, <2>3, <3>1, FilingTurn
    <2>5. ASSUME NEW p \in Page
          PROVE  /\ Pending(filed[n + 1], p) \in Seq(Batch)
                 /\ \A d : d \in ToSet(Pending(filed[n + 1], p)) <=>
                       \/ d \in ToSet(old(p))
                       \/ \E k \in 1..(n + 1) : deposits[k] = d /\ p \in pages_for(d.table)
                 /\ /\ Distinct(old(p)) /\ Distinct(deposits)
                    /\ Ids(old(p)) \cap Ids(deposits) = {}
                    => Distinct(Pending(filed[n + 1], p))
      <3> DEFINE was == Pending(filed[n], p)
                 is == Pending(filed[n + 1], p)
      <3>1. /\ was \in Seq(Batch)
            /\ \A d : d \in ToSet(was) <=>
                  \/ d \in ToSet(old(p))
                  \/ \E k \in 1..n : deposits[k] = d /\ p \in pages_for(d.table)
            /\ /\ Distinct(old(p)) /\ Distinct(deposits)
               /\ Ids(old(p)) \cap Ids(deposits) = {}
               => Distinct(was)
        BY <2>1
      <3>2. is = IF p \in pages_for(next.table) THEN Append(was, next) ELSE was
        BY <2>4
      <3>3. \A k : k \in 1..(n + 1) <=> k \in 1..n \/ k = n + 1
        BY <2>1
      <3> HIDE DEF was, is
      <3>4. is \in Seq(Batch)
        BY <2>2, <3>1, <3>2
      <3>5. /\ ToSet(Append(was, next)) = ToSet(was) \cup {next}
            /\ Distinct(was) /\ next.id \notin Ids(was) => Distinct(Append(was, next))
        BY <2>2, <3>1, OneMore
      <3>6. ASSUME NEW d
            PROVE  d \in ToSet(is) <=>
                       \/ d \in ToSet(old(p))
                       \/ \E k \in 1..(n + 1) : deposits[k] = d /\ p \in pages_for(d.table)
        <4> HIDE DEF old
        <4>1. CASE p \in pages_for(next.table)
          <5>1. d \in ToSet(is) <=> d \in ToSet(was) \/ d = next
            BY <3>2, <3>5, <4>1
          <5> QED BY <3>1, <3>3, <4>1, <5>1 DEF next
        <4>2. CASE p \notin pages_for(next.table)
          BY <3>1, <3>2, <3>3, <4>2 DEF next
        <4> QED BY <4>1, <4>2
      <3>7. ASSUME Distinct(old(p)), Distinct(deposits), Ids(old(p)) \cap Ids(deposits) = {}
            PROVE  Distinct(is)
        <4> HIDE DEF old
        <4>1. Distinct(was)
          BY <3>1, <3>7
        <4>2. next.id \notin Ids(was)
          <5> SUFFICES ASSUME NEW d \in ToSet(was), d.id = next.id PROVE FALSE
            BY DEF Ids
          <5>1. next.id \in Ids(deposits)
            BY <2>2, IdsIn DEF next
          <5>2. d \notin ToSet(old(p))
            BY <3>7, <5>1 DEF Ids
          <5>3. PICK k \in 1..n : deposits[k] = d
            BY <3>1, <5>2
          <5>4. k \in DOMAIN deposits /\ k # n + 1
            BY <1>0, <2>1, <5>3
          <5> QED BY <2>2, <3>7, <5>3, <5>4 DEF Distinct, next
        <4> QED BY <3>2, <3>5, <4>1, <4>2
      <3> QED BY <3>4, <3>6, <3>7 DEF is
    <2> QED BY <2>4, <2>5
  <1>5. Len(deposits) \in S
    <2> HIDE DEF S
    <2> QED BY <1>0, <1>3, <1>4, NaturalsFrom
  <1>6. turn(Len(deposits))
    BY <1>0, <1>5
  <1> DEFINE new(p) == Pending(FiledDbevents(deposits), p)
  <1>7. ASSUME NEW p \in Page
        PROVE  ToSet(new(p)) = ToSet(old(p))
                                  \cup {d \in ToSet(deposits) : p \in pages_for(d.table)}
    <2>1. \A d : d \in ToSet(deposits) <=> \E k \in 1..Len(deposits) : deposits[k] = d
      BY <1>0 DEF ToSet
    <2>2. \A d : d \in ToSet(new(p)) <=>
              \/ d \in ToSet(old(p))
              \/ \E k \in 1..Len(deposits) : deposits[k] = d /\ p \in pages_for(d.table)
      BY <1>1, <1>6
    <2> HIDE DEF old, new
    <2> QED BY <2>1, <2>2
  <1>8. ASSUME NEW p \in Page
        PROVE  old(p) \in Seq(Batch)
    BY DEF IsQueues, Pending
  <1> QED BY <1>1, <1>6, <1>7, <1>8
-----------------------------------------------------------------------------
(* What the steps do to the requests. *)

\* A thread begins to serve a request.
LEMMA Served ==
    ASSUME RequestShape, NEW r, NEW w \in Worker, NEW p \in Page,
           NEW events \in Seq(Announcement), Serve(r, NewRequest(w, p, events))
    PROVE  /\ RequestShape'
           /\ r \notin DOMAIN request /\ DOMAIN request' = DOMAIN request \cup {r}
           /\ \A s \in DOMAIN request : request'[s] = request[s]
           /\ request'[r].pc = "running" /\ request'[r].page = p
           /\ request'[r].events = events
           /\ request'[r].dbevents = <<>> /\ request'[r].own_dbevents = <<>>
           /\ request'[r].reply = <<>>
  <1>1. NewRequest(w, p, events) \in RequestType
    BY DEF NewRequest, RequestType, Phase
  <1>2. /\ r \notin DOMAIN request
        /\ request' = [s \in DOMAIN request \cup {r} |->
                          IF s = r THEN NewRequest(w, p, events) ELSE request[s]]
    BY DEF Serve, Put
  <1>3. RequestShape'
    BY <1>1, <1>2 DEF RequestShape
  <1>4. request'[r] = NewRequest(w, p, events)
    BY <1>2
  <1>5. /\ request'[r].pc = "running" /\ request'[r].page = p
        /\ request'[r].events = events
        /\ request'[r].dbevents = <<>> /\ request'[r].own_dbevents = <<>>
        /\ request'[r].reply = <<>>
    BY <1>4 DEF NewRequest
  <1> QED BY <1>2, <1>3, <1>5

\* A request goes on, and no other with it.
LEMMA GoesOn ==
    ASSUME RequestShape, NEW r \in DOMAIN request, NEW rec \in RequestType, Becomes(r, rec)
    PROVE  /\ RequestShape'
           /\ DOMAIN request' = DOMAIN request
           /\ request'[r] = rec
           /\ \A s \in DOMAIN request : s # r => request'[s] = request[s]
  BY DEF RequestShape, Becomes

\* The fields of a request.
LEMMA RequestFields ==
    ASSUME RequestShape, NEW r \in DOMAIN request
    PROVE  /\ request[r] \in RequestType
           /\ request[r].pc \in Phase /\ request[r].worker \in Worker /\ request[r].page \in Page
           /\ request[r].dbevents \in Seq(Batch) /\ request[r].own_dbevents \in Seq(Batch)
           /\ request[r].reply \in Seq(Batch) /\ request[r].events \in Seq(Announcement)
  <1>1. request[r] \in RequestType
    BY DEF RequestShape
  <1> QED BY <1>1 DEF RequestType

\* Nothing moves in a request but where it is and what it asks.
Same(r) ==
    /\ request'[r].page = request[r].page
    /\ request'[r].dbevents = request[r].dbevents
    /\ request'[r].own_dbevents = request[r].own_dbevents
    /\ request'[r].reply = request[r].reply

\* A step in the middle of a request that changes none of its deposits.
LEMMA StepsOn ==
    ASSUME RequestShape, NEW r \in DOMAIN request, NEW pc \in Phase,
           NEW call \in Seq(Table \cup BOOLEAN),
           Becomes(r, [request[r] EXCEPT !.pc = pc, !.call = call])
    PROVE  /\ RequestShape' /\ DOMAIN request' = DOMAIN request
           /\ \A s \in DOMAIN request : s # r => request'[s] = request[s]
           /\ Same(r) /\ request'[r].events = request[r].events
           /\ request'[r].pc = pc /\ request'[r].call = call
  <1> DEFINE rec == [request[r] EXCEPT !.pc = pc, !.call = call]
  <1>1. request[r] \in RequestType
    BY RequestFields
  <1>2. rec \in RequestType
    BY <1>1 DEF RequestType
  <1>3. /\ RequestShape' /\ DOMAIN request' = DOMAIN request /\ request'[r] = rec
        /\ \A s \in DOMAIN request : s # r => request'[s] = request[s]
    BY <1>2, GoesOn
  <1>4. /\ rec.page = request[r].page /\ rec.dbevents = request[r].dbevents
        /\ rec.own_dbevents = request[r].own_dbevents /\ rec.reply = request[r].reply
        /\ rec.events = request[r].events /\ rec.pc = pc /\ rec.call = call
    BY <1>1 DEF RequestType
  <1> HIDE DEF rec
  <1> QED BY <1>3, <1>4 DEF Same

\* The same, when only the place changes.
LEMMA MovesOn ==
    ASSUME RequestShape, NEW r \in DOMAIN request, NEW pc \in Phase,
           Becomes(r, [request[r] EXCEPT !.pc = pc])
    PROVE  /\ RequestShape' /\ DOMAIN request' = DOMAIN request
           /\ \A s \in DOMAIN request : s # r => request'[s] = request[s]
           /\ Same(r) /\ request'[r].events = request[r].events
           /\ request'[r].pc = pc
  <1> DEFINE rec == [request[r] EXCEPT !.pc = pc]
  <1>1. request[r] \in RequestType
    BY RequestFields
  <1>2. rec \in RequestType
    BY <1>1 DEF RequestType
  <1>3. /\ RequestShape' /\ DOMAIN request' = DOMAIN request /\ request'[r] = rec
        /\ \A s \in DOMAIN request : s # r => request'[s] = request[s]
    BY <1>2, GoesOn
  <1>4. /\ rec.page = request[r].page /\ rec.dbevents = request[r].dbevents
        /\ rec.own_dbevents = request[r].own_dbevents /\ rec.reply = request[r].reply
        /\ rec.events = request[r].events /\ rec.pc = pc
    BY <1>1 DEF RequestType
  <1> HIDE DEF rec
  <1> QED BY <1>3, <1>4 DEF Same

\* A request whose events change: one more at the end, or the first folded.
LEMMA Announces ==
    ASSUME RequestShape, NEW r \in DOMAIN request, NEW events \in Seq(Announcement),
           Becomes(r, [request[r] EXCEPT !.events = events])
    PROVE  /\ RequestShape' /\ DOMAIN request' = DOMAIN request
           /\ \A s \in DOMAIN request : s # r => request'[s] = request[s]
           /\ Same(r) /\ request'[r].events = events
           /\ request'[r].pc = request[r].pc /\ request'[r].call = request[r].call
  <1> DEFINE rec == [request[r] EXCEPT !.events = events]
  <1>1. request[r] \in RequestType
    BY RequestFields
  <1>2. rec \in RequestType
    BY <1>1 DEF RequestType
  <1>3. /\ RequestShape' /\ DOMAIN request' = DOMAIN request /\ request'[r] = rec
        /\ \A s \in DOMAIN request : s # r => request'[s] = request[s]
    BY <1>2, GoesOn
  <1>4. /\ rec.page = request[r].page /\ rec.dbevents = request[r].dbevents
        /\ rec.own_dbevents = request[r].own_dbevents /\ rec.reply = request[r].reply
        /\ rec.events = events /\ rec.pc = request[r].pc /\ rec.call = request[r].call
    BY <1>1 DEF RequestType
  <1> HIDE DEF rec
  <1> QED BY <1>3, <1>4 DEF Same
-----------------------------------------------------------------------------
(* What leaves the index, the pages or the deposits alone. *)

LEMMA IndexUntouched ==
    ASSUME UNCHANGED indexVars
    PROVE  /\ IndexInv => IndexInv'
           /\ \A t : pages_for(t)' = pages_for(t)
           /\ \A p : tables_for(p)' = tables_for(p)
  BY DEF indexVars, IndexInv, IndexTypeOK, MapsAgree, NoEmptySet,
         pages_for, tables_for, GetSet

\* The deposits of a request after a step: the same or gone, on the same page.
Keeps(s) ==
    /\ s \in DOMAIN request
    /\ request'[s].page = request[s].page
    /\ request'[s].dbevents = request[s].dbevents \/ request'[s].dbevents = <<>>
    /\ request'[s].own_dbevents = request[s].own_dbevents \/ request'[s].own_dbevents = <<>>
    /\ request'[s].reply = request[s].reply \/ request'[s].reply = <<>>

Empty(s) ==
    request'[s].dbevents = <<>> /\ request'[s].own_dbevents = <<>> /\ request'[s].reply = <<>>

\* A step that puts no deposit anywhere it was not leaves each in one place.
LEMMA NothingMoves ==
    ASSUME Mail, committed \in Nat, committed' \in Nat, committed <= committed',
           UNCHANGED delivered,
           \A s \in DOMAIN request' : Keeps(s) \/ Empty(s),
           \A p \in Page : \/ Pending(page_dbevent_map', p) = Pending(page_dbevent_map, p)
                           \/ Pending(page_dbevent_map', p) = <<>>
    PROVE  Mail'
  <1>0. Homes /\ Issued /\ OnePlace
    BY DEF Mail
  <1>1. ASSUME NEW s \in DOMAIN request'
        PROVE  \/ /\ s \in DOMAIN request
                  /\ request'[s].page = request[s].page
                  /\ Slot(s)' \subseteq Slot(s) /\ Own(s)' \subseteq Own(s)
                  /\ Reply(s)' \subseteq Reply(s)
               \/ Slot(s)' = {} /\ Own(s)' = {} /\ Reply(s)' = {}
    BY NoDeposits DEF Keeps, Empty, Slot, Own, Reply
  <1>2. \A p \in Page : Got(p)' = Got(p) /\ Waits(p)' \subseteq Waits(p)
    BY NoDeposits DEF Got, Waits
  <1>3. Homes'
    <2>1. \A p \in Page : /\ \A d \in ToSet(delivered'[p]) : d.hidden => d.from_page_id = p
                          /\ \A d \in ToSet(Pending(page_dbevent_map', p)) : ~d.hidden
      BY <1>0, NoDeposits DEF Homes, HiddenStaysHome
    <2>2. ASSUME NEW s \in DOMAIN request'
          PROVE  /\ \A d \in ToSet(request'[s].dbevents) : ~d.hidden
                 /\ \A d \in ToSet(request'[s].reply) : ~d.hidden
                 /\ \A d \in ToSet(request'[s].own_dbevents) : d.from_page_id = request'[s].page
      BY <1>0, NoDeposits DEF Homes, Keeps, Empty
    <2> QED BY <2>1, <2>2 DEF Homes, HiddenStaysHome
  <1>4. Issued'
    <2>1. 1..committed \subseteq 1..committed'
      OBVIOUS
    <2> QED BY <1>0, <1>1, <1>2, <2>1 DEF Issued
  <1>5. OnePlace'
    <2>1. ASSUME NEW p \in Page
          PROVE  /\ Distinct(delivered'[p]) /\ Distinct(Pending(page_dbevent_map', p))
                 /\ Got(p)' \cap Waits(p)' = {}
      BY <1>0, <1>2, NoDeposits DEF OnePlace
    <2>2. ASSUME NEW s \in DOMAIN request'
          PROVE  /\ Distinct(request'[s].dbevents)
                 /\ Distinct(request'[s].own_dbevents)
                 /\ Distinct(request'[s].reply)
      BY <1>0, NoDeposits DEF OnePlace, Keeps, Empty
    <2>3. ASSUME NEW s \in DOMAIN request'
          PROVE  Slot(s)' \cap Own(s)' = {}
      <3>1. s \in DOMAIN request => Slot(s) \cap Own(s) = {}
        BY <1>0 DEF OnePlace
      <3> QED BY <1>1, <3>1
    <2>4. ASSUME NEW s \in DOMAIN request', NEW p \in Page
          PROVE  /\ (Slot(s)' \cup Own(s)') \cap (Got(p)' \cup Waits(p)') = {}
                 /\ request'[s].page = p => Reply(s)' \cap (Got(p)' \cup Waits(p)') = {}
      <3>1. s \in DOMAIN request =>
                 /\ (Slot(s) \cup Own(s)) \cap (Got(p) \cup Waits(p)) = {}
                 /\ request[s].page = p => Reply(s) \cap (Got(p) \cup Waits(p)) = {}
        BY <1>0 DEF OnePlace
      <3> QED BY <1>1, <1>2, <3>1
    <2>5. ASSUME NEW r \in DOMAIN request', NEW s \in DOMAIN request'
          PROVE  /\ (Slot(r)' \cup Own(r)') \cap Reply(s)' = {}
                 /\ r # s => (Slot(r)' \cup Own(r)') \cap (Slot(s)' \cup Own(s)') = {}
                 /\ r # s /\ request'[r].page = request'[s].page => Reply(r)' \cap Reply(s)' = {}
      <3>1. r \in DOMAIN request /\ s \in DOMAIN request =>
                 /\ (Slot(r) \cup Own(r)) \cap Reply(s) = {}
                 /\ r # s => (Slot(r) \cup Own(r)) \cap (Slot(s) \cup Own(s)) = {}
                 /\ r # s /\ request[r].page = request[s].page => Reply(r) \cap Reply(s) = {}
        BY <1>0 DEF OnePlace
      <3> QED BY <1>1, <3>1
    <2> QED BY <2>1, <2>2, <2>3, <2>4, <2>5 DEF OnePlace
  <1> QED BY <1>3, <1>4, <1>5 DEF Mail
-----------------------------------------------------------------------------
(* What the deposits go through. *)

\* A commit: a new batch joins the slot, or the page's own when it is hidden.
LEMMA CommitMail ==
    ASSUME Mail, committed \in Nat, committed' = committed + 1, RequestShape,
           UNCHANGED <<delivered, page_dbevent_map>>,
           NEW r \in DOMAIN request, NEW d \in Batch, d.id = committed + 1,
           DOMAIN request' = DOMAIN request,
           \A s \in DOMAIN request : s # r => request'[s] = request[s],
           request'[r].page = request[r].page, request'[r].reply = request[r].reply,
           \/ /\ ~d.hidden
              /\ request'[r].dbevents = Append(request[r].dbevents, d)
              /\ request'[r].own_dbevents = request[r].own_dbevents
           \/ /\ d.from_page_id = request[r].page
              /\ request'[r].dbevents = request[r].dbevents
              /\ request'[r].own_dbevents = Append(request[r].own_dbevents, d)
    PROVE  Mail'
  <1>0. Homes /\ Issued /\ OnePlace
    BY DEF Mail
  <1>t. request[r].dbevents \in Seq(Batch) /\ request[r].own_dbevents \in Seq(Batch)
    BY RequestFields
  <1>a. /\ ToSet(Append(request[r].dbevents, d)) = ToSet(request[r].dbevents) \cup {d}
        /\ Ids(Append(request[r].dbevents, d)) = Slot(r) \cup {d.id}
        /\ Distinct(request[r].dbevents) /\ d.id \notin Slot(r)
              => Distinct(Append(request[r].dbevents, d))
    BY <1>t, OneMore DEF Slot
  <1>b. /\ ToSet(Append(request[r].own_dbevents, d)) = ToSet(request[r].own_dbevents) \cup {d}
        /\ Ids(Append(request[r].own_dbevents, d)) = Own(r) \cup {d.id}
        /\ Distinct(request[r].own_dbevents) /\ d.id \notin Own(r)
              => Distinct(Append(request[r].own_dbevents, d))
    BY <1>t, OneMore DEF Own
  <1>f. /\ \A s \in DOMAIN request : d.id \notin Slot(s) \cup Own(s) \cup Reply(s)
        /\ \A p \in Page : d.id \notin Got(p) \cup Waits(p)
    <2>1. d.id \notin 1..committed
      OBVIOUS
    <2> QED BY <1>0, <2>1 DEF Issued
  <1>1. \A s \in DOMAIN request : s # r =>
           request'[s].page = request[s].page /\ Slot(s)' = Slot(s) /\ Own(s)' = Own(s)
              /\ Reply(s)' = Reply(s)
    BY DEF Slot, Own, Reply
  <1>2. /\ Reply(r)' = Reply(r)
        /\ \/ Slot(r)' = Slot(r) \cup {d.id} /\ Own(r)' = Own(r)
           \/ Slot(r)' = Slot(r) /\ Own(r)' = Own(r) \cup {d.id}
    BY <1>a, <1>b DEF Slot, Own, Reply
  <1>3. \A p \in Page : Got(p)' = Got(p) /\ Waits(p)' = Waits(p)
    BY DEF Got, Waits
  <1>4. Homes'
    <2>1. HiddenStaysHome'
      BY <1>0 DEF Homes, HiddenStaysHome
    <2>2. ASSUME NEW s \in DOMAIN request'
          PROVE  /\ \A e \in ToSet(request'[s].dbevents) : ~e.hidden
                 /\ \A e \in ToSet(request'[s].reply) : ~e.hidden
                 /\ \A e \in ToSet(request'[s].own_dbevents) : e.from_page_id = request'[s].page
      <3>1. CASE s # r
        BY <1>0, <3>1 DEF Homes
      <3>2. CASE s = r
        BY <1>0, <1>a, <1>b, <3>2 DEF Homes
      <3> QED BY <3>1, <3>2
    <2> QED BY <2>1, <2>2 DEF Homes
  <1>5. Issued'
    <2>1. 1..committed \subseteq 1..committed' /\ d.id \in 1..committed'
      OBVIOUS
    <2> QED BY <1>0, <1>1, <1>2, <1>3, <2>1 DEF Issued
  <1>6. OnePlace'
    <2>1. ASSUME NEW p \in Page
          PROVE  /\ Distinct(delivered'[p]) /\ Distinct(Pending(page_dbevent_map', p))
                 /\ Got(p)' \cap Waits(p)' = {}
      BY <1>0, <1>3 DEF OnePlace
    <2>2. ASSUME NEW s \in DOMAIN request'
          PROVE  /\ Distinct(request'[s].dbevents)
                 /\ Distinct(request'[s].own_dbevents)
                 /\ Distinct(request'[s].reply)
      <3>1. CASE s # r
        BY <1>0, <3>1 DEF OnePlace
      <3>2. CASE s = r
        BY <1>0, <1>a, <1>b, <1>f, <3>2 DEF OnePlace
      <3> QED BY <3>1, <3>2
    <2>3. ASSUME NEW s \in DOMAIN request'
          PROVE  Slot(s)' \cap Own(s)' = {}
      <3>1. Slot(s) \cap Own(s) = {}
        BY <1>0 DEF OnePlace
      <3> QED BY <1>1, <1>2, <1>f, <3>1
    <2>4. ASSUME NEW s \in DOMAIN request', NEW p \in Page
          PROVE  /\ (Slot(s)' \cup Own(s)') \cap (Got(p)' \cup Waits(p)') = {}
                 /\ request'[s].page = p => Reply(s)' \cap (Got(p)' \cup Waits(p)') = {}
      <3>1. /\ (Slot(s) \cup Own(s)) \cap (Got(p) \cup Waits(p)) = {}
            /\ request[s].page = p => Reply(s) \cap (Got(p) \cup Waits(p)) = {}
        BY <1>0 DEF OnePlace
      <3> QED BY <1>1, <1>2, <1>3, <1>f, <3>1
    <2>5. ASSUME NEW q \in DOMAIN request', NEW s \in DOMAIN request'
          PROVE  /\ (Slot(q)' \cup Own(q)') \cap Reply(s)' = {}
                 /\ q # s => (Slot(q)' \cup Own(q)') \cap (Slot(s)' \cup Own(s)') = {}
                 /\ q # s /\ request'[q].page = request'[s].page => Reply(q)' \cap Reply(s)' = {}
      <3>1. /\ (Slot(q) \cup Own(q)) \cap Reply(s) = {}
            /\ q # s => (Slot(q) \cup Own(q)) \cap (Slot(s) \cup Own(s)) = {}
            /\ q # s /\ request[q].page = request[s].page => Reply(q) \cap Reply(s) = {}
        BY <1>0 DEF OnePlace
      <3> QED BY <1>1, <1>2, <1>f, <3>1
    <2> QED BY <2>1, <2>2, <2>3, <2>4, <2>5 DEF OnePlace
  <1> QED BY <1>4, <1>5, <1>6 DEF Mail

\* The slot of a request filed, and perhaps its page's queue retired into the
\* reply of the same exchange: every deposit has moved, none is in two places.
LEMMA FiledMail ==
    ASSUME Mail, RequestShape, IndexInv, IsQueues(page_dbevent_map),
           UNCHANGED <<committed, delivered>>,
           NEW r \in DOMAIN request,
           DOMAIN request' = DOMAIN request,
           \A s \in DOMAIN request : s # r => request'[s] = request[s],
           request'[r].page = request[r].page, request'[r].dbevents = <<>>,
           request[r].reply = <<>>,
           \/ request'[r].own_dbevents = request[r].own_dbevents
           \/ request'[r].own_dbevents = <<>>,
           \/ /\ page_dbevent_map' = FiledDbevents(request[r].dbevents)
              /\ request'[r].reply = <<>>
           \/ /\ page_dbevent_map' = Popped(FiledDbevents(request[r].dbevents), {request[r].page})
              /\ request'[r].reply = Pending(FiledDbevents(request[r].dbevents), request[r].page)
    PROVE  Mail'
  <1>0. Homes /\ Issued /\ OnePlace
    BY DEF Mail
  <1>t. request[r].dbevents \in Seq(Batch) /\ request[r].page \in Page
    BY RequestFields
  <1> DEFINE filed(p) == Pending(FiledDbevents(request[r].dbevents), p)
  <1>a. ASSUME NEW p \in Page
        PROVE  /\ ToSet(filed(p)) \subseteq
                     ToSet(Pending(page_dbevent_map, p)) \cup ToSet(request[r].dbevents)
               /\ Ids(filed(p)) \subseteq Waits(p) \cup Slot(r)
               /\ Distinct(filed(p))
    <2>1. /\ ToSet(filed(p)) = ToSet(Pending(page_dbevent_map, p))
                \cup {d \in ToSet(request[r].dbevents) : p \in pages_for(d.table)}
          /\ /\ Distinct(Pending(page_dbevent_map, p)) /\ Distinct(request[r].dbevents)
             /\ Ids(Pending(page_dbevent_map, p)) \cap Ids(request[r].dbevents) = {}
             => Distinct(filed(p))
      BY <1>t, Filing
    <2>2. /\ Distinct(Pending(page_dbevent_map, p)) /\ Distinct(request[r].dbevents)
          /\ Waits(p) \cap Slot(r) = {}
      BY <1>0 DEF OnePlace
    <2>3. Distinct(filed(p))
      BY <2>1, <2>2 DEF Waits, Slot
    <2>4. Ids(filed(p)) \subseteq Waits(p) \cup Slot(r)
      <3> HIDE DEF filed
      <3> QED BY <2>1 DEF Ids, Waits, Slot
    <2> QED BY <2>1, <2>3, <2>4
  <1>b. ASSUME NEW p \in Page
        PROVE  \/ Pending(page_dbevent_map', p) = filed(p)
               \/ Pending(page_dbevent_map', p) = <<>>
    BY DEF Pending, Popped, Restrict
  <1>c. \/ request'[r].reply = <<>>
        \/ /\ request'[r].reply = filed(request[r].page)
           /\ Pending(page_dbevent_map', request[r].page) = <<>>
    BY DEF Pending, Popped, Restrict
  <1> HIDE DEF filed
  <1>1. \A s \in DOMAIN request : s # r =>
           request'[s].page = request[s].page /\ Slot(s)' = Slot(s) /\ Own(s)' = Own(s)
              /\ Reply(s)' = Reply(s)
    BY DEF Slot, Own, Reply
  <1>2. Slot(r)' = {} /\ Own(r)' \subseteq Own(r)
    BY NoDeposits DEF Slot, Own
  <1>3. \A p \in Page : Got(p)' = Got(p) /\ Waits(p)' \subseteq Waits(p) \cup Slot(r)
    BY <1>a, <1>b, NoDeposits DEF Got, Waits
  <1>7. \/ Reply(r)' = {}
        \/ /\ Waits(request[r].page)' = {}
           /\ Reply(r)' \subseteq Waits(request[r].page) \cup Slot(r)
    BY <1>a, <1>c, <1>t, NoDeposits DEF Reply, Waits
  <1>8. Reply(r) = {}
    BY NoDeposits DEF Reply
  <1>4. Homes'
    <2>0. ASSUME NEW p \in Page, NEW d \in ToSet(filed(p))
          PROVE  ~d.hidden
      BY <1>0, <1>a DEF Homes, HiddenStaysHome
    <2>1. HiddenStaysHome'
      BY <1>0, <1>b, <2>0, NoDeposits DEF Homes, HiddenStaysHome
    <2>2. ASSUME NEW s \in DOMAIN request'
          PROVE  /\ \A e \in ToSet(request'[s].dbevents) : ~e.hidden
                 /\ \A e \in ToSet(request'[s].reply) : ~e.hidden
                 /\ \A e \in ToSet(request'[s].own_dbevents) : e.from_page_id = request'[s].page
      <3>1. CASE s # r
        BY <1>0, <3>1 DEF Homes
      <3>2. CASE s = r
        BY <1>0, <1>c, <1>t, <2>0, <3>2, NoDeposits DEF Homes
      <3> QED BY <3>1, <3>2
    <2> QED BY <2>1, <2>2 DEF Homes
  <1>5. Issued'
    BY <1>0, <1>1, <1>2, <1>3, <1>7, <1>t DEF Issued
  <1>6. OnePlace'
    <2>1. ASSUME NEW p \in Page
          PROVE  /\ Distinct(delivered'[p]) /\ Distinct(Pending(page_dbevent_map', p))
                 /\ Got(p)' \cap Waits(p)' = {}
      <3>1. /\ Distinct(delivered[p]) /\ Got(p) \cap Waits(p) = {}
            /\ Slot(r) \cap Got(p) = {}
        BY <1>0 DEF OnePlace
      <3>2. Distinct(Pending(page_dbevent_map', p))
        BY <1>a, <1>b, NoDeposits
      <3> QED BY <1>3, <3>1, <3>2
    <2>2. ASSUME NEW s \in DOMAIN request'
          PROVE  /\ Distinct(request'[s].dbevents)
                 /\ Distinct(request'[s].own_dbevents)
                 /\ Distinct(request'[s].reply)
      <3>1. CASE s # r
        BY <1>0, <3>1 DEF OnePlace
      <3>2. CASE s = r
        BY <1>0, <1>a, <1>c, <1>t, <3>2, NoDeposits DEF OnePlace
      <3> QED BY <3>1, <3>2
    <2>3. ASSUME NEW s \in DOMAIN request'
          PROVE  Slot(s)' \cap Own(s)' = {}
      <3>1. Slot(s) \cap Own(s) = {}
        BY <1>0 DEF OnePlace
      <3> QED BY <1>1, <1>2, <3>1
    <2>4. ASSUME NEW s \in DOMAIN request', NEW p \in Page
          PROVE  /\ (Slot(s)' \cup Own(s)') \cap (Got(p)' \cup Waits(p)') = {}
                 /\ request'[s].page = p => Reply(s)' \cap (Got(p)' \cup Waits(p)') = {}
      <3>1. /\ (Slot(s) \cup Own(s)) \cap (Got(p) \cup Waits(p)) = {}
            /\ request[s].page = p => Reply(s) \cap (Got(p) \cup Waits(p)) = {}
            /\ s # r => (Slot(s) \cup Own(s)) \cap Slot(r) = {}
            /\ Slot(r) \cap Own(r) = {}
            /\ Slot(r) \cap Reply(s) = {}
            /\ Got(p) \cap Waits(p) = {} /\ Slot(r) \cap Got(p) = {}
        BY <1>0 DEF OnePlace
      <3>2. CASE s # r
        BY <1>1, <1>3, <3>1, <3>2
      <3>3. CASE s = r
        <4>1. (Slot(s)' \cup Own(s)') \cap (Got(p)' \cup Waits(p)') = {}
          BY <1>2, <1>3, <3>1, <3>3
        <4>2. request'[s].page = p => Reply(s)' \cap (Got(p)' \cup Waits(p)') = {}
          BY <1>3, <1>7, <3>1, <3>3
        <4> QED BY <4>1, <4>2
      <3> QED BY <3>2, <3>3
    <2>5. ASSUME NEW q \in DOMAIN request', NEW s \in DOMAIN request'
          PROVE  /\ (Slot(q)' \cup Own(q)') \cap Reply(s)' = {}
                 /\ q # s => (Slot(q)' \cup Own(q)') \cap (Slot(s)' \cup Own(s)') = {}
                 /\ q # s /\ request'[q].page = request'[s].page => Reply(q)' \cap Reply(s)' = {}
      <3>0. /\ (Slot(q) \cup Own(q)) \cap Reply(s) = {}
            /\ q # s => (Slot(q) \cup Own(q)) \cap (Slot(s) \cup Own(s)) = {}
            /\ q # s /\ request[q].page = request[s].page => Reply(q) \cap Reply(s) = {}
        BY <1>0 DEF OnePlace
      <3>1. /\ Slot(r) \cap Own(r) = {}
            /\ (Slot(q) \cup Own(q)) \cap Waits(request[r].page) = {}
            /\ q # r => (Slot(q) \cup Own(q)) \cap Slot(r) = {}
            /\ q # r /\ request[q].page = request[r].page =>
                  Reply(q) \cap (Waits(request[r].page) \cup Slot(r)) = {}
            /\ s # r /\ request[s].page = request[r].page =>
                  Reply(s) \cap (Waits(request[r].page) \cup Slot(r)) = {}
        BY <1>0, <1>t DEF OnePlace
      <3>2. CASE q # r /\ s # r
        BY <1>1, <3>0, <3>2
      <3>3. CASE q = r /\ s # r
        BY <1>1, <1>2, <1>7, <3>0, <3>1, <3>3
      <3>4. CASE q # r /\ s = r
        BY <1>1, <1>2, <1>7, <3>0, <3>1, <3>4
      <3>5. CASE q = r /\ s = r
        BY <1>2, <1>7, <3>1, <3>5
      <3> QED BY <3>2, <3>3, <3>4, <3>5
    <2> QED BY <2>1, <2>2, <2>3, <2>4, <2>5 DEF OnePlace
  <1> QED BY <1>4, <1>5, <1>6 DEF Mail

\* A collect drained on the page's row: the reply and the page's own deposits
\* become what it has received.
LEMMA DrainedMail ==
    ASSUME Mail, RequestShape, delivered \in [Page -> Seq(Batch)],
           UNCHANGED <<committed, page_dbevent_map>>,
           NEW r \in DOMAIN request, NEW page, page = request[r].page,
           delivered' = [delivered EXCEPT ![page] =
                           @ \o request[r].reply \o request[r].own_dbevents],
           DOMAIN request' = DOMAIN request,
           \A s \in DOMAIN request : s # r => request'[s] = request[s],
           request'[r].page = page, request'[r].dbevents = request[r].dbevents,
           request'[r].reply = <<>>, request'[r].own_dbevents = <<>>
    PROVE  Mail'
  <1>0. Homes /\ Issued /\ OnePlace
    BY DEF Mail
  <1>t. /\ request[r].reply \in Seq(Batch) /\ request[r].own_dbevents \in Seq(Batch)
        /\ page \in Page /\ delivered[page] \in Seq(Batch)
    BY RequestFields
  <1> DEFINE first == delivered[page] \o request[r].reply
             all == first \o request[r].own_dbevents
  <1>d. /\ Distinct(delivered[page]) /\ Distinct(request[r].reply)
        /\ Distinct(request[r].own_dbevents)
        /\ Got(page) \cap Reply(r) = {} /\ Got(page) \cap Own(r) = {} /\ Reply(r) \cap Own(r) = {}
    BY <1>0, <1>t DEF OnePlace
  <1>a. /\ first \in Seq(Batch)
        /\ ToSet(first) = ToSet(delivered[page]) \cup ToSet(request[r].reply)
        /\ Ids(first) = Got(page) \cup Reply(r)
        /\ Distinct(first)
    <2>1. first \in Seq(Batch)
      BY <1>t
    <2> QED BY <1>t, <1>d, <2>1, OneAfterAnother DEF Got, Reply
  <1> HIDE DEF first
  <1>b. /\ ToSet(all) = ToSet(delivered[page]) \cup ToSet(request[r].reply)
                            \cup ToSet(request[r].own_dbevents)
        /\ Ids(all) = Got(page) \cup Reply(r) \cup Own(r)
        /\ Distinct(all)
    <2>1. /\ ToSet(all) = ToSet(first) \cup ToSet(request[r].own_dbevents)
          /\ Ids(all) = Ids(first) \cup Own(r)
          /\ Distinct(first) /\ Distinct(request[r].own_dbevents)
                /\ Ids(first) \cap Own(r) = {} => Distinct(all)
      BY <1>t, <1>a, OneAfterAnother DEF Own
    <2> QED BY <1>a, <1>d, <2>1
  <1>c. /\ delivered'[page] = all
        /\ \A p \in Page : p # page => delivered'[p] = delivered[p]
    BY <1>t DEF first
  <1> HIDE DEF all
  <1>1. \A s \in DOMAIN request : s # r =>
           request'[s].page = request[s].page /\ Slot(s)' = Slot(s) /\ Own(s)' = Own(s)
              /\ Reply(s)' = Reply(s)
    BY DEF Slot, Own, Reply
  <1>2. Slot(r)' = Slot(r) /\ Own(r)' = {} /\ Reply(r)' = {}
    BY NoDeposits DEF Slot, Own, Reply
  <1>3. /\ \A p \in Page : Waits(p)' = Waits(p)
        /\ \A p \in Page : p # page => Got(p)' = Got(p)
        /\ Got(page)' = Got(page) \cup Reply(r) \cup Own(r)
    BY <1>b, <1>c DEF Got, Waits
  <1>4. Homes'
    <2>1. ASSUME NEW p \in Page
          PROVE  /\ \A d \in ToSet(delivered'[p]) : d.hidden => d.from_page_id = p
                 /\ \A d \in ToSet(Pending(page_dbevent_map', p)) : ~d.hidden
      <3>1. \A d \in ToSet(Pending(page_dbevent_map', p)) : ~d.hidden
        BY <1>0 DEF Homes, HiddenStaysHome
      <3>2. CASE p # page
        BY <1>0, <1>c, <3>1, <3>2 DEF Homes, HiddenStaysHome
      <3>3. CASE p = page
        BY <1>0, <1>b, <1>c, <3>1, <3>3 DEF Homes, HiddenStaysHome
      <3> QED BY <3>2, <3>3
    <2>2. ASSUME NEW s \in DOMAIN request'
          PROVE  /\ \A e \in ToSet(request'[s].dbevents) : ~e.hidden
                 /\ \A e \in ToSet(request'[s].reply) : ~e.hidden
                 /\ \A e \in ToSet(request'[s].own_dbevents) : e.from_page_id = request'[s].page
      <3>1. CASE s # r
        BY <1>0, <3>1 DEF Homes
      <3>2. CASE s = r
        BY <1>0, <3>2, NoDeposits DEF Homes
      <3> QED BY <3>1, <3>2
    <2> QED BY <2>1, <2>2 DEF Homes, HiddenStaysHome
  <1>5. Issued'
    <2>1. ASSUME NEW s \in DOMAIN request'
          PROVE  Slot(s)' \cup Own(s)' \cup Reply(s)' \subseteq 1..committed
      BY <1>0, <1>1, <1>2 DEF Issued
    <2>2. ASSUME NEW p \in Page
          PROVE  Got(p)' \cup Waits(p)' \subseteq 1..committed
      <3>1. Got(p) \cup Waits(p) \cup Reply(r) \cup Own(r) \subseteq 1..committed
        BY <1>0 DEF Issued
      <3> QED BY <1>3, <3>1
    <2> QED BY <2>1, <2>2 DEF Issued
  <1>6. OnePlace'
    <2>1. ASSUME NEW p \in Page
          PROVE  /\ Distinct(delivered'[p]) /\ Distinct(Pending(page_dbevent_map', p))
                 /\ Got(p)' \cap Waits(p)' = {}
      <3>1. /\ Distinct(delivered[p]) /\ Got(p) \cap Waits(p) = {}
            /\ Distinct(Pending(page_dbevent_map, p))
            /\ p = page => (Own(r) \cup Reply(r)) \cap Waits(p) = {}
        BY <1>0 DEF OnePlace
      <3>2. Distinct(delivered'[p])
        BY <1>b, <1>c, <3>1
      <3> QED BY <1>3, <3>1, <3>2
    <2>2. ASSUME NEW s \in DOMAIN request'
          PROVE  /\ Distinct(request'[s].dbevents)
                 /\ Distinct(request'[s].own_dbevents)
                 /\ Distinct(request'[s].reply)
      <3>1. CASE s # r
        BY <1>0, <3>1 DEF OnePlace
      <3>2. CASE s = r
        BY <1>0, <3>2, NoDeposits DEF OnePlace
      <3> QED BY <3>1, <3>2
    <2>3. ASSUME NEW s \in DOMAIN request'
          PROVE  Slot(s)' \cap Own(s)' = {}
      <3>1. Slot(s) \cap Own(s) = {}
        BY <1>0 DEF OnePlace
      <3> QED BY <1>1, <1>2, <3>1
    <2>4. ASSUME NEW s \in DOMAIN request', NEW p \in Page
          PROVE  /\ (Slot(s)' \cup Own(s)') \cap (Got(p)' \cup Waits(p)') = {}
                 /\ request'[s].page = p => Reply(s)' \cap (Got(p)' \cup Waits(p)') = {}
      <3>1. /\ (Slot(s) \cup Own(s)) \cap (Got(p) \cup Waits(p)) = {}
            /\ request[s].page = p => Reply(s) \cap (Got(p) \cup Waits(p)) = {}
            /\ (Slot(s) \cup Own(s)) \cap Reply(r) = {}
            /\ s # r => (Slot(s) \cup Own(s)) \cap Own(r) = {}
            /\ s # r /\ request[s].page = page => Reply(s) \cap (Reply(r) \cup Own(r)) = {}
            /\ Slot(r) \cap Own(r) = {}
        BY <1>0 DEF OnePlace
      <3>2. CASE s # r
        BY <1>1, <1>3, <3>1, <3>2
      <3>3. CASE s = r
        BY <1>2, <1>3, <3>1, <3>3
      <3> QED BY <3>2, <3>3
    <2>5. ASSUME NEW q \in DOMAIN request', NEW s \in DOMAIN request'
          PROVE  /\ (Slot(q)' \cup Own(q)') \cap Reply(s)' = {}
                 /\ q # s => (Slot(q)' \cup Own(q)') \cap (Slot(s)' \cup Own(s)') = {}
                 /\ q # s /\ request'[q].page = request'[s].page => Reply(q)' \cap Reply(s)' = {}
      <3>1. /\ (Slot(q) \cup Own(q)) \cap Reply(s) = {}
            /\ q # s => (Slot(q) \cup Own(q)) \cap (Slot(s) \cup Own(s)) = {}
            /\ q # s /\ request[q].page = request[s].page => Reply(q) \cap Reply(s) = {}
        BY <1>0 DEF OnePlace
      <3> QED BY <1>1, <1>2, <3>1
    <2> QED BY <2>1, <2>2, <2>3, <2>4, <2>5 DEF OnePlace
  <1> QED BY <1>4, <1>5, <1>6 DEF Mail
-----------------------------------------------------------------------------
(* What is owed, and what the pages that sleep are due, under a step that    *)
(* moves no deposit.                                                         *)

LEMMA HeldIn ==
    /\ \A i : i \in InSlots <=> \E s \in DOMAIN request : i \in Slot(s)
    /\ \A i, p : i \in InReplies(p) <=>
          \E s \in DOMAIN request : request[s].page = p /\ i \in Reply(s)
    /\ \A d : d \in Slots <=> \E s \in DOMAIN request : d \in ToSet(request[s].dbevents)
  BY DEF InSlots, InReplies, Slots, Slot, Reply

LEMMA HeldInNext ==
    /\ \A i : i \in InSlots' <=> \E s \in DOMAIN request' : i \in Slot(s)'
    /\ \A i, p : i \in InReplies(p)' <=>
          \E s \in DOMAIN request' : request'[s].page = p /\ i \in Reply(s)'
    /\ \A d : d \in Slots' <=> \E s \in DOMAIN request' : d \in ToSet(request'[s].dbevents)
  BY DEF InSlots, InReplies, Slots, Slot, Reply

\* s holds the same deposits before and after the step.
Holds(s) ==
    /\ s \in DOMAIN request /\ s \in DOMAIN request'
    /\ request'[s].page = request[s].page
    /\ request'[s].dbevents = request[s].dbevents /\ request'[s].reply = request[s].reply

LEMMA SameHolds ==
    ASSUME \A s \in DOMAIN request : Holds(s) \/ (request[s].dbevents = <<>> /\ request[s].reply = <<>>),
           \A s \in DOMAIN request' :
               Holds(s) \/ (request'[s].dbevents = <<>> /\ request'[s].reply = <<>>)
    PROVE  /\ InSlots' = InSlots /\ Slots' = Slots
           /\ \A p : InReplies(p)' = InReplies(p)
  <1>1. \A s \in DOMAIN request :
           \/ /\ s \in DOMAIN request' /\ request'[s].page = request[s].page
              /\ Slot(s)' = Slot(s) /\ Reply(s)' = Reply(s)
              /\ ToSet(request'[s].dbevents) = ToSet(request[s].dbevents)
           \/ Slot(s) = {} /\ Reply(s) = {} /\ ToSet(request[s].dbevents) = {}
    BY NoDeposits DEF Holds, Slot, Reply
  <1>2. \A s \in DOMAIN request' :
           \/ /\ s \in DOMAIN request /\ request'[s].page = request[s].page
              /\ Slot(s)' = Slot(s) /\ Reply(s)' = Reply(s)
              /\ ToSet(request'[s].dbevents) = ToSet(request[s].dbevents)
           \/ Slot(s)' = {} /\ Reply(s)' = {} /\ ToSet(request'[s].dbevents) = {}
    BY NoDeposits DEF Holds, Slot, Reply
  <1>3. \A i : i \in InSlots' <=> i \in InSlots
    BY <1>1, <1>2, HeldIn, HeldInNext
  <1>4. \A d : d \in Slots' <=> d \in Slots
    BY <1>1, <1>2, HeldIn, HeldInNext
  <1>5. \A i, p : i \in InReplies(p)' <=> i \in InReplies(p)
    BY <1>1, <1>2, HeldIn, HeldInNext
  <1>6. InSlots' = InSlots
    BY <1>3
  <1>7. Slots' = Slots
    BY <1>4
  <1>8. ASSUME NEW p PROVE InReplies(p)' = InReplies(p)
    <2>1. \A i : i \in InReplies(p)' <=> i \in InReplies(p)
      BY <1>5
    <2>2. InReplies(p)' \subseteq InReplies(p) /\ InReplies(p) \subseteq InReplies(p)'
      BY <2>1
    <2> QED BY <2>2
  <1> QED BY <1>6, <1>7, <1>8

\* Nothing is owed that was not, each page owed something in a slot is still in
\* the index, and the queue of a page that stays is lost only with its claims.
LEMMA OwingKept ==
    ASSUME Owing, committed \in 0..MaxDeposits, UNCHANGED <<committed, delivered>>,
           minted \subseteq minted',
           InSlots' = InSlots, Slots' = Slots, \A p : InReplies(p)' = InReplies(p),
           \A i \in 1..MaxDeposits : owed'[i] \subseteq owed[i],
           \A d \in Slots : owed'[d.id] \subseteq pages_for(d.table)',
           \A p \in Alive' :
              \/ p \notin minted
              \/ p \in Alive /\ Waits(p)' = Waits(p)
              \/ \A i \in 1..MaxDeposits : p \notin owed'[i]
    PROVE  Owing'
  <1>1. \A i \in 1..MaxDeposits : owed'[i] \subseteq minted'
    BY DEF Owing
  <1>2. \A i \in 1..MaxDeposits : i > committed' => owed'[i] = {}
    BY DEF Owing
  <1>3. \A d \in Slots' : owed'[d.id] \subseteq pages_for(d.table)'
    OBVIOUS
  <1>4. ASSUME NEW i \in 1..committed', NEW p \in Alive', i \notin InSlots', p \in owed'[i]
        PROVE  i \in Got(p)' \cup Waits(p)' \cup InReplies(p)'
    <2>1. i \in 1..committed /\ i \in 1..MaxDeposits
      BY <1>4, DepositsAssumption
    <2>2. p \in owed[i] /\ p \in minted
      BY <1>4, <2>1 DEF Owing
    <2>3. p \in Alive /\ Waits(p)' = Waits(p)
      BY <1>4, <2>1, <2>2
    <2>4. i \in Got(p) \cup Waits(p) \cup InReplies(p)
      BY <1>4, <2>1, <2>2, <2>3 DEF Owing
    <2>5. Got(p)' = Got(p)
      BY DEF Got
    <2> QED BY <2>3, <2>4, <2>5
  <1> QED BY <1>1, <1>2, <1>3, <1>4 DEF Owing

\* A request that does not move stays under control: births and freezes are of
\* pages it is not on, and a page that has gone does not come back.
LEMMA StaysControlled ==
    ASSUME NEW s \in DOMAIN request, Control(s), Announced(s), request'[s] = request[s],
           minted \subseteq minted', Alive' \cap minted \subseteq Alive,
           request[s].page \notin DOMAIN parcels'
    PROVE  Control(s)' /\ Announced(s)'
  <1>1. Control(s)'
    BY DEF Control
  <1>2. Announced(s)'
    BY DEF Announced
  <1> QED BY <1>1, <1>2

\* A page is named by an event still to be folded.
LEMMA NamedIn ==
    ASSUME NEW events, NEW p
    PROVE  p \in Named(events) <=> \E k \in DOMAIN events : events[k].page = p
  BY DEF Named, ToSet

\* Steps that touch neither rows, parcels, index nor events.
LEMMA RestKept ==
    ASSUME Rest, UNCHANGED <<rows, parcels, leaving, slept, minted>>,
           \A p : tables_for(p)' = tables_for(p),
           \A s \in DOMAIN request :
              \/ s \in DOMAIN request' /\ request'[s].events = request[s].events
              \/ request[s].events = <<>>,
           \A s \in DOMAIN request' :
              /\ request'[s].pc # "subscribing" \/ (s \in DOMAIN request /\ request[s].pc = "subscribing"
                                                      /\ request'[s].page = request[s].page)
              /\ \/ s \in DOMAIN request /\ request'[s].events = request[s].events
                       /\ request'[s].page = request[s].page
                 \/ request'[s].events = <<>>
    PROVE  Rest'
  <1>0. Sleeping /\ WakeRestoresIndex
    BY DEF Rest
  <1>1. \A s \in DOMAIN request' : Birth(s)' =>
           s \in DOMAIN request /\ Birth(s) /\ request'[s].events = request[s].events
              /\ request'[s].page = request[s].page
    BY DEF Birth
  <1>2. Sleeping'
    <2>1. /\ DOMAIN slept' \subseteq minted'
          /\ \A p \in DOMAIN parcels' : p \in DOMAIN slept' /\ slept'[p] = parcels'[p]
      BY <1>0 DEF Sleeping
    <2>2. \A s \in DOMAIN request' :
             request'[s].pc = "subscribing" => request'[s].page \notin DOMAIN slept'
      BY <1>0 DEF Sleeping
    <2>3. ASSUME NEW s \in DOMAIN request', Birth(s)', request'[s].page \in DOMAIN slept'
          PROVE  /\ request'[s].events[1].tables = slept'[request'[s].page]
                 /\ tables_for(request[s].page)' = {}
      <3>1. s \in DOMAIN request /\ Birth(s) /\ request'[s].events = request[s].events
              /\ request'[s].page = request[s].page
        BY <1>1, <2>3
      <3>2. /\ request[s].events[1].tables = slept[request[s].page]
            /\ tables_for(request[s].page) = {}
        BY <1>0, <2>3, <3>1 DEF Sleeping
      <3>3. tables_for(request[s].page)' = tables_for(request[s].page)
        BY <3>1 DEF tables_for, GetSet
      <3> QED BY <3>1, <3>2, <3>3
    <2>4. \A r, s \in DOMAIN request' :
             Birth(r)' /\ Birth(s)' /\ request'[r].page = request'[s].page => r = s
      BY <1>0, <1>1 DEF Sleeping
    <2> QED BY <2>1, <2>2, <2>3, <2>4 DEF Sleeping
  <1>3. WakeRestoresIndex'
    <2> SUFFICES ASSUME NEW p \in DOMAIN slept'
                 PROVE  /\ p \in DOMAIN parcels' \ leaving' => tables_for(p)' = {}
                        /\ p \in DOMAIN rows' => rows'[p].table_subscriptions = slept'[p]
                        /\ p \in DOMAIN rows'
                              /\ (\A r \in DOMAIN request' : p \notin Named(request'[r].events))
                           => tables_for(p)' = slept'[p]
      BY DEF WakeRestoresIndex
    <2>1. /\ p \in DOMAIN parcels' \ leaving' => tables_for(p)' = {}
          /\ p \in DOMAIN rows' => rows'[p].table_subscriptions = slept'[p]
      BY <1>0 DEF WakeRestoresIndex
    <2>2. ASSUME p \in DOMAIN rows', \A r \in DOMAIN request' : p \notin Named(request'[r].events)
          PROVE  tables_for(p)' = slept'[p]
      <3>1. p \notin Named(<<>>)
        BY NamedIn
      <3>2. \A r \in DOMAIN request : p \notin Named(request[r].events)
        BY <2>2, <3>1
      <3> QED BY <1>0, <2>2, <3>2 DEF WakeRestoresIndex
    <2> QED BY <2>1, <2>2
  <1> QED BY <1>2, <1>3 DEF Rest
-----------------------------------------------------------------------------
(* The steps that start requests. *)

LEMMA Parts ==
    ASSUME RoadInv
    PROVE  /\ IndexInv /\ RowShape /\ DepositShape /\ RequestShape
           /\ Indexed /\ Controlled /\ Mail /\ Owing /\ Rest
           /\ IsQueues(page_dbevent_map)
           /\ committed \in Nat /\ committed \in 0..MaxDeposits /\ MaxDeposits \in Nat
           /\ \A d \in Slots : d.id \in 1..MaxDeposits /\ d \in Batch
  <1>1. /\ IndexInv /\ RowShape /\ DepositShape /\ RequestShape
        /\ Indexed /\ Controlled /\ Mail /\ Owing /\ Rest
    BY DEF RoadInv, Shape
  <1>2. committed \in Nat /\ committed \in 0..MaxDeposits /\ MaxDeposits \in Nat
    BY <1>1, DepositsAssumption DEF DepositShape
  <1>3. IsQueues(page_dbevent_map)
    BY <1>1 DEF DepositShape, IsQueues
  <1>4. ASSUME NEW d \in Slots
        PROVE  d.id \in 1..MaxDeposits /\ d \in Batch
    <2>1. PICK s \in DOMAIN request : d \in ToSet(request[s].dbevents)
      BY HeldIn
    <2>2. d.id \in Slot(s)
      BY <2>1 DEF Slot, Ids
    <2>3. d.id \in 1..committed
      BY <1>1, <2>2 DEF Mail, Issued
    <2>4. d \in Batch
      BY <1>1, <2>1, RequestFields, ToSetIn
    <2> QED BY <1>2, <2>3, <2>4
  <1> QED BY <1>1, <1>2, <1>3, <1>4

\* What every start of a request leaves alone.
LEMMA ServeStep ==
    ASSUME RoadInv, NEW r, NEW w \in Worker, NEW p \in Page, NEW events \in Seq(Announcement),
           Serve(r, NewRequest(w, p, events)),
           UNCHANGED <<indexVars, page_dbevent_map, committed, delivered, owed>>,
           minted \subseteq minted', Alive' \cap minted \subseteq Alive
    PROVE  IndexInv' /\ DepositShape' /\ RequestShape' /\ Indexed' /\ Mail' /\ Owing'
  <1>0. /\ IndexInv /\ RowShape /\ DepositShape /\ RequestShape
        /\ Indexed /\ Controlled /\ Mail /\ Owing /\ Rest
        /\ committed \in Nat /\ committed \in 0..MaxDeposits
    BY Parts
  <1>1. /\ IndexInv' /\ \A t : pages_for(t)' = pages_for(t)
    BY <1>0, IndexUntouched
  <1>2. /\ RequestShape'
        /\ r \notin DOMAIN request /\ DOMAIN request' = DOMAIN request \cup {r}
        /\ \A s \in DOMAIN request : request'[s] = request[s]
        /\ request'[r].dbevents = <<>> /\ request'[r].own_dbevents = <<>>
        /\ request'[r].reply = <<>>
    BY <1>0, Served
  <1>3. DepositShape'
    BY <1>0 DEF DepositShape
  <1>4. Indexed'
    BY <1>0, <1>1 DEF Indexed
  <1>5. Mail'
    <2>1. \A s \in DOMAIN request' : Keeps(s) \/ Empty(s)
      BY <1>2 DEF Keeps, Empty
    <2> QED BY <1>0, <2>1, NothingMoves
  <1>6. Owing'
    <2>1. /\ InSlots' = InSlots /\ Slots' = Slots /\ \A q : InReplies(q)' = InReplies(q)
      <3>1. \A s \in DOMAIN request : Holds(s)
        BY <1>2 DEF Holds
      <3>2. \A s \in DOMAIN request' :
               Holds(s) \/ (request'[s].dbevents = <<>> /\ request'[s].reply = <<>>)
        BY <1>2, <3>1
      <3> QED BY <3>1, <3>2, SameHolds
    <2>2. \A d \in Slots : owed'[d.id] \subseteq pages_for(d.table)'
      BY <1>0, <1>1 DEF Owing
    <2>3. \A q \in Alive' : q \notin minted \/ (q \in Alive /\ Waits(q)' = Waits(q))
      BY DEF Waits
    <2> QED BY <1>0, <2>1, <2>2, <2>3, OwingKept
  <1> QED BY <1>1, <1>2, <1>3, <1>4, <1>5, <1>6

LEMMA StartRequestStep ==
    ASSUME RoadInv, NEW r, NEW p \in Page, StartRequest(r, p)
    PROVE  RoadInv'
  <1>0. /\ RowShape /\ RequestShape /\ Controlled /\ Rest
    BY Parts
  <1>1. /\ p \in DOMAIN rows /\ Serve(r, NewRequest(rows[p].worker, p, <<>>))
        /\ UNCHANGED <<indexVars, page_dbevent_map, committed, delivered, owed>>
        /\ UNCHANGED <<rows, minted, parcels, leaving, slept>>
    BY DEF StartRequest, deskVars, queueVars, untouched, freezerVars
  <1>2. rows[p].worker \in Worker /\ <<>> \in Seq(Announcement)
    BY <1>0, <1>1 DEF RowShape
  <1>3. Alive' = Alive
    BY <1>1 DEF Alive
  <1>4. IndexInv' /\ DepositShape' /\ RequestShape' /\ Indexed' /\ Mail' /\ Owing'
    BY <1>1, <1>2, <1>3, ServeStep
  <1>5. RowShape'
    BY <1>0, <1>1, <1>3 DEF RowShape
  <1>6. /\ r \notin DOMAIN request /\ DOMAIN request' = DOMAIN request \cup {r}
        /\ \A s \in DOMAIN request : request'[s] = request[s]
        /\ request'[r].pc = "running" /\ request'[r].page = p
        /\ request'[r].events = <<>>
        /\ request'[r].reply = <<>>
    BY <1>0, <1>1, <1>2, Served
  <1>7. Controlled'
    <2>1. Control(r)' /\ Announced(r)'
      BY <1>0, <1>1, <1>6 DEF Control, Announced, RowShape, Alive
    <2>2. ASSUME NEW s \in DOMAIN request
          PROVE  Control(s)' /\ Announced(s)'
      <3>1. request[s].page \notin DOMAIN parcels'
        BY <1>0, <1>1 DEF Controlled, Control
      <3> QED BY <1>0, <1>1, <1>3, <1>6, <3>1, StaysControlled DEF Controlled
    <2> QED BY <1>6, <2>1, <2>2 DEF Controlled
  <1>8. Rest'
    <2>1. \A q : tables_for(q)' = tables_for(q)
      BY <1>1, IndexUntouched
    <2> QED BY <1>0, <1>1, <1>6, <2>1, RestKept
  <1> QED BY <1>4, <1>5, <1>7, <1>8 DEF RoadInv, Shape

LEMMA StartRootPageStep ==
    ASSUME RoadInv, NEW r, NEW w \in Worker, NEW p \in Page, StartRootPage(r, w, p)
    PROVE  RoadInv'
  <1> DEFINE birth == [name |-> "new_page", page |-> p, tables |-> {}]
             events == <<birth>>
  <1>0. /\ RowShape /\ RequestShape /\ Controlled /\ Rest
    BY Parts
  <1>1. /\ p \notin minted /\ minted' = minted \cup {p}
        /\ rows' = Put(rows, p, [worker |-> w, table_subscriptions |-> {}])
        /\ Serve(r, NewRequest(w, p, events))
        /\ UNCHANGED <<indexVars, page_dbevent_map, committed, delivered, owed>>
        /\ UNCHANGED <<parcels, leaving, slept>>
    BY DEF StartRootPage, deskVars, queueVars, untouched, freezerVars
  <1>2. events \in Seq(Announcement)
    BY DEF Announcement
  <1>e. Len(events) = 1 /\ DOMAIN events = {1} /\ events[1].name = "new_page" /\ events[1].page = p
        /\ events # <<>>
    OBVIOUS
  <1> HIDE DEF events
  <1>3. /\ DOMAIN rows' = DOMAIN rows \cup {p}
        /\ \A q \in DOMAIN rows : q # p => rows'[q] = rows[q]
        /\ rows' \in [DOMAIN rows' -> [worker : Worker, table_subscriptions : SUBSET Table]]
    <2>1. rows' = [q \in DOMAIN rows \cup {p} |->
                      IF q = p THEN [worker |-> w, table_subscriptions |-> {}] ELSE rows[q]]
      BY <1>1 DEF Put
    <2> QED BY <1>0, <2>1 DEF RowShape
  <1>n. p \notin Alive /\ Alive' = Alive \cup {p} /\ p \notin DOMAIN slept
    BY <1>0, <1>1, <1>3 DEF RowShape, Alive, Rest, Sleeping
  <1>4. IndexInv' /\ DepositShape' /\ RequestShape' /\ Indexed' /\ Mail' /\ Owing'
    BY <1>1, <1>2, <1>n, ServeStep
  <1>5. RowShape'
    BY <1>0, <1>1, <1>3, <1>n DEF RowShape, Alive
  <1>6. /\ r \notin DOMAIN request /\ DOMAIN request' = DOMAIN request \cup {r}
        /\ \A s \in DOMAIN request : request'[s] = request[s]
        /\ request'[r].pc = "running" /\ request'[r].page = p
        /\ request'[r].events = events
        /\ request'[r].reply = <<>>
    <2>1. RequestShape /\ Serve(r, NewRequest(w, p, events))
      BY <1>0, <1>1
    <2> QED BY <1>2, <2>1, Served
  <1>7. Controlled'
    <2>1. Control(r)'
      BY <1>0, <1>1, <1>6, <1>n DEF Control, Alive
    <2>3. Announced(r)'
      BY <1>1, <1>6, <1>e DEF Announced
    <2>2. ASSUME NEW s \in DOMAIN request
          PROVE  Control(s)' /\ Announced(s)'
      <3>1. request[s].page \notin DOMAIN parcels'
        BY <1>0, <1>1 DEF Controlled, Control
      <3> QED BY <1>0, <1>1, <1>n, <1>6, <3>1, StaysControlled DEF Controlled
    <2> QED BY <1>6, <2>1, <2>2, <2>3 DEF Controlled
  <1>8. Rest'
    <2>0. Sleeping /\ WakeRestoresIndex
      BY <1>0 DEF Rest
    <2>1. \A q : tables_for(q)' = tables_for(q)
      BY <1>1, IndexUntouched
    <2>2. \A s \in DOMAIN request : request[s].page # p
      BY <1>0, <1>1 DEF Controlled, Control
    <2>b. \A s \in DOMAIN request : Birth(s)' <=> Birth(s)
      BY <1>6 DEF Birth
    <2>3. Sleeping'
      <3>1. /\ DOMAIN slept' \subseteq minted'
            /\ \A q \in DOMAIN parcels' : q \in DOMAIN slept' /\ slept'[q] = parcels'[q]
            /\ \A s \in DOMAIN request' :
                  request'[s].pc = "subscribing" => request'[s].page \notin DOMAIN slept'
        BY <1>1, <1>6, <2>0 DEF Sleeping
      <3>2. ASSUME NEW s \in DOMAIN request', Birth(s)', request'[s].page \in DOMAIN slept'
            PROVE  /\ request'[s].events[1].tables = slept'[request'[s].page]
                   /\ tables_for(request[s].page)' = {}
        <4>1. s \in DOMAIN request
          BY <1>1, <1>6, <1>n, <3>2
        <4>2. /\ request[s].events[1].tables = slept[request[s].page]
              /\ tables_for(request[s].page) = {}
          BY <1>1, <1>6, <2>0, <2>b, <3>2, <4>1 DEF Sleeping
        <4>3. tables_for(request[s].page)' = tables_for(request[s].page)
          BY <1>1, <1>6, <4>1 DEF tables_for, GetSet, indexVars
        <4> QED BY <1>1, <1>6, <4>1, <4>2, <4>3
      <3>3. ASSUME NEW q \in DOMAIN request', NEW s \in DOMAIN request', Birth(q)', Birth(s)',
                   request'[q].page = request'[s].page
            PROVE  q = s
        BY <1>6, <2>0, <2>2, <2>b, <3>3 DEF Sleeping
      <3> QED BY <3>1, <3>2, <3>3 DEF Sleeping
    <2>4. WakeRestoresIndex'
      <3> SUFFICES ASSUME NEW q \in DOMAIN slept'
                   PROVE  /\ q \in DOMAIN parcels' \ leaving' => tables_for(q)' = {}
                          /\ q \in DOMAIN rows' => rows'[q].table_subscriptions = slept'[q]
                          /\ q \in DOMAIN rows'
                                /\ (\A s \in DOMAIN request' : q \notin Named(request'[s].events))
                             => tables_for(q)' = slept'[q]
        BY DEF WakeRestoresIndex
      <3>1. q \in DOMAIN slept /\ q # p /\ slept'[q] = slept[q] /\ tables_for(q)' = tables_for(q)
        BY <1>1, <1>n, <2>1
      <3>2. q \in DOMAIN rows' => q \in DOMAIN rows /\ rows'[q] = rows[q]
        BY <1>3, <3>1
      <3>3. (\A s \in DOMAIN request' : q \notin Named(request'[s].events)) =>
               \A s \in DOMAIN request : q \notin Named(request[s].events)
        BY <1>6
      <3> QED BY <1>1, <2>0, <3>1, <3>2, <3>3 DEF WakeRestoresIndex
    <2> QED BY <2>3, <2>4 DEF Rest
  <1> QED BY <1>4, <1>5, <1>7, <1>8 DEF RoadInv, Shape

LEMMA WakeStep ==
    ASSUME RoadInv, NEW r, NEW w \in Worker, NEW p \in Page, wake_page(r, w, p)
    PROVE  RoadInv'
  <1> DEFINE birth == [name |-> "new_page", page |-> p, tables |-> parcels[p]]
             events == <<birth>>
  <1>0. /\ RowShape /\ RequestShape /\ Controlled /\ Rest
    BY Parts
  <1>1. /\ p \in DOMAIN parcels \ leaving
        /\ rows' = Put(rows, p, [worker |-> w, table_subscriptions |-> parcels[p]])
        /\ parcels' = Popped(parcels, {p})
        /\ Serve(r, NewRequest(w, p, events))
        /\ UNCHANGED <<indexVars, page_dbevent_map, committed, delivered, owed>>
        /\ UNCHANGED <<minted, leaving, slept>>
    BY DEF wake_page, deskVars, queueVars
  <1>p. parcels[p] \in SUBSET Table
    BY <1>0, <1>1 DEF RowShape
  <1>2. events \in Seq(Announcement)
    BY <1>p DEF Announcement
  <1>e. Len(events) = 1 /\ DOMAIN events = {1} /\ events[1].name = "new_page" /\ events[1].page = p
        /\ events # <<>> /\ events[1].tables = parcels[p]
    OBVIOUS
  <1> HIDE DEF events
  <1>3. /\ DOMAIN rows' = DOMAIN rows \cup {p}
        /\ \A q \in DOMAIN rows : q # p => rows'[q] = rows[q]
        /\ rows'[p].table_subscriptions = parcels[p]
        /\ rows' \in [DOMAIN rows' -> [worker : Worker, table_subscriptions : SUBSET Table]]
    <2>1. rows' = [q \in DOMAIN rows \cup {p} |->
                      IF q = p THEN [worker |-> w, table_subscriptions |-> parcels[p]] ELSE rows[q]]
      BY <1>1 DEF Put
    <2> QED BY <1>0, <1>p, <2>1 DEF RowShape
  <1>4. /\ DOMAIN parcels' = DOMAIN parcels \ {p}
        /\ \A q \in DOMAIN parcels' : parcels'[q] = parcels[q]
        /\ parcels' \in [DOMAIN parcels' -> SUBSET Table]
    BY <1>0, <1>1 DEF Popped, Restrict, RowShape
  <1>n. Alive' = Alive /\ p \in DOMAIN slept /\ slept[p] = parcels[p] /\ p \notin DOMAIN rows
        /\ p \in minted
    BY <1>0, <1>1, <1>3, <1>4 DEF RowShape, Alive, Rest, Sleeping
  <1>5. IndexInv' /\ DepositShape' /\ RequestShape' /\ Indexed' /\ Mail' /\ Owing'
    BY <1>1, <1>2, <1>n, ServeStep
  <1>6. RowShape'
    BY <1>0, <1>1, <1>3, <1>4, <1>n DEF RowShape, Alive
  <1>7. /\ r \notin DOMAIN request /\ DOMAIN request' = DOMAIN request \cup {r}
        /\ \A s \in DOMAIN request : request'[s] = request[s]
        /\ request'[r].pc = "running" /\ request'[r].page = p
        /\ request'[r].events = events
        /\ request'[r].reply = <<>>
    <2>1. RequestShape /\ Serve(r, NewRequest(w, p, events))
      BY <1>0, <1>1
    <2> QED BY <1>2, <2>1, Served
  <1>8. Controlled'
    <2>1. Control(r)'
      BY <1>1, <1>4, <1>7, <1>n DEF Control
    <2>3. Announced(r)'
      BY <1>1, <1>7, <1>e, <1>n DEF Announced
    <2>2. ASSUME NEW s \in DOMAIN request
          PROVE  Control(s)' /\ Announced(s)'
      <3>1. request[s].page \notin DOMAIN parcels'
        BY <1>0, <1>4 DEF Controlled, Control
      <3> QED BY <1>0, <1>1, <1>n, <1>7, <3>1, StaysControlled DEF Controlled
    <2> QED BY <1>7, <2>1, <2>2, <2>3 DEF Controlled
  <1>9. Rest'
    <2>0. Sleeping /\ WakeRestoresIndex
      BY <1>0 DEF Rest
    <2>1. \A q : tables_for(q)' = tables_for(q)
      BY <1>1, IndexUntouched
    <2>2. \A s \in DOMAIN request : request[s].page # p
      BY <1>0, <1>1 DEF Controlled, Control
    <2>b. \A s \in DOMAIN request : Birth(s)' <=> Birth(s)
      BY <1>7 DEF Birth
    <2>t. tables_for(p) = {}
      BY <1>1, <1>n, <2>0 DEF WakeRestoresIndex
    <2>3. Sleeping'
      <3>1. /\ DOMAIN slept' \subseteq minted'
            /\ \A q \in DOMAIN parcels' : q \in DOMAIN slept' /\ slept'[q] = parcels'[q]
            /\ \A s \in DOMAIN request' :
                  request'[s].pc = "subscribing" => request'[s].page \notin DOMAIN slept'
        BY <1>1, <1>4, <1>7, <2>0 DEF Sleeping
      <3>2. ASSUME NEW s \in DOMAIN request', Birth(s)', request'[s].page \in DOMAIN slept'
            PROVE  /\ request'[s].events[1].tables = slept'[request'[s].page]
                   /\ tables_for(request[s].page)' = {}
        <4>1. CASE s \in DOMAIN request
          <5>2. /\ request[s].events[1].tables = slept[request[s].page]
                /\ tables_for(request[s].page) = {}
            BY <1>1, <1>7, <2>0, <2>b, <3>2, <4>1 DEF Sleeping
          <5>3. tables_for(request[s].page)' = tables_for(request[s].page)
            BY <1>1, <1>7, <4>1 DEF tables_for, GetSet, indexVars
          <5> QED BY <1>1, <1>7, <4>1, <5>2, <5>3
        <4>2. CASE s = r
          <5>1. tables_for(request[s].page)' = tables_for(p)
            BY <1>1, <1>7, <4>2 DEF tables_for, GetSet, indexVars
          <5> QED BY <1>1, <1>7, <1>e, <1>n, <2>t, <4>2, <5>1
        <4> QED BY <1>7, <4>1, <4>2
      <3>3. ASSUME NEW q \in DOMAIN request', NEW s \in DOMAIN request', Birth(q)', Birth(s)',
                   request'[q].page = request'[s].page
            PROVE  q = s
        BY <1>7, <2>0, <2>2, <2>b, <3>3 DEF Sleeping
      <3> QED BY <3>1, <3>2, <3>3 DEF Sleeping
    <2>4. WakeRestoresIndex'
      <3> SUFFICES ASSUME NEW q \in DOMAIN slept'
                   PROVE  /\ q \in DOMAIN parcels' \ leaving' => tables_for(q)' = {}
                          /\ q \in DOMAIN rows' => rows'[q].table_subscriptions = slept'[q]
                          /\ q \in DOMAIN rows'
                                /\ (\A s \in DOMAIN request' : q \notin Named(request'[s].events))
                             => tables_for(q)' = slept'[q]
        BY DEF WakeRestoresIndex
      <3>1. q \in DOMAIN slept /\ slept'[q] = slept[q] /\ tables_for(q)' = tables_for(q)
        BY <1>1, <2>1
      <3>2. CASE q = p
        <4>1. p \in Named(events)
          BY <1>e, NamedIn
        <4>2. r \in DOMAIN request' /\ p \in Named(request'[r].events)
          BY <1>7, <4>1
        <4> QED BY <1>1, <1>3, <1>4, <1>n, <3>1, <3>2, <4>2
      <3>3. CASE q # p
        <4>1. /\ q \in DOMAIN rows' => q \in DOMAIN rows /\ rows'[q] = rows[q]
              /\ q \in DOMAIN parcels' => q \in DOMAIN parcels
          BY <1>3, <1>4, <3>3
        <4>2. (\A s \in DOMAIN request' : q \notin Named(request'[s].events)) =>
                 \A s \in DOMAIN request : q \notin Named(request[s].events)
          BY <1>7
        <4> QED BY <1>1, <2>0, <3>1, <4>1, <4>2 DEF WakeRestoresIndex
      <3> QED BY <3>2, <3>3
    <2> QED BY <2>3, <2>4 DEF Rest
  <1> QED BY <1>5, <1>6, <1>8, <1>9 DEF RoadInv, Shape
-----------------------------------------------------------------------------
(* The steps that move no deposit and leave the desk alone. *)

LEMMA StillStep ==
    ASSUME RoadInv, DOMAIN request' = DOMAIN request, \A s \in DOMAIN request : Same(s),
           UNCHANGED <<indexVars, page_dbevent_map, committed, delivered, owed, minted>>,
           Alive' \subseteq Alive
    PROVE  IndexInv' /\ DepositShape' /\ Indexed' /\ Mail' /\ Owing'
  <1>0. /\ IndexInv /\ RowShape /\ DepositShape /\ RequestShape
        /\ Indexed /\ Controlled /\ Mail /\ Owing /\ Rest
        /\ committed \in Nat /\ committed \in 0..MaxDeposits
    BY Parts
  <1>1. /\ IndexInv' /\ \A t : pages_for(t)' = pages_for(t)
    BY <1>0, IndexUntouched
  <1>2. DepositShape'
    BY <1>0 DEF DepositShape
  <1>3. Indexed'
    BY <1>0, <1>1 DEF Indexed
  <1>4. Mail'
    <2>1. \A s \in DOMAIN request' : Keeps(s) \/ Empty(s)
      BY DEF Keeps, Same
    <2> QED BY <1>0, <2>1, NothingMoves
  <1>5. Owing'
    <2>1. /\ InSlots' = InSlots /\ Slots' = Slots /\ \A q : InReplies(q)' = InReplies(q)
      <3>1. \A s \in DOMAIN request : Holds(s)
        BY DEF Holds, Same
      <3> QED BY <3>1, SameHolds
    <2>2. \A d \in Slots : owed'[d.id] \subseteq pages_for(d.table)'
      BY <1>0, <1>1 DEF Owing
    <2>3. \A q \in Alive' : q \notin minted \/ (q \in Alive /\ Waits(q)' = Waits(q))
      BY DEF Waits
    <2> QED BY <1>0, <2>1, <2>2, <2>3, OwingKept
  <1> QED BY <1>1, <1>2, <1>3, <1>4, <1>5

\* A collect that begins its exchange, and an exchange that is refused.
LEMMA CollectStep ==
    ASSUME RoadInv, NEW r, collect_page(r) \/ ExchangeRefused(r)
    PROVE  RoadInv'
  <1>0. /\ RowShape /\ RequestShape /\ Controlled /\ Rest
    BY Parts
  <1>1. PICK pc \in {"exchanging", "failed"} : Becomes(r, [request[r] EXCEPT !.pc = pc])
    BY DEF collect_page, ExchangeRefused
  <1>2. /\ r \in DOMAIN request /\ request[r].pc \in {"running", "exchanging"}
        /\ UNCHANGED <<indexVars, page_dbevent_map, committed, delivered, owed>>
        /\ UNCHANGED <<rows, minted, parcels, leaving, slept>>
    BY DEF collect_page, ExchangeRefused, At, deskVars, queueVars, untouched, freezerVars
  <1>3. /\ RequestShape' /\ DOMAIN request' = DOMAIN request
        /\ \A s \in DOMAIN request : s # r => request'[s] = request[s]
        /\ Same(r) /\ request'[r].events = request[r].events
        /\ request'[r].pc = pc
    <2>1. pc \in Phase
      BY DEF Phase
    <2> QED BY <1>0, <1>1, <1>2, <2>1, MovesOn
  <1>4. \A s \in DOMAIN request : Same(s)
    BY <1>3 DEF Same
  <1>5. Alive' = Alive
    BY <1>2 DEF Alive
  <1>6. IndexInv' /\ DepositShape' /\ Indexed' /\ Mail' /\ Owing'
    BY <1>2, <1>3, <1>4, <1>5, StillStep
  <1>7. RowShape'
    BY <1>0, <1>2, <1>5 DEF RowShape
  <1>8. Controlled'
    <2>1. Control(r)'
      BY <1>0, <1>2, <1>3 DEF Controlled, Control, Same
    <2>2. Announced(r)'
      BY <1>0, <1>2, <1>3, <1>5 DEF Controlled, Announced, Same
    <2>3. ASSUME NEW s \in DOMAIN request, s # r
          PROVE  Control(s)' /\ Announced(s)'
      <3>1. request[s].page \notin DOMAIN parcels'
        BY <1>0, <1>2 DEF Controlled, Control
      <3> QED BY <1>0, <1>2, <1>3, <1>5, <2>3, <3>1, StaysControlled DEF Controlled
    <2> QED BY <1>3, <2>1, <2>2, <2>3 DEF Controlled
  <1>9. Rest'
    <2>1. \A q : tables_for(q)' = tables_for(q)
      BY <1>2, IndexUntouched
    <2> QED BY <1>0, <1>2, <1>3, <1>4, <2>1, RestKept DEF Same
  <1> QED BY <1>3, <1>6, <1>7, <1>8, <1>9 DEF RoadInv, Shape

\* The row written, the CALL not placed yet.
LEMMA SubscribeRowStep ==
    ASSUME RoadInv, NEW r, NEW t \in Table, NEW opening \in BOOLEAN, subscribeTable(r, t, opening)
    PROVE  RoadInv'
  <1>0. /\ RowShape /\ RequestShape /\ Controlled /\ Rest
    BY Parts
  <1> DEFINE p == request[r].page
  <1>1. /\ r \in DOMAIN request /\ request[r].pc = "running" /\ p \in DOMAIN rows
        /\ rows' = [rows EXCEPT ![p] = [rows[p] EXCEPT !.table_subscriptions =
                       IF opening THEN rows[p].table_subscriptions \cup {t}
                       ELSE rows[p].table_subscriptions \ {t}]]
        /\ Becomes(r, [request[r] EXCEPT !.pc = "subscribing", !.call = <<t, opening>>])
        /\ slept' = Popped(slept, {p})
        /\ UNCHANGED <<indexVars, page_dbevent_map, committed, delivered, owed>>
        /\ UNCHANGED <<minted, parcels, leaving>>
    BY DEF subscribeTable, At, deskVars, queueVars
  <1>2. <<t, opening>> \in Seq(Table \cup BOOLEAN) /\ "subscribing" \in Phase
        /\ <<t, opening>>[1] \in Table /\ <<t, opening>>[2] \in BOOLEAN
    BY DEF Phase
  <1>3. /\ RequestShape' /\ DOMAIN request' = DOMAIN request
        /\ \A s \in DOMAIN request : s # r => request'[s] = request[s]
        /\ Same(r) /\ request'[r].events = request[r].events
        /\ request'[r].pc = "subscribing" /\ request'[r].call = <<t, opening>>
    BY <1>0, <1>1, <1>2, StepsOn
  <1> HIDE DEF p
  <1>4. \A s \in DOMAIN request : Same(s)
    BY <1>3 DEF Same
  <1>r. /\ DOMAIN rows' = DOMAIN rows
        /\ \A q \in DOMAIN rows : q # p => rows'[q] = rows[q]
        /\ rows' \in [DOMAIN rows' -> [worker : Worker, table_subscriptions : SUBSET Table]]
    BY <1>0, <1>1 DEF RowShape
  <1>s. /\ DOMAIN slept' = DOMAIN slept \ {p}
        /\ \A q \in DOMAIN slept' : slept'[q] = slept[q]
    BY <1>1 DEF Popped, Restrict
  <1>5. Alive' = Alive /\ p \notin DOMAIN parcels
    BY <1>0, <1>1, <1>r DEF Alive, RowShape
  <1>6. IndexInv' /\ DepositShape' /\ Indexed' /\ Mail' /\ Owing'
    BY <1>1, <1>3, <1>4, <1>5, StillStep
  <1>7. RowShape'
    BY <1>0, <1>1, <1>5, <1>r DEF RowShape
  <1>8. Controlled'
    <2>1. Control(r)'
      BY <1>0, <1>1, <1>2, <1>3 DEF Controlled, Control, Same
    <2>2. Announced(r)'
      BY <1>0, <1>1, <1>3, <1>5 DEF Controlled, Announced, Same
    <2>3. ASSUME NEW s \in DOMAIN request, s # r
          PROVE  Control(s)' /\ Announced(s)'
      <3>1. request[s].page \notin DOMAIN parcels'
        BY <1>0, <1>1 DEF Controlled, Control
      <3> QED BY <1>0, <1>1, <1>3, <1>5, <2>3, <3>1, StaysControlled DEF Controlled
    <2> QED BY <1>3, <2>1, <2>2, <2>3 DEF Controlled
  <1>9. Rest'
    <2>0. Sleeping /\ WakeRestoresIndex
      BY <1>0 DEF Rest
    <2>1. \A q : tables_for(q)' = tables_for(q)
      BY <1>1, IndexUntouched
    <2>e. \A s \in DOMAIN request : /\ request'[s].page = request[s].page
                                    /\ request'[s].events = request[s].events
                                    /\ Birth(s)' <=> Birth(s)
      BY <1>3, <1>4 DEF Same, Birth
    <2>3. Sleeping'
      <3>1. /\ DOMAIN slept' \subseteq minted'
            /\ \A q \in DOMAIN parcels' : q \in DOMAIN slept' /\ slept'[q] = parcels'[q]
        BY <1>1, <1>5, <1>s, <2>0 DEF Sleeping
      <3>4. \A s \in DOMAIN request' :
               request'[s].pc = "subscribing" => request'[s].page \notin DOMAIN slept'
        BY <1>3, <1>s, <2>0, <2>e DEF Sleeping, p
      <3>2. ASSUME NEW s \in DOMAIN request', Birth(s)', request'[s].page \in DOMAIN slept'
            PROVE  /\ request'[s].events[1].tables = slept'[request'[s].page]
                   /\ tables_for(request[s].page)' = {}
        <4>2. /\ request[s].events[1].tables = slept[request[s].page]
              /\ tables_for(request[s].page) = {}
          BY <1>3, <1>s, <2>0, <2>e, <3>2 DEF Sleeping
        <4>3. tables_for(request[s].page)' = tables_for(request[s].page)
          BY <1>1, <1>3, <2>e DEF tables_for, GetSet, indexVars
        <4> QED BY <1>3, <1>s, <2>e, <3>2, <4>2, <4>3
      <3>3. ASSUME NEW q \in DOMAIN request', NEW s \in DOMAIN request', Birth(q)', Birth(s)',
                   request'[q].page = request'[s].page
            PROVE  q = s
        BY <1>3, <2>0, <2>e, <3>3 DEF Sleeping
      <3> QED BY <3>1, <3>2, <3>3, <3>4 DEF Sleeping
    <2>4. WakeRestoresIndex'
      <3> SUFFICES ASSUME NEW q \in DOMAIN slept'
                   PROVE  /\ q \in DOMAIN parcels' \ leaving' => tables_for(q)' = {}
                          /\ q \in DOMAIN rows' => rows'[q].table_subscriptions = slept'[q]
                          /\ q \in DOMAIN rows'
                                /\ (\A s \in DOMAIN request' : q \notin Named(request'[s].events))
                             => tables_for(q)' = slept'[q]
        BY DEF WakeRestoresIndex
      <3>1. q \in DOMAIN slept /\ q # p /\ slept'[q] = slept[q] /\ tables_for(q)' = tables_for(q)
        BY <1>s, <2>1
      <3>2. q \in DOMAIN rows' => q \in DOMAIN rows /\ rows'[q] = rows[q]
        BY <1>r, <3>1
      <3>3. (\A s \in DOMAIN request' : q \notin Named(request'[s].events)) =>
               \A s \in DOMAIN request : q \notin Named(request[s].events)
        BY <1>3, <2>e
      <3> QED BY <1>1, <2>0, <3>1, <3>2, <3>3 DEF WakeRestoresIndex
    <2> QED BY <2>3, <2>4 DEF Rest
  <1> QED BY <1>3, <1>6, <1>7, <1>8, <1>9 DEF RoadInv, Shape

\* A page dropped by its worker: the row goes, the event is still to be told.
LEMMA WorkerDropStep ==
    ASSUME RoadInv, NEW r, NEW p \in Page, worker_drop_page(r, p)
    PROVE  RoadInv'
  <1>0. /\ RowShape /\ RequestShape /\ Controlled /\ Rest
    BY Parts
  <1> DEFINE drop == [name |-> "drop_page", page |-> p, tables |-> {}]
             was == request[r].events
             events == Append(was, drop)
  <1>1. /\ r \in DOMAIN request /\ request[r].pc = "running" /\ p \in DOMAIN rows
        /\ rows' = Popped(rows, {p})
        /\ Becomes(r, [request[r] EXCEPT !.events = events])
        /\ slept' = Popped(slept, {p})
        /\ UNCHANGED <<indexVars, page_dbevent_map, committed, delivered, owed>>
        /\ UNCHANGED <<minted, parcels, leaving>>
    BY DEF worker_drop_page, At, deskVars, queueVars
  <1>2. drop \in Announcement /\ was \in Seq(Announcement)
        /\ drop.name = "drop_page" /\ drop.page = p
    BY <1>0, <1>1, RequestFields DEF Announcement
  <1> HIDE DEF drop, was
  <1>e. /\ events \in Seq(Announcement)
        /\ DOMAIN events = DOMAIN was \cup {Len(was) + 1} /\ Len(was) \in Nat
        /\ \A k \in DOMAIN was : events[k] = was[k]
        /\ events[Len(was) + 1] = drop
        /\ DOMAIN was = 1..Len(was)
    BY <1>2
  <1> HIDE DEF events
  <1>3. /\ RequestShape' /\ DOMAIN request' = DOMAIN request
        /\ \A s \in DOMAIN request : s # r => request'[s] = request[s]
        /\ Same(r) /\ request'[r].events = events
        /\ request'[r].pc = "running"
    BY <1>0, <1>1, <1>e, Announces
  <1>4. \A s \in DOMAIN request : Same(s)
    BY <1>3 DEF Same
  <1>r. /\ DOMAIN rows' = DOMAIN rows \ {p}
        /\ \A q \in DOMAIN rows' : rows'[q] = rows[q]
        /\ rows' \in [DOMAIN rows' -> [worker : Worker, table_subscriptions : SUBSET Table]]
    BY <1>0, <1>1 DEF RowShape, Popped, Restrict
  <1>s. /\ DOMAIN slept' = DOMAIN slept \ {p}
        /\ \A q \in DOMAIN slept' : slept'[q] = slept[q]
    BY <1>1 DEF Popped, Restrict
  <1>5. Alive' = Alive \ {p} /\ p \notin DOMAIN parcels /\ p \in minted
    BY <1>0, <1>1, <1>r DEF Alive, RowShape
  <1>6. IndexInv' /\ DepositShape' /\ Indexed' /\ Mail' /\ Owing'
    BY <1>1, <1>3, <1>4, <1>5, StillStep
  <1>7. RowShape'
    BY <1>0, <1>1, <1>5, <1>r DEF RowShape
  <1>8. Controlled'
    <2>1. Control(r)'
      BY <1>0, <1>1, <1>3 DEF Controlled, Control, Same
    <2>2. Announced(r)'
      <3> SUFFICES ASSUME NEW i \in DOMAIN events
                   PROVE  /\ events[i].page \in minted'
                          /\ events[i].name = "new_page" => i = 1 /\ events[i].page = request'[r].page
                          /\ events[i].name = "drop_page" => events[i].page \notin Alive'
        BY <1>3 DEF Announced
      <3>1. CASE i \in DOMAIN was
        <4>1. /\ was[i].page \in minted
              /\ was[i].name = "new_page" => i = 1 /\ was[i].page = request[r].page
              /\ was[i].name = "drop_page" => was[i].page \notin Alive
          BY <1>0, <1>1, <3>1 DEF Controlled, Announced, was
        <4> QED BY <1>1, <1>3, <1>5, <1>e, <3>1, <4>1 DEF Same
      <3>2. CASE i = Len(was) + 1
        BY <1>1, <1>2, <1>5, <1>e, <3>2
      <3> QED BY <1>e, <3>1, <3>2
    <2>3. ASSUME NEW s \in DOMAIN request, s # r
          PROVE  Control(s)' /\ Announced(s)'
      <3>1. request[s].page \notin DOMAIN parcels'
        BY <1>0, <1>1 DEF Controlled, Control
      <3> QED BY <1>0, <1>1, <1>3, <1>5, <2>3, <3>1, StaysControlled DEF Controlled
    <2> QED BY <1>3, <2>1, <2>2, <2>3 DEF Controlled
  <1>9. Rest'
    <2>0. Sleeping /\ WakeRestoresIndex
      BY <1>0 DEF Rest
    <2>1. \A q : tables_for(q)' = tables_for(q)
      BY <1>1, IndexUntouched
    <2>e. \A s \in DOMAIN request : /\ request'[s].page = request[s].page
                                    /\ Birth(s)' => Birth(s) /\ request'[s].events[1] = request[s].events[1]
      <3>1. Birth(r)' => Birth(r) /\ request'[r].events[1] = request[r].events[1]
        <4> SUFFICES ASSUME events[1].name = "new_page"
                     PROVE  was # <<>> /\ was[1].name = "new_page" /\ events[1] = was[1]
          BY <1>3 DEF Birth, was
        <4>1. events[1] # drop
          BY <1>2
        <4>2. Len(was) # 0
          BY <1>e, <4>1
        <4> QED BY <1>2, <1>e, <4>2
      <3> QED BY <1>3, <1>4, <3>1 DEF Same, Birth
    <2>3. Sleeping'
      <3>1. /\ DOMAIN slept' \subseteq minted'
            /\ \A q \in DOMAIN parcels' : q \in DOMAIN slept' /\ slept'[q] = parcels'[q]
        BY <1>1, <1>5, <1>s, <2>0 DEF Sleeping
      <3>4. \A s \in DOMAIN request' :
               request'[s].pc = "subscribing" => request'[s].page \notin DOMAIN slept'
        BY <1>3, <1>s, <2>0, <2>e DEF Sleeping
      <3>2. ASSUME NEW s \in DOMAIN request', Birth(s)', request'[s].page \in DOMAIN slept'
            PROVE  /\ request'[s].events[1].tables = slept'[request'[s].page]
                   /\ tables_for(request[s].page)' = {}
        <4>2. /\ request[s].events[1].tables = slept[request[s].page]
              /\ tables_for(request[s].page) = {}
          BY <1>3, <1>s, <2>0, <2>e, <3>2 DEF Sleeping
        <4>3. tables_for(request[s].page)' = tables_for(request[s].page)
          BY <1>1, <1>3, <2>e DEF tables_for, GetSet, indexVars
        <4> QED BY <1>3, <1>s, <2>e, <3>2, <4>2, <4>3
      <3>3. ASSUME NEW q \in DOMAIN request', NEW s \in DOMAIN request', Birth(q)', Birth(s)',
                   request'[q].page = request'[s].page
            PROVE  q = s
        BY <1>3, <2>0, <2>e, <3>3 DEF Sleeping
      <3> QED BY <3>1, <3>2, <3>3, <3>4 DEF Sleeping
    <2>4. WakeRestoresIndex'
      <3> SUFFICES ASSUME NEW q \in DOMAIN slept'
                   PROVE  /\ q \in DOMAIN parcels' \ leaving' => tables_for(q)' = {}
                          /\ q \in DOMAIN rows' => rows'[q].table_subscriptions = slept'[q]
                          /\ q \in DOMAIN rows'
                                /\ (\A s \in DOMAIN request' : q \notin Named(request'[s].events))
                             => tables_for(q)' = slept'[q]
        BY DEF WakeRestoresIndex
      <3>1. q \in DOMAIN slept /\ slept'[q] = slept[q] /\ tables_for(q)' = tables_for(q)
        BY <1>s, <2>1
      <3>2. q \in DOMAIN rows' => q \in DOMAIN rows /\ rows'[q] = rows[q]
        BY <1>r
      <3>3. ASSUME \A s \in DOMAIN request' : q \notin Named(request'[s].events)
            PROVE  \A s \in DOMAIN request : q \notin Named(request[s].events)
        <4>1. q \notin Named(was)
          <5>1. q \notin Named(events)
            BY <1>1, <1>3, <3>3
          <5> QED BY <1>e, <5>1, NamedIn
        <4> QED BY <1>3, <3>3, <4>1 DEF was
      <3> QED BY <1>1, <2>0, <3>1, <3>2, <3>3 DEF WakeRestoresIndex
    <2> QED BY <2>3, <2>4 DEF Rest
  <1> QED BY <1>3, <1>6, <1>7, <1>8, <1>9 DEF RoadInv, Shape
-----------------------------------------------------------------------------
(* The freezer, the end of a request, the pushes. *)

\* The desk's drop of a page takes it out of both directions of the index.
LEMMA DropIndex ==
    ASSUME IndexInv, NEW p \in Page, drop_page(p)
    PROVE  /\ IndexInv'
           /\ \A t \in Table : pages_for(t)' = pages_for(t) \ {p}
           /\ tables_for(p)' = {}
           /\ \A q : q # p => tables_for(q)' = tables_for(q)
           /\ page_dbevent_map' = Popped(page_dbevent_map, {p})
  <1>0. {p} \in SUBSET Page
    OBVIOUS
  <1>1. forget({p}, TablesOf({p})) /\ page_dbevent_map' = Popped(page_dbevent_map, {p})
    BY DEF drop_page, desk_drop_pages, forget_pages, index_drop_pages
  <1>2. TablesOf({p}) \in SUBSET Table /\ TablesOf({p}) = tables_for(p)
    <2>1. TablesOf({p}) \in SUBSET Table
      BY <1>0, TablesOfType
    <2> QED BY <2>1 DEF TablesOf
  <1>3. IndexInv'
    BY <1>0, <1>1, <1>2, ForgetKeepsIndex
  <1>4. ASSUME NEW t \in Table
        PROVE  pages_for(t)' = pages_for(t) \ {p}
    <2>1. pages_for(t)' = IF t \in TablesOf({p}) THEN pages_for(t) \ {p} ELSE pages_for(t)
      <3>1. PICK tables \in SUBSET Table : tables = TablesOf({p}) /\ forget({p}, tables)
        BY <1>1, <1>2
      <3>2. pages_for(t)' = IF t \in tables THEN pages_for(t) \ {p} ELSE pages_for(t)
        BY <1>0, <3>1, PagesForForgotten
      <3> QED BY <3>1, <3>2
    <2>2. p \in pages_for(t) <=> t \in tables_for(p)
      BY DEF IndexInv, MapsAgree
    <2> QED BY <1>2, <2>1, <2>2
  <1>5. ASSUME NEW q
        PROVE  tables_for(q)' = IF q = p THEN {} ELSE tables_for(q)
    <2>1. tables_for(q)' = GetSet(page_tables', q)
      BY DEF tables_for, GetSet
    <2>2. GetSet(Unlinked(page_tables, {p}, TablesOf({p})), q) =
            IF q \in {p} THEN GetSet(page_tables, q) \ TablesOf({p}) ELSE GetSet(page_tables, q)
      BY UnlinkedGet
    <2>3. page_tables' = Unlinked(page_tables, {p}, TablesOf({p}))
      BY <1>1 DEF forget
    <2>4. GetSet(page_tables, q) = tables_for(q)
      BY DEF tables_for
    <2> QED BY <1>2, <2>1, <2>2, <2>3, <2>4
  <1> QED BY <1>1, <1>3, <1>4, <1>5

LEMMA FreezeStep ==
    ASSUME RoadInv, NEW p \in Page, freeze_page(p)
    PROVE  RoadInv'
  <1>0. /\ RowShape /\ RequestShape /\ Controlled /\ Rest
    BY Parts
  <1> DEFINE tables == rows[p].table_subscriptions
  <1>1. /\ p \in DOMAIN rows /\ \A r \in DOMAIN request : request[r].page # p
        /\ rows' = Popped(rows, {p})
        /\ parcels' = Put(parcels, p, tables)
        /\ slept' = Put(slept, p, tables)
        /\ leaving' = leaving \cup {p}
        /\ UNCHANGED <<indexVars, page_dbevent_map, committed, delivered, owed>>
        /\ UNCHANGED <<minted, request>>
    BY DEF freeze_page, deskVars, queueVars
  <1>2. tables \in SUBSET Table
    BY <1>0, <1>1 DEF RowShape
  <1> HIDE DEF tables
  <1>r. /\ DOMAIN rows' = DOMAIN rows \ {p}
        /\ \A q \in DOMAIN rows' : rows'[q] = rows[q]
        /\ rows' \in [DOMAIN rows' -> [worker : Worker, table_subscriptions : SUBSET Table]]
    BY <1>0, <1>1 DEF RowShape, Popped, Restrict
  <1>p. /\ DOMAIN parcels' = DOMAIN parcels \cup {p}
        /\ \A q \in DOMAIN parcels : q # p => parcels'[q] = parcels[q]
        /\ parcels'[p] = tables
        /\ parcels' \in [DOMAIN parcels' -> SUBSET Table]
    <2>1. parcels' = [q \in DOMAIN parcels \cup {p} |-> IF q = p THEN tables ELSE parcels[q]]
      BY <1>1 DEF Put
    <2> QED BY <1>0, <1>2, <2>1 DEF RowShape
  <1>s. /\ DOMAIN slept' = DOMAIN slept \cup {p}
        /\ \A q \in DOMAIN slept : q # p => slept'[q] = slept[q]
        /\ slept'[p] = tables
    BY <1>1 DEF Put
  <1>3. Alive' = Alive /\ p \notin DOMAIN parcels /\ p \in minted
    BY <1>0, <1>1, <1>r, <1>p DEF Alive, RowShape
  <1>4. \A s \in DOMAIN request : Same(s)
    BY <1>1 DEF Same
  <1>5. IndexInv' /\ DepositShape' /\ Indexed' /\ Mail' /\ Owing'
    BY <1>1, <1>3, <1>4, StillStep
  <1>6. RowShape'
    BY <1>0, <1>1, <1>3, <1>r, <1>p DEF RowShape
  <1>7. RequestShape'
    BY <1>0, <1>1 DEF RequestShape
  <1>8. Controlled'
    <2> SUFFICES ASSUME NEW s \in DOMAIN request
                 PROVE  Control(s)' /\ Announced(s)'
      BY <1>1 DEF Controlled
    <2>1. request[s].page \notin DOMAIN parcels'
      BY <1>0, <1>1, <1>p DEF Controlled, Control
    <2> QED BY <1>0, <1>1, <1>3, <2>1, StaysControlled DEF Controlled
  <1>9. Rest'
    <2>0. Sleeping /\ WakeRestoresIndex
      BY <1>0 DEF Rest
    <2>1. \A q : tables_for(q)' = tables_for(q)
      BY <1>1, IndexUntouched
    <2>b. \A s \in DOMAIN request : Birth(s)' <=> Birth(s)
      BY <1>1 DEF Birth
    <2>3. Sleeping'
      <3>1. /\ DOMAIN slept' \subseteq minted'
            /\ \A q \in DOMAIN parcels' : q \in DOMAIN slept' /\ slept'[q] = parcels'[q]
        BY <1>1, <1>3, <1>p, <1>s, <2>0 DEF Sleeping
      <3>4. \A s \in DOMAIN request' :
               request'[s].pc = "subscribing" => request'[s].page \notin DOMAIN slept'
        BY <1>1, <1>s, <2>0 DEF Sleeping
      <3>2. ASSUME NEW s \in DOMAIN request', Birth(s)', request'[s].page \in DOMAIN slept'
            PROVE  /\ request'[s].events[1].tables = slept'[request'[s].page]
                   /\ tables_for(request[s].page)' = {}
        <4>1. s \in DOMAIN request /\ request[s].page \in DOMAIN slept /\ request[s].page # p
          BY <1>1, <1>s, <3>2
        <4>2. /\ request[s].events[1].tables = slept[request[s].page]
              /\ tables_for(request[s].page) = {}
          BY <2>0, <2>b, <3>2, <4>1 DEF Sleeping
        <4>3. tables_for(request[s].page)' = tables_for(request[s].page)
          BY <1>1 DEF tables_for, GetSet, indexVars
        <4> QED BY <1>1, <1>s, <4>1, <4>2, <4>3
      <3>3. ASSUME NEW q \in DOMAIN request', NEW s \in DOMAIN request', Birth(q)', Birth(s)',
                   request'[q].page = request'[s].page
            PROVE  q = s
        BY <1>1, <2>0, <2>b, <3>3 DEF Sleeping
      <3> QED BY <3>1, <3>2, <3>3, <3>4 DEF Sleeping
    <2>4. WakeRestoresIndex'
      <3> SUFFICES ASSUME NEW q \in DOMAIN slept'
                   PROVE  /\ q \in DOMAIN parcels' \ leaving' => tables_for(q)' = {}
                          /\ q \in DOMAIN rows' => rows'[q].table_subscriptions = slept'[q]
                          /\ q \in DOMAIN rows'
                                /\ (\A s \in DOMAIN request' : q \notin Named(request'[s].events))
                             => tables_for(q)' = slept'[q]
        BY DEF WakeRestoresIndex
      <3>1. CASE q = p
        BY <1>1, <1>r, <3>1
      <3>2. CASE q # p
        <4>1. q \in DOMAIN slept /\ slept'[q] = slept[q] /\ tables_for(q)' = tables_for(q)
          BY <1>s, <2>1, <3>2
        <4>2. /\ q \in DOMAIN rows' => q \in DOMAIN rows /\ rows'[q] = rows[q]
              /\ q \in DOMAIN parcels' \ leaving' => q \in DOMAIN parcels \ leaving
          BY <1>1, <1>r, <1>p, <3>2
        <4> QED BY <1>1, <2>0, <4>1, <4>2 DEF WakeRestoresIndex
      <3> QED BY <3>1, <3>2
    <2> QED BY <2>3, <2>4 DEF Rest
  <1> QED BY <1>5, <1>6, <1>7, <1>8, <1>9 DEF RoadInv, Shape

\* The vertex forgets the page: queue, claims and subscriptions together.
LEMMA FoldFreezeStep ==
    ASSUME RoadInv, NEW p \in Page, FoldFreeze(p)
    PROVE  RoadInv'
  <1>0. /\ IndexInv /\ RowShape /\ DepositShape /\ RequestShape
        /\ Indexed /\ Controlled /\ Mail /\ Owing /\ Rest
        /\ committed \in Nat /\ committed \in 0..MaxDeposits
        /\ \A d \in Slots : d.id \in 1..MaxDeposits /\ d \in Batch
    BY Parts
  <1>1. /\ p \in leaving /\ drop_page(p) /\ leaving' = leaving \ {p}
        /\ owed' = [i \in DOMAIN owed |-> owed[i] \ {p}]
        /\ UNCHANGED <<rows, minted, request, committed, delivered, parcels, slept>>
    BY DEF FoldFreeze
  <1>2. /\ IndexInv'
        /\ \A t \in Table : pages_for(t)' = pages_for(t) \ {p}
        /\ tables_for(p)' = {}
        /\ \A q : q # p => tables_for(q)' = tables_for(q)
        /\ page_dbevent_map' = Popped(page_dbevent_map, {p})
    BY <1>0, <1>1, DropIndex
  <1>3. p \in DOMAIN parcels /\ p \notin DOMAIN rows /\ Alive' = Alive
    BY <1>0, <1>1 DEF RowShape, Alive
  <1>4. RowShape'
    BY <1>0, <1>1, <1>3 DEF RowShape
  <1>o. DOMAIN owed = 1..MaxDeposits
    BY <1>0 DEF DepositShape
  <1>5. DepositShape'
    <2>1. owed' \in [1..MaxDeposits -> SUBSET Page]
      BY <1>0, <1>1, <1>o DEF DepositShape
    <2>2. /\ page_dbevent_map' \in [DOMAIN page_dbevent_map' -> Seq(Batch)]
          /\ DOMAIN page_dbevent_map' \subseteq Page
      BY <1>0, <1>2 DEF DepositShape, Popped, Restrict
    <2> QED BY <1>0, <1>1, <2>1, <2>2 DEF DepositShape
  <1>6. RequestShape'
    BY <1>0, <1>1 DEF RequestShape
  <1>7. Indexed'
    BY <1>0, <1>1, <1>2 DEF Indexed
  <1>8. Controlled'
    <2> SUFFICES ASSUME NEW s \in DOMAIN request
                 PROVE  Control(s)' /\ Announced(s)'
      BY <1>1 DEF Controlled
    <2>1. request[s].page \notin DOMAIN parcels'
      BY <1>0, <1>1 DEF Controlled, Control
    <2> QED BY <1>0, <1>1, <1>3, <2>1, StaysControlled DEF Controlled
  <1>w. \A q \in Page : \/ q # p /\ Pending(page_dbevent_map', q) = Pending(page_dbevent_map, q)
                        \/ q = p /\ Pending(page_dbevent_map', q) = <<>>
    BY <1>2 DEF Pending, Popped, Restrict
  <1>9. Mail'
    <2>1. \A s \in DOMAIN request' : Keeps(s) \/ Empty(s)
      BY <1>1 DEF Keeps
    <2> QED BY <1>0, <1>1, <1>w, <2>1, NothingMoves
  <1>10. Owing'
    <2>1. /\ InSlots' = InSlots /\ Slots' = Slots /\ \A q : InReplies(q)' = InReplies(q)
      <3>1. \A s \in DOMAIN request : Holds(s)
        BY <1>1 DEF Holds
      <3> QED BY <1>1, <3>1, SameHolds
    <2>2. \A d \in Slots : owed'[d.id] \subseteq pages_for(d.table)'
      <3> TAKE d \in Slots
      <3>1. d.id \in 1..MaxDeposits /\ d.table \in Table
        BY <1>0 DEF Batch
      <3>2. owed'[d.id] = owed[d.id] \ {p} /\ owed[d.id] \subseteq pages_for(d.table)
        BY <1>0, <1>1, <1>o, <3>1 DEF Owing
      <3>3. pages_for(d.table)' = pages_for(d.table) \ {p}
        BY <1>2, <3>1
      <3> QED BY <3>2, <3>3
    <2>3. \A i \in 1..MaxDeposits : owed'[i] \subseteq owed[i] /\ p \notin owed'[i]
      BY <1>1, <1>o
    <2>4. \A q \in Alive' : \/ q \in Alive /\ Waits(q)' = Waits(q)
                            \/ \A i \in 1..MaxDeposits : q \notin owed'[i]
      <3> TAKE q \in Alive'
      <3>1. q \in Page /\ q \in Alive
        BY <1>0, <1>3 DEF RowShape
      <3>2. q # p => Waits(q)' = Waits(q)
        BY <1>w, <3>1 DEF Waits
      <3> QED BY <2>3, <3>1, <3>2
    <2> QED BY <1>0, <1>1, <2>1, <2>2, <2>3, <2>4, OwingKept
  <1>11. Rest'
    <2>0. Sleeping /\ WakeRestoresIndex
      BY <1>0 DEF Rest
    <2>2. \A s \in DOMAIN request : request[s].page # p
      BY <1>0, <1>3 DEF Controlled, Control
    <2>b. \A s \in DOMAIN request : Birth(s)' <=> Birth(s)
      BY <1>1 DEF Birth
    <2>3. Sleeping'
      <3>1. /\ DOMAIN slept' \subseteq minted'
            /\ \A q \in DOMAIN parcels' : q \in DOMAIN slept' /\ slept'[q] = parcels'[q]
            /\ \A s \in DOMAIN request' :
                  request'[s].pc = "subscribing" => request'[s].page \notin DOMAIN slept'
        BY <1>1, <2>0 DEF Sleeping
      <3>2. ASSUME NEW s \in DOMAIN request', Birth(s)', request'[s].page \in DOMAIN slept'
            PROVE  /\ request'[s].events[1].tables = slept'[request'[s].page]
                   /\ tables_for(request[s].page)' = {}
        <4>2. /\ request[s].events[1].tables = slept[request[s].page]
              /\ tables_for(request[s].page) = {}
          BY <1>1, <2>0, <2>b, <3>2 DEF Sleeping
        <4>3. tables_for(request[s].page)' = {}
          <5>1. PICK q : q = request[s].page
            OBVIOUS
          <5>2. tables_for(q)' = tables_for(q) /\ tables_for(q) = {}
            BY <1>1, <1>2, <2>2, <4>2, <5>1
          <5>3. tables_for(request[s].page)' = tables_for(q)'
            BY <1>1, <5>1 DEF tables_for, GetSet
          <5> QED BY <5>2, <5>3
        <4> QED BY <1>1, <4>2, <4>3
      <3>3. ASSUME NEW q \in DOMAIN request', NEW s \in DOMAIN request', Birth(q)', Birth(s)',
                   request'[q].page = request'[s].page
            PROVE  q = s
        BY <1>1, <2>0, <2>b, <3>3 DEF Sleeping
      <3> QED BY <3>1, <3>2, <3>3 DEF Sleeping
    <2>4. WakeRestoresIndex'
      <3> SUFFICES ASSUME NEW q \in DOMAIN slept'
                   PROVE  /\ q \in DOMAIN parcels' \ leaving' => tables_for(q)' = {}
                          /\ q \in DOMAIN rows' => rows'[q].table_subscriptions = slept'[q]
                          /\ q \in DOMAIN rows'
                                /\ (\A s \in DOMAIN request' : q \notin Named(request'[s].events))
                             => tables_for(q)' = slept'[q]
        BY DEF WakeRestoresIndex
      <3>1. CASE q = p
        BY <1>1, <1>2, <1>3, <3>1
      <3>2. CASE q # p
        <4>1. tables_for(q)' = tables_for(q)
          BY <1>2, <3>2
        <4> QED BY <1>1, <2>0, <3>2, <4>1 DEF WakeRestoresIndex
      <3> QED BY <3>1, <3>2
    <2> QED BY <2>3, <2>4 DEF Rest
  <1> QED BY <1>2, <1>4, <1>5, <1>6, <1>7, <1>8, <1>9, <1>10, <1>11 DEF RoadInv, Shape

\* A request ends with nothing in its hands.
LEMMA EndStep ==
    ASSUME RoadInv, NEW r, EndRequest(r)
    PROVE  RoadInv'
  <1>0. /\ IndexInv /\ RowShape /\ DepositShape /\ RequestShape
        /\ Indexed /\ Controlled /\ Mail /\ Owing /\ Rest
        /\ committed \in Nat /\ committed \in 0..MaxDeposits
    BY Parts
  <1>1. /\ r \in DOMAIN request /\ request[r].pc = "replying" /\ request[r].events = <<>>
        /\ request' = Popped(request, {r})
        /\ UNCHANGED <<indexVars, page_dbevent_map, committed, delivered, owed>>
        /\ UNCHANGED <<rows, minted, parcels, leaving, slept>>
    BY DEF EndRequest, At, deskVars, queueVars, untouched, freezerVars
  <1>2. /\ DOMAIN request' = DOMAIN request \ {r}
        /\ \A s \in DOMAIN request' : request'[s] = request[s]
        /\ RequestShape'
    BY <1>0, <1>1 DEF Popped, Restrict, RequestShape
  <1>3. request[r].dbevents = <<>> /\ request[r].reply = <<>>
    BY <1>0, <1>1 DEF Controlled, Control
  <1>4. /\ IndexInv' /\ (\A t : pages_for(t)' = pages_for(t)) /\ \A q : tables_for(q)' = tables_for(q)
    BY <1>0, <1>1, IndexUntouched
  <1>5. Alive' = Alive
    BY <1>1 DEF Alive
  <1>6. RowShape' /\ DepositShape' /\ Indexed'
    BY <1>0, <1>1, <1>4, <1>5 DEF RowShape, DepositShape, Indexed
  <1>7. Mail'
    <2>1. \A s \in DOMAIN request' : Keeps(s) \/ Empty(s)
      BY <1>2 DEF Keeps
    <2>2. /\ committed' \in Nat /\ committed <= committed' /\ UNCHANGED delivered
          /\ \A p \in Page : Pending(page_dbevent_map', p) = Pending(page_dbevent_map, p)
      BY <1>0, <1>1
    <2> QED BY <1>0, <2>1, <2>2, NothingMoves
  <1>8. Owing'
    <2>1. /\ InSlots' = InSlots /\ Slots' = Slots /\ \A q : InReplies(q)' = InReplies(q)
      <3>1. \A s \in DOMAIN request : s # r => Holds(s)
        BY <1>2 DEF Holds
      <3>2. \A s \in DOMAIN request' : Holds(s)
        BY <1>2 DEF Holds
      <3> QED BY <1>3, <3>1, <3>2, SameHolds
    <2>2. \A d \in Slots : owed'[d.id] \subseteq pages_for(d.table)'
      BY <1>0, <1>1, <1>4 DEF Owing
    <2>3. \A q \in Alive' : q \in Alive /\ Waits(q)' = Waits(q)
      BY <1>1, <1>5 DEF Waits
    <2> QED BY <1>0, <1>1, <2>1, <2>2, <2>3, OwingKept
  <1>9. Controlled'
    <2> SUFFICES ASSUME NEW s \in DOMAIN request'
                 PROVE  Control(s)' /\ Announced(s)'
      BY DEF Controlled
    <2>1. s \in DOMAIN request /\ request[s].page \notin DOMAIN parcels'
      BY <1>0, <1>1, <1>2 DEF Controlled, Control
    <2> QED BY <1>0, <1>1, <1>2, <1>5, <2>1, StaysControlled DEF Controlled
  <1>10. Rest'
    BY <1>0, <1>1, <1>2, <1>4, RestKept
  <1> QED BY <1>2, <1>4, <1>6, <1>7, <1>8, <1>9, <1>10 DEF RoadInv, Shape

\* A push of the set of subscribed tables, and a step of nothing here.
LEMMA ElsewhereStep ==
    ASSUME RoadInv,
           UNCHANGED <<indexVars, page_dbevent_map, committed, delivered, owed, request>>,
           UNCHANGED <<rows, minted, parcels, leaving, slept>>
    PROVE  RoadInv'
  <1>0. /\ IndexInv /\ RowShape /\ DepositShape /\ RequestShape
        /\ Indexed /\ Controlled /\ Mail /\ Owing /\ Rest
    BY Parts
  <1>1. /\ UNCHANGED <<indexVars, page_dbevent_map, committed, delivered, owed, minted, request>>
        /\ UNCHANGED <<rows, minted, parcels, leaving, slept>>
    OBVIOUS
  <1>2. Alive' = Alive
    BY <1>1 DEF Alive
  <1>3. \A s \in DOMAIN request : Same(s)
    BY <1>1 DEF Same
  <1>4. IndexInv' /\ DepositShape' /\ Indexed' /\ Mail' /\ Owing'
    BY <1>1, <1>2, <1>3, StillStep
  <1>5. RowShape' /\ RequestShape'
    BY <1>0, <1>1, <1>2 DEF RowShape, RequestShape
  <1>6. Controlled'
    <2> SUFFICES ASSUME NEW s \in DOMAIN request
                 PROVE  Control(s)' /\ Announced(s)'
      BY <1>1 DEF Controlled
    <2>1. request[s].page \notin DOMAIN parcels'
      BY <1>0, <1>1 DEF Controlled, Control
    <2> QED BY <1>0, <1>1, <1>2, <2>1, StaysControlled DEF Controlled
  <1>7. Rest'
    <2>1. \A q : tables_for(q)' = tables_for(q)
      BY <1>1, IndexUntouched
    <2> QED BY <1>0, <1>1, <2>1, RestKept
  <1> QED BY <1>4, <1>5, <1>6, <1>7 DEF RoadInv, Shape
-----------------------------------------------------------------------------
(* The steps on the index of the desk. *)

LEMMA SubscribeIndex ==
    ASSUME IndexInv, NEW p \in Page, NEW tables \in SUBSET Table, subscribe(p, tables)
    PROVE  /\ IndexInv'
           /\ \A t \in Table : pages_for(t)' =
                 IF t \in tables THEN pages_for(t) \cup {p} ELSE pages_for(t)
           /\ tables_for(p)' = tables_for(p) \cup tables
           /\ \A q : q # p => tables_for(q)' = tables_for(q)
  <1>1. IndexInv'
    BY SubscribeKeepsIndex
  <1>2. ASSUME NEW t \in Table
        PROVE  pages_for(t)' = IF t \in tables THEN pages_for(t) \cup {p} ELSE pages_for(t)
    BY PagesForSubscribed
  <1>3. ASSUME NEW q
        PROVE  tables_for(q)' = IF q = p THEN tables_for(q) \cup tables ELSE tables_for(q)
    <2> DEFINE keys == {k \in {p} : tables # {}}
    <2>1. tables_for(q)' = GetSet(page_tables', q)
      BY DEF tables_for, GetSet
    <2>2. GetSet(Linked(page_tables, keys, tables), q) =
            IF q \in keys THEN GetSet(page_tables, q) \cup tables ELSE GetSet(page_tables, q)
      <3> HIDE DEF keys
      <3> QED BY LinkedGet
    <2>3. page_tables' = Linked(page_tables, keys, tables)
      BY DEF subscribe
    <2>4. GetSet(page_tables, q) = tables_for(q)
      BY DEF tables_for
    <2> QED BY <2>1, <2>2, <2>3, <2>4
  <1> QED BY <1>1, <1>2, <1>3

LEMMA UnsubscribeIndex ==
    ASSUME IndexInv, NEW p \in Page, NEW t \in Table, unsubscribe(p, t)
    PROVE  /\ IndexInv'
           /\ \A u \in Table : pages_for(u)' = IF u = t THEN pages_for(u) \ {p} ELSE pages_for(u)
           /\ \A q : q # p => tables_for(q)' = tables_for(q)
  <1>0. PICK pages \in SUBSET Page, tables \in SUBSET Table :
           pages = {p} /\ tables = {t} /\ forget(pages, tables)
    BY DEF unsubscribe
  <1>1. IndexInv'
    BY <1>0, ForgetKeepsIndex
  <1>2. ASSUME NEW u \in Table
        PROVE  pages_for(u)' = IF u = t THEN pages_for(u) \ {p} ELSE pages_for(u)
    <2>1. pages_for(u)' = IF u \in tables THEN pages_for(u) \ pages ELSE pages_for(u)
      BY <1>0, PagesForForgotten
    <2> QED BY <1>0, <2>1
  <1>3. ASSUME NEW q, q # p
        PROVE  tables_for(q)' = tables_for(q)
    <2>1. tables_for(q)' = GetSet(page_tables', q) /\ GetSet(page_tables, q) = tables_for(q)
      BY DEF tables_for, GetSet
    <2>2. GetSet(Unlinked(page_tables, pages, tables), q) =
            IF q \in pages THEN GetSet(page_tables, q) \ tables ELSE GetSet(page_tables, q)
      BY UnlinkedGet
    <2>3. page_tables' = Unlinked(page_tables, pages, tables)
      BY <1>0 DEF forget
    <2> QED BY <1>0, <1>3, <2>1, <2>2, <2>3
  <1> QED BY <1>1, <1>2, <1>3

\* The claims p gives up when it leaves some tables.
LEMMA GivenUp ==
    ASSUME DepositShape, NEW p, NEW tables
    PROVE  /\ Unowed(p, tables) \in [1..MaxDeposits -> SUBSET Page]
           /\ \A i \in 1..MaxDeposits : Unowed(p, tables)[i] \subseteq owed[i]
           /\ \A d \in Slots : d.id \in 1..MaxDeposits /\ d.table \in tables =>
                 Unowed(p, tables)[d.id] = owed[d.id] \ {p}
  <1>1. owed \in [1..MaxDeposits -> SUBSET Page] /\ DOMAIN owed = 1..MaxDeposits
    BY DEF DepositShape
  <1>2. Unowed(p, tables) = [i \in 1..MaxDeposits |->
            IF \E d \in Slots : d.id = i /\ d.table \in tables THEN owed[i] \ {p} ELSE owed[i]]
    BY <1>1 DEF Unowed, Slots
  <1> QED BY <1>1, <1>2

\* What every step on the index leaves as it was, for the deposits.
LEMMA DeskStep ==
    ASSUME RoadInv, DOMAIN request' = DOMAIN request, \A s \in DOMAIN request : Same(s),
           UNCHANGED <<committed, delivered, minted, rows, parcels>>, IndexInv',
           owed' \in [1..MaxDeposits -> SUBSET Page],
           \A i \in 1..MaxDeposits : owed'[i] \subseteq owed[i],
           \A d \in Slots : owed'[d.id] \subseteq pages_for(d.table)',
           \/ UNCHANGED page_dbevent_map
           \/ \E p \in Page \ Alive : page_dbevent_map' = Popped(page_dbevent_map, {p})
    PROVE  DepositShape' /\ Mail' /\ Owing'
  <1>0. /\ IndexInv /\ RowShape /\ DepositShape /\ RequestShape
        /\ Indexed /\ Controlled /\ Mail /\ Owing /\ Rest
        /\ committed \in Nat /\ committed \in 0..MaxDeposits
    BY Parts
  <1>1. DepositShape'
    <2>1. /\ page_dbevent_map' \in [DOMAIN page_dbevent_map' -> Seq(Batch)]
          /\ DOMAIN page_dbevent_map' \subseteq Page
      BY <1>0 DEF DepositShape, Popped, Restrict
    <2> QED BY <1>0, <2>1 DEF DepositShape
  <1>2. \A q \in Page : /\ \/ Pending(page_dbevent_map', q) = Pending(page_dbevent_map, q)
                           \/ Pending(page_dbevent_map', q) = <<>>
                        /\ q \in Alive =>
                              Pending(page_dbevent_map', q) = Pending(page_dbevent_map, q)
    BY DEF Pending, Popped, Restrict
  <1>3. Mail'
    <2>1. \A s \in DOMAIN request' : Keeps(s) \/ Empty(s)
      BY DEF Keeps, Same
    <2>2. committed' \in Nat /\ committed <= committed' /\ UNCHANGED delivered
      BY <1>0
    <2> QED BY <1>0, <1>2, <2>1, <2>2, NothingMoves
  <1>4. Owing'
    <2>1. /\ InSlots' = InSlots /\ Slots' = Slots /\ \A q : InReplies(q)' = InReplies(q)
      <3>1. \A s \in DOMAIN request : Holds(s)
        BY DEF Holds, Same
      <3> QED BY <3>1, SameHolds
    <2>2. \A q \in Alive' : q \in Alive /\ Waits(q)' = Waits(q)
      <3>1. Alive' = Alive /\ Alive \subseteq Page
        BY <1>0 DEF Alive, RowShape
      <3> QED BY <1>2, <3>1 DEF Waits
    <2> QED BY <1>0, <2>1, <2>2, OwingKept
  <1> QED BY <1>1, <1>3, <1>4

\* The CALL of subscribeTable, served.
LEMMA SubscribeCallStep ==
    ASSUME RoadInv, NEW r, SubscribeTableCall(r)
    PROVE  RoadInv'
  <1>0. /\ IndexInv /\ RowShape /\ DepositShape /\ RequestShape
        /\ Indexed /\ Controlled /\ Mail /\ Owing /\ Rest
        /\ \A d \in Slots : d.id \in 1..MaxDeposits /\ d \in Batch
    BY Parts
  <1>r. r \in DOMAIN request /\ request[r].pc = "subscribing"
    BY DEF SubscribeTableCall, At
  <1>p. PICK p \in Page, t \in Table, opening \in BOOLEAN :
           p = request[r].page /\ t = request[r].call[1] /\ opening = request[r].call[2]
    BY <1>0, <1>r, RequestFields DEF Controlled, Control
  <1>1. /\ subscribe_table(p, t, opening)
        /\ owed' = IF opening THEN owed ELSE Unowed(p, {t})
        /\ Becomes(r, [request[r] EXCEPT !.pc = "running", !.call = <<>>])
        /\ UNCHANGED <<page_dbevent_map, committed, delivered>>
        /\ UNCHANGED <<rows, minted, parcels, leaving, slept>>
    BY <1>p DEF SubscribeTableCall, queueVars, untouched, freezerVars
  <1>2. /\ p \in minted /\ p \notin DOMAIN parcels /\ p \notin DOMAIN slept
        /\ request[r].reply = <<>>
    BY <1>0, <1>p, <1>r DEF Controlled, Control, Rest, Sleeping
  <1>3. /\ RequestShape' /\ DOMAIN request' = DOMAIN request
        /\ \A s \in DOMAIN request : s # r => request'[s] = request[s]
        /\ Same(r) /\ request'[r].events = request[r].events
        /\ request'[r].pc = "running"
    <2>1. "running" \in Phase /\ <<>> \in Seq(Table \cup BOOLEAN)
      BY DEF Phase
    <2> QED BY <1>0, <1>1, <1>r, <2>1, StepsOn
  <1>4. \A s \in DOMAIN request : Same(s)
    BY <1>3 DEF Same
  <1>5. /\ IndexInv'
        /\ \A u \in Table : pages_for(u)' \subseteq pages_for(u) \cup {p}
        /\ \A q : q # p => tables_for(q)' = tables_for(q)
        /\ owed' \in [1..MaxDeposits -> SUBSET Page]
        /\ \A i \in 1..MaxDeposits : owed'[i] \subseteq owed[i]
        /\ \A d \in Slots : owed'[d.id] \subseteq pages_for(d.table)'
    <2>o. \A d \in Slots : d.id \in 1..MaxDeposits /\ d.table \in Table
                              /\ owed[d.id] \subseteq pages_for(d.table)
      BY <1>0 DEF Owing, Batch
    <2>1. CASE opening
      <3>1. subscribe(p, {t}) /\ {t} \in SUBSET Table /\ owed' = owed
        BY <1>1, <2>1 DEF subscribe_table
      <3>2. /\ IndexInv'
            /\ \A u \in Table : pages_for(u)' =
                  IF u \in {t} THEN pages_for(u) \cup {p} ELSE pages_for(u)
            /\ \A q : q # p => tables_for(q)' = tables_for(q)
        BY <1>0, <3>1, SubscribeIndex
      <3>3. \A d \in Slots : owed'[d.id] \subseteq pages_for(d.table)'
        BY <2>o, <3>1, <3>2
      <3> QED BY <1>0, <3>1, <3>2, <3>3 DEF DepositShape
    <2>2. CASE ~opening
      <3>1. unsubscribe(p, t) /\ owed' = Unowed(p, {t})
        BY <1>1, <2>2 DEF subscribe_table
      <3>2. /\ IndexInv'
            /\ \A u \in Table : pages_for(u)' = IF u = t THEN pages_for(u) \ {p} ELSE pages_for(u)
            /\ \A q : q # p => tables_for(q)' = tables_for(q)
        BY <1>0, <3>1, UnsubscribeIndex
      <3>3. /\ owed' \in [1..MaxDeposits -> SUBSET Page]
            /\ \A i \in 1..MaxDeposits : owed'[i] \subseteq owed[i]
            /\ \A d \in Slots : d.id \in 1..MaxDeposits /\ d.table \in {t} =>
                  owed'[d.id] = owed[d.id] \ {p}
        BY <1>0, <3>1, GivenUp
      <3>4. ASSUME NEW d \in Slots
            PROVE  owed'[d.id] \subseteq pages_for(d.table)'
        <4>1. CASE d.table = t
          <5>1. pages_for(d.table)' = pages_for(d.table) \ {p}
            BY <2>o, <3>2, <4>1
          <5> QED BY <2>o, <3>3, <4>1, <5>1
        <4>2. CASE d.table # t
          <5>1. pages_for(d.table)' = pages_for(d.table)
            BY <2>o, <3>2, <4>2
          <5> QED BY <2>o, <3>3, <5>1
        <4> QED BY <4>1, <4>2
      <3> QED BY <3>2, <3>3, <3>4
    <2> QED BY <2>1, <2>2
  <1>6. DepositShape' /\ Mail' /\ Owing'
    BY <1>1, <1>3, <1>4, <1>5, DeskStep
  <1>7. Indexed'
    BY <1>0, <1>1, <1>2, <1>5 DEF Indexed
  <1>8. RowShape' /\ Alive' = Alive
    BY <1>0, <1>1 DEF RowShape, Alive
  <1>9. Controlled'
    <2>1. Control(r)'
      BY <1>0, <1>1, <1>2, <1>3, <1>r DEF Controlled, Control, Same
    <2>2. Announced(r)'
      BY <1>0, <1>1, <1>3, <1>8, <1>r DEF Controlled, Announced, Same
    <2>3. ASSUME NEW s \in DOMAIN request, s # r
          PROVE  Control(s)' /\ Announced(s)'
      <3>1. request[s].page \notin DOMAIN parcels'
        BY <1>0, <1>1 DEF Controlled, Control
      <3> QED BY <1>0, <1>1, <1>3, <1>8, <2>3, <3>1, StaysControlled DEF Controlled
    <2> QED BY <1>3, <2>1, <2>2, <2>3 DEF Controlled
  <1>10. Rest'
    <2>0. Sleeping /\ WakeRestoresIndex
      BY <1>0 DEF Rest
    <2>e. \A s \in DOMAIN request : /\ request'[s].page = request[s].page
                                    /\ request'[s].events = request[s].events
                                    /\ Birth(s)' <=> Birth(s)
      BY <1>3, <1>4 DEF Same, Birth
    <2>3. Sleeping'
      <3>1. /\ DOMAIN slept' \subseteq minted'
            /\ \A q \in DOMAIN parcels' : q \in DOMAIN slept' /\ slept'[q] = parcels'[q]
        BY <1>1, <2>0 DEF Sleeping
      <3>4. \A s \in DOMAIN request' :
               request'[s].pc = "subscribing" => request'[s].page \notin DOMAIN slept'
        BY <1>1, <1>3, <2>0 DEF Sleeping
      <3>2. ASSUME NEW s \in DOMAIN request', Birth(s)', request'[s].page \in DOMAIN slept'
            PROVE  /\ request'[s].events[1].tables = slept'[request'[s].page]
                   /\ tables_for(request[s].page)' = {}
        <4>1. s \in DOMAIN request /\ request[s].page # p
          BY <1>1, <1>2, <1>3, <2>e, <3>2
        <4>2. /\ request[s].events[1].tables = slept[request[s].page]
              /\ tables_for(request[s].page) = {}
          BY <1>1, <2>0, <2>e, <3>2, <4>1 DEF Sleeping
        <4>3. tables_for(request[s].page)' = {}
          <5>1. PICK q : q = request[s].page
            OBVIOUS
          <5>2. tables_for(q)' = tables_for(q) /\ tables_for(q) = {}
            BY <1>5, <4>1, <4>2, <5>1
          <5>3. tables_for(request[s].page)' = tables_for(q)'
            BY <2>e, <4>1, <5>1 DEF tables_for, GetSet
          <5> QED BY <5>2, <5>3
        <4> QED BY <1>1, <2>e, <4>1, <4>2, <4>3
      <3>3. ASSUME NEW q \in DOMAIN request', NEW s \in DOMAIN request', Birth(q)', Birth(s)',
                   request'[q].page = request'[s].page
            PROVE  q = s
        BY <1>3, <2>0, <2>e, <3>3 DEF Sleeping
      <3> QED BY <3>1, <3>2, <3>3, <3>4 DEF Sleeping
    <2>4. WakeRestoresIndex'
      <3> SUFFICES ASSUME NEW q \in DOMAIN slept'
                   PROVE  /\ q \in DOMAIN parcels' \ leaving' => tables_for(q)' = {}
                          /\ q \in DOMAIN rows' => rows'[q].table_subscriptions = slept'[q]
                          /\ q \in DOMAIN rows'
                                /\ (\A s \in DOMAIN request' : q \notin Named(request'[s].events))
                             => tables_for(q)' = slept'[q]
        BY DEF WakeRestoresIndex
      <3>1. q \in DOMAIN slept /\ q # p /\ tables_for(q)' = tables_for(q)
        BY <1>1, <1>2, <1>5
      <3>3. (\A s \in DOMAIN request' : q \notin Named(request'[s].events)) =>
               \A s \in DOMAIN request : q \notin Named(request[s].events)
        BY <1>3, <2>e
      <3> QED BY <1>1, <2>0, <3>1, <3>3 DEF WakeRestoresIndex
    <2> QED BY <2>3, <2>4 DEF Rest
  <1> QED BY <1>3, <1>5, <1>6, <1>7, <1>8, <1>9, <1>10 DEF RoadInv, Shape

\* An event of the REPLY folded by the commander: a birth or a drop.
LEMMA FoldEventStep ==
    ASSUME RoadInv, NEW r, FoldEvent(r)
    PROVE  RoadInv'
  <1>0. /\ IndexInv /\ RowShape /\ DepositShape /\ RequestShape
        /\ Indexed /\ Controlled /\ Mail /\ Owing /\ Rest
        /\ \A d \in Slots : d.id \in 1..MaxDeposits /\ d \in Batch
    BY Parts
  <1>s. Sleeping /\ WakeRestoresIndex
    BY <1>0 DEF Rest
  <1>r. r \in DOMAIN request /\ request[r].pc = "replying" /\ request[r].events # <<>>
    BY DEF FoldEvent, At
  <1>w. PICK was \in Seq(Announcement) : was = request[r].events
    BY <1>0, <1>r, RequestFields
  <1>e. PICK e \in Announcement, rest \in Seq(Announcement) : e = Head(was) /\ rest = Tail(was)
    <2>1. was # <<>>
      BY <1>r, <1>w
    <2>2. Head(was) \in Announcement /\ Tail(was) \in Seq(Announcement)
      BY <2>1
    <2> QED BY <2>2
  <1>t. /\ 1 \in DOMAIN was /\ was[1] = e
        /\ \A k \in DOMAIN rest : k + 1 \in DOMAIN was /\ k + 1 # 1 /\ rest[k] = was[k + 1]
        /\ \A k \in DOMAIN was : k # 1 => k - 1 \in DOMAIN rest /\ rest[k - 1] = was[k]
    <2>1. Len(was) \in Nat /\ Len(was) # 0 /\ DOMAIN was = 1..Len(was)
      BY <1>r, <1>w
    <2>2. /\ DOMAIN rest = 1..(Len(was) - 1)
          /\ \A k \in 1..(Len(was) - 1) : rest[k] = was[k + 1]
      BY <1>e, <1>r, <1>w, <2>1
    <2>3. \A k \in DOMAIN was : k # 1 => k - 1 \in 1..(Len(was) - 1) /\ (k - 1) + 1 = k
      BY <2>1
    <2>4. was[1] = e
      BY <1>e, <1>r, <1>w
    <2> QED BY <2>1, <2>2, <2>3, <2>4
  <1>1. /\ \/ /\ e.name = "new_page"
              /\ on_new_page(e.page, TheConnection, TheUser, e.tables)
              /\ UNCHANGED owed
           \/ /\ e.name = "drop_page"
              /\ drop_page(e.page)
              /\ owed' = Unowed(e.page, Table)
        /\ Becomes(r, [request[r] EXCEPT !.events = rest])
        /\ UNCHANGED <<rows, minted, committed, delivered, parcels, leaving, slept>>
    BY <1>e, <1>w DEF FoldEvent, untouched, freezerVars
  <1>p. PICK p \in Page, tables \in SUBSET Table : p = e.page /\ tables = e.tables
    BY DEF Announcement
  <1>a. /\ \A k \in DOMAIN was :
              /\ was[k].page \in minted
              /\ was[k].name = "new_page" => k = 1 /\ was[k].page = request[r].page
              /\ was[k].name = "drop_page" => was[k].page \notin Alive
    BY <1>0, <1>r, <1>w DEF Controlled, Announced
  <1>3. /\ RequestShape' /\ DOMAIN request' = DOMAIN request
        /\ \A s \in DOMAIN request : s # r => request'[s] = request[s]
        /\ Same(r) /\ request'[r].events = rest
        /\ request'[r].pc = "replying"
    BY <1>0, <1>1, <1>r, Announces
  <1>4. \A s \in DOMAIN request : Same(s)
    BY <1>3 DEF Same
  <1>o. \A d \in Slots : d.id \in 1..MaxDeposits /\ d.table \in Table
                            /\ owed[d.id] \subseteq pages_for(d.table)
    BY <1>0 DEF Owing, Batch
  <1>n. ASSUME e.name = "new_page"
        PROVE  /\ p = request[r].page /\ Birth(r) /\ p \in minted /\ p \notin DOMAIN parcels
               /\ p \in DOMAIN slept => tables = slept[p] /\ tables_for(p) = {}
    <2>1. p = request[r].page /\ Birth(r)
      BY <1>a, <1>n, <1>p, <1>r, <1>t, <1>w DEF Birth
    <2>2. p \in minted /\ p \notin DOMAIN parcels
      BY <1>0, <1>r, <2>1 DEF Controlled, Control
    <2>3. ASSUME p \in DOMAIN slept
          PROVE  tables = slept[p] /\ tables_for(p) = {}
      <3>1. request[r].events[1].tables = slept[request[r].page] /\ tables_for(request[r].page) = {}
        BY <1>r, <1>s, <2>1, <2>3 DEF Sleeping
      <3> QED BY <1>p, <1>t, <1>w, <2>1, <3>1
    <2> QED BY <2>1, <2>2, <2>3
  <1>d. ASSUME e.name = "drop_page"
        PROVE  p \notin Alive /\ p \in minted
    BY <1>a, <1>d, <1>p, <1>t
  <1>5. /\ IndexInv'
        /\ \A u \in Table : pages_for(u)' \subseteq pages_for(u) \cup {p}
        /\ \A q : q # p => tables_for(q)' = tables_for(q)
        /\ p \in minted /\ p \notin DOMAIN parcels
        /\ p \in DOMAIN rows /\ p \in DOMAIN slept => tables_for(p)' = slept[p]
        /\ \A s \in DOMAIN request : s # r /\ Birth(s) /\ request[s].page = p => tables_for(p)' = {}
        /\ owed' \in [1..MaxDeposits -> SUBSET Page]
        /\ \A i \in 1..MaxDeposits : owed'[i] \subseteq owed[i]
        /\ \A d \in Slots : owed'[d.id] \subseteq pages_for(d.table)'
        /\ \/ UNCHANGED page_dbevent_map
           \/ \E q \in Page \ Alive : page_dbevent_map' = Popped(page_dbevent_map, {q})
    <2>1. CASE e.name = "new_page"
      <3>1. subscribe(p, tables) /\ owed' = owed /\ UNCHANGED page_dbevent_map
        BY <1>1, <1>p, <2>1 DEF on_new_page, record_page_table_subscriptions, queueVars
      <3>2. /\ IndexInv'
            /\ \A u \in Table : pages_for(u)' =
                  IF u \in tables THEN pages_for(u) \cup {p} ELSE pages_for(u)
            /\ tables_for(p)' = tables_for(p) \cup tables
            /\ \A q : q # p => tables_for(q)' = tables_for(q)
        BY <1>0, <3>1, SubscribeIndex
      <3>3. \A d \in Slots : owed'[d.id] \subseteq pages_for(d.table)'
        BY <1>o, <3>1, <3>2
      <3>4. \A s \in DOMAIN request : Birth(s) /\ request[s].page = p => s = r
        BY <1>n, <1>r, <1>s, <2>1 DEF Sleeping
      <3>5. p \in DOMAIN slept => tables_for(p)' = slept[p]
        BY <1>n, <2>1, <3>2
      <3> QED BY <1>0, <1>n, <2>1, <3>1, <3>2, <3>3, <3>4, <3>5 DEF DepositShape
    <2>2. CASE e.name = "drop_page"
      <3>1. drop_page(p) /\ owed' = Unowed(p, Table)
        BY <1>1, <1>p, <2>2
      <3>2. /\ IndexInv'
            /\ \A u \in Table : pages_for(u)' = pages_for(u) \ {p}
            /\ tables_for(p)' = {}
            /\ \A q : q # p => tables_for(q)' = tables_for(q)
            /\ page_dbevent_map' = Popped(page_dbevent_map, {p})
        BY <1>0, <3>1, DropIndex
      <3>3. /\ owed' \in [1..MaxDeposits -> SUBSET Page]
            /\ \A i \in 1..MaxDeposits : owed'[i] \subseteq owed[i]
            /\ \A d \in Slots : d.id \in 1..MaxDeposits /\ d.table \in Table =>
                  owed'[d.id] = owed[d.id] \ {p}
        BY <1>0, <3>1, GivenUp
      <3>4. \A d \in Slots : owed'[d.id] \subseteq pages_for(d.table)'
        BY <1>o, <3>2, <3>3
      <3>5. p \notin Alive /\ p \notin DOMAIN rows /\ p \notin DOMAIN parcels /\ p \in minted
        BY <1>d, <2>2 DEF Alive
      <3> QED BY <3>2, <3>3, <3>4, <3>5
    <2> QED BY <1>1, <2>1, <2>2
  <1>6. DepositShape' /\ Mail' /\ Owing'
    BY <1>1, <1>3, <1>4, <1>5, DeskStep
  <1>7. Indexed'
    BY <1>0, <1>1, <1>5 DEF Indexed
  <1>8. RowShape' /\ Alive' = Alive
    BY <1>0, <1>1 DEF RowShape, Alive
  <1>9. Controlled'
    <2>1. Control(r)'
      BY <1>0, <1>1, <1>3, <1>r DEF Controlled, Control, Same
    <2>2. Announced(r)'
      <3> SUFFICES ASSUME NEW k \in DOMAIN rest
                   PROVE  /\ rest[k].page \in minted'
                          /\ rest[k].name = "new_page" => k = 1 /\ rest[k].page = request'[r].page
                          /\ rest[k].name = "drop_page" => rest[k].page \notin Alive'
        BY <1>3 DEF Announced
      <3> QED BY <1>1, <1>8, <1>a, <1>t
    <2>3. ASSUME NEW s \in DOMAIN request, s # r
          PROVE  Control(s)' /\ Announced(s)'
      <3>1. request[s].page \notin DOMAIN parcels'
        BY <1>0, <1>1 DEF Controlled, Control
      <3> QED BY <1>0, <1>1, <1>3, <1>8, <2>3, <3>1, StaysControlled DEF Controlled
    <2> QED BY <1>3, <2>1, <2>2, <2>3 DEF Controlled
  <1>10. Rest'
    <2>e. \A s \in DOMAIN request : s # r =>
              /\ request'[s].page = request[s].page /\ request'[s].events = request[s].events
              /\ Birth(s)' <=> Birth(s)
      BY <1>3 DEF Birth
    <2>b. ~Birth(r)'
      <3> SUFFICES ASSUME rest # <<>>, rest[1].name = "new_page" PROVE FALSE
        BY <1>3 DEF Birth
      <3>1. 1 \in DOMAIN rest
        <4>1. Len(rest) \in Nat /\ DOMAIN rest = 1..Len(rest) /\ Len(rest) # 0
          BY <1>e
        <4> QED BY <4>1
      <3> QED BY <1>a, <1>t, <3>1
    <2>3. Sleeping'
      <3>1. /\ DOMAIN slept' \subseteq minted'
            /\ \A q \in DOMAIN parcels' : q \in DOMAIN slept' /\ slept'[q] = parcels'[q]
        BY <1>1, <1>s DEF Sleeping
      <3>4. \A s \in DOMAIN request' :
               request'[s].pc = "subscribing" => request'[s].page \notin DOMAIN slept'
        BY <1>1, <1>3, <1>s DEF Sleeping
      <3>2. ASSUME NEW s \in DOMAIN request', Birth(s)', request'[s].page \in DOMAIN slept'
            PROVE  /\ request'[s].events[1].tables = slept'[request'[s].page]
                   /\ tables_for(request[s].page)' = {}
        <4>1. s \in DOMAIN request /\ s # r /\ Birth(s)
          BY <1>3, <2>b, <2>e, <3>2
        <4>2. /\ request[s].events[1].tables = slept[request[s].page]
              /\ tables_for(request[s].page) = {}
          BY <1>1, <1>s, <2>e, <3>2, <4>1 DEF Sleeping
        <4>3. tables_for(request[s].page)' = {}
          <5>1. PICK q : q = request[s].page
            OBVIOUS
          <5>2. tables_for(q)' = {}
            BY <1>5, <4>1, <4>2, <5>1
          <5>3. tables_for(request[s].page)' = tables_for(q)'
            BY <2>e, <4>1, <5>1 DEF tables_for, GetSet
          <5> QED BY <5>2, <5>3
        <4> QED BY <1>1, <2>e, <4>1, <4>2, <4>3
      <3>3. ASSUME NEW q \in DOMAIN request', NEW s \in DOMAIN request', Birth(q)', Birth(s)',
                   request'[q].page = request'[s].page
            PROVE  q = s
        BY <1>3, <1>s, <2>b, <2>e, <3>3 DEF Sleeping
      <3> QED BY <3>1, <3>2, <3>3, <3>4 DEF Sleeping
    <2>4. WakeRestoresIndex'
      <3> SUFFICES ASSUME NEW q \in DOMAIN slept'
                   PROVE  /\ q \in DOMAIN parcels' \ leaving' => tables_for(q)' = {}
                          /\ q \in DOMAIN rows' => rows'[q].table_subscriptions = slept'[q]
                          /\ q \in DOMAIN rows'
                                /\ (\A s \in DOMAIN request' : q \notin Named(request'[s].events))
                             => tables_for(q)' = slept'[q]
        BY DEF WakeRestoresIndex
      <3>1. CASE q = p
        BY <1>1, <1>5, <1>s, <3>1 DEF WakeRestoresIndex
      <3>2. CASE q # p
        <4>1. q \in DOMAIN slept /\ tables_for(q)' = tables_for(q)
          BY <1>1, <1>5, <3>2
        <4>2. ASSUME \A s \in DOMAIN request' : q \notin Named(request'[s].events)
              PROVE  \A s \in DOMAIN request : q \notin Named(request[s].events)
          <5>1. q \notin Named(rest)
            BY <1>3, <1>r, <4>2
          <5>2. q \notin Named(was)
            <6> SUFFICES ASSUME NEW k \in DOMAIN was, was[k].page = q PROVE FALSE
              BY NamedIn
            <6>1. k # 1
              BY <1>p, <1>t, <3>2
            <6>2. k - 1 \in DOMAIN rest /\ rest[k - 1].page = q
              BY <1>t, <6>1
            <6> QED BY <5>1, <6>2, NamedIn
          <5> QED BY <1>3, <1>w, <2>e, <4>2, <5>2
        <4> QED BY <1>1, <1>s, <4>1, <4>2 DEF WakeRestoresIndex
      <3> QED BY <3>1, <3>2
    <2> QED BY <2>3, <2>4 DEF Rest
  <1> QED BY <1>3, <1>5, <1>6, <1>7, <1>8, <1>9, <1>10 DEF RoadInv, Shape
-----------------------------------------------------------------------------
(* The steps that move deposits. *)

\* What every one of them leaves as it was: rows, parcels, index and events.
LEMMA MailStep ==
    ASSUME RoadInv, NEW r \in DOMAIN request, DOMAIN request' = DOMAIN request,
           \A s \in DOMAIN request : s # r => request'[s] = request[s],
           request'[r].page = request[r].page, request'[r].events = request[r].events,
           request'[r].pc # "subscribing",
           request'[r].pc # "collecting" => request'[r].reply = <<>>,
           request'[r].pc = "replying" =>
              request'[r].dbevents = <<>> /\ request'[r].own_dbevents = <<>>,
           UNCHANGED <<indexVars, rows, minted, parcels, leaving, slept>>
    PROVE  /\ IndexInv' /\ RowShape' /\ Indexed' /\ Controlled' /\ Rest' /\ Alive' = Alive
           /\ \A t : pages_for(t)' = pages_for(t)
  <1>0. /\ IndexInv /\ RowShape /\ RequestShape /\ Indexed /\ Controlled /\ Rest
    BY Parts
  <1>1. /\ IndexInv'
        /\ \A t : pages_for(t)' = pages_for(t)
        /\ \A q : tables_for(q)' = tables_for(q)
    BY <1>0, IndexUntouched
  <1>2. Alive' = Alive
    BY DEF Alive
  <1>3. RowShape'
    BY <1>0, <1>2 DEF RowShape
  <1>4. Indexed'
    BY <1>0, <1>1 DEF Indexed
  <1>5. Controlled'
    <2>1. Control(r)'
      BY <1>0 DEF Controlled, Control
    <2>2. Announced(r)'
      BY <1>0, <1>2 DEF Controlled, Announced
    <2>3. ASSUME NEW s \in DOMAIN request, s # r
          PROVE  Control(s)' /\ Announced(s)'
      <3>1. request[s].page \notin DOMAIN parcels'
        BY <1>0 DEF Controlled, Control
      <3> QED BY <1>0, <1>2, <2>3, <3>1, StaysControlled DEF Controlled
    <2> QED BY <2>1, <2>2, <2>3 DEF Controlled
  <1>6. Rest'
    <2>1. \A s \in DOMAIN request :
             request'[s].page = request[s].page /\ request'[s].events = request[s].events
      OBVIOUS
    <2>2. \A s \in DOMAIN request' :
             request'[s].pc # "subscribing" \/ request[s].pc = "subscribing"
      OBVIOUS
    <2> QED BY <1>0, <1>1, <2>1, <2>2, RestKept
  <1> QED BY <1>1, <1>2, <1>3, <1>4, <1>5, <1>6

\* A commit: the batch passes the filter, does not, or is hidden.
LEMMA CommitStep ==
    ASSUME RoadInv, NEW r, NEW t \in Table, notifyDbEvents(r, t) \/ notifyHidden(r, t)
    PROVE  RoadInv'
  <1>0. /\ IndexInv /\ RowShape /\ DepositShape /\ RequestShape
        /\ Indexed /\ Controlled /\ Mail /\ Owing /\ Rest
        /\ committed \in Nat /\ committed \in 0..MaxDeposits /\ MaxDeposits \in Nat
    BY Parts
  <1>r. /\ r \in DOMAIN request /\ request[r].pc = "running" /\ committed < MaxDeposits
        /\ committed' = committed + 1
        /\ UNCHANGED <<indexVars, page_dbevent_map, delivered>>
        /\ UNCHANGED <<rows, minted, parcels, leaving, slept>>
    BY DEF notifyDbEvents, notifyHidden, At, deskVars, queueVars, untouched, freezerVars
  <1>n. committed + 1 \in 1..MaxDeposits /\ committed' \in 0..MaxDeposits /\ committed' \in Nat
    BY <1>0, <1>r
  <1>f. /\ request[r] \in RequestType /\ request[r].page \in Page
        /\ request[r].dbevents \in Seq(Batch) /\ request[r].own_dbevents \in Seq(Batch)
        /\ request[r].reply = <<>>
    <2>1. request[r].reply = <<>>
      BY <1>0, <1>r DEF Controlled, Control
    <2> QED BY <1>0, <1>r, <2>1, RequestFields
  <1>d. PICK d \in Batch, e \in Batch :
           /\ d = Deposit(r, t, FALSE) /\ d.id = committed + 1 /\ ~d.hidden /\ d.table = t
           /\ e = Deposit(r, t, TRUE) /\ e.id = committed + 1 /\ e.from_page_id = request[r].page
    <2>1. committed + 1 \in Nat
      BY <1>0
    <2>2. \A h \in BOOLEAN :
             /\ Deposit(r, t, h) \in Batch /\ Deposit(r, t, h).id = committed + 1
             /\ Deposit(r, t, h).table = t /\ Deposit(r, t, h).hidden = h
             /\ Deposit(r, t, h).from_page_id = request[r].page
      BY <1>f, <2>1 DEF Deposit, Batch
    <2>3. FALSE \in BOOLEAN /\ TRUE \in BOOLEAN
      OBVIOUS
    <2>4. ~Deposit(r, t, FALSE).hidden
      BY <2>2, <2>3
    <2>5. Deposit(r, t, FALSE) \in Batch /\ Deposit(r, t, TRUE) \in Batch
      BY <2>2, <2>3
    <2> QED BY <2>2, <2>4, <2>5
  <1>1. \/ /\ Becomes(r, [request[r] EXCEPT !.dbevents = Append(request[r].dbevents, d)])
           /\ owed' = [owed EXCEPT ![committed + 1] = pages_for(t)]
        \/ UNCHANGED <<request, owed>>
        \/ /\ Becomes(r, [request[r] EXCEPT !.own_dbevents = Append(request[r].own_dbevents, e)])
           /\ UNCHANGED owed
    BY <1>d DEF notifyDbEvents, notifyHidden
  <1>2. /\ RequestShape' /\ DOMAIN request' = DOMAIN request
        /\ \A s \in DOMAIN request : s # r => request'[s] = request[s]
        /\ request'[r].page = request[r].page /\ request'[r].events = request[r].events
        /\ request'[r].pc = "running" /\ request'[r].reply = <<>>
        /\ \/ /\ request'[r].dbevents = Append(request[r].dbevents, d)
              /\ request'[r].own_dbevents = request[r].own_dbevents
              /\ owed' = [owed EXCEPT ![committed + 1] = pages_for(t)]
           \/ UNCHANGED <<request, owed>>
           \/ /\ request'[r].dbevents = request[r].dbevents
              /\ request'[r].own_dbevents = Append(request[r].own_dbevents, e)
              /\ UNCHANGED owed
    <2>t. request[r].pc \in Phase /\ <<>> \in Seq(Batch)
      BY <1>0, <1>r, RequestFields
    <2>1. CASE /\ Becomes(r, [request[r] EXCEPT !.dbevents = Append(request[r].dbevents, d)])
               /\ owed' = [owed EXCEPT ![committed + 1] = pages_for(t)]
      <3> DEFINE rec == [request[r] EXCEPT !.dbevents = Append(request[r].dbevents, d)]
      <3>1. Append(request[r].dbevents, d) \in Seq(Batch)
        BY <1>f
      <3>2. rec \in RequestType
        BY <1>f, <3>1 DEF RequestType
      <3>3. /\ rec.page = request[r].page /\ rec.events = request[r].events
            /\ rec.pc = request[r].pc /\ rec.reply = request[r].reply
            /\ rec.dbevents = Append(request[r].dbevents, d)
            /\ rec.own_dbevents = request[r].own_dbevents
        BY <1>f DEF RequestType
      <3> HIDE DEF rec
      <3>4. Becomes(r, rec)
        BY <2>1 DEF rec
      <3>5. /\ RequestShape' /\ DOMAIN request' = DOMAIN request /\ request'[r] = rec
            /\ \A s \in DOMAIN request : s # r => request'[s] = request[s]
        BY <1>0, <1>r, <3>2, <3>4, GoesOn
      <3> QED BY <1>f, <1>r, <2>1, <3>3, <3>5
    <2>2. CASE UNCHANGED <<request, owed>>
      BY <1>0, <1>f, <1>r, <2>2 DEF RequestShape
    <2>3. CASE /\ Becomes(r, [request[r] EXCEPT !.own_dbevents = Append(request[r].own_dbevents, e)])
               /\ UNCHANGED owed
      <3> DEFINE rec == [request[r] EXCEPT !.own_dbevents = Append(request[r].own_dbevents, e)]
      <3>1. Append(request[r].own_dbevents, e) \in Seq(Batch)
        BY <1>f
      <3>2. rec \in RequestType
        BY <1>f, <3>1 DEF RequestType
      <3>3. /\ rec.page = request[r].page /\ rec.events = request[r].events
            /\ rec.pc = request[r].pc /\ rec.reply = request[r].reply
            /\ rec.dbevents = request[r].dbevents
            /\ rec.own_dbevents = Append(request[r].own_dbevents, e)
        BY <1>f DEF RequestType
      <3> HIDE DEF rec
      <3>4. Becomes(r, rec)
        BY <2>3 DEF rec
      <3>5. /\ RequestShape' /\ DOMAIN request' = DOMAIN request /\ request'[r] = rec
            /\ \A s \in DOMAIN request : s # r => request'[s] = request[s]
        BY <1>0, <1>r, <3>2, <3>4, GoesOn
      <3> QED BY <1>f, <1>r, <2>3, <3>3, <3>5
    <2> QED BY <1>1, <2>1, <2>2, <2>3
  <1>3. /\ IndexInv' /\ RowShape' /\ Indexed' /\ Controlled' /\ Rest' /\ Alive' = Alive
        /\ \A u : pages_for(u)' = pages_for(u)
    BY <1>2, <1>r, MailStep
  <1>4. DepositShape'
    <2>1. pages_for(t) \in SUBSET Page
      BY <1>0 DEF Indexed, RowShape
    <2>2. owed' \in [1..MaxDeposits -> SUBSET Page]
      BY <1>0, <1>2, <2>1 DEF DepositShape
    <2> QED BY <1>0, <1>n, <1>r, <2>2 DEF DepositShape
  <1>5. Mail'
    <2>1. CASE UNCHANGED <<request, owed>>
      <3>1. \A s \in DOMAIN request' : Keeps(s) \/ Empty(s)
        BY <2>1 DEF Keeps
      <3>2. committed <= committed' /\ UNCHANGED delivered /\ UNCHANGED page_dbevent_map
        BY <1>0, <1>r
      <3> QED BY <1>0, <1>n, <3>1, <3>2, NothingMoves
    <2>2. CASE /\ request'[r].dbevents = Append(request[r].dbevents, d)
               /\ request'[r].own_dbevents = request[r].own_dbevents
      BY <1>0, <1>2, <1>d, <1>f, <1>r, <2>2, CommitMail
    <2>3. CASE /\ request'[r].dbevents = request[r].dbevents
               /\ request'[r].own_dbevents = Append(request[r].own_dbevents, e)
      BY <1>0, <1>2, <1>d, <1>f, <1>r, <2>3, CommitMail
    <2> QED BY <1>2, <2>1, <2>2, <2>3
  <1>6. Owing'
    <2>a. /\ ToSet(Append(request[r].dbevents, d)) = ToSet(request[r].dbevents) \cup {d}
          /\ Ids(Append(request[r].dbevents, d)) = Ids(request[r].dbevents) \cup {d.id}
      BY <1>f, OneMore
    <2>s. \A s \in DOMAIN request : Reply(s)' = Reply(s) /\ request'[s].page = request[s].page
      BY <1>2, <1>f DEF Reply
    <2>u. \A s \in DOMAIN request : Slot(s) \subseteq Slot(s)'
      BY <1>2, <2>a DEF Slot
    <2>1. (\A q : \A i : i \in InReplies(q)' <=> i \in InReplies(q)) /\ InSlots \subseteq InSlots'
      BY <1>2, <2>s, <2>u, HeldIn, HeldInNext
    <2>2. \A q \in Page : Got(q)' = Got(q) /\ Waits(q)' = Waits(q)
      BY <1>r DEF Got, Waits
    <2>3. \/ /\ owed' = [owed EXCEPT ![committed + 1] = pages_for(t)]
             /\ committed + 1 \in InSlots'
             /\ Slots' \subseteq Slots \cup {d}
          \/ owed' = owed /\ Slots' \subseteq Slots
      <3>1. CASE /\ request'[r].dbevents = Append(request[r].dbevents, d)
                 /\ owed' = [owed EXCEPT ![committed + 1] = pages_for(t)]
        <4>1. committed + 1 \in Slot(r)'
          BY <1>d, <2>a, <3>1 DEF Slot
        <4>2. committed + 1 \in InSlots'
          BY <1>2, <1>r, <4>1, HeldInNext
        <4>3. Slots' \subseteq Slots \cup {d}
          BY <1>2, <2>a, <3>1, HeldIn, HeldInNext
        <4> QED BY <3>1, <4>2, <4>3
      <3>2. CASE request'[r].dbevents = request[r].dbevents /\ owed' = owed
        <4>1. Slots' \subseteq Slots
          BY <1>2, <3>2, HeldIn, HeldInNext
        <4> QED BY <3>2, <4>1
      <3> QED BY <1>2, <3>1, <3>2
    <2>o. owed \in [1..MaxDeposits -> SUBSET Page]
      BY <1>0 DEF DepositShape
    <2>m. \A i \in 1..MaxDeposits : i # committed + 1 => owed'[i] = owed[i]
      BY <2>3, <2>o
    <2>c. owed'[committed + 1] = owed[committed + 1] \/ owed'[committed + 1] = pages_for(t)
      BY <1>n, <2>3, <2>o
    <2>z. owed[committed + 1] = {}
      BY <1>0, <1>n DEF Owing
    <2>4. ASSUME NEW i \in 1..MaxDeposits
          PROVE  /\ owed'[i] \subseteq minted'
                 /\ i > committed' => owed'[i] = {}
      <3>1. CASE i = committed + 1
        BY <1>0, <1>r, <2>c, <2>z, <3>1 DEF Indexed
      <3>2. CASE i # committed + 1
        <4>1. owed'[i] = owed[i] /\ owed[i] \subseteq minted /\ (i > committed => owed[i] = {})
          BY <1>0, <2>m, <3>2 DEF Owing
        <4>2. i > committed' => i > committed
          BY <1>0, <1>r
        <4> QED BY <1>r, <4>1, <4>2
      <3> QED BY <3>1, <3>2
    <2>5. ASSUME NEW b \in Slots'
          PROVE  owed'[b.id] \subseteq pages_for(b.table)'
      <3>1. CASE b \in Slots
        <4>1. b.id \in 1..committed
          <5>1. PICK s \in DOMAIN request : b \in ToSet(request[s].dbevents)
            BY <3>1, HeldIn
          <5>2. b.id \in Slot(s)
            BY <5>1 DEF Slot, Ids
          <5> QED BY <1>0, <5>2 DEF Mail, Issued
        <4>2. b.id \in 1..MaxDeposits /\ b.id # committed + 1
          BY <1>0, <4>1
        <4> QED BY <1>0, <1>3, <2>m, <3>1, <4>2 DEF Owing
      <3>2. CASE b = d /\ b \notin Slots
        <4>1. owed' = [owed EXCEPT ![committed + 1] = pages_for(t)]
          BY <2>3, <3>2
        <4>2. owed'[b.id] = pages_for(t) /\ b.table = t
          BY <1>d, <1>n, <2>o, <3>2, <4>1
        <4> QED BY <1>3, <4>2
      <3> QED BY <2>3, <3>1, <3>2
    <2>6. ASSUME NEW i \in 1..committed', NEW q \in Alive', i \notin InSlots', q \in owed'[i]
          PROVE  i \in Got(q)' \cup Waits(q)' \cup InReplies(q)'
      <3>1. i # committed + 1
        BY <2>3, <2>6, <2>z
      <3>2. i \in 1..committed /\ i \in 1..MaxDeposits
        BY <1>0, <1>n, <1>r, <3>1
      <3>3. q \in Alive /\ q \in owed[i] /\ i \notin InSlots /\ q \in Page
        BY <1>0, <1>3, <2>1, <2>6, <2>m, <3>1, <3>2 DEF RowShape
      <3>4. i \in Got(q) \cup Waits(q) \cup InReplies(q)
        BY <1>0, <3>2, <3>3 DEF Owing
      <3> QED BY <2>1, <2>2, <3>3, <3>4
    <2> QED BY <2>4, <2>5, <2>6 DEF Owing
  <1> QED BY <1>2, <1>3, <1>4, <1>5, <1>6 DEF RoadInv, Shape

\* Filing a slot gives every page that is owed a deposit of it that deposit: in
\* its queue, or in the reply of the exchange that retires the queue.
LEMMA FiledOwing ==
    ASSUME RoadInv, UNCHANGED <<committed, delivered, owed, minted>>, Alive' = Alive,
           \A t : pages_for(t)' = pages_for(t),
           NEW r \in DOMAIN request,
           DOMAIN request' = DOMAIN request,
           \A s \in DOMAIN request : s # r => request'[s] = request[s],
           request'[r].page = request[r].page, request'[r].dbevents = <<>>,
           request[r].reply = <<>>,
           \/ page_dbevent_map' = FiledDbevents(request[r].dbevents)
           \/ /\ page_dbevent_map' = Popped(FiledDbevents(request[r].dbevents), {request[r].page})
              /\ request'[r].reply = Pending(FiledDbevents(request[r].dbevents), request[r].page)
    PROVE  Owing'
  <1>0. /\ IndexInv /\ RowShape /\ DepositShape /\ RequestShape /\ Mail /\ Owing
        /\ IsQueues(page_dbevent_map)
        /\ committed \in Nat /\ committed \in 0..MaxDeposits /\ MaxDeposits \in Nat
    BY Parts
  <1>t. request[r].dbevents \in Seq(Batch) /\ request[r].page \in Page
    BY <1>0, RequestFields
  <1> DEFINE filed(p) == Pending(FiledDbevents(request[r].dbevents), p)
  <1>1. ASSUME NEW q \in Page
        PROVE  /\ Waits(q) \subseteq Ids(filed(q))
               /\ \A d \in ToSet(request[r].dbevents) : q \in pages_for(d.table) => d.id \in Ids(filed(q))
    <2>1. ToSet(filed(q)) = ToSet(Pending(page_dbevent_map, q))
                \cup {d \in ToSet(request[r].dbevents) : q \in pages_for(d.table)}
      BY <1>0, <1>t, Filing
    <2> HIDE DEF filed
    <2> QED BY <2>1 DEF Waits, Ids
  <1>2. ASSUME NEW q \in Page
        PROVE  Ids(filed(q)) \subseteq Waits(q)' \cup InReplies(q)'
    <2>1. \/ Pending(page_dbevent_map', q) = filed(q)
          \/ q = request[r].page /\ request'[r].reply = filed(q)
      BY DEF Pending, Popped, Restrict
    <2> HIDE DEF filed
    <2>2. CASE Pending(page_dbevent_map', q) = filed(q)
      BY <2>2 DEF Waits
    <2>3. CASE q = request[r].page /\ request'[r].reply = filed(q)
      <3>1. request'[r].page = q /\ Reply(r)' = Ids(filed(q))
        BY <2>3 DEF Reply
      <3>2. \A i : i \in Ids(filed(q)) => i \in InReplies(q)'
        BY <3>1, HeldInNext
      <3> QED BY <3>2
    <2> QED BY <2>1, <2>2, <2>3
  <1> HIDE DEF filed
  <1>3. \A s \in DOMAIN request : s # r => Slot(s)' = Slot(s) /\ Reply(s)' = Reply(s)
                                            /\ request'[s].page = request[s].page
    BY DEF Slot, Reply
  <1>4. Reply(r) = {} /\ ToSet(request'[r].dbevents) = {}
    BY NoDeposits DEF Reply
  <1>5. \A q : \A i : i \in InReplies(q) => i \in InReplies(q)'
    BY <1>3, <1>4, HeldIn, HeldInNext
  <1>6. \A d \in Slots' : d \in Slots
    BY <1>4, HeldIn, HeldInNext
  <1>7. \A i : i \in InSlots /\ i \notin InSlots' => i \in Slot(r)
    BY <1>3, HeldIn, HeldInNext
  <1>8. \A d \in Slots' : owed'[d.id] \subseteq pages_for(d.table)'
    BY <1>0, <1>6 DEF Owing
  <1>9. ASSUME NEW i \in 1..committed', NEW q \in Alive', i \notin InSlots', q \in owed'[i]
        PROVE  i \in Got(q)' \cup Waits(q)' \cup InReplies(q)'
    <2>1. q \in Page /\ q \in Alive /\ i \in 1..committed /\ q \in owed[i] /\ Got(q)' = Got(q)
      BY <1>0, <1>9 DEF RowShape, Got
    <2>2. CASE i \notin InSlots
      <3>1. i \in Got(q) \cup Waits(q) \cup InReplies(q)
        BY <1>0, <2>1, <2>2 DEF Owing
      <3> QED BY <1>1, <1>2, <1>5, <2>1, <3>1
    <2>3. CASE i \in InSlots
      <3>1. PICK d \in ToSet(request[r].dbevents) : d.id = i
        BY <1>7, <1>9, <2>3 DEF Slot, Ids
      <3>2. d \in Slots
        BY HeldIn
      <3>3. q \in pages_for(d.table)
        BY <1>0, <2>1, <3>1, <3>2 DEF Owing
      <3>4. i \in Ids(filed(q))
        BY <1>1, <2>1, <3>1, <3>3
      <3> QED BY <1>2, <2>1, <3>4
    <2> QED BY <2>2, <2>3
  <1> QED BY <1>0, <1>8, <1>9 DEF Owing

\* The exchange of a collect, served.
LEMMA ExchangeStep ==
    ASSUME RoadInv, NEW r, ExchangeCall(r)
    PROVE  RoadInv'
  <1>0. /\ IndexInv /\ RowShape /\ DepositShape /\ RequestShape
        /\ Indexed /\ Controlled /\ Mail /\ Owing /\ Rest
        /\ IsQueues(page_dbevent_map)
    BY Parts
  <1>r. r \in DOMAIN request /\ request[r].pc = "exchanging"
    BY DEF ExchangeCall, At
  <1> DEFINE filed == FiledDbevents(request[r].dbevents)
             taken == Pending(filed, request[r].page)
             rec == [request[r] EXCEPT !.pc = "collecting", !.dbevents = <<>>, !.reply = taken]
  <1>1. /\ page_dbevent_map' = Popped(filed, {request[r].page})
        /\ Becomes(r, rec)
        /\ UNCHANGED <<indexVars, committed, delivered, owed>>
        /\ UNCHANGED <<rows, minted, parcels, leaving, slept>>
    BY DEF ExchangeCall, exchange, ExchangeReply, untouched, freezerVars
  <1>f. /\ request[r] \in RequestType /\ request[r].page \in Page
        /\ request[r].dbevents \in Seq(Batch) /\ request[r].reply = <<>>
    <2>1. request[r].reply = <<>>
      BY <1>0, <1>r DEF Controlled, Control
    <2> QED BY <1>0, <1>r, <2>1, RequestFields
  <1>q. IsQueues(filed) /\ taken \in Seq(Batch)
    <2> HIDE DEF filed
    <2>1. IsQueues(filed)
      BY <1>0, <1>f, Filing DEF filed
    <2>2. taken \in Seq(Batch)
      BY <1>0, <1>f, Filing DEF filed
    <2> QED BY <2>1, <2>2
  <1> HIDE DEF taken
  <1>2. /\ rec \in RequestType
        /\ rec.page = request[r].page /\ rec.events = request[r].events /\ rec.pc = "collecting"
        /\ rec.dbevents = <<>> /\ rec.own_dbevents = request[r].own_dbevents /\ rec.reply = taken
    BY <1>f, <1>q DEF RequestType, Phase
  <1> HIDE DEF rec
  <1>3. /\ RequestShape' /\ DOMAIN request' = DOMAIN request /\ request'[r] = rec
        /\ \A s \in DOMAIN request : s # r => request'[s] = request[s]
    BY <1>0, <1>1, <1>2, <1>r, GoesOn
  <1>4. /\ IndexInv' /\ RowShape' /\ Indexed' /\ Controlled' /\ Rest' /\ Alive' = Alive
        /\ \A t : pages_for(t)' = pages_for(t)
    BY <1>1, <1>2, <1>3, <1>r, MailStep
  <1>5. DepositShape'
    <2> HIDE DEF filed
    <2>1. IsQueues(page_dbevent_map)'
      BY <1>1, <1>q DEF IsQueues, Popped, Restrict
    <2> QED BY <1>0, <1>1, <2>1 DEF DepositShape, IsQueues
  <1>6. Mail'
    BY <1>0, <1>1, <1>2, <1>3, <1>f, <1>r, FiledMail DEF taken
  <1>7. Owing'
    BY <1>1, <1>2, <1>3, <1>4, <1>f, <1>r, FiledOwing DEF taken
  <1> QED BY <1>3, <1>4, <1>5, <1>6, <1>7 DEF RoadInv, Shape

\* The second exit of the slot, at the end of every request: the desk files
\* what is left in it, or refuses and the claims on it are dropped.
LEMMA DeliverStep ==
    ASSUME RoadInv, NEW r, deliver_slot_deposits(r)
    PROVE  RoadInv'
  <1>0. /\ IndexInv /\ RowShape /\ DepositShape /\ RequestShape
        /\ Indexed /\ Controlled /\ Mail /\ Owing /\ Rest
        /\ IsQueues(page_dbevent_map)
        /\ committed \in Nat /\ committed \in 0..MaxDeposits /\ MaxDeposits \in Nat
    BY Parts
  <1>r. r \in DOMAIN request /\ request[r].pc \in {"running", "failed"}
    BY DEF deliver_slot_deposits, At
  <1> DEFINE filed == FiledDbevents(request[r].dbevents)
             rec == [request[r] EXCEPT !.pc = "replying", !.dbevents = <<>>, !.own_dbevents = <<>>]
             refused == [i \in DOMAIN owed |->
                IF \E d \in ToSet(request[r].dbevents) : d.id = i THEN {} ELSE owed[i]]
  <1>1. /\ \/ page_dbevent_map' = filed /\ UNCHANGED owed
           \/ UNCHANGED page_dbevent_map /\ owed' = refused
        /\ Becomes(r, rec)
        /\ UNCHANGED <<indexVars, committed, delivered>>
        /\ UNCHANGED <<rows, minted, parcels, leaving, slept>>
    BY DEF deliver_slot_deposits, deposit, queueVars, untouched, freezerVars
  <1>f. /\ request[r] \in RequestType /\ request[r].page \in Page
        /\ request[r].dbevents \in Seq(Batch) /\ request[r].reply = <<>>
    <2>1. request[r].reply = <<>>
      BY <1>0, <1>r DEF Controlled, Control
    <2> QED BY <1>0, <1>r, <2>1, RequestFields
  <1>2. /\ rec \in RequestType
        /\ rec.page = request[r].page /\ rec.events = request[r].events /\ rec.pc = "replying"
        /\ rec.dbevents = <<>> /\ rec.own_dbevents = <<>> /\ rec.reply = <<>>
    BY <1>f DEF RequestType, Phase
  <1> HIDE DEF rec
  <1>3. /\ RequestShape' /\ DOMAIN request' = DOMAIN request /\ request'[r] = rec
        /\ \A s \in DOMAIN request : s # r => request'[s] = request[s]
    BY <1>0, <1>1, <1>2, <1>r, GoesOn
  <1>4. /\ IndexInv' /\ RowShape' /\ Indexed' /\ Controlled' /\ Rest' /\ Alive' = Alive
        /\ \A t : pages_for(t)' = pages_for(t)
    BY <1>1, <1>2, <1>3, <1>r, MailStep
  <1>5. CASE page_dbevent_map' = filed /\ UNCHANGED owed
    <2>1. DepositShape'
      <3>1. IsQueues(filed)
        BY <1>0, <1>f, Filing
      <3> HIDE DEF filed
      <3>2. IsQueues(page_dbevent_map)'
        BY <1>5, <3>1 DEF IsQueues
      <3> QED BY <1>0, <1>1, <1>5, <3>2 DEF DepositShape, IsQueues
    <2>2. Mail'
      BY <1>0, <1>1, <1>2, <1>3, <1>5, <1>f, <1>r, FiledMail
    <2>3. Owing'
      BY <1>1, <1>2, <1>3, <1>4, <1>5, <1>f, <1>r, FiledOwing
    <2> QED BY <1>3, <1>4, <2>1, <2>2, <2>3 DEF RoadInv, Shape
  <1>6. CASE UNCHANGED page_dbevent_map /\ owed' = refused
    <2>o. /\ owed' \in [1..MaxDeposits -> SUBSET Page]
          /\ \A i \in 1..MaxDeposits : /\ owed'[i] \subseteq owed[i]
                                       /\ i \in Slot(r) => owed'[i] = {}
      BY <1>0, <1>6 DEF DepositShape, Slot, Ids
    <2>1. DepositShape'
      BY <1>0, <1>1, <1>6, <2>o DEF DepositShape
    <2>2. Mail'
      <3>1. \A s \in DOMAIN request' : Keeps(s) \/ Empty(s)
        BY <1>2, <1>3 DEF Keeps, Empty
      <3>2. committed' \in Nat /\ committed <= committed' /\ UNCHANGED delivered
        BY <1>0, <1>1
      <3> QED BY <1>0, <1>6, <3>1, <3>2, NothingMoves
    <2>3. Owing'
      <3>1. \A s \in DOMAIN request : /\ s # r => Slot(s)' = Slot(s)
                                      /\ Reply(s)' = Reply(s) /\ request'[s].page = request[s].page
        BY <1>2, <1>3, <1>f DEF Slot, Reply
      <3>2. \A q : \A i : i \in InReplies(q)' <=> i \in InReplies(q)
        BY <1>3, <3>1, HeldIn, HeldInNext
      <3>3. \A d \in Slots' : d \in Slots
        <4>1. ToSet(request'[r].dbevents) = {}
          BY <1>2, <1>3, NoDeposits
        <4> QED BY <1>3, <4>1, HeldIn, HeldInNext
      <3>4. \A i : i \in InSlots /\ i \notin InSlots' => i \in Slot(r)
        BY <1>3, <3>1, HeldIn, HeldInNext
      <3>5. ASSUME NEW d \in Slots'
            PROVE  owed'[d.id] \subseteq pages_for(d.table)'
        <4>1. d \in Slots /\ d.id \in 1..MaxDeposits
          BY <3>3, Parts
        <4> QED BY <1>0, <1>4, <2>o, <4>1 DEF Owing
      <3>6. ASSUME NEW i \in 1..committed', NEW q \in Alive', i \notin InSlots', q \in owed'[i]
            PROVE  i \in Got(q)' \cup Waits(q)' \cup InReplies(q)'
        <4>1. i \in 1..committed /\ i \in 1..MaxDeposits
          BY <1>0, <1>1
        <4>2. q \in owed[i] /\ i \notin InSlots /\ q \in Alive
          BY <1>4, <2>o, <3>4, <3>6, <4>1
        <4>3. i \in Got(q) \cup Waits(q) \cup InReplies(q)
          BY <1>0, <4>1, <4>2 DEF Owing
        <4>4. Got(q)' = Got(q) /\ Waits(q)' = Waits(q)
          BY <1>1, <1>6 DEF Got, Waits
        <4> QED BY <3>2, <4>3, <4>4
      <3>7. \A i \in 1..MaxDeposits : owed'[i] \subseteq minted' /\ (i > committed' => owed'[i] = {})
        BY <1>0, <1>1, <2>o DEF Owing
      <3> QED BY <3>5, <3>6, <3>7 DEF Owing
    <2> QED BY <1>3, <1>4, <2>1, <2>2, <2>3 DEF RoadInv, Shape
  <1> QED BY <1>1, <1>5, <1>6

\* The reply of a collect handed to its page, or lost with a page that has gone.
LEMMA DrainStep ==
    ASSUME RoadInv, NEW r, CollectDrain(r)
    PROVE  RoadInv'
  <1>0. /\ IndexInv /\ RowShape /\ DepositShape /\ RequestShape
        /\ Indexed /\ Controlled /\ Mail /\ Owing /\ Rest
        /\ committed \in Nat /\ committed \in 0..MaxDeposits /\ MaxDeposits \in Nat
        /\ \A d \in Slots : d.id \in 1..MaxDeposits /\ d \in Batch
    BY Parts
  <1>r. r \in DOMAIN request /\ request[r].pc = "collecting"
    BY DEF CollectDrain, At
  <1>f. /\ request[r] \in RequestType /\ request[r].page \in Page
        /\ request[r].reply \in Seq(Batch) /\ request[r].own_dbevents \in Seq(Batch)
        /\ <<>> \in Seq(Batch)
    BY <1>0, <1>r, RequestFields
  <1>p. PICK page \in Page, reply \in Seq(Batch), own \in Seq(Batch), left \in Seq(Batch) :
           /\ page = request[r].page /\ reply = request[r].reply /\ own = request[r].own_dbevents
           /\ left = IF page \in DOMAIN rows THEN <<>> ELSE own
    BY <1>f
  <1> DEFINE rec == [request[r] EXCEPT !.pc = "running", !.reply = <<>>, !.own_dbevents = left]
  <1>1. /\ \/ /\ page \in DOMAIN rows
              /\ delivered' = [delivered EXCEPT ![page] = delivered[page] \o reply \o own]
           \/ /\ page \notin DOMAIN rows
              /\ UNCHANGED delivered
        /\ UNCHANGED <<indexVars, page_dbevent_map, committed, owed>>
        /\ UNCHANGED <<rows, minted, parcels, leaving, slept>>
    BY <1>p DEF CollectDrain, deskVars, queueVars, freezerVars
  <1>b. Becomes(r, rec)
    <2>1. CASE page \in DOMAIN rows
      BY <1>p, <2>1 DEF CollectDrain
    <2>2. CASE page \notin DOMAIN rows
      <3>1. rec = [request[r] EXCEPT !.pc = "running", !.reply = <<>>]
        BY <1>f, <1>p, <2>2 DEF RequestType
      <3> HIDE DEF rec
      <3> QED BY <1>p, <2>2, <3>1 DEF CollectDrain
    <2> QED BY <2>1, <2>2
  <1>2. /\ rec \in RequestType
        /\ rec.page = page /\ rec.events = request[r].events /\ rec.pc = "running"
        /\ rec.dbevents = request[r].dbevents /\ rec.own_dbevents = left /\ rec.reply = <<>>
    BY <1>f, <1>p DEF RequestType, Phase
  <1> HIDE DEF rec
  <1>3. /\ RequestShape' /\ DOMAIN request' = DOMAIN request /\ request'[r] = rec
        /\ \A s \in DOMAIN request : s # r => request'[s] = request[s]
    BY <1>0, <1>2, <1>b, <1>r, GoesOn
  <1>4. /\ IndexInv' /\ RowShape' /\ Indexed' /\ Controlled' /\ Rest' /\ Alive' = Alive
        /\ \A t : pages_for(t)' = pages_for(t)
    BY <1>1, <1>2, <1>3, <1>p, <1>r, MailStep
  <1>d. delivered \in [Page -> Seq(Batch)]
    BY <1>0 DEF DepositShape
  <1>5. DepositShape'
    <2>1. delivered[page] \o reply \o own \in Seq(Batch)
      BY <1>d
    <2>2. delivered' \in [Page -> Seq(Batch)]
      BY <1>1, <1>d, <2>1
    <2> QED BY <1>0, <1>1, <2>2 DEF DepositShape
  <1>6. Mail'
    <2>1. CASE page \in DOMAIN rows
      <3>1. /\ delivered' = [delivered EXCEPT ![page] =
                                @ \o request[r].reply \o request[r].own_dbevents]
            /\ request'[r].own_dbevents = <<>>
        BY <1>1, <1>2, <1>3, <1>p, <2>1
      <3> QED BY <1>0, <1>1, <1>2, <1>3, <1>d, <1>p, <1>r, <3>1, DrainedMail
    <2>2. CASE page \notin DOMAIN rows
      <3>1. \A s \in DOMAIN request' : Keeps(s) \/ Empty(s)
        BY <1>2, <1>3, <1>p, <2>2 DEF Keeps
      <3>2. committed' \in Nat /\ committed <= committed' /\ UNCHANGED delivered
        BY <1>0, <1>1, <2>2
      <3> QED BY <1>0, <1>1, <3>1, <3>2, NothingMoves
    <2> QED BY <2>1, <2>2
  <1>7. Owing'
    <2>1. \A s \in DOMAIN request : /\ Slot(s)' = Slot(s) /\ request'[s].page = request[s].page
                                    /\ request'[s].dbevents = request[s].dbevents
                                    /\ s # r => Reply(s)' = Reply(s)
      BY <1>2, <1>3, <1>p DEF Slot, Reply
    <2>2. (\A i : i \in InSlots' <=> i \in InSlots) /\ (\A d : d \in Slots' <=> d \in Slots)
      BY <1>3, <2>1, HeldIn, HeldInNext
    <2>3. \A q : \A i : i \in InReplies(q) =>
             i \in InReplies(q)' \/ (q = page /\ i \in Reply(r))
      BY <1>3, <1>p, <2>1, HeldIn, HeldInNext
    <2>4. /\ \A q \in Page : Got(q) \subseteq Got(q)'
          /\ page \in DOMAIN rows => Reply(r) \subseteq Got(page)'
      <3>1. CASE page \in DOMAIN rows
        <4> DEFINE first == delivered[page] \o reply
        <4>1. /\ first \in Seq(Batch) /\ delivered'[page] = first \o own
              /\ \A q \in Page : q # page => delivered'[q] = delivered[q]
          BY <1>1, <1>d, <3>1
        <4>2. Ids(first) = Ids(delivered[page]) \cup Ids(reply)
          BY <1>d, OneAfterAnother
        <4> HIDE DEF first
        <4>3. Ids(first \o own) = Ids(first) \cup Ids(own)
          BY <4>1, OneAfterAnother
        <4> QED BY <1>p, <4>1, <4>2, <4>3 DEF Got, Reply
      <3>2. CASE page \notin DOMAIN rows
        BY <1>1, <3>2 DEF Got
      <3> QED BY <3>1, <3>2
    <2>5. page \in Alive => page \in DOMAIN rows
      BY <1>0, <1>p, <1>r DEF Controlled, Control, Alive
    <2>6. ASSUME NEW i \in 1..committed', NEW q \in Alive', i \notin InSlots', q \in owed'[i]
          PROVE  i \in Got(q)' \cup Waits(q)' \cup InReplies(q)'
      <3>1. i \in 1..committed /\ q \in Alive /\ q \in owed[i] /\ i \notin InSlots /\ q \in Page
        BY <1>0, <1>1, <1>4, <2>2, <2>6 DEF RowShape
      <3>2. i \in Got(q) \cup Waits(q) \cup InReplies(q)
        BY <1>0, <3>1 DEF Owing
      <3>3. Waits(q)' = Waits(q)
        BY <1>1 DEF Waits
      <3> QED BY <2>3, <2>4, <2>5, <3>1, <3>2, <3>3
    <2>7. \A d \in Slots' : owed'[d.id] \subseteq pages_for(d.table)'
      BY <1>0, <1>1, <1>4, <2>2 DEF Owing
    <2>8. \A i \in 1..MaxDeposits : owed'[i] \subseteq minted' /\ (i > committed' => owed'[i] = {})
      BY <1>0, <1>1 DEF Owing
    <2> QED BY <2>6, <2>7, <2>8 DEF Owing
  <1> QED BY <1>3, <1>4, <1>5, <1>6, <1>7 DEF RoadInv, Shape

\* A subscription the desk refused: the request fails and holds what it held.
LEMMA SubscribeRefusedStep ==
    ASSUME RoadInv, NEW r, SubscribeTableRefused(r)
    PROVE  RoadInv'
  <1>0. RequestShape /\ Controlled
    BY Parts
  <1>1. /\ r \in DOMAIN request /\ request[r].pc = "subscribing"
        /\ Becomes(r, [request[r] EXCEPT !.pc = "failed", !.call = <<>>])
        /\ UNCHANGED <<indexVars, page_dbevent_map, committed, delivered, owed>>
        /\ UNCHANGED <<rows, minted, parcels, leaving, slept>>
    BY DEF SubscribeTableRefused, At, deskVars, queueVars, untouched, freezerVars
  <1>2. /\ RequestShape' /\ DOMAIN request' = DOMAIN request
        /\ \A s \in DOMAIN request : s # r => request'[s] = request[s]
        /\ Same(r) /\ request'[r].events = request[r].events
        /\ request'[r].pc = "failed"
    <2>1. "failed" \in Phase /\ <<>> \in Seq(Table \cup BOOLEAN)
      BY DEF Phase
    <2> QED BY <1>0, <1>1, <2>1, StepsOn
  <1>3. \A s \in DOMAIN request : Same(s)
    BY <1>2 DEF Same
  <1>4. IndexInv' /\ DepositShape' /\ Indexed' /\ Mail' /\ Owing'
    <2>1. Alive' = Alive
      BY <1>1 DEF Alive
    <2> QED BY <1>1, <1>2, <1>3, <2>1, StillStep
  <1>5. RowShape' /\ Controlled' /\ Rest'
    <2>1. request[r].reply = <<>>
      BY <1>0, <1>1 DEF Controlled, Control
    <2> QED BY <1>1, <1>2, <2>1, MailStep DEF Same
  <1> QED BY <1>2, <1>4, <1>5 DEF RoadInv, Shape

\* A collect that fails with its reply: the page is owed none of it any longer.
LEMMA FailStep ==
    ASSUME RoadInv, NEW r, CollectFails(r)
    PROVE  RoadInv'
  <1>0. /\ DepositShape /\ RequestShape /\ Mail /\ Owing /\ RowShape
        /\ committed \in Nat /\ committed \in 0..MaxDeposits /\ MaxDeposits \in Nat
        /\ \A d \in Slots : d.id \in 1..MaxDeposits /\ d \in Batch
    BY Parts
  <1>r. r \in DOMAIN request /\ request[r].pc = "collecting"
    BY DEF CollectFails, At
  <1>f. /\ request[r] \in RequestType /\ request[r].page \in Page
        /\ request[r].own_dbevents \in Seq(Batch) /\ <<>> \in Seq(Batch)
    BY <1>0, <1>r, RequestFields
  <1>p. PICK own \in Seq(Batch) :
           /\ own = IF r \in userless THEN request[r].own_dbevents ELSE <<>>
    BY <1>f
  <1> DEFINE rec == [request[r] EXCEPT !.pc = "failed", !.reply = <<>>, !.own_dbevents = own]
             page == request[r].page
  <1>1. /\ Becomes(r, rec)
        /\ owed' = Forgone(page, request[r].reply)
        /\ UNCHANGED <<indexVars, page_dbevent_map, committed, delivered>>
        /\ UNCHANGED <<rows, minted, parcels, leaving, slept>>
    BY <1>p DEF CollectFails, deskVars, queueVars, freezerVars
  <1>2. /\ rec \in RequestType
        /\ rec.page = page /\ rec.events = request[r].events /\ rec.pc = "failed"
        /\ rec.dbevents = request[r].dbevents /\ rec.own_dbevents = own /\ rec.reply = <<>>
    BY <1>f, <1>p DEF RequestType, Phase
  <1> HIDE DEF rec
  <1>3. /\ RequestShape' /\ DOMAIN request' = DOMAIN request /\ request'[r] = rec
        /\ \A s \in DOMAIN request : s # r => request'[s] = request[s]
    BY <1>0, <1>1, <1>2, <1>r, GoesOn
  <1>4. /\ IndexInv' /\ RowShape' /\ Indexed' /\ Controlled' /\ Rest' /\ Alive' = Alive
        /\ \A t : pages_for(t)' = pages_for(t)
    BY <1>1, <1>2, <1>3, <1>r, MailStep
  <1>o. /\ owed' \in [1..MaxDeposits -> SUBSET Page]
        /\ \A i \in 1..MaxDeposits :
              /\ owed'[i] \subseteq owed[i]
              /\ \A q \in owed[i] : q # page => q \in owed'[i]
              /\ i \in Reply(r) => page \notin owed'[i]
    <2>1. owed \in [1..MaxDeposits -> SUBSET Page]
      BY <1>0 DEF DepositShape
    <2>2. \A i : i \in Reply(r) <=> \E d \in ToSet(request[r].reply) : d.id = i
      BY DEF Reply, Ids
    <2> QED BY <1>1, <2>1, <2>2 DEF Forgone
  <1>5. DepositShape'
    BY <1>0, <1>1, <1>o DEF DepositShape
  <1>6. Mail'
    <2>1. \A s \in DOMAIN request' : Keeps(s) \/ Empty(s)
      BY <1>2, <1>3, <1>p DEF Keeps
    <2> QED BY <1>0, <1>1, <2>1, NothingMoves
  <1>7. Owing'
    <2>1. \A s \in DOMAIN request : /\ Slot(s)' = Slot(s) /\ request'[s].page = request[s].page
                                    /\ request'[s].dbevents = request[s].dbevents
                                    /\ s # r => Reply(s)' = Reply(s)
      BY <1>2, <1>3 DEF Slot, Reply
    <2>2. (\A i : i \in InSlots' <=> i \in InSlots) /\ (\A d : d \in Slots' <=> d \in Slots)
      BY <1>3, <2>1, HeldIn, HeldInNext
    <2>3. \A q : \A i : i \in InReplies(q) =>
             i \in InReplies(q)' \/ (q = page /\ i \in Reply(r))
      BY <1>3, <2>1, HeldIn, HeldInNext
    <2>4. ASSUME NEW i \in 1..committed', NEW q \in Alive', i \notin InSlots', q \in owed'[i]
          PROVE  i \in Got(q)' \cup Waits(q)' \cup InReplies(q)'
      <3>1. i \in 1..committed /\ i \in 1..MaxDeposits
        BY <1>0, <1>1, <2>4
      <3>2. q \in Alive /\ i \notin InSlots
        BY <1>4, <2>2, <2>4
      <3>3. q \in owed[i] /\ ~(q = page /\ i \in Reply(r))
        BY <1>o, <2>4, <3>1
      <3>4. i \in Got(q) \cup Waits(q) \cup InReplies(q)
        BY <1>0, <3>1, <3>2, <3>3 DEF Owing
      <3>5. Waits(q)' = Waits(q) /\ Got(q)' = Got(q)
        BY <1>1 DEF Waits, Got
      <3> QED BY <2>3, <3>3, <3>4, <3>5
    <2>5. \A d \in Slots' : owed'[d.id] \subseteq pages_for(d.table)'
      BY <1>0, <1>4, <1>o, <2>2 DEF Owing
    <2>6. \A i \in 1..MaxDeposits : owed'[i] \subseteq minted' /\ (i > committed' => owed'[i] = {})
      BY <1>0, <1>1, <1>o DEF Owing
    <2> QED BY <2>4, <2>5, <2>6 DEF Owing
  <1> QED BY <1>3, <1>4, <1>5, <1>6, <1>7 DEF RoadInv, Shape
-----------------------------------------------------------------------------
(* The invariant and what follows from it. *)

LEMMA RoadInit == Init => RoadInv
  <1> SUFFICES ASSUME Init PROVE RoadInv
    OBVIOUS
  <1>1. /\ IndexInv /\ \A p \in Page : tables_for(p) = {}
        /\ \A t \in Table : pages_for(t) = {}
    <2>1. IndexInv
      BY EmptyIndex DEF Init
    <2>2. \A k : GetSet(table_pages, k) = {} /\ GetSet(page_tables, k) = {}
      BY DEF Init, IndexInit, GetSet
    <2> QED BY <2>1, <2>2 DEF tables_for, pages_for
  <1>2. /\ DOMAIN rows = {} /\ DOMAIN parcels = {} /\ DOMAIN request = {} /\ DOMAIN slept = {}
        /\ DOMAIN page_dbevent_map = {} /\ minted = {} /\ leaving = {} /\ committed = 0
        /\ owed = [i \in 1..MaxDeposits |-> {}] /\ delivered = [p \in Page |-> <<>>]
        /\ rows = EmptyMap /\ parcels = EmptyMap /\ request = EmptyMap
        /\ page_dbevent_map = EmptyMap
    BY DEF Init, DeskInit, EmptyMap
  <1>3. RowShape /\ RequestShape
    BY <1>2 DEF RowShape, RequestShape, Alive, EmptyMap
  <1>4. DepositShape
    <2>1. committed \in 0..MaxDeposits /\ <<>> \in Seq(Batch)
      BY <1>2, DepositsAssumption
    <2> QED BY <1>2, <2>1 DEF DepositShape, EmptyMap
  <1>5. Indexed
    BY <1>1 DEF Indexed
  <1>6. Controlled
    BY <1>2 DEF Controlled
  <1>7. \A p \in Page : delivered[p] = <<>> /\ Pending(page_dbevent_map, p) = <<>>
    BY <1>2 DEF Pending
  <1>8. Mail
    <2>1. Homes
      BY <1>2, <1>7, NoDeposits DEF Homes, HiddenStaysHome
    <2>2. Issued
      BY <1>2, <1>7, NoDeposits DEF Issued, Got, Waits
    <2>3. OnePlace
      BY <1>2, <1>7, NoDeposits DEF OnePlace, Got, Waits
    <2> QED BY <2>1, <2>2, <2>3 DEF Mail
  <1>9. Owing
    <2>1. \A i \in 1..MaxDeposits : owed[i] = {}
      BY <1>2
    <2>2. \A d : d \notin Slots
      BY <1>2, HeldIn
    <2>3. \A i : i \notin 1..committed
      BY <1>2
    <2> QED BY <2>1, <2>2, <2>3 DEF Owing
  <1>10. Rest
    BY <1>2 DEF Rest, Sleeping, WakeRestoresIndex
  <1> QED BY <1>1, <1>3, <1>4, <1>5, <1>6, <1>8, <1>9, <1>10 DEF RoadInv, Shape

LEMMA RoadNext == RoadInv /\ [Next]_vars => RoadInv'
  <1> SUFFICES ASSUME RoadInv, [Next]_vars PROVE RoadInv'
    OBVIOUS
  <1>1. ASSUME NEW r \in Request, NEW p \in Page, StartRequest(r, p)
        PROVE  RoadInv'
    BY <1>1, StartRequestStep
  <1>2. ASSUME NEW r \in Request, NEW p \in Page, NEW w \in Worker, StartRootPage(r, w, p)
        PROVE  RoadInv'
    BY <1>2, StartRootPageStep
  <1>3. ASSUME NEW r \in Request, NEW p \in Page, NEW w \in Worker, wake_page(r, w, p)
        PROVE  RoadInv'
    BY <1>3, WakeStep
  <1>4. ASSUME NEW p \in Page, freeze_page(p) \/ FoldFreeze(p)
        PROVE  RoadInv'
    BY <1>4, FreezeStep, FoldFreezeStep
  <1>5. ASSUME NEW r \in Request, Verb(r)
        PROVE  RoadInv'
    <2>1. ASSUME NEW t \in Table, notifyDbEvents(r, t) \/ notifyHidden(r, t)
          PROVE  RoadInv'
      BY <2>1, CommitStep
    <2>2. ASSUME NEW t \in Table, NEW opening \in BOOLEAN, subscribeTable(r, t, opening)
          PROVE  RoadInv'
      BY <2>2, SubscribeRowStep
    <2>3. ASSUME NEW p \in Page, worker_drop_page(r, p)
          PROVE  RoadInv'
      BY <2>3, WorkerDropStep
    <2>4. ASSUME NEW pages, change_connection_user(r, pages)
          PROVE  RoadInv'
      <3>1. /\ UNCHANGED <<indexVars, page_dbevent_map, committed, delivered, owed, request>>
            /\ UNCHANGED <<rows, minted, parcels, leaving, slept>>
        BY <2>4 DEF change_connection_user, deskVars, queueVars, freezerVars
      <3> QED BY <3>1, ElsewhereStep
    <2> QED BY <1>5, <2>1, <2>2, <2>3, <2>4 DEF Verb
  <1>6. ASSUME NEW r \in Request, collect_page(r) \/ Progress(r)
        PROVE  RoadInv'
    <2>1. CASE collect_page(r) \/ ExchangeRefused(r)
      BY <2>1, CollectStep
    <2>2. CASE SubscribeTableCall(r)
      BY <2>2, SubscribeCallStep
    <2>3. CASE ExchangeCall(r)
      BY <2>3, ExchangeStep
    <2>4. CASE CollectDrain(r)
      BY <2>4, DrainStep
    <2>5. CASE deliver_slot_deposits(r)
      BY <2>5, DeliverStep
    <2>6. CASE FoldEvent(r)
      BY <2>6, FoldEventStep
    <2>7. CASE EndRequest(r)
      BY <2>7, EndStep
    <2>8. CASE SubscribeTableRefused(r)
      BY <2>8, SubscribeRefusedStep
    <2>9. CASE CollectFails(r)
      BY <2>9, FailStep
    <2> QED BY <1>6, <2>1, <2>2, <2>3, <2>4, <2>5, <2>6, <2>7, <2>8, <2>9 DEF Progress
  <1>7. ASSUME NEW w \in Worker, Push(w)
        PROVE  RoadInv'
    <2>1. /\ UNCHANGED <<indexVars, page_dbevent_map, committed, delivered, owed, request>>
          /\ UNCHANGED <<rows, minted, parcels, leaving, slept>>
      BY <1>7 DEF Push, SendPush, ApplyPush, queueVars, requestVars, freezerVars
    <2> QED BY <2>1, ElsewhereStep
  <1>8. CASE UNCHANGED vars
    <2>1. /\ UNCHANGED <<indexVars, page_dbevent_map, committed, delivered, owed, request>>
          /\ UNCHANGED <<rows, minted, parcels, leaving, slept>>
      BY <1>8 DEF vars, filterVars, queueVars, indexVars, requestVars, freezerVars
    <2> QED BY <2>1, ElsewhereStep
  <1> QED BY <1>1, <1>2, <1>3, <1>4, <1>5, <1>6, <1>7, <1>8 DEF Next

\* Every state of the road satisfies the invariant: what a request may hold at
\* each of its steps, where each deposit is, who is still owed it, and what the
\* pages asleep are due, with any number of requests on any number of workers
\* beside each other (genropy_worker.py, delivery_desk.py).
THEOREM RoadInvariant == Spec => []RoadInv
  BY RoadInit, RoadNext, PTL DEF Spec

\* The rows carry tables and are of minted pages, awake or asleep and never
\* both, and the desk's index stays one relation whatever CALL overtakes the
\* events of its request (genropy_worker.py, delivery_desk.py).
THEOREM RoadTypeOK == Spec => []TypeOK
  <1>1. RoadInv => TypeOK
    BY DEF RoadInv, Shape, RowShape, DepositShape, Alive, TypeOK
  <1> QED BY RoadInvariant, <1>1, PTL

\* No page gets a deposit twice: collects that overlap, a request that fails
\* after its exchange and the delivery at the end of a request never leave a
\* deposit in two places (genropy_worker.py, collect_page and
\* deliver_slot_deposits).
THEOREM DepositsDeliveredOnce == Spec => []DeliveredOnce
  <1>1. RoadInv => DeliveredOnce
    <2> SUFFICES ASSUME RoadInv, NEW p \in Page
                 PROVE  /\ Distinct(delivered[p]) /\ Distinct(Pending(page_dbevent_map, p))
                        /\ Got(p) \cap (Waits(p) \cup InReplies(p) \cup InSlots) = {}
                        /\ Waits(p) \cap (InReplies(p) \cup InSlots) = {}
                        /\ InReplies(p) \cap InSlots = {}
      BY DEF DeliveredOnce, Got, Waits
    <2>0. OnePlace
      BY Parts DEF Mail
    <2>1. /\ Distinct(delivered[p]) /\ Distinct(Pending(page_dbevent_map, p))
          /\ Got(p) \cap Waits(p) = {}
      BY <2>0 DEF OnePlace
    <2>2. \A i \in InReplies(p) : i \notin Got(p) \cup Waits(p) /\ i \notin InSlots
      BY <2>0, HeldIn DEF OnePlace
    <2>3. \A i \in InSlots : i \notin Got(p) \cup Waits(p)
      BY <2>0, HeldIn DEF OnePlace
    <2> QED BY <2>1, <2>2, <2>3
  <1> QED BY RoadInvariant, <1>1, PTL

\* A deposit that passed the filter and has left its slot is on its way to every
\* page it is owed to, or delivered: neither exit of the slot loses it, nor a
\* refused exchange, nor a request that fails (genropy_worker.py, collect_page
\* and deliver_slot_deposits; delivery_desk.py, exchange and deposit).
THEOREM OwedIsNeverLost == Spec => []OwedIsOnItsWay
  <1>1. RoadInv => OwedIsOnItsWay
    <2> SUFFICES ASSUME RoadInv, NEW i \in 1..committed, NEW p \in DOMAIN rows,
                        i \notin InSlots, p \in owed[i]
                 PROVE  i \in Got(p) \cup Waits(p) \cup InReplies(p)
      BY DEF OwedIsOnItsWay, Got, Waits
    <2>1. p \in Alive /\ Owing
      BY Parts DEF Alive
    <2> QED BY <2>1 DEF Owing
  <1> QED BY RoadInvariant, <1>1, PTL

\* A deposit of a hidden transaction reaches the page that made it and nobody
\* else, and never waits at the desk (genropy_worker.py, notifyDbEvents with
\* local_only).
THEOREM HiddenNeverLeaves == Spec => []HiddenStaysHome
  <1>1. RoadInv => HiddenStaysHome
    BY DEF RoadInv, Mail, Homes
  <1> QED BY RoadInvariant, <1>1, PTL

\* A page wakes, on any worker, with the tables it slept with, on its row and
\* at the desk once its wake is folded, and has none at the desk while it
\* sleeps (genropy_register.py, replay_fields and announcement_fields).
THEOREM WakeIsFaithful == Spec => []WakeRestoresIndex
  <1>1. RoadInv => WakeRestoresIndex
    BY DEF RoadInv, Rest
  <1> QED BY RoadInvariant, <1>1, PTL
=============================================================================
