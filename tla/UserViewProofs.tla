--------------------------- MODULE UserViewProofs ---------------------------
(***************************************************************************)
(* The proofs about UserView, for any pages, Bags, paths, threads and      *)
(* number of writes.                                                       *)
(*                                                                         *)
(* ViewInv says where each view is at every line of a re-attachment and of *)
(* a drain, and where each write is on its way to the views; what          *)
(* UserView states of the moments the lock is free follows from it.        *)
(***************************************************************************)
EXTENDS UserView, FiniteSetTheorems, SequenceTheorems, NaturalsInduction, WellFoundedInduction, TLAPS

Collector == [page : Page, bag : Bag, paths : SUBSET Path, changes : Seq(Nat), attached : BOOLEAN]
Row == [store_subscriptions : SUBSET Path, user_view : Nat]
Loop == [pc : {"reattaching"}, pages : SUBSET Page, bag : Bag]

\* What a thread is in the middle of.
Work ==
    {Idle}
        \cup [pc : {"notifying"}, path : Path, write : Nat, left : SUBSET Nat]
        \cup [pc : {"draining"}, page : Page, changes : Seq(Nat)]
        \cup Loop
        \cup [pc : {"detached"}, page : Page, then : Loop]
        \cup [pc : {"feeding", "fed"}, page : Page, then : Loop, fed : Nat, fresh : Nat]

Shape ==
    /\ user \in {Guest, User}
    /\ \A u \in DOMAIN store : store[u] \in Bag
    /\ DOMAIN rows # {} => user \in DOMAIN store
    /\ carried \subseteq Bag
    /\ DOMAIN rows \subseteq Page /\ \A p \in DOMAIN rows : rows[p] \in Row
    /\ DOMAIN asleep \subseteq Page /\ \A p \in DOMAIN asleep : asleep[p] \in SUBSET Path
    /\ asleep # <<>> => DOMAIN rows = {}
    /\ collectors \in Seq(Collector)
    /\ \A p \in Viewing : rows[p].user_view \in DOMAIN collectors /\ View(p).page = p
    /\ thread \in [Thread -> Work]
    /\ writes \in Nat
    /\ captured \in [Page -> SUBSET Nat]
    /\ delivered \in [Page -> Seq(Nat)]

\* dispatch_lock has one holder.
Locks(t) == thread[t].pc \notin {"idle", "notifying"}
OneLocks == \A s, t \in Thread : Locks(s) /\ Locks(t) => s = t

\* Page p is in the hands of a re-attachment, or waits its turn in one.
Holds(t, p) == thread[t].pc \in {"detached", "feeding", "fed"} /\ thread[t].page = p
InHand(p) == \E t \in Thread : Holds(t, p)
Due(p) == \E t \in Thread : \/ At(t, "reattaching") /\ p \in thread[t].pages
                            \/ \E q \in Page : Holds(t, q) /\ p \in thread[t].then.pages
IsFresh(v) == \E t \in Thread : thread[t].pc \in {"feeding", "fed"} /\ thread[t].fresh = v

\* Every view watches what its row says; one that is not in hand is attached,
\* one that is not due is on the store; nothing else is attached.
Views ==
    /\ \A p \in DOMAIN rows : rows[p].store_subscriptions # {} => p \in Viewing
    /\ \A p \in Viewing : /\ View(p).paths = rows[p].store_subscriptions
                          /\ View(p).attached <=> ~InHand(p)
                          /\ View(p).bag = store[user] \/ Due(p)
    /\ \A v \in DOMAIN collectors :
          collectors[v].attached => (\E p \in Viewing : rows[p].user_view = v) \/ IsFresh(v)

\* What each line of the re-attachment and of the drain relies on.
LoopOK(loop) == loop.pages \subseteq Viewing /\ loop.bag = store[user]
FreshOK(w) ==
    /\ w.fresh \in DOMAIN collectors /\ w.fresh # rows[w.page].user_view
    /\ collectors[w.fresh].page = w.page /\ collectors[w.fresh].attached
    /\ collectors[w.fresh].bag = store[user]
    /\ collectors[w.fresh].paths = rows[w.page].store_subscriptions
InMotion ==
    \A t \in Thread :
        /\ At(t, "reattaching") => LoopOK(thread[t])
        /\ thread[t].pc \in {"detached", "feeding", "fed"} =>
              LoopOK(thread[t].then) /\ thread[t].page \in thread[t].then.pages
        /\ thread[t].pc \in {"feeding", "fed"} => FreshOK(thread[t])
        /\ At(t, "draining") => thread[t].page \in Viewing
        /\ At(t, "notifying") => thread[t].left \subseteq DOMAIN collectors

\* A change is once in what a page has had and in what its view holds.
Once(D, V) == IsInjective(D) /\ IsInjective(V) /\ ToSet(D) \cap ToSet(V) = {}

\* No page has had write n from any of its views.
NotYet(n, p) ==
    /\ n \notin ToSet(delivered[p])
    /\ \A v \in DOMAIN collectors : collectors[v].page = p => n \notin ToSet(collectors[v].changes)

\* Every number is a write that was made; a write is on its way to one view of
\* a page at most, and to none that has had it.
OnTheWay ==
    /\ \A p \in Page : \A n \in ToSet(delivered[p]) : n <= writes
    /\ \A v \in DOMAIN collectors : \A n \in ToSet(collectors[v].changes) : n <= writes
    /\ \A t \in Thread : At(t, "notifying") =>
          /\ thread[t].write <= writes
          /\ \A v \in thread[t].left : NotYet(thread[t].write, collectors[v].page)
          /\ \A v, w \in thread[t].left : collectors[v].page = collectors[w].page => v = w
    /\ \A s, t \in Thread : At(s, "notifying") /\ At(t, "notifying") /\ s # t =>
          thread[s].write # thread[t].write

\* The first elements of a list.
Heads(s, r) == Len(s) <= Len(r) /\ \A i \in 1..Len(s) : s[i] = r[i]

\* What is fed has left the part of the old list still to be read.
FeedOK(t) ==
    LET D == delivered[thread[t].page]  V == OldChanges(t)  F == collectors[thread[t].fresh].changes
    IN  /\ Once(D, F)
        /\ thread[t].fed \in 0..Len(V)
        /\ \A i \in thread[t].fed + 1..Len(V) : V[i] \notin ToSet(F)

Given ==
    /\ \A p \in Page : IsInjective(delivered[p])
    /\ \A p \in Viewing : Once(delivered[p], View(p).changes)
    /\ \A t \in Thread : /\ At(t, "draining") => Heads(thread[t].changes, View(thread[t].page).changes)
                         /\ thread[t].pc \in {"feeding", "fed"} => FeedOK(t)

ViewInv == Shape /\ OneLocks /\ Views /\ InMotion

\* C is what is in D and V, in order, all of D before all of V.
Rising(s) == \A i, j \in DOMAIN s : i < j => s[i] < s[j]
Whole(C, D, V) ==
    /\ C = ToSet(D) \cup ToSet(V)
    /\ Rising(D) /\ Rising(V)
    /\ \A m \in ToSet(D), n \in ToSet(V) : m < n

\* A writer at work is the only one, and calls the views of the pages.
Lone(t) ==
    /\ \A s \in Thread : s # t => At(s, "idle")
    /\ thread[t].write = writes
    /\ \A v \in thread[t].left :
          LET p == collectors[v].page
          IN  (p \in Viewing /\ rows[p].user_view = v) \/ p \notin DOMAIN rows \cup DOMAIN asleep

\* What a drain has read and a re-attachment has fed.
Kept(t) ==
    /\ At(t, "draining") => thread[t].changes = View(thread[t].page).changes
    /\ At(t, "feeding") => /\ Len(collectors[thread[t].fresh].changes) = thread[t].fed
                           /\ Heads(collectors[thread[t].fresh].changes, OldChanges(t))
    /\ At(t, "fed") => collectors[thread[t].fresh].changes = OldChanges(t)

\* No write has run beside another operation.
Alone ==
    /\ \A t \in Thread : (At(t, "notifying") => Lone(t)) /\ Kept(t)
    /\ \A p \in Viewing : Whole(captured[p], delivered[p], View(p).changes)
    /\ \A p \in (DOMAIN rows \ Viewing) \cup DOMAIN asleep : Whole(captured[p], delivered[p], <<>>)

AloneInv == overlapped \in BOOLEAN /\ (~overlapped => Alone)
-----------------------------------------------------------------------------
(* Collectors and threads, one replaced at a time. *)

LEMMA SmallestOf ==
    ASSUME NEW S \in SUBSET Nat, S # {}
    PROVE  Min(S) \in S
  <1> DEFINE R == {ss \in Nat \X Nat : ss[1] < ss[2]}
  <1>1. IsWellFoundedOn(R, Nat)
    BY NatLessThanWellFounded DEF OpToRel
  <1>2. PICK x \in S : \A y \in S : <<y, x>> \notin R
    <2> HIDE DEF R
    <2> QED BY <1>1, WFMin
  <1>3. ASSUME NEW y \in S PROVE x <= y
    <2>1. ~(y < x)
      <3> SUFFICES ASSUME y < x PROVE <<y, x>> \in R
        BY <1>2
      <3> QED OBVIOUS
    <2> QED BY <2>1
  <1> QED BY <1>3 DEF Min

LEMMA CollectorParts ==
    ASSUME NEW c \in Collector
    PROVE  /\ c.page \in Page /\ c.bag \in Bag /\ c.paths \in SUBSET Path
           /\ c.changes \in Seq(Nat) /\ c.attached \in BOOLEAN
           /\ Detached(c) \in Collector /\ ~Detached(c).attached
           /\ Detached(c).page = c.page /\ Detached(c).bag = c.bag
           /\ Detached(c).paths = c.paths /\ Detached(c).changes = c.changes
  BY DEF Collector, Detached

LEMMA DepositedParts ==
    ASSUME NEW c \in Collector, NEW n \in Nat
    PROVE  /\ Deposited(c, n) \in Collector /\ Deposited(c, n).changes = Append(c.changes, n)
           /\ Deposited(c, n).page = c.page /\ Deposited(c, n).bag = c.bag
           /\ Deposited(c, n).paths = c.paths /\ Deposited(c, n).attached = c.attached
  <1>1. Append(c.changes, n) \in Seq(Nat)
    BY CollectorParts
  <1> QED BY <1>1 DEF Collector, Deposited

LEMMA NewParts ==
    ASSUME NEW p \in Page, NEW bag \in Bag, NEW paths \in SUBSET Path
    PROVE  /\ NewCollector(p, bag, paths) \in Collector
           /\ NewCollector(p, bag, paths).page = p /\ NewCollector(p, bag, paths).bag = bag
           /\ NewCollector(p, bag, paths).paths = paths
           /\ NewCollector(p, bag, paths).changes = <<>> /\ NewCollector(p, bag, paths).attached
  BY EmptySeq DEF NewCollector, Collector

\* One collector replaced, and one more.
LEMMA OneReplaced ==
    ASSUME collectors \in Seq(Collector), NEW v \in DOMAIN collectors, NEW c \in Collector
    PROVE  /\ [collectors EXCEPT ![v] = c] \in Seq(Collector)
           /\ DOMAIN [collectors EXCEPT ![v] = c] = DOMAIN collectors
           /\ [collectors EXCEPT ![v] = c][v] = c
           /\ \A w \in DOMAIN collectors : w # v => [collectors EXCEPT ![v] = c][w] = collectors[w]
           /\ collectors[v] \in Collector
  BY ExceptSeq, LenProperties

LEMMA OneMore ==
    ASSUME collectors \in Seq(Collector), NEW c \in Collector
    PROVE  /\ Append(collectors, c) \in Seq(Collector)
           /\ Len(Append(collectors, c)) = Len(collectors) + 1 /\ Len(collectors) \in Nat
           /\ Len(collectors) + 1 \notin DOMAIN collectors
           /\ DOMAIN Append(collectors, c) = DOMAIN collectors \cup {Len(collectors) + 1}
           /\ Append(collectors, c)[Len(collectors) + 1] = c
           /\ \A w \in DOMAIN collectors : Append(collectors, c)[w] = collectors[w]
  <1>1. Len(collectors) \in Nat /\ DOMAIN collectors = 1..Len(collectors)
    BY LenProperties
  <1> QED BY <1>1, AppendProperties, LenProperties

\* t is in the middle of w after this step, and the others are where they were.
Moves(t, w) ==
    /\ thread' \in [Thread -> Work]
    /\ thread'[t] = w
    /\ \A s \in Thread : s # t => thread'[s] = thread[s]

LEMMA WorkMoves ==
    ASSUME thread \in [Thread -> Work], NEW t \in Thread, NEW w \in Work,
           thread' = [thread EXCEPT ![t] = w]
    PROVE  Moves(t, w)
  BY DEF Moves

LEMMA WorkParts ==
    ASSUME NEW w \in Work
    PROVE  /\ w.pc \in {"idle", "notifying", "draining", "reattaching", "detached", "feeding", "fed"}
           /\ w.pc = "notifying" => w.path \in Path /\ w.write \in Nat /\ w.left \in SUBSET Nat
           /\ w.pc = "draining" => w.page \in Page /\ w.changes \in Seq(Nat)
           /\ w.pc = "reattaching" => w \in Loop
           /\ w.pc \in {"detached", "feeding", "fed"} => w.page \in Page /\ w.then \in Loop
           /\ w.pc \in {"feeding", "fed"} => w.fed \in Nat /\ w.fresh \in Nat
  BY DEF Work, Idle, Loop

LEMMA WorkMade ==
    /\ Idle \in Work /\ Idle.pc = "idle"
    /\ \A path \in Path, n \in Nat, left \in SUBSET Nat :
          [pc |-> "notifying", path |-> path, write |-> n, left |-> left] \in Work
    /\ \A p \in Page, changes \in Seq(Nat) : [pc |-> "draining", page |-> p, changes |-> changes] \in Work
    /\ Loop \subseteq Work
    /\ \A pages \in SUBSET Page, bag \in Bag : Reattaching(pages, bag) \in Loop
    /\ \A p \in Page, loop \in Loop : [pc |-> "detached", page |-> p, then |-> loop] \in Work
    /\ \A p \in Page, loop \in Loop, pc \in {"feeding", "fed"}, k \in Nat, v \in Nat :
          [pc |-> pc, page |-> p, then |-> loop, fed |-> k, fresh |-> v] \in Work
  BY DEF Work, Idle, Loop, Reattaching
-----------------------------------------------------------------------------
(* The views while dispatch_lock is free. *)

Settled ==
    /\ \A p \in DOMAIN rows : rows[p].store_subscriptions # {} => p \in Viewing
    /\ \A p \in Viewing : /\ View(p).attached
                          /\ View(p).bag = store[user]
                          /\ View(p).paths = rows[p].store_subscriptions
    /\ \A v \in DOMAIN collectors :
          collectors[v].attached => \E p \in Viewing : rows[p].user_view = v

LEMMA FreeIsSettled ==
    ASSUME Unlocked, Views
    PROVE  Settled
  <1>1. \A p : ~InHand(p) /\ ~Due(p)
    BY DEF Unlocked, InHand, Holds, Due, At
  <1>2. \A v : ~IsFresh(v)
    BY DEF Unlocked, IsFresh
  <1> QED BY <1>1, <1>2 DEF Views, Settled

LEMMA SettledIsKept ==
    ASSUME ViewInv, Unlocked, thread' = thread, DOMAIN collectors \subseteq DOMAIN collectors',
           Shape', Settled'
    PROVE  ViewInv'
  <1>1. \A s \in Thread : thread'[s].pc \in {"idle", "notifying"}
    BY DEF Unlocked
  <1>2. OneLocks' /\ InMotion'
    BY <1>1 DEF ViewInv, OneLocks, Locks, InMotion, At
  <1>3. (\A p : ~InHand(p)' /\ ~Due(p)') /\ \A v : ~IsFresh(v)'
    BY <1>1 DEF InHand, Holds, Due, At, IsFresh
  <1>4. Views'
    BY <1>3 DEF Settled, Views
  <1> QED BY <1>2, <1>4 DEF ViewInv
-----------------------------------------------------------------------------
(* The site's writes: no line of theirs moves a view. *)

\* The collectors keep all but their changes.
SameViews ==
    /\ collectors' \in Seq(Collector) /\ DOMAIN collectors' = DOMAIN collectors
    /\ \A v \in DOMAIN collectors :
          /\ collectors'[v].page = collectors[v].page /\ collectors'[v].bag = collectors[v].bag
          /\ collectors'[v].paths = collectors[v].paths
          /\ collectors'[v].attached = collectors[v].attached

Free(w) == w.pc \in {"idle", "notifying"}

LEMMA WriterKeepsViews ==
    ASSUME ViewInv, NEW t \in Thread, NEW w, Free(thread[t]), Free(w), Moves(t, w), SameViews,
           w.pc = "notifying" => w.left \subseteq DOMAIN collectors,
           UNCHANGED <<user, store, carried, rows, asleep>>, writes' \in Nat,
           captured' \in [Page -> SUBSET Nat], delivered' \in [Page -> Seq(Nat)]
    PROVE  ViewInv'
  <1>0. Shape /\ OneLocks /\ Views /\ InMotion
    BY DEF ViewInv
  <1>1. \A s \in Thread : \/ Free(thread[s]) /\ Free(thread'[s]) 
                          \/ thread'[s] = thread[s]
    BY DEF Moves
  <1>2. /\ \A s \in Thread : Locks(s)' <=> Locks(s)
        /\ \A s \in Thread, p \in Page : Holds(s, p)' <=> Holds(s, p)
        /\ \A s \in Thread : ~Free(thread[s]) \/ ~Free(thread'[s]) => thread'[s] = thread[s]
    BY <1>1 DEF Locks, Holds, Free
  <1>3. /\ \A p \in Page : InHand(p)' <=> InHand(p)
        /\ \A p : Due(p)' <=> Due(p)
        /\ \A v : IsFresh(v)' <=> IsFresh(v)
    BY <1>2 DEF InHand, Holds, Due, At, IsFresh, Free
  <1>4. Viewing' = Viewing /\ \A p \in Viewing : rows[p].user_view \in DOMAIN collectors /\ p \in Page
    BY <1>0 DEF Viewing, Shape
  <1>5. \A p \in Viewing : /\ View(p)'.page = View(p).page /\ View(p)'.bag = View(p).bag
                           /\ View(p)'.paths = View(p).paths /\ View(p)'.attached = View(p).attached
    BY <1>4 DEF View, SameViews
  <1>6. Shape'
    BY <1>0, <1>4, <1>5 DEF Shape, Moves, SameViews
  <1>7. OneLocks'
    BY <1>0, <1>2 DEF OneLocks
  <1>8. Views'
    BY <1>0, <1>3, <1>4, <1>5 DEF Views, SameViews
  <1>9. InMotion'
    <2>1. ASSUME NEW s \in Thread, ~Free(thread'[s])
          PROVE  /\ At(s, "reattaching")' => LoopOK(thread[s])'
                 /\ thread'[s].pc \in {"detached", "feeding", "fed"} =>
                       LoopOK(thread[s].then)' /\ thread'[s].page \in thread'[s].then.pages
                 /\ thread'[s].pc \in {"feeding", "fed"} => FreshOK(thread[s])'
                 /\ At(s, "draining")' => thread'[s].page \in Viewing'
      <3>1. thread'[s] = thread[s]
        BY <1>2, <2>1
      <3>2. At(s, "reattaching")' => LoopOK(thread[s])'
        BY <1>0, <1>4, <3>1 DEF InMotion, At, LoopOK
      <3>3. thread'[s].pc \in {"detached", "feeding", "fed"} =>
                       LoopOK(thread[s].then)' /\ thread'[s].page \in thread'[s].then.pages
        BY <1>0, <1>4, <3>1 DEF InMotion, LoopOK
      <3>4. thread'[s].pc \in {"feeding", "fed"} => FreshOK(thread[s])'
        BY <1>0, <3>1 DEF InMotion, FreshOK, SameViews
      <3>5. At(s, "draining")' => thread'[s].page \in Viewing'
        BY <1>0, <1>4, <3>1 DEF InMotion, At
      <3> QED BY <3>2, <3>3, <3>4, <3>5
    <2>2. ASSUME NEW s \in Thread, At(s, "notifying")'
          PROVE  thread'[s].left \subseteq DOMAIN collectors'
      <3>1. CASE s = t
        BY <2>2, <3>1 DEF Moves, At, SameViews
      <3>2. CASE s # t
        BY <1>0, <2>2, <3>2 DEF Moves, At, SameViews, InMotion
      <3> QED BY <3>1, <3>2
    <2> QED BY <2>1, <2>2 DEF InMotion, At, Free
  <1> QED BY <1>6, <1>7, <1>8, <1>9 DEF ViewInv

LEMMA SameCollectors ==
    ASSUME Shape, collectors' = collectors
    PROVE  SameViews
  BY DEF Shape, SameViews

LEMMA SetItemStep ==
    ASSUME ViewInv, NEW t \in Thread, NEW u, NEW path \in Path, setItem(t, u, path)
    PROVE  ViewInv'
  <1> DEFINE w == [pc |-> "notifying", path |-> path, write |-> writes + 1,
                   left |-> Subscribers(ensure_item_data(u)[u])]
  <1>0. Shape
    BY DEF ViewInv
  <1>1. /\ Subscribers(ensure_item_data(u)[u]) \in SUBSET Nat /\ writes + 1 \in Nat
        /\ Subscribers(ensure_item_data(u)[u]) \subseteq DOMAIN collectors
    BY <1>0, LenProperties DEF Shape, Subscribers
  <1>2. w \in Work /\ Free(w) /\ w.left \subseteq DOMAIN collectors
    <2> HIDE DEF Shape
    <2> QED BY <1>1, WorkMade DEF Free
  <1>3. Free(thread[t]) /\ thread' = [thread EXCEPT ![t] = w]
    BY DEF setItem, At, Free
  <1> HIDE DEF w
  <1>4. Moves(t, w)
    BY <1>0, <1>2, <1>3, WorkMoves DEF Shape
  <1>5. UNCHANGED <<user, store, carried, rows, asleep, collectors, captured, delivered>> /\ writes' = writes + 1
    BY DEF setItem
  <1> QED BY <1>0, <1>2, <1>3, <1>4, <1>5, SameCollectors, WriterKeepsViews DEF Shape

\* on_event, by its parts.
LEMMA EventEffect ==
    ASSUME Shape, InMotion, NEW t \in Thread, on_event(t)
    PROVE  LET v == Min(thread[t].left)  n == thread[t].write
               w == [thread[t] EXCEPT !.left = @ \ {v}]
           IN  /\ At(t, "notifying") /\ v \in thread[t].left /\ v \in DOMAIN collectors /\ n \in Nat
               /\ w \in Work /\ w.pc = "notifying" /\ w.write = n /\ w.left = thread[t].left \ {v}
               /\ w.path = thread[t].path
               /\ Moves(t, w)
               /\ collectors' = collectors
                     \/ collectors' = [collectors EXCEPT ![v] = Deposited(collectors[v], n)]
               /\ SameViews
  <1> DEFINE v == Min(thread[t].left)
             n == thread[t].write
             w == [thread[t] EXCEPT !.left = @ \ {v}]
  <1>1. At(t, "notifying") /\ thread[t].left # {} /\ thread[t] \in Work
    BY DEF on_event, Shape
  <1>2. thread[t].path \in Path /\ n \in Nat /\ thread[t].left \in SUBSET Nat
    BY <1>1, WorkParts DEF At
  <1>3. v \in thread[t].left /\ v \in DOMAIN collectors
    BY <1>1, <1>2, SmallestOf DEF InMotion
  <1>4. thread[t] \in [pc : {"notifying"}, path : Path, write : Nat, left : SUBSET Nat]
    BY <1>1 DEF Work, Idle, Loop, At
  <1>5. w \in Work /\ w.pc = "notifying" /\ w.write = n /\ w.left = thread[t].left \ {v} /\ w.path = thread[t].path
    BY <1>4 DEF Work
  <1>6. thread' = [thread EXCEPT ![t] = w]
    BY DEF on_event
  <1> HIDE DEF w
  <1>7. Moves(t, w)
    BY <1>5, <1>6, WorkMoves DEF Shape
  <1>8. collectors' = collectors \/ collectors' = [collectors EXCEPT ![v] = Deposited(collectors[v], n)]
    BY DEF on_event
  <1>9. SameViews
    <2> HIDE DEF v, n
    <2>1. CASE collectors' = collectors
      BY <2>1, SameCollectors
    <2>2. CASE collectors' = [collectors EXCEPT ![v] = Deposited(collectors[v], n)]
      <3>1. collectors \in Seq(Collector) /\ collectors[v] \in Collector
        BY <1>3, OneReplaced, LenProperties, ElementOfSeq DEF Shape
      <3>2. /\ Deposited(collectors[v], n) \in Collector
            /\ Deposited(collectors[v], n).page = collectors[v].page
            /\ Deposited(collectors[v], n).bag = collectors[v].bag
            /\ Deposited(collectors[v], n).paths = collectors[v].paths
            /\ Deposited(collectors[v], n).attached = collectors[v].attached
        BY <1>2, <3>1, DepositedParts DEF n
      <3>3. /\ collectors' \in Seq(Collector) /\ DOMAIN collectors' = DOMAIN collectors
            /\ collectors'[v] = Deposited(collectors[v], n)
            /\ \A x \in DOMAIN collectors : x # v => collectors'[x] = collectors[x]
        BY <1>3, <2>2, <3>1, <3>2, OneReplaced
      <3> QED BY <3>2, <3>3 DEF SameViews
    <2> QED BY <1>8, <2>1, <2>2
  <1> QED BY <1>1, <1>2, <1>3, <1>5, <1>7, <1>8, <1>9 DEF w

LEMMA EventStep ==
    ASSUME ViewInv, NEW t \in Thread, on_event(t)
    PROVE  ViewInv'
  <1> DEFINE v == Min(thread[t].left)
             w == [thread[t] EXCEPT !.left = @ \ {v}]
  <1>0. Shape /\ InMotion
    BY DEF ViewInv
  <1>1. /\ At(t, "notifying") /\ v \in DOMAIN collectors /\ thread[t].write \in Nat
        /\ w.pc = "notifying" /\ w.left = thread[t].left \ {v} /\ Moves(t, w) /\ SameViews
    BY <1>0, EventEffect
  <1>2. w.left \subseteq DOMAIN collectors
    BY <1>0, <1>1 DEF InMotion
  <1>3. captured' \in [Page -> SUBSET Nat]
    <2>1. collectors[v].page \in Page
      BY <1>0, <1>1, LenProperties, ElementOfSeq, CollectorParts DEF Shape
    <2>2. \/ captured' = captured
          \/ captured' = [captured EXCEPT ![collectors[v].page] = @ \cup {thread[t].write}]
      BY DEF on_event
    <2>3. captured \in [Page -> SUBSET Nat] /\ thread[t].write \in Nat
      BY <1>0, <1>1 DEF Shape
    <2> HIDE DEF v
    <2> QED BY <2>1, <2>2, <2>3
  <1> HIDE DEF w
  <1>4. Free(thread[t]) /\ Free(w)
    BY <1>1 DEF At, Free
  <1>5. UNCHANGED <<user, store, carried, rows, asleep, writes, delivered>>
    BY DEF on_event, rowVars
  <1> QED BY <1>0, <1>1, <1>2, <1>3, <1>4, <1>5, WriterKeepsViews DEF Shape

LEMMA WriteEndsStep ==
    ASSUME ViewInv, NEW t \in Thread, WriteEnds(t)
    PROVE  ViewInv'
  <1>0. Shape
    BY DEF ViewInv
  <1>1. Free(thread[t]) /\ Free(Idle) /\ Idle.pc # "notifying" /\ Moves(t, Idle)
    BY <1>0, WorkMade, WorkMoves DEF WriteEnds, Ends, At, Free, Shape
  <1>2. UNCHANGED <<user, store, carried, rows, asleep, collectors, writes, captured, delivered>>
    BY DEF WriteEnds, rowVars, historyVars
  <1> QED BY <1>0, <1>1, <1>2, SameCollectors, WriterKeepsViews DEF Shape
-----------------------------------------------------------------------------
(* Subscriptions, drops, freeze and wake: the lock is free before and after. *)

\* What a step under the lock, from end to end, starts from.
LEMMA FreeStart ==
    ASSUME ViewInv, Unlocked
    PROVE  /\ Shape /\ Settled /\ collectors \in Seq(Collector)
           /\ DOMAIN rows \subseteq Page /\ \A p \in DOMAIN rows : rows[p] \in Row
           /\ \A p \in Viewing : /\ p \in DOMAIN rows /\ rows[p].user_view \in DOMAIN collectors
                                 /\ collectors[rows[p].user_view].page = p
           /\ \A v \in DOMAIN collectors : collectors[v] \in Collector
           /\ NoView \notin DOMAIN collectors
  <1>1. Shape /\ Settled /\ collectors \in Seq(Collector)
    BY FreeIsSettled DEF ViewInv, Shape
  <1>2. DOMAIN collectors = 1..Len(collectors) /\ Len(collectors) \in Nat
    BY <1>1, LenProperties
  <1>3. (\A v \in DOMAIN collectors : collectors[v] \in Collector) /\ NoView \notin DOMAIN collectors
    BY <1>1, <1>2, ElementOfSeq DEF NoView
  <1> QED BY <1>1, <1>3 DEF Shape, Viewing, View

LEMMA RowParts ==
    ASSUME NEW row \in Row
    PROVE  row.store_subscriptions \in SUBSET Path /\ row.user_view \in Nat
  BY DEF Row

\* A page's row and its view move together; the other pages' stay.
LEMMA OneViewMoves ==
    ASSUME ViewInv, Unlocked, NEW p \in DOMAIN rows, NEW S \in SUBSET Path, NEW v \in DOMAIN collectors',
           v = rows[p].user_view \/ (rows[p].user_view = NoView /\ v \notin DOMAIN collectors),
           collectors' \in Seq(Collector), DOMAIN collectors' = DOMAIN collectors \cup {v},
           \A w \in DOMAIN collectors : w # v => collectors'[w] = collectors[w],
           collectors'[v].page = p, collectors'[v].bag = store[user], collectors'[v].attached,
           collectors'[v].paths = S,
           DOMAIN rows' = DOMAIN rows, rows'[p] \in Row,
           rows'[p].store_subscriptions = S, rows'[p].user_view = v,
           \A q \in DOMAIN rows : q # p => rows'[q] = rows[q],
           UNCHANGED <<rowVars, thread, asleep, writes, historyVars>>
    PROVE  ViewInv'
  <1>0. UNCHANGED <<user, store, carried, thread, asleep, writes, captured, delivered>>
    BY DEF rowVars, historyVars
  <1>1. /\ Shape /\ Settled /\ collectors \in Seq(Collector)
        /\ DOMAIN rows \subseteq Page /\ \A q \in DOMAIN rows : rows[q] \in Row
        /\ \A q \in Viewing : /\ q \in DOMAIN rows /\ rows[q].user_view \in DOMAIN collectors
                              /\ collectors[rows[q].user_view].page = q
        /\ NoView \notin DOMAIN collectors
    BY FreeStart
  <1>2. v \in Nat /\ v # NoView
    <2>1. DOMAIN collectors' = 1..Len(collectors') /\ Len(collectors') \in Nat
      BY LenProperties
    <2> QED BY <2>1 DEF NoView
  <1>3. /\ DOMAIN rows' = DOMAIN rows
        /\ rows'[p].user_view = v /\ rows'[p].store_subscriptions = S /\ rows'[p] \in Row
        /\ \A q \in DOMAIN rows : q # p => rows'[q] = rows[q]
    OBVIOUS
  <1>4. Viewing' = Viewing \cup {p}
    BY <1>2, <1>3 DEF Viewing
  <1>5. \A q \in Viewing' : q # p => /\ q \in Viewing /\ rows'[q] = rows[q] /\ rows[q].user_view # v
                                     /\ collectors'[rows[q].user_view] = collectors[rows[q].user_view]
    <2> SUFFICES ASSUME NEW q \in Viewing', q # p
                 PROVE  /\ q \in Viewing /\ rows'[q] = rows[q] /\ rows[q].user_view # v
                        /\ collectors'[rows[q].user_view] = collectors[rows[q].user_view]
      OBVIOUS
    <2>1. q \in Viewing /\ rows'[q] = rows[q]
      BY <1>1, <1>3, <1>4
    <2>2. rows[q].user_view # v
      <3>1. CASE v = rows[p].user_view
        <4>1. p \in Viewing
          BY <1>2, <3>1 DEF Viewing
        <4> QED BY <1>1, <2>1, <3>1, <4>1
      <3>2. CASE v \notin DOMAIN collectors
        BY <1>1, <2>1, <3>2
      <3> QED BY <3>1, <3>2
    <2> QED BY <1>1, <2>1, <2>2
  <1>6. Shape'
    <2>1. \A q \in Viewing' : rows'[q].user_view \in DOMAIN collectors' /\ View(q)'.page = q
      BY <1>1, <1>3, <1>5 DEF View
    <2>2. DOMAIN rows' \subseteq Page /\ \A q \in DOMAIN rows' : rows'[q] \in Row
      BY <1>1, <1>3
    <2> QED BY <1>0, <1>1, <1>3, <2>1, <2>2 DEF Shape
  <1>7. Settled'
    <2>1. \A q \in DOMAIN rows' : rows'[q].store_subscriptions # {} => q \in Viewing'
      BY <1>1, <1>3, <1>4 DEF Settled
    <2>2. \A q \in Viewing' : /\ View(q)'.attached /\ View(q)'.bag = store'[user']
                              /\ View(q)'.paths = rows'[q].store_subscriptions
      BY <1>0, <1>1, <1>3, <1>5 DEF Settled, View
    <2>3. ASSUME NEW w \in DOMAIN collectors', collectors'[w].attached
          PROVE  \E q \in Viewing' : rows'[q].user_view = w
      <3>1. CASE w = v
        BY <1>3, <1>4, <3>1
      <3>2. CASE w # v
        <4>1. w \in DOMAIN collectors /\ collectors[w].attached
          BY <2>3, <3>2
        <4>2. PICK q \in Viewing : rows[q].user_view = w
          BY <1>1, <4>1 DEF Settled
        <4>3. q # p
          BY <3>2, <4>1, <4>2, <1>1
        <4> QED BY <1>1, <1>3, <1>4, <4>2, <4>3
      <3> QED BY <3>1, <3>2
    <2> QED BY <2>1, <2>2, <2>3 DEF Settled
  <1> QED BY <1>0, <1>6, <1>7, SettledIsKept

LEMMA SubscribeStep ==
    ASSUME ViewInv, NEW t \in Thread, NEW p \in Page, NEW prefix \in Path,
           subscribe_store_path(t, p, prefix)
    PROVE  ViewInv'
  <1> DEFINE v == rows[p].user_view
             S == rows[p].store_subscriptions \cup {prefix}
  <1>1. /\ Unlocked /\ p \in DOMAIN rows
        /\ UNCHANGED <<rowVars, thread, asleep, writes, historyVars>>
    BY DEF subscribe_store_path
  <1>2. /\ Shape /\ Settled /\ collectors \in Seq(Collector) /\ rows[p] \in Row
        /\ \A q \in Viewing : rows[q].user_view \in DOMAIN collectors
        /\ \A w \in DOMAIN collectors : collectors[w] \in Collector
    BY <1>1, FreeStart
  <1>3. S \in SUBSET Path /\ store[user] \in Bag
    BY <1>1, <1>2, RowParts DEF Shape
  <1>4. CASE v = NoView
    <2> DEFINE c == NewCollector(p, store[user], {prefix})
               n == Len(collectors) + 1
    <2>1. collectors' = Append(collectors, c)
          /\ rows' = [rows EXCEPT ![p].store_subscriptions = @ \cup {prefix}, ![p].user_view = Len(collectors')]
      BY <1>4 DEF subscribe_store_path
    <2>2. /\ c \in Collector /\ c.page = p /\ c.bag = store[user] /\ c.attached /\ c.paths = {prefix}
      BY <1>3, NewParts
    <2> HIDE DEF c
    <2>3. /\ collectors' \in Seq(Collector) /\ n \notin DOMAIN collectors /\ Len(collectors') = n /\ n \in Nat
          /\ DOMAIN collectors' = DOMAIN collectors \cup {n} /\ collectors'[n] = c
          /\ \A w \in DOMAIN collectors : collectors'[w] = collectors[w]
      BY <1>2, <2>1, <2>2, OneMore
    <2>4. S = {prefix}
      BY <1>1, <1>2, <1>4 DEF Settled, Viewing
    <2>5. /\ DOMAIN rows' = DOMAIN rows /\ rows'[p] \in Row
          /\ rows'[p].store_subscriptions = S /\ rows'[p].user_view = n
          /\ \A q \in DOMAIN rows : q # p => rows'[q] = rows[q]
      BY <1>1, <1>2, <1>3, <2>1, <2>3 DEF Row
    <2> HIDE DEF n, S
    <2>6. /\ p \in DOMAIN rows /\ S \in SUBSET Path /\ n \in DOMAIN collectors'
          /\ rows[p].user_view = NoView /\ n \notin DOMAIN collectors
          /\ collectors' \in Seq(Collector) /\ DOMAIN collectors' = DOMAIN collectors \cup {n}
          /\ \A w \in DOMAIN collectors : w # n => collectors'[w] = collectors[w]
          /\ collectors'[n].page = p /\ collectors'[n].bag = store[user] /\ collectors'[n].attached
          /\ collectors'[n].paths = S
      BY <1>1, <1>3, <1>4, <2>2, <2>3, <2>4
    <2>7. Unlocked /\ UNCHANGED <<rowVars, thread, asleep, writes, historyVars>>
      BY <1>1
    <2> HIDE DEF v
    <2> QED BY <2>5, <2>6, <2>7, OneViewMoves
  <1>5. CASE v # NoView
    <2> DEFINE c == [collectors[v] EXCEPT !.paths = @ \cup {prefix}]
    <2>1. /\ collectors' = [collectors EXCEPT ![v] = c]
          /\ rows' = [rows EXCEPT ![p].store_subscriptions = @ \cup {prefix}]
      BY <1>5 DEF subscribe_store_path
    <2>2. p \in Viewing
      BY <1>1, <1>5 DEF Viewing
    <2>3. v \in DOMAIN collectors /\ collectors[v] \in Collector /\ collectors[v].page = p
          /\ collectors[v].attached /\ collectors[v].bag = store[user]
          /\ collectors[v].paths = rows[p].store_subscriptions
      BY <1>2, <2>2 DEF Settled, View, Shape
    <2>4. c \in Collector /\ c.page = p /\ c.attached /\ c.bag = store[user] /\ c.paths = S
      BY <2>3 DEF Collector
    <2> HIDE DEF c
    <2>5. /\ collectors' \in Seq(Collector) /\ DOMAIN collectors' = DOMAIN collectors \cup {v}
          /\ collectors'[v] = c /\ \A w \in DOMAIN collectors : w # v => collectors'[w] = collectors[w]
      <3>1. collectors \in Seq(Collector) /\ v \in DOMAIN collectors /\ c \in Collector
        BY <1>2, <2>3, <2>4
      <3>2. collectors' = [collectors EXCEPT ![v] = c]
        BY <2>1
      <3> HIDE DEF v
      <3> QED BY <3>1, <3>2, OneReplaced
    <2>6. /\ DOMAIN rows' = DOMAIN rows /\ rows'[p] \in Row
          /\ rows'[p].store_subscriptions = S /\ rows'[p].user_view = v
          /\ \A q \in DOMAIN rows : q # p => rows'[q] = rows[q]
      BY <1>1, <1>2, <1>3, <2>1 DEF Row
    <2> HIDE DEF S, v
    <2>7. v = rows[p].user_view
      BY DEF v
    <2> QED BY <1>1, <1>3, <2>3, <2>4, <2>5, <2>6, <2>7, OneViewMoves
  <1> QED BY <1>4, <1>5

LEMMA UnsubscribeStep ==
    ASSUME ViewInv, NEW t \in Thread, NEW p \in Page, NEW prefix \in Path,
           unsubscribe_path(t, p, prefix)
    PROVE  ViewInv'
  <1> DEFINE v == rows[p].user_view
             S == rows[p].store_subscriptions \ {prefix}
             c == [collectors[v] EXCEPT !.paths = @ \ {prefix}]
  <1>1. /\ Unlocked /\ p \in DOMAIN rows /\ v # NoView
        /\ collectors' = [collectors EXCEPT ![v] = c]
        /\ rows' = [rows EXCEPT ![p].store_subscriptions = @ \ {prefix}]
        /\ UNCHANGED <<rowVars, thread, asleep, writes, historyVars>>
    BY DEF unsubscribe_path
  <1>2. /\ Shape /\ Settled /\ collectors \in Seq(Collector) /\ rows[p] \in Row /\ p \in Viewing
        /\ \A q \in Viewing : rows[q].user_view \in DOMAIN collectors
        /\ \A w \in DOMAIN collectors : collectors[w] \in Collector
    BY <1>1, FreeStart DEF Viewing
  <1>3. S \in SUBSET Path
    BY <1>2, RowParts
  <1>4. v \in DOMAIN collectors /\ collectors[v] \in Collector /\ collectors[v].page = p
        /\ collectors[v].attached /\ collectors[v].bag = store[user]
        /\ collectors[v].paths = rows[p].store_subscriptions
    BY <1>2 DEF Settled, View, Shape
  <1>5. c \in Collector /\ c.page = p /\ c.attached /\ c.bag = store[user] /\ c.paths = S
    BY <1>4 DEF Collector
  <1> HIDE DEF c
  <1>6. /\ collectors' \in Seq(Collector) /\ DOMAIN collectors' = DOMAIN collectors \cup {v}
        /\ collectors'[v] = c /\ \A w \in DOMAIN collectors : w # v => collectors'[w] = collectors[w]
    <2>1. collectors \in Seq(Collector) /\ v \in DOMAIN collectors /\ c \in Collector
      BY <1>2, <1>4, <1>5
    <2>2. collectors' = [collectors EXCEPT ![v] = c]
      BY <1>1
    <2> HIDE DEF v
    <2> QED BY <2>1, <2>2, OneReplaced
  <1>7. /\ DOMAIN rows' = DOMAIN rows /\ rows'[p] \in Row
        /\ rows'[p].store_subscriptions = S /\ rows'[p].user_view = v
        /\ \A q \in DOMAIN rows : q # p => rows'[q] = rows[q]
    BY <1>1, <1>2, <1>3 DEF Row
  <1> HIDE DEF S
  <1>8. v = rows[p].user_view
    OBVIOUS
  <1> HIDE DEF v
  <1>9. Unlocked /\ p \in DOMAIN rows /\ UNCHANGED <<rowVars, thread, asleep, writes, historyVars>>
    BY <1>1
  <1> QED BY <1>3, <1>4, <1>5, <1>6, <1>7, <1>8, <1>9, OneViewMoves

LEMMA FunctionIsSeq ==
    ASSUME NEW S, NEW n \in Nat, NEW f \in [1..n -> S]
    PROVE  f \in Seq(S) /\ Len(f) = n
  OBVIOUS

\* Some collectors detached, the others as they were.
LEMMA SomeDetached ==
    ASSUME collectors \in Seq(Collector), NEW off,
           collectors' = [i \in DOMAIN collectors |->
                             IF i \in off THEN Detached(collectors[i]) ELSE collectors[i]]
    PROVE  /\ collectors' \in Seq(Collector) /\ DOMAIN collectors' = DOMAIN collectors
           /\ \A v \in DOMAIN collectors : v \notin off => collectors'[v] = collectors[v]
           /\ \A v \in DOMAIN collectors : v \in off => ~collectors'[v].attached
           /\ \A v \in DOMAIN collectors : /\ collectors'[v].page = collectors[v].page
                                           /\ collectors'[v].changes = collectors[v].changes
  <1>1. Len(collectors) \in Nat /\ DOMAIN collectors = 1..Len(collectors)
    BY LenProperties
  <1>2. \A v \in DOMAIN collectors : collectors[v] \in Collector
    BY <1>1, ElementOfSeq
  <1>3. \A v \in DOMAIN collectors : /\ Detached(collectors[v]) \in Collector
                                     /\ ~Detached(collectors[v]).attached
                                     /\ Detached(collectors[v]).page = collectors[v].page
                                     /\ Detached(collectors[v]).changes = collectors[v].changes
    BY <1>2, CollectorParts
  <1>4. collectors' \in [1..Len(collectors) -> Collector]
    BY <1>1, <1>2, <1>3
  <1>5. collectors' \in Seq(Collector) /\ DOMAIN collectors' = DOMAIN collectors
    BY <1>1, <1>4, FunctionIsSeq
  <1> QED BY <1>3, <1>5

LEMMA NoRows ==
    /\ DOMAIN <<>> = {}
    /\ \A f : f = <<>> => DOMAIN f = {}
  OBVIOUS

LEMMA DropEffect ==
    ASSUME ViewInv, NEW t \in Thread, NEW p \in Page, drop_page(t, p)
    PROVE  /\ Unlocked /\ p \in DOMAIN rows
           /\ collectors' \in Seq(Collector) /\ DOMAIN collectors' = DOMAIN collectors
           /\ \A v \in DOMAIN collectors : v # rows[p].user_view => collectors'[v] = collectors[v]
           /\ \A v \in DOMAIN collectors : v = rows[p].user_view => ~collectors'[v].attached
           /\ \A v \in DOMAIN collectors : /\ collectors'[v].page = collectors[v].page
                                           /\ collectors'[v].changes = collectors[v].changes
           /\ DOMAIN rows' = DOMAIN rows \ {p} /\ \A q \in DOMAIN rows' : rows'[q] = rows[q]
           /\ Viewing' = Viewing \ {p}
           /\ \A q \in Viewing' : /\ rows'[q] = rows[q] /\ rows[q].user_view # rows[p].user_view
                                  /\ View(q)' = View(q)
           /\ UNCHANGED <<user, store, data, carried, thread, asleep, writes, captured, delivered, overlapped>>
  <1>1. /\ Unlocked /\ p \in DOMAIN rows
        /\ collectors' = [i \in DOMAIN collectors |->
                              IF i \in {rows[p].user_view} THEN Detached(collectors[i]) ELSE collectors[i]]
        /\ rows' = Only(rows, DOMAIN rows \ {p})
        /\ UNCHANGED <<user, store, data, carried, thread, asleep, writes, captured, delivered, overlapped>>
    BY DEF drop_page, rowVars, historyVars
  <1>2. /\ collectors \in Seq(Collector) /\ NoView \notin DOMAIN collectors
        /\ \A q \in Viewing : /\ q \in DOMAIN rows /\ rows[q].user_view \in DOMAIN collectors
                              /\ collectors[rows[q].user_view].page = q
    BY <1>1, FreeStart
  <1>3. /\ collectors' \in Seq(Collector) /\ DOMAIN collectors' = DOMAIN collectors
        /\ \A v \in DOMAIN collectors : v # rows[p].user_view => collectors'[v] = collectors[v]
        /\ \A v \in DOMAIN collectors : v = rows[p].user_view => ~collectors'[v].attached
        /\ \A v \in DOMAIN collectors : /\ collectors'[v].page = collectors[v].page
                                        /\ collectors'[v].changes = collectors[v].changes
    BY <1>1, <1>2, SomeDetached
  <1>4. DOMAIN rows' = DOMAIN rows \ {p} /\ \A q \in DOMAIN rows' : rows'[q] = rows[q]
    BY <1>1 DEF Only
  <1>5. Viewing' = Viewing \ {p}
    BY <1>4 DEF Viewing
  <1>6. \A q \in Viewing' : /\ rows'[q] = rows[q] /\ rows[q].user_view # rows[p].user_view
                            /\ View(q)' = View(q)
    <2> SUFFICES ASSUME NEW q \in Viewing'
                 PROVE  rows'[q] = rows[q] /\ rows[q].user_view # rows[p].user_view /\ View(q)' = View(q)
      OBVIOUS
    <2>1. q \in Viewing /\ q # p /\ rows'[q] = rows[q]
      BY <1>2, <1>4, <1>5
    <2>2. rows[q].user_view # rows[p].user_view
      BY <1>1, <1>2, <2>1 DEF Viewing
    <2> QED BY <1>2, <1>3, <2>1, <2>2 DEF View
  <1> QED BY <1>1, <1>3, <1>4, <1>5, <1>6

LEMMA DropStep ==
    ASSUME ViewInv, NEW t \in Thread, NEW p \in Page, drop_page(t, p)
    PROVE  ViewInv'
  <1>1. /\ Unlocked /\ p \in DOMAIN rows
        /\ collectors' \in Seq(Collector) /\ DOMAIN collectors' = DOMAIN collectors
        /\ \A v \in DOMAIN collectors : v # rows[p].user_view => collectors'[v] = collectors[v]
        /\ \A v \in DOMAIN collectors : v = rows[p].user_view => ~collectors'[v].attached
        /\ DOMAIN rows' = DOMAIN rows \ {p} /\ \A q \in DOMAIN rows' : rows'[q] = rows[q]
        /\ Viewing' = Viewing \ {p}
        /\ \A q \in Viewing' : /\ rows'[q] = rows[q] /\ rows[q].user_view # rows[p].user_view
                               /\ View(q)' = View(q)
        /\ UNCHANGED <<user, store, data, carried, thread, asleep, writes, captured, delivered, overlapped>>
    BY DropEffect
  <1>2. Shape /\ Settled
    BY <1>1, FreeStart
  <1>3. Shape'
    BY <1>1, <1>2 DEF Shape
  <1>4. Settled'
    <2>1. \A q \in DOMAIN rows' : rows'[q].store_subscriptions # {} => q \in Viewing'
      BY <1>1, <1>2 DEF Settled
    <2>2. \A q \in Viewing' : /\ View(q)'.attached /\ View(q)'.bag = store'[user']
                              /\ View(q)'.paths = rows'[q].store_subscriptions
      BY <1>1, <1>2 DEF Settled
    <2>3. \A w \in DOMAIN collectors' : collectors'[w].attached => \E q \in Viewing' : rows'[q].user_view = w
      BY <1>1, <1>2 DEF Settled
    <2> QED BY <2>1, <2>2, <2>3 DEF Settled
  <1> QED BY <1>1, <1>3, <1>4, SettledIsKept

LEMMA FreezeEffect ==
    ASSUME ViewInv, NEW t \in Thread, freeze_user(t)
    PROVE  /\ Unlocked /\ DOMAIN rows' = {} /\ Viewing' = {}
           /\ collectors' \in Seq(Collector) /\ DOMAIN collectors' = DOMAIN collectors
           /\ \A v \in DOMAIN collectors : ~collectors'[v].attached
           /\ \A v \in DOMAIN collectors : /\ collectors'[v].page = collectors[v].page
                                           /\ collectors'[v].changes = collectors[v].changes
           /\ DOMAIN asleep' = DOMAIN rows /\ DOMAIN asleep' \subseteq Page
           /\ \A p \in DOMAIN asleep' : asleep'[p] = rows[p].store_subscriptions
           /\ \A p \in Page : captured'[p] = ToSet(delivered[p])
           /\ captured' \in [Page -> SUBSET Nat]
           /\ UNCHANGED <<user, carried, thread, writes, delivered>>
  <1>1. /\ Unlocked /\ rows' = <<>> /\ asleep' = [p \in DOMAIN rows |-> rows[p].store_subscriptions]
        /\ collectors' = [i \in DOMAIN collectors |->
                              IF i \in DOMAIN collectors THEN Detached(collectors[i]) ELSE collectors[i]]
        /\ captured' = [p \in Page |-> ToSet(delivered[p])]
        /\ UNCHANGED <<user, carried, thread, writes, delivered>>
    BY DEF freeze_user
  <1>2. Shape /\ collectors \in Seq(Collector) /\ DOMAIN rows \subseteq Page
    BY <1>1, FreeStart
  <1>3. /\ collectors' \in Seq(Collector) /\ DOMAIN collectors' = DOMAIN collectors
        /\ \A v \in DOMAIN collectors : ~collectors'[v].attached
        /\ \A v \in DOMAIN collectors : /\ collectors'[v].page = collectors[v].page
                                        /\ collectors'[v].changes = collectors[v].changes
    BY <1>1, <1>2, SomeDetached
  <1>4. DOMAIN rows' = {} /\ Viewing' = {}
    BY <1>1, NoRows DEF Viewing
  <1>5. \A p \in Page : ToSet(delivered[p]) \in SUBSET Nat
    BY <1>2, ElementOfSeq, LenProperties DEF Shape, ToSet
  <1>6. captured' \in [Page -> SUBSET Nat] /\ \A p \in Page : captured'[p] = ToSet(delivered[p])
    BY <1>1, <1>5
  <1> QED BY <1>1, <1>2, <1>3, <1>4, <1>6

LEMMA FreezeStep ==
    ASSUME ViewInv, NEW t \in Thread, freeze_user(t)
    PROVE  ViewInv'
  <1>1. /\ Unlocked /\ DOMAIN rows' = {} /\ Viewing' = {}
        /\ collectors' \in Seq(Collector) /\ DOMAIN collectors' = DOMAIN collectors
        /\ \A v \in DOMAIN collectors : ~collectors'[v].attached
        /\ DOMAIN asleep' = DOMAIN rows /\ DOMAIN asleep' \subseteq Page
        /\ \A p \in DOMAIN asleep' : asleep'[p] = rows[p].store_subscriptions
        /\ captured' \in [Page -> SUBSET Nat]
        /\ UNCHANGED <<user, carried, thread, writes, delivered>>
    BY FreezeEffect
  <1>2. Shape /\ \A p \in DOMAIN rows : rows[p] \in Row
    BY <1>1, FreeStart
  <1>3. \A u \in DOMAIN store' : store'[u] \in Bag
    BY <1>2 DEF freeze_user, Only, Shape
  <1>4. \A p \in DOMAIN asleep' : asleep'[p] \in SUBSET Path
    BY <1>1, <1>2, RowParts
  <1>5. Shape'
    BY <1>1, <1>2, <1>3, <1>4 DEF Shape
  <1>6. Settled'
    BY <1>1 DEF Settled
  <1> QED BY <1>1, <1>5, <1>6, SettledIsKept

\* SetToSeq lists a finite set, each element at one place.
LEMMA Enumerated ==
    ASSUME NEW S, IsFiniteSet(S)
    PROVE  /\ Cardinality(S) \in Nat
           /\ SetToSeq(S) \in [1..Cardinality(S) -> S]
           /\ IsInjective(SetToSeq(S))
           /\ \A p \in S : \E i \in 1..Cardinality(S) : SetToSeq(S)[i] = p
  <1> DEFINE n == Cardinality(S)
             f == SetToSeq(S)
  <1>1. n \in Nat /\ ExistsBijection(1..n, S)
    BY FS_CardinalityType
  <1>2. PICK g : g \in Bijection(1..n, S)
    BY <1>1 DEF ExistsBijection
  <1>3. g \in [1..n -> S] /\ IsInjective(g)
    BY <1>2 DEF Bijection, Injection, IsInjective
  <1>4. f \in [1..n -> S] /\ IsInjective(f)
    BY <1>3 DEF SetToSeq
  <1> HIDE DEF f
  <1>5. f \in Injection(1..n, S)
    BY <1>4 DEF Injection, IsInjective
  <1>6. IsFiniteSet(1..n) /\ Cardinality(1..n) = n
    BY <1>1, FS_Interval
  <1>7. f \in Surjection(1..n, S)
    BY <1>5, <1>6, FS_Injection
  <1>8. \A p \in S : \E i \in 1..n : f[i] = p
    BY <1>7 DEF Surjection
  <1> QED BY <1>1, <1>4, <1>8 DEF f

LEMMA WakeEffect ==
    ASSUME ViewInv, NEW t \in Thread, NEW bag, wake(t, bag)
    PROVE  /\ Unlocked /\ bag \in Bag /\ DOMAIN rows = {} /\ Viewing = {}
           /\ collectors' \in Seq(Collector) /\ DOMAIN collectors \subseteq DOMAIN collectors'
           /\ \A v \in DOMAIN collectors : collectors'[v] = collectors[v]
           /\ DOMAIN rows' = DOMAIN asleep
           /\ \A p \in DOMAIN asleep : rows'[p] \in Row /\ rows'[p].store_subscriptions = asleep[p]
           /\ Viewing' = {p \in DOMAIN asleep : asleep[p] # {}}
           /\ \A p \in Viewing' :
                 /\ rows'[p].user_view \in DOMAIN collectors' \ DOMAIN collectors
                 /\ View(p)'.page = p /\ View(p)'.bag = bag /\ View(p)'.paths = asleep[p]
                 /\ View(p)'.changes = <<>> /\ View(p)'.attached
           /\ \A v \in DOMAIN collectors' \ DOMAIN collectors :
                 \E p \in Viewing' : rows'[p].user_view = v
           /\ DOMAIN store' = DOMAIN store \cup {user} /\ store'[user] = bag
           /\ \A u \in DOMAIN store : u # user => store'[u] = store[u]
           /\ DOMAIN asleep' = {} /\ asleep' = <<>> /\ carried' \subseteq carried
           /\ UNCHANGED <<user, data, thread, writes, captured, delivered, overlapped>>
  <1> DEFINE W == {p \in DOMAIN asleep : asleep[p] # {}}
             watchers == SetToSeq(W)
             k == Cardinality(W)
             n == Len(collectors)
             place(p) == CHOOSE i \in DOMAIN watchers : watchers[i] = p
             more == [i \in DOMAIN watchers |-> NewCollector(watchers[i], bag, asleep[watchers[i]])]
  <1>1. /\ Unlocked /\ asleep # <<>> /\ bag \in carried /\ carried' = carried \ {bag}
        /\ store' = With(store, user, bag) /\ collectors' = collectors \o more
        /\ rows' = [p \in DOMAIN asleep |-> [store_subscriptions |-> asleep[p],
                user_view |-> IF p \in ToSet(watchers) THEN n + place(p) ELSE NoView]]
        /\ asleep' = <<>>
        /\ UNCHANGED <<user, data, thread, writes, captured, delivered, overlapped>>
    BY DEF wake, historyVars
  <1>2. /\ Shape /\ collectors \in Seq(Collector) /\ DOMAIN asleep \subseteq Page /\ bag \in Bag
        /\ \A p \in DOMAIN asleep : asleep[p] \in SUBSET Path
        /\ DOMAIN rows = {} /\ Viewing = {}
    BY <1>1 DEF ViewInv, Shape, Viewing
  <1>3. n \in Nat /\ DOMAIN collectors = 1..n
    BY <1>2, LenProperties
  <1>4. IsFiniteSet(W)
    <2>1. W \in SUBSET Page
      BY <1>2
    <2> HIDE DEF W
    <2> QED BY <2>1, FS_Subset, UserViewAssumption
  <1>5. /\ k \in Nat /\ watchers \in [1..k -> W] /\ IsInjective(watchers)
        /\ \A p \in W : \E i \in 1..k : watchers[i] = p
    <2> HIDE DEF W
    <2> QED BY <1>4, Enumerated
  <1>6. \A p \in W : p \in DOMAIN asleep /\ asleep[p] # {} /\ p \in Page /\ asleep[p] \in SUBSET Path
    BY <1>2
  <1> HIDE DEF watchers, k
  <1>7. DOMAIN watchers = 1..k /\ \A i \in 1..k : watchers[i] \in W
    BY <1>5
  <1>8. \A i \in 1..k : /\ more[i] \in Collector /\ more[i].page = watchers[i] /\ more[i].bag = bag
                        /\ more[i].paths = asleep[watchers[i]] /\ more[i].changes = <<>> /\ more[i].attached
    <2> SUFFICES ASSUME NEW i \in 1..k
                 PROVE  /\ more[i] \in Collector /\ more[i].page = watchers[i] /\ more[i].bag = bag
                        /\ more[i].paths = asleep[watchers[i]] /\ more[i].changes = <<>> /\ more[i].attached
      OBVIOUS
    <2>1. watchers[i] \in Page /\ asleep[watchers[i]] \in SUBSET Path
      BY <1>6, <1>7
    <2>2. more[i] = NewCollector(watchers[i], bag, asleep[watchers[i]])
      BY <1>7
    <2> HIDE DEF more
    <2> QED BY <1>2, <2>1, <2>2, NewParts
  <1>9. more \in Seq(Collector) /\ Len(more) = k
    <2>1. more \in [1..k -> Collector]
      BY <1>7, <1>8
    <2> HIDE DEF more
    <2> QED BY <1>5, <2>1, FunctionIsSeq
  <1>10. \A p \in W : place(p) \in 1..k /\ watchers[place(p)] = p
    BY <1>5, <1>7
  <1>11. \A i \in 1..k : place(watchers[i]) = i
    <2> SUFFICES ASSUME NEW i \in 1..k PROVE place(watchers[i]) = i
      OBVIOUS
    <2>1. place(watchers[i]) \in 1..k /\ watchers[place(watchers[i])] = watchers[i]
      BY <1>7, <1>10
    <2> HIDE DEF place
    <2> QED BY <1>5, <1>7, <2>1 DEF IsInjective
  <1>12. \A p : p \in ToSet(watchers) <=> p \in W
    BY <1>5, <1>7 DEF ToSet
  <1> HIDE DEF more, place
  <1>13. /\ collectors' \in Seq(Collector) /\ DOMAIN collectors' = 1..(n + k)
         /\ \A i \in 1..n : collectors'[i] = collectors[i]
         /\ \A i \in 1..k : collectors'[n + i] = more[i]
    <2>1. /\ collectors \o more \in Seq(Collector) /\ Len(collectors \o more) = n + k
          /\ \A i \in 1..(n + k) : (collectors \o more)[i] =
                IF i <= n THEN collectors[i] ELSE more[i - n]
      BY <1>2, <1>9, ConcatProperties
    <2>2. collectors' = collectors \o more
      BY <1>1
    <2>3. Len(collectors') = n + k /\ collectors' \in Seq(Collector)
      BY <2>1, <2>2
    <2>4. DOMAIN collectors' = 1..(n + k)
      BY <2>3, LenProperties
    <2> QED BY <1>3, <1>5, <2>1, <2>2, <2>3, <2>4
  <1>14. /\ DOMAIN rows' = DOMAIN asleep
         /\ \A p \in DOMAIN asleep :
               /\ rows'[p] \in Row /\ rows'[p].store_subscriptions = asleep[p]
               /\ p \in W => rows'[p].user_view = n + place(p)
               /\ p \notin W => rows'[p].user_view = NoView
    BY <1>1, <1>2, <1>3, <1>10, <1>12 DEF Row, NoView
  <1>15. Viewing' = W
    BY <1>3, <1>6, <1>10, <1>14 DEF Viewing, NoView
  <1>16. \A p \in W : /\ rows'[p].user_view = n + place(p) /\ n + place(p) \in DOMAIN collectors' \ DOMAIN collectors
                      /\ collectors'[n + place(p)] = more[place(p)] /\ more[place(p)].page = p
                      /\ more[place(p)].paths = asleep[p]
    BY <1>3, <1>5, <1>6, <1>8, <1>10, <1>13, <1>14
  <1>17. ASSUME NEW v \in DOMAIN collectors' \ DOMAIN collectors
         PROVE  \E p \in W : rows'[p].user_view = v
    <2>1. v - n \in 1..k /\ n + (v - n) = v
      BY <1>3, <1>5, <1>13
    <2> QED BY <1>7, <1>11, <1>16, <2>1
  <1>18. \A p \in W : /\ View(p)'.page = p /\ View(p)'.bag = bag /\ View(p)'.paths = asleep[p]
                      /\ View(p)'.changes = <<>> /\ View(p)'.attached
    BY <1>8, <1>10, <1>16 DEF View
  <1>19. /\ DOMAIN store' = DOMAIN store \cup {user} /\ store'[user] = bag
         /\ \A u \in DOMAIN store : u # user => store'[u] = store[u]
    BY <1>1 DEF With
  <1>20. DOMAIN collectors \subseteq DOMAIN collectors'
    BY <1>3, <1>5, <1>13
  <1>21. DOMAIN asleep' = {} /\ asleep' = <<>> /\ carried' \subseteq carried
    BY <1>1, NoRows
  <1>22. \A p \in Viewing' :
            /\ rows'[p].user_view \in DOMAIN collectors' \ DOMAIN collectors
            /\ View(p)'.page = p /\ View(p)'.bag = bag /\ View(p)'.paths = asleep[p]
            /\ View(p)'.changes = <<>> /\ View(p)'.attached
    BY <1>15, <1>16, <1>18
  <1>23. \A v \in DOMAIN collectors' \ DOMAIN collectors : \E p \in Viewing' : rows'[p].user_view = v
    BY <1>15, <1>17
  <1>24. collectors' \in Seq(Collector) /\ \A v \in DOMAIN collectors : collectors'[v] = collectors[v]
    BY <1>3, <1>13
  <1>25. \A p \in DOMAIN asleep : rows'[p] \in Row /\ rows'[p].store_subscriptions = asleep[p]
    BY <1>14
  <1>26. Unlocked /\ UNCHANGED <<user, data, thread, writes, captured, delivered, overlapped>>
    BY <1>1
  <1> QED BY <1>2, <1>14, <1>15, <1>19, <1>20, <1>21, <1>22, <1>23, <1>24, <1>25, <1>26

LEMMA WakeStep ==
    ASSUME ViewInv, NEW t \in Thread, NEW bag, wake(t, bag)
    PROVE  ViewInv'
  <1>1. /\ Unlocked /\ bag \in Bag /\ DOMAIN rows = {} /\ Viewing = {}
        /\ collectors' \in Seq(Collector) /\ DOMAIN collectors \subseteq DOMAIN collectors'
        /\ \A v \in DOMAIN collectors : collectors'[v] = collectors[v]
        /\ DOMAIN rows' = DOMAIN asleep
        /\ \A p \in DOMAIN asleep : rows'[p] \in Row /\ rows'[p].store_subscriptions = asleep[p]
        /\ Viewing' = {p \in DOMAIN asleep : asleep[p] # {}}
        /\ \A p \in Viewing' :
              /\ rows'[p].user_view \in DOMAIN collectors' \ DOMAIN collectors
              /\ View(p)'.page = p /\ View(p)'.bag = bag /\ View(p)'.paths = asleep[p]
              /\ View(p)'.changes = <<>> /\ View(p)'.attached
        /\ \A v \in DOMAIN collectors' \ DOMAIN collectors :
              \E p \in Viewing' : rows'[p].user_view = v
        /\ DOMAIN store' = DOMAIN store \cup {user} /\ store'[user] = bag
        /\ \A u \in DOMAIN store : u # user => store'[u] = store[u]
        /\ DOMAIN asleep' = {} /\ asleep' = <<>> /\ carried' \subseteq carried
        /\ UNCHANGED <<user, data, thread, writes, captured, delivered, overlapped>>
    BY WakeEffect
  <1>2. Shape /\ Settled
    BY <1>1, FreeStart
  <1>3. Shape'
    BY <1>1, <1>2 DEF Shape
  <1>4. Settled'
    <2>1. \A q \in DOMAIN rows' : rows'[q].store_subscriptions # {} => q \in Viewing'
      BY <1>1
    <2>2. \A q \in Viewing' : /\ View(q)'.attached /\ View(q)'.bag = store'[user']
                              /\ View(q)'.paths = rows'[q].store_subscriptions
      BY <1>1
    <2>3. \A w \in DOMAIN collectors' : collectors'[w].attached => \E q \in Viewing' : rows'[q].user_view = w
      BY <1>1, <1>2 DEF Settled
    <2> QED BY <2>1, <2>2, <2>3 DEF Settled
  <1> QED BY <1>1, <1>3, <1>4, SettledIsKept
-----------------------------------------------------------------------------
(* Drains and re-attachments: one thread holds the lock from line to line. *)

\* The parts of InHand, Due and IsFresh that are one thread's.
HandOf(w, p) == w.pc \in {"detached", "feeding", "fed"} /\ w.page = p
DueOf(w, p) == \/ w.pc = "reattaching" /\ p \in w.pages
               \/ w.pc \in {"detached", "feeding", "fed"} /\ p \in w.then.pages
FreshOf(w, v) == w.pc \in {"feeding", "fed"} /\ w.fresh = v

\* No thread but t can be under the lock.
OthersFree(t) == \A s \in Thread : s # t => Free(thread[s])

\* What the holder of the lock, t, knows.
Mine(t) ==
    /\ \A p \in DOMAIN rows : rows[p].store_subscriptions # {} => p \in Viewing
    /\ \A p \in Viewing : /\ View(p).paths = rows[p].store_subscriptions
                          /\ View(p).attached <=> ~HandOf(thread[t], p)
                          /\ View(p).bag = store[user] \/ DueOf(thread[t], p)
    /\ \A v \in DOMAIN collectors :
          collectors[v].attached => (\E p \in Viewing : rows[p].user_view = v) \/ FreshOf(thread[t], v)
    /\ At(t, "reattaching") => LoopOK(thread[t])
    /\ thread[t].pc \in {"detached", "feeding", "fed"} =>
          LoopOK(thread[t].then) /\ thread[t].page \in thread[t].then.pages
    /\ thread[t].pc \in {"feeding", "fed"} => FreshOK(thread[t])
    /\ At(t, "draining") => thread[t].page \in Viewing

LEMMA HolderIsAlone ==
    ASSUME ViewInv, NEW t \in Thread, Locks(t)
    PROVE  OthersFree(t)
  <1>1. \A s \in Thread : Locks(s) => s = t
    BY DEF ViewInv, OneLocks
  <1> QED BY <1>1 DEF OthersFree, Locks, Free

LEMMA LockIsFree ==
    ASSUME NEW t \in Thread, Unlocked
    PROVE  OthersFree(t)
  BY DEF OthersFree, Unlocked, Free

LEMMA StartsMine ==
    ASSUME ViewInv, NEW t \in Thread, OthersFree(t)
    PROVE  /\ Shape /\ Mine(t) /\ collectors \in Seq(Collector) /\ thread[t] \in Work
           /\ DOMAIN rows \subseteq Page /\ \A p \in DOMAIN rows : rows[p] \in Row
           /\ \A p \in Viewing : /\ p \in DOMAIN rows /\ p \in Page /\ rows[p].user_view \in DOMAIN collectors
                                 /\ collectors[rows[p].user_view].page = p
           /\ \A v \in DOMAIN collectors : collectors[v] \in Collector
           /\ NoView \notin DOMAIN collectors /\ DOMAIN collectors \subseteq Nat
  <1>0. Shape /\ OneLocks /\ Views /\ InMotion /\ thread[t] \in Work
    BY DEF ViewInv, Shape
  <1>1. \A s \in Thread : s # t => thread[s].pc \in {"idle", "notifying"}
    BY DEF OthersFree, Free
  <1>2. \A p : Due(p) => DueOf(thread[t], p)
    BY <1>1 DEF Due, DueOf, Holds, At
  <1>3. \A p : InHand(p) <=> HandOf(thread[t], p)
    BY <1>1 DEF InHand, HandOf, Holds
  <1>4. \A v : IsFresh(v) <=> FreshOf(thread[t], v)
    BY <1>1 DEF IsFresh, FreshOf
  <1>5. Mine(t)
    BY <1>0, <1>2, <1>3, <1>4 DEF Views, InMotion, Mine
  <1>6. collectors \in Seq(Collector)
    BY <1>0 DEF Shape
  <1>7. DOMAIN collectors = 1..Len(collectors) /\ Len(collectors) \in Nat
    BY <1>6, LenProperties
  <1>8. (\A v \in DOMAIN collectors : collectors[v] \in Collector) /\ NoView \notin DOMAIN collectors
        /\ DOMAIN collectors \subseteq Nat
    BY <1>6, <1>7, ElementOfSeq DEF NoView
  <1> QED BY <1>0, <1>5, <1>6, <1>8 DEF Shape, Viewing, View

LEMMA MineIsKept ==
    ASSUME ViewInv, NEW t \in Thread, OthersFree(t), NEW w, Moves(t, w), w \in Work,
           DOMAIN collectors \subseteq DOMAIN collectors', Shape', Mine(t)', w.pc # "notifying"
    PROVE  ViewInv'
  <1>0. InMotion
    BY DEF ViewInv
  <1>1. thread'[t] = w /\ \A s \in Thread : s # t => thread'[s] = thread[s] /\ thread'[s].pc \in {"idle", "notifying"}
    BY DEF OthersFree, Free, Moves
  <1>2. OneLocks'
    BY <1>1 DEF OneLocks, Locks
  <1>3. \A p : InHand(p)' <=> HandOf(thread[t], p)'
    BY <1>1 DEF InHand, HandOf, Holds
  <1>4. \A v : IsFresh(v)' <=> FreshOf(thread[t], v)'
    BY <1>1 DEF IsFresh, FreshOf
  <1>5. w.pc \in {"detached", "feeding", "fed"} => w.page \in Page
    BY WorkParts
  <1>6. \A p : DueOf(thread[t], p)' => Due(p)'
    BY <1>1, <1>5 DEF Due, DueOf, Holds, At
  <1>7. Views'
    BY <1>3, <1>4, <1>6 DEF Views, Mine
  <1>8. InMotion'
    <2>1. ASSUME NEW s \in Thread, s # t
          PROVE  /\ thread'[s].pc \in {"idle", "notifying"}
                 /\ At(s, "notifying")' => thread'[s].left \subseteq DOMAIN collectors'
      BY <1>0, <1>1, <2>1 DEF InMotion, At
    <2> QED BY <1>1, <2>1 DEF InMotion, Mine, At
  <1> QED BY <1>2, <1>7, <1>8 DEF ViewInv

\* One collector is another, and the rest are as they were.
OneIs(v, c) ==
    /\ collectors' \in Seq(Collector) /\ DOMAIN collectors' = DOMAIN collectors
    /\ v \in DOMAIN collectors /\ collectors'[v] = c
    /\ \A x \in DOMAIN collectors : x # v => collectors'[x] = collectors[x]

LEMMA Replaces ==
    ASSUME collectors \in Seq(Collector), NEW v \in DOMAIN collectors, NEW c \in Collector,
           collectors' = [collectors EXCEPT ![v] = c]
    PROVE  OneIs(v, c)
  BY OneReplaced DEF OneIs

LEMMA DrainReadsStep ==
    ASSUME ViewInv, NEW t \in Thread, NEW p \in Page, DrainReads(t, p)
    PROVE  ViewInv'
  <1> DEFINE w == [pc |-> "draining", page |-> p, changes |-> View(p).changes]
  <1>1. /\ At(t, "idle") /\ Unlocked /\ p \in Viewing /\ thread' = [thread EXCEPT ![t] = w]
        /\ UNCHANGED <<user, store, data, carried, rows, collectors, asleep, writes, captured, delivered>>
    BY DEF DrainReads, rowVars, Viewing, View
  <1>2. /\ OthersFree(t) /\ Shape /\ Mine(t) /\ collectors[rows[p].user_view] \in Collector
    BY <1>1, LockIsFree, StartsMine
  <1>3. w \in Work /\ w.pc = "draining" /\ w.page = p
    BY <1>2, WorkMade, CollectorParts DEF View
  <1> HIDE DEF w
  <1>4. Moves(t, w)
    BY <1>1, <1>2, <1>3, WorkMoves DEF Shape
  <1>5. Shape'
    BY <1>1, <1>2, <1>4 DEF Shape, Moves, Viewing, View
  <1>6. Viewing' = Viewing /\ \A q : View(q)' = View(q)
    BY <1>1 DEF Viewing, View
  <1>7. \A q : ~HandOf(thread[t], q) /\ ~DueOf(thread[t], q) /\ ~HandOf(thread[t], q)'
        /\ ~DueOf(thread[t], q)' /\ ~FreshOf(thread[t], q)
    BY <1>1, <1>3, <1>4 DEF At, Moves, HandOf, DueOf, FreshOf
  <1>8. Mine(t)'
    BY <1>1, <1>2, <1>3, <1>4, <1>6, <1>7 DEF Mine, Moves, At
  <1> QED BY <1>1, <1>2, <1>3, <1>4, <1>5, <1>8, MineIsKept

LEMMA LoginEffect ==
    ASSUME ViewInv, NEW t \in Thread, change_connection_user(t)
    PROVE  LET w == Reattaching({p \in Viewing : View(p).bag # store'[User]}, store'[User])
           IN  /\ At(t, "idle") /\ Unlocked /\ w \in Work /\ Moves(t, w) /\ user' = User
               /\ store'[User] \in Bag /\ User \in DOMAIN store' /\ \A u \in DOMAIN store' : store'[u] \in Bag
               /\ UNCHANGED <<carried, rows, collectors, asleep, writes, captured, delivered>>
  <1> DEFINE w == Reattaching({p \in Viewing : View(p).bag # store'[User]}, store'[User])
  <1>1. /\ At(t, "idle") /\ Unlocked /\ Guest \in DOMAIN store /\ user' = User
        /\ store' = Relabelled(store) /\ thread' = [thread EXCEPT ![t] = w]
        /\ UNCHANGED <<carried, rows, collectors, asleep, writes, captured, delivered>>
    BY DEF change_connection_user, View
  <1>2. Shape /\ Viewing \subseteq Page
    BY DEF ViewInv, Shape, Viewing
  <1>3. User \in DOMAIN store' /\ \A u \in DOMAIN store' : store'[u] \in Bag
    <2>1. CASE User \in DOMAIN store
      BY <1>1, <1>2, <2>1 DEF Shape, Relabelled, Only
    <2>2. CASE User \notin DOMAIN store
      BY <1>1, <1>2, <2>2, NoRows DEF Shape, Relabelled, With
    <2> QED BY <2>1, <2>2
  <1>4. w \in Work
    BY <1>2, <1>3, WorkMade
  <1> HIDE DEF w
  <1>5. Moves(t, w)
    BY <1>1, <1>2, <1>4, WorkMoves DEF Shape
  <1> QED BY <1>1, <1>3, <1>4, <1>5 DEF w

LEMMA InstallEffect ==
    ASSUME ViewInv, NEW t \in Thread, NEW bag, install_carried_store(t, bag)
    PROVE  LET w == Reattaching(Viewing, bag)
           IN  /\ At(t, "idle") /\ Unlocked /\ w \in Work /\ Moves(t, w) /\ user' = user
               /\ store'[user] = bag /\ user \in DOMAIN store' /\ \A u \in DOMAIN store' : store'[u] \in Bag
               /\ carried' \subseteq carried
               /\ UNCHANGED <<rows, collectors, asleep, writes, captured, delivered>>
  <1> DEFINE w == Reattaching(Viewing, bag)
  <1>1. /\ At(t, "idle") /\ Unlocked /\ bag \in carried /\ user \in DOMAIN store
        /\ carried' = carried \ {bag} /\ store' = [store EXCEPT ![user] = bag]
        /\ thread' = [thread EXCEPT ![t] = w]
        /\ UNCHANGED <<user, rows, collectors, asleep, writes, captured, delivered>>
    BY DEF install_carried_store
  <1>2. Shape /\ Viewing \subseteq Page /\ bag \in Bag
    BY <1>1 DEF ViewInv, Shape, Viewing
  <1>3. store'[user] = bag /\ user \in DOMAIN store' /\ \A u \in DOMAIN store' : store'[u] \in Bag
    BY <1>1, <1>2 DEF Shape
  <1>4. w \in Work
    BY <1>2, WorkMade
  <1> HIDE DEF w
  <1>5. Moves(t, w)
    BY <1>1, <1>2, <1>4, WorkMoves DEF Shape
  <1> QED BY <1>1, <1>3, <1>4, <1>5 DEF w

\* The store moves and the views on another Bag are due.
LEMMA StoreMoves ==
    ASSUME ViewInv, NEW t \in Thread, NEW pages \in SUBSET Viewing, NEW bag, At(t, "idle"), Unlocked,
           Reattaching(pages, bag) \in Work, Moves(t, Reattaching(pages, bag)),
           \A p \in Viewing : View(p).bag = bag \/ p \in pages,
           user' \in {Guest, User}, user' \in DOMAIN store', store'[user'] = bag,
           \A u \in DOMAIN store' : store'[u] \in Bag,
           carried' \subseteq carried,
           UNCHANGED <<rows, collectors, asleep, writes, captured, delivered>>
    PROVE  ViewInv'
  <1> DEFINE w == Reattaching(pages, bag)
  <1>1. OthersFree(t) /\ Shape /\ Mine(t)
    BY LockIsFree, StartsMine
  <1>2. w \in Work /\ w.pc = "reattaching" /\ w.pages = pages /\ w.bag = bag /\ Moves(t, w)
    BY DEF Reattaching
  <1> HIDE DEF w
  <1>3. Viewing' = Viewing /\ \A q : View(q)' = View(q)
    BY DEF Viewing, View
  <1>4. Shape'
    BY <1>1, <1>2, <1>3 DEF Shape, Moves
  <1>5. /\ \A q : ~HandOf(thread[t], q) /\ ~HandOf(thread[t], q)' /\ ~FreshOf(thread[t], q)
        /\ \A q \in pages : DueOf(thread[t], q)'
    BY <1>2 DEF At, Moves, HandOf, DueOf, FreshOf
  <1>6. LoopOK(thread[t])'
    BY <1>2, <1>3 DEF LoopOK, Moves
  <1>7. Mine(t)'
    BY <1>1, <1>2, <1>3, <1>5, <1>6 DEF Mine, Moves, At
  <1> QED BY <1>1, <1>2, <1>4, <1>7, MineIsKept

LEMMA LoginStep ==
    ASSUME ViewInv, NEW t \in Thread, change_connection_user(t)
    PROVE  ViewInv'
  <1> DEFINE pages == {p \in Viewing : View(p).bag # store'[User]}
  <1>1. /\ At(t, "idle") /\ Unlocked /\ Reattaching(pages, store'[User]) \in Work
        /\ Moves(t, Reattaching(pages, store'[User])) /\ user' = User
        /\ store'[User] \in Bag /\ User \in DOMAIN store' /\ \A u \in DOMAIN store' : store'[u] \in Bag
        /\ UNCHANGED <<carried, rows, collectors, asleep, writes, captured, delivered>>
    BY LoginEffect
  <1>2. pages \in SUBSET Viewing /\ \A p \in Viewing : View(p).bag = store'[User] \/ p \in pages
    OBVIOUS
  <1> HIDE DEF pages
  <1> QED BY <1>1, <1>2, StoreMoves

LEMMA InstallStep ==
    ASSUME ViewInv, NEW t \in Thread, NEW bag, install_carried_store(t, bag)
    PROVE  ViewInv'
  <1>1. /\ At(t, "idle") /\ Unlocked /\ Reattaching(Viewing, bag) \in Work
        /\ Moves(t, Reattaching(Viewing, bag)) /\ user' = user
        /\ store'[user] = bag /\ user \in DOMAIN store' /\ \A u \in DOMAIN store' : store'[u] \in Bag
        /\ carried' \subseteq carried
        /\ UNCHANGED <<rows, collectors, asleep, writes, captured, delivered>>
    BY InstallEffect
  <1>2. user \in {Guest, User}
    BY DEF ViewInv, Shape
  <1> QED BY <1>1, <1>2, StoreMoves

LEMMA ResetsEffect ==
    ASSUME ViewInv, NEW t \in Thread, DrainResets(t)
    PROVE  LET p == thread[t].page  v == rows[p].user_view
           IN  /\ At(t, "draining") /\ OthersFree(t) /\ p \in Viewing /\ v \in DOMAIN collectors
               /\ thread[t].changes \in Seq(Nat) /\ Moves(t, Idle)
               /\ SameViews /\ collectors'[v].changes = <<>>
               /\ \A x \in DOMAIN collectors : x # v => collectors'[x] = collectors[x]
               /\ delivered' \in [Page -> Seq(Nat)] /\ delivered'[p] = delivered[p] \o thread[t].changes
               /\ \A q \in Page : q # p => delivered'[q] = delivered[q]
               /\ UNCHANGED <<user, store, carried, rows, asleep, writes, captured, overlapped>>
  <1> DEFINE p == thread[t].page
             v == rows[p].user_view
             c == [collectors[v] EXCEPT !.changes = <<>>]
  <1>1. /\ At(t, "draining") /\ thread' = [thread EXCEPT ![t] = Idle]
        /\ collectors' = [collectors EXCEPT ![v] = c]
        /\ delivered' = [delivered EXCEPT ![p] = @ \o thread[t].changes]
        /\ UNCHANGED <<user, store, carried, rows, asleep, writes, captured, overlapped>>
    BY DEF DrainResets, Ends, rowVars
  <1>2. OthersFree(t)
    BY <1>1, HolderIsAlone DEF Locks, At
  <1>3. /\ Shape /\ Mine(t) /\ collectors \in Seq(Collector) /\ thread[t] \in Work
        /\ \A q \in Viewing : q \in Page /\ rows[q].user_view \in DOMAIN collectors
        /\ \A x \in DOMAIN collectors : collectors[x] \in Collector
    BY <1>2, StartsMine
  <1>4. p \in Viewing /\ p \in Page /\ v \in DOMAIN collectors /\ collectors[v] \in Collector
    BY <1>1, <1>3 DEF Mine
  <1>5. thread[t].changes \in Seq(Nat)
    BY <1>1, <1>3, WorkParts DEF At
  <1>6. /\ c \in Collector /\ c.changes = <<>> /\ c.page = collectors[v].page /\ c.bag = collectors[v].bag
        /\ c.paths = collectors[v].paths /\ c.attached = collectors[v].attached
    BY <1>4, EmptySeq DEF Collector
  <1>7. Moves(t, Idle)
    BY <1>1, <1>3, WorkMade, WorkMoves DEF Shape
  <1>8. delivered' \in [Page -> Seq(Nat)] /\ delivered'[p] = delivered[p] \o thread[t].changes
        /\ \A q \in Page : q # p => delivered'[q] = delivered[q]
    <2>1. delivered \in [Page -> Seq(Nat)]
      BY <1>3 DEF Shape
    <2>2. delivered[p] \o thread[t].changes \in Seq(Nat)
      BY <1>4, <1>5, <2>1, ConcatProperties
    <2> HIDE DEF p, v, c
    <2> QED BY <1>1, <1>4, <2>1, <2>2
  <1> HIDE DEF c, v
  <1>9. OneIs(v, c)
    BY <1>1, <1>3, <1>4, <1>6, Replaces
  <1>10. SameViews
    BY <1>6, <1>9 DEF SameViews, OneIs
  <1> QED BY <1>1, <1>2, <1>4, <1>5, <1>6, <1>7, <1>8, <1>9, <1>10 DEF OneIs, v

\* A line that moves no view, and keeps what its holder knows.
LEMMA HolderKeepsViews ==
    ASSUME ViewInv, NEW t \in Thread, OthersFree(t), NEW w, w \in Work, Moves(t, w), SameViews,
           w.pc # "notifying",
           \A p : HandOf(w, p) <=> HandOf(thread[t], p),
           \A p : DueOf(w, p) <=> DueOf(thread[t], p),
           \A v : FreshOf(w, v) <=> FreshOf(thread[t], v),
           w.pc = "reattaching" => FALSE,
           w.pc \in {"detached", "feeding", "fed"} =>
              thread[t].pc \in {"detached", "feeding", "fed"} /\ w.then = thread[t].then /\ w.page = thread[t].page,
           w.pc \in {"feeding", "fed"} => thread[t].pc \in {"feeding", "fed"} /\ w.fresh = thread[t].fresh,
           w.pc # "draining",
           UNCHANGED <<user, store, carried, rows, asleep, writes, captured>>,
           delivered' \in [Page -> Seq(Nat)]
    PROVE  ViewInv'
  <1>1. /\ Shape /\ Mine(t)
        /\ \A p \in Viewing : rows[p].user_view \in DOMAIN collectors /\ p \in Page
    BY StartsMine
  <1>2. Viewing' = Viewing
    BY DEF Viewing
  <1>3. \A p \in Viewing : /\ View(p)'.page = View(p).page /\ View(p)'.bag = View(p).bag
                           /\ View(p)'.paths = View(p).paths /\ View(p)'.attached = View(p).attached
    BY <1>1 DEF View, SameViews
  <1>4. Shape'
    BY <1>1, <1>2, <1>3 DEF Shape, Moves, SameViews
  <1>5. thread'[t] = w
    BY DEF Moves
  <1>6. /\ \A p \in DOMAIN rows' : rows'[p].store_subscriptions # {} => p \in Viewing'
        /\ \A p \in Viewing' : /\ View(p)'.paths = rows'[p].store_subscriptions
                               /\ View(p)'.attached <=> ~HandOf(thread[t], p)'
                               /\ View(p)'.bag = store'[user'] \/ DueOf(thread[t], p)'
    BY <1>1, <1>2, <1>3, <1>5 DEF Mine, HandOf, DueOf
  <1>7. \A v \in DOMAIN collectors' :
          collectors'[v].attached => (\E p \in Viewing' : rows'[p].user_view = v) \/ FreshOf(thread[t], v)'
    BY <1>1, <1>2, <1>5 DEF Mine, FreshOf, SameViews
  <1>8. thread'[t].pc \in {"detached", "feeding", "fed"} =>
          LoopOK(thread[t].then)' /\ thread'[t].page \in thread'[t].then.pages
    BY <1>1, <1>2, <1>5 DEF Mine, LoopOK
  <1>9. thread'[t].pc \in {"feeding", "fed"} => FreshOK(thread[t])'
    BY <1>1, <1>5 DEF Mine, FreshOK, SameViews
  <1>10. Mine(t)'
    BY <1>5, <1>6, <1>7, <1>8, <1>9 DEF Mine, At
  <1> QED BY <1>4, <1>10, MineIsKept DEF SameViews

LEMMA DrainResetsStep ==
    ASSUME ViewInv, NEW t \in Thread, DrainResets(t)
    PROVE  ViewInv'
  <1>1. /\ At(t, "draining") /\ OthersFree(t) /\ Moves(t, Idle) /\ SameViews
        /\ delivered' \in [Page -> Seq(Nat)]
        /\ UNCHANGED <<user, store, carried, rows, asleep, writes, captured>>
    BY ResetsEffect
  <1>2. Idle \in Work /\ Idle.pc = "idle"
    BY WorkMade
  <1>3. /\ \A p : HandOf(Idle, p) <=> HandOf(thread[t], p)
        /\ \A p : DueOf(Idle, p) <=> DueOf(thread[t], p)
        /\ \A v : FreshOf(Idle, v) <=> FreshOf(thread[t], v)
    BY <1>1, <1>2 DEF HandOf, DueOf, FreshOf, At
  <1> QED BY <1>1, <1>2, <1>3, HolderKeepsViews

LEMMA ReattachedStep ==
    ASSUME ViewInv, NEW t \in Thread, Reattached(t)
    PROVE  ViewInv'
  <1>1. /\ At(t, "reattaching") /\ thread[t].pages = {} /\ thread' = [thread EXCEPT ![t] = Idle]
        /\ UNCHANGED <<user, store, carried, rows, collectors, asleep, writes, captured, delivered>>
    BY DEF Reattached, Ends, rowVars, historyVars
  <1>2. OthersFree(t) /\ Shape
    BY <1>1, HolderIsAlone DEF Locks, At, ViewInv
  <1>3. Idle \in Work /\ Idle.pc = "idle" /\ Moves(t, Idle)
    BY <1>1, <1>2, WorkMade, WorkMoves DEF Shape
  <1>4. /\ \A p : HandOf(Idle, p) <=> HandOf(thread[t], p)
        /\ \A p : DueOf(Idle, p) <=> DueOf(thread[t], p)
        /\ \A v : FreshOf(Idle, v) <=> FreshOf(thread[t], v)
    BY <1>1, <1>3 DEF HandOf, DueOf, FreshOf, At
  <1>5. delivered' \in [Page -> Seq(Nat)] /\ SameViews
    BY <1>1, <1>2, SameCollectors DEF Shape
  <1> QED BY <1>1, <1>2, <1>3, <1>4, <1>5, HolderKeepsViews

LEMMA FeedEffect ==
    ASSUME ViewInv, NEW t \in Thread, Feed(t)
    PROVE  LET n == OldChanges(t)[thread[t].fed + 1]  f == thread[t].fresh
               w == [thread[t] EXCEPT !.fed = @ + 1]
           IN  /\ At(t, "feeding") /\ OthersFree(t) /\ Mine(t) /\ thread[t].page \in Viewing
               /\ rows[thread[t].page].user_view \in DOMAIN collectors
               /\ OldChanges(t) \in Seq(Nat) /\ thread[t].fed \in Nat
               /\ thread[t].fed < Len(OldChanges(t)) /\ n \in Nat
               /\ w \in Work /\ w.pc = "feeding" /\ w.page = thread[t].page /\ w.then = thread[t].then
               /\ w.fed = thread[t].fed + 1 /\ w.fresh = f /\ Moves(t, w)
               /\ f \in DOMAIN collectors /\ f # rows[thread[t].page].user_view
               /\ OneIs(f, Deposited(collectors[f], n)) /\ SameViews
               /\ collectors'[f].changes = Append(collectors[f].changes, n)
               /\ UNCHANGED <<user, store, carried, rows, asleep, writes, captured, delivered, overlapped>>
  <1> DEFINE n == OldChanges(t)[thread[t].fed + 1]
             f == thread[t].fresh
             p == thread[t].page
             w == [thread[t] EXCEPT !.fed = @ + 1]
             c == Deposited(collectors[f], n)
  <1>1. /\ At(t, "feeding") /\ thread[t].fed < Len(OldChanges(t))
        /\ collectors' = [collectors EXCEPT ![f] = c] /\ thread' = [thread EXCEPT ![t] = w]
        /\ UNCHANGED <<user, store, carried, rows, asleep, writes, captured, delivered, overlapped>>
    BY DEF Feed, rowVars, historyVars
  <1>2. OthersFree(t)
    BY <1>1, HolderIsAlone DEF Locks, At
  <1>3. /\ Shape /\ Mine(t) /\ collectors \in Seq(Collector) /\ thread[t] \in Work
        /\ \A q \in Viewing : q \in Page /\ rows[q].user_view \in DOMAIN collectors
        /\ \A x \in DOMAIN collectors : collectors[x] \in Collector
    BY <1>2, StartsMine
  <1>4. p \in Viewing /\ FreshOK(thread[t])
    BY <1>1, <1>3 DEF Mine, At, LoopOK
  <1>5. f \in DOMAIN collectors /\ f # rows[p].user_view /\ rows[p].user_view \in DOMAIN collectors
    BY <1>3, <1>4 DEF FreshOK
  <1>6. OldChanges(t) \in Seq(Nat)
    BY <1>3, <1>5, CollectorParts DEF OldChanges
  <1>7. thread[t] \in [pc : {"feeding", "fed"}, page : Page, then : Loop, fed : Nat, fresh : Nat]
    BY <1>1, <1>3 DEF Work, Idle, Loop, At
  <1>8. /\ w \in Work /\ w.pc = "feeding" /\ w.page = p /\ w.then = thread[t].then
        /\ w.fed = thread[t].fed + 1 /\ w.fresh = f /\ thread[t].fed \in Nat
    BY <1>1, <1>7 DEF Work, At
  <1>9. n \in Nat
    <2>1. Len(OldChanges(t)) \in Nat /\ thread[t].fed + 1 \in 1..Len(OldChanges(t))
      BY <1>1, <1>6, <1>8, LenProperties
    <2> QED BY <1>6, <2>1, ElementOfSeq
  <1> HIDE DEF w, n, f
  <1>10. Moves(t, w)
    BY <1>1, <1>3, <1>8, WorkMoves DEF Shape
  <1>11. /\ c \in Collector /\ c.changes = Append(collectors[f].changes, n)
         /\ c.page = collectors[f].page /\ c.bag = collectors[f].bag
         /\ c.paths = collectors[f].paths /\ c.attached = collectors[f].attached
    BY <1>3, <1>5, <1>9, DepositedParts
  <1> HIDE DEF c
  <1>12. OneIs(f, c)
    BY <1>1, <1>3, <1>5, <1>11, Replaces
  <1>13. SameViews /\ collectors'[f].changes = Append(collectors[f].changes, n)
    BY <1>11, <1>12 DEF SameViews, OneIs
  <1> QED BY <1>1, <1>2, <1>3, <1>4, <1>5, <1>6, <1>8, <1>9, <1>10, <1>12, <1>13 DEF w, n, f, c

LEMMA FedEffect ==
    ASSUME ViewInv, NEW t \in Thread, Fed(t)
    PROVE  LET w == [thread[t] EXCEPT !.pc = "fed"]
           IN  /\ At(t, "feeding") /\ OthersFree(t) /\ thread[t].fed = Len(OldChanges(t))
               /\ w \in Work /\ w.pc = "fed" /\ w.page = thread[t].page /\ w.then = thread[t].then
               /\ w.fed = thread[t].fed /\ w.fresh = thread[t].fresh /\ Moves(t, w)
               /\ UNCHANGED <<user, store, carried, rows, collectors, asleep, writes, captured, delivered, overlapped>>
  <1> DEFINE w == [thread[t] EXCEPT !.pc = "fed"]
  <1>1. /\ At(t, "feeding") /\ thread[t].fed = Len(OldChanges(t)) /\ thread' = [thread EXCEPT ![t] = w]
        /\ UNCHANGED <<user, store, carried, rows, collectors, asleep, writes, captured, delivered, overlapped>>
    BY DEF Fed, rowVars, historyVars
  <1>2. OthersFree(t) /\ Shape /\ thread[t] \in Work
    BY <1>1, HolderIsAlone DEF Locks, At, ViewInv, Shape
  <1>3. thread[t] \in [pc : {"feeding", "fed"}, page : Page, then : Loop, fed : Nat, fresh : Nat]
    BY <1>1, <1>2 DEF Work, Idle, Loop, At
  <1>4. /\ w \in Work /\ w.pc = "fed" /\ w.page = thread[t].page /\ w.then = thread[t].then
        /\ w.fed = thread[t].fed /\ w.fresh = thread[t].fresh
    BY <1>3 DEF Work
  <1> HIDE DEF w
  <1>5. Moves(t, w)
    BY <1>1, <1>2, <1>4, WorkMoves DEF Shape
  <1> QED BY <1>1, <1>2, <1>4, <1>5 DEF w

LEMMA FeedStep ==
    ASSUME ViewInv, NEW t \in Thread, Feed(t) \/ Fed(t)
    PROVE  ViewInv'
  <1>1. PICK w \in Work :
          /\ At(t, "feeding") /\ OthersFree(t)
          /\ w.pc \in {"feeding", "fed"} /\ w.page = thread[t].page /\ w.then = thread[t].then
          /\ w.fresh = thread[t].fresh /\ Moves(t, w) /\ SameViews
          /\ UNCHANGED <<user, store, carried, rows, asleep, writes, captured, delivered>>
    <2>1. CASE Feed(t)
      BY <2>1, FeedEffect
    <2>2. CASE Fed(t)
      BY <2>2, FedEffect, SameCollectors DEF ViewInv
    <2> QED BY <2>1, <2>2
  <1>2. /\ \A p : HandOf(w, p) <=> HandOf(thread[t], p)
        /\ \A p : DueOf(w, p) <=> DueOf(thread[t], p)
        /\ \A v : FreshOf(w, v) <=> FreshOf(thread[t], v)
    BY <1>1 DEF HandOf, DueOf, FreshOf, At
  <1>3. delivered' \in [Page -> Seq(Nat)] /\ thread[t].pc = "feeding"
    BY <1>1 DEF ViewInv, Shape, At
  <1> QED BY <1>1, <1>2, <1>3, HolderKeepsViews

LEMMA DetachEffect ==
    ASSUME ViewInv, NEW t \in Thread, NEW p, Detach(t, p)
    PROVE  LET v == rows[p].user_view  w == [pc |-> "detached", page |-> p, then |-> thread[t]]
           IN  /\ At(t, "reattaching") /\ OthersFree(t) /\ p \in thread[t].pages /\ p \in Viewing /\ p \in Page
               /\ thread[t] \in Loop /\ w \in Work /\ Moves(t, w)
               /\ OneIs(v, Detached(collectors[v])) /\ Detached(collectors[v]) \in Collector
               /\ ~collectors'[v].attached
               /\ \A x \in DOMAIN collectors :
                     /\ collectors'[x].page = collectors[x].page /\ collectors'[x].bag = collectors[x].bag
                     /\ collectors'[x].paths = collectors[x].paths
                     /\ collectors'[x].changes = collectors[x].changes
               /\ UNCHANGED <<user, store, carried, rows, asleep, writes, captured, delivered, overlapped>>
  <1> DEFINE v == rows[p].user_view
             w == [pc |-> "detached", page |-> p, then |-> thread[t]]
  <1>1. /\ At(t, "reattaching") /\ p \in thread[t].pages
        /\ collectors' = [collectors EXCEPT ![v] = Detached(collectors[v])]
        /\ thread' = [thread EXCEPT ![t] = w]
        /\ UNCHANGED <<user, store, carried, rows, asleep, writes, captured, delivered, overlapped>>
    BY DEF Detach, rowVars, historyVars
  <1>2. OthersFree(t)
    BY <1>1, HolderIsAlone DEF Locks, At
  <1>3. /\ Shape /\ Mine(t) /\ collectors \in Seq(Collector) /\ thread[t] \in Work
        /\ \A q \in Viewing : q \in Page /\ rows[q].user_view \in DOMAIN collectors
        /\ \A x \in DOMAIN collectors : collectors[x] \in Collector
    BY <1>2, StartsMine
  <1>4. p \in Viewing /\ p \in Page /\ v \in DOMAIN collectors /\ collectors[v] \in Collector
    BY <1>1, <1>3 DEF Mine, LoopOK
  <1>5. thread[t] \in Loop
    BY <1>1, <1>3, WorkParts DEF At
  <1>6. w \in Work
    BY <1>4, <1>5, WorkMade
  <1>7. /\ Detached(collectors[v]) \in Collector /\ ~Detached(collectors[v]).attached
        /\ Detached(collectors[v]).page = collectors[v].page /\ Detached(collectors[v]).bag = collectors[v].bag
        /\ Detached(collectors[v]).paths = collectors[v].paths
        /\ Detached(collectors[v]).changes = collectors[v].changes
    BY <1>4, CollectorParts
  <1> HIDE DEF w, v
  <1>8. Moves(t, w)
    BY <1>1, <1>3, <1>6, WorkMoves DEF Shape
  <1>9. OneIs(v, Detached(collectors[v]))
    BY <1>1, <1>3, <1>4, <1>7, Replaces
  <1>10. \A x \in DOMAIN collectors :
            /\ collectors'[x].page = collectors[x].page /\ collectors'[x].bag = collectors[x].bag
            /\ collectors'[x].paths = collectors[x].paths /\ collectors'[x].changes = collectors[x].changes
    BY <1>7, <1>9 DEF OneIs
  <1>11. ~collectors'[v].attached
    BY <1>7, <1>9 DEF OneIs
  <1> QED BY <1>1, <1>2, <1>4, <1>5, <1>6, <1>7, <1>8, <1>9, <1>10, <1>11 DEF w, v

LEMMA DetachStep ==
    ASSUME ViewInv, NEW t \in Thread, NEW p, Detach(t, p)
    PROVE  ViewInv'
  <1> DEFINE v == rows[p].user_view
             w == [pc |-> "detached", page |-> p, then |-> thread[t]]
  <1>1. /\ At(t, "reattaching") /\ OthersFree(t) /\ p \in thread[t].pages /\ p \in Viewing
        /\ w \in Work /\ Moves(t, w) /\ OneIs(v, Detached(collectors[v])) /\ ~collectors'[v].attached
        /\ \A x \in DOMAIN collectors :
              /\ collectors'[x].page = collectors[x].page /\ collectors'[x].bag = collectors[x].bag
              /\ collectors'[x].paths = collectors[x].paths
        /\ UNCHANGED <<user, store, carried, rows, asleep, writes, captured, delivered>>
    BY DetachEffect
  <1>2. /\ Shape /\ Mine(t)
        /\ \A q \in Viewing : /\ rows[q].user_view \in DOMAIN collectors /\ q \in Page
                              /\ collectors[rows[q].user_view].page = q
    BY <1>1, StartsMine
  <1>3. w.pc = "detached" /\ w.page = p /\ w.then = thread[t]
    OBVIOUS
  <1> HIDE DEF w
  <1>4. Viewing' = Viewing
    BY <1>1 DEF Viewing
  <1>5. /\ \A q \in Viewing : /\ View(q)'.page = View(q).page /\ View(q)'.bag = View(q).bag
                              /\ View(q)'.paths = View(q).paths
        /\ \A q \in Viewing : q # p => View(q)' = View(q)
        /\ ~View(p)'.attached
    <2>1. \A q \in Viewing : q # p => rows[q].user_view # v
      BY <1>1, <1>2
    <2> QED BY <1>1, <1>2, <2>1 DEF View, OneIs
  <1>6. Shape'
    BY <1>1, <1>2, <1>4, <1>5 DEF Shape, Moves, OneIs
  <1>7. thread'[t] = w /\ thread[t].pc = "reattaching"
    BY <1>1 DEF Moves, At
  <1>8. /\ \A q : HandOf(thread[t], q)' <=> q = p
        /\ \A q : ~HandOf(thread[t], q) /\ ~FreshOf(thread[t], q)
        /\ \A q : DueOf(thread[t], q)' <=> DueOf(thread[t], q)
    BY <1>3, <1>7 DEF HandOf, DueOf, FreshOf
  <1>9. /\ \A q \in DOMAIN rows' : rows'[q].store_subscriptions # {} => q \in Viewing'
        /\ \A q \in Viewing' : /\ View(q)'.paths = rows'[q].store_subscriptions
                               /\ View(q)'.attached <=> ~HandOf(thread[t], q)'
                               /\ View(q)'.bag = store'[user'] \/ DueOf(thread[t], q)'
    BY <1>1, <1>2, <1>4, <1>5, <1>8 DEF Mine
  <1>10. ASSUME NEW x \in DOMAIN collectors', collectors'[x].attached
         PROVE  \E q \in Viewing' : rows'[q].user_view = x
    <2>1. x \in DOMAIN collectors /\ collectors[x].attached
      BY <1>1, <1>10 DEF OneIs
    <2> QED BY <1>1, <1>2, <1>4, <1>8, <2>1 DEF Mine
  <1>11. LoopOK(thread[t].then)' /\ thread'[t].page \in thread'[t].then.pages
    BY <1>1, <1>2, <1>3, <1>4, <1>7 DEF Mine, LoopOK, At
  <1>12. Mine(t)'
    BY <1>3, <1>7, <1>9, <1>10, <1>11 DEF Mine, At
  <1> QED BY <1>1, <1>3, <1>6, <1>12, MineIsKept DEF OneIs

LEMMA AttachEffect ==
    ASSUME ViewInv, NEW t \in Thread, Attach(t)
    PROVE  LET p == thread[t].page  n == Len(collectors) + 1
               w == [pc |-> "feeding", page |-> p, then |-> thread[t].then, fed |-> 0, fresh |-> n]
           IN  /\ At(t, "detached") /\ OthersFree(t) /\ p \in Viewing /\ p \in Page
               /\ n \in Nat /\ n \notin DOMAIN collectors /\ w \in Work /\ Moves(t, w)
               /\ collectors' \in Seq(Collector) /\ DOMAIN collectors' = DOMAIN collectors \cup {n}
               /\ \A x \in DOMAIN collectors : collectors'[x] = collectors[x]
               /\ collectors'[n].page = p /\ collectors'[n].bag = store[user] /\ collectors'[n].attached
               /\ collectors'[n].paths = rows[p].store_subscriptions /\ collectors'[n].changes = <<>>
               /\ UNCHANGED <<user, store, carried, rows, asleep, writes, captured, delivered, overlapped>>
  <1> DEFINE p == thread[t].page
             n == Len(collectors) + 1
             w == [pc |-> "feeding", page |-> p, then |-> thread[t].then, fed |-> 0, fresh |-> n]
             c == NewCollector(p, thread[t].then.bag, rows[p].store_subscriptions)
  <1>1. /\ At(t, "detached") /\ collectors' = Append(collectors, c)
        /\ thread' = [thread EXCEPT ![t] = [pc |-> "feeding", page |-> p, then |-> thread[t].then,
                          fed |-> 0, fresh |-> Len(collectors')]]
        /\ UNCHANGED <<user, store, carried, rows, asleep, writes, captured, delivered, overlapped>>
    BY DEF Attach, rowVars, historyVars
  <1>2. OthersFree(t)
    BY <1>1, HolderIsAlone DEF Locks, At
  <1>3. /\ Shape /\ Mine(t) /\ collectors \in Seq(Collector) /\ thread[t] \in Work
        /\ \A q \in Viewing : q \in Page /\ rows[q].user_view \in DOMAIN collectors /\ q \in DOMAIN rows
        /\ \A q \in DOMAIN rows : rows[q] \in Row
    BY <1>2, StartsMine
  <1>4. p \in Viewing /\ p \in Page /\ thread[t].then.bag = store[user] /\ thread[t].then \in Loop
    BY <1>1, <1>3, WorkParts DEF Mine, LoopOK, At
  <1>5. store[user] \in Bag /\ rows[p].store_subscriptions \in SUBSET Path
    BY <1>3, <1>4, RowParts DEF Loop
  <1>6. /\ c \in Collector /\ c.page = p /\ c.bag = store[user] /\ c.attached
        /\ c.paths = rows[p].store_subscriptions /\ c.changes = <<>>
    BY <1>4, <1>5, NewParts
  <1> HIDE DEF c
  <1>7. /\ collectors' \in Seq(Collector) /\ n \notin DOMAIN collectors /\ Len(collectors') = n /\ n \in Nat
        /\ DOMAIN collectors' = DOMAIN collectors \cup {n} /\ collectors'[n] = c
        /\ \A x \in DOMAIN collectors : collectors'[x] = collectors[x]
    BY <1>1, <1>3, <1>6, OneMore
  <1>8. thread' = [thread EXCEPT ![t] = w]
    BY <1>1, <1>7
  <1>9. w \in Work
    <2> HIDE DEF n
    <2> QED BY <1>4, <1>7, WorkMade
  <1> HIDE DEF w, n
  <1>10. Moves(t, w)
    BY <1>3, <1>8, <1>9, WorkMoves DEF Shape
  <1> QED BY <1>1, <1>2, <1>4, <1>6, <1>7, <1>9, <1>10 DEF w, n

LEMMA AttachStep ==
    ASSUME ViewInv, NEW t \in Thread, Attach(t)
    PROVE  ViewInv'
  <1> DEFINE p == thread[t].page
             n == Len(collectors) + 1
             w == [pc |-> "feeding", page |-> p, then |-> thread[t].then, fed |-> 0, fresh |-> n]
  <1>1. /\ At(t, "detached") /\ OthersFree(t) /\ p \in Viewing /\ p \in Page
        /\ n \in Nat /\ n \notin DOMAIN collectors /\ w \in Work /\ Moves(t, w)
        /\ collectors' \in Seq(Collector) /\ DOMAIN collectors' = DOMAIN collectors \cup {n}
        /\ \A x \in DOMAIN collectors : collectors'[x] = collectors[x]
        /\ collectors'[n].page = p /\ collectors'[n].bag = store[user] /\ collectors'[n].attached
        /\ collectors'[n].paths = rows[p].store_subscriptions
        /\ UNCHANGED <<user, store, carried, rows, asleep, writes, captured, delivered>>
    BY AttachEffect
  <1>2. /\ Shape /\ Mine(t)
        /\ \A q \in Viewing : /\ rows[q].user_view \in DOMAIN collectors /\ q \in Page
                              /\ collectors[rows[q].user_view].page = q
    BY <1>1, StartsMine
  <1>3. w.pc = "feeding" /\ w.page = p /\ w.then = thread[t].then /\ w.fresh = n
    OBVIOUS
  <1> HIDE DEF w, n
  <1>4. Viewing' = Viewing /\ \A q \in Viewing : View(q)' = View(q)
    <2>1. Viewing' = Viewing
      BY <1>1 DEF Viewing
    <2> QED BY <1>1, <1>2, <2>1 DEF View
  <1>5. Shape'
    BY <1>1, <1>2, <1>4 DEF Shape, Moves
  <1>6. thread'[t] = w /\ thread[t].pc = "detached"
    BY <1>1 DEF Moves, At
  <1>7. /\ \A q : HandOf(thread[t], q)' <=> HandOf(thread[t], q)
        /\ \A q : ~FreshOf(thread[t], q) /\ (FreshOf(thread[t], q)' <=> q = n)
        /\ \A q : DueOf(thread[t], q)' <=> DueOf(thread[t], q)
    BY <1>3, <1>6 DEF HandOf, DueOf, FreshOf
  <1>8. /\ \A q \in DOMAIN rows' : rows'[q].store_subscriptions # {} => q \in Viewing'
        /\ \A q \in Viewing' : /\ View(q)'.paths = rows'[q].store_subscriptions
                               /\ View(q)'.attached <=> ~HandOf(thread[t], q)'
                               /\ View(q)'.bag = store'[user'] \/ DueOf(thread[t], q)'
    BY <1>1, <1>2, <1>4, <1>7 DEF Mine
  <1>9. \A x \in DOMAIN collectors' : collectors'[x].attached =>
           (\E q \in Viewing' : rows'[q].user_view = x) \/ FreshOf(thread[t], x)'
    BY <1>1, <1>2, <1>4, <1>7 DEF Mine
  <1>10. LoopOK(thread[t].then)' /\ thread'[t].page \in thread'[t].then.pages
    BY <1>1, <1>2, <1>3, <1>4, <1>6 DEF Mine, LoopOK
  <1>11. FreshOK(thread[t])'
    BY <1>1, <1>2, <1>3, <1>6 DEF FreshOK
  <1>12. Mine(t)'
    BY <1>3, <1>6, <1>8, <1>9, <1>10, <1>11 DEF Mine, At
  <1> QED BY <1>1, <1>3, <1>5, <1>12, MineIsKept

LEMMA AssignEffect ==
    ASSUME ViewInv, NEW t \in Thread, Assign(t)
    PROVE  LET p == thread[t].page  f == thread[t].fresh
               w == [thread[t].then EXCEPT !.pages = @ \ {p}]
           IN  /\ At(t, "fed") /\ OthersFree(t) /\ Mine(t) /\ p \in Viewing /\ p \in Page
               /\ f \in DOMAIN collectors /\ FreshOK(thread[t])
               /\ w \in Loop /\ w \in Work /\ w.pc = "reattaching" /\ w.pages = thread[t].then.pages \ {p}
               /\ w.bag = thread[t].then.bag /\ Moves(t, w)
               /\ DOMAIN rows' = DOMAIN rows /\ rows'[p] \in Row /\ rows'[p].user_view = f
               /\ rows'[p].store_subscriptions = rows[p].store_subscriptions
               /\ \A q \in DOMAIN rows : q # p => rows'[q] = rows[q]
               /\ Viewing' = Viewing /\ \A q \in Viewing : q # p => View(q)' = View(q)
               /\ UNCHANGED <<user, store, carried, collectors, asleep, writes, captured, delivered, overlapped>>
  <1> DEFINE p == thread[t].page
             f == thread[t].fresh
             w == [thread[t].then EXCEPT !.pages = @ \ {p}]
  <1>1. /\ At(t, "fed") /\ rows' = [rows EXCEPT ![p].user_view = f] /\ thread' = [thread EXCEPT ![t] = w]
        /\ UNCHANGED <<user, store, carried, collectors, asleep, writes, captured, delivered, overlapped>>
    BY DEF Assign, rowVars, historyVars
  <1>2. OthersFree(t)
    BY <1>1, HolderIsAlone DEF Locks, At
  <1>3. /\ Shape /\ Mine(t) /\ thread[t] \in Work
        /\ \A q \in Viewing : q \in Page /\ rows[q].user_view \in DOMAIN collectors /\ q \in DOMAIN rows
        /\ \A q \in DOMAIN rows : rows[q] \in Row
        /\ NoView \notin DOMAIN collectors /\ DOMAIN collectors \subseteq Nat
    BY <1>2, StartsMine
  <1>4. p \in Viewing /\ p \in Page /\ FreshOK(thread[t]) /\ f \in DOMAIN collectors
        /\ thread[t].then \in Loop /\ p \in DOMAIN rows
    BY <1>1, <1>3, WorkParts DEF Mine, LoopOK, At, FreshOK
  <1>5. w \in Loop /\ w.pc = "reattaching" /\ w.pages = thread[t].then.pages \ {p} /\ w.bag = thread[t].then.bag
    BY <1>4 DEF Loop
  <1> HIDE DEF w
  <1>6. w \in Work /\ Moves(t, w)
    BY <1>1, <1>3, <1>5, WorkMade, WorkMoves DEF Shape
  <1>7. /\ DOMAIN rows' = DOMAIN rows /\ rows'[p] \in Row /\ rows'[p].user_view = f
        /\ rows'[p].store_subscriptions = rows[p].store_subscriptions
        /\ \A q \in DOMAIN rows : q # p => rows'[q] = rows[q]
    BY <1>1, <1>3, <1>4 DEF Row
  <1>8. f # NoView
    BY <1>3, <1>4
  <1> HIDE DEF p, f
  <1>9. Viewing' = Viewing
    BY <1>4, <1>7, <1>8 DEF Viewing
  <1>10. \A q \in Viewing : q # p => View(q)' = View(q)
    BY <1>1, <1>3, <1>4, <1>7 DEF View
  <1> QED BY <1>1, <1>2, <1>3, <1>4, <1>5, <1>6, <1>7, <1>9, <1>10 DEF w, p, f

LEMMA AssignStep ==
    ASSUME ViewInv, NEW t \in Thread, Assign(t)
    PROVE  ViewInv'
  <1> DEFINE p == thread[t].page
             f == thread[t].fresh
             w == [thread[t].then EXCEPT !.pages = @ \ {p}]
  <1>1. /\ At(t, "fed") /\ OthersFree(t) /\ Mine(t) /\ p \in Viewing /\ p \in Page
        /\ f \in DOMAIN collectors /\ FreshOK(thread[t])
        /\ w \in Work /\ w.pc = "reattaching" /\ w.pages = thread[t].then.pages \ {p}
        /\ w.bag = thread[t].then.bag /\ Moves(t, w)
        /\ DOMAIN rows' = DOMAIN rows /\ rows'[p] \in Row /\ rows'[p].user_view = f
        /\ rows'[p].store_subscriptions = rows[p].store_subscriptions
        /\ \A q \in DOMAIN rows : q # p => rows'[q] = rows[q]
        /\ Viewing' = Viewing /\ \A q \in Viewing : q # p => View(q)' = View(q)
        /\ UNCHANGED <<user, store, carried, collectors, asleep, writes, captured, delivered>>
    BY AssignEffect
  <1>2. /\ Shape /\ \A q \in Viewing : /\ q \in DOMAIN rows /\ rows[q].user_view \in DOMAIN collectors
                                       /\ collectors[rows[q].user_view].page = q
    BY <1>1, StartsMine
  <1>3. /\ collectors[f].page = p /\ collectors[f].attached /\ collectors[f].bag = store[user]
        /\ collectors[f].paths = rows[p].store_subscriptions
    BY <1>1 DEF FreshOK
  <1> HIDE DEF w
  <1>4. thread'[t] = w /\ thread[t].pc = "fed" /\ thread' \in [Thread -> Work]
    BY <1>1 DEF Moves, At
  <1>5. Shape'
    <2>1. \A q \in Viewing' : rows'[q].user_view \in DOMAIN collectors' /\ View(q)'.page = q
      <3> SUFFICES ASSUME NEW q \in Viewing PROVE rows'[q].user_view \in DOMAIN collectors' /\ View(q)'.page = q
        BY <1>1
      <3>1. CASE q = p
        BY <1>1, <1>3, <3>1 DEF View
      <3>2. CASE q # p
        BY <1>1, <1>2, <3>2 DEF View
      <3> QED BY <3>1, <3>2
    <2>2. DOMAIN rows' \subseteq Page /\ \A q \in DOMAIN rows' : rows'[q] \in Row
      BY <1>1, <1>2 DEF Shape
    <2> QED BY <1>1, <1>2, <1>4, <2>1, <2>2 DEF Shape
  <1>6. /\ \A q : ~HandOf(thread[t], q)' /\ (HandOf(thread[t], q) <=> q = p)
        /\ \A q : q # p /\ DueOf(thread[t], q) => DueOf(thread[t], q)'
        /\ \A x : FreshOf(thread[t], x) <=> x = f
    BY <1>1, <1>4 DEF HandOf, DueOf, FreshOf
  <1>7. \A q \in DOMAIN rows' : rows'[q].store_subscriptions # {} => q \in Viewing'
    BY <1>1 DEF Mine
  <1>8. \A q \in Viewing' : /\ View(q)'.paths = rows'[q].store_subscriptions
                            /\ View(q)'.attached <=> ~HandOf(thread[t], q)'
                            /\ View(q)'.bag = store'[user'] \/ DueOf(thread[t], q)'
    <2> SUFFICES ASSUME NEW q \in Viewing
                 PROVE  /\ View(q)'.paths = rows'[q].store_subscriptions
                        /\ View(q)'.attached <=> ~HandOf(thread[t], q)'
                        /\ View(q)'.bag = store'[user'] \/ DueOf(thread[t], q)'
      BY <1>1
    <2>1. CASE q = p
      <3>1. rows'[q].user_view = f /\ rows'[q].store_subscriptions = rows[p].store_subscriptions
            /\ collectors' = collectors /\ store' = store /\ user' = user
        BY <1>1, <2>1
      <3>2. View(q)' = collectors[f]
        BY <3>1 DEF View
      <3> QED BY <1>3, <1>6, <3>1, <3>2
    <2>2. CASE q # p
      BY <1>1, <1>2, <1>6, <2>2 DEF Mine
    <2> QED BY <2>1, <2>2
  <1>9. \A x \in DOMAIN collectors' : collectors'[x].attached => \E q \in Viewing' : rows'[q].user_view = x
    <2> SUFFICES ASSUME NEW x \in DOMAIN collectors, collectors[x].attached
                 PROVE  \E q \in Viewing : rows'[q].user_view = x
      BY <1>1
    <2>1. CASE FreshOf(thread[t], x)
      BY <1>1, <1>6, <2>1
    <2>2. CASE ~FreshOf(thread[t], x)
      <3>1. PICK q \in Viewing : rows[q].user_view = x
        BY <1>1, <2>2 DEF Mine
      <3>2. q # p
        BY <1>1, <1>6, <3>1 DEF Mine, View
      <3> QED BY <1>1, <1>2, <3>1, <3>2
    <2> QED BY <2>1, <2>2
  <1>10. LoopOK(thread[t])'
    BY <1>1, <1>4 DEF Mine, LoopOK
  <1>11. Mine(t)'
    BY <1>1, <1>4, <1>7, <1>8, <1>9, <1>10 DEF Mine, At
  <1> QED BY <1>1, <1>5, <1>11, MineIsKept
-----------------------------------------------------------------------------
LEMMA ViewInvInit ==
    ASSUME Init
    PROVE  ViewInv
  <1>1. PICK home \in [{Guest} -> Bag] \cup [{Guest, User} -> Bag] :
          store = home /\ carried = Bag \ {home[u] : u \in DOMAIN home}
    BY DEF Init
  <1>2. /\ user = Guest /\ rows = [p \in Page |-> [store_subscriptions |-> {}, user_view |-> NoView]]
        /\ asleep = <<>> /\ collectors = <<>> /\ thread = [t \in Thread |-> Idle] /\ writes = 0
        /\ captured = [p \in Page |-> {}] /\ delivered = [p \in Page |-> <<>>]
    BY DEF Init
  <1>3. DOMAIN rows = Page /\ Viewing = {} /\ \A p \in Page : rows[p] \in Row /\ rows[p].store_subscriptions = {}
    BY <1>2 DEF Viewing, Row, NoView
  <1>4. Guest \in DOMAIN store /\ \A u \in DOMAIN store : store[u] \in Bag
    BY <1>1
  <1>5. collectors \in Seq(Collector) /\ DOMAIN collectors = {} /\ delivered \in [Page -> Seq(Nat)]
        /\ DOMAIN asleep = {}
    BY <1>2, EmptySeq, NoRows
  <1>6. thread \in [Thread -> Work] /\ \A t \in Thread : thread[t].pc = "idle"
    BY <1>2, WorkMade
  <1>7. Shape
    BY <1>1, <1>2, <1>3, <1>4, <1>5, <1>6 DEF Shape
  <1>8. OneLocks /\ InMotion
    BY <1>6 DEF OneLocks, Locks, InMotion, At
  <1>9. Views
    BY <1>3, <1>5 DEF Views
  <1> QED BY <1>7, <1>8, <1>9 DEF ViewInv

LEMMA ViewInvNext ==
    ASSUME ViewInv, [Next]_vars
    PROVE  ViewInv'
  <1>1. CASE UNCHANGED vars
    <2>1. UNCHANGED <<user, store, carried, rows, asleep, collectors, thread, writes, captured, delivered>>
      BY <1>1 DEF vars, rowVars, historyVars
    <2>2. Shape' /\ OneLocks'
      BY <2>1 DEF ViewInv, Shape, Viewing, View, OneLocks, Locks
    <2>3. Views'
      BY <2>1 DEF ViewInv, Views, Viewing, View, InHand, Holds, Due, IsFresh, At
    <2>4. InMotion'
      BY <2>1 DEF ViewInv, InMotion, At, LoopOK, FreshOK, Viewing
    <2> QED BY <2>2, <2>3, <2>4 DEF ViewInv
  <1>2. CASE Next
    <2>1. PICK t \in Thread : Writing(t) \/ Windows(t) \/ Draining(t) \/ Moving(t)
      BY <1>2 DEF Next
    <2>2. CASE Writing(t)
      BY <2>2, SetItemStep, EventStep, WriteEndsStep DEF Writing
    <2>3. CASE Windows(t)
      BY <2>3, SubscribeStep, UnsubscribeStep, DropStep DEF Windows
    <2>4. CASE Draining(t)
      BY <2>4, DrainReadsStep, DrainResetsStep DEF Draining
    <2>5. CASE Moving(t)
      BY <2>5, LoginStep, InstallStep, WakeStep, FreezeStep, DetachStep, AttachStep,
         FeedStep, AssignStep, ReattachedStep DEF Moving
    <2> QED BY <2>1, <2>2, <2>3, <2>4, <2>5
  <1> QED BY <1>1, <1>2

\* At every line of every thread the rows, the views and what is in motion
\* agree (spa/legacy_bag.py; spa/genropy_register.py, change_connection_user;
\* spa/genropy_worker.py, _install_carried_store).
THEOREM ViewInvariant == Spec => []ViewInv
  <1>1. Init => ViewInv
    BY ViewInvInit
  <1>2. ViewInv /\ [Next]_vars => ViewInv'
    BY ViewInvNext
  <1> QED BY <1>1, <1>2, PTL DEF Spec

\* Whenever the lock is free every view watches its user's store, on the
\* prefixes of its row, and nothing else is attached, whatever logins, swaps,
\* freezes, wakes and drops have run beside the site's writes
\* (genropy_register.py, replay_fields, change_connection_user, detach_page;
\* genropy_worker.py, _install_carried_store).
THEOREM ViewsAreOnTheStore == Spec => []ViewsFollowTheStore
  <1>1. ViewInv => ViewsFollowTheStore
    BY FreeIsSettled DEF ViewInv, ViewsFollowTheStore, Settled
  <1> QED BY <1>1, ViewInvariant, PTL
-----------------------------------------------------------------------------
(* Lists of writes. *)

LEMMA SetOfAppend ==
    ASSUME NEW s \in Seq(Nat), NEW n \in Nat
    PROVE  /\ Append(s, n) \in Seq(Nat) /\ ToSet(Append(s, n)) = ToSet(s) \cup {n}
           /\ IsInjective(s) /\ n \notin ToSet(s) => IsInjective(Append(s, n))
  <1>1. Len(s) \in Nat /\ DOMAIN s = 1..Len(s)
    BY LenProperties
  <1>2. /\ Append(s, n) \in Seq(Nat) /\ DOMAIN Append(s, n) = 1..(Len(s) + 1)
        /\ \A i \in 1..Len(s) : Append(s, n)[i] = s[i]
        /\ Append(s, n)[Len(s) + 1] = n
    BY <1>1, AppendProperties, LenProperties
  <1>3. \A i \in 1..(Len(s) + 1) : i \in 1..Len(s) \/ i = Len(s) + 1
    BY <1>1
  <1> DEFINE a == Append(s, n)
             k == Len(s)
  <1> HIDE DEF a, k
  <1>4. /\ DOMAIN a = 1..(k + 1) /\ DOMAIN s = 1..k /\ \A i \in 1..k : a[i] = s[i] /\ i \in 1..(k + 1)
        /\ a[k + 1] = n /\ k + 1 \in 1..(k + 1)
    BY <1>1, <1>2 DEF a, k
  <1>5. \A i \in 1..(k + 1) : i \in 1..k \/ i = k + 1
    BY <1>3 DEF k
  <1>6. ToSet(a) = ToSet(s) \cup {n}
    <2>1. \A x \in ToSet(a) : x \in ToSet(s) \cup {n}
      BY <1>4, <1>5 DEF ToSet
    <2>2. \A x \in ToSet(s) \cup {n} : x \in ToSet(a)
      BY <1>4 DEF ToSet
    <2> QED BY <2>1, <2>2
  <1>7. ASSUME IsInjective(s), n \notin ToSet(s) PROVE IsInjective(a)
    <2>1. \A i \in 1..k : a[i] # n
      BY <1>4, <1>7 DEF ToSet
    <2> QED BY <1>4, <1>5, <1>7, <2>1 DEF IsInjective
  <1> QED BY <1>2, <1>6, <1>7 DEF a

LEMMA SetOfConcat ==
    ASSUME NEW s \in Seq(Nat), NEW r \in Seq(Nat)
    PROVE  /\ s \o r \in Seq(Nat) /\ ToSet(s \o r) = ToSet(s) \cup ToSet(r)
           /\ Once(s, r) => IsInjective(s \o r)
           /\ Len(s) \in Nat /\ Len(r) \in Nat /\ DOMAIN s = 1..Len(s) /\ DOMAIN r = 1..Len(r)
           /\ DOMAIN (s \o r) = 1..(Len(s) + Len(r))
           /\ \A i \in 1..Len(s) : (s \o r)[i] = s[i]
           /\ \A i \in 1..Len(r) : (s \o r)[Len(s) + i] = r[i]
           /\ \A i \in 1..(Len(s) + Len(r)) :
                 i \in 1..Len(s) \/ \E j \in 1..Len(r) : i = Len(s) + j
  <1> DEFINE c == s \o r
             k == Len(s)
             m == Len(r)
  <1>1. k \in Nat /\ m \in Nat /\ DOMAIN s = 1..k /\ DOMAIN r = 1..m
    BY LenProperties
  <1>2. c \in Seq(Nat) /\ Len(c) = k + m /\ \A i \in 1..(k + m) : c[i] = IF i <= k THEN s[i] ELSE r[i - k]
    BY ConcatProperties
  <1> HIDE DEF c
  <1>3. DOMAIN c = 1..(k + m)
    BY <1>2, LenProperties
  <1> HIDE DEF k, m
  <1>4. \A i \in 1..k : c[i] = s[i] /\ i \in 1..(k + m)
    BY <1>1, <1>2
  <1>5. \A i \in 1..m : c[k + i] = r[i] /\ k + i \in 1..(k + m)
    <2> SUFFICES ASSUME NEW i \in 1..m PROVE c[k + i] = r[i] /\ k + i \in 1..(k + m)
      OBVIOUS
    <2>1. k + i \in 1..(k + m) /\ ~(k + i <= k) /\ (k + i) - k = i
      BY <1>1
    <2> QED BY <1>2, <2>1
  <1>6. \A i \in 1..(k + m) : i \in 1..k \/ \E j \in 1..m : i = k + j
    <2> SUFFICES ASSUME NEW i \in 1..(k + m), i \notin 1..k PROVE \E j \in 1..m : i = k + j
      OBVIOUS
    <2>1. i - k \in 1..m /\ i = k + (i - k)
      BY <1>1
    <2> QED BY <2>1
  <1>7. ToSet(c) = ToSet(s) \cup ToSet(r)
    <2>1. \A x \in ToSet(c) : x \in ToSet(s) \cup ToSet(r)
      <3> SUFFICES ASSUME NEW i \in 1..(k + m) PROVE c[i] \in ToSet(s) \cup ToSet(r)
        BY <1>3 DEF ToSet
      <3> QED BY <1>1, <1>4, <1>5, <1>6 DEF ToSet
    <2>2. \A x \in ToSet(s) : x \in ToSet(c)
      BY <1>1, <1>3, <1>4 DEF ToSet
    <2>3. \A x \in ToSet(r) : x \in ToSet(c)
      BY <1>1, <1>3, <1>5 DEF ToSet
    <2> QED BY <2>1, <2>2, <2>3
  <1>8. ASSUME Once(s, r), NEW a \in 1..(k + m), NEW b \in 1..(k + m), c[a] = c[b]
        PROVE  a = b
    <2>1. \A i \in 1..k, j \in 1..m : s[i] # r[j]
      BY <1>1, <1>8 DEF Once, ToSet
    <2>2. CASE a \in 1..k /\ b \in 1..k
      BY <1>1, <1>4, <1>8, <2>2 DEF Once, IsInjective
    <2>3. CASE a \in 1..k /\ b \notin 1..k
      BY <1>4, <1>5, <1>6, <1>8, <2>1, <2>3
    <2>4. CASE a \notin 1..k /\ b \in 1..k
      BY <1>4, <1>5, <1>6, <1>8, <2>1, <2>4
    <2>5. CASE a \notin 1..k /\ b \notin 1..k
      <3>1. PICK i \in 1..m, j \in 1..m : a = k + i /\ b = k + j
        BY <1>6, <2>5
      <3> QED BY <1>1, <1>5, <1>8, <3>1 DEF Once, IsInjective
    <2> QED BY <2>2, <2>3, <2>4, <2>5
  <1>9. Once(s, r) => IsInjective(c)
    BY <1>3, <1>8 DEF IsInjective
  <1> QED BY <1>1, <1>2, <1>3, <1>4, <1>5, <1>6, <1>7, <1>9 DEF c, k, m

LEMMA SetOfNone ==
    /\ <<>> \in Seq(Nat) /\ Len(<<>>) = 0 /\ DOMAIN <<>> = {} /\ ToSet(<<>>) = {} /\ IsInjective(<<>>)
    /\ \A D : IsInjective(D) => Once(D, <<>>)
  BY EmptySeq, NoRows DEF ToSet, IsInjective, Once

LEMMA OnceMore ==
    ASSUME NEW D \in Seq(Nat), NEW V \in Seq(Nat), NEW n \in Nat, Once(D, V),
           n \notin ToSet(D), n \notin ToSet(V)
    PROVE  Once(D, Append(V, n))
  <1>1. IsInjective(D) /\ IsInjective(V) /\ ToSet(D) \cap ToSet(V) = {}
    BY DEF Once
  <1>2. ToSet(Append(V, n)) = ToSet(V) \cup {n} /\ IsInjective(Append(V, n))
    BY <1>1, SetOfAppend
  <1> QED BY <1>1, <1>2 DEF Once

LEMMA HeadsOf ==
    ASSUME NEW s \in Seq(Nat), NEW r \in Seq(Nat)
    PROVE  /\ Heads(s, s)
           /\ Heads(s, r) => ToSet(s) \subseteq ToSet(r)
           /\ Heads(s, r) /\ IsInjective(r) => IsInjective(s)
           /\ \A n \in Nat : Heads(s, r) => Heads(s, Append(r, n))
  <1>1. Len(s) \in Nat /\ DOMAIN s = 1..Len(s) /\ Len(r) \in Nat /\ DOMAIN r = 1..Len(r)
    BY LenProperties
  <1>2. Heads(s, r) => \A i \in DOMAIN s : i \in DOMAIN r /\ s[i] = r[i]
    BY <1>1 DEF Heads
  <1>3. Heads(s, s)
    BY <1>1 DEF Heads
  <1>4. Heads(s, r) => ToSet(s) \subseteq ToSet(r)
    BY <1>2 DEF ToSet
  <1>5. Heads(s, r) /\ IsInjective(r) => IsInjective(s)
    BY <1>2 DEF IsInjective
  <1>6. ASSUME NEW n \in Nat, Heads(s, r) PROVE Heads(s, Append(r, n))
    <2>1. Len(Append(r, n)) = Len(r) + 1 /\ \A i \in 1..Len(r) : Append(r, n)[i] = r[i]
      BY <1>1, AppendProperties
    <2>2. \A i \in 1..Len(s) : i \in 1..Len(r) /\ s[i] = r[i]
      BY <1>1, <1>2, <1>6
    <2>3. Len(s) <= Len(r) + 1
      BY <1>1, <1>6 DEF Heads
    <2> QED BY <2>1, <2>2, <2>3 DEF Heads
  <1> QED BY <1>3, <1>4, <1>5, <1>6
-----------------------------------------------------------------------------
(* No change is given twice: every line but a writer's only moves what was    *)
(* captured.                                                                  *)

\* The collectors keep what they hold, and a new one holds nothing.
Quiet ==
    /\ \A v \in DOMAIN collectors : /\ v \in DOMAIN collectors'
                                    /\ collectors'[v].page = collectors[v].page
                                    /\ collectors'[v].changes = collectors[v].changes
    /\ \A v \in DOMAIN collectors' : v \notin DOMAIN collectors => collectors'[v].changes = <<>>
    /\ delivered' = delivered /\ writes' = writes

\* The threads that write are where they were, or have ended.
SameWriters == \A s \in Thread : At(s, "notifying")' => thread'[s] = thread[s]

NothingNew == \A p \in Page, n \in Nat : NotYet(n, p) => NotYet(n, p)'

LEMMA QuietIsNothingNew ==
    ASSUME Quiet
    PROVE  NothingNew
  BY SetOfNone DEF Quiet, NothingNew, NotYet

LEMMA MovedIsSameWriters ==
    ASSUME NEW t \in Thread, NEW w, Moves(t, w), w.pc # "notifying"
    PROVE  SameWriters
  BY DEF Moves, SameWriters, At

LEMMA Numbers ==
    ASSUME Shape
    PROVE  /\ \A p \in Page : delivered[p] \in Seq(Nat) /\ \A n \in ToSet(delivered[p]) : n \in Nat
           /\ \A v \in DOMAIN collectors :
                 /\ collectors[v] \in Collector /\ collectors[v].page \in Page
                 /\ collectors[v].changes \in Seq(Nat)
                 /\ \A n \in ToSet(collectors[v].changes) : n \in Nat
  <1>1. \A s \in Seq(Nat) : \A n \in ToSet(s) : n \in Nat
    BY LenProperties, ElementOfSeq DEF ToSet
  <1>2. \A v \in DOMAIN collectors : collectors[v] \in Collector
    BY LenProperties, ElementOfSeq DEF Shape
  <1>3. \A v \in DOMAIN collectors : collectors[v].page \in Page /\ collectors[v].changes \in Seq(Nat)
    BY <1>2, CollectorParts
  <1> QED BY <1>1, <1>2, <1>3 DEF Shape

LEMMA Numbers2 ==
    ASSUME Shape'
    PROVE  /\ \A p \in Page : delivered'[p] \in Seq(Nat) /\ \A n \in ToSet(delivered'[p]) : n \in Nat
           /\ \A v \in DOMAIN collectors' :
                 /\ collectors'[v].page \in Page /\ collectors'[v].changes \in Seq(Nat)
                 /\ \A n \in ToSet(collectors'[v].changes) : n \in Nat
  <1>1. \A s \in Seq(Nat) : \A n \in ToSet(s) : n \in Nat
    BY LenProperties, ElementOfSeq DEF ToSet
  <1>2. \A v \in DOMAIN collectors' : collectors'[v] \in Collector
    BY LenProperties, ElementOfSeq DEF Shape
  <1>3. \A v \in DOMAIN collectors' : collectors'[v].page \in Page /\ collectors'[v].changes \in Seq(Nat)
    BY <1>2, CollectorParts
  <1> QED BY <1>1, <1>3 DEF Shape

\* What has come to a page was written.
LEMMA ComeIsWritten ==
    ASSUME Shape, OnTheWay, NEW p \in Page, NEW n, ~NotYet(n, p)
    PROVE  n \in Nat /\ n <= writes
  BY Numbers DEF NotYet, OnTheWay

LEMMA OnTheWayKept ==
    ASSUME ViewInv, Shape', OnTheWay, writes' \in Nat, writes <= writes', NothingNew, SameWriters,
           \A v \in DOMAIN collectors : v \in DOMAIN collectors' /\ collectors'[v].page = collectors[v].page
    PROVE  OnTheWay'
  <1>0. Shape /\ InMotion /\ writes \in Nat /\ thread \in [Thread -> Work]
    BY DEF ViewInv, Shape
  <1>1. \A p \in Page, n \in Nat : ~NotYet(n, p)' => n <= writes'
    <2> SUFFICES ASSUME NEW p \in Page, NEW n \in Nat, ~NotYet(n, p)' PROVE n <= writes'
      OBVIOUS
    <2>1. ~NotYet(n, p)
      BY DEF NothingNew
    <2> QED BY <1>0, <2>1, ComeIsWritten
  <1>2. /\ \A p \in Page : \A n \in ToSet(delivered'[p]) : n <= writes'
        /\ \A v \in DOMAIN collectors' : \A n \in ToSet(collectors'[v].changes) : n <= writes'
    BY <1>1, Numbers2 DEF NotYet
  <1>3. ASSUME NEW t \in Thread, At(t, "notifying")'
        PROVE  /\ thread'[t] = thread[t] /\ At(t, "notifying")
               /\ thread'[t].write <= writes'
               /\ \A v \in thread'[t].left : NotYet(thread[t].write, collectors[v].page)'
               /\ \A v, w \in thread'[t].left : collectors'[v].page = collectors'[w].page => v = w
    <2>1. thread'[t] = thread[t] /\ At(t, "notifying")
      BY <1>3 DEF SameWriters, At
    <2>2. thread[t].write \in Nat /\ thread[t].left \subseteq DOMAIN collectors
      BY <1>0, <2>1, WorkParts DEF InMotion, At
    <2>3. thread'[t].write <= writes'
      BY <1>0, <2>1, <2>2 DEF OnTheWay
    <2>4. ASSUME NEW v \in thread'[t].left PROVE NotYet(thread[t].write, collectors[v].page)'
      <3> DEFINE p == collectors[v].page
                 n == thread[t].write
      <3>1. v \in thread[t].left /\ v \in DOMAIN collectors /\ p \in Page /\ n \in Nat /\ NotYet(n, p)
        BY <1>0, <2>1, <2>2, <2>4, Numbers DEF OnTheWay
      <3>2. /\ n \notin ToSet(delivered'[p])
            /\ \A x \in DOMAIN collectors' : collectors'[x].page = p => n \notin ToSet(collectors'[x].changes)
        <4> HIDE DEF n, p
        <4>1. PICK m \in Nat, q \in Page : m = n /\ q = p
          BY <3>1
        <4>2. NotYet(m, q)'
          BY <3>1, <4>1 DEF NothingNew
        <4> QED BY <4>1, <4>2 DEF NotYet
      <3>3. collectors'[v].page = p /\ thread'[t].write = n
        BY <2>1, <3>1
      <3> HIDE DEF n, p
      <3> QED BY <3>2, <3>3 DEF NotYet
    <2>5. \A v, w \in thread'[t].left : collectors'[v].page = collectors'[w].page => v = w
      BY <2>1, <2>2 DEF OnTheWay
    <2> QED BY <2>1, <2>3, <2>4, <2>5
  <1>4. \A s, t \in Thread : At(s, "notifying")' /\ At(t, "notifying")' /\ s # t =>
           thread'[s].write # thread'[t].write
    BY <1>3 DEF OnTheWay
  <1> QED BY <1>2, <1>3, <1>4 DEF OnTheWay

\* A line of the lock's holder, or of none.
LEMMA GivenKept ==
    ASSUME Given, NEW t \in Thread, OthersFree(t), NEW w, Moves(t, w),
           \A p \in Page : IsInjective(delivered'[p]),
           \A p \in Viewing' : Once(delivered'[p], View(p)'.changes),
           w.pc = "draining" => Heads(thread[t].changes, View(thread[t].page).changes)',
           w.pc \in {"feeding", "fed"} => FeedOK(t)'
    PROVE  Given'
  <1>1. thread'[t] = w /\ \A s \in Thread : s # t => thread'[s].pc \in {"idle", "notifying"}
    BY DEF OthersFree, Free, Moves
  <1>2. \A s \in Thread : /\ At(s, "draining")' => s = t
                          /\ thread'[s].pc \in {"feeding", "fed"} => s = t
    BY <1>1 DEF At
  <1>3. At(t, "draining")' => Heads(thread[t].changes, View(thread[t].page).changes)'
    BY <1>1 DEF At
  <1>4. thread'[t].pc \in {"feeding", "fed"} => FeedOK(t)'
    BY <1>1
  <1> QED BY <1>2, <1>3, <1>4 DEF Given

\* A step under the lock from end to end.
LEMMA FreeGives ==
    ASSUME ViewInv, Shape', OnTheWay, Given, NEW t \in Thread, At(t, "idle"), Unlocked, Quiet,
           thread' = thread,
           \A p \in Viewing' :
              p \in Page /\ (View(p)'.changes = <<>> \/ (p \in Viewing /\ View(p)'.changes = View(p).changes))
    PROVE  OnTheWay' /\ Given'
  <1>1. Shape /\ writes \in Nat /\ writes' = writes /\ delivered' = delivered
    BY DEF ViewInv, Shape, Quiet
  <1>2. Moves(t, Idle) /\ OthersFree(t) /\ Idle.pc = "idle"
    <2>1. thread[t] \in Work /\ thread[t].pc = "idle" /\ thread \in [Thread -> Work]
      BY <1>1 DEF Shape, At
    <2>2. thread[t] = Idle
      BY <2>1 DEF Work, Loop
    <2> QED BY <2>1, <2>2, LockIsFree, WorkMade DEF Moves
  <1>3. SameWriters
    BY DEF SameWriters
  <1>4. OnTheWay'
    <2>1. \A v \in DOMAIN collectors : v \in DOMAIN collectors' /\ collectors'[v].page = collectors[v].page
      BY DEF Quiet
    <2> QED BY <1>1, <1>3, <2>1, QuietIsNothingNew, OnTheWayKept
  <1>5. \A p \in Page : IsInjective(delivered'[p])
    BY <1>1 DEF Given
  <1>6. \A p \in Viewing' : Once(delivered'[p], View(p)'.changes)
    BY <1>1, SetOfNone DEF Given
  <1>7. Given'
    BY <1>2, <1>5, <1>6, GivenKept
  <1> QED BY <1>4, <1>7

LEMMA SubscribeEffect ==
    ASSUME ViewInv, NEW t \in Thread, NEW p \in Page, NEW prefix \in Path,
           subscribe_store_path(t, p, prefix) \/ unsubscribe_path(t, p, prefix)
    PROVE  /\ At(t, "idle") /\ Unlocked /\ Quiet /\ p \in DOMAIN rows
           /\ DOMAIN rows' = DOMAIN rows /\ Viewing' = Viewing \cup {p}
           /\ \A q \in Viewing : /\ rows'[q].user_view = rows[q].user_view
                                 /\ View(q)'.changes = View(q).changes
           /\ p \notin Viewing => View(p)'.changes = <<>>
           /\ UNCHANGED <<thread, asleep, captured, overlapped>>
  <1> DEFINE v == rows[p].user_view
  <1>1. /\ At(t, "idle") /\ Unlocked /\ p \in DOMAIN rows
        /\ UNCHANGED <<thread, asleep, writes, captured, delivered, overlapped, user, store>>
    BY DEF subscribe_store_path, unsubscribe_path, historyVars, rowVars
  <1>2. /\ Shape /\ collectors \in Seq(Collector) /\ rows[p] \in Row
        /\ \A q \in Viewing : q \in DOMAIN rows /\ rows[q].user_view \in DOMAIN collectors
        /\ \A w \in DOMAIN collectors : collectors[w] \in Collector
        /\ NoView \notin DOMAIN collectors
    BY <1>1, FreeStart
  <1>3. CASE v = NoView
    <2> DEFINE c == NewCollector(p, store[user], {prefix})
               n == Len(collectors) + 1
    <2>1. collectors' = Append(collectors, c)
          /\ rows' = [rows EXCEPT ![p].store_subscriptions = @ \cup {prefix}, ![p].user_view = Len(collectors')]
      BY <1>3 DEF subscribe_store_path, unsubscribe_path
    <2>2. store[user] \in Bag
      BY <1>1, <1>2 DEF Shape
    <2>3. c \in Collector /\ c.changes = <<>>
      BY <2>2, NewParts
    <2> HIDE DEF c
    <2>4. /\ n \notin DOMAIN collectors /\ Len(collectors') = n /\ n \in Nat
          /\ DOMAIN collectors' = DOMAIN collectors \cup {n} /\ collectors'[n] = c
          /\ \A w \in DOMAIN collectors : collectors'[w] = collectors[w]
      BY <1>2, <2>1, <2>3, OneMore
    <2>5. n # NoView
      BY <1>2, LenProperties DEF NoView
    <2> HIDE DEF n
    <2>6. /\ DOMAIN rows' = DOMAIN rows /\ rows'[p].user_view = n
          /\ \A q \in DOMAIN rows : q # p => rows'[q] = rows[q]
      BY <1>1, <1>2, <2>1, <2>4 DEF Row
    <2>7. p \notin Viewing /\ Viewing' = Viewing \cup {p}
      BY <1>1, <1>3, <2>5, <2>6 DEF Viewing
    <2>8. \A q \in Viewing : q # p /\ rows'[q] = rows[q] /\ View(q)' = View(q)
      BY <1>2, <2>4, <2>6, <2>7 DEF View
    <2>9. View(p)'.changes = <<>>
      BY <2>3, <2>4, <2>6 DEF View
    <2>10. Quiet
      BY <1>1, <2>3, <2>4 DEF Quiet
    <2> QED BY <1>1, <2>6, <2>7, <2>8, <2>9, <2>10
  <1>4. CASE v # NoView
    <2> DEFINE c == [collectors[v] EXCEPT !.paths = @ \cup {prefix}]
               d == [collectors[v] EXCEPT !.paths = @ \ {prefix}]
    <2>1. \/ /\ collectors' = [collectors EXCEPT ![v] = c]
             /\ rows' = [rows EXCEPT ![p].store_subscriptions = @ \cup {prefix}]
          \/ /\ collectors' = [collectors EXCEPT ![v] = d]
             /\ rows' = [rows EXCEPT ![p].store_subscriptions = @ \ {prefix}]
      BY <1>4 DEF subscribe_store_path, unsubscribe_path
    <2>2. p \in Viewing /\ v \in DOMAIN collectors /\ collectors[v] \in Collector
      BY <1>1, <1>2, <1>4 DEF Viewing
    <2>3. /\ c \in Collector /\ c.changes = collectors[v].changes /\ c.page = collectors[v].page
          /\ d \in Collector /\ d.changes = collectors[v].changes /\ d.page = collectors[v].page
      BY <2>2 DEF Collector
    <2>4. /\ DOMAIN rows' = DOMAIN rows /\ rows'[p].user_view = v
          /\ \A q \in DOMAIN rows : q # p => rows'[q] = rows[q]
      BY <1>1, <1>2, <2>1 DEF Row
    <2> HIDE DEF c, d
    <2>5. PICK e \in Collector : /\ e.changes = collectors[v].changes /\ e.page = collectors[v].page
                                 /\ collectors' = [collectors EXCEPT ![v] = e]
      BY <2>1, <2>3
    <2>6. OneIs(v, e)
      <3> HIDE DEF v
      <3> QED BY <1>2, <2>2, <2>5, Replaces
    <2>7. Viewing' = Viewing /\ \A q \in Viewing : rows'[q].user_view = rows[q].user_view
      BY <1>2, <2>2, <2>4 DEF Viewing
    <2>8. Quiet
      BY <1>1, <2>5, <2>6 DEF Quiet, OneIs
    <2>9. \A q \in Viewing : View(q)'.changes = View(q).changes
      BY <1>2, <2>7, <2>8 DEF View, Quiet
    <2> QED BY <1>1, <2>2, <2>4, <2>7, <2>8, <2>9
  <1> QED BY <1>3, <1>4

LEMMA DropIsQuiet ==
    ASSUME ViewInv, NEW t \in Thread, NEW p \in Page, drop_page(t, p)
    PROVE  /\ At(t, "idle") /\ Unlocked /\ Quiet /\ DOMAIN rows' = DOMAIN rows \ {p}
           /\ Viewing' = Viewing \ {p}
           /\ \A q \in Viewing' : rows'[q] = rows[q] /\ View(q)'.changes = View(q).changes
           /\ UNCHANGED <<thread, asleep, captured, overlapped>>
  <1>1. At(t, "idle")
    BY DEF drop_page
  <1>2. /\ Unlocked /\ DOMAIN collectors' = DOMAIN collectors
        /\ \A v \in DOMAIN collectors : /\ collectors'[v].page = collectors[v].page
                                        /\ collectors'[v].changes = collectors[v].changes
        /\ DOMAIN rows' = DOMAIN rows \ {p} /\ Viewing' = Viewing \ {p}
        /\ \A q \in Viewing' : rows'[q] = rows[q] /\ View(q)' = View(q)
        /\ UNCHANGED <<thread, asleep, writes, captured, delivered, overlapped>>
    BY DropEffect
  <1> QED BY <1>1, <1>2 DEF Quiet

LEMMA FreezeIsQuiet ==
    ASSUME ViewInv, NEW t \in Thread, freeze_user(t)
    PROVE  /\ At(t, "idle") /\ Unlocked /\ Quiet /\ DOMAIN rows' = {} /\ Viewing' = {}
           /\ DOMAIN asleep' = DOMAIN rows /\ \A p \in Page : captured'[p] = ToSet(delivered[p])
           /\ thread' = thread
  <1>1. At(t, "idle")
    BY DEF freeze_user
  <1>2. /\ Unlocked /\ DOMAIN collectors' = DOMAIN collectors
        /\ \A v \in DOMAIN collectors : /\ collectors'[v].page = collectors[v].page
                                        /\ collectors'[v].changes = collectors[v].changes
        /\ DOMAIN rows' = {} /\ Viewing' = {} /\ DOMAIN asleep' = DOMAIN rows
        /\ \A p \in Page : captured'[p] = ToSet(delivered[p])
        /\ UNCHANGED <<thread, writes, delivered>>
    BY FreezeEffect
  <1> QED BY <1>1, <1>2 DEF Quiet

LEMMA WakeIsQuiet ==
    ASSUME ViewInv, NEW t \in Thread, NEW bag, wake(t, bag)
    PROVE  /\ At(t, "idle") /\ Unlocked /\ Quiet /\ DOMAIN rows' = DOMAIN asleep /\ DOMAIN rows = {}
           /\ Viewing' \subseteq DOMAIN asleep /\ \A p \in Viewing' : View(p)'.changes = <<>>
           /\ DOMAIN asleep' = {}
           /\ \A p \in Viewing' : rows'[p].user_view \notin DOMAIN collectors
           /\ UNCHANGED <<thread, captured, overlapped>>
  <1>1. At(t, "idle")
    BY DEF wake
  <1>2. /\ Unlocked /\ DOMAIN collectors \subseteq DOMAIN collectors'
        /\ \A v \in DOMAIN collectors : collectors'[v] = collectors[v]
        /\ DOMAIN rows' = DOMAIN asleep /\ DOMAIN rows = {} /\ DOMAIN asleep' = {}
        /\ Viewing' = {p \in DOMAIN asleep : asleep[p] # {}}
        /\ \A p \in Viewing' : rows'[p].user_view \notin DOMAIN collectors /\ View(p)'.changes = <<>>
        /\ \A v \in DOMAIN collectors' \ DOMAIN collectors : \E p \in Viewing' : rows'[p].user_view = v
        /\ UNCHANGED <<thread, captured, overlapped, writes, delivered>>
    BY WakeEffect
  <1>3. \A v \in DOMAIN collectors' : v \notin DOMAIN collectors => collectors'[v].changes = <<>>
    <2> SUFFICES ASSUME NEW v \in DOMAIN collectors', v \notin DOMAIN collectors
                 PROVE  collectors'[v].changes = <<>>
      OBVIOUS
    <2>1. PICK p \in Viewing' : rows'[p].user_view = v
      BY <1>2
    <2> QED BY <1>2, <2>1 DEF View
  <1>4. Quiet
    BY <1>2, <1>3 DEF Quiet
  <1> QED BY <1>1, <1>2, <1>4

LEMMA WindowsGive ==
    ASSUME ViewInv, ViewInv', OnTheWay, Given, NEW t \in Thread,
           Windows(t) \/ freeze_user(t) \/ \E bag \in Bag : wake(t, bag)
    PROVE  OnTheWay' /\ Given'
  <1>1. Shape' /\ \A p \in Viewing' : p \in Page
    BY DEF ViewInv, Shape, Viewing
  <1>2. ASSUME NEW p \in Page, NEW prefix \in Path,
               subscribe_store_path(t, p, prefix) \/ unsubscribe_path(t, p, prefix)
        PROVE  OnTheWay' /\ Given'
    <2>1. /\ At(t, "idle") /\ Unlocked /\ Quiet /\ Viewing' = Viewing \cup {p} /\ thread' = thread
          /\ \A q \in Viewing : View(q)'.changes = View(q).changes
          /\ p \notin Viewing => View(p)'.changes = <<>>
      BY <1>2, SubscribeEffect
    <2>2. \A q \in Viewing' :
              q \in Page /\ (View(q)'.changes = <<>> \/ (q \in Viewing /\ View(q)'.changes = View(q).changes))
      BY <1>1, <2>1 DEF View
    <2> QED BY <1>1, <2>1, <2>2, FreeGives
  <1>3. ASSUME NEW p \in Page, drop_page(t, p)
        PROVE  OnTheWay' /\ Given'
    <2>1. /\ At(t, "idle") /\ Unlocked /\ Quiet /\ Viewing' = Viewing \ {p} /\ thread' = thread
          /\ \A q \in Viewing' : View(q)'.changes = View(q).changes
      BY <1>3, DropIsQuiet
    <2>2. \A q \in Viewing' :
              q \in Page /\ (View(q)'.changes = <<>> \/ (q \in Viewing /\ View(q)'.changes = View(q).changes))
      BY <1>1, <2>1
    <2> QED BY <1>1, <2>1, <2>2, FreeGives
  <1>4. ASSUME freeze_user(t)
        PROVE  OnTheWay' /\ Given'
    <2>1. At(t, "idle") /\ Unlocked /\ Quiet /\ Viewing' = {} /\ thread' = thread
      BY <1>4, FreezeIsQuiet
    <2> QED BY <1>1, <2>1, FreeGives
  <1>5. ASSUME NEW bag \in Bag, wake(t, bag)
        PROVE  OnTheWay' /\ Given'
    <2>1. /\ At(t, "idle") /\ Unlocked /\ Quiet /\ thread' = thread
          /\ \A p \in Viewing' : View(p)'.changes = <<>>
      BY <1>5, WakeIsQuiet
    <2>2. \A q \in Viewing' :
              q \in Page /\ (View(q)'.changes = <<>> \/ (q \in Viewing /\ View(q)'.changes = View(q).changes))
      BY <1>1, <2>1
    <2> QED BY <1>1, <2>1, <2>2, FreeGives
  <1> QED BY <1>2, <1>3, <1>4, <1>5 DEF Windows

\* A line of the lock's holder that moves no change.
LEMMA HolderGives ==
    ASSUME ViewInv, Shape', OnTheWay, Given, NEW t \in Thread, OthersFree(t), NEW w, Moves(t, w),
           w.pc # "notifying", Quiet,
           \A p \in Viewing' : p \in Page /\ Once(delivered[p], View(p)'.changes),
           w.pc = "draining" => Heads(thread[t].changes, View(thread[t].page).changes)',
           w.pc \in {"feeding", "fed"} => FeedOK(t)'
    PROVE  OnTheWay' /\ Given'
  <1>1. Shape /\ writes \in Nat /\ writes' = writes /\ delivered' = delivered
    BY DEF ViewInv, Shape, Quiet
  <1>2. \A v \in DOMAIN collectors : v \in DOMAIN collectors' /\ collectors'[v].page = collectors[v].page
    BY DEF Quiet
  <1>3. OnTheWay'
    BY <1>1, <1>2, QuietIsNothingNew, MovedIsSameWriters, OnTheWayKept
  <1>4. \A p \in Page : IsInjective(delivered'[p])
    BY <1>1 DEF Given
  <1>5. \A p \in Viewing' : Once(delivered'[p], View(p)'.changes)
    BY <1>1
  <1>6. Given'
    BY <1>4, <1>5, GivenKept
  <1> QED BY <1>3, <1>6

\* The same, where the rows stay.
LEMMA StillGives ==
    ASSUME ViewInv, Shape', OnTheWay, Given, NEW t \in Thread, OthersFree(t), NEW w, Moves(t, w),
           w.pc # "notifying", Quiet, rows' = rows,
           w.pc = "draining" => Heads(thread[t].changes, View(thread[t].page).changes)',
           w.pc \in {"feeding", "fed"} => FeedOK(t)'
    PROVE  OnTheWay' /\ Given'
  <1>1. Viewing' = Viewing /\ \A p \in Viewing : p \in Page /\ rows[p].user_view \in DOMAIN collectors
    BY DEF Viewing, ViewInv, Shape
  <1>2. \A p \in Viewing : View(p)'.changes = View(p).changes
    BY <1>1 DEF View, Quiet
  <1>3. \A p \in Viewing' : p \in Page /\ Once(delivered[p], View(p)'.changes)
    BY <1>1, <1>2 DEF Given
  <1> QED BY <1>3, HolderGives

LEMMA SameIsQuiet ==
    ASSUME collectors' = collectors, delivered' = delivered, writes' = writes
    PROVE  Quiet
  BY DEF Quiet

LEMMA StartsGive ==
    ASSUME ViewInv, ViewInv', OnTheWay, Given, NEW t \in Thread,
           \/ \E p \in Page : DrainReads(t, p)
           \/ change_connection_user(t)
           \/ \E bag \in Bag : install_carried_store(t, bag)
           \/ Reattached(t)
    PROVE  OnTheWay' /\ Given'
  <1>1. Shape /\ Shape'
    BY DEF ViewInv
  <1>2. ASSUME NEW p \in Page, DrainReads(t, p)
        PROVE  OnTheWay' /\ Given'
    <2> DEFINE w == [pc |-> "draining", page |-> p, changes |-> View(p).changes]
    <2>1. /\ Unlocked /\ p \in Viewing /\ thread' = [thread EXCEPT ![t] = w]
          /\ UNCHANGED <<rows, collectors, writes, delivered>>
      BY <1>2 DEF DrainReads, Viewing, View
    <2>2. OthersFree(t) /\ collectors[rows[p].user_view] \in Collector
      BY <2>1, LockIsFree, StartsMine
    <2>3. View(p).changes \in Seq(Nat)
      BY <2>2, CollectorParts DEF View
    <2>4. w \in Work /\ w.pc = "draining" /\ w.page = p /\ w.changes = View(p).changes
      BY <2>3, WorkMade
    <2> HIDE DEF w
    <2>5. Moves(t, w)
      BY <1>1, <2>1, <2>4, WorkMoves DEF Shape
    <2>6. Heads(View(p).changes, View(p).changes)
      BY <2>3, HeadsOf
    <2>7. Heads(thread[t].changes, View(thread[t].page).changes)'
      BY <2>1, <2>4, <2>5, <2>6 DEF Moves, View
    <2> QED BY <1>1, <2>1, <2>2, <2>4, <2>5, <2>7, SameIsQuiet, StillGives
  <1>3. ASSUME change_connection_user(t)
        PROVE  OnTheWay' /\ Given'
    <2> DEFINE w == Reattaching({p \in Viewing : View(p).bag # store'[User]}, store'[User])
    <2>1. Unlocked /\ Moves(t, w) /\ UNCHANGED <<rows, collectors, writes, delivered>>
      BY <1>3, LoginEffect
    <2>2. w.pc = "reattaching"
      BY DEF Reattaching
    <2> HIDE DEF w
    <2> QED BY <1>1, <2>1, <2>2, LockIsFree, SameIsQuiet, StillGives
  <1>4. ASSUME NEW bag \in Bag, install_carried_store(t, bag)
        PROVE  OnTheWay' /\ Given'
    <2> DEFINE w == Reattaching(Viewing, bag)
    <2>1. Unlocked /\ Moves(t, w) /\ UNCHANGED <<rows, collectors, writes, delivered>>
      BY <1>4, InstallEffect
    <2>2. w.pc = "reattaching"
      BY DEF Reattaching
    <2> HIDE DEF w
    <2> QED BY <1>1, <2>1, <2>2, LockIsFree, SameIsQuiet, StillGives
  <1>5. ASSUME Reattached(t)
        PROVE  OnTheWay' /\ Given'
    <2>1. /\ At(t, "reattaching") /\ thread' = [thread EXCEPT ![t] = Idle]
          /\ UNCHANGED <<rows, collectors, writes, delivered>>
      BY <1>5 DEF Reattached, Ends, historyVars
    <2>2. OthersFree(t)
      BY <2>1, HolderIsAlone DEF Locks, At
    <2>3. Moves(t, Idle) /\ Idle.pc = "idle"
      BY <1>1, <2>1, WorkMade, WorkMoves DEF Shape
    <2> QED BY <1>1, <2>1, <2>2, <2>3, SameIsQuiet, StillGives
  <1> QED BY <1>2, <1>3, <1>4, <1>5

LEMMA DetachGives ==
    ASSUME ViewInv, ViewInv', OnTheWay, Given, NEW t \in Thread, NEW p, Detach(t, p)
    PROVE  OnTheWay' /\ Given'
  <1> DEFINE w == [pc |-> "detached", page |-> p, then |-> thread[t]]
  <1>1. /\ OthersFree(t) /\ Moves(t, w) /\ OneIs(rows[p].user_view, Detached(collectors[rows[p].user_view]))
        /\ \A x \in DOMAIN collectors : /\ collectors'[x].page = collectors[x].page
                                        /\ collectors'[x].changes = collectors[x].changes
        /\ UNCHANGED <<rows, writes, delivered>>
    BY DetachEffect
  <1>2. w.pc = "detached"
    OBVIOUS
  <1> HIDE DEF w
  <1>3. Quiet
    BY <1>1 DEF Quiet, OneIs
  <1> QED BY <1>1, <1>2, <1>3, StillGives DEF ViewInv

LEMMA AttachIsQuiet ==
    ASSUME ViewInv, NEW t \in Thread, Attach(t)
    PROVE  LET p == thread[t].page  n == Len(collectors) + 1
               w == [pc |-> "feeding", page |-> p, then |-> thread[t].then, fed |-> 0, fresh |-> n]
           IN  /\ At(t, "detached") /\ OthersFree(t) /\ Quiet /\ Moves(t, w) /\ p \in Viewing /\ p \in Page
               /\ rows[p].user_view \in DOMAIN collectors /\ n \notin DOMAIN collectors
               /\ collectors'[rows[p].user_view] = collectors[rows[p].user_view]
               /\ collectors'[n].changes = <<>> /\ thread'[t].pc = "feeding" /\ thread'[t].page = p
               /\ thread'[t].fed = 0 /\ thread'[t].fresh = n
               /\ UNCHANGED <<rows, asleep, captured, overlapped>>
  <1> DEFINE p == thread[t].page
             n == Len(collectors) + 1
             w == [pc |-> "feeding", page |-> p, then |-> thread[t].then, fed |-> 0, fresh |-> n]
  <1>1. /\ At(t, "detached") /\ OthersFree(t) /\ p \in Viewing /\ p \in Page
        /\ n \notin DOMAIN collectors /\ Moves(t, w) /\ DOMAIN collectors' = DOMAIN collectors \cup {n}
        /\ \A x \in DOMAIN collectors : collectors'[x] = collectors[x]
        /\ collectors'[n].changes = <<>>
        /\ UNCHANGED <<rows, asleep, writes, captured, delivered, overlapped>>
    BY AttachEffect
  <1>2. rows[p].user_view \in DOMAIN collectors
    BY <1>1, StartsMine
  <1>3. w.pc = "feeding" /\ w.page = p /\ w.fed = 0 /\ w.fresh = n
    OBVIOUS
  <1> HIDE DEF w, n, p
  <1>4. thread'[t] = w
    BY <1>1 DEF Moves
  <1>5. Quiet
    BY <1>1 DEF Quiet
  <1> QED BY <1>1, <1>2, <1>3, <1>4, <1>5 DEF w, n, p

LEMMA AttachGives ==
    ASSUME ViewInv, ViewInv', OnTheWay, Given, NEW t \in Thread, Attach(t)
    PROVE  OnTheWay' /\ Given'
  <1> DEFINE p == thread[t].page
             n == Len(collectors) + 1
             v == rows[p].user_view
             w == [pc |-> "feeding", page |-> p, then |-> thread[t].then, fed |-> 0, fresh |-> n]
  <1>1. /\ OthersFree(t) /\ Quiet /\ Moves(t, w) /\ p \in Viewing /\ p \in Page
        /\ v \in DOMAIN collectors /\ collectors'[v] = collectors[v]
        /\ collectors'[n].changes = <<>> /\ thread'[t].pc = "feeding" /\ thread'[t].page = p
        /\ thread'[t].fed = 0 /\ thread'[t].fresh = n /\ rows' = rows
    BY AttachIsQuiet
  <1>2. w.pc = "feeding"
    OBVIOUS
  <1> HIDE DEF w, n
  <1>3. collectors[v].changes \in Seq(Nat) /\ Len(collectors[v].changes) \in Nat
    BY <1>1, Numbers, LenProperties DEF ViewInv
  <1>4. delivered' = delivered /\ IsInjective(delivered[p])
    BY <1>1 DEF Quiet, Given
  <1>5. OldChanges(t)' = collectors[v].changes
    BY <1>1 DEF OldChanges
  <1>6. /\ Once(delivered'[thread'[t].page], collectors'[thread'[t].fresh].changes)
        /\ thread'[t].fed \in 0..Len(OldChanges(t)')
        /\ \A i \in thread'[t].fed + 1..Len(OldChanges(t)') :
              OldChanges(t)'[i] \notin ToSet(collectors'[thread'[t].fresh].changes)
    BY <1>1, <1>3, <1>4, <1>5, SetOfNone
  <1>7. FeedOK(t)'
    BY <1>6 DEF FeedOK
  <1> QED BY <1>1, <1>2, <1>7, StillGives DEF ViewInv

LEMMA FedGives ==
    ASSUME ViewInv, ViewInv', OnTheWay, Given, NEW t \in Thread, Fed(t)
    PROVE  OnTheWay' /\ Given'
  <1> DEFINE w == [thread[t] EXCEPT !.pc = "fed"]
  <1>1. /\ At(t, "feeding") /\ OthersFree(t) /\ w.pc = "fed" /\ w.page = thread[t].page
        /\ w.fed = thread[t].fed /\ w.fresh = thread[t].fresh /\ Moves(t, w)
        /\ UNCHANGED <<rows, collectors, writes, delivered>>
    BY FedEffect
  <1> HIDE DEF w
  <1>2. FeedOK(t)
    BY <1>1 DEF Given, At
  <1>3. FeedOK(t)'
    BY <1>1, <1>2 DEF FeedOK, OldChanges, Moves
  <1> QED BY <1>1, <1>3, SameIsQuiet, StillGives DEF ViewInv

LEMMA AssignGives ==
    ASSUME ViewInv, ViewInv', OnTheWay, Given, NEW t \in Thread, Assign(t)
    PROVE  OnTheWay' /\ Given'
  <1> DEFINE p == thread[t].page
             f == thread[t].fresh
             w == [thread[t].then EXCEPT !.pages = @ \ {p}]
  <1>1. /\ At(t, "fed") /\ OthersFree(t) /\ p \in Viewing /\ p \in Page
        /\ w.pc = "reattaching" /\ Moves(t, w) /\ rows'[p].user_view = f
        /\ Viewing' = Viewing /\ \A q \in Viewing : q # p => View(q)' = View(q)
        /\ UNCHANGED <<collectors, writes, delivered>>
    BY AssignEffect
  <1> HIDE DEF w
  <1>2. Once(delivered[p], collectors[f].changes)
    BY <1>1 DEF Given, FeedOK, At
  <1>3. \A q \in Viewing' : q \in Page
    BY DEF ViewInv, Shape, Viewing
  <1> HIDE DEF p, f
  <1>4. \A q \in Viewing' : q \in Page /\ Once(delivered[q], View(q)'.changes)
    <2> SUFFICES ASSUME NEW q \in Viewing PROVE Once(delivered[q], View(q)'.changes)
      BY <1>1, <1>3
    <2>1. CASE q = p
      <3>1. View(q)' = collectors[f]
        BY <1>1, <2>1 DEF View
      <3> QED BY <1>2, <2>1, <3>1
    <2>2. CASE q # p
      BY <1>1, <2>2 DEF Given
    <2> QED BY <2>1, <2>2
  <1> QED BY <1>1, <1>4, SameIsQuiet, HolderGives DEF ViewInv

LEMMA FeedGives ==
    ASSUME ViewInv, ViewInv', OnTheWay, Given, NEW t \in Thread, Feed(t)
    PROVE  OnTheWay' /\ Given'
  <1> DEFINE V == OldChanges(t)
             k == thread[t].fed
             n == V[k + 1]
             f == thread[t].fresh
             p == thread[t].page
             v == rows[p].user_view
             F == collectors[f].changes
             D == delivered[p]
             w == [thread[t] EXCEPT !.fed = @ + 1]
  <1>1. /\ At(t, "feeding") /\ OthersFree(t) /\ Mine(t) /\ p \in Viewing
        /\ v \in DOMAIN collectors /\ V \in Seq(Nat) /\ k \in Nat /\ k < Len(V) /\ n \in Nat
        /\ w.pc = "feeding" /\ w.page = p /\ w.fed = k + 1 /\ w.fresh = f /\ Moves(t, w)
        /\ f \in DOMAIN collectors /\ f # v /\ OneIs(f, Deposited(collectors[f], n)) /\ SameViews
        /\ collectors'[f].changes = Append(F, n)
        /\ UNCHANGED <<rows, writes, delivered>>
    BY FeedEffect
  <1> HIDE DEF w
  <1>2. V = collectors[v].changes /\ collectors[f].page = p /\ collectors[v].page = p
    BY <1>1, StartsMine DEF OldChanges, Mine, FreshOK, At
  <1>3. Shape /\ p \in Page /\ writes \in Nat /\ F \in Seq(Nat) /\ D \in Seq(Nat) /\ Len(V) \in Nat
    <2>1. Shape /\ p \in Page
      BY <1>1, StartsMine
    <2>2. F \in Seq(Nat) /\ D \in Seq(Nat)
      BY <1>1, <2>1, Numbers
    <2> QED BY <1>1, <2>1, <2>2, LenProperties DEF Shape
  <1>4. Once(D, F) /\ \A i \in k + 1..Len(V) : V[i] \notin ToSet(F)
    BY <1>1 DEF Given, FeedOK, At
  <1>5. Once(D, V)
    BY <1>1 DEF Given, View, OldChanges
  <1>6. DOMAIN V = 1..Len(V) /\ k + 1 \in 1..Len(V) /\ k + 1 \in k + 1..Len(V)
    BY <1>1, <1>3, LenProperties
  <1>7. n \in ToSet(V) /\ n \notin ToSet(D) /\ n \notin ToSet(F)
    BY <1>4, <1>5, <1>6 DEF ToSet, Once
  <1> HIDE DEF F, D, V, n
  <1>8. Once(D, Append(F, n)) /\ ToSet(Append(F, n)) = ToSet(F) \cup {n}
    BY <1>1, <1>3, <1>4, <1>7, OnceMore, SetOfAppend
  <1>9. \A i \in (k + 1) + 1..Len(V) : V[i] \notin ToSet(Append(F, n))
    <2> SUFFICES ASSUME NEW i \in (k + 1) + 1..Len(V) PROVE V[i] \notin ToSet(F) /\ V[i] # n
      BY <1>8
    <2>0. k \in Nat /\ Len(V) \in Nat
      BY <1>1, <1>3
    <2>1. i \in k + 1..Len(V) /\ i \in 1..Len(V) /\ i # k + 1
      <3> HIDE DEF k
      <3> QED BY <2>0
    <2>2. IsInjective(V) /\ n = V[k + 1]
      BY <1>5 DEF Once, n
    <2>3. V[i] # n
      BY <1>6, <2>1, <2>2 DEF IsInjective
    <2> QED BY <1>4, <2>1, <2>3
  <1>10. /\ thread'[t].page = p /\ thread'[t].fed = k + 1 /\ thread'[t].fresh = f
         /\ OldChanges(t)' = V
    <2>1. thread'[t] = w
      BY <1>1 DEF Moves
    <2>2. collectors'[v] = collectors[v] /\ rows' = rows
      BY <1>1 DEF OneIs
    <2> QED BY <1>1, <1>2, <2>1, <2>2 DEF OldChanges
  <1>11. FeedOK(t)'
    <2>1. /\ Once(delivered'[thread'[t].page], collectors'[thread'[t].fresh].changes)
          /\ thread'[t].fed \in 0..Len(OldChanges(t)')
          /\ \A i \in thread'[t].fed + 1..Len(OldChanges(t)') :
                OldChanges(t)'[i] \notin ToSet(collectors'[thread'[t].fresh].changes)
      <3>1. k + 1 \in 0..Len(V)
        BY <1>1, <1>3
      <3>2. delivered'[thread'[t].page] = D /\ collectors'[thread'[t].fresh].changes = Append(F, n)
        BY <1>1, <1>10 DEF D
      <3> HIDE DEF k, f, p
      <3> QED BY <1>8, <1>9, <1>10, <3>1, <3>2
    <2> QED BY <2>1 DEF FeedOK
  <1>12. NothingNew
    <2> SUFFICES ASSUME NEW q \in Page, NEW m \in Nat, NotYet(m, q) PROVE NotYet(m, q)'
      BY DEF NothingNew
    <2>1. q = p => m # n
      BY <1>1, <1>2, <1>7 DEF NotYet
    <2>2. ASSUME NEW x \in DOMAIN collectors', collectors'[x].page = q PROVE m \notin ToSet(collectors'[x].changes)
      <3>1. x \in DOMAIN collectors /\ collectors[x].page = q
        BY <1>1, <2>2 DEF SameViews
      <3>2. CASE x = f
        BY <1>1, <1>2, <1>8, <2>1, <3>1, <3>2 DEF NotYet, F
      <3>3. CASE x # f
        BY <1>1, <3>1, <3>3 DEF NotYet, OneIs
      <3> QED BY <3>2, <3>3
    <2> QED BY <1>1, <2>2 DEF NotYet
  <1>13. OnTheWay'
    <2>1. \A x \in DOMAIN collectors : x \in DOMAIN collectors' /\ collectors'[x].page = collectors[x].page
      BY <1>1 DEF SameViews
    <2>2. SameWriters /\ writes' = writes /\ Shape'
      BY <1>1, MovedIsSameWriters DEF ViewInv
    <2> QED BY <1>3, <1>12, <2>1, <2>2, OnTheWayKept
  <1>14. \A q \in Viewing' : Once(delivered'[q], View(q)'.changes)
    <2> SUFFICES ASSUME NEW q \in Viewing PROVE Once(delivered[q], View(q)'.changes)
      BY <1>1 DEF Viewing
    <2>1. rows[q].user_view \in DOMAIN collectors /\ collectors[rows[q].user_view].page = q
      BY <1>1, StartsMine
    <2>2. rows[q].user_view # f
      BY <1>1, <1>2, <2>1
    <2>3. View(q)' = View(q)
      BY <1>1, <2>1, <2>2 DEF View, OneIs
    <2> QED BY <2>3 DEF Given
  <1>15. \A q \in Page : IsInjective(delivered'[q])
    BY <1>1 DEF Given
  <1>16. Given'
    BY <1>1, <1>11, <1>14, <1>15, GivenKept
  <1> QED BY <1>13, <1>16

LEMMA ResetsGive ==
    ASSUME ViewInv, ViewInv', OnTheWay, Given, NEW t \in Thread, DrainResets(t)
    PROVE  OnTheWay' /\ Given'
  <1> DEFINE p == thread[t].page
             v == rows[p].user_view
             C == thread[t].changes
             D == delivered[p]
  <1>1. /\ At(t, "draining") /\ OthersFree(t) /\ p \in Viewing /\ v \in DOMAIN collectors
        /\ C \in Seq(Nat) /\ Moves(t, Idle) /\ SameViews /\ collectors'[v].changes = <<>>
        /\ \A x \in DOMAIN collectors : x # v => collectors'[x] = collectors[x]
        /\ delivered'[p] = D \o C /\ \A q \in Page : q # p => delivered'[q] = delivered[q]
        /\ UNCHANGED <<rows, writes>>
    BY ResetsEffect
  <1>2. Shape /\ p \in Page /\ collectors[v].page = p
    BY <1>1, StartsMine
  <1>3. D \in Seq(Nat) /\ collectors[v].changes \in Seq(Nat) /\ writes \in Nat
    BY <1>1, <1>2, Numbers DEF Shape
  <1>4. Once(D, collectors[v].changes) /\ Heads(C, collectors[v].changes)
    BY <1>1 DEF Given, View, At
  <1>5. ToSet(C) \subseteq ToSet(collectors[v].changes) /\ IsInjective(C)
    BY <1>1, <1>3, <1>4, HeadsOf DEF Once
  <1>6. Once(D, C)
    BY <1>4, <1>5 DEF Once
  <1>7. ToSet(D \o C) = ToSet(D) \cup ToSet(C) /\ IsInjective(D \o C)
    BY <1>1, <1>3, <1>6, SetOfConcat
  <1> HIDE DEF p, v, C, D
  <1>8. NothingNew
    <2> SUFFICES ASSUME NEW q \in Page, NEW m \in Nat, NotYet(m, q) PROVE NotYet(m, q)'
      BY DEF NothingNew
    <2>1. m \notin ToSet(delivered'[q])
      <3>1. CASE q = p
        BY <1>1, <1>2, <1>5, <1>7, <3>1 DEF NotYet, D
      <3>2. CASE q # p
        BY <1>1, <3>2 DEF NotYet
      <3> QED BY <3>1, <3>2
    <2>2. ASSUME NEW x \in DOMAIN collectors', collectors'[x].page = q PROVE m \notin ToSet(collectors'[x].changes)
      <3>1. x \in DOMAIN collectors /\ collectors[x].page = q
        BY <1>1, <2>2 DEF SameViews
      <3>2. CASE x = v
        BY <1>1, <3>2, SetOfNone
      <3>3. CASE x # v
        BY <1>1, <3>1, <3>3 DEF NotYet
      <3> QED BY <3>2, <3>3
    <2> QED BY <2>1, <2>2 DEF NotYet
  <1>9. OnTheWay'
    <2>1. \A x \in DOMAIN collectors : x \in DOMAIN collectors' /\ collectors'[x].page = collectors[x].page
      BY <1>1 DEF SameViews
    <2>2. SameWriters /\ writes' = writes /\ Shape'
      BY <1>1, WorkMade, MovedIsSameWriters DEF ViewInv
    <2> QED BY <1>3, <1>8, <2>1, <2>2, OnTheWayKept
  <1>10. \A q \in Page : IsInjective(delivered'[q])
    BY <1>1, <1>7 DEF Given
  <1>11. \A q \in Viewing' : Once(delivered'[q], View(q)'.changes)
    <2> SUFFICES ASSUME NEW q \in Viewing PROVE Once(delivered'[q], View(q)'.changes)
      BY <1>1 DEF Viewing
    <2>1. q \in Page /\ rows[q].user_view \in DOMAIN collectors /\ collectors[rows[q].user_view].page = q
      BY <1>1, StartsMine
    <2>2. CASE q = p
      <3>1. View(q)'.changes = <<>>
        BY <1>1, <2>2 DEF View, v
      <3> QED BY <1>10, <2>1, <3>1, SetOfNone
    <2>3. CASE q # p
      <3>1. View(q)' = View(q)
        BY <1>1, <1>2, <2>1, <2>3 DEF View
      <3> QED BY <1>1, <2>1, <2>3, <3>1 DEF Given
    <2> QED BY <2>2, <2>3
  <1>12. Given'
    BY <1>1, <1>10, <1>11, WorkMade, GivenKept
  <1> QED BY <1>9, <1>12

\* A line of a writer that calls no view.
LEMMA WriterGives ==
    ASSUME Given, NEW t \in Thread, NEW w, Free(w), Moves(t, w), UNCHANGED <<rows, collectors, delivered>>
    PROVE  Given'
  <1>1. \A s \in Thread : thread'[s].pc \in {"draining", "feeding", "fed"} => thread'[s] = thread[s]
    BY DEF Moves, Free
  <1>2. Viewing' = Viewing /\ \A p : View(p)' = View(p)
    BY DEF Viewing, View
  <1>3. \A s \in Thread : At(s, "draining")' => Heads(thread[s].changes, View(thread[s].page).changes)'
    BY <1>1 DEF Given, At, View
  <1>4. ASSUME NEW s \in Thread, thread'[s].pc \in {"feeding", "fed"} PROVE FeedOK(s)'
    <2>1. thread'[s] = thread[s] /\ FeedOK(s)
      BY <1>1, <1>4 DEF Given
    <2> QED BY <2>1 DEF FeedOK, OldChanges
  <1> QED BY <1>2, <1>3, <1>4 DEF Given

LEMMA WriteEndsGives ==
    ASSUME ViewInv, ViewInv', OnTheWay, Given, NEW t \in Thread, WriteEnds(t)
    PROVE  OnTheWay' /\ Given'
  <1>1. thread' = [thread EXCEPT ![t] = Idle] /\ UNCHANGED <<rows, collectors, delivered, writes>>
    BY DEF WriteEnds, Ends, historyVars
  <1>2. Moves(t, Idle) /\ Idle.pc = "idle"
    BY <1>1, WorkMade, WorkMoves DEF ViewInv, Shape
  <1>3. Given'
    BY <1>1, <1>2, WriterGives DEF Free
  <1>4. writes \in Nat /\ writes' = writes /\ Shape' /\ SameWriters
    BY <1>1, <1>2, MovedIsSameWriters DEF ViewInv, Shape
  <1>5. NothingNew
    BY <1>1, SameIsQuiet, QuietIsNothingNew
  <1> QED BY <1>1, <1>3, <1>4, <1>5, OnTheWayKept

\* A page has one attached collector at most.
LEMMA OneAttached ==
    ASSUME ViewInv, NEW v \in DOMAIN collectors, NEW x \in DOMAIN collectors,
           collectors[v].attached, collectors[x].attached, collectors[v].page = collectors[x].page
    PROVE  v = x
  <1>0. Shape /\ OneLocks /\ Views /\ InMotion
    BY DEF ViewInv
  <1>1. \A y \in DOMAIN collectors : collectors[y].attached =>
           \/ /\ collectors[y].page \in Viewing /\ rows[collectors[y].page].user_view = y
           \/ IsFresh(y)
    BY <1>0 DEF Views, Shape, View
  <1>2. \A y : IsFresh(y) => /\ collectors[y].page \in Viewing
                             /\ rows[collectors[y].page].user_view # y
                             /\ ~View(collectors[y].page).attached
    <2> SUFFICES ASSUME NEW s \in Thread, thread[s].pc \in {"feeding", "fed"}
                 PROVE  LET y == thread[s].fresh
                        IN  /\ collectors[y].page \in Viewing /\ rows[collectors[y].page].user_view # y
                            /\ ~View(collectors[y].page).attached
      BY DEF IsFresh
    <2>1. /\ thread[s].page \in Viewing /\ collectors[thread[s].fresh].page = thread[s].page
          /\ rows[thread[s].page].user_view # thread[s].fresh
      BY <1>0 DEF InMotion, LoopOK, FreshOK
    <2>2. InHand(thread[s].page)
      BY DEF InHand, Holds
    <2> QED BY <1>0, <2>1, <2>2 DEF Views
  <1>3. CASE IsFresh(v) /\ IsFresh(x)
    BY <1>0, <1>3 DEF IsFresh, OneLocks, Locks
  <1>4. CASE IsFresh(v) /\ ~IsFresh(x)
    BY <1>1, <1>2, <1>4 DEF View
  <1>5. CASE ~IsFresh(v) /\ IsFresh(x)
    BY <1>1, <1>2, <1>5 DEF View
  <1>6. CASE ~IsFresh(v) /\ ~IsFresh(x)
    BY <1>1, <1>6
  <1> QED BY <1>3, <1>4, <1>5, <1>6

LEMMA SetItemGives ==
    ASSUME ViewInv, ViewInv', OnTheWay, Given, NEW t \in Thread, NEW u, NEW path \in Path,
           setItem(t, u, path)
    PROVE  OnTheWay' /\ Given'
  <1> DEFINE L == Subscribers(ensure_item_data(u)[u])
             n == writes + 1
             w == [pc |-> "notifying", path |-> path, write |-> n, left |-> L]
  <1>0. Shape /\ InMotion /\ thread \in [Thread -> Work] /\ writes \in Nat
    BY DEF ViewInv, Shape
  <1>1. /\ At(t, "idle") /\ thread' = [thread EXCEPT ![t] = w] /\ writes' = n
        /\ UNCHANGED <<rows, collectors, delivered>>
    BY DEF setItem
  <1>2. L \in SUBSET Nat /\ n \in Nat /\ L \subseteq DOMAIN collectors
        /\ \A v \in L : collectors[v].attached
    BY <1>0, LenProperties DEF Shape, Subscribers
  <1> HIDE DEF L
  <1>3. w \in Work /\ w.pc = "notifying" /\ w.write = n /\ w.left = L
    BY <1>2, WorkMade
  <1> HIDE DEF w
  <1>4. Moves(t, w)
    BY <1>0, <1>1, <1>3, WorkMoves
  <1>5. Given'
    BY <1>1, <1>3, <1>4, WriterGives DEF Free
  <1>6. \A q \in Page : NotYet(n, q)
    <2> SUFFICES ASSUME NEW q \in Page, ~NotYet(n, q) PROVE FALSE
      OBVIOUS
    <2>1. n <= writes
      BY <1>0, ComeIsWritten
    <2> QED BY <1>0, <2>1
  <1>7. \A q : \A m : NotYet(m, q)' <=> NotYet(m, q)
    BY <1>1 DEF NotYet
  <1>8. /\ \A p \in Page : \A m \in ToSet(delivered'[p]) : m <= writes'
        /\ \A v \in DOMAIN collectors' : \A m \in ToSet(collectors'[v].changes) : m <= writes'
    <2>1. \A m \in Nat : m <= writes => m <= writes'
      BY <1>0, <1>1
    <2> QED BY <1>0, <1>1, <2>1, Numbers DEF OnTheWay
  <1>9. ASSUME NEW s \in Thread, At(s, "notifying")', s # t
        PROVE  /\ thread'[s] = thread[s] /\ At(s, "notifying")
               /\ thread[s].write \in Nat /\ thread[s].write <= writes /\ thread[s].left \subseteq DOMAIN collectors
    <2>1. thread'[s] = thread[s] /\ At(s, "notifying")
      BY <1>4, <1>9 DEF Moves, At
    <2> QED BY <1>0, <2>1, WorkParts DEF OnTheWay, InMotion, At
  <1>10. ASSUME NEW s \in Thread, At(s, "notifying")'
         PROVE  /\ thread'[s].write <= writes'
                /\ \A v \in thread'[s].left : NotYet(thread[s].write, collectors[v].page)'
                /\ \A v, x \in thread'[s].left : collectors'[v].page = collectors'[x].page => v = x
    <2>1. CASE s = t
      <3>1. thread'[s].write = n /\ thread'[s].left = L
        BY <1>3, <1>4, <2>1 DEF Moves
      <3>2. n <= writes'
        BY <1>1, <1>2
      <3>3. \A v \in L : NotYet(n, collectors[v].page)
        BY <1>0, <1>2, <1>6, Numbers
      <3>4. \A v \in L : NotYet(thread[s].write, collectors[v].page)'
        BY <1>1, <3>1, <3>3 DEF NotYet
      <3>5. \A v, x \in L : collectors[v].page = collectors[x].page => v = x
        BY <1>2, OneAttached
      <3> QED BY <1>1, <3>1, <3>2, <3>4, <3>5
    <2>2. CASE s # t
      <3>1. /\ thread'[s] = thread[s] /\ At(s, "notifying")
            /\ thread[s].write \in Nat /\ thread[s].write <= writes
        BY <1>9, <1>10, <2>2
      <3>2. thread'[s].write <= writes'
        BY <1>0, <1>1, <3>1
      <3>3. \A v \in thread'[s].left : NotYet(thread[s].write, collectors[v].page)'
        BY <1>1, <3>1 DEF NotYet, OnTheWay
      <3>4. \A v, x \in thread'[s].left : collectors'[v].page = collectors'[x].page => v = x
        BY <1>1, <3>1 DEF OnTheWay
      <3> QED BY <3>2, <3>3, <3>4
    <2> QED BY <2>1, <2>2
  <1>11. ASSUME NEW s \in Thread, NEW r \in Thread, At(s, "notifying")', At(r, "notifying")', s # r
         PROVE  thread'[s].write # thread'[r].write
    <2>1. thread'[t].write = n /\ \A m \in Nat : m <= writes => m # n
      BY <1>0, <1>3, <1>4 DEF Moves
    <2>2. CASE s = t
      BY <1>9, <1>11, <2>1, <2>2
    <2>3. CASE r = t
      BY <1>9, <1>11, <2>1, <2>3
    <2>4. CASE s # t /\ r # t
      BY <1>9, <1>11, <2>4 DEF OnTheWay
    <2> QED BY <2>2, <2>3, <2>4
  <1>12. OnTheWay'
    BY <1>8, <1>10, <1>11 DEF OnTheWay
  <1> QED BY <1>5, <1>12

LEMMA EventGives ==
    ASSUME ViewInv, ViewInv', OnTheWay, Given, NEW t \in Thread, on_event(t)
    PROVE  OnTheWay' /\ Given'
  <1> DEFINE v == Min(thread[t].left)
             n == thread[t].write
             p == collectors[v].page
             w == [thread[t] EXCEPT !.left = @ \ {v}]
  <1>0. Shape /\ InMotion /\ thread \in [Thread -> Work] /\ writes \in Nat
    BY DEF ViewInv, Shape
  <1>1. /\ At(t, "notifying") /\ v \in thread[t].left /\ v \in DOMAIN collectors /\ n \in Nat
        /\ w.pc = "notifying" /\ w.write = n /\ w.left = thread[t].left \ {v}
        /\ Moves(t, w) /\ SameViews
        /\ collectors' = collectors \/ collectors' = [collectors EXCEPT ![v] = Deposited(collectors[v], n)]
    BY <1>0, EventEffect
  <1>2. UNCHANGED <<rows, writes, delivered>>
    BY DEF on_event
  <1>3. /\ NotYet(n, p) /\ n <= writes
        /\ \A x \in thread[t].left : collectors[x].page = p => x = v
    BY <1>1 DEF OnTheWay
  <1> HIDE DEF w, v, n
  <1>4. /\ collectors[v] \in Collector /\ p \in Page /\ collectors[v].changes \in Seq(Nat)
        /\ collectors \in Seq(Collector)
    BY <1>0, <1>1, Numbers DEF Shape
  <1>5. /\ \A x \in DOMAIN collectors : x # v => collectors'[x].changes = collectors[x].changes
        /\ \/ collectors'[v].changes = collectors[v].changes
           \/ collectors'[v].changes = Append(collectors[v].changes, n)
    <2>1. CASE collectors' = collectors
      BY <2>1
    <2>2. CASE collectors' = [collectors EXCEPT ![v] = Deposited(collectors[v], n)]
      <3>1. Deposited(collectors[v], n) \in Collector
            /\ Deposited(collectors[v], n).changes = Append(collectors[v].changes, n)
        BY <1>1, <1>4, DepositedParts
      <3>2. OneIs(v, Deposited(collectors[v], n))
        BY <1>1, <1>4, <2>2, <3>1, Replaces
      <3> QED BY <3>1, <3>2 DEF OneIs
    <2> QED BY <1>1, <2>1, <2>2
  <1>6. /\ DOMAIN collectors' = DOMAIN collectors
        /\ \A x \in DOMAIN collectors : /\ collectors'[x].page = collectors[x].page
                                        /\ \A m \in ToSet(collectors'[x].changes) :
                                              m \in ToSet(collectors[x].changes) \/ (x = v /\ m = n)
    <2>1. ToSet(Append(collectors[v].changes, n)) = ToSet(collectors[v].changes) \cup {n}
      BY <1>1, <1>4, SetOfAppend
    <2> QED BY <1>1, <1>5, <2>1 DEF SameViews
  <1>7. /\ \A q \in Page : \A m \in ToSet(delivered'[q]) : m <= writes'
        /\ \A x \in DOMAIN collectors' : \A m \in ToSet(collectors'[x].changes) : m <= writes'
    BY <1>2, <1>3, <1>6 DEF OnTheWay
  <1>8. ASSUME NEW q, NEW m, NotYet(m, q), q # p \/ m # n
        PROVE  /\ m \notin ToSet(delivered'[q])
               /\ \A x \in DOMAIN collectors' : collectors'[x].page = q => m \notin ToSet(collectors'[x].changes)
    BY <1>2, <1>6, <1>8 DEF NotYet
  <1>9. \A s \in Thread : s # t => thread'[s] = thread[s]
    BY <1>1 DEF Moves
  <1>10. ASSUME NEW s \in Thread, At(s, "notifying")'
         PROVE  /\ At(s, "notifying") /\ thread'[s].write = thread[s].write
                /\ thread'[s].left \subseteq thread[s].left /\ thread[s].left \subseteq DOMAIN collectors
                /\ s = t => thread'[s].left = thread[s].left \ {v}
    <2>1. CASE s = t
      BY <1>0, <1>1, <2>1 DEF Moves, InMotion, n
    <2>2. CASE s # t
      BY <1>0, <1>9, <1>10, <2>2 DEF InMotion, At
    <2> QED BY <2>1, <2>2
  <1>11. ASSUME NEW s \in Thread, At(s, "notifying")'
         PROVE  /\ thread'[s].write <= writes'
                /\ \A x \in thread'[s].left : NotYet(thread[s].write, collectors[x].page)'
                /\ \A x, y \in thread'[s].left : collectors'[x].page = collectors'[y].page => x = y
    <2>1. thread'[s].write <= writes'
      BY <1>2, <1>10, <1>11 DEF OnTheWay
    <2>2. \A x, y \in thread'[s].left : collectors'[x].page = collectors'[y].page => x = y
      BY <1>6, <1>10, <1>11 DEF OnTheWay
    <2>3. ASSUME NEW x \in thread'[s].left PROVE NotYet(thread[s].write, collectors[x].page)'
      <3> DEFINE q == collectors[x].page
                 m == thread[s].write
      <3>1. x \in thread[s].left /\ x \in DOMAIN collectors /\ NotYet(m, q)
        BY <1>10, <1>11, <2>3 DEF OnTheWay
      <3>2. q # p \/ m # n
        <4>1. CASE s = t
          BY <1>3, <1>10, <1>11, <2>3, <3>1, <4>1
        <4>2. CASE s # t
          BY <1>1, <1>10, <1>11, <4>2 DEF OnTheWay, n
        <4> QED BY <4>1, <4>2
      <3>3. collectors'[x].page = q /\ thread'[s].write = m
        BY <1>6, <1>10, <1>11, <3>1
      <3> HIDE DEF q, m, p
      <3> QED BY <1>8, <3>1, <3>2, <3>3 DEF NotYet
    <2> QED BY <2>1, <2>2, <2>3
  <1>12. \A s, r \in Thread : At(s, "notifying")' /\ At(r, "notifying")' /\ s # r =>
            thread'[s].write # thread'[r].write
    BY <1>10 DEF OnTheWay
  <1>13. OnTheWay'
    BY <1>7, <1>11, <1>12 DEF OnTheWay
  <1>14. n \notin ToSet(delivered[p]) /\ \A x \in DOMAIN collectors :
            collectors[x].page = p => n \notin ToSet(collectors[x].changes)
    BY <1>3 DEF NotYet
  <1>15. Viewing' = Viewing /\ \A q \in Viewing : /\ q \in Page /\ rows[q].user_view \in DOMAIN collectors
                                                  /\ collectors[rows[q].user_view].page = q
    BY <1>0, <1>2 DEF Viewing, Shape, View
  \* A list of page p grows by n, or stays.
  <1>16. ASSUME NEW x \in DOMAIN collectors
         PROVE  /\ collectors[x].changes \in Seq(Nat)
                /\ \/ collectors'[x].changes = collectors[x].changes
                   \/ /\ x = v /\ collectors'[x].changes = Append(collectors[x].changes, n)
                      /\ n \notin ToSet(collectors[x].changes)
    BY <1>0, <1>5, <1>14, Numbers
  <1>17. \A q \in Viewing' : Once(delivered'[q], View(q)'.changes)
    <2> SUFFICES ASSUME NEW q \in Viewing PROVE Once(delivered[q], View(q)'.changes)
      BY <1>2, <1>15
    <2> DEFINE x == rows[q].user_view
    <2>1. x \in DOMAIN collectors /\ collectors[x].page = q /\ q \in Page /\ Once(delivered[q], collectors[x].changes)
      BY <1>15 DEF Given, View
    <2>2. delivered[q] \in Seq(Nat)
      BY <1>0, <2>1, Numbers
    <2>3. View(q)' = collectors'[x]
      BY <1>2 DEF View
    <2> HIDE DEF x
    <2>4. CASE collectors'[x].changes = collectors[x].changes
      BY <2>1, <2>3, <2>4
    <2>5. CASE x = v /\ collectors'[x].changes = Append(collectors[x].changes, n) /\
               n \notin ToSet(collectors[x].changes)
      <3>1. n \notin ToSet(delivered[q]) /\ collectors[x].changes \in Seq(Nat)
        BY <1>14, <1>16, <2>1, <2>5
      <3>2. Once(delivered[q], Append(collectors[x].changes, n))
        BY <1>1, <2>1, <2>2, <2>5, <3>1, OnceMore
      <3> QED BY <2>3, <2>5, <3>2
    <2> QED BY <1>16, <2>1, <2>4, <2>5
  <1>18. ASSUME NEW s \in Thread, At(s, "draining")'
         PROVE  Heads(thread[s].changes, View(thread[s].page).changes)'
    <2> DEFINE q == thread[s].page
               x == rows[q].user_view
    <2>1. s # t
      BY <1>1, <1>18 DEF At, Moves
    <2>2. thread'[s] = thread[s] /\ At(s, "draining")
      BY <1>9, <1>18, <2>1 DEF At
    <2>3. q \in Viewing /\ x \in DOMAIN collectors /\ Heads(thread[s].changes, collectors[x].changes)
      BY <1>0, <1>15, <2>2 DEF InMotion, Given, View
    <2>4. thread[s].changes \in Seq(Nat) /\ collectors[x].changes \in Seq(Nat)
      BY <1>0, <1>16, <2>2, <2>3, WorkParts DEF At
    <2>5. Heads(thread[s].changes, collectors'[x].changes)
      <3>1. Heads(thread[s].changes, Append(collectors[x].changes, n))
        BY <1>1, <2>3, <2>4, HeadsOf
      <3> HIDE DEF x
      <3> QED BY <1>16, <2>3, <3>1
    <2>6. rows'[thread'[s].page].user_view = x /\ thread'[s].changes = thread[s].changes
      BY <1>2, <2>2
    <2> HIDE DEF x
    <2> QED BY <2>5, <2>6 DEF View
  <1>19. ASSUME NEW s \in Thread, thread'[s].pc \in {"feeding", "fed"}
         PROVE  FeedOK(s)'
    <2> DEFINE q == thread[s].page
               x == rows[q].user_view
               f == thread[s].fresh
               k == thread[s].fed
               V == collectors[x].changes
               F == collectors[f].changes
               D == delivered[q]
    <2>1. s # t
      BY <1>1, <1>19 DEF Moves
    <2>2. thread'[s] = thread[s] /\ thread[s].pc \in {"feeding", "fed"} /\ thread[s] \in Work
      BY <1>0, <1>9, <1>19, <2>1
    <2>3. q \in Viewing /\ FreshOK(thread[s]) /\ k \in Nat
      BY <1>0, <2>2, WorkParts DEF InMotion, LoopOK
    <2>4. /\ q \in Page /\ x \in DOMAIN collectors /\ collectors[x].page = q
          /\ f \in DOMAIN collectors /\ collectors[f].page = q /\ f # x
      BY <1>15, <2>3 DEF FreshOK
    <2>5. Once(D, F) /\ k \in 0..Len(V) /\ \A i \in k + 1..Len(V) : V[i] \notin ToSet(F)
      BY <2>2 DEF Given, FeedOK, OldChanges
    <2>6. V \in Seq(Nat) /\ F \in Seq(Nat) /\ D \in Seq(Nat) /\ Len(V) \in Nat
      <3>1. V \in Seq(Nat) /\ F \in Seq(Nat) /\ D \in Seq(Nat)
        BY <1>0, <2>4, Numbers
      <3> QED BY <3>1, LenProperties
    <2>7. delivered'[q] = D /\ OldChanges(s)' = collectors'[x].changes
      BY <1>2, <2>2 DEF OldChanges
    <2> HIDE DEF q, x, f, k, V, F, D
    <2>8. /\ Once(D, collectors'[f].changes) /\ k \in 0..Len(collectors'[x].changes)
          /\ \A i \in k + 1..Len(collectors'[x].changes) :
                collectors'[x].changes[i] \notin ToSet(collectors'[f].changes)
      <3>1. CASE f = v /\ collectors'[f].changes = Append(F, n)
        <4>1. q = p /\ n \notin ToSet(D) /\ n \notin ToSet(F) /\ n \notin ToSet(V)
          BY <1>14, <2>4, <3>1 DEF D, F, V
        <4>2. Once(D, Append(F, n)) /\ ToSet(Append(F, n)) = ToSet(F) \cup {n}
          BY <1>1, <2>5, <2>6, <4>1, OnceMore, SetOfAppend
        <4>3. collectors'[x].changes = V
          BY <1>16, <2>4, <3>1 DEF V
        <4>4. \A i \in k + 1..Len(V) : V[i] \in ToSet(V)
          <5>1. DOMAIN V = 1..Len(V) /\ \A i \in k + 1..Len(V) : i \in 1..Len(V)
            BY <2>3, <2>6, LenProperties
          <5> QED BY <5>1 DEF ToSet
        <4> QED BY <2>5, <3>1, <4>1, <4>2, <4>3, <4>4
      <3>2. CASE collectors'[f].changes = F
        <4>1. CASE collectors'[x].changes = V
          BY <2>5, <3>2, <4>1
        <4>2. CASE x = v /\ collectors'[x].changes = Append(V, n)
          <5>1. n \notin ToSet(F)
            BY <1>14, <2>4, <4>2 DEF F
          <5>2. /\ Len(Append(V, n)) = Len(V) + 1 /\ Append(V, n)[Len(V) + 1] = n
                /\ \A i \in 1..Len(V) : Append(V, n)[i] = V[i]
            BY <2>6, AppendProperties
          <5>3. \A i \in k + 1..(Len(V) + 1) : (i \in k + 1..Len(V) /\ i \in 1..Len(V)) \/ i = Len(V) + 1
            BY <2>3, <2>6
          <5>4. \A i \in k + 1..(Len(V) + 1) : Append(V, n)[i] \notin ToSet(F)
            BY <2>5, <5>1, <5>2, <5>3
          <5>5. k \in 0..(Len(V) + 1)
            BY <2>5, <2>6
          <5> QED BY <2>5, <3>2, <4>2, <5>2, <5>4, <5>5
        <4> QED BY <1>16, <2>4, <4>1, <4>2 DEF V
      <3> QED BY <1>16, <2>4, <3>1, <3>2 DEF F
    <2>9. thread'[s].page = q /\ thread'[s].fresh = f /\ thread'[s].fed = k
      BY <2>2 DEF q, f, k
    <2>10. /\ Once(delivered'[thread'[s].page], collectors'[thread'[s].fresh].changes)
           /\ thread'[s].fed \in 0..Len(OldChanges(s)')
           /\ \A i \in thread'[s].fed + 1..Len(OldChanges(s)') :
                 OldChanges(s)'[i] \notin ToSet(collectors'[thread'[s].fresh].changes)
      BY <2>7, <2>8, <2>9
    <2> QED BY <2>10 DEF FeedOK
  <1>20. Given'
    <2>1. \A q \in Page : IsInjective(delivered'[q])
      BY <1>2 DEF Given
    <2> QED BY <1>17, <1>18, <1>19, <2>1 DEF Given
  <1> QED BY <1>13, <1>20

OnceInv == OnTheWay /\ Given

LEMMA OnceInvInit ==
    ASSUME Init
    PROVE  OnceInv
  <1>1. /\ rows = [p \in Page |-> [store_subscriptions |-> {}, user_view |-> NoView]]
        /\ collectors = <<>> /\ thread = [t \in Thread |-> Idle]
        /\ delivered = [p \in Page |-> <<>>]
    BY DEF Init
  <1>2. Viewing = {} /\ DOMAIN collectors = {} /\ \A t \in Thread : thread[t].pc = "idle"
    BY <1>1, NoRows, WorkMade DEF Viewing
  <1>3. \A p \in Page : delivered[p] = <<>>
    BY <1>1
  <1>4. OnTheWay
    BY <1>2, <1>3, SetOfNone DEF OnTheWay, At
  <1>5. Given
    BY <1>2, <1>3, SetOfNone DEF Given, At
  <1> QED BY <1>4, <1>5 DEF OnceInv

LEMMA OnceInvNext ==
    ASSUME ViewInv, ViewInv', OnceInv, [Next]_vars
    PROVE  OnceInv'
  <1>0. OnTheWay /\ Given
    BY DEF OnceInv
  <1>1. CASE UNCHANGED vars
    <2>1. UNCHANGED <<rows, collectors, thread, writes, delivered>>
      BY <1>1 DEF vars, historyVars
    <2>2. OnTheWay'
      BY <1>0, <2>1 DEF OnTheWay, NotYet, At
    <2>3. Given'
      BY <1>0, <2>1 DEF Given, Viewing, View, FeedOK, OldChanges, At
    <2> QED BY <2>2, <2>3 DEF OnceInv
  <1>2. CASE Next
    <2>1. PICK t \in Thread : Writing(t) \/ Windows(t) \/ Draining(t) \/ Moving(t)
      BY <1>2 DEF Next
    <2>2. CASE Writing(t)
      BY <1>0, <2>2, SetItemGives, EventGives, WriteEndsGives DEF Writing, OnceInv
    <2>3. CASE Windows(t)
      BY <1>0, <2>3, WindowsGive DEF OnceInv
    <2>4. CASE Draining(t)
      BY <1>0, <2>4, StartsGive, ResetsGive DEF Draining, OnceInv
    <2>5. CASE Moving(t)
      BY <1>0, <2>5, StartsGive, WindowsGive, DetachGives, AttachGives, FeedGives, FedGives,
         AssignGives DEF Moving, OnceInv
    <2> QED BY <2>1, <2>2, <2>3, <2>4, <2>5
  <1> QED BY <1>1, <1>2

LEMMA OnceInvariant == Spec => []OnceInv
  <1>1. Init => OnceInv
    BY OnceInvInit
  <1>2. ViewInv /\ ViewInv' /\ OnceInv /\ [Next]_vars => OnceInv'
    BY OnceInvNext
  <1> QED BY <1>1, <1>2, ViewInvariant, PTL DEF Spec

\* No change is given twice to a page, by two drains or by a drain and the
\* re-deposit of what an old view held, even when a site's write runs beside
\* them (spa/legacy_bag.py, drain and deposit; genropy_register.py,
\* change_connection_user, "re-attached, never drained").
THEOREM ChangesComeOnce == Spec => []CapturedOnce
  <1>1. ViewInv /\ OnceInv => CapturedOnce
    <2> SUFFICES ASSUME ViewInv, OnceInv, NEW p \in Viewing
                 PROVE  IsInjective(delivered[p] \o View(p).changes)
      BY DEF CapturedOnce
    <2>1. Shape /\ p \in Page /\ rows[p].user_view \in DOMAIN collectors
      BY DEF ViewInv, Shape, Viewing
    <2>2. delivered[p] \in Seq(Nat) /\ View(p).changes \in Seq(Nat)
      BY <2>1, Numbers DEF View
    <2>3. Once(delivered[p], View(p).changes)
      BY DEF OnceInv, Given
    <2> QED BY <2>2, <2>3, SetOfConcat
  <1> QED BY <1>1, ViewInvariant, OnceInvariant, PTL
-----------------------------------------------------------------------------
(* A page reads all that was captured, in order, while no write runs beside  *)
(* another operation.                                                        *)

LEMMA RisingAppend ==
    ASSUME NEW s \in Seq(Nat), NEW n \in Nat, Rising(s), \A m \in ToSet(s) : m < n
    PROVE  Rising(Append(s, n))
  <1>1. Len(s) \in Nat /\ DOMAIN s = 1..Len(s)
    BY LenProperties
  <1>2. /\ DOMAIN Append(s, n) = 1..(Len(s) + 1)
        /\ \A i \in 1..Len(s) : Append(s, n)[i] = s[i]
        /\ Append(s, n)[Len(s) + 1] = n
    BY <1>1, AppendProperties, LenProperties
  <1> SUFFICES ASSUME NEW i \in 1..(Len(s) + 1), NEW j \in 1..(Len(s) + 1), i < j
               PROVE  Append(s, n)[i] < Append(s, n)[j]
    BY <1>2 DEF Rising
  <1>3. i \in 1..Len(s) /\ (j \in 1..Len(s) \/ j = Len(s) + 1)
    BY <1>1
  <1>4. s[i] < n
    BY <1>1, <1>3 DEF ToSet
  <1> QED BY <1>1, <1>2, <1>3, <1>4 DEF Rising

LEMMA RisingConcat ==
    ASSUME NEW s \in Seq(Nat), NEW r \in Seq(Nat), Rising(s), Rising(r),
           \A m \in ToSet(s), n \in ToSet(r) : m < n
    PROVE  Rising(s \o r)
  <1> DEFINE k == Len(s)
             m == Len(r)
             c == s \o r
  <1>1. /\ k \in Nat /\ m \in Nat /\ DOMAIN s = 1..k /\ DOMAIN r = 1..m /\ DOMAIN c = 1..(k + m)
        /\ \A i \in 1..k : c[i] = s[i]
        /\ \A i \in 1..m : c[k + i] = r[i]
        /\ \A i \in 1..(k + m) : i \in 1..k \/ \E j \in 1..m : i = k + j
    BY SetOfConcat
  <1> HIDE DEF k, m, c
  <1>2. \A i \in 1..k, j \in 1..m : s[i] < r[j]
    BY <1>1 DEF ToSet
  <1> SUFFICES ASSUME NEW i \in 1..(k + m), NEW j \in 1..(k + m), i < j PROVE c[i] < c[j]
    BY <1>1 DEF Rising, c
  <1>3. CASE j \in 1..k
    <2>1. i \in 1..k
      BY <1>1, <1>3
    <2> QED BY <1>1, <1>3, <2>1 DEF Rising
  <1>4. CASE j \notin 1..k
    <2>1. PICK b \in 1..m : j = k + b
      BY <1>1, <1>4
    <2>2. CASE i \in 1..k
      BY <1>1, <1>2, <2>1, <2>2
    <2>3. CASE i \notin 1..k
      <3>1. PICK a \in 1..m : i = k + a
        BY <1>1, <2>3
      <3>2. a < b
        BY <1>1, <2>1, <3>1
      <3> QED BY <1>1, <2>1, <3>1, <3>2 DEF Rising
    <2> QED BY <2>2, <2>3
  <1> QED BY <1>3, <1>4

LEMMA SameHeads ==
    ASSUME NEW s \in Seq(Nat), NEW r \in Seq(Nat), Len(s) = Len(r), Heads(s, r)
    PROVE  s = r
  <1>1. \A i \in 1..Len(s) : s[i] = r[i]
    BY DEF Heads
  <1> QED BY <1>1, SeqEqual

LEMMA HeadsGrow ==
    ASSUME NEW s \in Seq(Nat), NEW r \in Seq(Nat), Heads(s, r), Len(s) < Len(r)
    PROVE  Heads(Append(s, r[Len(s) + 1]), r) /\ Len(Append(s, r[Len(s) + 1])) = Len(s) + 1
  <1> DEFINE n == r[Len(s) + 1]
  <1>1. Len(s) \in Nat /\ Len(r) \in Nat
    BY LenProperties
  <1>2. Len(s) + 1 \in 1..Len(r)
    BY <1>1
  <1>3. n \in Nat
    BY <1>2, ElementOfSeq
  <1> HIDE DEF n
  <1>4. /\ Len(Append(s, n)) = Len(s) + 1 /\ Append(s, n)[Len(s) + 1] = n
        /\ \A i \in 1..Len(s) : Append(s, n)[i] = s[i]
    BY <1>1, <1>3, AppendProperties
  <1>5. \A i \in 1..(Len(s) + 1) : i \in 1..Len(s) \/ i = Len(s) + 1
    BY <1>1
  <1>6. Heads(Append(s, n), r)
    BY <1>1, <1>4, <1>5 DEF Heads, n
  <1> QED BY <1>4, <1>6 DEF n

LEMMA WholeOfNone ==
    ASSUME NEW D, Rising(D)
    PROVE  Whole(ToSet(D), D, <<>>)
  BY SetOfNone DEF Whole, Rising

LEMMA WholeDrained ==
    ASSUME NEW C, NEW D \in Seq(Nat), NEW V \in Seq(Nat), Whole(C, D, V)
    PROVE  Whole(C, D \o V, <<>>)
  <1>1. Rising(D \o V)
    BY RisingConcat DEF Whole
  <1>2. C = ToSet(D \o V)
    BY SetOfConcat DEF Whole
  <1> QED BY <1>1, <1>2, WholeOfNone

LEMMA WholeMore ==
    ASSUME NEW C, NEW D \in Seq(Nat), NEW V \in Seq(Nat), NEW n \in Nat, Whole(C, D, V),
           \A m \in ToSet(D) : m < n, \A m \in ToSet(V) : m < n
    PROVE  Whole(C \cup {n}, D, Append(V, n))
  <1>1. Rising(Append(V, n))
    BY RisingAppend DEF Whole
  <1>2. ToSet(Append(V, n)) = ToSet(V) \cup {n}
    BY SetOfAppend
  <1> QED BY <1>1, <1>2 DEF Whole

\* The holder of the lock meets no writer.
LEMMA HolderMeetsNone ==
    ASSUME ViewInv, Alone, NEW t \in Thread, Locks(t)
    PROVE  OthersFree(t) /\ \A s \in Thread : s # t => At(s, "idle")
  <1>1. OthersFree(t)
    BY HolderIsAlone
  <1>2. ASSUME NEW s \in Thread, s # t PROVE ~At(s, "notifying")
    <2> SUFFICES ASSUME At(s, "notifying") PROVE FALSE
      OBVIOUS
    <2>1. At(t, "idle")
      BY <1>2 DEF Alone, Lone
    <2> QED BY <2>1 DEF At, Locks
  <1> QED BY <1>1, <1>2 DEF OthersFree, Free, At

\* An operation that begins beside no writer.
LEMMA BeginsBesideNone ==
    ASSUME NEW t \in Thread, Unlocked, overlapped \in BOOLEAN, Begins(t, {"notifying"})
    PROVE  /\ overlapped' \in BOOLEAN
           /\ ~overlapped' => ~overlapped /\ \A s \in Thread : s # t => At(s, "idle")
  BY DEF Unlocked, Begins, At

LEMMA AloneKept ==
    ASSUME NEW t \in Thread, NEW w, Moves(t, w), w.pc # "notifying",
           \A s \in Thread : s # t => At(s, "idle"), Kept(t)',
           \A p \in Viewing' : Whole(captured'[p], delivered'[p], View(p)'.changes),
           \A p \in (DOMAIN rows' \ Viewing') \cup DOMAIN asleep' : Whole(captured'[p], delivered'[p], <<>>)
    PROVE  Alone'
  <1>1. thread'[t] = w /\ \A s \in Thread : s # t => thread'[s].pc = "idle"
    BY DEF Moves, At
  <1>2. \A s \in Thread : ~At(s, "notifying")'
    BY <1>1 DEF At
  <1>3. \A s \in Thread : s # t => Kept(s)'
    BY <1>1 DEF Kept, At
  <1>4. \A s \in Thread : Kept(s)'
    BY <1>3
  <1> QED BY <1>2, <1>4 DEF Alone

\* The same, where the rows stay and no change moves.
LEMMA AloneStill ==
    ASSUME ViewInv, Alone, NEW t \in Thread, NEW w, Moves(t, w), w.pc # "notifying",
           \A s \in Thread : s # t => At(s, "idle"), Kept(t)', Quiet,
           UNCHANGED <<rows, asleep, captured>>
    PROVE  Alone'
  <1>1. Viewing' = Viewing /\ delivered' = delivered
        /\ \A p \in Viewing : rows[p].user_view \in DOMAIN collectors
    BY DEF Viewing, Quiet, ViewInv, Shape
  <1>2. \A p \in Viewing : View(p)'.changes = View(p).changes
    BY <1>1 DEF View, Quiet
  <1>3. \A p \in Viewing' : Whole(captured'[p], delivered'[p], View(p)'.changes)
    BY <1>1, <1>2 DEF Alone
  <1>4. \A p \in (DOMAIN rows' \ Viewing') \cup DOMAIN asleep' : Whole(captured'[p], delivered'[p], <<>>)
    BY <1>1 DEF Alone
  <1> QED BY <1>3, <1>4, AloneKept

\* A step under the lock from end to end, that may run beside a writer.
LEMMA AloneWindow ==
    ASSUME ViewInv, Alone, Unlocked, Quiet, thread' = thread,
           \A s \in Thread : At(s, "notifying") => \A v \in thread[s].left :
              LET p == collectors[v].page
              IN  (p \in Viewing' /\ rows'[p].user_view = v) \/ p \notin DOMAIN rows' \cup DOMAIN asleep',
           \A p \in Viewing' : Whole(captured'[p], delivered'[p], View(p)'.changes),
           \A p \in (DOMAIN rows' \ Viewing') \cup DOMAIN asleep' : Whole(captured'[p], delivered'[p], <<>>)
    PROVE  Alone'
  <1>1. \A s \in Thread : Kept(s)'
    BY DEF Unlocked, Kept, At
  <1>2. ASSUME NEW s \in Thread, At(s, "notifying")'
        PROVE  Lone(s)'
    <2>1. At(s, "notifying") /\ Lone(s) /\ thread[s].left \subseteq DOMAIN collectors
      BY <1>2 DEF At, Alone, ViewInv, InMotion
    <2>2. writes' = writes /\ \A v \in thread[s].left : collectors'[v].page = collectors[v].page
      BY <2>1 DEF Quiet
    <2>3. \A r \in Thread : r # s => At(r, "idle")'
      BY <2>1 DEF Lone, At
    <2>4. \A v \in thread'[s].left :
              LET p == collectors'[v].page
              IN  (p \in Viewing' /\ rows'[p].user_view = v) \/ p \notin DOMAIN rows' \cup DOMAIN asleep'
      BY <2>1, <2>2
    <2>5. thread'[s].write = writes'
      BY <2>1, <2>2 DEF Lone
    <2> QED BY <2>3, <2>4, <2>5 DEF Lone
  <1> QED BY <1>1, <1>2 DEF Alone

LEMMA WindowsAlone ==
    ASSUME ViewInv, AloneInv, NEW t \in Thread,
           Windows(t) \/ freeze_user(t) \/ \E bag \in Bag : wake(t, bag)
    PROVE  AloneInv'
  <1>0. Shape /\ overlapped \in BOOLEAN
    BY DEF ViewInv, AloneInv
  <1>1. ASSUME NEW p \in Page, NEW prefix \in Path,
               subscribe_store_path(t, p, prefix) \/ unsubscribe_path(t, p, prefix)
        PROVE  AloneInv'
    <2>1. /\ Unlocked /\ Quiet /\ p \in DOMAIN rows
          /\ DOMAIN rows' = DOMAIN rows /\ Viewing' = Viewing \cup {p}
          /\ \A q \in Viewing : /\ rows'[q].user_view = rows[q].user_view
                                /\ View(q)'.changes = View(q).changes
          /\ p \notin Viewing => View(p)'.changes = <<>>
          /\ UNCHANGED <<thread, asleep, captured, overlapped>>
      BY <1>1, SubscribeEffect
    <2> SUFFICES ASSUME ~overlapped, Alone PROVE Alone'
      BY <1>0, <2>1 DEF AloneInv
    <2>2. delivered' = delivered
      BY <2>1 DEF Quiet
    <2>3. \A s \in Thread : At(s, "notifying") => \A v \in thread[s].left :
              LET q == collectors[v].page
              IN  (q \in Viewing' /\ rows'[q].user_view = v) \/ q \notin DOMAIN rows' \cup DOMAIN asleep'
      BY <2>1 DEF Alone, Lone
    <2>4. \A q \in Viewing' : Whole(captured'[q], delivered'[q], View(q)'.changes)
      <3> SUFFICES ASSUME NEW q \in Viewing' PROVE Whole(captured[q], delivered[q], View(q)'.changes)
        BY <2>1, <2>2
      <3>1. CASE q \in Viewing
        BY <2>1, <3>1 DEF Alone
      <3>2. CASE q \notin Viewing
        <4>1. q = p
          BY <2>1, <3>2
        <4>2. View(q)'.changes = <<>>
          BY <2>1, <3>2, <4>1 DEF View
        <4> QED BY <2>1, <3>2, <4>1, <4>2 DEF Alone
      <3> QED BY <3>1, <3>2
    <2>5. \A q \in (DOMAIN rows' \ Viewing') \cup DOMAIN asleep' : Whole(captured'[q], delivered'[q], <<>>)
      BY <2>1, <2>2 DEF Alone
    <2> QED BY <2>1, <2>3, <2>4, <2>5, AloneWindow
  <1>2. ASSUME NEW p \in Page, drop_page(t, p)
        PROVE  AloneInv'
    <2>1. /\ Unlocked /\ Quiet /\ DOMAIN rows' = DOMAIN rows \ {p} /\ Viewing' = Viewing \ {p}
          /\ \A q \in Viewing' : rows'[q] = rows[q] /\ View(q)'.changes = View(q).changes
          /\ UNCHANGED <<thread, asleep, captured, overlapped>>
      BY <1>2, DropIsQuiet
    <2> SUFFICES ASSUME ~overlapped, Alone PROVE Alone'
      BY <1>0, <2>1 DEF AloneInv
    <2>2. delivered' = delivered /\ DOMAIN asleep = {}
      BY <1>0, <1>2, <2>1, NoRows DEF Quiet, Shape, drop_page
    <2>3. \A s \in Thread : At(s, "notifying") => \A v \in thread[s].left :
              LET q == collectors[v].page
              IN  (q \in Viewing' /\ rows'[q].user_view = v) \/ q \notin DOMAIN rows' \cup DOMAIN asleep'
      BY <2>1, <2>2 DEF Alone, Lone
    <2>4. \A q \in Viewing' : Whole(captured'[q], delivered'[q], View(q)'.changes)
      BY <2>1, <2>2 DEF Alone
    <2>5. \A q \in (DOMAIN rows' \ Viewing') \cup DOMAIN asleep' : Whole(captured'[q], delivered'[q], <<>>)
      BY <2>1, <2>2 DEF Alone
    <2> QED BY <2>1, <2>3, <2>4, <2>5, AloneWindow
  <1>3. ASSUME freeze_user(t)
        PROVE  AloneInv'
    <2>1. /\ Unlocked /\ Quiet /\ DOMAIN rows' = {} /\ Viewing' = {}
          /\ DOMAIN asleep' = DOMAIN rows /\ thread' = thread
          /\ \A p \in Page : captured'[p] = ToSet(delivered[p])
      BY <1>3, FreezeIsQuiet
    <2>2. Begins(t, {"notifying"}) /\ At(t, "idle")
      BY <1>3 DEF freeze_user
    <2>3. /\ overlapped' \in BOOLEAN
          /\ ~overlapped' => ~overlapped /\ \A s \in Thread : s # t => At(s, "idle")
      BY <1>0, <2>1, <2>2, BeginsBesideNone
    <2> SUFFICES ASSUME ~overlapped, Alone, \A s \in Thread : s # t => At(s, "idle") PROVE Alone'
      BY <2>3 DEF AloneInv
    <2>4. \A s \in Thread : ~At(s, "notifying")
      BY <2>2 DEF At
    <2>5. DOMAIN rows \subseteq Page /\ delivered' = delivered
      BY <1>0, <2>1 DEF Shape, Quiet
    <2>6. \A p \in DOMAIN rows : Rising(delivered[p])
      BY DEF Alone, Whole
    <2>7. \A q \in (DOMAIN rows' \ Viewing') \cup DOMAIN asleep' : Whole(captured'[q], delivered'[q], <<>>)
      BY <2>1, <2>5, <2>6, WholeOfNone
    <2> QED BY <2>1, <2>4, <2>7, AloneWindow
  <1>4. ASSUME NEW bag \in Bag, wake(t, bag)
        PROVE  AloneInv'
    <2>1. /\ Unlocked /\ Quiet /\ DOMAIN rows' = DOMAIN asleep /\ DOMAIN rows = {}
          /\ Viewing' \subseteq DOMAIN asleep /\ \A p \in Viewing' : View(p)'.changes = <<>>
          /\ DOMAIN asleep' = {} /\ UNCHANGED <<thread, captured, overlapped>>
      BY <1>4, WakeIsQuiet
    <2> SUFFICES ASSUME ~overlapped, Alone PROVE Alone'
      BY <1>0, <2>1 DEF AloneInv
    <2>2. delivered' = delivered /\ Viewing = {}
      BY <2>1 DEF Quiet, Viewing
    <2>3. \A s \in Thread : At(s, "notifying") => \A v \in thread[s].left :
              LET q == collectors[v].page
              IN  (q \in Viewing' /\ rows'[q].user_view = v) \/ q \notin DOMAIN rows' \cup DOMAIN asleep'
      BY <2>1, <2>2 DEF Alone, Lone
    <2>4. \A q \in Viewing' : Whole(captured'[q], delivered'[q], View(q)'.changes)
      BY <2>1, <2>2 DEF Alone
    <2>5. \A q \in (DOMAIN rows' \ Viewing') \cup DOMAIN asleep' : Whole(captured'[q], delivered'[q], <<>>)
      BY <2>1, <2>2 DEF Alone
    <2> QED BY <2>1, <2>3, <2>4, <2>5, AloneWindow
  <1> QED BY <1>1, <1>2, <1>3, <1>4 DEF Windows

LEMMA StartsAlone ==
    ASSUME ViewInv, AloneInv, NEW t \in Thread,
           \/ \E p \in Page : DrainReads(t, p)
           \/ change_connection_user(t)
           \/ \E bag \in Bag : install_carried_store(t, bag)
    PROVE  AloneInv'
  <1>0. Shape /\ overlapped \in BOOLEAN
    BY DEF ViewInv, AloneInv
  <1>1. /\ Unlocked /\ Begins(t, {"notifying"}) /\ UNCHANGED <<rows, collectors, asleep, writes, captured, delivered>>
    BY DEF DrainReads, change_connection_user, install_carried_store
  <1>2. /\ overlapped' \in BOOLEAN
        /\ ~overlapped' => ~overlapped /\ \A s \in Thread : s # t => At(s, "idle")
    BY <1>0, <1>1, BeginsBesideNone
  <1> SUFFICES ASSUME ~overlapped, Alone, \A s \in Thread : s # t => At(s, "idle") PROVE Alone'
    BY <1>2 DEF AloneInv
  <1>3. Quiet
    BY <1>1, SameIsQuiet
  <1>4. ASSUME NEW p \in Page, DrainReads(t, p)
        PROVE  Alone'
    <2> DEFINE w == [pc |-> "draining", page |-> p, changes |-> View(p).changes]
    <2>1. p \in Viewing /\ thread' = [thread EXCEPT ![t] = w]
      BY <1>4 DEF DrainReads, Viewing, View
    <2>2. collectors[rows[p].user_view] \in Collector
      BY <1>1, <2>1, FreeStart
    <2>3. View(p).changes \in Seq(Nat)
      BY <2>2, CollectorParts DEF View
    <2>4. w \in Work /\ w.pc = "draining" /\ w.page = p /\ w.changes = View(p).changes
      BY <2>3, WorkMade
    <2> HIDE DEF w
    <2>5. Moves(t, w)
      BY <1>0, <2>1, <2>4, WorkMoves DEF Shape
    <2>6. Kept(t)'
      BY <1>1, <2>4, <2>5 DEF Kept, Moves, At, View
    <2> QED BY <1>1, <1>3, <2>4, <2>5, <2>6, AloneStill
  <1>5. ASSUME NEW w, Moves(t, w), w.pc = "reattaching"
        PROVE  Alone'
    <2>1. Kept(t)'
      BY <1>5 DEF Kept, Moves, At
    <2> QED BY <1>1, <1>3, <1>5, <2>1, AloneStill
  <1>6. ASSUME change_connection_user(t)
        PROVE  Alone'
    <2> DEFINE w == Reattaching({p \in Viewing : View(p).bag # store'[User]}, store'[User])
    <2>1. Moves(t, w)
      BY <1>6, LoginEffect
    <2>2. w.pc = "reattaching"
      BY DEF Reattaching
    <2> HIDE DEF w
    <2> QED BY <1>5, <2>1, <2>2
  <1>7. ASSUME NEW bag \in Bag, install_carried_store(t, bag)
        PROVE  Alone'
    <2> DEFINE w == Reattaching(Viewing, bag)
    <2>1. Moves(t, w)
      BY <1>7, InstallEffect
    <2>2. w.pc = "reattaching"
      BY DEF Reattaching
    <2> HIDE DEF w
    <2> QED BY <1>5, <2>1, <2>2
  <1> QED BY <1>4, <1>6, <1>7

LEMMA DetachAlone ==
    ASSUME ViewInv, AloneInv, NEW t \in Thread, (\E p \in Page : Detach(t, p)) \/ Reattached(t)
    PROVE  AloneInv'
  <1>0. Shape /\ overlapped \in BOOLEAN /\ overlapped' = overlapped /\ Locks(t)
    BY DEF ViewInv, AloneInv, Detach, Reattached, historyVars, Locks, At
  <1> SUFFICES ASSUME ~overlapped, Alone PROVE Alone'
    BY <1>0 DEF AloneInv
  <1>1. \A s \in Thread : s # t => At(s, "idle")
    BY <1>0, HolderMeetsNone
  <1>2. ASSUME NEW p \in Page, Detach(t, p)
        PROVE  Alone'
    <2> DEFINE w == [pc |-> "detached", page |-> p, then |-> thread[t]]
    <2>1. /\ Moves(t, w) /\ OneIs(rows[p].user_view, Detached(collectors[rows[p].user_view]))
          /\ \A x \in DOMAIN collectors : /\ collectors'[x].page = collectors[x].page
                                          /\ collectors'[x].changes = collectors[x].changes
          /\ UNCHANGED <<rows, asleep, captured, writes, delivered>>
      BY <1>2, DetachEffect
    <2>2. w.pc = "detached"
      OBVIOUS
    <2> HIDE DEF w
    <2>3. Quiet
      BY <2>1 DEF Quiet, OneIs
    <2>4. Kept(t)'
      BY <2>1, <2>2 DEF Kept, Moves, At
    <2> QED BY <1>1, <2>1, <2>2, <2>3, <2>4, AloneStill
  <1>3. ASSUME Reattached(t)
        PROVE  Alone'
    <2>1. thread' = [thread EXCEPT ![t] = Idle]
          /\ UNCHANGED <<rows, collectors, asleep, captured, writes, delivered>>
      BY <1>3 DEF Reattached, Ends, historyVars
    <2>2. Moves(t, Idle) /\ Idle.pc = "idle"
      BY <1>0, <2>1, WorkMade, WorkMoves DEF Shape
    <2>3. Kept(t)'
      BY <2>2 DEF Kept, Moves, At
    <2> QED BY <1>1, <2>1, <2>2, <2>3, SameIsQuiet, AloneStill
  <1> QED BY <1>2, <1>3

LEMMA AttachAlone ==
    ASSUME ViewInv, AloneInv, NEW t \in Thread, Attach(t)
    PROVE  AloneInv'
  <1> DEFINE p == thread[t].page
             n == Len(collectors) + 1
             v == rows[p].user_view
             w == [pc |-> "feeding", page |-> p, then |-> thread[t].then, fed |-> 0, fresh |-> n]
  <1>1. /\ At(t, "detached") /\ Quiet /\ Moves(t, w) /\ p \in Viewing
        /\ v \in DOMAIN collectors /\ collectors'[v] = collectors[v]
        /\ collectors'[n].changes = <<>> /\ thread'[t].pc = "feeding" /\ thread'[t].page = p
        /\ thread'[t].fed = 0 /\ thread'[t].fresh = n
        /\ UNCHANGED <<rows, asleep, captured, overlapped>>
    BY AttachIsQuiet
  <1>2. w.pc = "feeding"
    OBVIOUS
  <1> HIDE DEF w, n
  <1> SUFFICES ASSUME ~overlapped, Alone PROVE Alone'
    BY <1>1 DEF AloneInv
  <1>3. \A s \in Thread : s # t => At(s, "idle")
    BY <1>1, HolderMeetsNone DEF Locks, At
  <1>4. collectors[v].changes \in Seq(Nat) /\ Len(collectors[v].changes) \in Nat
    BY <1>1, Numbers, LenProperties DEF ViewInv
  <1>5. OldChanges(t)' = collectors[v].changes
    BY <1>1 DEF OldChanges
  <1>6. Heads(<<>>, collectors[v].changes)
    BY <1>4, SetOfNone DEF Heads
  <1>7. /\ Len(collectors'[thread'[t].fresh].changes) = thread'[t].fed
        /\ Heads(collectors'[thread'[t].fresh].changes, OldChanges(t)')
    BY <1>1, <1>5, <1>6, SetOfNone
  <1>8. Kept(t)'
    BY <1>1, <1>7 DEF Kept, At
  <1> QED BY <1>1, <1>2, <1>3, <1>8, AloneStill

LEMMA FeedAlone ==
    ASSUME ViewInv, AloneInv, NEW t \in Thread, Feed(t)
    PROVE  AloneInv'
  <1> DEFINE V == OldChanges(t)
             k == thread[t].fed
             n == V[k + 1]
             f == thread[t].fresh
             p == thread[t].page
             v == rows[p].user_view
             F == collectors[f].changes
             w == [thread[t] EXCEPT !.fed = @ + 1]
  <1>1. /\ At(t, "feeding") /\ OthersFree(t) /\ Mine(t) /\ v \in DOMAIN collectors
        /\ V \in Seq(Nat) /\ k < Len(V)
        /\ w.pc = "feeding" /\ w.page = p /\ w.fed = k + 1 /\ w.fresh = f /\ Moves(t, w)
        /\ f \in DOMAIN collectors /\ f # v /\ p \in Viewing /\ OneIs(f, Deposited(collectors[f], n))
        /\ collectors'[f].changes = Append(F, n)
        /\ UNCHANGED <<rows, asleep, captured, delivered, overlapped>>
    BY FeedEffect
  <1> HIDE DEF w
  <1> SUFFICES ASSUME ~overlapped, Alone PROVE Alone'
    BY <1>1 DEF AloneInv
  <1>2. \A s \in Thread : s # t => At(s, "idle")
    BY <1>1, HolderMeetsNone DEF Locks, At
  <1>3. F \in Seq(Nat) /\ Len(F) = k /\ Heads(F, V) /\ collectors[f].page = p /\ thread'[t] = w
    BY <1>1, Numbers DEF ViewInv, Alone, Kept, Moves, Mine, FreshOK, At
  <1>4. Heads(Append(F, n), V) /\ Len(Append(F, n)) = k + 1
    <2>1. n = V[Len(F) + 1] /\ Len(F) < Len(V) /\ F \in Seq(Nat) /\ V \in Seq(Nat) /\ Heads(F, V)
      BY <1>1, <1>3
    <2>2. k + 1 = Len(F) + 1
      BY <1>3
    <2> HIDE DEF n, V, F, k
    <2> QED BY <2>1, <2>2, HeadsGrow
  <1>5. OldChanges(t)' = V
    BY <1>1, <1>3 DEF OldChanges, OneIs
  <1>6. Kept(t)'
    <2>1. /\ thread'[t].pc = "feeding" /\ thread'[t].fed = k + 1
          /\ collectors'[thread'[t].fresh].changes = Append(F, n)
      BY <1>1, <1>3
    <2> HIDE DEF n, V, F, k
    <2> QED BY <1>4, <1>5, <2>1 DEF Kept, At
  <1>7. Viewing' = Viewing /\ \A q \in Viewing : View(q)' = View(q)
    <2>1. Viewing' = Viewing
      BY <1>1 DEF Viewing
    <2>2. ASSUME NEW q \in Viewing PROVE View(q)' = View(q)
      <3>1. rows[q].user_view \in DOMAIN collectors /\ collectors[rows[q].user_view].page = q
        BY <1>1, StartsMine
      <3>2. rows[q].user_view # f
        BY <1>1, <1>3, <3>1
      <3> QED BY <1>1, <3>1, <3>2 DEF View, OneIs
    <2> QED BY <2>1, <2>2
  <1>8. \A q \in Viewing' : Whole(captured'[q], delivered'[q], View(q)'.changes)
    BY <1>1, <1>7 DEF Alone
  <1>9. \A q \in (DOMAIN rows' \ Viewing') \cup DOMAIN asleep' : Whole(captured'[q], delivered'[q], <<>>)
    BY <1>1, <1>7 DEF Alone
  <1> QED BY <1>1, <1>2, <1>6, <1>8, <1>9, AloneKept

LEMMA FedAlone ==
    ASSUME ViewInv, AloneInv, NEW t \in Thread, Fed(t)
    PROVE  AloneInv'
  <1> DEFINE w == [thread[t] EXCEPT !.pc = "fed"]
             f == thread[t].fresh
             v == rows[thread[t].page].user_view
  <1>1. /\ At(t, "feeding") /\ OthersFree(t) /\ thread[t].fed = Len(OldChanges(t))
        /\ w.pc = "fed" /\ w.page = thread[t].page /\ w.fresh = f /\ Moves(t, w)
        /\ UNCHANGED <<rows, collectors, asleep, captured, delivered, writes, overlapped>>
    BY FedEffect
  <1> HIDE DEF w
  <1> SUFFICES ASSUME ~overlapped, Alone PROVE Alone'
    BY <1>1 DEF AloneInv
  <1>2. \A s \in Thread : s # t => At(s, "idle")
    BY <1>1, HolderMeetsNone DEF Locks, At
  <1>3. f \in DOMAIN collectors /\ v \in DOMAIN collectors /\ OldChanges(t) = collectors[v].changes
    BY <1>1, StartsMine DEF Mine, FreshOK, LoopOK, At, OldChanges
  <1>4. collectors[f].changes \in Seq(Nat) /\ OldChanges(t) \in Seq(Nat)
    BY <1>3, Numbers DEF ViewInv
  <1>5. Len(collectors[f].changes) = Len(OldChanges(t)) /\ Heads(collectors[f].changes, OldChanges(t))
    BY <1>1 DEF Alone, Kept
  <1>6. collectors[f].changes = OldChanges(t)
    <2> HIDE DEF f
    <2> QED BY <1>4, <1>5, SameHeads
  <1>7. thread'[t] = w
    BY <1>1 DEF Moves
  <1>8. OldChanges(t)' = OldChanges(t)
    BY <1>1, <1>7 DEF OldChanges
  <1>9. Kept(t)'
    BY <1>1, <1>6, <1>7, <1>8 DEF Kept, At
  <1> QED BY <1>1, <1>2, <1>9, SameIsQuiet, AloneStill

LEMMA AssignAlone ==
    ASSUME ViewInv, AloneInv, NEW t \in Thread, Assign(t)
    PROVE  AloneInv'
  <1> DEFINE p == thread[t].page
             f == thread[t].fresh
             w == [thread[t].then EXCEPT !.pages = @ \ {p}]
  <1>1. /\ At(t, "fed") /\ OthersFree(t) /\ p \in Viewing
        /\ w.pc = "reattaching" /\ Moves(t, w) /\ DOMAIN rows' = DOMAIN rows /\ rows'[p].user_view = f
        /\ Viewing' = Viewing /\ \A q \in Viewing : q # p => View(q)' = View(q)
        /\ UNCHANGED <<collectors, asleep, captured, delivered, overlapped>>
    BY AssignEffect
  <1> HIDE DEF w
  <1> SUFFICES ASSUME ~overlapped, Alone PROVE Alone'
    BY <1>1 DEF AloneInv
  <1>2. \A s \in Thread : s # t => At(s, "idle")
    BY <1>1, HolderMeetsNone DEF Locks, At
  <1>3. collectors[f].changes = View(p).changes
    BY <1>1 DEF Alone, Kept, OldChanges, View
  <1>4. Whole(captured[p], delivered[p], collectors[f].changes)
    BY <1>1, <1>3 DEF Alone
  <1> HIDE DEF p, f
  <1>5. \A q \in Viewing' : Whole(captured'[q], delivered'[q], View(q)'.changes)
    <2> SUFFICES ASSUME NEW q \in Viewing PROVE Whole(captured[q], delivered[q], View(q)'.changes)
      BY <1>1
    <2>1. CASE q = p
      <3>1. View(q)' = collectors[f]
        BY <1>1, <2>1 DEF View
      <3> QED BY <1>4, <2>1, <3>1
    <2>2. CASE q # p
      BY <1>1, <2>2 DEF Alone
    <2> QED BY <2>1, <2>2
  <1>6. \A q \in (DOMAIN rows' \ Viewing') \cup DOMAIN asleep' : Whole(captured'[q], delivered'[q], <<>>)
    BY <1>1 DEF Alone
  <1>7. Kept(t)'
    BY <1>1 DEF Kept, Moves, At
  <1> QED BY <1>1, <1>2, <1>5, <1>6, <1>7, AloneKept

LEMMA ResetsAlone ==
    ASSUME ViewInv, AloneInv, NEW t \in Thread, DrainResets(t)
    PROVE  AloneInv'
  <1> DEFINE p == thread[t].page
             v == rows[p].user_view
             D == delivered[p]
             V == collectors[v].changes
  <1>1. /\ At(t, "draining") /\ OthersFree(t) /\ p \in Viewing /\ v \in DOMAIN collectors
        /\ Moves(t, Idle) /\ collectors'[v].changes = <<>>
        /\ \A x \in DOMAIN collectors : x # v => collectors'[x] = collectors[x]
        /\ delivered'[p] = D \o thread[t].changes /\ \A q \in Page : q # p => delivered'[q] = delivered[q]
        /\ UNCHANGED <<rows, asleep, captured, overlapped>>
    BY ResetsEffect
  <1> SUFFICES ASSUME ~overlapped, Alone PROVE Alone'
    BY <1>1 DEF AloneInv
  <1>2. \A s \in Thread : s # t => At(s, "idle")
    BY <1>1, HolderMeetsNone DEF Locks, At
  <1>3. Shape /\ p \in Page /\ collectors[v].page = p
    BY <1>1, StartsMine
  <1>4. D \in Seq(Nat) /\ V \in Seq(Nat) /\ thread[t].changes = V
    BY <1>1, <1>3, Numbers DEF Alone, Kept, View
  <1>5. Whole(captured[p], D, V)
    BY <1>1 DEF Alone, View
  <1>6. Whole(captured[p], D \o V, <<>>)
    BY <1>4, <1>5, WholeDrained
  <1>7. delivered'[p] = D \o V /\ captured' = captured
    BY <1>1, <1>4
  <1> HIDE DEF p, v, D, V
  <1>8. Viewing' = Viewing
    BY <1>1 DEF Viewing
  <1>9. \A q \in Viewing' : Whole(captured'[q], delivered'[q], View(q)'.changes)
    <2> SUFFICES ASSUME NEW q \in Viewing PROVE Whole(captured[q], delivered'[q], View(q)'.changes)
      BY <1>1, <1>8
    <2>1. q \in Page /\ rows[q].user_view \in DOMAIN collectors /\ collectors[rows[q].user_view].page = q
      BY <1>1, StartsMine
    <2>2. CASE q = p
      <3>1. View(q)'.changes = <<>>
        BY <1>1, <2>2 DEF View, v
      <3> QED BY <1>6, <1>7, <2>2, <3>1
    <2>3. CASE q # p
      <3>1. View(q)' = View(q)
        BY <1>1, <1>3, <2>1, <2>3 DEF View
      <3> QED BY <1>1, <2>1, <2>3, <3>1 DEF Alone
    <2> QED BY <2>2, <2>3
  <1>10. \A q \in (DOMAIN rows' \ Viewing') \cup DOMAIN asleep' : Whole(captured'[q], delivered'[q], <<>>)
    <2> SUFFICES ASSUME NEW q \in (DOMAIN rows \ Viewing) \cup DOMAIN asleep
                 PROVE  Whole(captured[q], delivered'[q], <<>>)
      BY <1>1, <1>8
    <2>1. q \in Page /\ q # p
      <3>1. p \in DOMAIN rows /\ (DOMAIN asleep # {} => asleep # <<>>)
        BY <1>1, NoRows DEF Viewing
      <3> QED BY <1>1, <1>3, <3>1 DEF Shape
    <2> QED BY <1>1, <2>1 DEF Alone
  <1>11. Kept(t)' /\ Idle.pc = "idle"
    BY <1>1, WorkMade DEF Kept, Moves, At
  <1> QED BY <1>1, <1>2, <1>9, <1>10, <1>11, AloneKept

LEMMA SetItemAlone ==
    ASSUME ViewInv, AloneInv, NEW t \in Thread, NEW u, NEW path \in Path, setItem(t, u, path)
    PROVE  AloneInv'
  <1> DEFINE L == Subscribers(ensure_item_data(u)[u])
             w == [pc |-> "notifying", path |-> path, write |-> writes + 1, left |-> L]
  <1>0. Shape /\ thread \in [Thread -> Work] /\ overlapped \in BOOLEAN
    BY DEF ViewInv, Shape, AloneInv
  <1>1. /\ At(t, "idle") /\ thread' = [thread EXCEPT ![t] = w] /\ writes' = writes + 1
        /\ Begins(t, AllBusy) /\ UNCHANGED <<rows, collectors, asleep, captured, delivered>>
    BY DEF setItem
  <1>2. L \in SUBSET Nat /\ writes + 1 \in Nat /\ L \subseteq DOMAIN collectors
        /\ \A v \in L : collectors[v].attached
    BY <1>0, LenProperties DEF Shape, Subscribers
  <1> HIDE DEF L
  <1>3. w \in Work /\ w.pc = "notifying" /\ w.write = writes + 1 /\ w.left = L
    BY <1>2, WorkMade
  <1> HIDE DEF w
  <1>4. Moves(t, w) /\ thread'[t] = w
    BY <1>0, <1>1, <1>3, WorkMoves DEF Moves
  <1>5. /\ overlapped' \in BOOLEAN
        /\ ~overlapped' => ~overlapped /\ \A s \in Thread : s # t => At(s, "idle")
    <2>1. \A s \in Thread : thread[s].pc \in AllBusy \/ thread[s].pc = "idle"
      BY <1>0, WorkParts DEF AllBusy
    <2>2. overlapped' = (overlapped \/ \E s \in Thread \ {t} : thread[s].pc \in AllBusy)
      BY <1>1 DEF Begins
    <2>3. overlapped' \in BOOLEAN
      BY <2>2
    <2>4. ASSUME ~overlapped', NEW s \in Thread, s # t PROVE ~overlapped /\ At(s, "idle")
      BY <2>1, <2>2, <2>4 DEF At
    <2>5. ~overlapped' => ~overlapped
      BY <2>2
    <2> QED BY <2>3, <2>4, <2>5
  <1> SUFFICES ASSUME ~overlapped, Alone, \A s \in Thread : s # t => At(s, "idle") PROVE Alone'
    BY <1>5 DEF AloneInv
  <1>6. \A s \in Thread : s # t => thread'[s].pc = "idle"
    BY <1>4 DEF Moves, At
  <1>7. \A s \in Thread : Kept(s)'
    BY <1>3, <1>4, <1>6 DEF Kept, At
  <1>8. \A v \in L : collectors[v].page \in Viewing /\ rows[collectors[v].page].user_view = v
    <2>1. Unlocked
      BY <1>1 DEF Unlocked, At
    <2>2. Settled /\ \A p \in Viewing : collectors[rows[p].user_view].page = p
      BY <2>1, FreeStart
    <2> QED BY <1>2, <2>2 DEF Settled
  <1>9. Viewing' = Viewing /\ \A p : View(p)' = View(p)
    BY <1>1 DEF Viewing, View
  <1>10. Lone(t)'
    <2>1. thread'[t].write = writes' /\ thread'[t].left = L
      BY <1>1, <1>3, <1>4
    <2>2. \A s \in Thread : s # t => At(s, "idle")'
      BY <1>6 DEF At
    <2>3. \A v \in thread'[t].left :
              LET p == collectors'[v].page
              IN  (p \in Viewing' /\ rows'[p].user_view = v) \/ p \notin DOMAIN rows' \cup DOMAIN asleep'
      BY <1>1, <1>8, <1>9, <2>1
    <2> QED BY <2>1, <2>2, <2>3 DEF Lone
  <1>11. \A s \in Thread : At(s, "notifying")' => Lone(s)'
    BY <1>6, <1>10 DEF At
  <1>12. /\ \A p \in Viewing' : Whole(captured'[p], delivered'[p], View(p)'.changes)
         /\ \A p \in (DOMAIN rows' \ Viewing') \cup DOMAIN asleep' : Whole(captured'[p], delivered'[p], <<>>)
    BY <1>1, <1>9 DEF Alone
  <1> QED BY <1>7, <1>11, <1>12 DEF Alone

LEMMA WriteEndsAlone ==
    ASSUME ViewInv, AloneInv, NEW t \in Thread, WriteEnds(t)
    PROVE  AloneInv'
  <1>1. /\ At(t, "notifying") /\ thread' = [thread EXCEPT ![t] = Idle]
        /\ UNCHANGED <<rows, collectors, asleep, captured, delivered, writes, overlapped>>
    BY DEF WriteEnds, Ends, historyVars
  <1>2. Moves(t, Idle) /\ Idle.pc = "idle"
    BY <1>1, WorkMade, WorkMoves DEF ViewInv, Shape
  <1> SUFFICES ASSUME ~overlapped, Alone PROVE Alone'
    BY <1>1 DEF AloneInv
  <1>3. \A s \in Thread : s # t => At(s, "idle")
    BY <1>1 DEF Alone, Lone
  <1>4. Kept(t)'
    BY <1>2 DEF Kept, Moves, At
  <1> QED BY <1>1, <1>2, <1>3, <1>4, SameIsQuiet, AloneStill

LEMMA EventAlone ==
    ASSUME ViewInv, OnceInv, AloneInv, NEW t \in Thread, on_event(t)
    PROVE  AloneInv'
  <1> DEFINE v == Min(thread[t].left)
             n == thread[t].write
             p == collectors[v].page
             w == [thread[t] EXCEPT !.left = @ \ {v}]
  <1>0. Shape /\ InMotion /\ OnTheWay /\ writes \in Nat /\ captured \in [Page -> SUBSET Nat]
    BY DEF ViewInv, OnceInv, Shape
  <1>1. /\ At(t, "notifying") /\ v \in thread[t].left /\ v \in DOMAIN collectors /\ n \in Nat
        /\ w.pc = "notifying" /\ w.write = n /\ w.left = thread[t].left \ {v}
        /\ Moves(t, w) /\ SameViews
    BY <1>0, EventEffect
  <1>2. /\ UNCHANGED <<rows, asleep, writes, delivered, overlapped>>
        /\ \/ collectors' = collectors /\ captured' = captured
           \/ /\ collectors' = [collectors EXCEPT ![v] = Deposited(collectors[v], n)]
              /\ captured' = [captured EXCEPT ![p] = @ \cup {n}]
    BY DEF on_event
  <1> HIDE DEF w, v, n
  <1> SUFFICES ASSUME ~overlapped, Alone PROVE Alone'
    BY <1>2 DEF AloneInv
  <1>3. /\ Lone(t) /\ NotYet(n, p) /\ n = writes
        /\ (p \in Viewing /\ rows[p].user_view = v) \/ p \notin DOMAIN rows \cup DOMAIN asleep
    BY <1>0, <1>1 DEF Alone, Lone, OnTheWay, n
  <1>4. collectors[v] \in Collector /\ p \in Page /\ collectors \in Seq(Collector)
    BY <1>0, <1>1, Numbers DEF Shape
  <1>5. thread'[t] = w /\ \A s \in Thread : s # t => thread'[s].pc = "idle"
    BY <1>1, <1>3 DEF Moves, Lone, At
  <1>6. \A s \in Thread : Kept(s)'
    BY <1>1, <1>5 DEF Kept, At
  <1>7. Viewing' = Viewing /\ \A q \in Viewing : /\ q \in Page /\ rows[q].user_view \in DOMAIN collectors
                                                 /\ collectors[rows[q].user_view].page = q
    BY <1>0, <1>2 DEF Viewing, Shape, View
  <1>8. Lone(t)'
    <2>1. thread'[t].write = writes' /\ thread'[t].left \subseteq thread[t].left
      BY <1>1, <1>2, <1>3, <1>5
    <2>2. \A s \in Thread : s # t => At(s, "idle")'
      BY <1>5 DEF At
    <2>3. \A x \in thread[t].left : collectors'[x].page = collectors[x].page
      BY <1>0, <1>1 DEF InMotion, SameViews
    <2>4. \A x \in thread'[t].left :
              LET q == collectors'[x].page
              IN  (q \in Viewing' /\ rows'[q].user_view = x) \/ q \notin DOMAIN rows' \cup DOMAIN asleep'
      BY <1>2, <1>3, <1>7, <2>1, <2>3 DEF Lone
    <2> QED BY <2>1, <2>2, <2>4 DEF Lone
  <1>9. \A s \in Thread : At(s, "notifying")' => Lone(s)'
    BY <1>5, <1>8 DEF At
  <1>10. CASE collectors' = collectors /\ captured' = captured
    <2>1. /\ \A q \in Viewing' : Whole(captured'[q], delivered'[q], View(q)'.changes)
          /\ \A q \in (DOMAIN rows' \ Viewing') \cup DOMAIN asleep' : Whole(captured'[q], delivered'[q], <<>>)
      BY <1>2, <1>7, <1>10 DEF Alone, View
    <2> QED BY <1>6, <1>9, <2>1 DEF Alone
  <1>11. CASE /\ collectors' = [collectors EXCEPT ![v] = Deposited(collectors[v], n)]
              /\ captured' = [captured EXCEPT ![p] = @ \cup {n}]
    <2>1. Deposited(collectors[v], n) \in Collector
          /\ Deposited(collectors[v], n).changes = Append(collectors[v].changes, n)
      BY <1>1, <1>4, DepositedParts
    <2>2. OneIs(v, Deposited(collectors[v], n))
      BY <1>1, <1>4, <1>11, <2>1, Replaces
    <2>3. /\ captured'[p] = captured[p] \cup {n}
          /\ \A q \in Page : q # p => captured'[q] = captured[q]
      BY <1>0, <1>4, <1>11
    <2> HIDE DEF p
    <2>4. \A q \in Viewing' : Whole(captured'[q], delivered'[q], View(q)'.changes)
      <3> SUFFICES ASSUME NEW q \in Viewing PROVE Whole(captured'[q], delivered[q], View(q)'.changes)
        BY <1>2, <1>7
      <3>1. CASE q = p
        <4> DEFINE D == delivered[q]
                   V == collectors[v].changes
        <4>1. rows[q].user_view = v /\ q \in DOMAIN rows
          BY <1>3, <3>1 DEF Viewing
        <4>2. View(q)'.changes = Append(V, n) /\ View(q).changes = V
          BY <1>2, <2>1, <2>2, <4>1 DEF View, OneIs
        <4>3. D \in Seq(Nat) /\ V \in Seq(Nat) /\ collectors[v].page = q
          BY <1>0, <1>1, <1>7, <4>1, Numbers
        <4>4. /\ \A m \in ToSet(D) : m \in Nat /\ m <= n /\ m # n
              /\ \A m \in ToSet(V) : m \in Nat /\ m <= n /\ m # n
          BY <1>0, <1>1, <1>3, <1>7, <3>1, <4>3, Numbers DEF OnTheWay, NotYet
        <4>5. /\ \A m \in ToSet(D) : m < n
              /\ \A m \in ToSet(V) : m < n
          BY <1>1, <4>4
        <4>6. Whole(captured[q], D, V)
          BY <4>2 DEF Alone
        <4> HIDE DEF D, V
        <4>7. Whole(captured[q] \cup {n}, D, Append(V, n))
          BY <1>1, <4>3, <4>5, <4>6, WholeMore
        <4> QED BY <2>3, <3>1, <4>2, <4>7 DEF D
      <3>2. CASE q # p
        <4>1. rows[q].user_view # v
          BY <1>7, <3>2 DEF p
        <4>2. View(q)' = View(q)
          BY <1>2, <1>7, <2>2, <4>1 DEF View, OneIs
        <4> QED BY <1>7, <2>3, <3>2, <4>2 DEF Alone
      <3> QED BY <3>1, <3>2
    <2>5. \A q \in (DOMAIN rows' \ Viewing') \cup DOMAIN asleep' : Whole(captured'[q], delivered'[q], <<>>)
      <3> SUFFICES ASSUME NEW q \in (DOMAIN rows \ Viewing) \cup DOMAIN asleep
                   PROVE  Whole(captured'[q], delivered[q], <<>>)
        BY <1>2, <1>7
      <3>1. q \in Page /\ q # p
        <4>1. DOMAIN asleep # {} => DOMAIN rows = {}
          BY <1>0, NoRows DEF Shape
        <4> QED BY <1>0, <1>3, <4>1 DEF Shape, Viewing
      <3> QED BY <2>3, <3>1 DEF Alone
    <2> QED BY <1>6, <1>9, <2>4, <2>5 DEF Alone
  <1> QED BY <1>2, <1>10, <1>11

LEMMA AloneInvInit ==
    ASSUME Init
    PROVE  AloneInv
  <1>1. /\ rows = [p \in Page |-> [store_subscriptions |-> {}, user_view |-> NoView]]
        /\ asleep = <<>> /\ thread = [t \in Thread |-> Idle] /\ overlapped = FALSE
        /\ captured = [p \in Page |-> {}] /\ delivered = [p \in Page |-> <<>>]
    BY DEF Init
  <1>2. Viewing = {} /\ DOMAIN rows = Page /\ DOMAIN asleep = {} /\ \A t \in Thread : thread[t].pc = "idle"
    BY <1>1, NoRows, WorkMade DEF Viewing
  <1>3. \A t \in Thread : ~At(t, "notifying") /\ Kept(t)
    BY <1>2 DEF At, Kept
  <1>4. Whole({}, <<>>, <<>>)
    BY SetOfNone DEF Whole, Rising
  <1>5. \A p \in Page : captured[p] = {} /\ delivered[p] = <<>>
    BY <1>1
  <1>6. Alone
    BY <1>2, <1>3, <1>4, <1>5 DEF Alone
  <1> QED BY <1>1, <1>6 DEF AloneInv

LEMMA AloneInvNext ==
    ASSUME ViewInv, OnceInv, AloneInv, [Next]_vars
    PROVE  AloneInv'
  <1>1. CASE UNCHANGED vars
    <2>1. UNCHANGED <<rows, asleep, collectors, thread, writes, captured, delivered, overlapped>>
      BY <1>1 DEF vars, historyVars
    <2>2. ASSUME Alone PROVE Alone'
      <3>1. Viewing' = Viewing /\ \A p : View(p)' = View(p)
        BY <2>1 DEF Viewing, View
      <3>2. \A t \in Thread : (At(t, "notifying")' <=> At(t, "notifying")) /\ (Lone(t)' <=> Lone(t))
        BY <2>1, <3>1 DEF At, Lone
      <3>3. \A t \in Thread : Kept(t) => Kept(t)'
        BY <2>1 DEF Kept, At, OldChanges, View
      <3> QED BY <2>1, <2>2, <3>1, <3>2, <3>3 DEF Alone
    <2> QED BY <2>1, <2>2 DEF AloneInv
  <1>2. CASE Next
    <2>1. PICK t \in Thread : Writing(t) \/ Windows(t) \/ Draining(t) \/ Moving(t)
      BY <1>2 DEF Next
    <2>2. CASE Writing(t)
      BY <2>2, SetItemAlone, EventAlone, WriteEndsAlone DEF Writing
    <2>3. CASE Windows(t)
      BY <2>3, WindowsAlone
    <2>4. CASE Draining(t)
      BY <2>4, StartsAlone, ResetsAlone DEF Draining
    <2>5. CASE Moving(t)
      BY <2>5, StartsAlone, WindowsAlone, DetachAlone, AttachAlone, FeedAlone, FedAlone,
         AssignAlone DEF Moving
    <2> QED BY <2>1, <2>2, <2>3, <2>4, <2>5
  <1> QED BY <1>1, <1>2

\* While no write has run beside another operation, what a page has read and
\* what its view holds are together what its views captured, in the order of
\* the writes, across drains, logins, swaps, freezes and wakes
\* (spa/legacy_bag.py, drain; genropy_register.py, change_connection_user;
\* genropy_worker.py, _install_carried_store).
THEOREM ReadingIsWhole == Spec => []ReadWholeAndInOrder
  <1>1. Init => AloneInv
    BY AloneInvInit
  <1>2. ViewInv /\ OnceInv /\ AloneInv /\ [Next]_vars => AloneInv'
    BY AloneInvNext
  <1>3. ViewInv /\ AloneInv => ReadWholeAndInOrder
    <2> SUFFICES ASSUME ViewInv, AloneInv, ~overlapped, NEW p \in Viewing
                 PROVE  LET read == delivered[p] \o View(p).changes
                        IN  captured[p] = ToSet(read) /\ \A i, j \in DOMAIN read : i < j => read[i] < read[j]
      BY DEF ReadWholeAndInOrder
    <2>1. Shape /\ p \in Page /\ rows[p].user_view \in DOMAIN collectors
      BY DEF ViewInv, Shape, Viewing
    <2>2. delivered[p] \in Seq(Nat) /\ View(p).changes \in Seq(Nat)
      BY <2>1, Numbers DEF View
    <2>3. Whole(captured[p], delivered[p], View(p).changes)
      BY DEF AloneInv, Alone
    <2>4. Whole(captured[p], delivered[p] \o View(p).changes, <<>>)
      BY <2>2, <2>3, WholeDrained
    <2> QED BY <2>4, SetOfNone DEF Whole, Rising
  <1> QED BY <1>1, <1>2, <1>3, ViewInvariant, OnceInvariant, PTL DEF Spec
=============================================================================
