-------------------------- MODULE GlobalStoreProofs --------------------------
(***************************************************************************)
(* The global store for any threads, keys, leaves and dates: the lock has  *)
(* one holder and the queue its waiters, and the dictionary as the site    *)
(* reads it moves by whole blocks, each operation of a block answered by   *)
(* what the ones before it have left.                                      *)
(***************************************************************************)
EXTENDS GlobalStore, WellFoundedInduction, SequenceTheorems, TLAPS
-----------------------------------------------------------------------------
(* The inductive invariant. *)

NaiveDate == {Date(c, "naive") : c \in Clock}
LocalDate == {Date(c, "local") : c \in Clock}

\* A Bag keeps its dates as the site wrote them; a date of the dictionary
\* carries its zone.
LeafMap == UNION {[L -> NaiveDate] : L \in SUBSET Leaf}
BagValue == [kind : {"bag"}, leaves : LeafMap]
Value == LocalDate \cup BagValue
Dict == UNION {[K -> Value] : K \in SUBSET Key}

\* A dictionary as the site reads it.
View(d) == [k \in DOMAIN d |-> legacy_value(d[k])]

Entry == [op : Op, answer : NaiveDate \cup BagValue \cup {Default}]

LeafOp == {op \in Op : op.name # "get" /\ Len(op.path) = 2}

Waiting == [pc : {"waiting"}, op : Op \cup {WithBlock}]
Keyed == [pc : {"keyed"}, op : LeafOp, exists : BOOLEAN, value : Value \cup {Default}]
Turn == [kind : {"turn"}, value : Dict, log : Seq(Entry)]

Shape ==
    /\ master \in Dict
    /\ queue \in Seq(Thread)
    /\ holder \in Thread \cup {NoThread}
    /\ call \in [Thread -> {Idle} \cup Waiting \cup Keyed]
    /\ turn \in [Thread -> {NoTurn} \cup Turn]
    /\ \A t \in Thread : turn[t] # NoTurn => call[t] = Idle /\ Len(turn[t].log) <= MaxBlock

\* The dictionaries the operations of a block pass through, from d.
Passes(d, ops) ==
    LET after[i \in 0..Len(ops)] == IF i = 0 THEN d ELSE Atomic!Effect(ops[i], after[i - 1])
    IN  after

Ops(log) == [i \in DOMAIN log |-> log[i].op]

\* The log is of a block that began with d and is at e, each entry answered by
\* the dictionary its operation found.
Ran(d, log, e) ==
    /\ Passes(d, Ops(log))[Len(log)] = e
    /\ \A i \in DOMAIN log : log[i].answer = Atomic!Answer(log[i].op, Passes(d, Ops(log))[i - 1])

\* What a keyed turn read is still the value of its key.
KeyedIsFresh ==
    \A t \in Thread : call[t].pc = "keyed" =>
        LET k == call[t].op.path[1]
        IN  /\ call[t].exists <=> k \in DOMAIN master
            /\ call[t].exists => call[t].value = master[k]

\* The private copy of a block is what its log makes of the dictionary as it
\* still is.
TurnIsFresh ==
    \A t \in Thread : turn[t] # NoTurn => Ran(View(master), turn[t].log, View(turn[t].value))

StoreInv == Shape /\ TypeOK /\ KeyedIsFresh /\ TurnIsFresh
-----------------------------------------------------------------------------
(* Induction and the run of a block. *)

\* A set of naturals that has 0 and the successor of each of its members is all
\* of them: the form of induction used here, on a set instead of a predicate.
LEMMA NaturalsFrom ==
    ASSUME NEW S, 0 \in S, \A n \in S \cap Nat : n + 1 \in S
    PROVE  \A n \in Nat : n \in S
  <1> DEFINE R == {ss \in Nat \X Nat : ss[1] < ss[2]}
             T == {n \in Nat : n \notin S}
  <1>1. IsWellFoundedOn(R, Nat)
    BY NatLessThanWellFounded DEF OpToRel
  <1>2. SUFFICES ASSUME T # {} PROVE FALSE
    OBVIOUS
  <1>3. T \subseteq Nat
    OBVIOUS
  <1>4. PICK x \in T : \A y \in T : <<y, x>> \notin R
    <2> HIDE DEF R, T
    <2> QED BY <1>1, <1>2, <1>3, WFMin
  <1>5. x \in Nat /\ x # 0 /\ x \notin S
    OBVIOUS
  <1>6. x - 1 \in Nat /\ (x - 1) + 1 = x
    BY <1>5
  <1>7. x - 1 \notin T
    <2>1. <<x - 1, x>> \in R
      BY <1>5, <1>6
    <2> QED BY <1>4, <2>1
  <1>8. x - 1 \in S \cap Nat
    BY <1>6, <1>7
  <1> QED BY <1>5, <1>6, <1>8

\* after is what a block of these operations passes through, up to its last.
Pass(after, d, ops, size) ==
    after = [i \in 0..size |-> IF i = 0 THEN d ELSE Atomic!Effect(ops[i], after[i - 1])]

\* A block can be run for any number of operations.
LEMMA PassRuns ==
    ASSUME NEW d, NEW ops, NEW size \in Nat
    PROVE  \E after : Pass(after, d, ops, size)
  <1> DEFINE S == {n \in Nat : \E after : Pass(after, d, ops, n)}
  <1>1. 0 \in S
    <2> DEFINE f == [n \in 0..0 |-> d]
    <2>1. Pass(f, d, ops, 0)
      BY DEF Pass
    <2> QED BY <2>1
  <1>2. ASSUME NEW n \in S \cap Nat
        PROVE  n + 1 \in S
    <2>1. PICK f : Pass(f, d, ops, n)
      OBVIOUS
    <2> DEFINE g == [k \in 0..(n + 1) |->
                        IF k = n + 1 THEN Atomic!Effect(ops[n + 1], f[n]) ELSE f[k]]
               h == [k \in 0..(n + 1) |->
                        IF k = 0 THEN d ELSE Atomic!Effect(ops[k], g[k - 1])]
    <2>2. ASSUME NEW k \in 0..(n + 1)
          PROVE  g[k] = h[k]
      <3>1. CASE k = 0
        <4>1. f[0] = d
          BY <2>1 DEF Pass
        <4> QED BY <3>1, <4>1
      <3>2. CASE k = n + 1
        <4>1. k - 1 = n /\ k # 0 /\ n \in 0..(n + 1) /\ n # n + 1
          BY <3>2
        <4> QED BY <3>2, <4>1
      <3>3. CASE k # 0 /\ k # n + 1
        <4>1. k \in 0..n /\ k - 1 \in 0..n /\ k - 1 \in 0..(n + 1) /\ k - 1 # n + 1
          BY <3>3
        <4>2. f[k] = Atomic!Effect(ops[k], f[k - 1])
          BY <2>1, <3>3, <4>1 DEF Pass
        <4> QED BY <3>3, <4>1, <4>2
      <3> QED BY <3>1, <3>2, <3>3
    <2>3. g = h
      BY <2>2
    <2>4. Pass(g, d, ops, n + 1)
      BY <2>3 DEF Pass
    <2> QED BY <2>4
  <1>3. size \in S
    <2> HIDE DEF S
    <2> QED BY <1>1, <1>2, NaturalsFrom
  <1> QED BY <1>3

\* Two runs of the same operations agree as far as the shorter goes.
LEMMA PassAgrees ==
    ASSUME NEW d, NEW f, NEW ops, NEW m \in Nat, Pass(f, d, ops, m),
           NEW g, NEW more, NEW n \in Nat, Pass(g, d, more, n),
           m <= n, \A i \in 1..m : ops[i] = more[i]
    PROVE  \A i \in 0..m : f[i] = g[i]
  <1> DEFINE S == {i \in Nat : i <= m => f[i] = g[i]}
  <1>1. 0 \in S
    <2>1. 0 \in 0..m /\ 0 \in 0..n
      OBVIOUS
    <2>2. f[0] = d
      BY <2>1 DEF Pass
    <2>3. g[0] = d
      BY <2>1 DEF Pass
    <2> QED BY <2>2, <2>3
  <1>2. ASSUME NEW i \in S \cap Nat
        PROVE  i + 1 \in S
    <2> SUFFICES ASSUME i + 1 <= m PROVE f[i + 1] = g[i + 1]
      OBVIOUS
    <2>1. i + 1 \in 0..m /\ i + 1 \in 0..n /\ i + 1 # 0 /\ (i + 1) - 1 = i /\ i + 1 \in 1..m
      OBVIOUS
    <2>2. f[i + 1] = Atomic!Effect(ops[i + 1], f[i])
      BY <2>1 DEF Pass
    <2>3. g[i + 1] = Atomic!Effect(more[i + 1], g[i])
      BY <2>1 DEF Pass
    <2>4. f[i] = g[i]
      OBVIOUS
    <2> QED BY <2>1, <2>2, <2>3, <2>4
  <1>3. \A i \in Nat : i \in S
    <2> HIDE DEF S
    <2> QED BY <1>1, <1>2, NaturalsFrom
  <1> QED BY <1>3

\* Passes is such a run.
LEMMA PassesIsRun ==
    ASSUME NEW d, NEW ops, Len(ops) \in Nat
    PROVE  Pass(Passes(d, ops), d, ops, Len(ops))
  <1> DEFINE g == CHOOSE after : Pass(after, d, ops, Len(ops))
  <1>1. Pass(g, d, ops, Len(ops))
    BY PassRuns
  <1>2. Passes(d, ops) = g
    BY DEF Passes, Pass
  <1> QED BY <1>1, <1>2

\* One more operation is one more step of the run.
LEMMA PassesAppend ==
    ASSUME NEW d, NEW S, NEW ops \in Seq(S), NEW op \in S
    PROVE  /\ \A i \in 0..Len(ops) : Passes(d, Append(ops, op))[i] = Passes(d, ops)[i]
           /\ Passes(d, Append(ops, op))[Len(ops) + 1] = Atomic!Effect(op, Passes(d, ops)[Len(ops)])
  <1> DEFINE more == Append(ops, op)
             f == Passes(d, ops)
             g == Passes(d, more)
             n == Len(ops)
  <1>1. /\ more \in Seq(S) /\ n \in Nat /\ Len(more) = n + 1
        /\ \A i \in 1..n : more[i] = ops[i]
        /\ more[n + 1] = op
    BY AppendProperties, LenProperties
  <1>2. Pass(f, d, ops, n) /\ Pass(g, d, more, n + 1)
    <2>1. Len(more) \in Nat
      BY <1>1
    <2> QED BY <1>1, <2>1, PassesIsRun
  <1> HIDE DEF f, g, more, n
  <1>3. \A i \in 0..n : f[i] = g[i]
    BY <1>1, <1>2, PassAgrees
  <1>4. g[n + 1] = Atomic!Effect(more[n + 1], g[n])
    <2>1. n + 1 \in 0..(n + 1) /\ n + 1 # 0 /\ (n + 1) - 1 = n
      BY <1>1
    <2> QED BY <1>2, <2>1 DEF Pass
  <1>5. n \in 0..n
    BY <1>1
  <1> QED BY <1>1, <1>3, <1>4, <1>5 DEF f, g, more, n
-----------------------------------------------------------------------------
(* Values, dictionaries and the site's view of them. *)

LEMMA LeafMapMoves ==
    ASSUME NEW f \in LeafMap
    PROVE  /\ \A l \in Leaf, v \in NaiveDate : With(f, l, v) \in LeafMap
           /\ \A l : Without(f, l) \in LeafMap
           /\ [l \in {} |-> 0] \in LeafMap
           /\ f \in [DOMAIN f -> NaiveDate] /\ DOMAIN f \subseteq Leaf
  <1>1. PICK L \in SUBSET Leaf : f \in [L -> NaiveDate]
    BY DEF LeafMap
  <1>2. ASSUME NEW l \in Leaf, NEW v \in NaiveDate
        PROVE  With(f, l, v) \in LeafMap
    <2>1. With(f, l, v) \in [L \cup {l} -> NaiveDate]
      BY <1>1 DEF With
    <2>2. L \cup {l} \in SUBSET Leaf
      OBVIOUS
    <2> QED BY <2>1, <2>2 DEF LeafMap
  <1>3. ASSUME NEW l
        PROVE  Without(f, l) \in LeafMap
    <2>1. Without(f, l) \in [L \ {l} -> NaiveDate]
      BY <1>1 DEF Without
    <2>2. L \ {l} \in SUBSET Leaf
      OBVIOUS
    <2> QED BY <2>1, <2>2 DEF LeafMap
  <1>4. [l \in {} |-> 0] \in LeafMap
    <2>1. [l \in {} |-> 0] \in [{} -> NaiveDate]
      OBVIOUS
    <2>2. {} \in SUBSET Leaf
      OBVIOUS
    <2> QED BY <2>1, <2>2 DEF LeafMap
  <1> QED BY <1>1, <1>2, <1>3, <1>4

LEMMA DictMoves ==
    ASSUME NEW d \in Dict
    PROVE  /\ \A k \in Key, v \in Value : With(d, k, v) \in Dict
           /\ \A k : Without(d, k) \in Dict
           /\ d \in [DOMAIN d -> Value] /\ DOMAIN d \subseteq Key
  <1>1. PICK K \in SUBSET Key : d \in [K -> Value]
    BY DEF Dict
  <1>2. ASSUME NEW k \in Key, NEW v \in Value
        PROVE  With(d, k, v) \in Dict
    <2>1. With(d, k, v) \in [K \cup {k} -> Value]
      BY <1>1 DEF With
    <2>2. K \cup {k} \in SUBSET Key
      OBVIOUS
    <2> QED BY <2>1, <2>2 DEF Dict
  <1>3. ASSUME NEW k
        PROVE  Without(d, k) \in Dict
    <2>1. Without(d, k) \in [K \ {k} -> Value]
      BY <1>1 DEF Without
    <2>2. K \ {k} \in SUBSET Key
      OBVIOUS
    <2> QED BY <2>1, <2>2 DEF Dict
  <1> QED BY <1>1, <1>2, <1>3

LEMMA EmptyDict == [k \in {} |-> 0] \in Dict
  <1>1. [k \in {} |-> 0] \in [{} -> Value]
    OBVIOUS
  <1>2. {} \in SUBSET Key
    OBVIOUS
  <1> QED BY <1>1, <1>2 DEF Dict

\* A date of the site crosses the boundary and comes back with its clock.
LEMMA DateBoundary ==
    ASSUME NEW v \in NaiveDate
    PROVE  /\ legacy_date(v) = v /\ legacy_value(v) = v
           /\ wire_value(v) \in LocalDate
           /\ legacy_value(wire_value(v)) = v
           /\ OverTheWire(wire_value(v)) = wire_value(v)
           /\ ~IsBag(v)
  <1>1. PICK c \in Clock : v = Date(c, "naive")
    BY DEF NaiveDate
  <1>2. /\ v.kind = "date" /\ v.zone = "naive" /\ v.clock = c
    BY <1>1 DEF Date
  <1>3. wire_value(v) = Date(c, "local")
    BY <1>2 DEF wire_value
  <1>4. /\ Date(c, "local").kind = "date" /\ Date(c, "local").zone = "local"
        /\ Date(c, "local").clock = c
    BY DEF Date
  <1>5. legacy_date(v) = v /\ ~IsBag(v)
    BY <1>2 DEF legacy_date, IsBag
  <1>6. legacy_value(v) = v
    BY <1>5 DEF legacy_value
  <1>7. legacy_date(Date(c, "local")) = v
    BY <1>1, <1>4 DEF legacy_date
  <1>8. legacy_value(wire_value(v)) = v
    BY <1>3, <1>4, <1>7 DEF legacy_value, IsBag
  <1>9. OverTheWire(wire_value(v)) = wire_value(v)
    BY <1>3, <1>4 DEF OverTheWire
  <1> QED BY <1>3, <1>5, <1>6, <1>8, <1>9 DEF LocalDate

LEMMA BagBoundary ==
    ASSUME NEW v \in BagValue
    PROVE  /\ legacy_value(v) = v
           /\ IsBag(v)
           /\ v = [kind |-> "bag", leaves |-> v.leaves] /\ v.leaves \in LeafMap
           /\ wire_value(v) = v /\ OverTheWire(v) = v
  <1>1. /\ v = [kind |-> "bag", leaves |-> v.leaves] /\ v.leaves \in LeafMap
        /\ v.kind = "bag" /\ IsBag(v)
    BY DEF BagValue, IsBag
  <1>2. [l \in DOMAIN v.leaves |-> legacy_date(v.leaves[l])] = v.leaves
    <2>1. v.leaves \in [DOMAIN v.leaves -> NaiveDate]
      BY <1>1, LeafMapMoves
    <2>2. \A l \in DOMAIN v.leaves : legacy_date(v.leaves[l]) = v.leaves[l]
      BY <2>1, DateBoundary
    <2> QED BY <2>1, <2>2
  <1>3. legacy_value(v) = [v EXCEPT !.leaves = v.leaves]
    BY <1>1, <1>2 DEF legacy_value
  <1>4. [v EXCEPT !.leaves = v.leaves] = v
    BY <1>1
  <1>5. wire_value(v) = v /\ OverTheWire(v) = v
    BY <1>1 DEF wire_value, OverTheWire
  <1> QED BY <1>1, <1>3, <1>4, <1>5

\* What is published is what was in the dictionary, and the site tells a Bag
\* from a date.
LEMMA ValueBoundary ==
    ASSUME NEW v \in Value
    PROVE  /\ OverTheWire(wire_value(v)) = v
           /\ legacy_value(v) \in NaiveDate \cup BagValue
           /\ IsBag(v) <=> v \in BagValue
           /\ IsBag(legacy_value(v)) <=> IsBag(v)
           /\ IsBag(v) => legacy_value(v) = v
  <1>1. CASE v \in LocalDate
    <2>1. PICK c \in Clock : v = Date(c, "local")
      BY <1>1 DEF LocalDate
    <2>2. v.kind = "date" /\ v.zone = "local" /\ v.clock = c
      BY <2>1 DEF Date
    <2>3. ~IsBag(v) /\ v \notin BagValue
      BY <2>2 DEF IsBag, BagValue
    <2>4. legacy_value(v) = Date(c, "naive")
      BY <2>2, <2>3 DEF legacy_value, legacy_date
    <2>5. Date(c, "naive") \in NaiveDate
      BY DEF NaiveDate
    <2>6. OverTheWire(wire_value(v)) = v
      BY <2>2 DEF OverTheWire, wire_value
    <2> QED BY <2>3, <2>4, <2>5, <2>6, DateBoundary
  <1>2. CASE v \in BagValue
    BY <1>2, BagBoundary
  <1> QED BY <1>1, <1>2 DEF Value

LEMMA ViewWith ==
    ASSUME NEW d, NEW k, NEW v
    PROVE  View(With(d, k, v)) = Atomic!With(View(d), k, legacy_value(v))
  BY DEF View, With, Atomic!With

LEMMA ViewMoves ==
    ASSUME NEW d, NEW k
    PROVE  /\ View(Without(d, k)) = Atomic!Without(View(d), k)
           /\ DOMAIN View(d) = DOMAIN d
           /\ k \in DOMAIN d => View(d)[k] = legacy_value(d[k])
  BY DEF View, Without, Atomic!Without

LEMMA BagMoves ==
    ASSUME NEW v \in BagValue, NEW l \in Leaf
    PROVE  /\ \A x \in NaiveDate :
                 /\ [v EXCEPT !.leaves = With(@, l, x)] \in BagValue
                 /\ [v EXCEPT !.leaves = With(@, l, x)] = [v EXCEPT !.leaves = Atomic!With(@, l, x)]
           /\ [v EXCEPT !.leaves = Without(@, l)] \in BagValue
           /\ [v EXCEPT !.leaves = Without(@, l)] = [v EXCEPT !.leaves = Atomic!Without(@, l)]
           /\ l \notin DOMAIN v.leaves => [v EXCEPT !.leaves = Without(@, l)] = v
  <1>1. v = [kind |-> "bag", leaves |-> v.leaves] /\ v.leaves \in LeafMap
    BY BagBoundary
  <1>2. ASSUME NEW x \in NaiveDate
        PROVE  /\ [v EXCEPT !.leaves = With(@, l, x)] \in BagValue
               /\ [v EXCEPT !.leaves = With(@, l, x)] = [v EXCEPT !.leaves = Atomic!With(@, l, x)]
    <2>1. With(v.leaves, l, x) \in LeafMap
      BY <1>1, LeafMapMoves
    <2>2. With(v.leaves, l, x) = Atomic!With(v.leaves, l, x)
      BY DEF With, Atomic!With
    <2>3. [v EXCEPT !.leaves = With(@, l, x)] = [kind |-> "bag", leaves |-> With(v.leaves, l, x)]
      BY <1>1
    <2> QED BY <1>1, <2>1, <2>2, <2>3 DEF BagValue
  <1>3. Without(v.leaves, l) \in LeafMap /\ Without(v.leaves, l) = Atomic!Without(v.leaves, l)
    BY <1>1, LeafMapMoves DEF Without, Atomic!Without
  <1>4. [v EXCEPT !.leaves = Without(@, l)] = [kind |-> "bag", leaves |-> Without(v.leaves, l)]
    BY <1>1
  <1>5. l \notin DOMAIN v.leaves => Without(v.leaves, l) = v.leaves
    <2>1. v.leaves = [j \in DOMAIN v.leaves |-> v.leaves[j]]
      BY <1>1, LeafMapMoves
    <2>2. l \notin DOMAIN v.leaves => DOMAIN v.leaves \ {l} = DOMAIN v.leaves
      OBVIOUS
    <2> QED BY <2>1, <2>2 DEF Without
  <1> QED BY <1>1, <1>2, <1>3, <1>4, <1>5 DEF BagValue

LEMMA EmptyBagIsBag == EmptyBag \in BagValue /\ EmptyBag = Atomic!EmptyBag
  <1>1. [l \in {} |-> 0] \in LeafMap
    <2>1. [l \in {} |-> 0] \in [{} -> NaiveDate] /\ {} \in SUBSET Leaf
      OBVIOUS
    <2> QED BY <2>1 DEF LeafMap
  <1> QED BY <1>1 DEF EmptyBag, Atomic!EmptyBag, BagValue
-----------------------------------------------------------------------------
(* The operations, on the dictionary and on the site's view of it. *)

LEMMA PathFacts ==
    ASSUME NEW path \in Paths
    PROVE  /\ path[1] \in Key
           /\ \/ Len(path) = 1
              \/ Len(path) = 2 /\ path[2] \in Leaf
  <1>1. CASE \E k \in Key : path = <<k>>
    BY <1>1
  <1>2. CASE \E k \in Key, l \in Leaf : path = <<k, l>>
    BY <1>2
  <1> QED BY <1>1, <1>2 DEF Paths

LEMMA OpFacts ==
    ASSUME NEW op \in Op
    PROVE  /\ op.path \in Paths
           /\ op.name \in {"get", "set", "delete"}
           /\ op.name = "set" => op.value \in NaiveDate
  BY DEF Op, NaiveDate

\* The Bag a write on a leaf begins with.
LEMMA BagUnder ==
    ASSUME NEW d \in Dict, NEW k
    PROVE  LET bag == IF k \in DOMAIN d /\ IsBag(d[k]) THEN d[k] ELSE EmptyBag
               seen == IF k \in DOMAIN View(d) /\ Atomic!IsBag(View(d)[k]) THEN View(d)[k]
                       ELSE Atomic!EmptyBag
           IN  bag \in BagValue /\ seen = bag
  <1>1. CASE k \in DOMAIN d
    <2>1. d[k] \in Value
      BY <1>1, DictMoves
    <2>2. View(d)[k] = legacy_value(d[k]) /\ k \in DOMAIN View(d)
      BY <1>1, ViewMoves
    <2> QED BY <1>1, <2>1, <2>2, ValueBoundary, EmptyBagIsBag DEF IsBag, Atomic!IsBag
  <1>2. CASE k \notin DOMAIN d
    BY <1>2, ViewMoves, EmptyBagIsBag
  <1> QED BY <1>1, <1>2

\* A write moves the private copy as the abstract write moves the view.
LEMMA WriteMoves ==
    ASSUME NEW d \in Dict, NEW path \in Paths, NEW v \in NaiveDate
    PROVE  /\ WriteInto(d, path, v) \in Dict
           /\ View(WriteInto(d, path, v)) = Atomic!Written(View(d), path, v)
  <1>1. CASE Len(path) = 1
    <2>1. WriteInto(d, path, v) = With(d, path[1], wire_value(v))
      BY <1>1, DateBoundary DEF WriteInto
    <2>2. wire_value(v) \in Value /\ legacy_value(wire_value(v)) = v
      BY DateBoundary DEF Value
    <2>3. Atomic!Written(View(d), path, v) = Atomic!With(View(d), path[1], v)
      BY <1>1 DEF Atomic!Written
    <2>4. View(With(d, path[1], wire_value(v))) = Atomic!With(View(d), path[1], v)
      BY <2>2, ViewWith
    <2> QED BY <2>1, <2>2, <2>3, <2>4, DictMoves, PathFacts
  <1>2. CASE Len(path) = 2
    <2> DEFINE k == path[1]
               bag == IF k \in DOMAIN d /\ IsBag(d[k]) THEN d[k] ELSE EmptyBag
               new == [bag EXCEPT !.leaves = With(@, path[2], v)]
    <2>1. k \in Key /\ path[2] \in Leaf
      BY <1>2, PathFacts
    <2>2. bag \in BagValue
      BY BagUnder
    <2>3. WriteInto(d, path, v) = With(d, k, new)
      BY <1>2, DateBoundary DEF WriteInto
    <2>4. Atomic!Written(View(d), path, v)
            = Atomic!With(View(d), k, [bag EXCEPT !.leaves = Atomic!With(@, path[2], v)])
      BY <1>2, BagUnder DEF Atomic!Written
    <2> HIDE DEF bag
    <2>5. new \in BagValue
      BY <2>1, <2>2, BagMoves
    <2>6. With(bag.leaves, path[2], v) = Atomic!With(bag.leaves, path[2], v)
      BY DEF With, Atomic!With
    <2> HIDE DEF new
    <2>7. legacy_value(new) = new
      BY <2>5, BagBoundary
    <2>8. View(With(d, k, new)) = Atomic!With(View(d), k, new)
      BY <2>7, ViewWith
    <2>9. With(d, k, new) \in Dict
      BY <2>1, <2>5, DictMoves DEF Value
    <2> QED BY <2>3, <2>4, <2>6, <2>8, <2>9 DEF new
  <1> QED BY <1>1, <1>2, PathFacts

\* So does a delete.
LEMMA DeleteMoves ==
    ASSUME NEW d \in Dict, NEW path \in Paths
    PROVE  /\ DeleteFrom(d, path) \in Dict
           /\ View(DeleteFrom(d, path)) = Atomic!Deleted(View(d), path)
  <1>1. CASE Len(path) = 1
    BY <1>1, DictMoves, ViewMoves DEF DeleteFrom, Atomic!Deleted
  <1>2. CASE Len(path) = 2
    <2> DEFINE k == path[1]
               l == path[2]
    <2>1. k \in Key /\ l \in Leaf
      BY <1>2, PathFacts
    <2>2. DOMAIN View(d) = DOMAIN d
      BY ViewMoves
    <2>3. CASE ~(k \in DOMAIN d /\ IsBag(d[k]))
      <3>1. DeleteFrom(d, path) = d
        BY <1>2, <2>3 DEF DeleteFrom
      <3>2. ~(k \in DOMAIN View(d) /\ Atomic!IsBag(View(d)[k]))
        BY <2>2, <2>3, DictMoves, ViewMoves, ValueBoundary DEF IsBag, Atomic!IsBag
      <3>3. Atomic!Deleted(View(d), path) = View(d)
        BY <1>2, <3>2 DEF Atomic!Deleted, Atomic!HasLeaf
      <3> QED BY <3>1, <3>3
    <2>4. CASE k \in DOMAIN d /\ IsBag(d[k])
      <3> DEFINE bag == d[k]
                 new == [bag EXCEPT !.leaves = Without(@, l)]
      <3>1. bag \in BagValue /\ View(d)[k] = bag
        BY <2>4, DictMoves, ViewMoves, ValueBoundary
      <3>2. /\ new \in BagValue /\ legacy_value(new) = new
            /\ new = [bag EXCEPT !.leaves = Atomic!Without(@, l)]
            /\ l \notin DOMAIN bag.leaves => new = bag
        BY <2>1, <3>1, BagMoves, BagBoundary
      <3>3. DeleteFrom(d, path) = [d EXCEPT ![k] = new]
        BY <1>2, <2>4 DEF DeleteFrom
      <3>4. d \in [DOMAIN d -> Value]
        BY DictMoves
      <3>5. [d EXCEPT ![k] = new] = With(d, k, new)
        BY <2>4, <3>4 DEF With
      <3>6. [d EXCEPT ![k] = new] \in Dict
        BY <2>1, <3>2, <3>5, DictMoves DEF Value
      <3>7. View([d EXCEPT ![k] = new]) = [View(d) EXCEPT ![k] = new]
        BY <2>4, <3>2, <3>4 DEF View
      <3>8. CASE l \in DOMAIN bag.leaves
        <4>1. Atomic!HasLeaf(View(d), path)
          BY <2>2, <2>4, <3>1, <3>8 DEF Atomic!HasLeaf, IsBag, Atomic!IsBag
        <4>2. Atomic!Deleted(View(d), path)
                = [View(d) EXCEPT ![k].leaves = Atomic!Without(@, l)]
          BY <1>2, <4>1 DEF Atomic!Deleted
        <4>3. [View(d) EXCEPT ![k].leaves = Atomic!Without(@, l)] = [View(d) EXCEPT ![k] = new]
          BY <2>2, <2>4, <3>1, <3>2
        <4> QED BY <3>3, <3>6, <3>7, <4>2, <4>3
      <3>9. CASE l \notin DOMAIN bag.leaves
        <4>1. ~Atomic!HasLeaf(View(d), path)
          BY <3>1, <3>9 DEF Atomic!HasLeaf
        <4>2. Atomic!Deleted(View(d), path) = View(d)
          BY <1>2, <4>1 DEF Atomic!Deleted
        <4>3. [d EXCEPT ![k] = new] = d
          BY <2>4, <3>2, <3>4, <3>9
        <4> QED BY <3>3, <3>6, <4>2, <4>3
      <3> QED BY <3>8, <3>9
    <2> QED BY <2>3, <2>4
  <1> QED BY <1>1, <1>2, PathFacts

\* A read answers what the abstract read answers on the view.
LEMMA ReadAnswers ==
    ASSUME NEW d \in Dict, NEW op \in Op, op.name = "get"
    PROVE  /\ LegacyRead(d, op.path) = Atomic!Answer(op, View(d))
           /\ LegacyRead(d, op.path) \in NaiveDate \cup BagValue \cup {Default}
  <1> DEFINE path == op.path
             k == path[1]
  <1>0. path \in Paths /\ Default = Atomic!Nothing
    BY OpFacts DEF Default, Atomic!Nothing
  <1>1. DOMAIN View(d) = DOMAIN d
    BY ViewMoves
  <1>2. CASE k \notin DOMAIN d
    <2>1. LegacyRead(d, path) = Default
      BY <1>2 DEF LegacyRead
    <2>2. Atomic!Answer(op, View(d)) = Atomic!Nothing
      BY <1>1, <1>2 DEF Atomic!Answer, Atomic!HasLeaf
    <2> QED BY <1>0, <2>1, <2>2
  <1>3. CASE k \in DOMAIN d /\ Len(path) = 1
    <2>1. d[k] \in Value /\ View(d)[k] = legacy_value(d[k])
      BY <1>3, DictMoves, ViewMoves
    <2>2. LegacyRead(d, path) = legacy_value(d[k])
      BY <1>3 DEF LegacyRead
    <2>3. Atomic!Answer(op, View(d)) = View(d)[k]
      BY <1>1, <1>3 DEF Atomic!Answer
    <2> QED BY <2>1, <2>2, <2>3, ValueBoundary
  <1>4. CASE k \in DOMAIN d /\ Len(path) = 2
    <2>1. d[k] \in Value /\ View(d)[k] = legacy_value(d[k])
      BY <1>4, DictMoves, ViewMoves
    <2>2. CASE IsBag(d[k]) /\ path[2] \in DOMAIN d[k].leaves
      <3>1. d[k] \in BagValue /\ View(d)[k] = d[k]
        BY <2>1, <2>2, ValueBoundary
      <3>2. d[k].leaves[path[2]] \in NaiveDate
        BY <2>2, <3>1, BagBoundary, LeafMapMoves
      <3>3. LegacyRead(d, path) = d[k].leaves[path[2]]
        BY <1>4, <2>2, <3>2, DateBoundary DEF LegacyRead
      <3>4. Atomic!Answer(op, View(d)) = d[k].leaves[path[2]]
        BY <1>1, <1>4, <2>2, <3>1 DEF Atomic!Answer, Atomic!HasLeaf, IsBag, Atomic!IsBag
      <3> QED BY <3>2, <3>3, <3>4
    <2>3. CASE ~(IsBag(d[k]) /\ path[2] \in DOMAIN d[k].leaves)
      <3>1. LegacyRead(d, path) = Default
        BY <1>4, <2>3 DEF LegacyRead
      <3>2. ~Atomic!HasLeaf(View(d), path)
        BY <2>1, <2>3, ValueBoundary DEF Atomic!HasLeaf, IsBag, Atomic!IsBag
      <3>3. Atomic!Answer(op, View(d)) = Atomic!Nothing
        BY <1>4, <3>2 DEF Atomic!Answer
      <3> QED BY <1>0, <3>1, <3>3
    <2> QED BY <2>2, <2>3
  <1> QED BY <1>0, <1>2, <1>3, <1>4, PathFacts
-----------------------------------------------------------------------------
(* A block that took effect is a step of the abstract store. *)

\* What an operation makes of a dictionary, in a block or alone.
Moved(op, d) ==
    CASE op.name = "get" -> d
      [] op.name = "set" -> WriteInto(d, op.path, op.value)
      [] op.name = "delete" -> DeleteFrom(d, op.path)

AnswerOf(op, d) == IF op.name = "get" THEN LegacyRead(d, op.path) ELSE Default

LEMMA OperationMoves ==
    ASSUME NEW d \in Dict, NEW op \in Op
    PROVE  /\ Moved(op, d) \in Dict
           /\ View(Moved(op, d)) = Atomic!Effect(op, View(d))
           /\ AnswerOf(op, d) = Atomic!Answer(op, View(d))
           /\ [op |-> op, answer |-> AnswerOf(op, d)] \in Entry
  <1>1. op.path \in Paths /\ (op.name = "set" => op.value \in NaiveDate)
    BY OpFacts
  <1>2. CASE op.name = "get"
    BY <1>2, ReadAnswers DEF Moved, AnswerOf, Atomic!Effect, Entry
  <1>3. CASE op.name = "set"
    <2>1. Moved(op, d) = WriteInto(d, op.path, op.value)
      BY <1>3 DEF Moved
    <2>2. Atomic!Effect(op, View(d)) = Atomic!Written(View(d), op.path, op.value)
      BY <1>3 DEF Atomic!Effect
    <2>3. AnswerOf(op, d) = Default /\ Atomic!Answer(op, View(d)) = Default
      BY <1>3 DEF AnswerOf, Atomic!Answer, Default, Atomic!Nothing
    <2> QED BY <1>1, <1>3, <2>1, <2>2, <2>3, WriteMoves DEF Entry
  <1>4. CASE op.name = "delete"
    <2>1. Moved(op, d) = DeleteFrom(d, op.path)
      BY <1>4 DEF Moved
    <2>2. Atomic!Effect(op, View(d)) = Atomic!Deleted(View(d), op.path)
      BY <1>4 DEF Atomic!Effect
    <2>3. AnswerOf(op, d) = Default /\ Atomic!Answer(op, View(d)) = Default
      BY <1>4 DEF AnswerOf, Atomic!Answer, Default, Atomic!Nothing
    <2> QED BY <1>1, <1>4, <2>1, <2>2, <2>3, DeleteMoves DEF Entry
  <1> QED BY <1>2, <1>3, <1>4, OpFacts

LEMMA OpsOfLog ==
    ASSUME NEW log \in Seq(Entry)
    PROVE  /\ Ops(log) \in Seq(Op) /\ Len(Ops(log)) = Len(log)
           /\ \A i \in 1..Len(log) : Ops(log)[i] = log[i].op /\ log[i].op \in Op
           /\ DOMAIN log = 1..Len(log) /\ Len(log) \in Nat
           /\ \A e \in Entry : Ops(Append(log, e)) = Append(Ops(log), e.op)
  <1>1. DOMAIN log = 1..Len(log) /\ Len(log) \in Nat
    BY LenProperties
  <1>2. \A i \in 1..Len(log) : log[i] \in Entry /\ log[i].op \in Op
    <2>1. \A i \in 1..Len(log) : log[i] \in Entry
      BY ElementOfSeq
    <2> QED BY <2>1 DEF Entry
  <1>3. Ops(log) \in Seq(Op) /\ Len(Ops(log)) = Len(log)
    BY <1>1, <1>2 DEF Ops
  <1>4. ASSUME NEW e \in Entry
        PROVE  Ops(Append(log, e)) = Append(Ops(log), e.op)
    <2>1. e.op \in Op
      BY DEF Entry
    <2>2. Append(log, e) \in Seq(Entry) /\ Len(Append(log, e)) = Len(log) + 1
      BY AppendProperties
    <2>3. DOMAIN Append(log, e) = 1..(Len(log) + 1)
      BY <2>2, LenProperties
    <2>4. Append(Ops(log), e.op) \in Seq(Op) /\ Len(Append(Ops(log), e.op)) = Len(log) + 1
      BY <1>3, <2>1, AppendProperties
    <2>5. DOMAIN Append(Ops(log), e.op) = 1..(Len(log) + 1)
      BY <2>4, LenProperties
    <2>6. ASSUME NEW i \in 1..(Len(log) + 1)
          PROVE  Append(log, e)[i].op = Append(Ops(log), e.op)[i]
      <3>1. CASE i = Len(log) + 1
        BY <1>1, <1>3, <3>1, <2>1, AppendProperties
      <3>2. CASE i \in 1..Len(log)
        BY <1>1, <1>3, <3>2, <2>1, AppendProperties DEF Ops
      <3>3. i = Len(log) + 1 \/ i \in 1..Len(log)
        BY <1>1
      <3> QED BY <3>1, <3>2, <3>3
    <2>7. Append(Ops(log), e.op) = [i \in 1..(Len(log) + 1) |-> Append(Ops(log), e.op)[i]]
      BY <2>4, <2>5, LenProperties
    <2> QED BY <2>3, <2>6, <2>7 DEF Ops
  <1> QED BY <1>1, <1>2, <1>3, <1>4 DEF Ops

\* A block that has done nothing is where it began.
LEMMA RanEmpty ==
    ASSUME NEW d
    PROVE  Ran(d, <<>>, d)
  <1>1. Ops(<<>>) = <<>>
    BY DEF Ops
  <1>2. Pass(Passes(d, <<>>), d, <<>>, 0)
    BY PassesIsRun
  <1>3. Passes(d, <<>>)[0] = d
    <2>1. 0 \in 0..0
      OBVIOUS
    <2> QED BY <1>2, <2>1 DEF Pass
  <1> QED BY <1>1, <1>3 DEF Ran

\* One more operation of a block, answered by where the block is.
LEMMA RanAppend ==
    ASSUME NEW d, NEW log \in Seq(Entry), NEW e, Ran(d, log, e),
           NEW entry \in Entry, entry.answer = Atomic!Answer(entry.op, e)
    PROVE  Ran(d, Append(log, entry), Atomic!Effect(entry.op, e))
  <1> DEFINE more == Append(log, entry)
             n == Len(log)
             f == Passes(d, Ops(log))
             g == Passes(d, Ops(more))
  <1>1. /\ n \in Nat /\ DOMAIN log = 1..n /\ Ops(log) \in Seq(Op) /\ Len(Ops(log)) = n
        /\ Ops(more) = Append(Ops(log), entry.op) /\ entry.op \in Op
    BY OpsOfLog DEF Entry
  <1>2. (\A i \in 0..n : g[i] = f[i]) /\ g[n + 1] = Atomic!Effect(entry.op, f[n])
    BY <1>1, PassesAppend
  <1>3. /\ Len(more) = n + 1 /\ DOMAIN more = 1..(n + 1)
        /\ more[n + 1] = entry /\ \A i \in 1..n : more[i] = log[i]
    BY <1>1, AppendProperties, LenProperties
  <1>4. f[n] = e /\ \A i \in 1..n : log[i].answer = Atomic!Answer(log[i].op, f[i - 1])
    BY <1>1 DEF Ran
  <1> HIDE DEF f, g, more, n
  <1>5. ASSUME NEW i \in 1..(n + 1)
        PROVE  more[i].answer = Atomic!Answer(more[i].op, g[i - 1])
    <2>1. CASE i = n + 1
      <3>1. i - 1 = n /\ n \in 0..n
        BY <1>1, <2>1
      <3> QED BY <1>2, <1>3, <1>4, <2>1, <3>1
    <2>2. CASE i \in 1..n
      <3>1. i - 1 \in 0..n
        BY <1>1, <2>2
      <3> QED BY <1>2, <1>3, <1>4, <2>2, <3>1
    <2> QED BY <1>1, <2>1, <2>2
  <1>6. g[Len(more)] = Atomic!Effect(entry.op, e)
    BY <1>2, <1>3, <1>4
  <1> QED BY <1>3, <1>5, <1>6 DEF Ran, g, more

\* A block that ran takes effect in one step of the abstract store.
LEMMA BlockStep ==
    ASSUME NEW log \in Seq(Entry), Len(log) <= MaxBlock, last' = log,
           Ran(SiteView, log, SiteView')
    PROVE  Atomic!Next
  <1> DEFINE ops == [i \in DOMAIN last' |-> last'[i].op]
             f == Passes(SiteView, ops)
  <1>1. ops = Ops(log)
    BY DEF Ops
  <1>2. /\ Len(ops) = Len(log) /\ Len(log) \in Nat /\ DOMAIN ops = 1..Len(log)
        /\ DOMAIN log = 1..Len(log) /\ \A i \in 1..Len(log) : ops[i] = log[i].op /\ log[i].op \in Op
    BY <1>1, OpsOfLog
  <1>3. /\ f[Len(log)] = SiteView'
        /\ \A i \in DOMAIN log : log[i].answer = Atomic!Answer(log[i].op, f[i - 1])
    BY <1>1 DEF Ran
  <1>4. \A i \in 1..Len(log) : log[i] = [op |-> log[i].op, answer |-> log[i].answer]
    <2>1. \A i \in 1..Len(log) : log[i] \in Entry
      BY ElementOfSeq
    <2> QED BY <2>1 DEF Entry
  <1>5. log = [i \in 1..Len(log) |-> log[i]]
    BY LenProperties
  <1>6. log = [i \in DOMAIN ops |-> [op |-> ops[i], answer |-> Atomic!Answer(ops[i], f[i - 1])]]
    BY <1>2, <1>3, <1>4, <1>5
  <1>7. Atomic!Block(ops)
    BY <1>2, <1>3, <1>6 DEF Atomic!Block, Passes
  <1> QED BY <1>2, <1>7 DEF Atomic!Next

\* An operation alone is a block of one.
LEMMA OneStep ==
    ASSUME Shape, NEW op \in Op, master' = Moved(op, master), TookEffect(op, AnswerOf(op, master))
    PROVE  Atomic!Next
  <1> DEFINE entry == [op |-> op, answer |-> AnswerOf(op, master)]
  <1>1. master \in Dict
    BY DEF Shape
  <1>2. entry \in Entry /\ entry.answer = Atomic!Answer(entry.op, SiteView)
    BY <1>1, OperationMoves DEF SiteView, View
  <1>3. SiteView' = Atomic!Effect(entry.op, SiteView)
    BY <1>1, OperationMoves DEF SiteView, View
  <1>4. Append(<<>>, entry) = <<entry>> /\ <<>> \in Seq(Entry) /\ <<entry>> \in Seq(Entry)
    BY <1>2
  <1>5. last' = <<entry>>
    BY DEF TookEffect
  <1> HIDE DEF entry
  <1>6. Ran(SiteView, <<entry>>, SiteView')
    BY <1>2, <1>3, <1>4, RanEmpty, RanAppend
  <1>7. Len(<<entry>>) <= MaxBlock
    BY BlockAssumption
  <1> QED BY <1>4, <1>5, <1>6, <1>7, BlockStep
-----------------------------------------------------------------------------
(* The lock and its queue. *)

LockOK == \A t \in Thread : (call[t].pc = "keyed" \/ turn[t] # NoTurn) <=> holder = t

QueueOK ==
    /\ \A t \in Thread : call[t].pc = "waiting" <=> \E i \in DOMAIN queue : queue[i] = t
    /\ \A i, j \in DOMAIN queue : queue[i] = queue[j] => i = j

LEMMA TypeParts == TypeOK <=> DOMAIN master \subseteq Key /\ LockOK /\ QueueOK
  BY DEF TypeOK, LockOK, QueueOK

\* What a thread is in, by its pc.
LEMMA CallFacts ==
    ASSUME Shape, NEW t \in Thread
    PROVE  /\ call[t].pc \in {"idle", "waiting", "keyed"}
           /\ call[t].pc = "idle" <=> call[t] = Idle
           /\ call[t].pc = "waiting" => call[t].op \in Op \cup {WithBlock}
           /\ call[t].pc = "keyed" => call[t] \in Keyed
  <1>1. call[t] \in {Idle} \cup Waiting \cup Keyed
    BY DEF Shape
  <1> QED BY <1>1 DEF Idle, Waiting, Keyed

LEMMA FreeLock ==
    ASSUME LockOK, holder = NoThread
    PROVE  \A s \in Thread : call[s].pc # "keyed" /\ turn[s] = NoTurn
  BY NoThreadAssumption DEF LockOK

LEMMA OneTurn ==
    ASSUME LockOK, NEW t \in Thread, call[t].pc = "keyed" \/ turn[t] # NoTurn
    PROVE  /\ holder = t
           /\ \A s \in Thread : s # t => call[s].pc # "keyed" /\ turn[s] = NoTurn
  BY DEF LockOK

LEMMA QueueStays ==
    ASSUME QueueOK, queue' = queue,
           \A s \in Thread : call'[s].pc = "waiting" <=> call[s].pc = "waiting"
    PROVE  QueueOK'
  BY DEF QueueOK

\* A thread joins at the end.
LEMMA QueueJoined ==
    ASSUME QueueOK, queue \in Seq(Thread), NEW t \in Thread, call[t].pc # "waiting",
           queue' = Append(queue, t), call'[t].pc = "waiting",
           \A s \in Thread : s # t => call'[s] = call[s]
    PROVE  QueueOK' /\ queue' \in Seq(Thread)
  <1>1. /\ queue' \in Seq(Thread) /\ Len(queue) \in Nat /\ Len(queue') = Len(queue) + 1
        /\ DOMAIN queue = 1..Len(queue) /\ DOMAIN queue' = 1..(Len(queue) + 1)
        /\ queue'[Len(queue) + 1] = t /\ \A i \in 1..Len(queue) : queue'[i] = queue[i]
    BY AppendProperties, LenProperties
  <1>2. \A i \in DOMAIN queue : queue[i] # t
    BY DEF QueueOK
  <1>3. \A i \in DOMAIN queue' : i = Len(queue) + 1 \/ i \in DOMAIN queue
    BY <1>1
  <1>4. \A i \in DOMAIN queue : i \in DOMAIN queue'
    BY <1>1
  <1>5. Len(queue) + 1 \in DOMAIN queue'
    BY <1>1
  <1>6. ASSUME NEW s \in Thread
        PROVE  call'[s].pc = "waiting" <=> \E i \in DOMAIN queue' : queue'[i] = s
    <2>1. CASE s = t
      BY <1>1, <1>5, <2>1
    <2>2. CASE s # t
      BY <1>1, <1>3, <1>4, <2>2 DEF QueueOK
    <2> QED BY <2>1, <2>2
  <1>7. ASSUME NEW i \in DOMAIN queue', NEW j \in DOMAIN queue', queue'[i] = queue'[j]
        PROVE  i = j
    BY <1>1, <1>2, <1>3, <1>7 DEF QueueOK
  <1> QED BY <1>1, <1>6, <1>7 DEF QueueOK

\* A thread leaves its place, the first or another.
LEMMA QueueLeft ==
    ASSUME QueueOK, queue \in Seq(Thread), NEW t \in Thread, NEW n \in DOMAIN queue, queue[n] = t,
           queue' \in Seq(Thread), Len(queue') = Len(queue) - 1,
           \A i \in 1..Len(queue) - 1 : queue'[i] = IF i < n THEN queue[i] ELSE queue[i + 1],
           call'[t].pc # "waiting", \A s \in Thread : s # t => call'[s] = call[s]
    PROVE  QueueOK'
  <1>1. /\ Len(queue) \in Nat /\ DOMAIN queue = 1..Len(queue)
        /\ DOMAIN queue' = 1..(Len(queue) - 1)
    BY LenProperties
  <1>2. n \in 1..Len(queue)
    BY <1>1
  <1> DEFINE old(i) == IF i < n THEN i ELSE i + 1
  <1>3. ASSUME NEW i \in DOMAIN queue'
        PROVE  old(i) \in DOMAIN queue /\ old(i) # n /\ queue'[i] = queue[old(i)]
    BY <1>1, <1>2
  <1>4. ASSUME NEW j \in DOMAIN queue, j # n
        PROVE  \E i \in DOMAIN queue' : old(i) = j
    <2>1. CASE j < n
      <3>1. j \in DOMAIN queue'
        BY <1>1, <1>2, <2>1
      <3> QED BY <2>1, <3>1
    <2>2. CASE j > n
      <3>1. j - 1 \in DOMAIN queue' /\ ~(j - 1 < n) /\ (j - 1) + 1 = j
        BY <1>1, <1>2, <2>2
      <3> QED BY <3>1
    <2> QED BY <1>1, <1>2, <1>4, <2>1, <2>2
  <1>5. ASSUME NEW i \in DOMAIN queue', NEW j \in DOMAIN queue', queue'[i] = queue'[j]
        PROVE  i = j
    <2>1. old(i) = old(j)
      BY <1>3, <1>5 DEF QueueOK
    <2>2. i \in Int /\ j \in Int
      BY <1>1
    <2> QED BY <1>1, <1>2, <2>1, <2>2
  <1>6. ASSUME NEW s \in Thread
        PROVE  call'[s].pc = "waiting" <=> \E i \in DOMAIN queue' : queue'[i] = s
    <2>1. CASE s = t
      <3>1. ASSUME NEW i \in DOMAIN queue'
            PROVE  queue'[i] # t
        <4> HIDE DEF old
        <4> QED BY <1>3 DEF QueueOK
      <3> QED BY <2>1, <3>1
    <2>2. CASE s # t
      <3>1. call'[s].pc = "waiting" <=> \E j \in DOMAIN queue : queue[j] = s
        BY <2>2 DEF QueueOK
      <3>2. (\E j \in DOMAIN queue : queue[j] = s) => \E i \in DOMAIN queue' : queue'[i] = s
        <4> HIDE DEF old
        <4> QED BY <1>3, <1>4, <2>2
      <3>3. (\E i \in DOMAIN queue' : queue'[i] = s) => \E j \in DOMAIN queue : queue[j] = s
        <4> HIDE DEF old
        <4> QED BY <1>3
      <3> QED BY <3>1, <3>2, <3>3
    <2> QED BY <2>1, <2>2
  <1> QED BY <1>5, <1>6 DEF QueueOK

\* The first of the queue is served.
LEMMA QueueServed ==
    ASSUME Shape, QueueOK, NEW t \in Thread, HasLock(t), queue' = Tail(queue),
           call'[t].pc # "waiting", \A s \in Thread : s # t => call'[s] = call[s]
    PROVE  QueueOK' /\ queue' \in Seq(Thread)
  <1>1. queue \in Seq(Thread)
    BY DEF Shape
  <1>2. queue # <<>>
    BY DEF HasLock, QueueOK
  <1>3. /\ queue' \in Seq(Thread) /\ Len(queue') = Len(queue) - 1
        /\ \A i \in 1..Len(queue) - 1 : queue'[i] = queue[i + 1]
    BY <1>1, <1>2, HeadTailProperties
  <1>4. Len(queue) \in Nat \ {0} /\ DOMAIN queue = 1..Len(queue) /\ queue[1] = t
    BY <1>1, <1>2, EmptySeq, LenProperties DEF HasLock
  <1>5. 1 \in DOMAIN queue /\ \A i \in 1..Len(queue) - 1 : ~(i < 1)
    BY <1>4
  <1>6. \A i \in 1..Len(queue) - 1 : queue'[i] = IF i < 1 THEN queue[i] ELSE queue[i + 1]
    BY <1>3, <1>5
  <1> QED BY <1>1, <1>3, <1>4, <1>5, <1>6, QueueLeft

LEMMA QueueDropped ==
    ASSUME Shape, QueueOK, NEW t \in Thread, NEW n \in DOMAIN queue, queue[n] = t,
           queue' = SubSeq(queue, 1, n - 1) \o SubSeq(queue, n + 1, Len(queue)),
           call'[t].pc # "waiting", \A s \in Thread : s # t => call'[s] = call[s]
    PROVE  QueueOK' /\ queue' \in Seq(Thread)
  <1> DEFINE a == SubSeq(queue, 1, n - 1)
             b == SubSeq(queue, n + 1, Len(queue))
  <1>1. /\ queue \in Seq(Thread) /\ Len(queue) \in Nat /\ DOMAIN queue = 1..Len(queue)
        /\ n \in 1..Len(queue)
    BY LenProperties DEF Shape
  <1>2. \A i \in 1..Len(queue) : queue[i] \in Thread
    BY <1>1, ElementOfSeq
  <1>3. /\ a \in Seq(Thread) /\ Len(a) = n - 1 /\ \A i \in 1..n - 1 : a[i] = queue[i]
    <2>1. \A i \in 1..n - 1 : queue[i] \in Thread
      BY <1>1, <1>2
    <2>2. 1 \in Int /\ n - 1 \in Int
      BY <1>1
    <2>3. /\ a \in Seq(Thread) /\ Len(a) = IF 1 <= n - 1 THEN (n - 1) - 1 + 1 ELSE 0
          /\ \A i \in 1..(n - 1) - 1 + 1 : a[i] = queue[1 + i - 1]
      BY <2>1, <2>2, SubSeqProperties
    <2> HIDE DEF a
    <2> QED BY <1>1, <2>3
  <1>4. /\ b \in Seq(Thread) /\ Len(b) = Len(queue) - n
        /\ \A i \in 1..Len(queue) - n : b[i] = queue[n + i]
    <2>1. \A i \in n + 1..Len(queue) : queue[i] \in Thread
      BY <1>1, <1>2
    <2>2. n + 1 \in Int /\ Len(queue) \in Int
      BY <1>1
    <2>3. /\ b \in Seq(Thread)
          /\ Len(b) = IF n + 1 <= Len(queue) THEN Len(queue) - (n + 1) + 1 ELSE 0
          /\ \A i \in 1..Len(queue) - (n + 1) + 1 : b[i] = queue[(n + 1) + i - 1]
      BY <2>1, <2>2, SubSeqProperties
    <2> HIDE DEF b
    <2>4. \A i \in 1..Len(queue) - n : (n + 1) + i - 1 = n + i /\ i \in 1..Len(queue) - (n + 1) + 1
      BY <1>1
    <2>5. Len(b) = Len(queue) - n
      BY <1>1, <2>3
    <2> QED BY <2>3, <2>4, <2>5
  <1> HIDE DEF a, b
  <1>5. queue' = a \o b
    BY DEF a, b
  <1>6. /\ queue' \in Seq(Thread) /\ Len(queue') = Len(a) + Len(b)
        /\ \A i \in 1..Len(a) + Len(b) : queue'[i] = IF i <= Len(a) THEN a[i] ELSE b[i - Len(a)]
    <2>1. a \in Seq(Thread) /\ b \in Seq(Thread)
      BY <1>3, <1>4
    <2>2. /\ a \o b \in Seq(Thread) /\ Len(a \o b) = Len(a) + Len(b)
          /\ \A i \in 1..Len(a) + Len(b) :
                (a \o b)[i] = IF i <= Len(a) THEN a[i] ELSE b[i - Len(a)]
      BY <2>1, ConcatProperties
    <2> QED BY <1>5, <2>2, Zenon
  <1>7. Len(queue') = Len(queue) - 1 /\ Len(a) + Len(b) = Len(queue) - 1
    <2>1. Len(a) + Len(b) = Len(queue) - 1
      BY <1>1, <1>3, <1>4
    <2> QED BY <1>6, <2>1
  <1>8. ASSUME NEW i \in 1..Len(queue) - 1
        PROVE  queue'[i] = IF i < n THEN queue[i] ELSE queue[i + 1]
    <2>1. CASE i < n
      <3>1. i <= Len(a) /\ i \in 1..n - 1
        BY <1>1, <1>3, <2>1
      <3> QED BY <1>3, <1>6, <1>7, <2>1, <3>1
    <2>2. CASE ~(i < n)
      <3>1. /\ ~(i <= Len(a)) /\ i - Len(a) \in 1..Len(queue) - n
            /\ n + (i - Len(a)) = i + 1
        BY <1>1, <1>3, <2>2
      <3> QED BY <1>4, <1>6, <1>7, <2>2, <3>1
    <2> QED BY <2>1, <2>2
  <1> QED BY <1>1, <1>6, <1>7, <1>8, QueueLeft
-----------------------------------------------------------------------------
(* The steps. *)

\* A dictionary that does not move keeps what was read of it fresh.
LEMMA FreshStays ==
    ASSUME KeyedIsFresh, TurnIsFresh, master' = master,
           \A s \in Thread : call'[s].pc = "keyed" => call'[s] = call[s],
           \A s \in Thread : turn'[s] # NoTurn => turn'[s] = turn[s]
    PROVE  KeyedIsFresh' /\ TurnIsFresh'
  <1>1. KeyedIsFresh'
    BY DEF KeyedIsFresh
  <1>2. TurnIsFresh'
    BY DEF TurnIsFresh
  <1> QED BY <1>1, <1>2

\* Nor is anything stale when nobody has read.
LEMMA FreshAlone ==
    ASSUME \A s \in Thread : call'[s].pc # "keyed" /\ turn'[s] = NoTurn
    PROVE  KeyedIsFresh' /\ TurnIsFresh'
  <1>1. KeyedIsFresh'
    BY DEF KeyedIsFresh
  <1>2. TurnIsFresh'
    BY DEF TurnIsFresh
  <1> QED BY <1>1, <1>2

\* The invariant and the refinement, in one statement for each action.
Keeps == StoreInv' /\ [Atomic!Next]_(<<SiteView, last>>)

LEMMA Stutters ==
    ASSUME master' = master, last' = last
    PROVE  [Atomic!Next]_(<<SiteView, last>>)
  <1>1. SiteView' = SiteView
    BY DEF SiteView
  <1> QED BY <1>1

LEMMA AskStep ==
    ASSUME StoreInv, NEW t \in Thread, NEW op \in Op \cup {WithBlock}, Ask(t, op)
    PROVE  Keeps
  <1>0. Shape /\ LockOK /\ QueueOK /\ KeyedIsFresh /\ TurnIsFresh /\ DOMAIN master \subseteq Key
    BY TypeParts DEF StoreInv
  <1>1. /\ call[t] = Idle /\ turn[t] = NoTurn
        /\ call' = [call EXCEPT ![t] = [pc |-> "waiting", op |-> op]]
        /\ queue' = Append(queue, t) /\ UNCHANGED <<master, holder, turn, last>>
    BY DEF Ask
  <1>2. /\ call'[t] = [pc |-> "waiting", op |-> op] /\ call'[t] \in Waiting
        /\ call'[t].pc = "waiting" /\ \A s \in Thread : s # t => call'[s] = call[s]
    BY <1>0, <1>1 DEF Shape, Waiting
  <1>3. call[t].pc = "idle"
    BY <1>1 DEF Idle
  <1>4. queue \in Seq(Thread)
    BY <1>0 DEF Shape
  <1>5. QueueOK' /\ queue' \in Seq(Thread)
    BY <1>0, <1>1, <1>2, <1>3, <1>4, QueueJoined
  <1>6. Shape'
    BY <1>0, <1>1, <1>2, <1>5 DEF Shape
  <1>7. LockOK'
    BY <1>0, <1>1, <1>2, <1>3 DEF LockOK
  <1>8. KeyedIsFresh' /\ TurnIsFresh'
    BY <1>0, <1>1, <1>2, FreshStays
  <1>9. TypeOK'
    BY <1>0, <1>1, <1>5, <1>7 DEF TypeOK, LockOK, QueueOK
  <1>10. [Atomic!Next]_(<<SiteView, last>>)
    BY <1>1, Stutters
  <1> QED BY <1>6, <1>8, <1>9, <1>10 DEF Keeps, StoreInv

LEMMA AskFailsStep ==
    ASSUME StoreInv, NEW t \in Thread, AskFails(t)
    PROVE  Keeps
  <1>0. Shape /\ LockOK /\ QueueOK /\ KeyedIsFresh /\ TurnIsFresh /\ DOMAIN master \subseteq Key
    BY TypeParts DEF StoreInv
  <1>1. /\ call[t].pc = "waiting" /\ call' = [call EXCEPT ![t] = Idle]
        /\ UNCHANGED <<master, holder, turn, last>>
    BY DEF AskFails
  <1>2. PICK n \in DOMAIN queue :
            /\ queue[n] = t
            /\ queue' = SubSeq(queue, 1, n - 1) \o SubSeq(queue, n + 1, Len(queue))
    BY DEF AskFails
  <1>3. /\ call'[t] = Idle /\ call'[t].pc = "idle"
        /\ \A s \in Thread : s # t => call'[s] = call[s]
    BY <1>0, <1>1 DEF Shape, Idle
  <1>5. QueueOK' /\ queue' \in Seq(Thread)
    BY <1>0, <1>2, <1>3, QueueDropped
  <1>6. Shape'
    BY <1>0, <1>1, <1>3, <1>5 DEF Shape
  <1>7. LockOK'
    BY <1>0, <1>1, <1>3 DEF LockOK
  <1>8. KeyedIsFresh' /\ TurnIsFresh'
    BY <1>0, <1>1, <1>3, FreshStays
  <1>9. TypeOK'
    BY <1>0, <1>1, <1>5, <1>7 DEF TypeOK, LockOK, QueueOK
  <1>10. [Atomic!Next]_(<<SiteView, last>>)
    BY <1>1, Stutters
  <1> QED BY <1>6, <1>8, <1>9, <1>10 DEF Keeps, StoreInv

LEMMA ServeWholeStep ==
    ASSUME StoreInv, NEW t \in Thread, ServeWhole(t)
    PROVE  Keeps
  <1> DEFINE op == call[t].op
  <1>0. Shape /\ LockOK /\ QueueOK /\ master \in Dict
    BY TypeParts DEF StoreInv, Shape
  <1>1. /\ HasLock(t) /\ call[t].pc = "waiting" /\ holder = NoThread /\ ~NeedsTurn(op)
        /\ queue' = Tail(queue) /\ call' = [call EXCEPT ![t] = Idle]
        /\ UNCHANGED <<holder, turn>>
    BY DEF ServeWhole, HasLock
  <1>2. op \in Op /\ (op.name = "get" \/ Len(op.path) = 1)
    <2>1. op \in Op \cup {WithBlock}
      BY <1>0, <1>1, CallFacts
    <2>2. op.name # "with" /\ (op.name = "get" \/ Len(op.path) # 2)
      BY <1>1 DEF NeedsTurn
    <2>3. op \in Op
      BY <2>1, <2>2 DEF WithBlock
    <2> QED BY <2>2, <2>3, OpFacts, PathFacts
  <1>3. master' = Moved(op, master)
    <2>1. CASE op.name = "get"
      BY <2>1 DEF ServeWhole, Moved
    <2>2. CASE op.name = "set"
      <3>1. op.value \in NaiveDate /\ Len(op.path) = 1
        BY <1>2, <2>2, OpFacts
      <3>2. master' = With(master, op.path[1], wire_value(op.value))
        BY <2>2, <3>1, DateBoundary DEF ServeWhole
      <3>3. Moved(op, master) = With(master, op.path[1], wire_value(op.value))
        BY <2>2, <3>1, DateBoundary DEF Moved, WriteInto
      <3> QED BY <3>2, <3>3
    <2>3. CASE op.name = "delete"
      BY <1>2, <2>3 DEF ServeWhole, Moved, DeleteFrom
    <2> QED BY <1>2, <2>1, <2>2, <2>3, OpFacts
  <1>4. TookEffect(op, AnswerOf(op, master))
    BY DEF ServeWhole, AnswerOf
  <1>5. Atomic!Next
    BY <1>0, <1>2, <1>3, <1>4, OneStep
  <1>6. /\ call'[t] = Idle /\ call'[t].pc = "idle"
        /\ \A s \in Thread : s # t => call'[s] = call[s]
    BY <1>0, <1>1 DEF Shape, Idle
  <1>7. QueueOK' /\ queue' \in Seq(Thread)
    BY <1>0, <1>1, <1>6, QueueServed
  <1>8. \A s \in Thread : call'[s].pc # "keyed" /\ turn'[s] = NoTurn
    BY <1>0, <1>1, <1>6, FreeLock
  <1>9. master' \in Dict /\ DOMAIN master' \subseteq Key
    BY <1>0, <1>2, <1>3, OperationMoves, DictMoves
  <1>10. Shape'
    BY <1>0, <1>1, <1>6, <1>7, <1>9 DEF Shape
  <1>11. LockOK'
    BY <1>1, <1>8, NoThreadAssumption DEF LockOK
  <1>12. TypeOK'
    BY <1>7, <1>9, <1>11 DEF TypeOK, LockOK, QueueOK
  <1> QED BY <1>5, <1>8, <1>10, <1>12, FreshAlone DEF Keeps, StoreInv

LEMMA KeyedTurnStep ==
    ASSUME StoreInv, NEW t \in Thread, KeyedTurn(t)
    PROVE  Keeps
  <1> DEFINE op == call[t].op
             k == op.path[1]
             new == [pc |-> "keyed", op |-> op, exists |-> k \in DOMAIN master,
                     value |-> IF k \in DOMAIN master THEN master[k] ELSE Default]
  <1>0. Shape /\ LockOK /\ QueueOK /\ master \in Dict /\ DOMAIN master \subseteq Key
    BY TypeParts DEF StoreInv, Shape
  <1>1. /\ HasLock(t) /\ call[t].pc = "waiting" /\ holder = NoThread
        /\ op.name # "with" /\ NeedsTurn(op)
        /\ holder' = t /\ call' = [call EXCEPT ![t] = new]
        /\ queue' = Tail(queue) /\ UNCHANGED <<master, turn, last>>
    BY DEF KeyedTurn, HasLock
  <1>2. op \in LeafOp
    <2>1. op \in Op \cup {WithBlock}
      BY <1>0, <1>1, CallFacts
    <2> QED BY <1>1, <2>1 DEF LeafOp, NeedsTurn, WithBlock
  <1>3. new \in Keyed
    <2>1. (IF k \in DOMAIN master THEN master[k] ELSE Default) \in Value \cup {Default}
      BY <1>0, DictMoves
    <2>2. (k \in DOMAIN master) \in BOOLEAN
      OBVIOUS
    <2> HIDE DEF k, op
    <2> QED BY <1>2, <2>1, <2>2 DEF Keyed
  <1>4. new.pc = "keyed" /\ new.op = op /\ (new.exists <=> k \in DOMAIN master)
            /\ (new.exists => new.value = master[k])
    OBVIOUS
  <1> HIDE DEF new
  <1>6. call'[t] = new /\ \A s \in Thread : s # t => call'[s] = call[s]
    BY <1>0, <1>1 DEF Shape
  <1>7. QueueOK' /\ queue' \in Seq(Thread)
    BY <1>0, <1>1, <1>4, <1>6, QueueServed
  <1>8. \A s \in Thread : call[s].pc # "keyed" /\ turn[s] = NoTurn
    BY <1>0, <1>1, FreeLock
  <1>9. Shape'
    BY <1>0, <1>1, <1>3, <1>6, <1>7, <1>8 DEF Shape
  <1>10. LockOK'
    BY <1>1, <1>4, <1>6, <1>8 DEF LockOK
  <1>11. TypeOK'
    BY <1>0, <1>1, <1>7, <1>10 DEF TypeOK, LockOK, QueueOK
  <1>12. KeyedIsFresh'
    BY <1>1, <1>4, <1>6, <1>8 DEF KeyedIsFresh
  <1>13. TurnIsFresh'
    BY <1>1, <1>8 DEF TurnIsFresh
  <1>14. [Atomic!Next]_(<<SiteView, last>>)
    BY <1>1, Stutters
  <1> QED BY <1>9, <1>11, <1>12, <1>13, <1>14 DEF Keeps, StoreInv

\* The end of a keyed turn that changed the dictionary.
LEMMA KeyedEnds ==
    ASSUME StoreInv, NEW t \in Thread, call[t].pc = "keyed",
           master' = Moved(call[t].op, master), TookEffect(call[t].op, Default),
           Releases(t), call' = [call EXCEPT ![t] = Idle], UNCHANGED <<queue, turn>>
    PROVE  Keeps
  <1> DEFINE op == call[t].op
  <1>0. Shape /\ LockOK /\ QueueOK /\ master \in Dict
    BY TypeParts DEF StoreInv, Shape
  <1>1. holder = t /\ \A s \in Thread : s # t => call[s].pc # "keyed" /\ turn[s] = NoTurn
    BY <1>0, OneTurn
  <1>2. op \in Op /\ op.name # "get"
    BY <1>0, CallFacts DEF Keyed, LeafOp
  <1>3. TookEffect(op, AnswerOf(op, master))
    BY <1>2 DEF AnswerOf
  <1>4. Atomic!Next
    BY <1>0, <1>2, <1>3, OneStep
  <1>5. /\ call'[t] = Idle /\ call'[t].pc = "idle"
        /\ \A s \in Thread : s # t => call'[s] = call[s]
    BY <1>0 DEF Shape, Idle
  <1>6. turn[t] = NoTurn
    BY <1>0 DEF Shape, Idle
  <1>7. \A s \in Thread : call'[s].pc # "keyed" /\ turn'[s] = NoTurn
    BY <1>1, <1>5, <1>6
  <1>8. holder' = NoThread
    BY <1>1 DEF Releases
  <1>9. master' \in Dict /\ DOMAIN master' \subseteq Key
    BY <1>0, <1>2, OperationMoves, DictMoves
  <1>10. Shape'
    BY <1>0, <1>5, <1>7, <1>8, <1>9 DEF Shape
  <1>11. LockOK'
    BY <1>7, <1>8, NoThreadAssumption DEF LockOK
  <1>12. QueueOK'
    BY <1>0, <1>5, QueueStays
  <1>13. TypeOK'
    BY <1>9, <1>11, <1>12 DEF TypeOK, LockOK, QueueOK
  <1> QED BY <1>4, <1>7, <1>10, <1>13, FreshAlone DEF Keeps, StoreInv

\* What a keyed turn holds of its key.
LEMMA KeyedHolds ==
    ASSUME StoreInv, NEW t \in Thread, call[t].pc = "keyed"
    PROVE  LET k == call[t].op.path[1]
           IN  /\ call[t].op \in Op /\ Len(call[t].op.path) = 2
               /\ HasBag(call[t]) <=> k \in DOMAIN master /\ IsBag(master[k])
               /\ HasBag(call[t]) => call[t].value = master[k]
  <1>1. call[t] \in Keyed
    BY CallFacts DEF StoreInv
  <1> QED BY <1>1 DEF StoreInv, KeyedIsFresh, HasBag, Keyed, LeafOp

LEMMA KeyedSetStep ==
    ASSUME StoreInv, NEW t \in Thread, KeyedSet(t)
    PROVE  Keeps
  <1> DEFINE op == call[t].op
             k == op.path[1]
             bag == IF HasBag(call[t]) THEN call[t].value ELSE EmptyBag
             found == IF k \in DOMAIN master /\ IsBag(master[k]) THEN master[k] ELSE EmptyBag
  <1>1. /\ call[t].pc = "keyed" /\ op.name = "set"
        /\ master' = With(master, k, [bag EXCEPT !.leaves = With(@, op.path[2], op.value)])
        /\ TookEffect(op, Default)
        /\ Releases(t) /\ call' = [call EXCEPT ![t] = Idle] /\ UNCHANGED <<queue, turn>>
    BY DEF KeyedSet
  <1>2. bag = found /\ Len(op.path) = 2 /\ op \in Op
    BY <1>1, KeyedHolds
  <1>3. op.value \in NaiveDate
    BY <1>1, <1>2, OpFacts
  <1>4. Moved(op, master) = With(master, k, [found EXCEPT !.leaves = With(@, op.path[2], op.value)])
    <2>1. Moved(op, master) = WriteInto(master, op.path, op.value)
      BY <1>1 DEF Moved
    <2>2. legacy_value(op.value) = op.value
      BY <1>3, DateBoundary
    <2> QED BY <1>2, <2>1, <2>2 DEF WriteInto
  <1>5. master' = Moved(op, master)
    <2> HIDE DEF bag, found
    <2> QED BY <1>1, <1>2, <1>4
  <1> QED BY <1>1, <1>5, KeyedEnds

LEMMA KeyedDeleteStep ==
    ASSUME StoreInv, NEW t \in Thread, KeyedDelete(t)
    PROVE  Keeps
  <1> DEFINE op == call[t].op
             k == op.path[1]
  <1>1. /\ call[t].pc = "keyed" /\ op.name = "delete"
        /\ master' = IF HasBag(call[t])
                     THEN With(master, k, [call[t].value EXCEPT !.leaves = Without(@, op.path[2])])
                     ELSE master
        /\ TookEffect(op, Default)
        /\ Releases(t) /\ call' = [call EXCEPT ![t] = Idle] /\ UNCHANGED <<queue, turn>>
    BY DEF KeyedDelete
  <1>2. /\ Len(op.path) = 2
        /\ HasBag(call[t]) <=> k \in DOMAIN master /\ IsBag(master[k])
        /\ HasBag(call[t]) => call[t].value = master[k]
    BY <1>1, KeyedHolds
  <1>3. Moved(op, master) = DeleteFrom(master, op.path)
    BY <1>1 DEF Moved
  <1>4. CASE ~HasBag(call[t])
    <2>1. master' = Moved(op, master)
      BY <1>1, <1>2, <1>3, <1>4 DEF DeleteFrom
    <2> QED BY <1>1, <2>1, KeyedEnds
  <1>5. CASE HasBag(call[t])
    <2> DEFINE new == [master[k] EXCEPT !.leaves = Without(@, op.path[2])]
    <2>1. master' = With(master, k, new)
      BY <1>1, <1>2, <1>5
    <2>2. DeleteFrom(master, op.path) = [master EXCEPT ![k] = new]
      BY <1>2, <1>5 DEF DeleteFrom
    <2>3. master \in [DOMAIN master -> Value]
      BY DictMoves DEF StoreInv, Shape
    <2> HIDE DEF new
    <2>4. [master EXCEPT ![k] = new] = With(master, k, new)
      BY <1>2, <1>5, <2>3 DEF With
    <2>5. master' = Moved(op, master)
      BY <1>3, <2>1, <2>2, <2>4
    <2> QED BY <1>1, <2>5, KeyedEnds
  <1> QED BY <1>4, <1>5

LEMMA KeyedFailsStep ==
    ASSUME StoreInv, NEW t \in Thread, KeyedFails(t)
    PROVE  Keeps
  <1>0. Shape /\ LockOK /\ QueueOK /\ KeyedIsFresh /\ TurnIsFresh /\ DOMAIN master \subseteq Key
    BY TypeParts DEF StoreInv
  <1>1. /\ call[t].pc = "keyed" /\ Releases(t) /\ call' = [call EXCEPT ![t] = Idle]
        /\ UNCHANGED <<master, queue, turn, last>>
    BY DEF KeyedFails
  <1>2. holder = t /\ \A s \in Thread : s # t => call[s].pc # "keyed" /\ turn[s] = NoTurn
    BY <1>0, <1>1, OneTurn
  <1>3. /\ call'[t] = Idle /\ call'[t].pc = "idle" /\ turn[t] = NoTurn
        /\ \A s \in Thread : s # t => call'[s] = call[s]
    BY <1>0, <1>1 DEF Shape, Idle
  <1>4. holder' = NoThread
    BY <1>1, <1>2 DEF Releases
  <1>5. Shape'
    BY <1>0, <1>1, <1>3, <1>4 DEF Shape
  <1>6. LockOK'
    BY <1>1, <1>2, <1>3, <1>4, NoThreadAssumption DEF LockOK
  <1>7. QueueOK'
    BY <1>0, <1>1, <1>3, QueueStays
  <1>8. KeyedIsFresh' /\ TurnIsFresh'
    BY <1>0, <1>1, <1>3, FreshStays
  <1>9. TypeOK'
    BY <1>0, <1>1, <1>6, <1>7 DEF TypeOK, LockOK, QueueOK
  <1>10. [Atomic!Next]_(<<SiteView, last>>)
    BY <1>1, Stutters
  <1> QED BY <1>5, <1>8, <1>9, <1>10 DEF Keeps, StoreInv

LEMMA OpenTurnStep ==
    ASSUME StoreInv, NEW t \in Thread, open_turn(t)
    PROVE  Keeps
  <1> DEFINE new == [kind |-> "turn", value |-> master, log |-> <<>>]
  <1>0. Shape /\ LockOK /\ QueueOK /\ master \in Dict /\ DOMAIN master \subseteq Key
    BY TypeParts DEF StoreInv, Shape
  <1>1. /\ HasLock(t) /\ call[t].pc = "waiting" /\ holder = NoThread /\ holder' = t
        /\ turn' = [turn EXCEPT ![t] = new] /\ queue' = Tail(queue)
        /\ call' = [call EXCEPT ![t] = Idle] /\ UNCHANGED <<master, last>>
    BY DEF open_turn, HasLock
  <1>2. /\ new \in Turn /\ new # NoTurn /\ new.log = <<>> /\ new.value = master
        /\ Len(new.log) <= MaxBlock
    <2>1. <<>> \in Seq(Entry) /\ Len(<<>>) = 0
      BY EmptySeq
    <2>2. new \in Turn /\ new # NoTurn
      BY <1>0, <2>1 DEF Turn, NoTurn
    <2>3. 0 <= MaxBlock
      BY BlockAssumption
    <2> QED BY <2>1, <2>2, <2>3
  <1> HIDE DEF new
  <1>3. /\ call'[t] = Idle /\ call'[t].pc = "idle" /\ turn'[t] = new
        /\ \A s \in Thread : s # t => call'[s] = call[s] /\ turn'[s] = turn[s]
    BY <1>0, <1>1 DEF Shape, Idle
  <1>4. \A s \in Thread : call[s].pc # "keyed" /\ turn[s] = NoTurn
    BY <1>0, <1>1, FreeLock
  <1>5. QueueOK' /\ queue' \in Seq(Thread)
    BY <1>0, <1>1, <1>3, QueueServed
  <1>6. Shape'
    <2>1. call' \in [Thread -> {Idle} \cup Waiting \cup Keyed]
      BY <1>0, <1>1 DEF Shape
    <2>2. turn' \in [Thread -> {NoTurn} \cup Turn]
      BY <1>0, <1>1, <1>2 DEF Shape
    <2>3. \A s \in Thread : turn'[s] # NoTurn => call'[s] = Idle /\ Len(turn'[s].log) <= MaxBlock
      BY <1>2, <1>3, <1>4
    <2> QED BY <1>0, <1>1, <1>5, <2>1, <2>2, <2>3 DEF Shape
  <1>7. LockOK'
    BY <1>1, <1>2, <1>3, <1>4 DEF LockOK
  <1>8. TypeOK'
    BY <1>0, <1>1, <1>5, <1>7 DEF TypeOK, LockOK, QueueOK
  <1>9. KeyedIsFresh'
    BY <1>3, <1>4 DEF KeyedIsFresh
  <1>10. TurnIsFresh'
    BY <1>1, <1>2, <1>3, <1>4, RanEmpty DEF TurnIsFresh
  <1>11. [Atomic!Next]_(<<SiteView, last>>)
    BY <1>1, Stutters
  <1> QED BY <1>6, <1>8, <1>9, <1>10, <1>11 DEF Keeps, StoreInv

LEMMA TurnOpStep ==
    ASSUME StoreInv, NEW t \in Thread, NEW op \in Op, TurnOp(t, op)
    PROVE  Keeps
  <1> DEFINE content == turn[t].value
             log == turn[t].log
             entry == [op |-> op, answer |-> AnswerOf(op, content)]
             new == [kind |-> "turn", value |-> Moved(op, content), log |-> Append(log, entry)]
  <1>0. /\ Shape /\ LockOK /\ QueueOK /\ KeyedIsFresh /\ TurnIsFresh
        /\ DOMAIN master \subseteq Key
    BY TypeParts DEF StoreInv
  <1>1. /\ turn[t] # NoTurn /\ Len(log) < MaxBlock
        /\ turn' = [turn EXCEPT ![t] = new]
        /\ UNCHANGED <<master, queue, holder, call, last>>
    BY DEF TurnOp, Moved, AnswerOf
  <1>2. turn[t] \in Turn
    BY <1>0, <1>1 DEF Shape
  <1>3. /\ turn[t] = [kind |-> "turn", value |-> content, log |-> log]
        /\ content \in Dict /\ log \in Seq(Entry)
    BY <1>2 DEF Turn
  <1>4. /\ Moved(op, content) \in Dict /\ entry \in Entry
        /\ View(Moved(op, content)) = Atomic!Effect(op, View(content))
        /\ entry.answer = Atomic!Answer(entry.op, View(content)) /\ entry.op = op
    BY <1>3, OperationMoves
  <1> HIDE DEF entry
  <1>6. /\ Append(log, entry) \in Seq(Entry) /\ Len(Append(log, entry)) = Len(log) + 1
        /\ Len(log) \in Nat
    BY <1>3, <1>4, AppendProperties, LenProperties
  <1>7. /\ new \in Turn /\ new # NoTurn /\ new.value = Moved(op, content)
        /\ new.log = Append(log, entry) /\ Len(new.log) <= MaxBlock
    <2>1. new \in Turn /\ new # NoTurn
      BY <1>4, <1>6 DEF Turn, NoTurn
    <2>2. Len(Append(log, entry)) <= MaxBlock
      BY <1>1, <1>6, BlockAssumption
    <2> QED BY <2>1, <2>2
  <1>8. Ran(View(master), Append(log, entry), View(Moved(op, content)))
    <2>1. Ran(View(master), log, View(content))
      BY <1>0, <1>1 DEF TurnIsFresh
    <2> QED BY <1>3, <1>4, <2>1, RanAppend
  <1> HIDE DEF new, log, content
  <1>9. turn'[t] = new /\ \A s \in Thread : s # t => turn'[s] = turn[s]
    BY <1>0, <1>1 DEF Shape
  <1>10. Shape'
    <2>1. turn' \in [Thread -> {NoTurn} \cup Turn]
      BY <1>0, <1>1, <1>7 DEF Shape
    <2>2. \A s \in Thread : turn'[s] # NoTurn => call'[s] = Idle /\ Len(turn'[s].log) <= MaxBlock
      BY <1>0, <1>1, <1>7, <1>9 DEF Shape
    <2> QED BY <1>0, <1>1, <2>1, <2>2 DEF Shape
  <1>11. LockOK'
    BY <1>0, <1>1, <1>7, <1>9 DEF LockOK
  <1>12. TypeOK'
    BY <1>0, <1>1, <1>11 DEF TypeOK, LockOK, QueueOK
  <1>13. KeyedIsFresh'
    BY <1>0, <1>1 DEF KeyedIsFresh
  <1>14. TurnIsFresh'
    BY <1>0, <1>1, <1>7, <1>8, <1>9 DEF TurnIsFresh
  <1>15. [Atomic!Next]_(<<SiteView, last>>)
    BY <1>1, Stutters
  <1> QED BY <1>10, <1>12, <1>13, <1>14, <1>15 DEF Keeps, StoreInv

LEMMA CloseTurnStep ==
    ASSUME StoreInv, NEW t \in Thread, close_turn(t)
    PROVE  Keeps
  <1>0. /\ Shape /\ LockOK /\ QueueOK /\ KeyedIsFresh /\ TurnIsFresh
        /\ DOMAIN master \subseteq Key
    BY TypeParts DEF StoreInv
  <1>1. /\ turn[t] # NoTurn /\ turn' = [turn EXCEPT ![t] = NoTurn] /\ Releases(t)
        /\ UNCHANGED <<queue, call>>
    BY DEF close_turn
  <1>2. holder = t /\ \A s \in Thread : s # t => call[s].pc # "keyed" /\ turn[s] = NoTurn
    BY <1>0, <1>1, OneTurn
  <1>3. /\ turn'[t] = NoTurn /\ call[t] = Idle /\ call[t].pc = "idle"
        /\ \A s \in Thread : s # t => turn'[s] = turn[s]
    BY <1>0, <1>1 DEF Shape, Idle
  <1>4. holder' = NoThread
    BY <1>1, <1>2 DEF Releases
  <1>5. \A s \in Thread : call'[s].pc # "keyed" /\ turn'[s] = NoTurn
    BY <1>1, <1>2, <1>3
  <1>6. turn[t] \in Turn
    BY <1>0, <1>1 DEF Shape
  <1>7. turn[t].value \in Dict /\ turn[t].log \in Seq(Entry)
    BY <1>6 DEF Turn
  <1>8. master' \in Dict /\ [Atomic!Next]_(<<SiteView, last>>)
    <2>1. CASE UNCHANGED <<master, last>>
      BY <1>0, <2>1, Stutters DEF Shape
    <2>2. CASE /\ master' = [k \in DOMAIN turn[t].value |->
                                OverTheWire(wire_value(turn[t].value[k]))]
               /\ last' = turn[t].log
      <3>1. turn[t].value \in [DOMAIN turn[t].value -> Value]
        BY <1>7, DictMoves
      <3>2. \A k \in DOMAIN turn[t].value :
                OverTheWire(wire_value(turn[t].value[k])) = turn[t].value[k]
        BY <3>1, ValueBoundary
      <3>3. master' = turn[t].value
        BY <2>2, <3>1, <3>2
      <3>4. Ran(SiteView, turn[t].log, SiteView')
        <4>1. Ran(View(master), turn[t].log, View(turn[t].value))
          BY <1>0, <1>1 DEF TurnIsFresh
        <4>2. SiteView = View(master) /\ SiteView' = View(turn[t].value)
          BY <3>3 DEF SiteView, View
        <4> QED BY <4>1, <4>2
      <3>5. Len(turn[t].log) <= MaxBlock
        BY <1>0, <1>1 DEF Shape
      <3>6. Atomic!Next
        BY <1>7, <2>2, <3>4, <3>5, BlockStep
      <3> QED BY <1>7, <3>3, <3>6
    <2> QED BY <2>1, <2>2 DEF close_turn
  <1>9. DOMAIN master' \subseteq Key
    BY <1>8, DictMoves
  <1>10. Shape'
    <2>1. turn' \in [Thread -> {NoTurn} \cup Turn]
      BY <1>0, <1>1 DEF Shape
    <2> QED BY <1>0, <1>1, <1>4, <1>5, <1>8, <2>1 DEF Shape
  <1>11. LockOK'
    BY <1>4, <1>5, NoThreadAssumption DEF LockOK
  <1>12. QueueOK'
    BY <1>0, <1>1, QueueStays
  <1>13. TypeOK'
    BY <1>9, <1>11, <1>12 DEF TypeOK, LockOK, QueueOK
  <1> QED BY <1>5, <1>8, <1>10, <1>13, FreshAlone DEF Keeps, StoreInv
-----------------------------------------------------------------------------
(* The theorems. *)

LEMMA InitStore == Init => StoreInv
  <1> SUFFICES ASSUME Init PROVE StoreInv
    OBVIOUS
  <1>1. Shape
    BY EmptyDict DEF Init, Shape, NoThread
  <1>2. \A t \in Thread : call[t].pc = "idle" /\ turn[t] = NoTurn
    BY DEF Init, Idle
  <1>3. TypeOK
    BY <1>2, NoThreadAssumption DEF Init, TypeOK
  <1> QED BY <1>1, <1>2, <1>3 DEF StoreInv, KeyedIsFresh, TurnIsFresh

LEMMA StoreStep ==
    ASSUME StoreInv, [Next]_vars
    PROVE  Keeps
  <1>1. CASE UNCHANGED vars
    <2>1. StoreInv'
      BY <1>1 DEF vars, StoreInv, Shape, TypeOK, KeyedIsFresh, TurnIsFresh
    <2> QED BY <1>1, <2>1, Stutters DEF vars, Keeps
  <1>2. CASE Next
    BY <1>2, AskStep, AskFailsStep, TurnOpStep, ServeWholeStep, KeyedTurnStep, OpenTurnStep,
       KeyedSetStep, KeyedDeleteStep, KeyedFailsStep, CloseTurnStep DEF Next, Served
  <1> QED BY <1>1, <1>2

\* The invariant the theorems rest on: the lock has one holder and the queue
\* its waiters, and what the holder has read or rewritten, a key or a whole
\* private copy, is of the dictionary as it still is (global_store_adapter.py,
\* the keyed turns and open_turn/close_turn).
THEOREM StoreInvariant == Spec => []StoreInv
  <1>1. StoreInv /\ [Next]_vars => StoreInv'
    BY StoreStep DEF Keeps
  <1> QED BY <1>1, InitStore, PTL DEF Spec

\* At most one thread holds a turn, keyed or whole, and it is the one the lock
\* names; the queue holds exactly the threads that wait, once each, whatever
\* fails or gives up on the way (global_store_adapter.py, open_turn, close_turn
\* and the keyed turns).
THEOREM StoreTypeOK == Spec => []TypeOK
  <1>1. StoreInv => TypeOK
    BY DEF StoreInv
  <1> QED BY <1>1, StoreInvariant, PTL

\* The adapter implements the atomic store: for any threads, keys, leaves and
\* dates, every call and every block takes effect whole, alone and in one step,
\* answered accordingly, or not at all (global_store_adapter.py).
THEOREM StoreRefinement == Spec => ImplementsAtomicStore
  <1>1. Init => Atomic!Init
    BY DEF Init, Atomic!Init, SiteView
  <1>2. StoreInv /\ [Next]_vars => [Atomic!Next]_(<<SiteView, last>>)
    BY StoreStep DEF Keeps
  <1> QED BY <1>1, <1>2, StoreInvariant, PTL DEF Spec, ImplementsAtomicStore, Atomic!Spec
==============================================================================
