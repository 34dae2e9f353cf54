---------------------------- MODULE AtomicStore ----------------------------
(***************************************************************************)
(* What the site is promised of the global store: one dictionary, on which *)
(* a block of operations - a `with globalStore()`, or a single call - runs *)
(* whole and alone, each operation answered by what the ones before it     *)
(* have left.  A value is a date or a Bag of dates, as the site sees them. *)
(***************************************************************************)
EXTENDS Sequences, Integers

CONSTANTS Op,        \* the operations: [name, path, value]
          MaxBlock   \* bound: the operations of one block

VARIABLES dict,   \* key -> value
          last    \* the last block that took effect, with its answers

IsBag(value) == value.kind = "bag"
EmptyBag == [kind |-> "bag", leaves |-> [l \in {} |-> 0]]

With(f, k, v) == [j \in DOMAIN f \cup {k} |-> IF j = k THEN v ELSE f[j]]
Without(f, k) == [j \in DOMAIN f \ {k} |-> f[j]]

\* A path names a key, or a leaf of the Bag under it.
HasLeaf(d, path) ==
    path[1] \in DOMAIN d /\ IsBag(d[path[1]]) /\ path[2] \in DOMAIN d[path[1]].leaves

Written(d, path, value) ==
    IF Len(path) = 1 THEN With(d, path[1], value)
    ELSE LET bag == IF path[1] \in DOMAIN d /\ IsBag(d[path[1]]) THEN d[path[1]] ELSE EmptyBag
         IN  With(d, path[1], [bag EXCEPT !.leaves = With(@, path[2], value)])

Deleted(d, path) ==
    IF Len(path) = 1 THEN Without(d, path[1])
    ELSE IF HasLeaf(d, path) THEN [d EXCEPT ![path[1]].leaves = Without(@, path[2])]
    ELSE d

Effect(op, d) ==
    CASE op.name = "set" -> Written(d, op.path, op.value)
      [] op.name = "delete" -> Deleted(d, op.path)
      [] OTHER -> d

Nothing == [kind |-> "default"]

Answer(op, d) ==
    CASE op.name # "get" -> Nothing
      [] op.name = "get" /\ Len(op.path) = 1 -> IF op.path[1] \in DOMAIN d THEN d[op.path[1]] ELSE Nothing
      [] OTHER -> IF HasLeaf(d, op.path) THEN d[op.path[1]].leaves[op.path[2]] ELSE Nothing

Init == dict = [k \in {} |-> 0] /\ last = <<>>

\* The block of these operations, in one step.
Block(ops) ==
    LET after[i \in 0..Len(ops)] == IF i = 0 THEN dict ELSE Effect(ops[i], after[i - 1])
    IN  /\ dict' = after[Len(ops)]
        /\ last' = [i \in DOMAIN ops |-> [op |-> ops[i], answer |-> Answer(ops[i], after[i - 1])]]

\* Some block of the site's operations takes effect: the one `last` records.
Next ==
    LET ops == [i \in DOMAIN last' |-> last'[i].op]
    IN  /\ Len(ops) <= MaxBlock /\ \A i \in DOMAIN ops : ops[i] \in Op
        /\ Block(ops)

Spec == Init /\ [][Next]_<<dict, last>>
=============================================================================
