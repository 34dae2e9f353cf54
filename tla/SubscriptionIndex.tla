------------------------- MODULE SubscriptionIndex -------------------------
(***************************************************************************)
(* The table-subscription index of spa/subscription_index.py: "which pages *)
(* want this table" and "which tables does this page want" held together   *)
(* and moved by three primitives.  A Python dict of sets is a function     *)
(* whose DOMAIN is the dict's key set: a missing key and an empty set are  *)
(* different values here, as they are there.                               *)
(*                                                                         *)
(* The module holds the two maps and the primitives as action fragments;   *)
(* IndexCalls drives them on their own, DeliveryDesk as the commander does.*)
(***************************************************************************)
EXTENDS Integers, FiniteSets

CONSTANTS Page,   \* page ids
          Table   \* database tables

VARIABLES table_pages,  \* table -> the pages subscribed to it
          page_tables   \* page  -> the tables it subscribed

indexVars == <<table_pages, page_tables>>

\* dict.get(key, ()) as a set: a missing key reads as the empty set.
GetSet(dict, key) == IF key \in DOMAIN dict THEN dict[key] ELSE {}

\* setdefault(key, set()) then add, for every key in keys.
Linked(dict, keys, items) ==
    [k \in DOMAIN dict \cup keys |->
        IF k \in keys THEN GetSet(dict, k) \cup items ELSE dict[k]]

\* discard, then delete the key whose set is left empty, for every key in keys.
Unlinked(dict, keys, items) ==
    [k \in {j \in DOMAIN dict : j \in keys => dict[j] \ items # {}} |->
        IF k \in keys THEN dict[k] \ items ELSE dict[k]]

pages_for(t) == GetSet(table_pages, t)
tables_for(p) == GetSet(page_tables, p)

\* Every table with at least one subscriber: the workers' source filter.
subscribed_tables == DOMAIN table_pages
-----------------------------------------------------------------------------
IndexInit ==
    /\ table_pages = [t \in {} |-> {}]
    /\ page_tables = [p \in {} |-> {}]

\* What subscribe answers: some table key is created by this call.
Creates(tables) == tables \ DOMAIN table_pages # {}

\* What unsubscribe and drop_page answer: some table key is deleted by it.
Deletes(pages, tables) ==
    \E t \in tables \cap DOMAIN table_pages : table_pages[t] \ pages = {}

\* subscribe, once for every table of a set.
subscribe(p, tables) ==
    /\ table_pages' = Linked(table_pages, tables, {p})
    /\ page_tables' = Linked(page_tables, {q \in {p} : tables # {}}, tables)

\* Faulty variant: only the fan-out direction is cleaned.
ForgetOneSide(pages, tables) ==
    /\ table_pages' = Unlinked(table_pages, tables, pages)
    /\ page_tables' = page_tables

\* _forget, once for every page and table of two sets.
forget(pages, tables) ==
    /\ table_pages' = Unlinked(table_pages, tables, pages)
    /\ page_tables' = Unlinked(page_tables, pages, tables)

unsubscribe(p, t) == forget({p}, {t})

\* The tables some of these pages want: what drop_page walks.
TablesOf(pages) == UNION {tables_for(p) : p \in pages}

\* Faulty variant: `dropped or self._forget(...)`, which stops forgetting
\* after the first table whose last subscriber was dropped.
DropShortCircuit(pages) ==
    \/ /\ ~Deletes(pages, TablesOf(pages))
       /\ forget(pages, TablesOf(pages))
    \/ \E t \in TablesOf(pages) : Deletes(pages, {t}) /\ forget(pages, {t})

\* drop_page, for one page or for the pages of one connection in one breath.
index_drop_pages(pages) == forget(pages, TablesOf(pages))
-----------------------------------------------------------------------------
(* The two maps always describe one relation, and neither keeps an empty set. *)

IndexTypeOK ==
    /\ DOMAIN table_pages \subseteq Table
    /\ DOMAIN page_tables \subseteq Page
    /\ table_pages \in [DOMAIN table_pages -> SUBSET Page]
    /\ page_tables \in [DOMAIN page_tables -> SUBSET Table]

MapsAgree ==
    \A p \in Page, t \in Table : p \in pages_for(t) <=> t \in tables_for(p)

NoEmptySet ==
    /\ \A t \in DOMAIN table_pages : table_pages[t] # {}
    /\ \A p \in DOMAIN page_tables : page_tables[p] # {}

\* The index's invariant: "there is no window in which one map knows
\* something the other does not", and "a missing key and an empty set are
\* never both possible".
IndexInv == IndexTypeOK /\ MapsAgree /\ NoEmptySet
=============================================================================
