----------------------- MODULE SubscriptionIndexProofs -----------------------
(***************************************************************************)
(* The subscription index for any pages and tables: what its primitives do *)
(* to its invariant and to the set of subscribed tables, which every proof *)
(* about a user of the index rests on; the index as its one caller sees    *)
(* it; and the source filter, to which no transition of the set is lost,   *)
(* for any pool of workers and any interleaving of desk operations,        *)
(* births, deaths, push tasks and pushes in flight.                        *)
(***************************************************************************)
EXTENDS IndexCalls, SourceFilter, SequenceTheorems, TLAPS
-----------------------------------------------------------------------------
(* The primitives. *)

\* What one read of a linked map answers: the items joined the keys named,
\* and every other key answers what it did.
LEMMA LinkedGet ==
    ASSUME NEW dict, NEW keys, NEW items, NEW k
    PROVE  GetSet(Linked(dict, keys, items), k) =
             IF k \in keys THEN GetSet(dict, k) \cup items ELSE GetSet(dict, k)
  BY DEF GetSet, Linked

\* The same for an unlinked map: the key that vanished reads as empty.
LEMMA UnlinkedGet ==
    ASSUME NEW dict, NEW keys, NEW items, NEW k
    PROVE  GetSet(Unlinked(dict, keys, items), k) =
             IF k \in keys THEN GetSet(dict, k) \ items ELSE GetSet(dict, k)
  BY DEF GetSet, Unlinked

\* The fan-out read after a subscribe.
LEMMA PagesForSubscribed ==
    ASSUME NEW p \in Page, NEW tables \in SUBSET Table, NEW t \in Table,
           subscribe(p, tables)
    PROVE  pages_for(t)' =
             IF t \in tables THEN pages_for(t) \cup {p} ELSE pages_for(t)
  <1>1. pages_for(t)' = GetSet(table_pages', t)
    BY DEF pages_for, GetSet
  <1>2. GetSet(Linked(table_pages, tables, {p}), t) =
          IF t \in tables THEN GetSet(table_pages, t) \cup {p} ELSE GetSet(table_pages, t)
    BY DEF GetSet, Linked
  <1> QED BY <1>1, <1>2 DEF subscribe, pages_for

\* The fan-out read after a _forget.
LEMMA PagesForForgotten ==
    ASSUME NEW pages \in SUBSET Page, NEW tables \in SUBSET Table, NEW t \in Table,
           forget(pages, tables)
    PROVE  pages_for(t)' =
             IF t \in tables THEN pages_for(t) \ pages ELSE pages_for(t)
  <1>1. pages_for(t)' = GetSet(table_pages', t)
    BY DEF pages_for, GetSet
  <1>2. GetSet(Unlinked(table_pages, tables, pages), t) =
          IF t \in tables THEN GetSet(table_pages, t) \ pages ELSE GetSet(table_pages, t)
    BY UnlinkedGet
  <1> QED BY <1>1, <1>2 DEF forget, pages_for

\* subscribe keeps the two maps agreeing and leaves no empty set.
LEMMA SubscribeKeepsIndex ==
    ASSUME NEW p \in Page, NEW tables \in SUBSET Table,
           IndexInv, subscribe(p, tables)
    PROVE  IndexInv'
  <1> DEFINE keys == {q \in {p} : tables # {}}
  <1>0. /\ table_pages' = Linked(table_pages, tables, {p})
        /\ page_tables' = Linked(page_tables, keys, tables)
    BY DEF subscribe
  <1> HIDE DEF keys
  <1>k. keys \in SUBSET {p} /\ (p \in keys <=> tables # {})
    BY DEF keys
  <1>1. IndexTypeOK'
    BY <1>0, <1>k DEF IndexInv, IndexTypeOK, Linked, GetSet
  <1>2. MapsAgree'
    <2> SUFFICES ASSUME NEW q \in Page, NEW t \in Table
                 PROVE  (q \in pages_for(t) <=> t \in tables_for(q))'
      BY DEF MapsAgree
    <2>1. pages_for(t)' = IF t \in tables THEN pages_for(t) \cup {p} ELSE pages_for(t)
      BY PagesForSubscribed
    <2>2. tables_for(q)' = IF q \in keys THEN tables_for(q) \cup tables ELSE tables_for(q)
      BY <1>0, LinkedGet DEF tables_for
    <2>3. q \in pages_for(t) <=> t \in tables_for(q)
      BY DEF IndexInv, MapsAgree
    <2> QED BY <2>1, <2>2, <2>3, <1>k
  <1>3. NoEmptySet'
    BY <1>0, <1>k DEF IndexInv, NoEmptySet, Linked, GetSet
  <1> QED BY <1>1, <1>2, <1>3 DEF IndexInv

\* _forget keeps the two maps agreeing and deletes the sets it empties.
LEMMA ForgetKeepsIndex ==
    ASSUME NEW pages \in SUBSET Page, NEW tables \in SUBSET Table,
           IndexInv, forget(pages, tables)
    PROVE  IndexInv'
  <1>0. /\ table_pages' = Unlinked(table_pages, tables, pages)
        /\ page_tables' = Unlinked(page_tables, pages, tables)
    BY DEF forget
  <1>1. IndexTypeOK'
    BY <1>0 DEF IndexInv, IndexTypeOK, Unlinked
  <1>2. MapsAgree'
    <2> SUFFICES ASSUME NEW q \in Page, NEW t \in Table
                 PROVE  (q \in pages_for(t) <=> t \in tables_for(q))'
      BY DEF MapsAgree
    <2>1. pages_for(t)' = IF t \in tables THEN pages_for(t) \ pages ELSE pages_for(t)
      BY PagesForForgotten
    <2>2. tables_for(q)' = IF q \in pages THEN tables_for(q) \ tables ELSE tables_for(q)
      BY <1>0, UnlinkedGet DEF tables_for
    <2>3. q \in pages_for(t) <=> t \in tables_for(q)
      BY DEF IndexInv, MapsAgree
    <2> QED BY <2>1, <2>2, <2>3
  <1>3. NoEmptySet'
    BY <1>0 DEF IndexInv, NoEmptySet, Unlinked
  <1> QED BY <1>1, <1>2, <1>3 DEF IndexInv

\* The tables some pages hold are tables.
LEMMA TablesOfType ==
    ASSUME NEW pages \in SUBSET Page, IndexInv
    PROVE  TablesOf(pages) \in SUBSET Table
  BY DEF IndexInv, IndexTypeOK, TablesOf, tables_for, GetSet

\* An empty index satisfies the invariant.
LEMMA EmptyIndex == IndexInit => IndexInv
  BY DEF IndexInit, IndexInv, IndexTypeOK, MapsAgree, NoEmptySet,
         pages_for, tables_for, GetSet

\* created is the truth about the wanted set.
LEMMA CreatesIsMove ==
    ASSUME NEW p \in Page, NEW tables \in SUBSET Table, subscribe(p, tables)
    PROVE  Creates(tables) <=> subscribed_tables' # subscribed_tables
  BY DEF subscribe, Linked, Creates, subscribed_tables

\* deleted is the truth about the wanted set.
LEMMA DeletesIsMove ==
    ASSUME NEW pages \in SUBSET Page, NEW tables \in SUBSET Table, forget(pages, tables)
    PROVE  Deletes(pages, tables) <=> subscribed_tables' # subscribed_tables
  BY DEF forget, Unlinked, Deletes, subscribed_tables
-----------------------------------------------------------------------------
(* The calls. *)

\* What every call leaves behind, whichever of the three it was.
LEMMA CallKeepsIndex ==
    ASSUME IndexInv, CallNext
    PROVE  IndexInv'
  <1>1. ASSUME NEW p \in Page, NEW t \in Table, Subscribe(p, t)
        PROVE  IndexInv'
    BY <1>1, SubscribeKeepsIndex, {t} \in SUBSET Table DEF Subscribe
  <1>2. ASSUME NEW p \in Page, NEW t \in Table, Unsubscribe(p, t)
        PROVE  IndexInv'
    BY <1>2, ForgetKeepsIndex, {t} \in SUBSET Table, {p} \in SUBSET Page DEF Unsubscribe, unsubscribe
  <1>3. ASSUME NEW p \in Page, DropPage(p)
        PROVE  IndexInv'
    BY <1>3, ForgetKeepsIndex, TablesOfType, {p} \in SUBSET Page
       DEF DropPage, index_drop_pages
  <1> QED BY <1>1, <1>2, <1>3 DEF CallNext

\* In every state of the index the two maps describe the same pairs and hold
\* no empty set (subscription_index.py: the three mutators and _forget).
THEOREM IndexInvariant == CallSpec => []IndexInv
  <1>1. CallInit => IndexInv
    BY EmptyIndex DEF CallInit
  <1>2. IndexInv /\ [CallNext]_callVars => IndexInv'
    <2> SUFFICES ASSUME IndexInv, [CallNext]_callVars PROVE IndexInv'
      OBVIOUS
    <2>1. CASE CallNext
      BY <2>1, CallKeepsIndex
    <2>2. CASE UNCHANGED callVars
      BY <2>2 DEF callVars, IndexInv, IndexTypeOK, MapsAgree, NoEmptySet,
                  pages_for, tables_for, GetSet
    <2> QED BY <2>1, <2>2
  <1> QED BY <1>1, <1>2, PTL DEF CallSpec
-----------------------------------------------------------------------------
(* The refinement. *)

\* The tables somebody wants are exactly the keys of table_pages: this is
\* where "no empty set survives" is needed.
LEMMA WantedIsSubscribed ==
    ASSUME IndexInv
    PROVE  Interest!Wanted(pairs) = subscribed_tables
  <1>1. ASSUME NEW t \in subscribed_tables
        PROVE  t \in Interest!Wanted(pairs)
    <2>1. t \in Table /\ table_pages[t] # {} /\ table_pages[t] \in SUBSET Page
      BY DEF IndexInv, IndexTypeOK, NoEmptySet, subscribed_tables
    <2>2. PICK p \in Page : p \in table_pages[t]
      BY <2>1
    <2>3. <<p, t>> \in pairs
      BY <2>1, <2>2 DEF pairs, pages_for, GetSet, subscribed_tables
    <2> QED BY <2>3 DEF Interest!Wanted
  <1>2. ASSUME NEW t \in Interest!Wanted(pairs)
        PROVE  t \in subscribed_tables
    <2>1. PICK pair \in pairs : t = pair[2]
      BY DEF Interest!Wanted
    <2>2. PICK p \in Page, u \in Table : pair = <<p, u>> /\ p \in pages_for(u)
      BY DEF pairs
    <2> QED BY <2>1, <2>2 DEF pages_for, GetSet, subscribed_tables
  <1> QED BY <1>1, <1>2

\* The maps after a subscribe stand for the relation with the pairs added.
LEMMA SubscribePairs ==
    ASSUME NEW p \in Page, NEW tables \in SUBSET Table, subscribe(p, tables)
    PROVE  pairs' = pairs \cup ({p} \X tables)
  <1>1. ASSUME NEW q \in Page, NEW t \in Table
        PROVE  q \in pages_for(t)' <=> (q \in pages_for(t) \/ (q = p /\ t \in tables))
    BY PagesForSubscribed
  <1> QED BY <1>1 DEF pairs

\* The maps after a _forget stand for the relation with the pairs removed.
LEMMA ForgetPairs ==
    ASSUME NEW pages \in SUBSET Page, NEW tables \in SUBSET Table, forget(pages, tables)
    PROVE  pairs' = pairs \ (pages \X tables)
  <1>1. ASSUME NEW q \in Page, NEW t \in Table
        PROVE  q \in pages_for(t)' <=> (q \in pages_for(t) /\ ~(q \in pages /\ t \in tables))
    BY PagesForForgotten
  <1> QED BY <1>1 DEF pairs

\* The wanted set of the next state, under the invariant of the next state.
LEMMA WantedIsSubscribedNext ==
    ASSUME IndexInv'
    PROVE  Interest!Wanted(pairs') = subscribed_tables'
  <1>1. ASSUME NEW t \in subscribed_tables'
        PROVE  t \in Interest!Wanted(pairs')
    <2>1. t \in Table /\ table_pages'[t] # {} /\ table_pages'[t] \in SUBSET Page
      BY DEF IndexInv, IndexTypeOK, NoEmptySet, subscribed_tables
    <2>2. PICK p \in Page : p \in table_pages'[t]
      BY <2>1
    <2>3. <<p, t>> \in pairs'
      BY <2>1, <2>2 DEF pairs, pages_for, GetSet, subscribed_tables
    <2> QED BY <2>3 DEF Interest!Wanted
  <1>2. ASSUME NEW t \in Interest!Wanted(pairs')
        PROVE  t \in subscribed_tables'
    <2>1. PICK pair \in pairs' : t = pair[2]
      BY DEF Interest!Wanted
    <2>2. pair \in Page \X Table /\ pair[1] \in pages_for(pair[2])'
      BY DEF pairs
    <2> QED BY <2>1, <2>2 DEF pages_for, GetSet, subscribed_tables
  <1> QED BY <1>1, <1>2

\* A call that adds pairs is a step of the abstract relation.
LEMMA SubscribeMaps ==
    ASSUME NEW p \in Page, NEW t \in Table, IndexInv, Subscribe(p, t)
    PROVE  Interest!Subscribe(p, t)
  <1>1. subscribe(p, {t}) /\ {t} \in SUBSET Table
    BY DEF Subscribe
  <1>2. IndexInv'
    BY <1>1, SubscribeKeepsIndex
  <1>3. pairs' = pairs \cup {<<p, t>>}
    BY <1>1, SubscribePairs
  <1>4. Creates({t}) = (Interest!Wanted(pairs') # Interest!Wanted(pairs))
    BY <1>1, <1>2, CreatesIsMove, WantedIsSubscribed, WantedIsSubscribedNext DEF Creates
  <1> QED BY <1>3, <1>4 DEF Subscribe, Interest!Subscribe, Interest!Becomes

\* A call that removes pairs becomes the relation without them.
LEMMA ForgetMaps ==
    ASSUME NEW p \in Page, NEW tables \in SUBSET Table, NEW call, IndexInv,
           forget({p}, tables), answer' = [call |-> call, moved |-> Deletes({p}, tables)]
    PROVE  Interest!Becomes(pairs \ ({p} \X tables), call)
  <1>1. {p} \in SUBSET Page
    OBVIOUS
  <1>2. IndexInv'
    BY <1>1, ForgetKeepsIndex
  <1>3. pairs' = pairs \ ({p} \X tables)
    BY <1>1, ForgetPairs
  <1>4. Deletes({p}, tables) = (Interest!Wanted(pairs') # Interest!Wanted(pairs))
    BY <1>1, <1>2, DeletesIsMove, WantedIsSubscribed, WantedIsSubscribedNext DEF Deletes
  <1> QED BY <1>3, <1>4 DEF Interest!Becomes

\* The index implements the relation: every call of the three primitives is
\* a step of TableInterest, and the boolean it returns is right, whatever
\* the calls before it (subscription_index.py: subscribe, unsubscribe,
\* drop_page).
THEOREM IndexRefinement == CallSpec => ImplementsTableInterest
  <1>1. CallInit => Interest!Init
    BY DEF CallInit, IndexInit, Interest!Init, pairs, pages_for, GetSet
  <1>2. IndexInv /\ [CallNext]_callVars => [Interest!Next]_(Interest!vars)
    <2> SUFFICES ASSUME IndexInv, [CallNext]_callVars
                 PROVE  [Interest!Next]_(Interest!vars)
      OBVIOUS
    <2>1. ASSUME NEW p \in Page, NEW t \in Table, Subscribe(p, t)
          PROVE  Interest!Next
      BY <2>1, SubscribeMaps DEF Interest!Next
    <2>2. ASSUME NEW p \in Page, NEW t \in Table, Unsubscribe(p, t)
          PROVE  Interest!Next
      <3>1. Interest!Becomes(pairs \ ({p} \X {t}), <<"unsubscribe", p, t>>)
        BY <2>2, ForgetMaps, {t} \in SUBSET Table DEF Unsubscribe, unsubscribe
      <3>2. pairs \ ({p} \X {t}) = pairs \ {<<p, t>>}
        OBVIOUS
      <3> QED BY <3>1, <3>2 DEF Interest!Next, Interest!Unsubscribe
    <2>3. ASSUME NEW p \in Page, DropPage(p)
          PROVE  Interest!Next
      <3>0. {p} \in SUBSET Page
        OBVIOUS
      <3>1. Interest!Becomes(pairs \ ({p} \X TablesOf({p})), <<"drop_page", p>>)
        BY <2>3, <3>0, ForgetMaps, TablesOfType DEF DropPage, index_drop_pages
      <3>2. ASSUME NEW t \in Table, <<p, t>> \in pairs
            PROVE  t \in TablesOf({p})
        BY <3>2 DEF IndexInv, MapsAgree, pairs, TablesOf
      <3>3. pairs \ ({p} \X TablesOf({p})) = pairs \ ({p} \X Table)
        BY <3>0, <3>2, TablesOfType DEF pairs
      <3> QED BY <3>1, <3>3 DEF Interest!Next, Interest!DropPage
    <2>4. CASE UNCHANGED callVars
      BY <2>4 DEF callVars, Interest!vars, pairs, pages_for, GetSet
    <2> QED BY <2>1, <2>2, <2>3, <2>4 DEF CallNext
  <1> QED BY <1>1, <1>2, IndexInvariant, PTL
           DEF CallSpec, ImplementsTableInterest, Interest!Spec
-----------------------------------------------------------------------------
(* The source filter. *)

\* Taking the head of a sequence keeps its last element: as the last one of
\* the tail, or as the head itself when it was alone.
LEMMA TailLast ==
    ASSUME NEW S, NEW s \in Seq(S), s # <<>>
    PROVE  IF Tail(s) = <<>> THEN Head(s) = s[Len(s)]
                             ELSE Tail(s)[Len(Tail(s))] = s[Len(s)]
  <1>1. Len(s) \in Nat /\ Len(s) > 0 /\ Tail(s) \in Seq(S) /\ Len(Tail(s)) = Len(s) - 1
    OBVIOUS
  <1>2. CASE Len(s) = 1
    <2>1. Head(s) = s[1]
      OBVIOUS
    <2>2. Len(Tail(s)) = 0
      BY <1>1, <1>2
    <2>3. Tail(s) = <<>>
      BY <1>1, <2>2, EmptySeq
    <2> QED BY <1>2, <2>1, <2>3
  <1>3. CASE Len(s) > 1
    <2>0. Len(Tail(s)) # Len(<<>>)
      BY <1>1, <1>3, EmptySeq
    <2>1. Tail(s) # <<>>
      BY <2>0
    <2> QED BY <1>1, <1>3, <2>1
  <1> QED BY <1>1, <1>2, <1>3

\* What a desk operation does to the pushes: it announces when it moved the
\* set, and leaves the tasks alone when it did not.
DeskEffect ==
    /\ IndexInv'
    /\ Announce(subscribed_tables' # subscribed_tables)

\* Every operation of the desk on its index keeps the index's invariant and
\* announces exactly the moves of the subscribed-table set.
LEMMA SubscriptionOpEffect ==
    ASSUME FilterTypeOK, SubscriptionOp
    PROVE  DeskEffect
  <1> USE DEF FilterTypeOK
  <1>1. ASSUME NEW p \in Page, NEW tables \in SUBSET Table,
               record_page_table_subscriptions(p, tables)
        PROVE  DeskEffect
    <2>1. subscribe(p, tables) /\ Announce(Creates(tables))
      BY <1>1 DEF record_page_table_subscriptions
    <2>2. Creates(tables) <=> subscribed_tables' # subscribed_tables
      BY <2>1, CreatesIsMove
    <2> QED BY <2>1, <2>2, SubscribeKeepsIndex DEF DeskEffect, Announce
  <1>2. ASSUME NEW p \in Page, NEW t \in Table, NEW opening \in BOOLEAN,
               subscribe_table(p, t, opening)
        PROVE  DeskEffect
    <2>0. {t} \in SUBSET Table /\ {p} \in SUBSET Page
      OBVIOUS
    <2>1. CASE subscribe(p, {t}) /\ Announce(Creates({t}))
      <3>1. Creates({t}) <=> subscribed_tables' # subscribed_tables
        BY <2>0, <2>1, CreatesIsMove
      <3> QED BY <2>0, <2>1, <3>1, SubscribeKeepsIndex DEF DeskEffect, Announce
    <2>2. CASE forget({p}, {t}) /\ Announce(Deletes({p}, {t}))
      <3>1. Deletes({p}, {t}) <=> subscribed_tables' # subscribed_tables
        BY <2>0, <2>2, DeletesIsMove
      <3> QED BY <2>0, <2>2, <3>1, ForgetKeepsIndex DEF DeskEffect, Announce
    <2> QED BY <1>2, <2>1, <2>2 DEF subscribe_table, unsubscribe
  <1>3. ASSUME NEW pages \in SUBSET Page, forget_pages(pages)
        PROVE  DeskEffect
    <2>1. forget(pages, TablesOf(pages)) /\ Announce(Deletes(pages, TablesOf(pages)))
      BY <1>3 DEF forget_pages, index_drop_pages
    <2>2. Deletes(pages, TablesOf(pages)) <=> subscribed_tables' # subscribed_tables
      BY <2>1, TablesOfType, DeletesIsMove
    <2> QED BY <2>1, <2>2, TablesOfType, ForgetKeepsIndex DEF DeskEffect, Announce
  <1> QED BY <1>1, <1>2, <1>3 DEF SubscriptionOp

\* The subscribed tables are tables.
LEMMA SubscribedType ==
    ASSUME IndexInv
    PROVE  subscribed_tables \in SUBSET Table
  BY DEF IndexInv, IndexTypeOK, subscribed_tables

\* The index keeps its invariant when nobody touches it.
LEMMA IndexStays ==
    ASSUME IndexInv, UNCHANGED indexVars
    PROVE  IndexInv' /\ subscribed_tables' = subscribed_tables
  BY DEF indexVars, IndexInv, IndexTypeOK, MapsAgree, NoEmptySet,
         pages_for, tables_for, GetSet, subscribed_tables

\* One step keeps the types of the pool and of the pushes.
LEMMA FilterTypeStep ==
    ASSUME FilterTypeOK, [FilterNext]_filterVars
    PROVE  FilterTypeOK'
  <1> USE DEF FilterTypeOK, PushTypeOK, poolVars
  <1>1. CASE SubscriptionOp
    <2>1. IndexInv' /\ Announce(subscribed_tables' # subscribed_tables)
      BY <1>1, SubscriptionOpEffect DEF DeskEffect
    <2>2. UNCHANGED <<presented, living, wire, source_filter>>
      BY <1>1 DEF SubscriptionOp
    <2>3. push_tasks' \in [Worker -> Nat]
      BY <2>1 DEF Announce, broadcast_subscribed_tables
    <2> QED BY <2>1, <2>2, <2>3
  <1>2. ASSUME NEW w \in Worker, on_worker_presented(w)
        PROVE  FilterTypeOK'
    BY <1>2, IndexStays DEF on_worker_presented
  <1>3. ASSUME NEW w \in Worker, WorkerDies(w)
        PROVE  FilterTypeOK'
    BY <1>3, IndexStays DEF WorkerDies
  <1>4. ASSUME NEW w \in Worker, SendPush(w)
        PROVE  FilterTypeOK'
    BY <1>4, IndexStays, SubscribedType DEF SendPush
  <1>5. ASSUME NEW w \in Worker, PushFindsNoWire(w)
        PROVE  FilterTypeOK'
    BY <1>5, IndexStays DEF PushFindsNoWire
  <1>6. ASSUME NEW w \in Worker, ApplyPush(w)
        PROVE  FilterTypeOK'
    BY <1>6, IndexStays DEF ApplyPush
  <1>7. CASE UNCHANGED filterVars
    BY <1>7, IndexStays DEF filterVars, indexVars
  <1> QED
    BY <1>1, <1>2, <1>3, <1>4, <1>5, <1>6, <1>7 DEF FilterNext, PoolOp, PushOp

\* Every state of the push protocol is well typed, and its index is one
\* relation (delivery_desk.py, genropy_spa_commander.py).
THEOREM FilterTypeCorrect == FilterSpec => []FilterTypeOK
  <1>1. FilterInit => FilterTypeOK
    BY EmptyIndex DEF FilterInit, PushInit, FilterTypeOK, PushTypeOK
  <1>2. FilterTypeOK /\ [FilterNext]_filterVars => FilterTypeOK'
    BY FilterTypeStep
  <1> QED BY <1>1, <1>2, PTL DEF FilterSpec

\* One step never leaves a living worker with nothing to run and another set
\* than the desk's at the end of its wire.
LEMMA TransitionStep ==
    ASSUME FilterTypeOK, NoMissedTransition, [FilterNext]_filterVars
    PROVE  NoMissedTransition'
  <1> SUFFICES ASSUME NEW v \in living', push_tasks'[v] = 0
               PROVE  Landing(v)' = subscribed_tables'
    BY DEF NoMissedTransition
  <1> USE DEF FilterTypeOK, PushTypeOK, poolVars
  <1>1. CASE SubscriptionOp
    <2>1. Announce(subscribed_tables' # subscribed_tables)
      BY <1>1, SubscriptionOpEffect DEF DeskEffect
    <2>2. living' = living /\ wire' = wire /\ source_filter' = source_filter
      BY <1>1 DEF SubscriptionOp
    <2>3. push_tasks' = push_tasks /\ subscribed_tables' = subscribed_tables
      BY <2>1, <2>2 DEF Announce, broadcast_subscribed_tables
    <2> QED BY <2>2, <2>3 DEF NoMissedTransition, Landing
  <1>2. ASSUME NEW w \in Worker, on_worker_presented(w)
        PROVE  Landing(v)' = subscribed_tables'
    BY <1>2, IndexStays DEF on_worker_presented, NoMissedTransition, Landing
  <1>3. ASSUME NEW w \in Worker, WorkerDies(w)
        PROVE  Landing(v)' = subscribed_tables'
    BY <1>3, IndexStays DEF WorkerDies, NoMissedTransition, Landing
  <1>4. ASSUME NEW w \in Worker, SendPush(w)
        PROVE  Landing(v)' = subscribed_tables'
    <2>1. CASE v = w
      <3>1. wire'[w] = Append(wire[w], subscribed_tables)
        BY <1>4 DEF SendPush
      <3>2. Len(wire'[w]) = Len(wire[w]) + 1 /\ wire'[w][Len(wire[w]) + 1] = subscribed_tables
        BY <3>1, SubscribedType
      <3>3. wire'[w] # <<>>
        BY <3>2
      <3> QED BY <1>4, <2>1, <3>2, <3>3, IndexStays DEF Landing, SendPush
    <2>2. CASE v # w
      BY <1>4, <2>2, IndexStays DEF SendPush, NoMissedTransition, Landing
    <2> QED BY <2>1, <2>2
  <1>5. ASSUME NEW w \in Worker, PushFindsNoWire(w)
        PROVE  Landing(v)' = subscribed_tables'
    BY <1>5, IndexStays DEF PushFindsNoWire, NoMissedTransition, Landing
  <1>6. ASSUME NEW w \in Worker, ApplyPush(w)
        PROVE  Landing(v)' = subscribed_tables'
    <2>0. subscribed_tables' = subscribed_tables /\ living' = living /\ push_tasks' = push_tasks
      BY <1>6, IndexStays DEF ApplyPush
    <2>1. CASE v = w
      <3>1. wire'[w] = Tail(wire[w]) /\ wire[w] # <<>> /\ source_filter'[w] = Head(wire[w])
        BY <1>6 DEF ApplyPush
      <3>2. wire[w] \in Seq(SUBSET Table) /\ wire[w] # <<>>
        BY <3>1
      <3>3. wire[w][Len(wire[w])] = subscribed_tables
        BY <2>0, <2>1, <3>1 DEF Landing, NoMissedTransition
      <3>4. IF wire'[w] = <<>> THEN source_filter'[w] = wire[w][Len(wire[w])]
                               ELSE wire'[w][Len(wire'[w])] = wire[w][Len(wire[w])]
        BY <3>1, <3>2, TailLast
      <3> QED BY <2>0, <2>1, <3>3, <3>4 DEF Landing
    <2>2. CASE v # w
      BY <1>6, <2>0, <2>2 DEF ApplyPush, NoMissedTransition, Landing
    <2> QED BY <2>1, <2>2
  <1>7. CASE UNCHANGED filterVars
    BY <1>7, IndexStays DEF filterVars, indexVars, NoMissedTransition, Landing
  <1> QED
    BY <1>1, <1>2, <1>3, <1>4, <1>5, <1>6, <1>7 DEF FilterNext, PoolOp, PushOp

\* No living worker ever misses a transition of the set: what its last push
\* will leave in its filter is the desk's set, or a task is still to run
\* (genropy_spa_commander.py, broadcast_subscribed_tables and the push).
THEOREM NoTransitionMissed == FilterSpec => []NoMissedTransition
  <1>1. FilterInit => NoMissedTransition
    BY DEF FilterInit, PushInit, NoMissedTransition
  <1>2. FilterTypeOK /\ NoMissedTransition /\ [FilterNext]_filterVars => NoMissedTransition'
    BY TransitionStep
  <1> QED BY <1>1, <1>2, FilterTypeCorrect, PTL DEF FilterSpec
=============================================================================
