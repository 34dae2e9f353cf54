--------------------------- MODULE DeskCallsProofs ---------------------------
(***************************************************************************)
(* The desk's books, for any pages, users, connections, tables and keys:   *)
(* the population hangs together, no addressed write waits for somebody    *)
(* the vertex does not hold, and a page that leaves, leaves whole.         *)
(***************************************************************************)
EXTENDS DeskCalls, SubscriptionIndexProofs

\* What is left of a map of queues when some keys are popped.
LEMMA PoppedMap ==
    ASSUME NEW queues, NEW keys
    PROVE  /\ DOMAIN Popped(queues, keys) = DOMAIN queues \ keys
           /\ \A k \in DOMAIN queues \ keys : Popped(queues, keys)[k] = queues[k]
  BY DEF Popped, Restrict

\* The index's invariant when the desk leaves the index alone.
LEMMA IndexUntouched ==
    ASSUME IndexInv, UNCHANGED indexVars
    PROVE  IndexInv'
  BY DEF indexVars, IndexInv, IndexTypeOK, MapsAgree, NoEmptySet,
         pages_for, tables_for, GetSet

\* The desk's half of a drop keeps the index and forgets every page of it:
\* both queues and all the subscriptions.
LEMMA DeskDrop ==
    ASSUME NEW pages \in SUBSET Page, IndexInv, desk_drop_pages(pages)
    PROVE  /\ IndexInv'
           /\ DOMAIN page_datachange_map' = DOMAIN page_datachange_map \ pages
           /\ \A p \in pages : p \notin DOMAIN page_datachange_map' \cup DOMAIN page_dbevent_map'
                                           \cup DOMAIN page_tables'
  <1>0. /\ page_datachange_map' = Popped(page_datachange_map, pages)
        /\ page_dbevent_map' = Popped(page_dbevent_map, pages)
        /\ forget(pages, TablesOf(pages))
    BY DEF desk_drop_pages, forget_pages, index_drop_pages
  <1>1. IndexInv'
    BY <1>0, TablesOfType, ForgetKeepsIndex
  <1>2. DOMAIN page_datachange_map' = DOMAIN page_datachange_map \ pages
    BY <1>0, PoppedMap
  <1>3. DOMAIN page_dbevent_map' = DOMAIN page_dbevent_map \ pages
    BY <1>0, PoppedMap
  <1>4. ASSUME NEW p \in pages
        PROVE  p \notin DOMAIN page_tables'
    <2>1. p \in DOMAIN page_tables => page_tables[p] \subseteq TablesOf(pages)
      BY DEF TablesOf, tables_for, GetSet
    <2> QED BY <1>0, <2>1 DEF forget, Unlinked
  <1> QED BY <1>1, <1>2, <1>3, <1>4

\* A CALL on the subscriptions keeps the index.
LEMMA SubscribeTableKeepsIndex ==
    ASSUME NEW p \in Page, NEW t \in Table, NEW opening \in BOOLEAN,
           IndexInv, subscribe_table(p, t, opening)
    PROVE  IndexInv'
  <1>1. {t} \in SUBSET Table /\ {p} \in SUBSET Page
    OBVIOUS
  <1>2. subscribe(p, {t}) \/ forget({p}, {t})
    BY DEF subscribe_table, unsubscribe
  <1> QED BY <1>1, <1>2, SubscribeKeepsIndex, ForgetKeepsIndex

Population == PopulationTypeOK /\ Rooted

\* The birth of a page keeps the population.
LEMMA NewPageStep ==
    ASSUME NEW p \in Page, NEW cid \in Connection, NEW u \in User, NEW tables \in SUBSET Table,
           TypeOK, NewPage(p, cid, u, tables)
    PROVE  TypeOK'
  <1>1. IndexInv'
    BY SubscribeKeepsIndex DEF TypeOK, NewPage, on_new_page, record_page_table_subscriptions
  <1>2. /\ page_connection_map' = [q \in DOMAIN page_connection_map \cup {p} |->
                                     IF q = p THEN cid ELSE page_connection_map[q]]
        /\ connection_user' = [c \in DOMAIN connection_user \cup {cid} |->
                                     IF c = cid THEN u ELSE connection_user[c]]
        /\ user_map' = user_map \cup {u}
    BY DEF NewPage, on_new_page
  <1>3. PopulationTypeOK'
    BY <1>2 DEF TypeOK, PopulationTypeOK
  <1>4. Rooted'
    BY <1>2 DEF TypeOK, Rooted
  <1> QED BY <1>1, <1>3, <1>4 DEF TypeOK

\* A drop that takes some connections, every page of theirs, perhaps more
\* pages, and users that have no other connection, keeps the population.
LEMMA PopulationDrop ==
    ASSUME NEW pages, NEW connections, NEW users,
           Population,
           page_connection_map' = Popped(page_connection_map, pages),
           connection_user' = Popped(connection_user, connections),
           user_map' = user_map \ users,
           PagesOf(connections) \subseteq pages,
           \A c \in DOMAIN connection_user : connection_user[c] \in users => c \in connections
    PROVE  Population'
  <1>1. /\ DOMAIN page_connection_map' = DOMAIN page_connection_map \ pages
        /\ \A p \in DOMAIN page_connection_map' : page_connection_map'[p] = page_connection_map[p]
    BY DEF Popped, Restrict
  <1>2. /\ DOMAIN connection_user' = DOMAIN connection_user \ connections
        /\ \A c \in DOMAIN connection_user' : connection_user'[c] = connection_user[c]
    BY DEF Popped, Restrict
  <1>3. /\ page_connection_map' = [p \in DOMAIN page_connection_map' |-> page_connection_map'[p]]
        /\ connection_user' = [c \in DOMAIN connection_user' |-> connection_user'[c]]
    BY DEF Popped, Restrict
  <1>4. PopulationTypeOK'
    BY <1>1, <1>2, <1>3 DEF Population, PopulationTypeOK
  <1>5. Rooted'
    BY <1>1, <1>2 DEF Population, Rooted, PagesOf
  <1> QED BY <1>4, <1>5 DEF Population

\* The three drops of the commander.
LEMMA DropStep ==
    ASSUME TypeOK,
           \/ \E p \in Page : drop_page(p)
           \/ \E cid \in Connection : drop_connection(cid)
           \/ \E u \in User : drop_user(u)
    PROVE  TypeOK'
  <1>0. IndexInv /\ Population
    BY DEF TypeOK, Population
  <1>1. ASSUME NEW p \in Page, drop_page(p)
        PROVE  TypeOK'
    <2>1. {p} \in SUBSET Page /\ desk_drop_pages({p})
      BY <1>1 DEF drop_page
    <2>2. IndexInv'
      BY <1>0, <2>1, DeskDrop
    <2>3. connection_user' = Popped(connection_user, {}) /\ user_map' = user_map \ {}
      <3>1. connection_user = [c \in DOMAIN connection_user |-> connection_user[c]]
        BY <1>0 DEF Population, PopulationTypeOK
      <3> QED BY <1>1, <3>1 DEF drop_page, Popped, Restrict
    <2>4. PagesOf({}) \subseteq {p}
      BY DEF PagesOf
    <2>5. page_connection_map' = Popped(page_connection_map, {p})
      BY <1>1 DEF drop_page
    <2>6. Population'
      BY <1>0, <2>3, <2>4, <2>5, PopulationDrop
    <2> QED BY <2>2, <2>6 DEF TypeOK, Population
  <1>2. ASSUME NEW cid \in Connection, drop_connection(cid)
        PROVE  TypeOK'
    <2>1. PagesOf({cid}) \in SUBSET Page
      BY <1>0 DEF PagesOf, Population, PopulationTypeOK
    <2>2. /\ page_connection_map' = Popped(page_connection_map, PagesOf({cid}))
          /\ connection_user' = Popped(connection_user, {cid})
          /\ user_map' = user_map \ {}
          /\ desk_drop_pages(PagesOf({cid}))
      BY <1>2 DEF drop_connection
    <2>3. IndexInv'
      BY <1>0, <2>1, <2>2, DeskDrop
    <2>4. ASSUME NEW users, users = {}, user_map' = user_map \ users
          PROVE  Population'
      BY <1>0, <2>2, <2>4, PopulationDrop
    <2>5. Population'
      BY <2>2, <2>4
    <2> QED BY <2>3, <2>5 DEF TypeOK, Population
  <1>3. ASSUME NEW u \in User, drop_user(u)
        PROVE  TypeOK'
    <2>1. PagesOf(ConnectionsOf(u)) \in SUBSET Page
      BY <1>0 DEF PagesOf, Population, PopulationTypeOK
    <2>2. /\ page_connection_map' = Popped(page_connection_map, PagesOf(ConnectionsOf(u)))
          /\ connection_user' = Popped(connection_user, ConnectionsOf(u))
          /\ user_map' = user_map \ {u}
          /\ desk_drop_pages(PagesOf(ConnectionsOf(u)))
      BY <1>3 DEF drop_user
    <2>3. \A c \in DOMAIN connection_user : connection_user[c] \in {u} => c \in ConnectionsOf(u)
      BY DEF ConnectionsOf
    <2>4. IndexInv'
      BY <1>0, <2>1, <2>2, DeskDrop
    <2>5. Population'
      BY <1>0, <2>2, <2>3, PopulationDrop
    <2> QED BY <2>4, <2>5 DEF TypeOK, Population
  <1> QED BY <1>1, <1>2, <1>3

\* The CALLs that touch neither the index nor the population.
LEMMA UntouchedStep ==
    ASSUME TypeOK, UNCHANGED <<indexVars, populationVars>>
    PROVE  TypeOK'
  <1>1. IndexInv'
    BY IndexUntouched DEF TypeOK
  <1>2. PopulationTypeOK' /\ Rooted'
    BY DEF TypeOK, PopulationTypeOK, Rooted, populationVars
  <1> QED BY <1>1, <1>2 DEF TypeOK

\* Every step keeps the desk's types.
LEMMA TypeStep ==
    ASSUME TypeOK, [Next]_vars
    PROVE  TypeOK'
  <1>1. ASSUME NEW p \in Page, NEW t \in Table, NEW opening \in BOOLEAN,
               SubscribeTable(p, t, opening)
        PROVE  TypeOK'
    <2>1. IndexInv'
      BY <1>1, SubscribeTableKeepsIndex DEF SubscribeTable, TypeOK
    <2>2. PopulationTypeOK' /\ Rooted'
      BY <1>1 DEF SubscribeTable, TypeOK, PopulationTypeOK, Rooted, populationVars
    <2> QED BY <2>1, <2>2 DEF TypeOK
  <1>2. ASSUME NEW p \in Page, NEW u \in User, NEW deposits \in Batches, Exchange(p, u, deposits)
        PROVE  TypeOK'
    BY <1>2, UntouchedStep DEF Exchange
  <1>3. ASSUME NEW deposits \in Batches, Deposit(deposits)
        PROVE  TypeOK'
    BY <1>3, UntouchedStep DEF Deposit
  <1>4. ASSUME NEW message \in Messages, OnDatachange(message)
        PROVE  TypeOK'
    BY <1>4, UntouchedStep DEF OnDatachange
  <1>5. CASE Fold
    BY <1>5, NewPageStep, DropStep DEF Fold
  <1>6. CASE UNCHANGED vars
    BY <1>6, UntouchedStep DEF vars, filterVars, indexVars
  <1> QED BY <1>1, <1>2, <1>3, <1>4, <1>5, <1>6 DEF Next, Call, Write

\* The desk's index is one relation and its population hangs together in every
\* state (delivery_desk.py, genropy_spa_commander.py).
THEOREM DeskTypeCorrect == Spec => []TypeOK
  <1>1. Init => TypeOK
    <2>1. ASSUME Init PROVE IndexInv
      BY <2>1, EmptyIndex DEF Init, FilterInit
    <2>2. ASSUME Init PROVE PopulationTypeOK /\ Rooted
      BY <2>2 DEF Init, DeskInit, EmptyMap, PopulationTypeOK, Rooted
    <2> QED BY <2>1, <2>2 DEF TypeOK
  <1>2. TypeOK /\ [Next]_vars => TypeOK'
    BY TypeStep
  <1> QED BY <1>1, <1>2, PTL DEF Spec

\* The CALLs and the folds keep every pending queue somebody's.
LEMMA OwnersStep ==
    ASSUME TypeOK, QueuesHaveOwners, [Next]_vars
    PROVE  QueuesHaveOwners'
  <1> USE DEF QueuesHaveOwners
  <1>1. ASSUME NEW p \in Page, NEW t \in Table, NEW opening \in BOOLEAN,
               SubscribeTable(p, t, opening)
        PROVE  QueuesHaveOwners'
    BY <1>1 DEF SubscribeTable, queueVars, populationVars
  <1>2. ASSUME NEW p \in Page, NEW u \in User, NEW deposits \in Batches, Exchange(p, u, deposits)
        PROVE  QueuesHaveOwners'
    <2>1. /\ DOMAIN page_datachange_map' = DOMAIN page_datachange_map \ {p}
          /\ DOMAIN user_store_change_map' = DOMAIN user_store_change_map \ {u}
      BY <1>2, PoppedMap DEF Exchange, exchange
    <2> QED BY <1>2, <2>1 DEF Exchange, populationVars
  <1>3. ASSUME NEW deposits \in Batches, Deposit(deposits)
        PROVE  QueuesHaveOwners'
    BY <1>3 DEF Deposit, deposit, populationVars
  <1>4. ASSUME NEW message \in Messages, OnDatachange(message)
        PROVE  QueuesHaveOwners'
    <2>1. CASE UNCHANGED <<page_datachange_map, user_store_change_map>>
      BY <1>4, <2>1 DEF OnDatachange, populationVars
    <2>2. CASE /\ message.kind \in STATE_KINDS /\ Known(message)
               /\ user_store_change_map' = FiledAt(user_store_change_map, message)
               /\ UNCHANGED page_datachange_map
      BY <1>4, <2>2 DEF OnDatachange, populationVars, FiledAt, Known
    <2>3. CASE /\ message.kind \notin STATE_KINDS /\ Known(message)
               /\ page_datachange_map' = FiledAt(page_datachange_map, message)
               /\ UNCHANGED user_store_change_map
      BY <1>4, <2>3 DEF OnDatachange, populationVars, FiledAt, Known
    <2> QED BY <1>4, <2>1, <2>2, <2>3 DEF OnDatachange, on_datachange
  <1>5. ASSUME NEW p \in Page, NEW cid \in Connection, NEW u \in User, NEW tables \in SUBSET Table,
               NewPage(p, cid, u, tables)
        PROVE  QueuesHaveOwners'
    BY <1>5 DEF NewPage, on_new_page, queueVars
  <1>6. ASSUME NEW p \in Page, drop_page(p)
        PROVE  QueuesHaveOwners'
    <2>1. /\ DOMAIN page_connection_map' = DOMAIN page_connection_map \ {p}
          /\ DOMAIN page_datachange_map' = DOMAIN page_datachange_map \ {p}
      BY <1>6, PoppedMap DEF drop_page, desk_drop_pages
    <2> QED BY <1>6, <2>1 DEF drop_page
  <1>7. ASSUME NEW cid \in Connection, drop_connection(cid)
        PROVE  QueuesHaveOwners'
    <2>1. /\ DOMAIN page_connection_map' = DOMAIN page_connection_map \ PagesOf({cid})
          /\ DOMAIN page_datachange_map' = DOMAIN page_datachange_map \ PagesOf({cid})
      BY <1>7, PoppedMap DEF drop_connection, desk_drop_pages
    <2> QED BY <1>7, <2>1 DEF drop_connection
  <1>8. ASSUME NEW u \in User, drop_user(u)
        PROVE  QueuesHaveOwners'
    <2> DEFINE pages == PagesOf(ConnectionsOf(u))
    <2>1. /\ DOMAIN page_connection_map' = DOMAIN page_connection_map \ pages
          /\ DOMAIN page_datachange_map' = DOMAIN page_datachange_map \ pages
          /\ DOMAIN user_store_change_map' = DOMAIN user_store_change_map \ {u}
      BY <1>8, PoppedMap DEF drop_user, desk_drop_pages
    <2> HIDE DEF pages
    <2> QED BY <1>8, <2>1 DEF drop_user
  <1>9. CASE UNCHANGED vars
    BY <1>9 DEF vars, queueVars, populationVars
  <1> QED
    BY <1>1, <1>2, <1>3, <1>4, <1>5, <1>6, <1>7, <1>8, <1>9 DEF Next, Call, Write, Fold

\* No addressed write, to a page or to a user's store, ever waits for somebody
\* the vertex does not hold; queues of table events are not among them
\* (delivery_desk.py, on_datachange; the commander's three drops).
THEOREM QueuesAlwaysOwned == Spec => []QueuesHaveOwners
  <1>1. Init => QueuesHaveOwners
    BY DEF Init, DeskInit, EmptyMap, QueuesHaveOwners
  <1>2. TypeOK /\ QueuesHaveOwners /\ [Next]_vars => QueuesHaveOwners'
    BY OwnersStep
  <1> QED BY <1>1, <1>2, DeskTypeCorrect, PTL DEF Spec

\* Both queues and all the subscriptions of a page that leaves have gone.
Departed ==
    \A p \in DOMAIN page_connection_map \ DOMAIN page_connection_map' :
        p \notin DOMAIN page_datachange_map' \cup DOMAIN page_dbevent_map' \cup DOMAIN page_tables'

\* Only the three drops take a page out of the population, and each takes its
\* queues and its subscriptions too.
LEMMA DepartureStep ==
    ASSUME TypeOK, [Next]_vars
    PROVE  Departed
  <1>0. IndexInv /\ PopulationTypeOK
    BY DEF TypeOK
  <1>1. CASE UNCHANGED page_connection_map
    BY <1>1 DEF Departed
  <1>2. ASSUME NEW p \in Page, NEW cid \in Connection, NEW u \in User, NEW tables \in SUBSET Table,
               NewPage(p, cid, u, tables)
        PROVE  Departed
    BY <1>2 DEF NewPage, on_new_page, Departed
  <1>3. ASSUME NEW pages \in SUBSET Page, desk_drop_pages(pages),
               page_connection_map' = Popped(page_connection_map, pages)
        PROVE  Departed
    <2>1. DOMAIN page_connection_map \ DOMAIN page_connection_map' \subseteq pages
      BY <1>3, PoppedMap
    <2> QED BY <1>0, <1>3, <2>1, DeskDrop DEF Departed
  <1>4. \A connections : PagesOf(connections) \in SUBSET Page
    BY <1>0 DEF PagesOf, PopulationTypeOK
  <1>5. ASSUME NEW p \in Page, drop_page(p)
        PROVE  Departed
    BY <1>3, <1>5 DEF drop_page
  <1>6. ASSUME NEW cid \in Connection, drop_connection(cid)
        PROVE  Departed
    BY <1>3, <1>4, <1>6 DEF drop_connection
  <1>7. ASSUME NEW u \in User, drop_user(u)
        PROVE  Departed
    BY <1>3, <1>4, <1>7 DEF drop_user
  <1>8. CASE Call \/ Write
    BY <1>1, <1>8 DEF Call, Write, SubscribeTable, Exchange, Deposit, OnDatachange, populationVars
  <1>9. CASE UNCHANGED vars
    BY <1>1, <1>9 DEF vars, populationVars
  <1> QED
    BY <1>2, <1>5, <1>6, <1>7, <1>8, <1>9 DEF Next, Fold

\* A page that leaves the vertex leaves the desk whole in the same step
\* (genropy_spa_commander.py, drop_page / drop_connection / drop_user).
THEOREM DepartureCorrect == Spec => DepartureIsComplete
  <1>1. TypeOK /\ [Next]_vars => [Departed]_vars
    BY DepartureStep
  <1> QED BY <1>1, DeskTypeCorrect, PTL DEF Spec, DepartureIsComplete, Departed
=============================================================================
