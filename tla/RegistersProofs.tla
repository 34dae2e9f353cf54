-------------------------- MODULE RegistersProofs --------------------------
(***************************************************************************)
(* The rows, the folders and the reads, for any pages, connections, users, *)
(* filters and threads.                                                    *)
(*                                                                         *)
(* What holds only while dispatch_lock is free becomes inductive once it   *)
(* says what is left to do of the one demolition that holds the lock: a    *)
(* chain may be broken at a row that is still to go, and nowhere else.     *)
(***************************************************************************)
EXTENDS Registers, TLAPS

Paths == {<<c>> : c \in Connection} \cup (Connection \X Page)

Demolitions ==
    [pc : {"demolishing"}, pages : SUBSET Page, connections : SUBSET Connection,
     users : SUBSET AllUser, ordered : BOOLEAN, inside : SUBSET (Connection \X Page),
     after : SUBSET Connection]

Filters == Filter \cup {[user |-> {u}] : u \in User}
ListKeys == ({"page"} \X Page) \cup ({"connection"} \X Connection)

\* The stages of a read: the snapshot, a row's owner, the others.
Readings ==
    LET reading(pcs, keys) ==
            [pc : pcs, filter : Filters, keys : keys, filtered : BOOLEAN,
             rows : SUBSET (Page \cup Connection), answer : SUBSET (Page \cup Connection)]
    IN  reading({"listing"}, SUBSET ListKeys) \cup reading({"owning"}, SUBSET (Page \X Connection))
            \cup reading({"filtering", "answered"}, {{}})

Registrations == [pc : {"registering", "logout"}, conn : Connection]
Openings == [pc : {"opening"}, page : Page, conn : Connection, user : AllUser]
Closings == [pc : {"owner", "closing"}, page : Page, conn : Connection, cascade : BOOLEAN]
Removals == [pc : {"removing"}, left : SUBSET Connection]

\* What a thread is in the middle of.
Operations ==
    {Idle} \cup Registrations \cup Openings \cup Closings \cup Demolitions \cup Removals \cup Readings

Typed ==
    /\ page_items \in [DOMAIN page_items -> Connection] /\ DOMAIN page_items \subseteq DOMAIN minted
    /\ connection_items \in [DOMAIN connection_items -> AllUser] /\ DOMAIN connection_items \subseteq Connection
    /\ user_items \subseteq AllUser
    /\ minted \in [DOMAIN minted -> Connection] /\ DOMAIN minted \subseteq Page
    /\ frozen = [pages |-> frozen.pages, connections |-> frozen.connections]
    /\ frozen.pages \in [DOMAIN frozen.pages -> Connection] /\ DOMAIN frozen.pages \subseteq DOMAIN minted
    /\ frozen.connections \in [DOMAIN frozen.connections -> AllUser]
    /\ DOMAIN frozen.connections \subseteq Connection
    /\ folders \subseteq Paths
    /\ \A c \in Connection, p \in Page : <<c, p>> \in folders => p \in DOMAIN minted
    /\ op \in [Thread -> Operations]

\* dispatch_lock is held by one demolition at most.
OneDemolisher == \A t, u \in Thread : At(t, "demolishing") /\ At(u, "demolishing") => t = u

\* The rows that are still to go.
GoingPages == {p \in Page : \E t \in Thread : At(t, "demolishing") /\ p \in op[t].pages}
GoingConnections == {c \in Connection : \E t \in Thread : At(t, "demolishing") /\ c \in op[t].connections}
GoingUsers == {u \in AllUser : \E t \in Thread : At(t, "demolishing") /\ u \in op[t].users}

\* A link may be missing only at a row that is still to go; what stays does not
\* hang from what goes.
PageLinks ==
    /\ GoingPages \subseteq DOMAIN page_items
    /\ \A p \in DOMAIN page_items \ GoingPages :
          /\ page_items[p] \in DOMAIN connection_items
          /\ page_items[p] \notin GoingConnections
    /\ announced = page_items

ConnectionLinks ==
    /\ GoingConnections \subseteq DOMAIN connection_items
    /\ \A c \in DOMAIN connection_items \ GoingConnections :
          /\ connection_items[c] \in user_items
          /\ connection_items[c] \notin GoingUsers

UserLinks ==
    \A u \in user_items \ GoingUsers :
        \E c \in DOMAIN connection_items \ GoingConnections : connection_items[c] = u

\* A parcel is whole, and shares with the registers only what is still to go.
Parcels ==
    /\ DOMAIN page_items \cap DOMAIN frozen.pages \subseteq GoingPages
    /\ DOMAIN connection_items \cap DOMAIN frozen.connections \subseteq GoingConnections
    /\ \A p \in DOMAIN frozen.pages : frozen.pages[p] \in DOMAIN frozen.connections

\* A connection somebody is about to open a page on, or to register, stays awake.
Awake == \A t \in Thread : op[t].pc \in {"registering", "opening"} => ~Asleep(op[t].conn)

\* The page somebody is about to open is new.
Fresh ==
    \A t \in Thread : At(t, "opening") =>
        /\ op[t].page \in DOMAIN minted
        /\ op[t].page \notin DOMAIN page_items \cup DOMAIN frozen.pages
        /\ \A c \in Connection : <<c, op[t].page>> \notin folders
        /\ \A u \in Thread : At(u, "opening") /\ op[u].page = op[t].page => u = t

RowsInv ==
    /\ Typed /\ OneDemolisher /\ PageLinks /\ ConnectionLinks /\ UserLinks
    /\ Parcels /\ Awake /\ Fresh

\* The folder of c is to be removed, the lock released.
Doomed(c) ==
    \E t \in Thread : \/ At(t, "removing") /\ c \in op[t].left
                      \/ At(t, "demolishing") /\ c \in op[t].after

\* The page p of c is being closed.
Closing(c, p) == \E t \in Thread : At(t, "demolishing") /\ <<c, p>> \in op[t].inside

\* Each folder has a row, living or asleep, or its removal is pending; but for
\* those that were made when the row had gone.
OwnedFolder(c) ==
    \/ c \in DOMAIN connection_items \cup DOMAIN frozen.connections
    \/ Doomed(c)
    \/ \E p \in Page : Closing(c, p)

OwnedSubfolder(c, p) ==
    /\ p \in DOMAIN page_items => page_items[p] = c
    /\ p \in DOMAIN frozen.pages => frozen.pages[p] = c
    /\ p \in DOMAIN page_items \cup DOMAIN frozen.pages \/ Doomed(c) \/ Closing(c, p)

Disk ==
    /\ \A c \in Connection : <<c>> \in folders \ late => OwnedFolder(c)
    /\ \A c \in Connection, p \in Page :
          <<c, p>> \in folders \ late => OwnedFolder(c) /\ OwnedSubfolder(c, p)

\* A row that is still to go sleeps, or its folder goes after it; the folder
\* that goes under the lock is of a page that is not asleep.
Leaving ==
    \A t \in Thread : At(t, "demolishing") =>
        /\ \A p \in op[t].pages :
              /\ p \in DOMAIN frozen.pages => frozen.pages[p] = page_items[p]
              /\ \/ p \in DOMAIN frozen.pages
                 \/ page_items[p] \in op[t].after
                 \/ <<page_items[p], p>> \in op[t].inside
        /\ \A c \in op[t].connections : \/ c \in DOMAIN frozen.connections
                                        \/ c \in op[t].after
                                        \/ \E p \in Page : <<c, p>> \in op[t].inside
        /\ \A c \in Connection, p \in Page : <<c, p>> \in op[t].inside =>
              /\ c \notin DOMAIN frozen.connections /\ p \notin DOMAIN frozen.pages
              /\ p \in DOMAIN page_items => p \in op[t].pages

FoldersInv == RowsInv /\ Disk /\ Leaving
-----------------------------------------------------------------------------
(* The reads. *)

\* The page has been opened: it keeps its connection for ever.
Known(p) == p \in DOMAIN minted /\ \A u \in Thread : At(u, "opening") => op[u].page # p
Settled(p, c) ==
    /\ Known(p)
    /\ p \in DOMAIN page_items => page_items[p] = c
    /\ p \in DOMAIN frozen.pages => frozen.pages[p] = c
Gone(p) == p \notin DOMAIN page_items \cup DOMAIN frozen.pages

\* What a read has in its hands at each of its stages.
ReadShape(t) ==
    /\ At(t, "listing") => op[t].answer = {}
    /\ At(t, "listing") /\ op[t].filtered => op[t].keys \subseteq {"page"} \X Page
    /\ At(t, "owning") => /\ "user" \in DOMAIN op[t].filter
                          /\ \A p \in Page, c \in Connection :
                                <<p, c>> \in op[t].keys => p \in op[t].rows /\ Settled(p, c)
    /\ op[t].pc \in {"filtering", "owning"} => op[t].filtered

\* A page that answers the question all along is in the answer, or still in
\* what the read has left to look at.
Complete(t) ==
    \A p \in steady[t] :
        /\ p \in MatchingAll(op[t].filter, page_items, connection_items, user_items)
        /\ \/ p \in op[t].answer
           \/ ~At(t, "answered") /\ p \in op[t].rows
           \/ At(t, "listing") /\ <<"page", p>> \in op[t].keys
           \/ At(t, "listing") /\ <<"connection", page_items[p]>> \in op[t].keys

\* What a filtered read has taken matched at some time of it, or has gone for
\* ever; an owner not read yet would match only if it has already.
Within(t) ==
    /\ \A p \in op[t].answer : p \in Page /\ Known(p) /\ (p \in ever[t] \/ Gone(p))
    /\ \A p \in op[t].rows : p \in Page /\ Known(p) /\ (NameMatches(op[t].filter, p) => p \in ever[t])
    /\ At(t, "owning") => \A p \in Page, c \in Connection :
          /\ <<p, c>> \in op[t].keys
          /\ ~Gone(p)
          /\ c \in DOMAIN connection_items /\ connection_items[c] \in op[t].filter.user
          => p \in ever[t]

History ==
    /\ DOMAIN steady = Thread /\ DOMAIN ever = Thread
    /\ \A t \in Thread : ~Reads(op[t]) => steady[t] = {} /\ ever[t] = {}

ReadsInv ==
    /\ History
    /\ \A t \in Thread : Reads(op[t]) => ReadShape(t) /\ Complete(t) /\ (op[t].filtered => Within(t))
-----------------------------------------------------------------------------
(* What a thread is in the middle of. *)

ReadPc == {"listing", "filtering", "owning", "answered"}

LEMMA OperationByPc ==
    ASSUME NEW r \in Operations
    PROVE  /\ r.pc \in {"registering", "logout"} => r \in Registrations
           /\ r.pc = "opening" => r \in Openings
           /\ r.pc \in {"owner", "closing"} => r \in Closings
           /\ r.pc = "demolishing" => r \in Demolitions
           /\ r.pc = "removing" => r \in Removals
           /\ r.pc \in ReadPc => r \in Readings
           /\ r.pc = "idle" => r = Idle
           /\ r.pc \in {"idle", "registering", "logout", "opening", "owner", "closing",
                        "demolishing", "removing"} \cup ReadPc
  BY DEF Operations, Registrations, Openings, Closings, Removals, Demolitions, Readings, ReadPc, Idle

LEMMA ReadingByPc ==
    ASSUME NEW r \in Readings
    PROVE  /\ r = [pc |-> r.pc, filter |-> r.filter, keys |-> r.keys, filtered |-> r.filtered,
                   rows |-> r.rows, answer |-> r.answer]
           /\ r.pc \in ReadPc /\ r.filter \in Filters /\ r.filtered \in BOOLEAN
           /\ r.rows \in SUBSET (Page \cup Connection) /\ r.answer \in SUBSET (Page \cup Connection)
           /\ r.pc = "listing" => r.keys \in SUBSET ListKeys
           /\ r.pc = "owning" => r.keys \in SUBSET (Page \X Connection)
           /\ r.pc \in {"filtering", "answered"} => r.keys = {}
  BY DEF Readings, ReadPc

\* t alone goes on, to r.
Only(t, r) ==
    /\ op' \in [Thread -> Operations]
    /\ op'[t] = r
    /\ \A u \in Thread : u # t => op'[u] = op[u]

LEMMA BecomesOnly ==
    ASSUME NEW t \in Thread, op \in [Thread -> Operations], NEW r \in Operations, Becomes(t, r)
    PROVE  Only(t, r)
  BY DEF Becomes, Only

LEMMA JudgedIsReading ==
    ASSUME NEW r \in Readings, r.keys = {}, NEW p \in Page, NEW owners
    PROVE  LET j == Judged(r, p, owners)
           IN  /\ j \in Readings
               /\ j.pc = "filtering" /\ j.filter = r.filter /\ j.filtered = r.filtered
               /\ j.rows = r.rows \ {p}
               /\ j.answer = r.answer \cup {q \in {p} : \/ NameMatches(r.filter, q)
                                                        \/ \E u \in owners : u \in r.filter.user}
  BY DEF Judged, Readings
-----------------------------------------------------------------------------
(* The steps of a read, as a change of what its thread is in the middle of. *)

Rest == UNCHANGED <<rowVars, frozen, minted, announced, folders>>

LEMMA ReadingMade ==
    ASSUME NEW filter \in Filters, NEW keys \in SUBSET ListKeys, NEW filtered \in BOOLEAN
    PROVE  Reading(filter, keys, filtered) \in Readings
  BY DEF Reading, Readings

LEMMA pages_by_filterStep ==
    ASSUME Typed, NEW t \in Thread, NEW filter \in Filter, pages_by_filter(t, filter)
    PROVE  /\ op[t] = Idle /\ Rest
           /\ Only(t, Reading(filter, {<<"page", p>> : p \in DOMAIN page_items}, TRUE))
  <1> DEFINE keys == {<<"page", p>> : p \in DOMAIN page_items}
             r == Reading(filter, keys, TRUE)
  <1>1. keys \in SUBSET ListKeys
    BY DEF Typed, ListKeys
  <1>2. filter \in Filters
    BY DEF Filters
  <1> HIDE DEF keys
  <1>3. r \in Operations
    BY <1>1, <1>2, ReadingMade DEF Operations
  <1>4. Becomes(t, r) /\ Rest /\ At(t, "idle")
    BY DEF pages_by_filter, Rest, keys
  <1> HIDE DEF r
  <1>5. Only(t, r)
    BY <1>3, <1>4, BecomesOnly DEF Typed
  <1>6. op[t] = Idle
    BY <1>4, OperationByPc DEF Typed, At
  <1> QED BY <1>4, <1>5, <1>6 DEF r, keys

LEMMA pages_by_userStep ==
    ASSUME Typed, NEW t \in Thread, NEW u \in User, pages_by_user(t, u)
    PROVE  /\ op[t] = Idle /\ Rest
           /\ Only(t, Reading([user |-> {u}],
                  {<<"connection", c>> : c \in IF u \in user_items THEN ConnectionsOf(u) ELSE {}}, FALSE))
  <1> DEFINE keys == {<<"connection", c>> : c \in IF u \in user_items THEN ConnectionsOf(u) ELSE {}}
             filter == [user |-> {u}]
             r == Reading(filter, keys, FALSE)
  <1>1. keys \in SUBSET ListKeys
    BY DEF Typed, ListKeys, ConnectionsOf
  <1>2. filter \in Filters
    BY DEF Filters
  <1> HIDE DEF keys, filter
  <1>3. r \in Operations
    BY <1>1, <1>2, ReadingMade DEF Operations
  <1>4. Becomes(t, r) /\ Rest /\ At(t, "idle")
    BY DEF pages_by_user, Rest, keys, filter
  <1> HIDE DEF r
  <1>5. Only(t, r)
    BY <1>3, <1>4, BecomesOnly DEF Typed
  <1>6. op[t] = Idle
    BY <1>4, OperationByPc DEF Typed, At
  <1> QED BY <1>4, <1>5, <1>6 DEF r, keys, filter

\* The keys that take the place of one, and the rows it adds.
Edges(key) == IF key[1] = "connection" THEN {<<"page", p>> : p \in PagesOf({key[2]} \cap DOMAIN connection_items)} ELSE {}

LEMMA FetchStep ==
    ASSUME Typed, NEW t \in Thread, At(t, "listing"), NEW key \in op[t].keys, Fetch(t, key)
    PROVE  /\ op[t] \in Readings /\ Rest
           /\ Only(t, [op[t] EXCEPT !.keys = (op[t].keys \ {key}) \cup Edges(key),
                                    !.rows = op[t].rows \cup ({key[2]} \cap DOMAIN page_items)])
           /\ op'[t].pc = "listing" /\ op'[t].filter = op[t].filter /\ op'[t].filtered = op[t].filtered
           /\ op'[t].keys = (op[t].keys \ {key}) \cup Edges(key)
           /\ op'[t].rows = op[t].rows \cup ({key[2]} \cap DOMAIN page_items)
           /\ op'[t].answer = op[t].answer
  <1> DEFINE me == op[t]
             keys == (me.keys \ {key}) \cup Edges(key)
             rows == me.rows \cup ({key[2]} \cap DOMAIN page_items)
             r == [me EXCEPT !.keys = keys, !.rows = rows]
  <1>1. op \in [Thread -> Operations] /\ me \in Operations /\ me.pc = "listing" /\ me \in Readings
    BY OperationByPc DEF Typed, At, ReadPc
  <1>2. Edges(key) \in SUBSET ListKeys
    BY DEF Edges, PagesOf, ListKeys, Typed
  <1>3. keys \in SUBSET ListKeys
    BY <1>1, <1>2, ReadingByPc
  <1>4. rows \in SUBSET (Page \cup Connection)
    BY <1>1, ReadingByPc DEF Typed
  <1>5. op' = [op EXCEPT ![t] = r]
    BY <1>1 DEF Fetch, Edges
  <1>6. Rest
    BY DEF Fetch, Rest
  <1> HIDE DEF keys, rows
  <1>7. /\ r \in Readings
        /\ r.pc = "listing" /\ r.filter = me.filter /\ r.filtered = me.filtered
        /\ r.keys = keys /\ r.rows = rows /\ r.answer = me.answer
    BY <1>1, <1>3, <1>4 DEF Readings
  <1> HIDE DEF r
  <1>8. Only(t, r)
    BY <1>1, <1>5, <1>7 DEF Only, Operations
  <1> QED BY <1>1, <1>6, <1>7, <1>8 DEF r, keys, rows, Only

LEMMA FetchedStep ==
    ASSUME Typed, NEW t \in Thread, Fetched(t)
    PROVE  /\ op[t] \in Readings /\ At(t, "listing") /\ op[t].keys = {} /\ Rest
           /\ \E r \in Readings : Only(t, r)
           /\ op'[t].filter = op[t].filter /\ op'[t].filtered = op[t].filtered
           /\ op[t].filtered => /\ op'[t].pc = "filtering" /\ op'[t].rows = op[t].rows
                                /\ op'[t].answer = op[t].answer
           /\ ~op[t].filtered => op'[t].pc = "answered" /\ op'[t].answer = op[t].rows
  <1> DEFINE me == op[t]
             f == [me EXCEPT !.pc = "filtering"]
             rows == me.rows
             a == [me EXCEPT !.pc = "answered", !.answer = rows]
             r == IF me.filtered THEN f ELSE a
  <1>1. me \in Operations /\ me.pc = "listing" /\ me \in Readings /\ me.keys = {} /\ Rest
        /\ Becomes(t, r)
    BY OperationByPc DEF Typed, At, ReadPc, Fetched, Rest
  <1>2. rows \in SUBSET (Page \cup Connection) /\ me.filtered \in BOOLEAN
    BY <1>1, ReadingByPc
  <1>3. /\ f \in Readings /\ f.pc = "filtering" /\ f.filter = me.filter /\ f.filtered = me.filtered
        /\ f.rows = me.rows /\ f.answer = me.answer
    BY <1>1 DEF Readings
  <1> HIDE DEF rows
  <1>4. /\ a \in Readings /\ a.pc = "answered" /\ a.filter = me.filter /\ a.filtered = me.filtered
        /\ a.answer = rows
    BY <1>1, <1>2 DEF Readings
  <1> HIDE DEF f, a
  <1>5. r \in Readings
    BY <1>3, <1>4
  <1>6. Only(t, r)
    BY <1>1, <1>5, BecomesOnly DEF Typed, Operations
  <1>7. op'[t] = r /\ At(t, "listing")
    BY <1>1, <1>6 DEF Only, At
  <1> QED BY <1>1, <1>2, <1>3, <1>4, <1>5, <1>6, <1>7 DEF rows

LEMMA FilterItemStep ==
    ASSUME Typed, NEW t \in Thread, NEW p \in Page, FilterItem(t, p)
    PROVE  /\ op[t] \in Readings /\ At(t, "filtering") /\ p \in op[t].rows /\ Rest
           /\ \E r \in Readings : Only(t, r)
           /\ op'[t].filter = op[t].filter /\ op'[t].filtered = op[t].filtered
           /\ \/ /\ "user" \in DOMAIN op[t].filter /\ p \in DOMAIN page_items
                 /\ op'[t].pc = "owning" /\ op'[t].keys = {<<p, page_items[p]>>}
                 /\ op'[t].rows = op[t].rows /\ op'[t].answer = op[t].answer
              \/ /\ ~("user" \in DOMAIN op[t].filter /\ p \in DOMAIN page_items)
                 /\ op'[t].pc = "filtering" /\ op'[t].rows = op[t].rows \ {p}
                 /\ op'[t].answer = op[t].answer \cup {q \in {p} : NameMatches(op[t].filter, q)}
  <1> DEFINE me == op[t]
  <1>1. /\ me \in Operations /\ me.pc = "filtering" /\ me \in Readings /\ me.keys = {}
        /\ p \in me.rows /\ Rest
    BY OperationByPc, ReadingByPc DEF Typed, At, ReadPc, FilterItem, Rest
  <1>2. CASE "user" \in DOMAIN me.filter /\ p \in DOMAIN page_items
    <2> DEFINE keys == {<<p, page_items[p]>>}
               r == [me EXCEPT !.pc = "owning", !.keys = keys]
    <2>1. keys \in SUBSET (Page \X Connection)
      BY <1>2 DEF Typed
    <2>2. Becomes(t, r)
      BY <1>2 DEF FilterItem
    <2> HIDE DEF keys
    <2>3. /\ r \in Readings /\ r.pc = "owning" /\ r.keys = keys /\ r.filter = me.filter
          /\ r.filtered = me.filtered /\ r.rows = me.rows /\ r.answer = me.answer
      BY <1>1, <2>1 DEF Readings
    <2> HIDE DEF r
    <2>4. Only(t, r)
      BY <2>2, <2>3, BecomesOnly DEF Typed, Operations
    <2> QED BY <1>1, <1>2, <2>3, <2>4 DEF Only, At, keys
  <1>3. CASE ~("user" \in DOMAIN me.filter /\ p \in DOMAIN page_items)
    <2> DEFINE r == Judged(me, p, {})
    <2>1. Becomes(t, r)
      BY <1>3 DEF FilterItem
    <2>2. /\ r \in Readings /\ r.pc = "filtering" /\ r.filter = me.filter /\ r.filtered = me.filtered
          /\ r.rows = me.rows \ {p}
          /\ r.answer = me.answer \cup {q \in {p} : \/ NameMatches(me.filter, q)
                                                    \/ \E u \in {} : u \in me.filter.user}
      BY <1>1, JudgedIsReading
    <2> HIDE DEF r
    <2>3. r.answer = me.answer \cup {q \in {p} : NameMatches(me.filter, q)}
      BY <2>2
    <2>4. Only(t, r)
      BY <2>1, <2>2, BecomesOnly DEF Typed, Operations
    <2> QED BY <1>1, <1>3, <2>2, <2>3, <2>4 DEF Only, At
  <1> QED BY <1>2, <1>3

LEMMA OwnerFoundStep ==
    ASSUME Typed, NEW t \in Thread, At(t, "owning"), OwnerFound(t)
    PROVE  /\ op[t] \in Readings /\ Rest
           /\ \E r \in Readings : Only(t, r)
           /\ op'[t].filter = op[t].filter /\ op'[t].filtered = op[t].filtered
           /\ op'[t].pc = "filtering"
           /\ \E p \in Page, c \in Connection :
                 /\ <<p, c>> \in op[t].keys
                 /\ op'[t].rows = op[t].rows \ {p}
                 /\ op'[t].answer = op[t].answer \cup
                       {q \in {p} : \/ NameMatches(op[t].filter, q)
                                    \/ c \in DOMAIN connection_items /\ connection_items[c] \in op[t].filter.user}
  <1> DEFINE me == op[t]
             none == {}
             m == [me EXCEPT !.keys = none]
  <1>1. me \in Operations /\ me.pc = "owning" /\ me \in Readings /\ me.keys \in SUBSET (Page \X Connection)
    BY OperationByPc, ReadingByPc DEF Typed, At, ReadPc
  <1>2. PICK key \in me.keys :
          /\ Becomes(t, Judged(m, key[1], {connection_items[c] : c \in {key[2]} \cap DOMAIN connection_items}))
          /\ Rest
    BY DEF OwnerFound, Rest
  <1>3. key \in Page \X Connection
    BY <1>1
  <1>4. PICK p \in Page, c \in Connection : key = <<p, c>>
    BY <1>3
  <1> DEFINE owners == {connection_items[d] : d \in {c} \cap DOMAIN connection_items}
             r == Judged(m, p, owners)
  <1>5. Becomes(t, r)
    BY <1>2, <1>4
  <1>7. /\ r \in Readings /\ r.pc = "filtering" /\ r.filter = me.filter /\ r.filtered = me.filtered
        /\ r.rows = me.rows \ {p}
        /\ r.answer = me.answer \cup {q \in {p} : \/ NameMatches(me.filter, q)
                                                  \/ \E u \in owners : u \in me.filter.user}
    <2> HIDE DEF owners
    <2> QED BY <1>1 DEF Judged, Readings
  <1>8. r.answer = me.answer \cup
            {q \in {p} : \/ NameMatches(me.filter, q)
                         \/ c \in DOMAIN connection_items /\ connection_items[c] \in me.filter.user}
    <2>1. (\E u \in owners : u \in me.filter.user)
             <=> (c \in DOMAIN connection_items /\ connection_items[c] \in me.filter.user)
      OBVIOUS
    <2> HIDE DEF owners, r
    <2> QED BY <1>7, <2>1
  <1> HIDE DEF r
  <1>9. Only(t, r)
    BY <1>5, <1>7, BecomesOnly DEF Typed, Operations
  <1> QED BY <1>1, <1>2, <1>4, <1>7, <1>8, <1>9 DEF Only

LEMMA FilteredStep ==
    ASSUME Typed, NEW t \in Thread, Filtered(t)
    PROVE  /\ op[t] \in Readings /\ At(t, "filtering") /\ op[t].rows = {} /\ Rest
           /\ \E r \in Readings : Only(t, r)
           /\ op'[t].filter = op[t].filter /\ op'[t].filtered = op[t].filtered
           /\ op'[t].pc = "answered" /\ op'[t].answer = op[t].answer /\ op'[t].rows = op[t].rows
  <1> DEFINE me == op[t]
             r == [me EXCEPT !.pc = "answered"]
  <1>1. me \in Operations /\ me.pc = "filtering" /\ me \in Readings /\ me.rows = {} /\ Rest
        /\ Becomes(t, r)
    BY OperationByPc DEF Typed, At, ReadPc, Filtered, Rest
  <1>2. /\ r \in Readings /\ r.pc = "answered" /\ r.filter = me.filter /\ r.filtered = me.filtered
        /\ r.rows = me.rows /\ r.answer = me.answer
    BY <1>1 DEF Readings
  <1> HIDE DEF r
  <1>3. Only(t, r)
    BY <1>1, <1>2, BecomesOnly DEF Typed, Operations
  <1> QED BY <1>1, <1>2, <1>3 DEF Only, At

LEMMA ReadEndsStep ==
    ASSUME Typed, NEW t \in Thread, ReadEnds(t)
    PROVE  op[t] \in Readings /\ Rest /\ Only(t, Idle)
  <1>1. op[t] \in Readings /\ Rest /\ Becomes(t, Idle)
    BY OperationByPc DEF Typed, At, ReadPc, ReadEnds, Rest
  <1> QED BY <1>1, BecomesOnly DEF Typed, Operations

\* A read leaves all but its own thread alone.
LEMMA ReadStep ==
    ASSUME Typed, NEW t \in Thread, Read(t)
    PROVE  /\ op[t] \in Readings \cup {Idle} /\ Rest
           /\ \E r \in Readings \cup {Idle} : Only(t, r)
  <1>1. ASSUME NEW filter \in Filter, pages_by_filter(t, filter)
        PROVE  op[t] = Idle /\ Rest /\ \E r \in Readings : Only(t, r)
    <2>1. {<<"page", p>> : p \in DOMAIN page_items} \in SUBSET ListKeys
      BY DEF Typed, ListKeys
    <2> QED BY <1>1, <2>1, pages_by_filterStep, ReadingMade DEF Filters
  <1>2. ASSUME NEW u \in User, pages_by_user(t, u)
        PROVE  op[t] = Idle /\ Rest /\ \E r \in Readings : Only(t, r)
    <2> DEFINE keys == {<<"connection", c>> : c \in IF u \in user_items THEN ConnectionsOf(u) ELSE {}}
               filter == [user |-> {u}]
    <2>1. keys \in SUBSET ListKeys
      BY DEF Typed, ListKeys, ConnectionsOf
    <2>4. filter \in Filters
      BY DEF Filters
    <2>2. op[t] = Idle /\ Rest /\ Only(t, Reading(filter, keys, FALSE))
      BY <1>2, pages_by_userStep
    <2> HIDE DEF keys, filter
    <2>3. Reading(filter, keys, FALSE) \in Readings
      BY <2>1, <2>4, ReadingMade
    <2> QED BY <2>2, <2>3
  <1>3. ASSUME At(t, "listing"), NEW key \in op[t].keys, Fetch(t, key)
        PROVE  op[t] \in Readings /\ Rest /\ \E r \in Readings : Only(t, r)
    <2>1. op[t] \in Readings /\ Rest /\ op'[t].pc = "listing" /\ \E r : Only(t, r)
      BY <1>3, FetchStep
    <2>2. op'[t] \in Operations
      BY <2>1 DEF Only
    <2>3. op'[t] \in Readings
      BY <2>1, <2>2, OperationByPc DEF ReadPc
    <2> QED BY <2>1, <2>3 DEF Only
  <1>4. ASSUME NEW p \in Page, FilterItem(t, p)
        PROVE  op[t] \in Readings /\ Rest /\ \E r \in Readings : Only(t, r)
    BY <1>4, FilterItemStep
  <1>5. ASSUME At(t, "owning"), OwnerFound(t)
        PROVE  op[t] \in Readings /\ Rest /\ \E r \in Readings : Only(t, r)
    BY <1>5, OwnerFoundStep
  <1>6. ASSUME Fetched(t)
        PROVE  op[t] \in Readings /\ Rest /\ \E r \in Readings : Only(t, r)
    BY <1>6, FetchedStep
  <1>7. ASSUME Filtered(t)
        PROVE  op[t] \in Readings /\ Rest /\ \E r \in Readings : Only(t, r)
    BY <1>7, FilteredStep
  <1>8. ASSUME ReadEnds(t)
        PROVE  op[t] \in Readings /\ Rest /\ Only(t, Idle)
    BY <1>8, ReadEndsStep
  <1> QED BY <1>1, <1>2, <1>3, <1>4, <1>5, <1>6, <1>7, <1>8, Zenon DEF Read
-----------------------------------------------------------------------------
(* Steps that leave the rows alone. *)

LEMMA NothingGoing ==
    ASSUME Unlocked
    PROVE  GoingPages = {} /\ GoingConnections = {} /\ GoingUsers = {} /\ OneDemolisher
  BY DEF Unlocked, GoingPages, GoingConnections, GoingUsers, OneDemolisher

\* The rows, the parcels and the demolition under way stay as they are.
Still ==
    /\ page_items' = page_items /\ connection_items' = connection_items
    /\ user_items' = user_items /\ frozen' = frozen /\ announced' = announced
    /\ \A u \in Thread : op'[u].pc = "demolishing" \/ op[u].pc = "demolishing" => op'[u] = op[u]

LEMMA StillKeepsLinks ==
    ASSUME Still, OneDemolisher, PageLinks, ConnectionLinks, UserLinks, Parcels
    PROVE  OneDemolisher' /\ PageLinks' /\ ConnectionLinks' /\ UserLinks' /\ Parcels'
  <1>1. GoingPages' = GoingPages
    BY DEF Still, GoingPages, At
  <1>2. GoingConnections' = GoingConnections
    BY DEF Still, GoingConnections, At
  <1>3. GoingUsers' = GoingUsers
    BY DEF Still, GoingUsers, At
  <1>4. OneDemolisher'
    BY DEF Still, OneDemolisher, At
  <1>5. PageLinks'
    BY <1>1, <1>2 DEF PageLinks, Still
  <1>6. ConnectionLinks'
    BY <1>2, <1>3 DEF ConnectionLinks, Still
  <1>7. UserLinks'
    BY <1>2, <1>3 DEF UserLinks, Still
  <1>8. Parcels'
    BY <1>1, <1>2 DEF Parcels, Still
  <1> QED BY <1>4, <1>5, <1>6, <1>7, <1>8

\* t goes on without the lock.
Calm(t) ==
    /\ page_items' = page_items /\ connection_items' = connection_items
    /\ user_items' = user_items /\ frozen' = frozen /\ announced' = announced
    /\ DOMAIN minted \subseteq DOMAIN minted' /\ DOMAIN minted' \subseteq Page
    /\ minted' \in [DOMAIN minted' -> Connection] /\ \A p \in DOMAIN minted : minted'[p] = minted[p]
    /\ folders' \subseteq folders
    /\ op' \in [Thread -> Operations]
    /\ \A u \in Thread : u # t => op'[u] = op[u]
    /\ ~At(t, "demolishing") /\ op'[t].pc # "demolishing"
    /\ op'[t].pc \in {"registering", "opening"} => ~Asleep(op'[t].conn)
    /\ op'[t].pc = "opening" => /\ op'[t].page \in DOMAIN minted' \ DOMAIN minted
                                 /\ op'[t].conn = minted'[op'[t].page]

LEMMA CalmKeepsRows ==
    ASSUME NEW t \in Thread, RowsInv, Calm(t)
    PROVE  RowsInv'
  <1>1. Still
    BY DEF Calm, Still, At
  <1>2. OneDemolisher' /\ PageLinks' /\ ConnectionLinks' /\ UserLinks' /\ Parcels'
    BY <1>1, StillKeepsLinks DEF RowsInv
  <1>3. Typed'
    BY DEF RowsInv, Typed, Calm
  <1>4. Awake'
    BY DEF RowsInv, Awake, Calm, Asleep
  <1>5. Fresh'
    <2> SUFFICES ASSUME NEW u \in Thread, op'[u].pc = "opening"
                 PROVE  /\ op'[u].page \in DOMAIN minted'
                        /\ op'[u].page \notin DOMAIN page_items' \cup DOMAIN frozen'.pages
                        /\ \A c \in Connection : <<c, op'[u].page>> \notin folders'
                        /\ \A v \in Thread : op'[v].pc = "opening" /\ op'[v].page = op'[u].page => v = u
      BY DEF Fresh, At
    <2>1. CASE u = t
      <3>1. op'[t].page \in DOMAIN minted' \ DOMAIN minted /\ op'[t].page \in Page
        BY <2>1 DEF Calm
      <3>2. op'[t].page \notin DOMAIN page_items \cup DOMAIN frozen.pages
        BY <3>1 DEF RowsInv, Typed
      <3>3. \A c \in Connection : <<c, op'[t].page>> \notin folders
        BY <3>1 DEF RowsInv, Typed
      <3>4. \A v \in Thread : v # t /\ op[v].pc = "opening" => op[v].page \in DOMAIN minted
        BY DEF RowsInv, Fresh, At
      <3> QED BY <2>1, <3>1, <3>2, <3>3, <3>4 DEF Calm
    <2>2. CASE u # t
      <3>1. op'[u] = op[u] /\ op[u].pc = "opening"
        BY <2>2 DEF Calm
      <3>2. /\ op[u].page \in DOMAIN minted
            /\ op[u].page \notin DOMAIN page_items \cup DOMAIN frozen.pages
            /\ \A c \in Connection : <<c, op[u].page>> \notin folders
            /\ \A v \in Thread : op[v].pc = "opening" /\ op[v].page = op[u].page => v = u
        BY <3>1 DEF RowsInv, Fresh, At
      <3>3. op'[t].pc = "opening" => op'[t].page # op[u].page
        BY <3>2 DEF Calm
      <3> QED BY <3>1, <3>2, <3>3 DEF Calm
    <2> QED BY <2>1, <2>2
  <1> QED BY <1>2, <1>3, <1>4, <1>5 DEF RowsInv

\* The calls that ask for a row before the lock, and the reads.
LEMMA CalmSteps ==
    ASSUME NEW t \in Thread, RowsInv,
           \/ \E c \in Connection : new_connection(t, c) \/ \E p \in Page : new_page(t, p, c)
           \/ \E p \in Page, cascade \in BOOLEAN : drop_page(t, p, cascade)
           \/ \E c \in Connection : drop_connection(t, c)
           \/ FindOwner(t)
           \/ Read(t)
    PROVE  Calm(t) /\ ~At(t, "removing") /\ folders' = folders
  <1>0. op \in [Thread -> Operations] /\ op[t] \in Operations /\ Typed
    BY DEF RowsInv, Typed
  <1>1. ASSUME NEW c \in Connection, new_connection(t, c)
        PROVE  Calm(t) /\ ~At(t, "removing") /\ folders' = folders
    <2> DEFINE r == [pc |-> "registering", conn |-> c]
    <2>1. r \in Operations /\ r.pc = "registering" /\ r.conn = c
      BY DEF Operations, Registrations
    <2>2. Becomes(t, r) /\ Rest /\ At(t, "idle") /\ ~Asleep(c)
      BY <1>1 DEF new_connection, Rest
    <2> HIDE DEF r
    <2>3. Only(t, r)
      BY <1>0, <2>1, <2>2, BecomesOnly
    <2> QED BY <1>0, <2>1, <2>2, <2>3 DEF Only, Calm, Rest, rowVars, At, Typed
  <1>2. ASSUME NEW c \in Connection, NEW p \in Page, new_page(t, p, c)
        PROVE  Calm(t) /\ ~At(t, "removing") /\ folders' = folders
    <2> DEFINE u == connection_items[c]
               r == [pc |-> "opening", page |-> p, conn |-> c, user |-> u]
    <2>1. u \in AllUser
      BY <1>0, <1>2 DEF new_page, Typed
    <2>2. Becomes(t, r) /\ At(t, "idle") /\ ~Asleep(c)
      BY <1>2 DEF new_page
    <2> HIDE DEF u
    <2>3. r \in Operations /\ r.pc = "opening" /\ r.conn = c /\ r.page = p
      BY <2>1 DEF Operations, Openings
    <2> HIDE DEF r
    <2>4. Only(t, r)
      BY <1>0, <2>2, <2>3, BecomesOnly
    <2>5. /\ minted' = [q \in DOMAIN minted \cup {p} |-> IF q = p THEN c ELSE minted[q]]
          /\ p \notin DOMAIN minted /\ folders' = folders
          /\ page_items' = page_items /\ connection_items' = connection_items
          /\ user_items' = user_items /\ frozen' = frozen /\ announced' = announced
      BY <1>2 DEF new_page, rowVars, Put
    <2> QED BY <1>0, <2>2, <2>3, <2>4, <2>5 DEF Only, Calm, At, Typed
  <1>3. ASSUME NEW p \in Page, NEW cascade \in BOOLEAN, drop_page(t, p, cascade)
        PROVE  Calm(t) /\ ~At(t, "removing") /\ folders' = folders
    <2> DEFINE c == page_items[p]
               r == [pc |-> "owner", page |-> p, conn |-> c, cascade |-> cascade]
    <2>1. c \in Connection
      BY <1>0, <1>3 DEF drop_page, Typed
    <2>2. Becomes(t, r) /\ Rest /\ At(t, "idle")
      BY <1>3 DEF drop_page, Rest
    <2> HIDE DEF c
    <2>3. r \in Operations /\ r.pc = "owner"
      BY <2>1 DEF Operations, Closings
    <2> HIDE DEF r
    <2>4. Only(t, r)
      BY <1>0, <2>2, <2>3, BecomesOnly
    <2> QED BY <1>0, <2>2, <2>3, <2>4 DEF Only, Calm, Rest, rowVars, At, Typed
  <1>4. ASSUME NEW c \in Connection, drop_connection(t, c)
        PROVE  Calm(t) /\ ~At(t, "removing") /\ folders' = folders
    <2> DEFINE r == [pc |-> "logout", conn |-> c]
    <2>1. r \in Operations /\ r.pc = "logout"
      BY DEF Operations, Registrations
    <2>2. Becomes(t, r) /\ Rest /\ At(t, "idle")
      BY <1>4 DEF drop_connection, Rest
    <2> HIDE DEF r
    <2>3. Only(t, r)
      BY <1>0, <2>1, <2>2, BecomesOnly
    <2> QED BY <1>0, <2>1, <2>2, <2>3 DEF Only, Calm, Rest, rowVars, At, Typed
  <1>5. CASE FindOwner(t)
    <2> DEFINE me == op[t]
               closing == [me EXCEPT !.pc = "closing"]
               r == IF me.conn \in DOMAIN connection_items THEN closing ELSE Idle
    <2>1. me.pc = "owner" /\ me \in Closings
      BY <1>0, <1>5, OperationByPc DEF FindOwner, At
    <2>2. closing \in Operations /\ closing.pc = "closing" /\ Idle \in Operations /\ Idle.pc = "idle"
      BY <2>1 DEF Operations, Closings, Idle
    <2>3. Becomes(t, r) /\ Rest
      BY <1>5 DEF FindOwner, Rest
    <2> HIDE DEF closing
    <2>4. r \in Operations /\ r.pc \in {"closing", "idle"}
      BY <2>2
    <2> HIDE DEF r
    <2>5. Only(t, r)
      BY <1>0, <2>3, <2>4, BecomesOnly
    <2> QED BY <1>0, <2>1, <2>3, <2>4, <2>5 DEF Only, Calm, Rest, rowVars, At, Typed
  <1>6. CASE Read(t)
    <2>1. op[t] \in Readings \cup {Idle} /\ Rest
      BY <1>0, <1>6, ReadStep
    <2>2. PICK r \in Readings \cup {Idle} : Only(t, r)
      BY <1>0, <1>6, ReadStep
    <2>3. op[t].pc \in ReadPc \cup {"idle"} /\ r.pc \in ReadPc \cup {"idle"}
      BY <2>1, ReadingByPc DEF Idle
    <2> QED BY <1>0, <2>1, <2>2, <2>3 DEF Only, Calm, Rest, rowVars, At, Typed, ReadPc
  <1> QED BY <1>1, <1>2, <1>3, <1>4, <1>5, <1>6
-----------------------------------------------------------------------------
(* Steps that write the rows under the lock, none being taken away. *)

\* The links and the parcels when nothing is to go.
Linked ==
    /\ \A p \in DOMAIN page_items : page_items[p] \in DOMAIN connection_items
    /\ \A c \in DOMAIN connection_items : connection_items[c] \in user_items
    /\ \A u \in user_items : \E c \in DOMAIN connection_items : connection_items[c] = u
    /\ DOMAIN page_items \cap DOMAIN frozen.pages = {}
    /\ DOMAIN connection_items \cap DOMAIN frozen.connections = {}
    /\ \A p \in DOMAIN frozen.pages : frozen.pages[p] \in DOMAIN frozen.connections
    /\ announced = page_items

LEMMA LinkedWhenUnlocked ==
    ASSUME Unlocked
    PROVE  PageLinks /\ ConnectionLinks /\ UserLinks /\ Parcels <=> Linked
  <1>1. GoingPages = {} /\ GoingConnections = {} /\ GoingUsers = {}
    BY NothingGoing
  <1> QED BY <1>1 DEF PageLinks, ConnectionLinks, UserLinks, Parcels, Linked

LEMMA LinkedAfterwards ==
    ASSUME Unlocked', Linked'
    PROVE  OneDemolisher' /\ PageLinks' /\ ConnectionLinks' /\ UserLinks' /\ Parcels'
  <1>1. GoingPages' = {} /\ GoingConnections' = {} /\ GoingUsers' = {} /\ OneDemolisher'
    BY DEF Unlocked, GoingPages, GoingConnections, GoingUsers, OneDemolisher
  <1> QED BY <1>1 DEF PageLinks, ConnectionLinks, UserLinks, Parcels, Linked

LEMMA RegisterKeepsRows ==
    ASSUME NEW t \in Thread, RowsInv, Register(t)
    PROVE  RowsInv' /\ Only(t, Idle) /\ At(t, "registering")
  <1> DEFINE c == op[t].conn
  <1>0. Typed /\ Linked /\ Unlocked /\ op \in [Thread -> Operations]
    BY LinkedWhenUnlocked DEF RowsInv, Register, Typed
  <1>1. At(t, "registering") /\ op[t] \in Registrations /\ c \in Connection /\ ~Asleep(c)
    BY <1>0, OperationByPc DEF Register, At, Typed, Registrations, RowsInv, Awake
  <1>2. Only(t, Idle) /\ Idle.pc = "idle"
    BY <1>0, BecomesOnly DEF Register, Operations, Idle
  <1>3. /\ page_items' = page_items /\ frozen' = frozen /\ minted' = minted /\ announced' = announced
        /\ folders' = folders
    BY DEF Register
  <1>4. /\ DOMAIN connection_items' = DOMAIN connection_items \cup {c}
        /\ connection_items' = [d \in DOMAIN connection_items' |-> connection_items'[d]]
        /\ \A d \in DOMAIN connection_items : connection_items'[d] = connection_items[d]
        /\ c \notin DOMAIN connection_items => connection_items'[c] = Guest(c)
        /\ user_items' = user_items \cup {connection_items'[c]}
    BY DEF Register, Joined, Put, EmptyMap
  <1>5. \A d \in DOMAIN connection_items' : connection_items'[d] \in AllUser
    BY <1>0, <1>1, <1>4 DEF Typed, AllUser
  <1>6. Typed'
    BY <1>0, <1>1, <1>2, <1>3, <1>4, <1>5 DEF Typed, Only
  <1>7. Unlocked'
    BY <1>0, <1>2 DEF Unlocked, At, Only
  <1>8. Linked'
    BY <1>0, <1>1, <1>3, <1>4 DEF Linked, Asleep
  <1>9. OneDemolisher' /\ PageLinks' /\ ConnectionLinks' /\ UserLinks' /\ Parcels'
    BY <1>7, <1>8, LinkedAfterwards
  <1>10. Awake' /\ Fresh'
    BY <1>2, <1>3 DEF RowsInv, Awake, Fresh, Only, At, Asleep
  <1> QED BY <1>1, <1>2, <1>6, <1>9, <1>10 DEF RowsInv

LEMMA OpenKeepsRows ==
    ASSUME NEW t \in Thread, RowsInv, Open(t)
    PROVE  RowsInv' /\ Only(t, Idle) /\ At(t, "opening")
  <1> DEFINE c == op[t].conn
             p == op[t].page
  <1>0. Typed /\ Linked /\ Unlocked /\ op \in [Thread -> Operations]
    BY LinkedWhenUnlocked DEF RowsInv, Open, Typed
  <1>1. /\ At(t, "opening") /\ op[t] \in Openings /\ c \in Connection /\ ~Asleep(c) /\ p \in Page
        /\ op[t].user \in AllUser
    BY <1>0, OperationByPc DEF Open, At, Typed, Openings, RowsInv, Awake
  <1>a. /\ p \in DOMAIN minted /\ p \notin DOMAIN page_items \cup DOMAIN frozen.pages
        /\ \A d \in Connection : <<d, p>> \notin folders
        /\ \A u \in Thread : At(u, "opening") /\ op[u].page = p => u = t
    BY <1>1 DEF RowsInv, Fresh
  <1>2. Only(t, Idle) /\ Idle.pc = "idle"
    BY <1>0, BecomesOnly DEF Open, Operations, Idle
  <1>3. frozen' = frozen /\ minted' = minted /\ folders' = folders
    BY DEF Open
  <1>4. /\ DOMAIN connection_items' = DOMAIN connection_items \cup {c}
        /\ connection_items' = [d \in DOMAIN connection_items' |-> connection_items'[d]]
        /\ \A d \in DOMAIN connection_items : connection_items'[d] = connection_items[d]
        /\ c \notin DOMAIN connection_items => connection_items'[c] = op[t].user
        /\ user_items' = user_items \cup {connection_items'[c]}
    BY DEF Open, Joined, Put, EmptyMap
  <1>5. \A d \in DOMAIN connection_items' : connection_items'[d] \in AllUser
    BY <1>0, <1>1, <1>4 DEF Typed
  <1>b. /\ DOMAIN page_items' = DOMAIN page_items \cup {p}
        /\ page_items' = [q \in DOMAIN page_items' |-> page_items'[q]]
        /\ \A q \in DOMAIN page_items : page_items'[q] = page_items[q]
        /\ page_items'[p] = c
        /\ announced' = page_items'
    <2>1. announced = page_items
      BY <1>0 DEF Linked
    <2> QED BY <1>a, <2>1 DEF Open, Put
  <1>6. Typed'
    BY <1>0, <1>1, <1>2, <1>3, <1>4, <1>5, <1>a, <1>b DEF Typed, Only
  <1>7. Unlocked'
    BY <1>0, <1>2 DEF Unlocked, At, Only
  <1>8. Linked'
    BY <1>0, <1>1, <1>3, <1>4, <1>a, <1>b DEF Linked, Asleep
  <1>9. OneDemolisher' /\ PageLinks' /\ ConnectionLinks' /\ UserLinks' /\ Parcels'
    BY <1>7, <1>8, LinkedAfterwards
  <1>10. Awake'
    BY <1>2, <1>3 DEF RowsInv, Awake, Only, At, Asleep
  <1>11. Fresh'
    BY <1>2, <1>3, <1>a, <1>b DEF RowsInv, Fresh, Only, At
  <1> QED BY <1>1, <1>2, <1>6, <1>9, <1>10, <1>11 DEF RowsInv

LEMMA LoginKeepsRows ==
    ASSUME NEW t \in Thread, RowsInv, NEW c \in Connection, NEW u \in User,
           change_connection_user(t, c, u)
    PROVE  RowsInv'
  <1>0. Typed /\ Linked /\ Unlocked /\ u \in AllUser
    BY LinkedWhenUnlocked DEF RowsInv, change_connection_user, AllUser
  <1>1. /\ page_items' = page_items /\ frozen' = frozen /\ minted' = minted /\ announced' = announced
        /\ folders' = folders /\ op' = op
    BY DEF change_connection_user
  <1>2. /\ c \in DOMAIN connection_items
        /\ DOMAIN connection_items' = DOMAIN connection_items
        /\ connection_items' \in [DOMAIN connection_items' -> AllUser]
    BY <1>0 DEF change_connection_user, Typed
  <1>3. user_items' = {v \in user_items \cup {u} : \E d \in DOMAIN connection_items' : connection_items'[d] = v}
    BY <1>0, <1>2 DEF change_connection_user, Typed
  <1>4. \A d \in DOMAIN connection_items' : connection_items'[d] \in user_items \cup {u}
    BY <1>0, <1>2 DEF change_connection_user, Linked
  <1>5. Typed'
    BY <1>0, <1>1, <1>2, <1>3 DEF Typed
  <1>6. Unlocked'
    BY <1>0, <1>1 DEF Unlocked, At
  <1>7. Linked'
    BY <1>0, <1>1, <1>2, <1>3, <1>4 DEF Linked
  <1>8. OneDemolisher' /\ PageLinks' /\ ConnectionLinks' /\ UserLinks' /\ Parcels'
    BY <1>6, <1>7, LinkedAfterwards
  <1>9. Awake' /\ Fresh'
    BY <1>1 DEF RowsInv, Awake, Fresh, At, Asleep
  <1> QED BY <1>5, <1>8, <1>9 DEF RowsInv

LEMMA WakeKeepsRows ==
    ASSUME NEW t \in Thread, RowsInv, NEW c \in Connection, wake(t, c)
    PROVE  RowsInv'
  <1> DEFINE woken == {p \in DOMAIN frozen.pages : frozen.pages[p] = c}
  <1>0. Typed /\ Linked /\ Unlocked
    BY LinkedWhenUnlocked DEF RowsInv, wake
  <1>1. minted' = minted /\ folders' = folders /\ op' = op /\ c \in DOMAIN frozen.connections
    BY DEF wake
  <1>2. /\ DOMAIN connection_items' = DOMAIN connection_items \cup {c}
        /\ connection_items' = [d \in DOMAIN connection_items' |-> connection_items'[d]]
        /\ \A d \in DOMAIN connection_items : d # c => connection_items'[d] = connection_items[d]
        /\ connection_items'[c] = frozen.connections[c]
        /\ user_items' = user_items \cup {frozen.connections[c]}
    BY DEF wake, Put
  <1>3. /\ DOMAIN page_items' = DOMAIN page_items \cup woken
        /\ page_items' = [q \in DOMAIN page_items' |-> page_items'[q]]
        /\ \A q \in DOMAIN page_items : q \notin woken => page_items'[q] = page_items[q]
        /\ \A q \in woken : page_items'[q] = c
        /\ announced' = page_items'
    <2>1. announced = page_items
      BY <1>0 DEF Linked
    <2> QED BY <2>1 DEF wake, Joined, Restrict
  <1>4. /\ frozen' = [pages |-> frozen'.pages, connections |-> frozen'.connections]
        /\ frozen'.pages = [q \in DOMAIN frozen.pages \ woken |-> frozen.pages[q]]
        /\ frozen'.connections = [d \in DOMAIN frozen.connections \ {c} |-> frozen.connections[d]]
    BY DEF wake, Popped, Restrict
  <1>5. c \notin DOMAIN connection_items /\ woken \cap DOMAIN page_items = {}
    BY <1>0, <1>1 DEF Linked
  <1>6. Typed'
    <2>1. page_items' \in [DOMAIN page_items' -> Connection] /\ DOMAIN page_items' \subseteq DOMAIN minted'
      BY <1>0, <1>1, <1>3 DEF Typed
    <2>2. /\ connection_items' \in [DOMAIN connection_items' -> AllUser]
          /\ DOMAIN connection_items' \subseteq Connection /\ user_items' \subseteq AllUser
      BY <1>0, <1>1, <1>2 DEF Typed
    <2>3. /\ frozen'.pages \in [DOMAIN frozen'.pages -> Connection] /\ DOMAIN frozen'.pages \subseteq DOMAIN minted'
          /\ frozen'.connections \in [DOMAIN frozen'.connections -> AllUser]
          /\ DOMAIN frozen'.connections \subseteq Connection
      BY <1>0, <1>1, <1>4 DEF Typed
    <2> QED BY <1>0, <1>1, <1>4, <2>1, <2>2, <2>3 DEF Typed
  <1>7. Unlocked'
    BY <1>0, <1>1 DEF Unlocked, At
  <1>8. Linked'
    <2> HIDE DEF woken
    <2>1. \A q \in DOMAIN frozen.pages \ woken : frozen.pages[q] \in DOMAIN frozen.connections \ {c}
      BY <1>0 DEF Linked, woken
    <2> QED BY <1>0, <1>2, <1>3, <1>4, <1>5, <2>1 DEF Linked
  <1>9. OneDemolisher' /\ PageLinks' /\ ConnectionLinks' /\ UserLinks' /\ Parcels'
    BY <1>7, <1>8, LinkedAfterwards
  <1>10. Awake'
    BY <1>1, <1>4 DEF RowsInv, Awake, At, Asleep
  <1>11. Fresh'
    BY <1>1, <1>3, <1>4 DEF RowsInv, Fresh, At
  <1> QED BY <1>6, <1>9, <1>10, <1>11 DEF RowsInv

LEMMA WriteFolderKeepsRows ==
    ASSUME RowsInv, NEW p \in Writer, WriteFolder(p)
    PROVE  RowsInv'
  <1>0. Typed /\ p \in DOMAIN minted /\ minted[p] \in Connection /\ p \in Page
    BY DEF RowsInv, Typed, WriteFolder
  <1>1. /\ page_items' = page_items /\ connection_items' = connection_items /\ user_items' = user_items
        /\ frozen' = frozen /\ announced' = announced /\ minted' = minted /\ op' = op
        /\ folders' = folders \cup {<<minted[p]>>, <<minted[p], p>>}
    BY DEF WriteFolder, rowVars
  <1>2. Still
    BY <1>1 DEF Still
  <1>3. OneDemolisher' /\ PageLinks' /\ ConnectionLinks' /\ UserLinks' /\ Parcels'
    BY <1>2, StillKeepsLinks DEF RowsInv
  <1>4. \A c \in Connection, q \in Page : <<c, q>> \in folders' => <<c, q>> \in folders \/ q = p
    BY <1>1
  <1>5. Typed'
    <2>1. folders' \subseteq Paths
      BY <1>0, <1>1 DEF Typed, Paths
    <2> QED BY <1>0, <1>1, <1>4, <2>1 DEF Typed
  <1>6. Awake'
    BY <1>1 DEF RowsInv, Awake, At, Asleep
  <1>7. Fresh'
    <2>1. \A t \in Thread : At(t, "opening") => op[t].page # p /\ op[t].page \in Page
      BY <1>0 DEF RowsInv, Fresh, Typed, WriteFolder
    <2> QED BY <1>1, <1>4, <2>1 DEF RowsInv, Fresh, At
  <1> QED BY <1>3, <1>5, <1>6, <1>7 DEF RowsInv
-----------------------------------------------------------------------------
(* Demolitions. *)

\* The users who lose their last connection with cs.
Emptied(cs) == {u \in user_items : ConnectionsOf(u) # {} /\ ConnectionsOf(u) \subseteq cs}

LEMMA EmptiedUsers ==
    ASSUME Typed, NEW cs
    PROVE  Emptied(cs) \in SUBSET AllUser
  BY DEF Typed, Emptied

\* A demolition of t begins: it takes the pages of the connections it takes, and
\* puts in a parcel nothing else.
Begins(t, ps, cs, inside, after) ==
    /\ ps \subseteq DOMAIN page_items /\ cs \subseteq DOMAIN connection_items
    /\ PagesOf(cs) \subseteq ps
    /\ page_items' = page_items /\ connection_items' = connection_items
    /\ user_items' = user_items /\ announced' = announced /\ minted' = minted
    /\ folders' = folders
    /\ op' \in [Thread -> Operations]
    /\ \A u \in Thread : u # t => op'[u] = op[u]
    /\ op'[t] \in Demolitions
    /\ op'[t].pages = ps /\ op'[t].connections = cs
    /\ op'[t].users = Emptied(cs)
    /\ op'[t].inside = inside /\ op'[t].after = after

\* What a parcel may take in when a demolition of ps and cs begins.
Packs(ps, cs) ==
    /\ frozen' = [pages |-> frozen'.pages, connections |-> frozen'.connections]
    /\ frozen'.pages \in [DOMAIN frozen.pages \cup ps -> Connection]
    /\ frozen'.connections \in [DOMAIN frozen.connections \cup cs -> AllUser]
    /\ \A p \in ps : frozen'.pages[p] = page_items[p] /\ page_items[p] \in cs
    /\ \A p \in DOMAIN frozen.pages \ ps : frozen'.pages[p] = frozen.pages[p]
    /\ \A t \in Thread : op[t].pc \in {"registering", "opening"} => op[t].conn \notin cs

LEMMA BeginsKeepsRows ==
    ASSUME NEW t \in Thread, RowsInv, Unlocked, NEW ps, NEW cs, NEW inside, NEW after,
           Begins(t, ps, cs, inside, after), frozen' = frozen \/ Packs(ps, cs)
    PROVE  RowsInv'
  <1>0. Typed /\ Linked
    BY LinkedWhenUnlocked DEF RowsInv
  <1> DEFINE us == Emptied(cs)
  <1>1. op'[t].pc = "demolishing" /\ \A u \in Thread : u # t => op'[u].pc # "demolishing"
    BY DEF Begins, Demolitions, Unlocked, At
  <1>2. ps \subseteq Page /\ cs \subseteq Connection /\ us \subseteq AllUser
    BY <1>0 DEF Begins, Typed, Emptied
  <1>3. GoingPages' = ps
    BY <1>1, <1>2 DEF GoingPages, Begins, At
  <1>4. GoingConnections' = cs
    BY <1>1, <1>2 DEF GoingConnections, Begins, At
  <1>5. GoingUsers' = us
    BY <1>1, <1>2 DEF GoingUsers, Begins, At
  <1>6. OneDemolisher'
    BY <1>1 DEF OneDemolisher, At
  <1>7. PageLinks'
    BY <1>0, <1>3, <1>4 DEF PageLinks, Begins, Linked, PagesOf
  <1>8. ConnectionLinks'
    <2>1. \A c \in DOMAIN connection_items \ cs : connection_items[c] \notin us
      BY DEF ConnectionsOf, Emptied
    <2> HIDE DEF us
    <2> QED BY <1>0, <1>4, <1>5, <2>1 DEF ConnectionLinks, Begins, Linked
  <1>9. UserLinks'
    <2>1. ASSUME NEW u \in user_items \ us
          PROVE  \E c \in DOMAIN connection_items \ cs : connection_items[c] = u
      <3>1. ConnectionsOf(u) # {}
        BY <1>0 DEF Linked, ConnectionsOf
      <3>2. PICK c \in ConnectionsOf(u) : c \notin cs
        BY <3>1 DEF Emptied
      <3> QED BY <3>2 DEF ConnectionsOf
    <2> HIDE DEF us
    <2> QED BY <1>4, <1>5, <2>1 DEF UserLinks, Begins
  <1>10. Parcels' /\ Typed' /\ Awake' /\ Fresh'
    <2>1. CASE frozen' = frozen
      <3>1. Parcels'
        BY <1>0, <1>3, <1>4, <2>1 DEF Parcels, Linked, Begins
      <3>2. Typed'
        BY <1>0, <2>1 DEF Typed, Begins
      <3>3. Awake' /\ Fresh'
        BY <1>1, <2>1 DEF RowsInv, Awake, Fresh, Begins, At, Asleep
      <3> QED BY <3>1, <3>2, <3>3
    <2>2. CASE Packs(ps, cs)
      <3>1. Parcels'
        BY <1>0, <1>3, <1>4, <2>2 DEF Parcels, Linked, Begins, Packs
      <3>2. Typed'
        BY <1>0, <1>2, <2>2 DEF Typed, Begins, Packs
      <3>3. Awake'
        BY <1>1, <2>2 DEF RowsInv, Awake, Begins, Packs, At, Asleep
      <3>4. Fresh'
        BY <1>1, <2>2 DEF RowsInv, Fresh, Begins, Packs, At
      <3> QED BY <3>1, <3>2, <3>3, <3>4
    <2> QED BY <2>1, <2>2
  <1> QED BY <1>6, <1>7, <1>8, <1>9, <1>10 DEF RowsInv

LEMMA CloseStep ==
    ASSUME NEW t \in Thread, RowsInv, Close(t)
    PROVE  /\ Unlocked /\ At(t, "closing")
           /\ \/ \E p \in Page, c \in Connection :
                    /\ p \in DOMAIN page_items /\ c = page_items[p]
                    /\ \E cs \in SUBSET {c} : Begins(t, {p}, cs, {<<c, p>>}, {})
                    /\ frozen' = frozen
              \/ Calm(t) /\ folders' = folders
  <1> DEFINE p == op[t].page
  <1>0. Typed /\ Linked /\ Unlocked /\ op[t] \in Closings /\ op \in [Thread -> Operations]
        /\ At(t, "closing") /\ Rest
    BY LinkedWhenUnlocked, OperationByPc DEF RowsInv, Close, Typed, At, Rest
  <1>1. p \in Page
    BY <1>0 DEF Closings
  <1>2. CASE p \in DOMAIN page_items
    <2> DEFINE c == page_items[p]
               cs == {d \in {c} : op[t].cascade /\ PagesOf({c}) = {p}}
               r == Demolition({p}, cs, TRUE, {<<c, p>>}, {})
    <2>1. c \in Connection /\ cs \in SUBSET {c} /\ cs \in SUBSET Connection /\ {p} \in SUBSET Page
          /\ {<<c, p>>} \in SUBSET (Connection \X Page)
      BY <1>0, <1>1, <1>2 DEF Typed
    <2>2. c \in DOMAIN connection_items
      BY <1>0, <1>2 DEF Linked
    <2>3. PagesOf(cs) \subseteq {p}
      BY DEF PagesOf
    <2>4. Becomes(t, r)
      BY <1>2 DEF Close
    <2> HIDE DEF cs
    <2>5. /\ r \in Demolitions /\ r \in Operations
          /\ r.pages = {p} /\ r.connections = cs /\ r.inside = {<<c, p>>} /\ r.after = {}
          /\ r.users = Emptied(cs)
      <3>1. Emptied(cs) \in SUBSET AllUser
        BY <1>0, EmptiedUsers
      <3>2. r = [pc |-> "demolishing", pages |-> {p}, connections |-> cs, users |-> Emptied(cs),
               ordered |-> TRUE, inside |-> {<<c, p>>}, after |-> {}]
        BY DEF Demolition, Emptied
      <3> HIDE DEF r
      <3>3. r \in Demolitions
        BY <1>0, <2>1, <3>1, <3>2 DEF Demolitions
      <3>4. r \in Operations
        BY <3>3 DEF Operations
      <3> QED BY <3>2, <3>3, <3>4
    <2> HIDE DEF r
    <2>6. Only(t, r)
      BY <1>0, <2>4, <2>5, BecomesOnly
    <2> HIDE DEF c, p
    <2>7. Begins(t, {p}, cs, {<<c, p>>}, {}) /\ frozen' = frozen
      BY <1>0, <1>2, <2>1, <2>2, <2>3, <2>5, <2>6 DEF Begins, Only, Rest, rowVars
    <2> QED BY <1>0, <1>1, <1>2, <2>1, <2>7 DEF c
  <1>3. CASE p \notin DOMAIN page_items
    <2>1. Becomes(t, Idle) /\ Idle \in Operations /\ Idle.pc = "idle"
      BY <1>3 DEF Close, Operations, Idle
    <2>2. Only(t, Idle)
      BY <1>0, <2>1, BecomesOnly
    <2>3. Calm(t) /\ folders' = folders
      BY <1>0, <2>1, <2>2 DEF Only, Calm, Rest, rowVars, At, Typed
    <2> QED BY <1>0, <2>3
  <1> QED BY <1>2, <1>3

LEMMA LogoutStep ==
    ASSUME NEW t \in Thread, RowsInv, Logout(t)
    PROVE  /\ Unlocked /\ At(t, "logout")
           /\ \/ \E c \in Connection :
                    /\ Begins(t, PagesOf({c}), {c} \cap DOMAIN connection_items, {}, {c})
                    /\ frozen' = frozen
              \/ Calm(t) /\ folders' = folders
  <1> DEFINE c == op[t].conn
  <1>0. Typed /\ Linked /\ Unlocked /\ op[t] \in Registrations /\ op \in [Thread -> Operations]
        /\ At(t, "logout") /\ Rest
    BY LinkedWhenUnlocked, OperationByPc DEF RowsInv, Logout, Typed, At, Rest
  <1>1. c \in Connection
    BY <1>0 DEF Registrations
  <1> DEFINE ps == PagesOf({c})
             cs == {c} \cap DOMAIN connection_items
             r == Demolition(ps, cs, TRUE, {}, {c})
  <1>2. CASE Becomes(t, r)
    <2>1. /\ ps \in SUBSET Page /\ ps \subseteq DOMAIN page_items
          /\ cs \in SUBSET Connection /\ {c} \in SUBSET Connection
          /\ {} \in SUBSET (Connection \X Page)
      BY <1>0, <1>1 DEF Typed, PagesOf
    <2>2. PagesOf(cs) \subseteq ps
      BY DEF PagesOf
    <2>3. cs \subseteq DOMAIN connection_items
      OBVIOUS
    <2> HIDE DEF cs, ps
    <2>4. /\ r \in Demolitions /\ r \in Operations
          /\ r.pages = ps /\ r.connections = cs /\ r.inside = {} /\ r.after = {c}
          /\ r.users = Emptied(cs)
      <3>1. Emptied(cs) \in SUBSET AllUser
        BY <1>0, EmptiedUsers
      <3>2. r = [pc |-> "demolishing", pages |-> ps, connections |-> cs, users |-> Emptied(cs),
               ordered |-> TRUE, inside |-> {}, after |-> {c}]
        BY DEF Demolition, Emptied
      <3> HIDE DEF r
      <3>3. r \in Demolitions
        BY <1>0, <2>1, <3>1, <3>2 DEF Demolitions
      <3>4. r \in Operations
        BY <3>3 DEF Operations
      <3> QED BY <3>2, <3>3, <3>4
    <2>5. Only(t, r)
      BY <1>0, <1>2, <2>4, BecomesOnly
    <2> HIDE DEF r
    <2>6. Begins(t, ps, cs, {}, {c}) /\ frozen' = frozen
      BY <1>0, <2>1, <2>2, <2>3, <2>4, <2>5 DEF Begins, Only, Rest, rowVars
    <2> QED BY <1>0, <1>1, <2>6 DEF cs, ps
  <1>3. CASE Becomes(t, Idle)
    <2>1. Idle \in Operations /\ Idle.pc = "idle"
      BY DEF Operations, Idle
    <2>2. Only(t, Idle)
      BY <1>0, <1>3, <2>1, BecomesOnly
    <2>3. Calm(t) /\ folders' = folders
      BY <1>0, <2>1, <2>2 DEF Only, Calm, Rest, rowVars, At, Typed
    <2> QED BY <1>0, <2>3
  <1> QED BY <1>2, <1>3 DEF Logout

LEMMA drop_userStep ==
    ASSUME NEW t \in Thread, RowsInv, NEW u \in AllUser, drop_user(t, u)
    PROVE  /\ Unlocked /\ At(t, "idle") /\ frozen' = frozen
           /\ Begins(t, PagesOf(ConnectionsOf(u)), ConnectionsOf(u), {}, ConnectionsOf(u))
  <1> DEFINE cs == ConnectionsOf(u)
             ps == PagesOf(cs)
             r == Demolition(ps, cs, TRUE, {}, cs)
  <1>0. Typed /\ Unlocked /\ op \in [Thread -> Operations] /\ At(t, "idle") /\ Rest /\ Becomes(t, r)
    BY DEF RowsInv, drop_user, Typed, Rest
  <1>1. /\ ps \in SUBSET Page /\ ps \subseteq DOMAIN page_items
        /\ cs \in SUBSET Connection /\ cs \subseteq DOMAIN connection_items
        /\ {} \in SUBSET (Connection \X Page)
    BY <1>0 DEF Typed, PagesOf, ConnectionsOf
  <1> HIDE DEF cs
  <1>2. /\ r \in Demolitions /\ r \in Operations
        /\ r.pages = ps /\ r.connections = cs /\ r.inside = {} /\ r.after = cs
        /\ r.users = Emptied(cs)
    <2>1. Emptied(cs) \in SUBSET AllUser
      BY <1>0, EmptiedUsers
    <2>2. r = [pc |-> "demolishing", pages |-> ps, connections |-> cs, users |-> Emptied(cs),
             ordered |-> TRUE, inside |-> {}, after |-> cs]
      BY DEF Demolition, Emptied
    <2> HIDE DEF r
    <2>3. r \in Demolitions
      BY <1>0, <1>1, <2>1, <2>2 DEF Demolitions
    <2>4. r \in Operations
      BY <2>3 DEF Operations
    <2> QED BY <2>2, <2>3, <2>4
  <1>3. Only(t, r)
    BY <1>0, <1>2, BecomesOnly
  <1> HIDE DEF r
  <1>4. Begins(t, ps, cs, {}, cs) /\ frozen' = frozen
    BY <1>0, <1>1, <1>2, <1>3 DEF Begins, Only, Rest, rowVars
  <1> QED BY <1>0, <1>4 DEF cs

LEMMA freeze_userStep ==
    ASSUME NEW t \in Thread, RowsInv, NEW u \in AllUser, freeze_user(t, u)
    PROVE  /\ Unlocked /\ At(t, "idle") /\ Packs(PagesOf(ConnectionsOf(u)), ConnectionsOf(u))
           /\ Begins(t, PagesOf(ConnectionsOf(u)), ConnectionsOf(u), {}, {})
  <1> DEFINE cs == ConnectionsOf(u)
             ps == PagesOf(cs)
             r == Demolition(ps, cs, FALSE, {}, {})
  <1>0. Typed /\ Unlocked /\ op \in [Thread -> Operations] /\ At(t, "idle") /\ Becomes(t, r)
    BY DEF RowsInv, freeze_user, Typed
  <1>1. /\ ps \in SUBSET Page /\ ps \subseteq DOMAIN page_items
        /\ cs \in SUBSET Connection /\ cs \subseteq DOMAIN connection_items
        /\ {} \in SUBSET (Connection \X Page) /\ {} \in SUBSET Connection
    BY <1>0 DEF Typed, PagesOf, ConnectionsOf
  <1>a. /\ page_items' = page_items /\ connection_items' = connection_items
        /\ user_items' = user_items /\ announced' = announced /\ minted' = minted /\ folders' = folders
        /\ frozen' = [pages |-> Joined(frozen.pages, Restrict(page_items, ps)),
                      connections |-> Joined(frozen.connections, Restrict(connection_items, cs))]
        /\ ~Pending(u)
    BY DEF freeze_user, rowVars
  <1>b. \A p \in ps : page_items[p] \in cs
    BY DEF PagesOf
  <1>c. \A v \in Thread : op[v].pc \in {"registering", "opening"} => op[v].conn \notin cs
    BY <1>a DEF Pending
  <1> HIDE DEF cs, ps
  <1>2. /\ r \in Demolitions /\ r \in Operations
        /\ r.pages = ps /\ r.connections = cs /\ r.inside = {} /\ r.after = {}
        /\ r.users = Emptied(cs)
    <2>1. Emptied(cs) \in SUBSET AllUser
      BY <1>0, EmptiedUsers
    <2>2. r = [pc |-> "demolishing", pages |-> ps, connections |-> cs, users |-> Emptied(cs),
             ordered |-> FALSE, inside |-> {}, after |-> {}]
      BY DEF Demolition, Emptied
    <2> HIDE DEF r
    <2>3. r \in Demolitions
      BY <1>0, <1>1, <2>1, <2>2 DEF Demolitions
    <2>4. r \in Operations
      BY <2>3 DEF Operations
    <2> QED BY <2>2, <2>3, <2>4
  <1>3. Only(t, r)
    BY <1>0, <1>2, BecomesOnly
  <1> HIDE DEF r
  <1>4. Begins(t, ps, cs, {}, {})
    <2>1. PagesOf(cs) \subseteq ps
      BY DEF ps
    <2> QED BY <1>1, <1>2, <1>3, <1>a, <2>1 DEF Begins, Only
  <1>5. /\ frozen'.pages = [q \in DOMAIN frozen.pages \cup ps |->
                               IF q \in ps THEN page_items[q] ELSE frozen.pages[q]]
        /\ frozen'.connections = [d \in DOMAIN frozen.connections \cup cs |->
                               IF d \in cs THEN connection_items[d] ELSE frozen.connections[d]]
        /\ frozen' = [pages |-> frozen'.pages, connections |-> frozen'.connections]
    BY <1>a DEF Joined, Restrict
  <1>6. Packs(ps, cs)
    <2>1. frozen'.pages \in [DOMAIN frozen.pages \cup ps -> Connection]
      BY <1>0, <1>1, <1>5 DEF Typed
    <2>2. frozen'.connections \in [DOMAIN frozen.connections \cup cs -> AllUser]
      BY <1>0, <1>1, <1>5 DEF Typed
    <2> QED BY <1>5, <1>b, <1>c, <2>1, <2>2 DEF Packs
  <1> QED BY <1>0, <1>4, <1>6 DEF cs, ps

\* What the rows still to go become at the step of the one demolition.
LEMMA GoingOfOne ==
    ASSUME NEW t \in Thread, RowsInv, At(t, "demolishing")
    PROVE  /\ op[t] \in Demolitions /\ op[t] \in Operations
           /\ GoingPages = op[t].pages /\ GoingConnections = op[t].connections
           /\ GoingUsers = op[t].users
           /\ \A u \in Thread : u # t => op[u].pc # "demolishing"
  <1>1. op[t] \in Demolitions /\ op[t] \in Operations
    BY OperationByPc DEF RowsInv, Typed, At
  <1>2. op[t].pages \subseteq Page /\ op[t].connections \subseteq Connection /\ op[t].users \subseteq AllUser
    BY <1>1 DEF Demolitions
  <1>3. \A u \in Thread : u # t => op[u].pc # "demolishing"
    BY DEF RowsInv, OneDemolisher, At
  <1>4. GoingPages = op[t].pages
    BY <1>2, <1>3 DEF GoingPages, At
  <1>5. GoingConnections = op[t].connections
    BY <1>2, <1>3 DEF GoingConnections, At
  <1>6. GoingUsers = op[t].users
    BY <1>2, <1>3 DEF GoingUsers, At
  <1> QED BY <1>1, <1>3, <1>4, <1>5, <1>6

\* One row of the demolition of t goes, and nothing else happens.
Shrinks(t) ==
    /\ At(t, "demolishing") /\ op'[t] \in Demolitions
    /\ op' \in [Thread -> Operations]
    /\ \A u \in Thread : u # t => op'[u] = op[u]
    /\ op'[t].inside = op[t].inside /\ op'[t].after = op[t].after
    /\ frozen' = frozen /\ minted' = minted /\ folders' = folders

LEMMA ShrinksGoing ==
    ASSUME NEW t \in Thread, RowsInv, Shrinks(t)
    PROVE  /\ GoingPages' = op'[t].pages /\ GoingConnections' = op'[t].connections
           /\ GoingUsers' = op'[t].users /\ OneDemolisher' /\ Awake'
  <1>1. op'[t].pc = "demolishing" /\ op[t].pc = "demolishing"
    BY DEF Shrinks, Demolitions, At
  <1>2. op'[t].pages \subseteq Page /\ op'[t].connections \subseteq Connection /\ op'[t].users \subseteq AllUser
    BY DEF Shrinks, Demolitions
  <1>3. \A u \in Thread : u # t => op'[u].pc # "demolishing" /\ op'[u] = op[u]
    BY DEF RowsInv, OneDemolisher, At, Shrinks
  <1>4. GoingPages' = op'[t].pages
    BY <1>1, <1>2, <1>3 DEF GoingPages, At
  <1>5. GoingConnections' = op'[t].connections
    BY <1>1, <1>2, <1>3 DEF GoingConnections, At
  <1>6. GoingUsers' = op'[t].users
    BY <1>1, <1>2, <1>3 DEF GoingUsers, At
  <1>7. OneDemolisher'
    BY <1>1, <1>3 DEF OneDemolisher, At
  <1>8. Awake'
    BY <1>1, <1>3 DEF RowsInv, Awake, At, Asleep, Shrinks
  <1> QED BY <1>4, <1>5, <1>6, <1>7, <1>8

LEMMA RemovePageKeepsRows ==
    ASSUME NEW t \in Thread, RowsInv, NEW p \in Page, RemovePage(t, p)
    PROVE  /\ RowsInv' /\ Shrinks(t) /\ p \in op[t].pages /\ op'[t].pages = op[t].pages \ {p}
           /\ op'[t].connections = op[t].connections
           /\ page_items' = [q \in DOMAIN page_items \ {p} |-> page_items[q]]
           /\ connection_items' = connection_items /\ user_items' = user_items
  <1> DEFINE me == op[t]
             left == me.pages \ {p}
             r == [me EXCEPT !.pages = left]
  <1>0. /\ At(t, "demolishing") /\ p \in me.pages /\ op \in [Thread -> Operations] /\ Typed
        /\ connection_items' = connection_items /\ user_items' = user_items
        /\ frozen' = frozen /\ minted' = minted /\ folders' = folders
    BY DEF RemovePage, RowsInv, Typed
  <1>1. /\ me \in Demolitions /\ GoingPages = me.pages /\ GoingConnections = me.connections
        /\ GoingUsers = me.users
    BY <1>0, GoingOfOne
  <1>2. op' = [op EXCEPT ![t] = r]
    BY <1>0 DEF RemovePage
  <1>3. left \in SUBSET Page
    BY <1>1 DEF Demolitions
  <1>4. /\ page_items' = [q \in DOMAIN page_items \ {p} |-> page_items[q]]
        /\ announced' = page_items'
    <2>1. announced = page_items
      BY DEF RowsInv, PageLinks
    <2> QED BY <2>1 DEF RemovePage, Popped, Restrict
  <1> HIDE DEF left
  <1>5. /\ r \in Demolitions /\ r.pages = left /\ r.connections = me.connections /\ r.users = me.users
        /\ r.inside = me.inside /\ r.after = me.after
    BY <1>1, <1>3 DEF Demolitions
  <1> HIDE DEF r
  <1>6. op' \in [Thread -> Operations] /\ op'[t] = r /\ \A u \in Thread : u # t => op'[u] = op[u]
    BY <1>0, <1>2, <1>5 DEF Operations
  <1>7. Shrinks(t)
    BY <1>0, <1>5, <1>6 DEF Shrinks
  <1>8. /\ GoingPages' = left /\ GoingConnections' = GoingConnections /\ GoingUsers' = GoingUsers
        /\ OneDemolisher' /\ Awake'
    BY <1>1, <1>5, <1>6, <1>7, ShrinksGoing
  <1>9. Typed'
    BY <1>0, <1>4, <1>6 DEF Typed
  <1>10. PageLinks'
    BY <1>0, <1>1, <1>4, <1>8 DEF RowsInv, PageLinks, left
  <1>11. ConnectionLinks' /\ UserLinks'
    BY <1>0, <1>8 DEF RowsInv, ConnectionLinks, UserLinks
  <1>12. Parcels'
    BY <1>0, <1>1, <1>4, <1>8 DEF RowsInv, Parcels, left
  <1>13. Fresh'
    BY <1>0, <1>4, <1>5, <1>6 DEF RowsInv, Fresh, At, Demolitions
  <1> QED BY <1>0, <1>4, <1>5, <1>6, <1>7, <1>8, <1>9, <1>10, <1>11, <1>12, <1>13 DEF RowsInv, left

LEMMA RemoveConnectionKeepsRows ==
    ASSUME NEW t \in Thread, RowsInv, NEW c \in Connection, RemoveConnection(t, c)
    PROVE  /\ RowsInv' /\ Shrinks(t) /\ c \in op[t].connections
           /\ op'[t].pages = op[t].pages /\ op'[t].connections = op[t].connections \ {c}
           /\ connection_items' = [d \in DOMAIN connection_items \ {c} |-> connection_items[d]]
           /\ page_items' = page_items /\ user_items' = user_items
  <1> DEFINE me == op[t]
             left == me.connections \ {c}
             r == [me EXCEPT !.connections = left]
  <1>0. /\ At(t, "demolishing") /\ c \in me.connections /\ op \in [Thread -> Operations] /\ Typed
        /\ page_items' = page_items /\ user_items' = user_items /\ announced' = announced
        /\ frozen' = frozen /\ minted' = minted /\ folders' = folders
    BY DEF RemoveConnection, RowsInv, Typed
  <1>1. /\ me \in Demolitions /\ GoingPages = me.pages /\ GoingConnections = me.connections
        /\ GoingUsers = me.users
    BY <1>0, GoingOfOne
  <1>2. op' = [op EXCEPT ![t] = r]
    BY <1>0 DEF RemoveConnection
  <1>3. left \in SUBSET Connection
    BY <1>1 DEF Demolitions
  <1>4. connection_items' = [d \in DOMAIN connection_items \ {c} |-> connection_items[d]]
    BY DEF RemoveConnection, Popped, Restrict
  <1> HIDE DEF left
  <1>5. /\ r \in Demolitions /\ r.pages = me.pages /\ r.connections = left /\ r.users = me.users
        /\ r.inside = me.inside /\ r.after = me.after
    BY <1>1, <1>3 DEF Demolitions
  <1> HIDE DEF r
  <1>6. op' \in [Thread -> Operations] /\ op'[t] = r /\ \A u \in Thread : u # t => op'[u] = op[u]
    BY <1>0, <1>2, <1>5 DEF Operations
  <1>7. Shrinks(t)
    BY <1>0, <1>5, <1>6 DEF Shrinks
  <1>8. /\ GoingPages' = GoingPages /\ GoingConnections' = left /\ GoingUsers' = GoingUsers
        /\ OneDemolisher' /\ Awake'
    BY <1>1, <1>5, <1>6, <1>7, ShrinksGoing
  <1>9. Typed'
    BY <1>0, <1>4, <1>6 DEF Typed
  <1>10. PageLinks'
    BY <1>0, <1>1, <1>4, <1>8 DEF RowsInv, PageLinks, left
  <1>11. ConnectionLinks'
    BY <1>0, <1>1, <1>4, <1>8 DEF RowsInv, ConnectionLinks, left
  <1>12. UserLinks'
    BY <1>0, <1>1, <1>4, <1>8 DEF RowsInv, UserLinks, left
  <1>13. Parcels'
    BY <1>0, <1>1, <1>4, <1>8 DEF RowsInv, Parcels, left
  <1>14. Fresh'
    BY <1>0, <1>5, <1>6 DEF RowsInv, Fresh, At, Demolitions
  <1> QED BY <1>0, <1>4, <1>5, <1>6, <1>7, <1>8, <1>9, <1>10, <1>11, <1>12, <1>13, <1>14 DEF RowsInv, left

LEMMA RemoveUserKeepsRows ==
    ASSUME NEW t \in Thread, RowsInv, NEW v \in AllUser, RemoveUser(t, v)
    PROVE  /\ RowsInv' /\ Shrinks(t)
           /\ op'[t].pages = op[t].pages /\ op'[t].connections = op[t].connections
           /\ page_items' = page_items /\ connection_items' = connection_items
           /\ user_items' \subseteq user_items
  <1> DEFINE me == op[t]
             left == me.users \ {v}
             r == [me EXCEPT !.users = left]
  <1>0. /\ At(t, "demolishing") /\ v \in me.users /\ op \in [Thread -> Operations] /\ Typed
        /\ page_items' = page_items /\ connection_items' = connection_items /\ announced' = announced
        /\ frozen' = frozen /\ minted' = minted /\ folders' = folders
        /\ user_items' = user_items \ {v}
    BY DEF RemoveUser, RowsInv, Typed
  <1>1. /\ me \in Demolitions /\ GoingPages = me.pages /\ GoingConnections = me.connections
        /\ GoingUsers = me.users
    BY <1>0, GoingOfOne
  <1>2. op' = [op EXCEPT ![t] = r]
    BY <1>0 DEF RemoveUser
  <1>3. left \in SUBSET AllUser
    BY <1>1 DEF Demolitions
  <1> HIDE DEF left
  <1>5. /\ r \in Demolitions /\ r.pages = me.pages /\ r.connections = me.connections /\ r.users = left
        /\ r.inside = me.inside /\ r.after = me.after
    BY <1>1, <1>3 DEF Demolitions
  <1> HIDE DEF r
  <1>6. op' \in [Thread -> Operations] /\ op'[t] = r /\ \A u \in Thread : u # t => op'[u] = op[u]
    BY <1>0, <1>2, <1>5 DEF Operations
  <1>7. Shrinks(t)
    BY <1>0, <1>5, <1>6 DEF Shrinks
  <1>8. /\ GoingPages' = GoingPages /\ GoingConnections' = GoingConnections /\ GoingUsers' = left
        /\ OneDemolisher' /\ Awake'
    BY <1>1, <1>5, <1>6, <1>7, ShrinksGoing
  <1>9. Typed'
    BY <1>0, <1>6 DEF Typed
  <1>10. PageLinks' /\ Parcels'
    BY <1>0, <1>8 DEF RowsInv, PageLinks, Parcels
  <1>11. ConnectionLinks'
    BY <1>0, <1>1, <1>8 DEF RowsInv, ConnectionLinks, left
  <1>12. UserLinks'
    BY <1>0, <1>1, <1>8 DEF RowsInv, UserLinks, left
  <1>14. Fresh'
    BY <1>0, <1>5, <1>6 DEF RowsInv, Fresh, At, Demolitions
  <1> QED BY <1>0, <1>5, <1>6, <1>7, <1>8, <1>9, <1>10, <1>11, <1>12, <1>14 DEF RowsInv

LEMMA DemolishedKeepsRows ==
    ASSUME NEW t \in Thread, RowsInv, Demolished(t)
    PROVE  /\ RowsInv' /\ At(t, "demolishing") /\ op[t] \in Demolitions /\ Unlocked'
           /\ GoingPages = {} /\ GoingConnections = {}
           /\ op' \in [Thread -> Operations]
           /\ \A u \in Thread : u # t => op'[u] = op[u]
           /\ op[t].after = {} => op'[t].pc = "idle"
           /\ op[t].after # {} => op'[t].pc = "removing" /\ op'[t].left = op[t].after
           /\ page_items' = page_items /\ connection_items' = connection_items /\ frozen' = frozen
           /\ minted' = minted
  <1> DEFINE me == op[t]
             left == me.after
             removing == [pc |-> "removing", left |-> left]
             r == IF left = {} THEN Idle ELSE removing
  <1>0. /\ At(t, "demolishing") /\ op \in [Thread -> Operations] /\ Typed
        /\ me.pages \cup me.connections \cup me.users = {}
        /\ page_items' = page_items /\ connection_items' = connection_items /\ user_items' = user_items
        /\ announced' = announced /\ frozen' = frozen /\ minted' = minted /\ folders' \subseteq folders
        /\ Becomes(t, r)
    BY DEF Demolished, RowsInv, Typed, rowVars
  <1>1. /\ me \in Demolitions /\ GoingPages = {} /\ GoingConnections = {} /\ GoingUsers = {}
        /\ \A u \in Thread : u # t => op[u].pc # "demolishing"
    BY <1>0, GoingOfOne
  <1>2. left \in SUBSET Connection
    BY <1>1 DEF Demolitions
  <1> HIDE DEF left
  <1>3. removing \in Operations /\ removing.pc = "removing" /\ removing.left = left
        /\ Idle \in Operations /\ Idle.pc = "idle"
    BY <1>2 DEF Operations, Removals, Idle
  <1> HIDE DEF removing
  <1>4. r \in Operations /\ r.pc \in {"idle", "removing"}
    BY <1>3
  <1>5. Only(t, r)
    BY <1>0, <1>4, BecomesOnly
  <1>a. /\ left = {} => r.pc = "idle"
        /\ left # {} => r.pc = "removing" /\ r.left = left
    BY <1>3
  <1> HIDE DEF r
  <1>6. Unlocked'
    BY <1>1, <1>4, <1>5 DEF Unlocked, At, Only
  <1>7. Linked'
    BY <1>0, <1>1 DEF RowsInv, PageLinks, ConnectionLinks, UserLinks, Parcels, Linked
  <1>8. OneDemolisher' /\ PageLinks' /\ ConnectionLinks' /\ UserLinks' /\ Parcels'
    BY <1>6, <1>7, LinkedAfterwards
  <1>9. Typed'
    BY <1>0, <1>5 DEF Typed, Only
  <1>10. Awake'
    BY <1>0, <1>4, <1>5 DEF RowsInv, Awake, Only, At, Asleep
  <1>11. Fresh'
    BY <1>0, <1>4, <1>5 DEF RowsInv, Fresh, Only, At
  <1> QED BY <1>0, <1>1, <1>5, <1>6, <1>8, <1>9, <1>10, <1>11, <1>a DEF RowsInv, Only, left

LEMMA RemoveFolderStep ==
    ASSUME NEW t \in Thread, RowsInv, NEW c \in Connection, RemoveFolder(t, c)
    PROVE  /\ Calm(t) /\ At(t, "removing") /\ c \in op[t].left
           /\ \A d \in op[t].left : d # c => op'[t].pc = "removing" /\ d \in op'[t].left
           /\ folders' = folders \ Tree(<<c>>) /\ minted' = minted
           /\ op'[t].pc \in {"idle", "removing"}
  <1> DEFINE me == op[t]
             left == me.left \ {c}
             rest == [me EXCEPT !.left = left]
             r == IF me.left = {c} THEN Idle ELSE rest
  <1>0. /\ Typed /\ op \in [Thread -> Operations] /\ At(t, "removing") /\ c \in me.left
        /\ Becomes(t, r) /\ folders' = folders \ Tree(<<c>>)
        /\ page_items' = page_items /\ connection_items' = connection_items /\ user_items' = user_items
        /\ announced' = announced /\ frozen' = frozen /\ minted' = minted
    BY DEF RemoveFolder, RowsInv, Typed, rowVars
  <1>1. me \in Removals /\ left \in SUBSET Connection
    BY <1>0, OperationByPc DEF At, Removals
  <1>2. \A d \in me.left : d # c => me.left # {c} /\ d \in left
    OBVIOUS
  <1> HIDE DEF left
  <1>3. /\ rest \in Operations /\ rest.pc = "removing" /\ rest.left = left
        /\ Idle \in Operations /\ Idle.pc = "idle"
    BY <1>1 DEF Removals, Operations, Idle
  <1> HIDE DEF rest
  <1>4. r \in Operations /\ r.pc \in {"idle", "removing"}
    BY <1>3
  <1>5. \A d \in me.left : d # c => r.pc = "removing" /\ d \in r.left
    BY <1>2, <1>3
  <1> HIDE DEF r
  <1>6. Only(t, r)
    BY <1>0, <1>4, BecomesOnly
  <1>7. Calm(t)
    BY <1>0, <1>4, <1>6 DEF Calm, Only, Typed, At
  <1> QED BY <1>0, <1>4, <1>5, <1>6, <1>7 DEF Only
-----------------------------------------------------------------------------
LEMMA NextKeepsRows ==
    ASSUME RowsInv, Next
    PROVE  RowsInv'
  <1>1. ASSUME NEW t \in Thread, Birth(t)
        PROVE  RowsInv'
    BY <1>1, CalmSteps, CalmKeepsRows, RegisterKeepsRows, OpenKeepsRows, LoginKeepsRows DEF Birth
  <1>2. ASSUME NEW t \in Thread, Drop(t)
        PROVE  RowsInv'
    <2>1. CASE Close(t)
      BY <2>1, CloseStep, CalmKeepsRows, BeginsKeepsRows
    <2>2. CASE Logout(t)
      BY <2>2, LogoutStep, CalmKeepsRows, BeginsKeepsRows
    <2>3. ASSUME NEW u \in AllUser, drop_user(t, u)
          PROVE  RowsInv'
      BY <2>3, drop_userStep, BeginsKeepsRows
    <2>4. ASSUME NEW c \in Connection, RemoveFolder(t, c)
          PROVE  RowsInv'
      BY <2>4, RemoveFolderStep, CalmKeepsRows
    <2>5. ASSUME \/ \E p \in Page, cascade \in BOOLEAN : drop_page(t, p, cascade)
                 \/ \E c \in Connection : drop_connection(t, c)
                 \/ FindOwner(t)
          PROVE  RowsInv'
      BY <2>5, CalmSteps, CalmKeepsRows
    <2>6. ASSUME \/ Demolished(t)
                 \/ \E p \in Page : RemovePage(t, p)
                 \/ \E c \in Connection : RemoveConnection(t, c)
                 \/ \E u \in AllUser : RemoveUser(t, u)
          PROVE  RowsInv'
      BY <2>6, DemolishedKeepsRows, RemovePageKeepsRows, RemoveConnectionKeepsRows, RemoveUserKeepsRows
    <2> QED BY <1>2, <2>1, <2>2, <2>3, <2>4, <2>5, <2>6, Zenon DEF Drop
  <1>3. ASSUME NEW t \in Thread, Sleep(t)
        PROVE  RowsInv'
    BY <1>3, freeze_userStep, BeginsKeepsRows, WakeKeepsRows DEF Sleep
  <1>4. ASSUME NEW t \in Thread, Read(t)
        PROVE  RowsInv'
    BY <1>4, CalmSteps, CalmKeepsRows
  <1>5. ASSUME NEW p \in Writer, WriteFolder(p)
        PROVE  RowsInv'
    BY <1>5, WriteFolderKeepsRows
  <1> QED BY <1>1, <1>2, <1>3, <1>4, <1>5 DEF Next
-----------------------------------------------------------------------------
(* What holds of the rows in every state. *)

LEMMA InitRows == Init => RowsInv
  <1> SUFFICES ASSUME Init PROVE RowsInv
    OBVIOUS
  <1>1. \A t \in Thread : op[t] = Idle /\ op[t].pc = "idle"
    BY DEF Init, Idle
  <1>2. Unlocked
    BY <1>1 DEF Unlocked, At
  <1>3. DOMAIN page_items = {} /\ DOMAIN connection_items = {} /\ DOMAIN announced = {}
        /\ DOMAIN frozen.pages = {} /\ DOMAIN frozen.connections = {}
    BY DEF Init, EmptyMap
  <1>4. Linked
    BY <1>3 DEF Linked, Init
  <1>5. OneDemolisher /\ PageLinks /\ ConnectionLinks /\ UserLinks /\ Parcels
    BY <1>2, <1>4, NothingGoing, LinkedWhenUnlocked
  <1>6. Typed
    <2>1. op \in [Thread -> Operations]
      BY DEF Init, Operations
    <2>2. /\ minted \in [{} -> Connection] /\ DOMAIN minted = {}
          /\ page_items \in [{} -> Connection] /\ connection_items \in [{} -> AllUser]
          /\ frozen.pages \in [{} -> Connection] /\ frozen.connections \in [{} -> AllUser]
          /\ frozen = [pages |-> frozen.pages, connections |-> frozen.connections]
      BY DEF Init, EmptyMap
    <2> QED BY <1>3, <2>1, <2>2 DEF Typed, Init
  <1>7. Awake /\ Fresh
    BY <1>1 DEF Awake, Fresh, At
  <1> QED BY <1>5, <1>6, <1>7 DEF RowsInv

LEMMA StutterKeepsRows ==
    ASSUME RowsInv, UNCHANGED vars
    PROVE  RowsInv'
  <1>1. /\ page_items' = page_items /\ connection_items' = connection_items /\ user_items' = user_items
        /\ frozen' = frozen /\ announced' = announced /\ minted' = minted /\ op' = op
        /\ folders' = folders
    BY DEF vars, rowVars
  <1>2. OneDemolisher' /\ PageLinks' /\ ConnectionLinks' /\ UserLinks' /\ Parcels'
    BY <1>1, StillKeepsLinks DEF RowsInv, Still
  <1>3. Typed' /\ Awake' /\ Fresh'
    BY <1>1 DEF RowsInv, Typed, Awake, Fresh, At, Asleep
  <1> QED BY <1>2, <1>3 DEF RowsInv

\* Every state of the registers satisfies the invariant of the rows: what is
\* born, re-labelled, dropped, frozen or woken keeps the chains whole, but for
\* the rows the demolition that holds dispatch_lock has still to take.
THEOREM RowsInvariant == Spec => []RowsInv
  <1>1. RowsInv /\ [Next]_vars => RowsInv'
    BY NextKeepsRows, StutterKeepsRows
  <1> QED BY InitRows, <1>1, PTL DEF Spec

\* The rows name rows that can exist, and a page is living or frozen, never
\* both while the lock is free (siteregister_client.py, genropy_worker.py).
THEOREM RegistersTypeOK == Spec => []TypeOK
  <1>1. RowsInv => TypeOK
    <2> SUFFICES ASSUME RowsInv PROVE TypeOK
      OBVIOUS
    <2>1. Unlocked => Linked
      BY LinkedWhenUnlocked DEF RowsInv
    <2> QED BY <2>1 DEF RowsInv, Typed, Linked, TypeOK, Paths
  <1> QED BY RowsInvariant, <1>1, PTL

\* Whenever dispatch_lock is free every page has its connection, every
\* connection its user and every user a connection, and the vertex knows
\* exactly the pages the worker holds, for any number of threads that are
\* born, log in, close, log out, freeze and wake beside each other
\* (genropy_worker.py, drop_page, drop_connection, drop_user).
THEOREM ChainsAreWhole == Spec => []RowsFormChains
  <1>1. RowsInv => RowsFormChains
    <2> SUFFICES ASSUME RowsInv, Unlocked
                 PROVE  /\ \A p \in DOMAIN page_items : page_items[p] \in DOMAIN connection_items
                        /\ {connection_items[c] : c \in DOMAIN connection_items} = user_items
                        /\ announced = page_items
      BY DEF RowsFormChains
    <2>1. Linked
      BY LinkedWhenUnlocked DEF RowsInv
    <2>2. {connection_items[c] : c \in DOMAIN connection_items} = user_items
      BY <2>1 DEF Linked
    <2> QED BY <2>1, <2>2 DEF Linked
  <1> QED BY RowsInvariant, <1>1, PTL
-----------------------------------------------------------------------------
(* The reads: what every step leaves of what a reader has seen. *)

\* The row of p comes from the thread that was to open it.
Opened(p) == \E u \in Thread : At(u, "opening") /\ op[u].page = p /\ page_items'[p] = op[u].conn

\* An opened page keeps its connection, living or asleep, and is not born
\* again; a connection changes hands only while the lock is free.
Lasting ==
    /\ \A p \in Page : Known(p) => Known(p)'
    /\ \A p \in DOMAIN page_items' :
          \/ p \in DOMAIN page_items /\ page_items'[p] = page_items[p]
          \/ p \in DOMAIN frozen.pages /\ page_items'[p] = frozen.pages[p]
          \/ Opened(p)
    /\ \A p \in DOMAIN frozen'.pages :
          \/ p \in DOMAIN page_items /\ frozen'.pages[p] = page_items[p]
          \/ p \in DOMAIN frozen.pages /\ frozen'.pages[p] = frozen.pages[p]
    /\ \A p \in DOMAIN page_items \cap DOMAIN page_items' : page_items'[p] = page_items[p]
    /\ Unlocked' \/ \A c \in DOMAIN connection_items' :
                       c \in DOMAIN connection_items /\ connection_items'[c] = connection_items[c]

\* A page's connection is the one it was made for, and its folder is there.
Homes ==
    /\ \A p \in DOMAIN page_items : page_items[p] = minted[p]
    /\ \A p \in DOMAIN frozen.pages : frozen.pages[p] = minted[p]
    /\ \A t \in Thread : At(t, "opening") => op[t].conn = minted[op[t].page]
    /\ \A c \in Connection, p \in Page : <<c, p>> \in folders => c = minted[p]

\* What a step does of the pages made so far and of those to be opened.
Minting ==
    /\ \A p \in DOMAIN minted : p \in DOMAIN minted' /\ minted'[p] = minted[p]
    /\ \A u \in Thread : op'[u].pc = "opening" => op'[u] = op[u] \/ op'[u].conn = minted'[op'[u].page]

LEMMA KnownLasts ==
    ASSUME NEW p \in Page, Known(p), DOMAIN minted \subseteq DOMAIN minted',
           \A u \in Thread : op'[u].pc = "opening" => op'[u] = op[u] \/ op'[u].page \notin DOMAIN minted
    PROVE  Known(p)'
  BY DEF Known, At

LEMMA CalmLasts ==
    ASSUME NEW t \in Thread, RowsInv, Calm(t)
    PROVE  Lasting /\ Minting
  <1>1. \A u \in Thread : op'[u].pc = "opening" => op'[u] = op[u] \/ op'[u].page \notin DOMAIN minted
    BY DEF Calm
  <1>2. \A p \in Page : Known(p) => Known(p)'
    BY <1>1, KnownLasts DEF Calm
  <1> QED BY <1>2 DEF Calm, Lasting, Minting

LEMMA RegisterLasts ==
    ASSUME NEW t \in Thread, RowsInv, Register(t)
    PROVE  Lasting /\ Minting
  <1>1. Only(t, Idle) /\ Unlocked /\ page_items' = page_items /\ frozen' = frozen /\ minted' = minted
    BY RegisterKeepsRows DEF Register
  <1>2. \A u \in Thread : op'[u].pc = "opening" => op'[u] = op[u] \/ op'[u].page \notin DOMAIN minted
    BY <1>1 DEF Only, Idle
  <1>3. \A p \in Page : Known(p) => Known(p)'
    BY <1>1, <1>2, KnownLasts
  <1>4. Unlocked'
    BY <1>1 DEF Unlocked, Only, At, Idle
  <1> QED BY <1>1, <1>3, <1>4 DEF Lasting, Minting, Only, Idle

LEMMA OpenLasts ==
    ASSUME NEW t \in Thread, RowsInv, Open(t)
    PROVE  Lasting /\ Minting
  <1> DEFINE q == op[t].page
  <1>1. Only(t, Idle) /\ At(t, "opening") /\ Unlocked /\ frozen' = frozen /\ minted' = minted
    BY OpenKeepsRows DEF Open
  <1>2. \A u \in Thread : op'[u].pc = "opening" => op'[u] = op[u] \/ op'[u].page \notin DOMAIN minted
    BY <1>1 DEF Only, Idle
  <1>3. \A p \in Page : Known(p) => Known(p)' /\ p # q
    BY <1>1, <1>2, KnownLasts DEF Known
  <1>4. Unlocked'
    BY <1>1 DEF Unlocked, Only, At, Idle
  <1>5. q \notin DOMAIN page_items
    BY <1>1 DEF RowsInv, Fresh
  <1>6. /\ DOMAIN page_items' = DOMAIN page_items \cup {q} /\ page_items'[q] = op[t].conn
        /\ \A p \in DOMAIN page_items : p # q => page_items'[p] = page_items[p]
    BY DEF Open, Put
  <1>7. Opened(q)
    BY <1>1, <1>6 DEF Opened
  <1>8. Minting
    BY <1>1 DEF Minting, Only, Idle
  <1> HIDE DEF q
  <1> QED BY <1>1, <1>3, <1>4, <1>5, <1>6, <1>7, <1>8 DEF Lasting

LEMMA LoginLasts ==
    ASSUME NEW t \in Thread, RowsInv, NEW c \in Connection, NEW u \in User,
           change_connection_user(t, c, u)
    PROVE  Lasting /\ Minting
  <1>1. page_items' = page_items /\ frozen' = frozen /\ minted' = minted /\ op' = op /\ Unlocked
    BY DEF change_connection_user
  <1>2. Unlocked' /\ \A p \in Page : Known(p) => Known(p)'
    BY <1>1 DEF Unlocked, At, Known
  <1> QED BY <1>1, <1>2 DEF Lasting, Minting

LEMMA WakeLasts ==
    ASSUME NEW t \in Thread, RowsInv, NEW c \in Connection, wake(t, c)
    PROVE  Lasting /\ Minting
  <1> DEFINE woken == {p \in DOMAIN frozen.pages : frozen.pages[p] = c}
  <1>0. Unlocked /\ Linked
    BY LinkedWhenUnlocked DEF RowsInv, wake
  <1>1. minted' = minted /\ op' = op
    BY DEF wake
  <1>2. Unlocked' /\ \A p \in Page : Known(p) => Known(p)'
    BY <1>0, <1>1 DEF Unlocked, At, Known
  <1>3. /\ DOMAIN page_items' = DOMAIN page_items \cup woken
        /\ \A q \in DOMAIN page_items : q \notin woken => page_items'[q] = page_items[q]
        /\ \A q \in woken : page_items'[q] = frozen.pages[q]
        /\ frozen'.pages = [q \in DOMAIN frozen.pages \ woken |-> frozen.pages[q]]
    BY DEF wake, Popped, Joined, Restrict
  <1> HIDE DEF woken
  <1>4. woken \subseteq DOMAIN frozen.pages
    BY DEF woken
  <1>5. woken \cap DOMAIN page_items = {}
    BY <1>0, <1>4 DEF Linked
  <1> QED BY <1>1, <1>2, <1>3, <1>4, <1>5 DEF Lasting, Minting

LEMMA BeginsLasts ==
    ASSUME NEW t \in Thread, RowsInv, NEW ps, NEW cs, NEW inside, NEW after,
           Begins(t, ps, cs, inside, after), frozen' = frozen \/ Packs(ps, cs)
    PROVE  Lasting /\ Minting
  <1>1. \A u \in Thread : op'[u].pc = "opening" => op'[u] = op[u] \/ op'[u].page \notin DOMAIN minted
    BY DEF Begins, Demolitions
  <1>2. /\ page_items' = page_items /\ connection_items' = connection_items /\ minted' = minted
        /\ ps \subseteq DOMAIN page_items
    BY DEF Begins
  <1>3. \A p \in Page : Known(p) => Known(p)'
    BY <1>1, <1>2, KnownLasts
  <1>4. \A p \in DOMAIN frozen'.pages :
            \/ p \in DOMAIN page_items /\ frozen'.pages[p] = page_items[p]
            \/ p \in DOMAIN frozen.pages /\ frozen'.pages[p] = frozen.pages[p]
    <2>1. CASE frozen' = frozen
      BY <2>1
    <2>2. CASE Packs(ps, cs)
      BY <1>2, <2>2 DEF Packs
    <2> QED BY <2>1, <2>2
  <1>5. Minting
    BY <1>2 DEF Begins, Demolitions, Minting
  <1> QED BY <1>2, <1>3, <1>4, <1>5 DEF Lasting

LEMMA ShrinksLasts ==
    ASSUME NEW t \in Thread, RowsInv, Shrinks(t),
           DOMAIN page_items' \subseteq DOMAIN page_items,
           \A p \in DOMAIN page_items' : page_items'[p] = page_items[p],
           DOMAIN connection_items' \subseteq DOMAIN connection_items,
           \A c \in DOMAIN connection_items' : connection_items'[c] = connection_items[c]
    PROVE  Lasting /\ Minting
  <1>1. \A u \in Thread : op'[u].pc = "opening" => op'[u] = op[u] \/ op'[u].page \notin DOMAIN minted
    BY DEF Shrinks, Demolitions
  <1>2. \A p \in Page : Known(p) => Known(p)'
    BY <1>1, KnownLasts DEF Shrinks
  <1>3. Minting
    BY DEF Minting, Shrinks, Demolitions
  <1> QED BY <1>2, <1>3 DEF Lasting, Shrinks

LEMMA DemolishedLasts ==
    ASSUME NEW t \in Thread, RowsInv, Demolished(t)
    PROVE  Lasting /\ Minting
  <1>1. /\ page_items' = page_items /\ connection_items' = connection_items /\ frozen' = frozen
        /\ minted' = minted /\ Unlocked'
        /\ \A u \in Thread : u # t => op'[u] = op[u]
        /\ op'[t].pc \in {"idle", "removing"}
    BY DemolishedKeepsRows
  <1>2. \A u \in Thread : op'[u].pc = "opening" => op'[u] = op[u] \/ op'[u].page \notin DOMAIN minted
    BY <1>1
  <1>3. \A p \in Page : Known(p) => Known(p)'
    BY <1>1, <1>2, KnownLasts
  <1> QED BY <1>1, <1>3 DEF Lasting, Minting

\* What a step that is not of a read does of the reads.
Aside == \A v \in Thread : Reads(op'[v]) => op'[v] = op[v]

LEMMA NextLasts ==
    ASSUME RowsInv, Next
    PROVE  Lasting /\ Minting /\ (Aside \/ \E t \in Thread : Read(t))
  <1>1. ASSUME NEW t \in Thread, Birth(t)
        PROVE  Lasting /\ Minting /\ Aside
    <2>1. CASE \E c \in Connection : new_connection(t, c) \/ \E p \in Page : new_page(t, p, c)
      <3>1. Lasting /\ Minting
        BY <2>1, CalmSteps, CalmLasts
      <3>2. Calm(t) /\ op'[t].pc \in {"registering", "opening"}
        <4>1. op \in [Thread -> Operations]
          BY DEF RowsInv, Typed
        <4> QED BY <2>1, <4>1, CalmSteps DEF new_connection, new_page, Becomes
      <3> QED BY <3>1, <3>2 DEF Aside, Calm, Reads
    <2>2. CASE Register(t)
      BY <2>2, RegisterLasts, RegisterKeepsRows DEF Aside, Only, Idle, Reads
    <2>3. CASE Open(t)
      BY <2>3, OpenLasts, OpenKeepsRows DEF Aside, Only, Idle, Reads
    <2>4. ASSUME NEW c \in Connection, NEW u \in User, change_connection_user(t, c, u)
          PROVE  Lasting /\ Minting /\ Aside
      BY <2>4, LoginLasts DEF Aside, change_connection_user
    <2> QED BY <1>1, <2>1, <2>2, <2>3, <2>4, Zenon DEF Birth
  <1>2. ASSUME NEW t \in Thread, NEW ps, NEW cs, NEW inside, NEW after,
               Begins(t, ps, cs, inside, after), frozen' = frozen \/ Packs(ps, cs)
        PROVE  Lasting /\ Minting /\ Aside
    BY <1>2, BeginsLasts DEF Begins, Demolitions, Aside, Reads
  <1>3. ASSUME NEW t \in Thread, Drop(t)
        PROVE  Lasting /\ Minting /\ Aside
    <2>0. op \in [Thread -> Operations] /\ op[t] \in Operations
      BY DEF RowsInv, Typed
    <2>1. ASSUME NEW p \in Page, NEW cascade \in BOOLEAN, drop_page(t, p, cascade)
          PROVE  Lasting /\ Minting /\ Aside
      <3>1. Calm(t)
        BY <2>1, CalmSteps
      <3>2. op'[t].pc = "owner"
        BY <2>0, <2>1 DEF drop_page, Becomes
      <3> QED BY <3>1, <3>2, CalmLasts DEF Aside, Calm, Reads
    <2>2. ASSUME NEW c \in Connection, drop_connection(t, c)
          PROVE  Lasting /\ Minting /\ Aside
      <3>1. Calm(t)
        BY <2>2, CalmSteps
      <3>2. op'[t].pc = "logout"
        BY <2>0, <2>2 DEF drop_connection, Becomes
      <3> QED BY <3>1, <3>2, CalmLasts DEF Aside, Calm, Reads
    <2>3. CASE FindOwner(t)
      <3>1. Calm(t)
        BY <2>3, CalmSteps
      <3>2. op[t] \in Closings
        BY <2>0, <2>3, OperationByPc DEF FindOwner, At
      <3>3. op'[t].pc \in {"closing", "idle"}
        BY <2>0, <2>3, <3>2 DEF FindOwner, Becomes, Closings, Idle
      <3> QED BY <3>1, <3>3, CalmLasts DEF Aside, Calm, Reads
    <2>4. ASSUME Calm(t), Becomes(t, Idle)
          PROVE  Lasting /\ Minting /\ Aside
      <3>1. op'[t].pc = "idle"
        BY <2>0, <2>4 DEF Becomes, Idle
      <3> QED BY <2>4, <3>1, CalmLasts DEF Aside, Calm, Reads
    <2>5. CASE Close(t)
      <3>1. \/ \E p \in Page, c \in Connection :
                  /\ \E cs \in SUBSET {c} : Begins(t, {p}, cs, {<<c, p>>}, {})
                  /\ frozen' = frozen
            \/ Calm(t)
        BY <2>5, CloseStep
      <3>2. Calm(t) => Becomes(t, Idle)
        <4>1. \/ \E ps, cs, inside, after : Becomes(t, Demolition(ps, cs, TRUE, inside, after))
              \/ Becomes(t, Idle)
          BY <2>5, Zenon DEF Close
        <4>2. ASSUME NEW ps, NEW cs, NEW inside, NEW after, Becomes(t, Demolition(ps, cs, TRUE, inside, after))
              PROVE  op'[t].pc = "demolishing"
          BY <2>0, <4>2 DEF Becomes, Demolition
        <4> QED BY <4>1, <4>2 DEF Calm
      <3> QED BY <1>2, <2>4, <3>1, <3>2
    <2>6. CASE Logout(t)
      <3>1. \/ \E c \in Connection :
                  /\ Begins(t, PagesOf({c}), {c} \cap DOMAIN connection_items, {}, {c})
                  /\ frozen' = frozen
            \/ Calm(t)
        BY <2>6, LogoutStep
      <3>2. Calm(t) => Becomes(t, Idle)
        <4>1. \/ \E ps, cs, inside, after : Becomes(t, Demolition(ps, cs, TRUE, inside, after))
              \/ Becomes(t, Idle)
          BY <2>6, Zenon DEF Logout
        <4>2. ASSUME NEW ps, NEW cs, NEW inside, NEW after, Becomes(t, Demolition(ps, cs, TRUE, inside, after))
              PROVE  op'[t].pc = "demolishing"
          BY <2>0, <4>2 DEF Becomes, Demolition
        <4> QED BY <4>1, <4>2 DEF Calm
      <3> QED BY <1>2, <2>4, <3>1, <3>2
    <2>7. ASSUME NEW u \in AllUser, drop_user(t, u)
          PROVE  Lasting /\ Minting /\ Aside
      BY <1>2, <2>7, drop_userStep
    <2>8. CASE Demolished(t)
      BY <2>8, DemolishedLasts, DemolishedKeepsRows DEF Aside, Reads
    <2>9. ASSUME NEW c \in Connection, RemoveFolder(t, c)
          PROVE  Lasting /\ Minting /\ Aside
      BY <2>9, RemoveFolderStep, CalmLasts DEF Aside, Reads, Calm
    <2>10. ASSUME Shrinks(t)
           PROVE  Aside
      BY <2>10 DEF Shrinks, Demolitions, Aside, Reads
    <2>11. ASSUME NEW p \in Page, RemovePage(t, p)
           PROVE  Lasting /\ Minting /\ Aside
      BY <2>10, <2>11, RemovePageKeepsRows, ShrinksLasts
    <2>12. ASSUME NEW c \in Connection, RemoveConnection(t, c)
           PROVE  Lasting /\ Minting /\ Aside
      BY <2>10, <2>12, RemoveConnectionKeepsRows, ShrinksLasts
    <2>13. ASSUME NEW u \in AllUser, RemoveUser(t, u)
           PROVE  Lasting /\ Minting /\ Aside
      BY <2>10, <2>13, RemoveUserKeepsRows, ShrinksLasts
    <2> QED BY <1>3, <2>1, <2>2, <2>3, <2>5, <2>6, <2>7, <2>8, <2>9, <2>11, <2>12, <2>13, Zenon DEF Drop
  <1>4. ASSUME NEW t \in Thread, Sleep(t)
        PROVE  Lasting /\ Minting /\ Aside
    <2>1. ASSUME NEW u \in AllUser, freeze_user(t, u)
          PROVE  Lasting /\ Minting /\ Aside
      BY <1>2, <2>1, freeze_userStep
    <2>2. ASSUME NEW c \in Connection, wake(t, c)
          PROVE  Lasting /\ Minting /\ Aside
      BY <2>2, WakeLasts DEF Aside, wake
    <2> QED BY <1>4, <2>1, <2>2 DEF Sleep
  <1>5. ASSUME NEW t \in Thread, Read(t)
        PROVE  Lasting /\ Minting
    BY <1>5, CalmSteps, CalmLasts
  <1>6. ASSUME NEW p \in Writer, WriteFolder(p)
        PROVE  Lasting /\ Minting /\ Aside
    <2>1. /\ page_items' = page_items /\ connection_items' = connection_items /\ frozen' = frozen
          /\ minted' = minted /\ op' = op
      BY <1>6 DEF WriteFolder, rowVars
    <2>2. \A q \in Page : Known(q) => Known(q)'
      BY <2>1 DEF Known, At
    <2> QED BY <2>1, <2>2 DEF Lasting, Minting, Aside
  <1> QED BY <1>1, <1>3, <1>4, <1>5, <1>6 DEF Next

\* A folder is of a page made so far, under the connection it was made for.
LEMMA NextKeepsHomes ==
    ASSUME RowsInv, Homes, Next
    PROVE  Homes'
  <1>0. Lasting /\ Minting
    BY NextLasts
  <1>1. Typed /\ Fresh
    BY DEF RowsInv
  <1>2. \A p \in DOMAIN page_items' : page_items'[p] = minted'[p]
    <2>1. \A p \in DOMAIN page_items' : p \in DOMAIN minted /\ page_items'[p] = minted[p]
      BY <1>0, <1>1 DEF Lasting, Homes, Opened, Typed, Fresh
    <2> QED BY <1>0, <2>1 DEF Minting
  <1>3. \A p \in DOMAIN frozen'.pages : frozen'.pages[p] = minted'[p]
    <2>1. \A p \in DOMAIN frozen'.pages : p \in DOMAIN minted /\ frozen'.pages[p] = minted[p]
      BY <1>0, <1>1 DEF Lasting, Homes, Typed
    <2> QED BY <1>0, <2>1 DEF Minting
  <1>4. \A t \in Thread : op'[t].pc = "opening" => op'[t].conn = minted'[op'[t].page]
    BY <1>0, <1>1 DEF Minting, Homes, Fresh, At
  <1>5. ASSUME NEW c \in Connection, NEW p \in Page, <<c, p>> \in folders'
        PROVE  c = minted'[p]
    <2>1. ASSUME NEW q \in Writer, WriteFolder(q)
          PROVE  <<c, p>> \in folders \/ (p \in DOMAIN minted /\ c = minted[p])
      BY <1>5, <2>1 DEF WriteFolder
    <2>2. ASSUME NEW t \in Thread, Birth(t) \/ Sleep(t)
          PROVE  folders' = folders
      BY <2>2, Zenon DEF Birth, new_connection, new_page, Register, Open, change_connection_user,
         Sleep, freeze_user, wake
    <2>3. ASSUME NEW t \in Thread, Drop(t)
          PROVE  folders' \subseteq folders
      <3>1. folders' = folders \/ Demolished(t) \/ \E d \in Connection : RemoveFolder(t, d)
        BY <2>3, Zenon DEF Drop, drop_page, FindOwner, Close, Logout, drop_connection, RemoveConnection,
           RemovePage, drop_user, RemoveUser
      <3> QED BY <3>1 DEF Demolished, RemoveFolder
    <2>4. ASSUME NEW t \in Thread, Read(t)
          PROVE  folders' = folders
      BY <2>4, CalmSteps
    <2>5. <<c, p>> \in folders \/ (p \in DOMAIN minted /\ c = minted[p])
      BY <1>5, <2>1, <2>2, <2>3, <2>4 DEF Next
    <2>6. p \in DOMAIN minted /\ c = minted[p]
      BY <1>1, <2>5 DEF Typed, Homes
    <2> QED BY <1>0, <2>6 DEF Minting
  <1> QED BY <1>2, <1>3, <1>4, <1>5 DEF Homes, At

\* A page is of the connection it was made for, living or asleep, and so is its
\* folder on disk.
THEOREM HomesInvariant == Spec => []Homes
  <1>1. Init => Homes
    BY DEF Init, Homes, EmptyMap, At, Idle
  <1>2. Homes /\ UNCHANGED vars => Homes'
    BY DEF Homes, vars, rowVars, At
  <1>3. RowsInv /\ Homes /\ [Next]_vars => Homes'
    BY <1>2, NextKeepsHomes
  <1> QED BY <1>1, <1>3, RowsInvariant, PTL DEF Spec
-----------------------------------------------------------------------------
(* The disk. *)

LEMMA TreeOfConnection ==
    ASSUME NEW c \in Connection
    PROVE  /\ \A d \in Connection : <<d>> \in Tree(<<c>>) <=> <<d>> \in folders /\ d = c
           /\ \A d \in Connection, p \in Page : <<d, p>> \in Tree(<<c>>) <=> <<d, p>> \in folders /\ d = c
  BY DEF Tree

LEMMA TreeOfPage ==
    ASSUME NEW c \in Connection, NEW p \in Page
    PROVE  /\ \A d \in Connection : <<d>> \notin Tree(<<c, p>>)
           /\ \A d \in Connection, q \in Page :
                 <<d, q>> \in Tree(<<c, p>>) <=> <<d, q>> \in folders /\ d = c /\ q = p
  <1>1. DOMAIN <<c, p>> = {1, 2} /\ <<c, p>>[1] = c /\ <<c, p>>[2] = p
    OBVIOUS
  <1>2. ASSUME NEW d \in Connection
        PROVE  <<d>> \notin Tree(<<c, p>>)
    <2>1. 2 \notin DOMAIN <<d>>
      OBVIOUS
    <2> QED BY <1>1, <2>1 DEF Tree
  <1>3. ASSUME NEW d \in Connection, NEW q \in Page
        PROVE  <<d, q>> \in Tree(<<c, p>>) <=> <<d, q>> \in folders /\ d = c /\ q = p
    <2>1. DOMAIN <<d, q>> = {1, 2} /\ <<d, q>>[1] = d /\ <<d, q>>[2] = q
      OBVIOUS
    <2> QED BY <1>1, <2>1 DEF Tree
  <1> QED BY <1>2, <1>3

\* What is to be removed is still to be.
Pendings ==
    /\ \A c \in Connection : Doomed(c) => Doomed(c)'
    /\ \A c \in Connection, p \in Page : Closing(c, p) => Closing(c, p)'

LEMMA PendingsOfOthers ==
    ASSUME NEW t \in Thread, ~At(t, "removing"), ~At(t, "demolishing"),
           \A u \in Thread : u # t => op'[u] = op[u]
    PROVE  Pendings
  <1>1. ASSUME NEW c \in Connection, Doomed(c)
        PROVE  Doomed(c)'
    BY <1>1 DEF Doomed, At
  <1>2. ASSUME NEW c \in Connection, NEW p \in Page, Closing(c, p)
        PROVE  Closing(c, p)'
    BY <1>2 DEF Closing, At
  <1> QED BY <1>1, <1>2 DEF Pendings

\* The rows of what is on disk live or sleep still, under the same names.
Sheltered ==
    /\ folders' \subseteq folders
    /\ Pendings
    /\ DOMAIN connection_items \cup DOMAIN frozen.connections
          \subseteq DOMAIN connection_items' \cup DOMAIN frozen'.connections
    /\ DOMAIN page_items \cup DOMAIN frozen.pages \subseteq DOMAIN page_items' \cup DOMAIN frozen'.pages
    /\ \A c \in Connection, p \in Page : <<c, p>> \in folders =>
          /\ p \in DOMAIN page_items' => \/ p \in DOMAIN page_items /\ page_items'[p] = page_items[p]
                                         \/ p \in DOMAIN frozen.pages /\ page_items'[p] = frozen.pages[p]
          /\ p \in DOMAIN frozen'.pages => \/ p \in DOMAIN page_items /\ frozen'.pages[p] = page_items[p]
                                           \/ p \in DOMAIN frozen.pages /\ frozen'.pages[p] = frozen.pages[p]

\* What was on disk in time, and is there still, is accounted for.
Stays ==
    /\ \A c \in Connection : <<c>> \in (folders \ late) \cap folders' => OwnedFolder(c)'
    /\ \A c \in Connection, p \in Page :
          <<c, p>> \in (folders \ late) \cap folders' => OwnedFolder(c)' /\ OwnedSubfolder(c, p)'

FoldersGoOn == RowsInv' /\ Stays /\ Leaving'

LEMMA ShelteredKeepsDisk ==
    ASSUME Disk, Sheltered
    PROVE  Stays
  <1>1. ASSUME NEW c \in Connection, OwnedFolder(c)
        PROVE  OwnedFolder(c)'
    BY <1>1 DEF OwnedFolder, Sheltered, Pendings
  <1>2. ASSUME NEW c \in Connection, NEW p \in Page, <<c, p>> \in folders, OwnedSubfolder(c, p)
        PROVE  OwnedSubfolder(c, p)'
    BY <1>2 DEF OwnedSubfolder, Sheltered, Pendings
  <1> QED BY <1>1, <1>2 DEF Disk, Stays

LEMMA LeavingWhenUnlocked ==
    ASSUME Unlocked'
    PROVE  Leaving'
  BY DEF Leaving, Unlocked

LEMMA CalmKeepsFolders ==
    ASSUME NEW t \in Thread, FoldersInv, Calm(t), ~At(t, "removing"), folders' = folders
    PROVE  FoldersGoOn
  <1>1. Pendings
    BY PendingsOfOthers DEF Calm
  <1>2. Sheltered
    BY <1>1 DEF Sheltered, Calm, FoldersInv, Disk, OwnedSubfolder
  <1>3. Leaving'
    BY DEF FoldersInv, Leaving, Calm, At
  <1> QED BY <1>2, <1>3, ShelteredKeepsDisk, CalmKeepsRows DEF FoldersInv, FoldersGoOn

LEMMA RegisterKeepsFolders ==
    ASSUME NEW t \in Thread, FoldersInv, Register(t)
    PROVE  FoldersGoOn
  <1>0. RowsInv' /\ Only(t, Idle) /\ At(t, "registering") /\ Unlocked
    BY RegisterKeepsRows DEF FoldersInv, Register
  <1>1. Pendings
    BY <1>0, PendingsOfOthers DEF Only, At
  <1>2. Unlocked'
    BY <1>0 DEF Unlocked, Only, At, Idle
  <1>3. /\ page_items' = page_items /\ frozen' = frozen /\ folders' = folders
        /\ DOMAIN connection_items \subseteq DOMAIN connection_items'
    BY DEF Register, Joined, Put, EmptyMap
  <1>4. Sheltered
    BY <1>1, <1>3 DEF Sheltered
  <1> QED BY <1>0, <1>2, <1>4, ShelteredKeepsDisk, LeavingWhenUnlocked DEF FoldersInv, FoldersGoOn

LEMMA OpenKeepsFolders ==
    ASSUME NEW t \in Thread, FoldersInv, Open(t)
    PROVE  FoldersGoOn
  <1> DEFINE p == op[t].page
  <1>0. RowsInv' /\ Only(t, Idle) /\ At(t, "opening") /\ Unlocked
    BY OpenKeepsRows DEF FoldersInv, Open
  <1>1. Pendings
    BY <1>0, PendingsOfOthers DEF Only, At
  <1>2. Unlocked'
    BY <1>0 DEF Unlocked, Only, At, Idle
  <1>3. \A c \in Connection : <<c, p>> \notin folders
    BY <1>0 DEF FoldersInv, RowsInv, Fresh
  <1>4. /\ frozen' = frozen /\ folders' = folders
        /\ DOMAIN connection_items \subseteq DOMAIN connection_items'
        /\ DOMAIN page_items' = DOMAIN page_items \cup {p}
        /\ \A q \in DOMAIN page_items : q # p => page_items'[q] = page_items[q]
    BY DEF Open, Joined, Put, EmptyMap
  <1>5. Sheltered
    BY <1>1, <1>3, <1>4 DEF Sheltered
  <1> QED BY <1>0, <1>2, <1>5, ShelteredKeepsDisk, LeavingWhenUnlocked DEF FoldersInv, FoldersGoOn

LEMMA LoginKeepsFolders ==
    ASSUME NEW t \in Thread, FoldersInv, NEW c \in Connection, NEW u \in User,
           change_connection_user(t, c, u)
    PROVE  FoldersGoOn
  <1>0. RowsInv'
    BY LoginKeepsRows DEF FoldersInv, FoldersGoOn
  <1>1. /\ page_items' = page_items /\ frozen' = frozen /\ folders' = folders /\ op' = op /\ Unlocked
        /\ DOMAIN connection_items \subseteq DOMAIN connection_items'
    BY DEF change_connection_user
  <1>2. Unlocked' /\ Pendings
    BY <1>1 DEF Unlocked, At, Pendings, Doomed, Closing
  <1>3. Sheltered
    BY <1>1, <1>2 DEF Sheltered
  <1> QED BY <1>0, <1>2, <1>3, ShelteredKeepsDisk, LeavingWhenUnlocked DEF FoldersInv, FoldersGoOn

LEMMA WakeKeepsFolders ==
    ASSUME NEW t \in Thread, FoldersInv, NEW c \in Connection, wake(t, c)
    PROVE  FoldersGoOn
  <1> DEFINE woken == {p \in DOMAIN frozen.pages : frozen.pages[p] = c}
  <1>0. RowsInv'
    BY WakeKeepsRows DEF FoldersInv, FoldersGoOn
  <1>1. folders' = folders /\ op' = op /\ Unlocked
    BY DEF wake
  <1>2. Unlocked' /\ Pendings
    BY <1>1 DEF Unlocked, At, Pendings, Doomed, Closing
  <1>3. /\ DOMAIN connection_items' = DOMAIN connection_items \cup {c}
        /\ DOMAIN page_items' = DOMAIN page_items \cup woken
        /\ \A q \in DOMAIN page_items : q \notin woken => page_items'[q] = page_items[q]
        /\ \A q \in woken : page_items'[q] = frozen.pages[q]
        /\ frozen'.pages = [q \in DOMAIN frozen.pages \ woken |-> frozen.pages[q]]
        /\ DOMAIN frozen'.connections = DOMAIN frozen.connections \ {c}
    BY DEF wake, Put, Popped, Joined, Restrict
  <1> HIDE DEF woken
  <1>4. woken \subseteq DOMAIN frozen.pages
    BY DEF woken
  <1>5. Sheltered
    BY <1>1, <1>2, <1>3, <1>4 DEF Sheltered
  <1> QED BY <1>0, <1>2, <1>5, ShelteredKeepsDisk, LeavingWhenUnlocked DEF FoldersInv, FoldersGoOn

\* A demolition says which folders go with what it takes, unless it puts it all
\* in a parcel.
LEMMA BeginsKeepsFolders ==
    ASSUME NEW t \in Thread, FoldersInv, Unlocked, ~At(t, "removing"),
           NEW ps, NEW cs, NEW inside, NEW after, Begins(t, ps, cs, inside, after),
           \/ /\ frozen' = frozen
              /\ \A p \in ps : page_items[p] \in after \/ <<page_items[p], p>> \in inside
              /\ \A c \in cs : c \in after \/ \E p \in Page : <<c, p>> \in inside
              /\ \A c \in Connection, p \in Page : <<c, p>> \in inside => p \in ps /\ page_items[p] = c
           \/ Packs(ps, cs) /\ inside = {}
    PROVE  FoldersGoOn
  <1>0. RowsInv' /\ Linked /\ Typed
    BY BeginsKeepsRows, LinkedWhenUnlocked DEF FoldersInv, RowsInv
  <1>1. Pendings
    BY PendingsOfOthers DEF Begins, Unlocked
  <1>2. op'[t].pc = "demolishing" /\ \A u \in Thread : u # t => op'[u].pc # "demolishing"
    BY DEF Begins, Demolitions, Unlocked, At
  <1>3. /\ folders' = folders /\ page_items' = page_items /\ connection_items' = connection_items
        /\ op'[t].pages = ps /\ op'[t].connections = cs /\ op'[t].inside = inside /\ op'[t].after = after
        /\ ps \subseteq DOMAIN page_items /\ cs \subseteq DOMAIN connection_items
    BY DEF Begins
  <1>4. CASE /\ frozen' = frozen
             /\ \A p \in ps : page_items[p] \in after \/ <<page_items[p], p>> \in inside
             /\ \A c \in cs : c \in after \/ \E p \in Page : <<c, p>> \in inside
             /\ \A c \in Connection, p \in Page : <<c, p>> \in inside => p \in ps /\ page_items[p] = c
    <2>1. Sheltered
      BY <1>1, <1>3, <1>4 DEF Sheltered
    <2>2. Leaving'
      <3>1. \A p \in ps : /\ p \notin DOMAIN frozen.pages
                          /\ page_items[p] \in after \/ <<page_items[p], p>> \in inside
        BY <1>0, <1>3, <1>4 DEF Linked
      <3>2. \A c \in Connection, p \in Page : <<c, p>> \in inside =>
                c \notin DOMAIN frozen.connections /\ p \notin DOMAIN frozen.pages /\ p \in ps
        BY <1>0, <1>3, <1>4 DEF Linked
      <3> QED BY <1>2, <1>3, <1>4, <3>1, <3>2 DEF Leaving, At
    <2> QED BY <1>0, <2>1, <2>2, ShelteredKeepsDisk DEF FoldersInv, FoldersGoOn
  <1>5. CASE Packs(ps, cs) /\ inside = {}
    <2>1. /\ DOMAIN frozen'.pages = DOMAIN frozen.pages \cup ps
          /\ DOMAIN frozen'.connections = DOMAIN frozen.connections \cup cs
          /\ \A p \in ps : frozen'.pages[p] = page_items[p]
          /\ \A p \in DOMAIN frozen.pages \ ps : frozen'.pages[p] = frozen.pages[p]
      BY <1>5 DEF Packs
    <2>2. Sheltered
      BY <1>1, <1>3, <2>1 DEF Sheltered
    <2>3. Leaving'
      BY <1>2, <1>3, <1>5, <2>1 DEF Leaving, At
    <2> QED BY <1>0, <2>2, <2>3, ShelteredKeepsDisk DEF FoldersInv, FoldersGoOn
  <1> QED BY <1>4, <1>5

LEMMA DropsKeepFolders ==
    ASSUME NEW t \in Thread, FoldersInv,
           \/ Close(t) \/ Logout(t)
           \/ \E u \in AllUser : drop_user(t, u) \/ freeze_user(t, u)
    PROVE  FoldersGoOn
  <1>0. RowsInv
    BY DEF FoldersInv, FoldersGoOn
  <1>1. CASE Close(t)
    <2>1. Unlocked /\ ~At(t, "removing")
      BY <1>0, <1>1, CloseStep DEF At
    <2>2. CASE Calm(t) /\ folders' = folders
      BY <2>1, <2>2, CalmKeepsFolders
    <2>3. ASSUME NEW p \in Page, NEW c \in Connection, p \in DOMAIN page_items, c = page_items[p],
                 NEW cs \in SUBSET {c}, Begins(t, {p}, cs, {<<c, p>>}, {}), frozen' = frozen
          PROVE  FoldersGoOn
      <3> DEFINE inside == {<<c, p>>}
      <3>1. /\ \A q \in {p} : <<page_items[q], q>> \in inside
            /\ \A d \in cs : \E q \in Page : <<d, q>> \in inside
            /\ \A d \in Connection, q \in Page : <<d, q>> \in inside => q \in {p} /\ page_items[q] = d
        BY <2>3
      <3>2. Begins(t, {p}, cs, inside, {})
        BY <2>3
      <3> HIDE DEF inside
      <3> QED BY <2>1, <2>3, <3>1, <3>2, BeginsKeepsFolders
    <2> QED BY <1>0, <1>1, <2>2, <2>3, CloseStep
  <1>2. CASE Logout(t)
    <2>1. Unlocked /\ ~At(t, "removing")
      BY <1>0, <1>2, LogoutStep DEF At
    <2>2. CASE Calm(t) /\ folders' = folders
      BY <2>1, <2>2, CalmKeepsFolders
    <2>3. ASSUME NEW c \in Connection, frozen' = frozen,
                 Begins(t, PagesOf({c}), {c} \cap DOMAIN connection_items, {}, {c})
          PROVE  FoldersGoOn
      <3> DEFINE ps == PagesOf({c})
                 cs == {c} \cap DOMAIN connection_items
      <3>1. (\A p \in ps : page_items[p] \in {c}) /\ cs \subseteq {c}
        BY DEF PagesOf
      <3>2. Begins(t, ps, cs, {}, {c})
        BY <2>3
      <3> HIDE DEF ps, cs
      <3> QED BY <2>1, <2>3, <3>1, <3>2, BeginsKeepsFolders
    <2> QED BY <1>0, <1>2, <2>2, <2>3, LogoutStep
  <1>3. ASSUME NEW u \in AllUser, drop_user(t, u)
        PROVE  FoldersGoOn
    <2> DEFINE cs == ConnectionsOf(u)
               ps == PagesOf(cs)
    <2>1. Unlocked /\ ~At(t, "removing") /\ frozen' = frozen /\ Begins(t, ps, cs, {}, cs)
      BY <1>0, <1>3, drop_userStep DEF At
    <2> HIDE DEF cs
    <2>2. \A p \in ps : page_items[p] \in cs
      BY DEF PagesOf
    <2> HIDE DEF ps
    <2> QED BY <2>1, <2>2, BeginsKeepsFolders
  <1>4. ASSUME NEW u \in AllUser, freeze_user(t, u)
        PROVE  FoldersGoOn
    <2> DEFINE cs == ConnectionsOf(u)
               ps == PagesOf(cs)
    <2>1. Unlocked /\ ~At(t, "removing") /\ Packs(ps, cs) /\ Begins(t, ps, cs, {}, {})
      BY <1>0, <1>4, freeze_userStep DEF At
    <2> HIDE DEF cs, ps
    <2> QED BY <2>1, BeginsKeepsFolders
  <1> QED BY <1>1, <1>2, <1>3, <1>4

\* The rows and what is to be removed stay as they are.
LEMMA WriteFolderKeepsFolders ==
    ASSUME FoldersInv, NEW p \in Writer, WriteFolder(p)
    PROVE  FoldersGoOn
  <1>1. /\ page_items' = page_items /\ connection_items' = connection_items /\ frozen' = frozen
        /\ op' = op
    BY DEF WriteFolder, rowVars
  <1>2. Leaving'
    BY <1>1 DEF FoldersInv, Leaving, At
  <1>3. \A c \in Connection : OwnedFolder(c)' = OwnedFolder(c)
    BY <1>1 DEF Doomed, OwnedFolder, Closing, At
  <1>4. \A c \in Connection, q \in Page : OwnedSubfolder(c, q)' = OwnedSubfolder(c, q)
    BY <1>1 DEF Doomed, OwnedSubfolder, Closing, At
  <1>5. Stays
    BY <1>3, <1>4 DEF FoldersInv, Disk, Stays
  <1> QED BY <1>2, <1>5, WriteFolderKeepsRows DEF FoldersInv, FoldersGoOn

LEMMA RemoveFolderKeepsFolders ==
    ASSUME NEW t \in Thread, FoldersInv, NEW c \in Connection, RemoveFolder(t, c)
    PROVE  FoldersGoOn
  <1>0. RowsInv /\ Disk /\ Leaving
    BY DEF FoldersInv, FoldersGoOn
  <1>1. /\ Calm(t) /\ At(t, "removing") /\ c \in op[t].left
        /\ \A d \in op[t].left : d # c => op'[t].pc = "removing" /\ d \in op'[t].left
        /\ folders' = folders \ Tree(<<c>>)
    BY <1>0, RemoveFolderStep
  <1>2. RowsInv'
    BY <1>0, <1>1, CalmKeepsRows
  <1>3. Leaving'
    BY <1>0, <1>1 DEF Leaving, Calm, At
  <1>4. /\ page_items' = page_items /\ connection_items' = connection_items /\ frozen' = frozen
        /\ \A u \in Thread : u # t => op'[u] = op[u]
    BY <1>1 DEF Calm
  <1>5. ASSUME NEW d \in Connection, d # c, Doomed(d)
        PROVE  Doomed(d)'
    <2>1. PICK u \in Thread : \/ At(u, "removing") /\ d \in op[u].left
                              \/ At(u, "demolishing") /\ d \in op[u].after
      BY <1>5 DEF Doomed
    <2>2. CASE u = t
      BY <1>1, <1>5, <2>1, <2>2 DEF Doomed, At
    <2>3. CASE u # t
      BY <1>4, <2>1, <2>3 DEF Doomed, At
    <2> QED BY <2>2, <2>3
  <1>6. ASSUME NEW d \in Connection, NEW p \in Page, Closing(d, p)
        PROVE  Closing(d, p)'
    BY <1>1, <1>4, <1>6 DEF Closing, At
  <1>7. ASSUME NEW d \in Connection, d # c, OwnedFolder(d)
        PROVE  OwnedFolder(d)'
    BY <1>4, <1>5, <1>6, <1>7 DEF OwnedFolder
  <1>8. ASSUME NEW d \in Connection, d # c, NEW p \in Page, OwnedSubfolder(d, p)
        PROVE  OwnedSubfolder(d, p)'
    BY <1>4, <1>5, <1>6, <1>8 DEF OwnedSubfolder
  <1>9. \A d \in Connection : <<d>> \in folders' => <<d>> \in folders /\ d # c
    BY <1>1, TreeOfConnection
  <1>10. \A d \in Connection, p \in Page : <<d, p>> \in folders' => <<d, p>> \in folders /\ d # c
    BY <1>1, TreeOfConnection
  <1>11. Stays
    BY <1>0, <1>7, <1>8, <1>9, <1>10 DEF Disk, Stays
  <1> QED BY <1>2, <1>3, <1>11 DEF FoldersInv, FoldersGoOn

LEMMA ShrinksPendings ==
    ASSUME NEW t \in Thread, Shrinks(t)
    PROVE  Pendings
  <1>1. /\ op[t].pc = "demolishing" /\ op'[t].pc = "demolishing"
        /\ op'[t].inside = op[t].inside /\ op'[t].after = op[t].after
        /\ \A u \in Thread : u # t => op'[u] = op[u]
    BY DEF Shrinks, Demolitions, At
  <1>2. ASSUME NEW c \in Connection, Doomed(c)
        PROVE  Doomed(c)'
    BY <1>1, <1>2 DEF Doomed, At
  <1>3. ASSUME NEW c \in Connection, NEW p \in Page, Closing(c, p)
        PROVE  Closing(c, p)'
    BY <1>1, <1>3 DEF Closing, At
  <1> QED BY <1>2, <1>3 DEF Pendings

\* A row goes: what it leaves on disk is to be removed, or it sleeps.
LEMMA RowsGoKeepsFolders ==
    ASSUME NEW t \in Thread, FoldersInv,
           \/ \E p \in Page : RemovePage(t, p)
           \/ \E c \in Connection : RemoveConnection(t, c)
           \/ \E u \in AllUser : RemoveUser(t, u)
    PROVE  FoldersGoOn
  <1>0. RowsInv /\ Disk /\ Leaving /\ Typed
    BY DEF FoldersInv, RowsInv
  <1>1. ASSUME NEW p \in Page, RemovePage(t, p)
        PROVE  FoldersGoOn
    <2>1. /\ RowsInv' /\ Shrinks(t) /\ p \in op[t].pages /\ op'[t].pages = op[t].pages \ {p}
          /\ op'[t].connections = op[t].connections
          /\ page_items' = [q \in DOMAIN page_items \ {p} |-> page_items[q]]
          /\ connection_items' = connection_items
      BY <1>0, <1>1, RemovePageKeepsRows
    <2>2. /\ Pendings /\ At(t, "demolishing") /\ folders' = folders /\ frozen' = frozen
          /\ op'[t].inside = op[t].inside /\ op'[t].after = op[t].after
          /\ \A u \in Thread : u # t => op'[u] = op[u] /\ ~At(u, "demolishing")
      BY <1>0, <2>1, ShrinksPendings, GoingOfOne DEF Shrinks, At
    <2>3. Leaving'
      <3>1. op[t].pages \subseteq DOMAIN page_items
        BY <1>0, <2>2, GoingOfOne DEF RowsInv, PageLinks
      <3>2. \A q \in op'[t].pages : q \in op[t].pages /\ page_items'[q] = page_items[q]
        BY <2>1, <3>1
      <3>3. \A q \in DOMAIN page_items' : q \in DOMAIN page_items /\ q # p
        BY <2>1
      <3>4. /\ \A q \in op[t].pages :
                  /\ q \in DOMAIN frozen.pages => frozen.pages[q] = page_items[q]
                  /\ \/ q \in DOMAIN frozen.pages
                     \/ page_items[q] \in op[t].after
                     \/ <<page_items[q], q>> \in op[t].inside
            /\ \A c \in op[t].connections : \/ c \in DOMAIN frozen.connections
                                            \/ c \in op[t].after
                                            \/ \E q \in Page : <<c, q>> \in op[t].inside
            /\ \A c \in Connection, q \in Page : <<c, q>> \in op[t].inside =>
                  /\ c \notin DOMAIN frozen.connections /\ q \notin DOMAIN frozen.pages
                  /\ q \in DOMAIN page_items => q \in op[t].pages
        BY <1>0, <2>2 DEF Leaving
      <3>5. \A u \in Thread : op'[u].pc = "demolishing" => u = t
        BY <2>2 DEF At
      <3>6. \A q \in op'[t].pages :
                /\ q \in DOMAIN frozen'.pages => frozen'.pages[q] = page_items'[q]
                /\ \/ q \in DOMAIN frozen'.pages
                   \/ page_items'[q] \in op'[t].after
                   \/ <<page_items'[q], q>> \in op'[t].inside
        BY <2>2, <3>2, <3>4
      <3>7. \A c \in op'[t].connections : \/ c \in DOMAIN frozen'.connections
                                          \/ c \in op'[t].after
                                          \/ \E q \in Page : <<c, q>> \in op'[t].inside
        BY <2>1, <2>2, <3>4
      <3>8. \A c \in Connection, q \in Page : <<c, q>> \in op'[t].inside =>
                /\ c \notin DOMAIN frozen'.connections /\ q \notin DOMAIN frozen'.pages
                /\ q \in DOMAIN page_items' => q \in op'[t].pages
        BY <2>1, <2>2, <3>3, <3>4
      <3> QED BY <3>5, <3>6, <3>7, <3>8 DEF Leaving, At
    <2>4. ASSUME NEW c \in Connection, OwnedFolder(c)
          PROVE  OwnedFolder(c)'
      BY <2>1, <2>2, <2>4 DEF OwnedFolder, Pendings
    <2>5. ASSUME NEW c \in Connection, NEW q \in Page, OwnedSubfolder(c, q)
          PROVE  OwnedSubfolder(c, q)'
      <3>1. CASE q # p
        BY <2>1, <2>2, <2>5, <3>1 DEF OwnedSubfolder, Pendings
      <3>2. CASE q = p
        <4>1. page_items[p] = c
          BY <1>0, <2>1, <2>2, <2>5, <3>2, GoingOfOne DEF OwnedSubfolder, RowsInv, PageLinks
        <4>2. p \in DOMAIN frozen.pages \/ Doomed(c) \/ Closing(c, p)
          BY <1>0, <2>1, <2>2, <4>1 DEF Leaving, Doomed, Closing
        <4> QED BY <2>1, <2>2, <2>5, <3>2, <4>2 DEF OwnedSubfolder, Pendings
      <3> QED BY <3>1, <3>2
    <2>6. Stays
      BY <1>0, <2>4, <2>5 DEF Disk, Stays
    <2> QED BY <2>1, <2>3, <2>6 DEF FoldersInv, FoldersGoOn
  <1>2. ASSUME NEW c \in Connection, RemoveConnection(t, c)
        PROVE  FoldersGoOn
    <2>1. /\ RowsInv' /\ Shrinks(t) /\ c \in op[t].connections /\ op'[t].pages = op[t].pages
          /\ op'[t].connections = op[t].connections \ {c}
          /\ connection_items' = [d \in DOMAIN connection_items \ {c} |-> connection_items[d]]
          /\ page_items' = page_items
      BY <1>0, <1>2, RemoveConnectionKeepsRows
    <2>2. /\ Pendings /\ At(t, "demolishing") /\ folders' = folders /\ frozen' = frozen
          /\ op'[t].inside = op[t].inside /\ op'[t].after = op[t].after
          /\ \A u \in Thread : u # t => op'[u] = op[u] /\ ~At(u, "demolishing")
      BY <1>0, <2>1, ShrinksPendings, GoingOfOne DEF Shrinks, At
    <2>3. Leaving'
      BY <1>0, <2>1, <2>2 DEF Leaving, At
    <2>4. ASSUME NEW d \in Connection, OwnedFolder(d)
          PROVE  OwnedFolder(d)'
      <3>1. CASE d # c
        BY <2>1, <2>2, <2>4, <3>1 DEF OwnedFolder, Pendings
      <3>2. CASE d = c
        <4>1. c \in DOMAIN frozen.connections \/ Doomed(c) \/ \E p \in Page : Closing(c, p)
          BY <1>0, <2>1, <2>2 DEF Leaving, Doomed, Closing
        <4> QED BY <2>1, <2>2, <3>2, <4>1 DEF OwnedFolder, Pendings
      <3> QED BY <3>1, <3>2
    <2>5. ASSUME NEW d \in Connection, NEW q \in Page, OwnedSubfolder(d, q)
          PROVE  OwnedSubfolder(d, q)'
      BY <2>1, <2>2, <2>5 DEF OwnedSubfolder, Pendings
    <2>6. Stays
      BY <1>0, <2>4, <2>5 DEF Disk, Stays
    <2> QED BY <2>1, <2>3, <2>6 DEF FoldersInv, FoldersGoOn
  <1>3. ASSUME NEW u \in AllUser, RemoveUser(t, u)
        PROVE  FoldersGoOn
    <2>1. /\ RowsInv' /\ Shrinks(t) /\ op'[t].pages = op[t].pages
          /\ op'[t].connections = op[t].connections
          /\ connection_items' = connection_items /\ page_items' = page_items
      BY <1>0, <1>3, RemoveUserKeepsRows
    <2>2. /\ Pendings /\ At(t, "demolishing") /\ folders' = folders /\ frozen' = frozen
          /\ op'[t].inside = op[t].inside /\ op'[t].after = op[t].after
          /\ \A v \in Thread : v # t => op'[v] = op[v] /\ ~At(v, "demolishing")
      BY <1>0, <2>1, ShrinksPendings, GoingOfOne DEF Shrinks, At
    <2>3. Leaving'
      BY <1>0, <2>1, <2>2 DEF Leaving, At
    <2>4. Sheltered
      BY <2>1, <2>2 DEF Sheltered
    <2> QED BY <1>0, <2>1, <2>3, <2>4, ShelteredKeepsDisk DEF FoldersInv, FoldersGoOn
  <1> QED BY <1>1, <1>2, <1>3

\* What goes from the disk when the demolition of t ends.
Cleared(t) == UNION {ClosedFolder(path[1], path[2]) : path \in op[t].inside}

LEMMA ClearedPaths ==
    ASSUME NEW t \in Thread, op[t] \in Demolitions
    PROVE  /\ \A d \in Connection : <<d>> \in Cleared(t) <=>
                  <<d>> \in folders /\ d \notin DOMAIN connection_items /\ \E p \in Page : <<d, p>> \in op[t].inside
           /\ \A d \in Connection, q \in Page : <<d, q>> \in Cleared(t) <=>
                  /\ <<d, q>> \in folders
                  /\ \/ <<d, q>> \in op[t].inside
                     \/ d \notin DOMAIN connection_items /\ \E p \in Page : <<d, p>> \in op[t].inside
  <1>1. op[t].inside \subseteq Connection \X Page
    BY DEF Demolitions
  <1>2. \A x : x \in Cleared(t) <=>
            \E c \in Connection, p \in Page : <<c, p>> \in op[t].inside /\ x \in ClosedFolder(c, p)
    <2>1. ASSUME NEW x, x \in Cleared(t)
          PROVE  \E c \in Connection, p \in Page : <<c, p>> \in op[t].inside /\ x \in ClosedFolder(c, p)
      <3>1. PICK path \in op[t].inside : x \in ClosedFolder(path[1], path[2])
        BY <2>1 DEF Cleared
      <3>2. PICK c \in Connection, p \in Page : path = <<c, p>>
        BY <1>1, <3>1
      <3>3. path[1] = c /\ path[2] = p
        BY <3>2
      <3> QED BY <3>1, <3>2, <3>3
    <2>2. ASSUME NEW x, NEW c \in Connection, NEW p \in Page, <<c, p>> \in op[t].inside, x \in ClosedFolder(c, p)
          PROVE  x \in Cleared(t)
      <3>1. <<c, p>>[1] = c /\ <<c, p>>[2] = p
        OBVIOUS
      <3>2. ClosedFolder(c, p) \in {ClosedFolder(path[1], path[2]) : path \in op[t].inside}
        BY <2>2, <3>1
      <3> QED BY <2>2, <3>2 DEF Cleared
    <2> QED BY <2>1, <2>2
  <1>3. ASSUME NEW d \in Connection
        PROVE  <<d>> \in Cleared(t) <=>
                  <<d>> \in folders /\ d \notin DOMAIN connection_items /\ \E p \in Page : <<d, p>> \in op[t].inside
    <2>1. \A c \in Connection, p \in Page :
              <<d>> \in ClosedFolder(c, p) <=> <<d>> \in folders /\ c \notin DOMAIN connection_items /\ c = d
      BY TreeOfConnection, TreeOfPage DEF ClosedFolder
    <2> QED BY <1>2, <2>1
  <1>4. ASSUME NEW d \in Connection, NEW q \in Page
        PROVE  <<d, q>> \in Cleared(t) <=>
                  /\ <<d, q>> \in folders
                  /\ \/ <<d, q>> \in op[t].inside
                     \/ d \notin DOMAIN connection_items /\ \E p \in Page : <<d, p>> \in op[t].inside
    <2>1. \A c \in Connection, p \in Page :
              <<d, q>> \in ClosedFolder(c, p) <=>
                  <<d, q>> \in folders /\ d = c /\ (c \notin DOMAIN connection_items \/ p = q)
      BY TreeOfConnection, TreeOfPage DEF ClosedFolder
    <2> QED BY <1>2, <2>1
  <1> QED BY <1>3, <1>4

LEMMA DemolishedKeepsFolders ==
    ASSUME NEW t \in Thread, FoldersInv, Demolished(t)
    PROVE  FoldersGoOn
  <1>0. RowsInv /\ Disk
    BY DEF FoldersInv, FoldersGoOn
  <1>1. /\ RowsInv' /\ At(t, "demolishing") /\ op[t] \in Demolitions /\ Unlocked'
        /\ \A u \in Thread : u # t => op'[u] = op[u]
        /\ op[t].after # {} => op'[t].pc = "removing" /\ op'[t].left = op[t].after
        /\ page_items' = page_items /\ connection_items' = connection_items /\ frozen' = frozen
    BY <1>0, DemolishedKeepsRows
  <1>2. folders' = folders \ Cleared(t)
    BY DEF Demolished, Cleared
  <1>3. \A u \in Thread : u # t => ~At(u, "demolishing")
    BY <1>0, <1>1, GoingOfOne DEF At
  <1>4. ASSUME NEW c \in Connection, Doomed(c)
        PROVE  Doomed(c)'
    <2>1. PICK u \in Thread : \/ At(u, "removing") /\ c \in op[u].left
                              \/ At(u, "demolishing") /\ c \in op[u].after
      BY <1>4 DEF Doomed
    <2>2. CASE u = t
      BY <1>1, <2>1, <2>2 DEF Doomed, At
    <2>3. CASE u # t
      BY <1>1, <2>1, <2>3 DEF Doomed, At
    <2> QED BY <2>2, <2>3
  <1>5. \A c \in Connection, p \in Page : Closing(c, p) => <<c, p>> \in op[t].inside
    BY <1>3 DEF Closing
  <1>6. ASSUME NEW c \in Connection, OwnedFolder(c),
               c \in DOMAIN connection_items \/ ~ \E p \in Page : <<c, p>> \in op[t].inside
        PROVE  OwnedFolder(c)'
    BY <1>1, <1>4, <1>5, <1>6 DEF OwnedFolder
  <1>7. ASSUME NEW c \in Connection, NEW p \in Page, OwnedSubfolder(c, p), <<c, p>> \notin op[t].inside
        PROVE  OwnedSubfolder(c, p)'
    BY <1>1, <1>4, <1>5, <1>7 DEF OwnedSubfolder
  <1>8. \A c \in Connection : <<c>> \in (folders \ late) \cap folders' => OwnedFolder(c)'
    BY <1>0, <1>1, <1>2, <1>6, ClearedPaths DEF Disk
  <1>9. \A c \in Connection, p \in Page :
            <<c, p>> \in (folders \ late) \cap folders' => OwnedFolder(c)' /\ OwnedSubfolder(c, p)'
    BY <1>0, <1>1, <1>2, <1>6, <1>7, ClearedPaths DEF Disk
  <1>10. Stays
    BY <1>8, <1>9 DEF Stays
  <1> QED BY <1>1, <1>10, LeavingWhenUnlocked DEF FoldersInv, FoldersGoOn

LEMMA NextFolders ==
    ASSUME FoldersInv, Next
    PROVE  FoldersGoOn
  <1>0. RowsInv
    BY DEF FoldersInv
  <1>1. ASSUME NEW t \in Thread,
               \/ \E c \in Connection : new_connection(t, c) \/ \E p \in Page : new_page(t, p, c)
               \/ \E p \in Page, cascade \in BOOLEAN : drop_page(t, p, cascade)
               \/ \E c \in Connection : drop_connection(t, c)
               \/ FindOwner(t)
               \/ Read(t)
        PROVE  FoldersGoOn
    BY <1>0, <1>1, CalmSteps, CalmKeepsFolders
  <1>2. ASSUME NEW t \in Thread, Birth(t)
        PROVE  FoldersGoOn
    BY <1>1, <1>2, RegisterKeepsFolders, OpenKeepsFolders, LoginKeepsFolders DEF Birth
  <1>3. ASSUME NEW t \in Thread, Drop(t)
        PROVE  FoldersGoOn
    BY <1>1, <1>3, DropsKeepFolders, DemolishedKeepsFolders, RemoveFolderKeepsFolders,
       RowsGoKeepsFolders, Zenon DEF Drop
  <1>4. ASSUME NEW t \in Thread, Sleep(t)
        PROVE  FoldersGoOn
    BY <1>4, DropsKeepFolders, WakeKeepsFolders DEF Sleep
  <1>5. ASSUME NEW p \in Writer, WriteFolder(p)
        PROVE  FoldersGoOn
    BY <1>5, WriteFolderKeepsFolders
  <1> QED BY <1>1, <1>2, <1>3, <1>4, <1>5 DEF Next

\* What a step puts on disk has its row, or is late from the start.
LEMMA NextKeepsFolders ==
    ASSUME FoldersInv, Homes', Next
    PROVE  FoldersInv'
  <1>0. FoldersGoOn /\ Watch
    BY NextFolders DEF Next
  <1>1. \A path \in folders' \ late' :
            path \in folders \ late \/ HasRow(path, page_items', connection_items', frozen')
    BY <1>0 DEF Watch
  <1>2. ASSUME NEW c \in Connection, <<c>> \in folders' \ late'
        PROVE  OwnedFolder(c)'
    <2>1. CASE HasRow(<<c>>, page_items', connection_items', frozen')
      <3>1. <<c>>[1] = c
        OBVIOUS
      <3> QED BY <2>1, <3>1 DEF HasRow, OwnedFolder
    <2>2. CASE <<c>> \in folders \ late
      BY <1>0, <1>2, <2>2 DEF FoldersGoOn, Stays
    <2> QED BY <1>1, <1>2, <2>1, <2>2
  <1>3. ASSUME NEW c \in Connection, NEW p \in Page, <<c, p>> \in folders' \ late'
        PROVE  OwnedFolder(c)' /\ OwnedSubfolder(c, p)'
    <2>1. CASE HasRow(<<c, p>>, page_items', connection_items', frozen')
      <3>1. <<c, p>>[1] = c /\ <<c, p>>[2] = p /\ Len(<<c, p>>) = 2
        OBVIOUS
      <3>2. /\ c \in DOMAIN connection_items' \cup DOMAIN frozen'.connections
            /\ p \in DOMAIN page_items' \cup DOMAIN frozen'.pages
        BY <2>1, <3>1 DEF HasRow
      <3>3. c = minted'[p]
        BY <1>3 DEF Homes
      <3> QED BY <3>2, <3>3 DEF Homes, OwnedFolder, OwnedSubfolder
    <2>2. CASE <<c, p>> \in folders \ late
      BY <1>0, <1>3, <2>2 DEF FoldersGoOn, Stays
    <2> QED BY <1>1, <1>3, <2>1, <2>2
  <1>4. Disk'
    BY <1>2, <1>3 DEF Disk
  <1> QED BY <1>0, <1>4 DEF FoldersInv, FoldersGoOn

\* Every folder on disk has a row that lives or sleeps, or its removal is under
\* way: the inductive form of what the three drop verbs promise.
THEOREM FoldersInvariant == Spec => []FoldersInv
  <1>1. Init => FoldersInv
    <2> SUFFICES ASSUME Init PROVE FoldersInv
      OBVIOUS
    <2>1. folders = {} /\ \A t \in Thread : ~At(t, "demolishing")
      BY DEF Init, Idle, At
    <2> QED BY <2>1, InitRows DEF FoldersInv, Disk, Leaving
  <1>2. FoldersInv /\ UNCHANGED vars => FoldersInv'
    <2> SUFFICES ASSUME FoldersInv, UNCHANGED vars PROVE FoldersInv'
      OBVIOUS
    <2>1. /\ page_items' = page_items /\ connection_items' = connection_items /\ frozen' = frozen
          /\ op' = op /\ folders' = folders /\ late' = late
      BY DEF vars, rowVars
    <2>2. Sheltered /\ Leaving'
      BY <2>1 DEF Sheltered, Pendings, Doomed, Closing, At, FoldersInv, Leaving
    <2>3. Stays
      BY <2>2, ShelteredKeepsDisk DEF FoldersInv
    <2>4. Disk'
      BY <2>1, <2>3 DEF Stays, Disk
    <2> QED BY <2>2, <2>4, StutterKeepsRows DEF FoldersInv
  <1>3. FoldersInv /\ Homes' /\ [Next]_vars => FoldersInv'
    BY <1>2, NextKeepsFolders
  <1> QED BY <1>1, <1>3, HomesInvariant, PTL DEF Spec

\* Once no removal is pending, each connection folder is of a connection that
\* lives or sleeps and each page's subfolder of a page that does
\* (genropy_worker.py, "the three drop verbs remove the connection folders
\* together with the rows"), but for what a request still running on a dropped
\* page has made after the removal.
THEOREM NoFolderIsLeft == Spec => []FoldersHaveRows
  <1>1. FoldersInv => FoldersHaveRows
    <2> SUFFICES ASSUME FoldersInv, Unlocked, \A t \in Thread : ~At(t, "removing"),
                        NEW path \in folders \ late
                 PROVE  /\ path[1] \in DOMAIN connection_items \cup DOMAIN frozen.connections
                        /\ Len(path) = 2 => path[2] \in DOMAIN page_items \cup DOMAIN frozen.pages
      BY DEF FoldersHaveRows, HasRow
    <2>1. (\A c \in Connection : ~Doomed(c)) /\ \A c \in Connection, p \in Page : ~Closing(c, p)
      BY DEF Doomed, Closing, Unlocked
    <2>2. path \in Paths
      BY DEF FoldersInv, RowsInv, Typed
    <2>3. ASSUME NEW c \in Connection, path = <<c>>
          PROVE  path[1] \in DOMAIN connection_items \cup DOMAIN frozen.connections /\ Len(path) = 1
      BY <2>1, <2>3 DEF FoldersInv, Disk, OwnedFolder
    <2>4. ASSUME NEW c \in Connection, NEW p \in Page, path = <<c, p>>
          PROVE  /\ path[1] \in DOMAIN connection_items \cup DOMAIN frozen.connections
                 /\ path[2] \in DOMAIN page_items \cup DOMAIN frozen.pages
      BY <2>1, <2>4 DEF FoldersInv, Disk, OwnedFolder, OwnedSubfolder
    <2> QED BY <2>2, <2>3, <2>4 DEF Paths
  <1> QED BY FoldersInvariant, <1>1, PTL

\* The path is not of a row that lives or sleeps, or the late rmtree of a
\* connection's removal reaches it.
MayGo(path) ==
    \/ \E t \in Thread : At(t, "removing") /\ path[1] \in op[t].left
    \/ Len(path) = 1 /\ path[1] \notin DOMAIN connection_items \cup DOMAIN frozen.connections
    \/ Len(path) = 2 /\ path[2] \notin DOMAIN page_items \cup DOMAIN frozen.pages

LEMMA DemolishedSpares ==
    ASSUME NEW t \in Thread, FoldersInv, Homes, Demolished(t), NEW path \in folders \ folders'
    PROVE  MayGo(path)
  <1>0. RowsInv /\ Disk /\ Leaving /\ PageLinks /\ Parcels
    BY DEF FoldersInv, RowsInv
  <1>1. At(t, "demolishing") /\ op[t] \in Demolitions /\ GoingPages = {} /\ GoingConnections = {}
    BY <1>0, DemolishedKeepsRows
  <1>2. path \in Cleared(t)
    BY DEF Demolished, Cleared
  <1>3. \A c \in Connection, p \in Page : <<c, p>> \in op[t].inside =>
            /\ c \notin DOMAIN frozen.connections /\ p \notin DOMAIN frozen.pages
            /\ p \notin DOMAIN page_items
    <2>1. op[t].pages = {}
      BY DEF Demolished
    <2> QED BY <1>0, <1>1, <2>1 DEF Leaving
  <1>4. path \in Paths
    BY <1>0 DEF RowsInv, Typed
  <1>5. ASSUME NEW c \in Connection, path = <<c>>
        PROVE  MayGo(path)
    <2>1. c \notin DOMAIN connection_items /\ c \notin DOMAIN frozen.connections
      BY <1>1, <1>2, <1>3, <1>5, ClearedPaths
    <2>2. Len(path) = 1 /\ path[1] = c
      BY <1>5
    <2> QED BY <2>1, <2>2 DEF MayGo
  <1>6. ASSUME NEW c \in Connection, NEW p \in Page, path = <<c, p>>
        PROVE  MayGo(path)
    <2>1. \/ <<c, p>> \in op[t].inside
          \/ c \notin DOMAIN connection_items /\ c \notin DOMAIN frozen.connections
      BY <1>1, <1>2, <1>3, <1>6, ClearedPaths
    <2>2. /\ p \in DOMAIN page_items => page_items[p] = c
          /\ p \in DOMAIN frozen.pages => frozen.pages[p] = c
      BY <1>6 DEF Homes
    <2>3. p \notin DOMAIN page_items \cup DOMAIN frozen.pages
      <3>1. CASE <<c, p>> \in op[t].inside
        BY <1>3, <3>1
      <3>2. CASE c \notin DOMAIN connection_items /\ c \notin DOMAIN frozen.connections
        BY <1>0, <1>1, <2>2, <3>2 DEF PageLinks, Parcels
      <3> QED BY <2>1, <3>1, <3>2
    <2>4. Len(path) = 2 /\ path[2] = p
      BY <1>6
    <2> QED BY <2>3, <2>4 DEF MayGo
  <1> QED BY <1>4, <1>5, <1>6 DEF Paths

LEMMA NextSpares ==
    ASSUME FoldersInv, Homes, Next, NEW path \in folders \ folders'
    PROVE  MayGo(path)
  <1>0. RowsInv
    BY DEF FoldersInv
  <1>1. ASSUME NEW t \in Thread, NEW c \in Connection, RemoveFolder(t, c)
        PROVE  MayGo(path)
    <2>1. At(t, "removing") /\ c \in op[t].left /\ path \in Tree(<<c>>)
      BY <1>1 DEF RemoveFolder
    <2>2. path[1] = c
      BY <2>1 DEF Tree
    <2> QED BY <2>1, <2>2 DEF MayGo
  <1>2. ASSUME NEW t \in Thread, Birth(t)
        PROVE  folders' = folders
    BY <1>2, Zenon DEF Birth, new_connection, new_page, Register, Open, change_connection_user
  <1>3. ASSUME NEW t \in Thread, Drop(t)
        PROVE  folders' = folders \/ Demolished(t) \/ \E c \in Connection : RemoveFolder(t, c)
    BY <1>3, Zenon DEF Drop, drop_page, FindOwner, Close, Logout, drop_connection, RemoveConnection,
       RemovePage, drop_user, RemoveUser
  <1>4. ASSUME NEW t \in Thread, Sleep(t)
        PROVE  folders' = folders
    BY <1>4, Zenon DEF Sleep, freeze_user, wake
  <1>5. ASSUME NEW t \in Thread, Read(t)
        PROVE  folders' = folders
    BY <1>0, <1>5, CalmSteps
  <1>6. ASSUME NEW p \in Writer, WriteFolder(p)
        PROVE  folders \subseteq folders'
    BY <1>6 DEF WriteFolder
  <1>7. ASSUME NEW t \in Thread, Demolished(t)
        PROVE  MayGo(path)
    BY <1>7, DemolishedSpares
  <1> QED BY <1>1, <1>2, <1>3, <1>4, <1>5, <1>6, <1>7 DEF Next

\* No step removes the folder of a connection, or the subfolder of a page, that
\* lives or sleeps: "a frozen or moved user's folders must survive for the
\* wake"; only the late rmtree of drop_connection and drop_user can
\* (genropy_worker.py).
THEOREM FoldersAreSpared == Spec => FoldersSurvive
  <1>1. FoldersInv /\ Homes /\ [Next]_vars =>
            [\A path \in folders \ folders' :
                \/ \E t \in Thread : At(t, "removing") /\ path[1] \in op[t].left
                \/ Len(path) = 1 /\ path[1] \notin DOMAIN connection_items \cup DOMAIN frozen.connections
                \/ Len(path) = 2 /\ path[2] \notin DOMAIN page_items \cup DOMAIN frozen.pages]_vars
    BY NextSpares DEF MayGo
  <1> QED BY FoldersInvariant, HomesInvariant, <1>1, PTL DEF Spec, FoldersSurvive
-----------------------------------------------------------------------------
(* What a reader has in its hands. *)

LEMMA InMatchingAll ==
    ASSUME NEW filter, NEW pages, NEW connections, NEW users,
           NEW p \in MatchingAll(filter, pages, connections, users)
    PROVE  /\ p \in DOMAIN pages /\ pages[p] \in DOMAIN connections
           /\ connections[pages[p]] \in users
           /\ "user" \in DOMAIN filter => connections[pages[p]] \in filter.user
           /\ "pagename" \in DOMAIN filter => NameMatches(filter, p)
  <1>1. p \in OwnedBy(users, pages, connections)
    BY DEF MatchingAll
  <1>2. "user" \in DOMAIN filter => p \in OwnedBy(filter.user, pages, connections)
    BY DEF MatchingAll, Matching
  <1>3. "pagename" \in DOMAIN filter => NameMatches(filter, p)
    BY DEF MatchingAll, Matching
  <1> QED BY <1>1, <1>2, <1>3 DEF OwnedBy

LEMMA InMatchingSome ==
    ASSUME NEW filter, NEW pages, NEW connections, NEW p \in DOMAIN pages,
           \/ NameMatches(filter, p)
           \/ /\ "user" \in DOMAIN filter
              /\ pages[p] \in DOMAIN connections /\ connections[pages[p]] \in filter.user
    PROVE  p \in MatchingSome(filter, pages, connections)
  <1>1. CASE NameMatches(filter, p)
    <2>1. "pagename" \in DOMAIN filter
      BY <1>1 DEF NameMatches
    <2>2. p \in Matching("pagename", filter, pages, connections)
      BY <1>1 DEF Matching
    <2> QED BY <2>1, <2>2 DEF MatchingSome
  <1>2. CASE /\ "user" \in DOMAIN filter
             /\ pages[p] \in DOMAIN connections /\ connections[pages[p]] \in filter.user
    <2>1. p \in Matching("user", filter, pages, connections)
      BY <1>2 DEF Matching, OwnedBy
    <2> QED BY <1>2, <2>1 DEF MatchingSome
  <1> QED BY <1>1, <1>2

\* The history of a read that goes on.
LEMMA WatchGoesOn ==
    ASSUME Watch, NEW v \in Thread, Reads(op[v]), Reads(op'[v])
    PROVE  /\ steady'[v] \subseteq steady[v]
           /\ steady'[v] \subseteq MatchingAll(op'[v].filter, page_items', connection_items', user_items')
           /\ ever[v] \subseteq ever'[v]
           /\ MatchingSome(op'[v].filter, page_items', connection_items') \subseteq ever'[v]
  <1>1. /\ steady'[v] = MatchingAll(op'[v].filter, page_items', connection_items', user_items')
                            \cap steady[v]
        /\ ever'[v] = MatchingSome(op'[v].filter, page_items', connection_items') \cup ever[v]
    BY DEF Watch
  <1> QED BY <1>1

LEMMA WatchBegins ==
    ASSUME Watch, NEW v \in Thread, ~Reads(op[v]), Reads(op'[v])
    PROVE  steady'[v] \subseteq MatchingAll(op'[v].filter, page_items', connection_items', user_items')
                                    \cap Page
  BY DEF Watch

LEMMA WatchHistory ==
    ASSUME Watch
    PROVE  History'
  <1>1. DOMAIN steady' = Thread /\ DOMAIN ever' = Thread
    BY DEF Watch
  <1>2. \A t \in Thread : ~Reads(op'[t]) => steady'[t] = {} /\ ever'[t] = {}
    BY DEF Watch
  <1>3. \A t \in Thread : Reads(op[t])' = Reads(op'[t])
    BY DEF Reads
  <1> QED BY <1>1, <1>2, <1>3 DEF History

\* An opened page that has gone stays gone, one that is settled stays so.
LEMMA GoneLasts ==
    ASSUME NEW p \in Page, Known(p), Gone(p), Lasting
    PROVE  Gone(p)'
  BY DEF Gone, Lasting, Opened, Known

LEMMA SettledLasts ==
    ASSUME NEW p \in Page, NEW c \in Connection, Settled(p, c), Lasting
    PROVE  Settled(p, c)'
  BY DEF Settled, Lasting, Opened, Known

\* What a reader of the thread v has in its hands.
InHand(v) == ReadShape(v) /\ Complete(v) /\ (op[v].filtered => Within(v))

LEMMA ReaderAside ==
    ASSUME RowsInv, RowsInv', ReadsInv, Lasting, Watch,
           NEW v \in Thread, Reads(op[v]), op'[v] = op[v]
    PROVE  InHand(v)'
  <1>0. /\ InHand(v) /\ Reads(op'[v])
        /\ op'[v].filter = op[v].filter
    BY DEF ReadsInv, InHand
  <1>1. /\ steady'[v] \subseteq steady[v]
        /\ steady'[v] \subseteq MatchingAll(op'[v].filter, page_items', connection_items', user_items')
        /\ ever[v] \subseteq ever'[v]
        /\ MatchingSome(op'[v].filter, page_items', connection_items') \subseteq ever'[v]
    BY <1>0, WatchGoesOn
  <1>2. ReadShape(v)'
    <2>1. ASSUME op[v].pc = "owning", NEW p \in Page, NEW c \in Connection, <<p, c>> \in op[v].keys
          PROVE  p \in op[v].rows /\ Settled(p, c)'
      BY <1>0, <2>1, SettledLasts DEF InHand, ReadShape, At
    <2> QED BY <1>0, <2>1 DEF InHand, ReadShape, At
  <1>3. Complete(v)'
    <2> SUFFICES ASSUME NEW p \in steady'[v]
                 PROVE  /\ p \in MatchingAll(op'[v].filter, page_items', connection_items', user_items')
                        /\ \/ p \in op'[v].answer
                           \/ op'[v].pc # "answered" /\ p \in op'[v].rows
                           \/ op'[v].pc = "listing" /\ <<"page", p>> \in op'[v].keys
                           \/ op'[v].pc = "listing" /\ <<"connection", page_items'[p]>> \in op'[v].keys
      BY DEF Complete, At
    <2>1. p \in MatchingAll(op'[v].filter, page_items', connection_items', user_items')
      BY <1>1
    <2>2. p \in DOMAIN page_items'
      BY <2>1, InMatchingAll
    <2>3. /\ p \in MatchingAll(op[v].filter, page_items, connection_items, user_items)
          /\ \/ p \in op[v].answer
             \/ op[v].pc # "answered" /\ p \in op[v].rows
             \/ op[v].pc = "listing" /\ <<"page", p>> \in op[v].keys
             \/ op[v].pc = "listing" /\ <<"connection", page_items[p]>> \in op[v].keys
      BY <1>0, <1>1 DEF InHand, Complete, At
    <2>4. p \in DOMAIN page_items
      BY <2>3, InMatchingAll
    <2>5. page_items'[p] = page_items[p]
      BY <2>2, <2>4 DEF Lasting
    <2> QED BY <2>1, <2>3, <2>5
  <1>4. ASSUME op[v].filtered
        PROVE  Within(v)'
    <2>0. Within(v)
      BY <1>0, <1>4 DEF InHand
    <2>1. ASSUME NEW p \in op[v].answer
          PROVE  p \in Page /\ Known(p)' /\ (p \in ever'[v] \/ Gone(p)')
      <3>1. p \in Page /\ Known(p) /\ (p \in ever[v] \/ Gone(p))
        BY <2>0, <2>1 DEF Within
      <3> QED BY <1>1, <3>1, GoneLasts DEF Lasting
    <2>2. ASSUME NEW p \in op[v].rows
          PROVE  p \in Page /\ Known(p)' /\ (NameMatches(op[v].filter, p) => p \in ever'[v])
      <3>1. p \in Page /\ Known(p) /\ (NameMatches(op[v].filter, p) => p \in ever[v])
        BY <2>0, <2>2 DEF Within
      <3> QED BY <1>1, <3>1 DEF Lasting
    <2>3. ASSUME op[v].pc = "owning", NEW p \in Page, NEW c \in Connection, <<p, c>> \in op[v].keys, ~Gone(p)',
                 c \in DOMAIN connection_items', connection_items'[c] \in op[v].filter.user
          PROVE  p \in ever'[v]
      <3>1. "user" \in DOMAIN op[v].filter /\ Settled(p, c)
        BY <1>0, <2>3 DEF InHand, ReadShape, At
      <3>2. Settled(p, c)'
        BY <3>1, SettledLasts
      <3>3. CASE p \in DOMAIN page_items'
        <4>1. page_items'[p] = c
          BY <3>2, <3>3 DEF Settled
        <4>2. p \in MatchingSome(op'[v].filter, page_items', connection_items')
          BY <1>0, <2>3, <3>1, <3>3, <4>1, InMatchingSome
        <4> QED BY <1>1, <4>2
      <3>4. CASE p \notin DOMAIN page_items'
        <4>1. p \in DOMAIN frozen'.pages /\ frozen'.pages[p] = c
          BY <2>3, <3>2, <3>4 DEF Gone, Settled
        <4>2. c \in GoingConnections'
          BY <2>3, <4>1 DEF RowsInv, Parcels
        <4>3. ~Unlocked'
          BY <4>2 DEF GoingConnections, Unlocked
        <4>4. c \in DOMAIN connection_items /\ connection_items[c] \in op[v].filter.user
          BY <2>3, <4>3 DEF Lasting
        <4>5. ~Gone(p)
          BY <2>3, <3>1, GoneLasts DEF Settled
        <4>6. p \in ever[v]
          BY <2>0, <2>3, <4>4, <4>5 DEF Within, At
        <4> QED BY <1>1, <4>6
      <3> QED BY <3>3, <3>4
    <2> QED BY <2>1, <2>2, <2>3 DEF Within, At
  <1>5. op'[v].filtered = op[v].filtered
    OBVIOUS
  <1> QED BY <1>2, <1>3, <1>4, <1>5 DEF InHand

LEMMA RestRows ==
    ASSUME Rest
    PROVE  /\ page_items' = page_items /\ connection_items' = connection_items
           /\ user_items' = user_items /\ frozen' = frozen
  BY DEF Rest, rowVars

LEMMA RowIsKnown ==
    ASSUME RowsInv, NEW p \in DOMAIN page_items
    PROVE  p \in Page /\ Known(p)
  BY DEF RowsInv, Typed, Fresh, Known

\* A page living and asleep at once is being frozen: it has one connection.
LEMMA RowIsSettled ==
    ASSUME FoldersInv, NEW p \in DOMAIN page_items
    PROVE  Settled(p, page_items[p])
  <1>1. RowsInv /\ Known(p)
    BY RowIsKnown DEF FoldersInv
  <1>2. p \in DOMAIN frozen.pages => frozen.pages[p] = page_items[p]
    BY <1>1 DEF RowsInv, Parcels, GoingPages, FoldersInv, Leaving
  <1> QED BY <1>1, <1>2 DEF Settled

LEMMA FilterHasTerms ==
    ASSUME NEW f \in Filters
    PROVE  "user" \in DOMAIN f \/ "pagename" \in DOMAIN f
  <1>1. CASE f \in Filter
    BY <1>1, RegistersAssumption
  <1>2. ASSUME NEW u \in User, f = [user |-> {u}]
        PROVE  "user" \in DOMAIN f
    BY <1>2
  <1> QED BY <1>1, <1>2 DEF Filters

LEMMA pages_by_filterInHand ==
    ASSUME FoldersInv, ReadsInv, Lasting, Watch, NEW t \in Thread, NEW filter \in Filter,
           pages_by_filter(t, filter)
    PROVE  InHand(t)'
  <1> DEFINE keys == {<<"page", p>> : p \in DOMAIN page_items}
  <1>1. op[t] = Idle /\ Rest /\ op'[t] = Reading(filter, keys, TRUE)
    BY pages_by_filterStep DEF FoldersInv, RowsInv, Only
  <1>2. keys \subseteq {"page"} \X Page
    BY DEF FoldersInv, RowsInv, Typed
  <1>3. \A p \in DOMAIN page_items : <<"page", p>> \in keys
    OBVIOUS
  <1> HIDE DEF keys
  <1>4. /\ op'[t].pc = "listing" /\ op'[t].keys = keys /\ op'[t].rows = {} /\ op'[t].answer = {}
        /\ ~Reads(op[t]) /\ Reads(op'[t])
    BY <1>1 DEF Reading, Reads, Idle
  <1>5. steady'[t] \subseteq MatchingAll(op'[t].filter, page_items', connection_items', user_items')
    BY <1>4, WatchBegins
  <1>6. \A p \in steady'[t] : <<"page", p>> \in keys
    <2>1. \A p \in steady'[t] : p \in DOMAIN page_items'
      BY <1>5, InMatchingAll
    <2> QED BY <1>1, <1>3, <2>1, RestRows
  <1>7. ReadShape(t)'
    BY <1>2, <1>4 DEF ReadShape, At
  <1>8. Complete(t)'
    BY <1>4, <1>5, <1>6 DEF Complete, At
  <1>9. Within(t)'
    BY <1>4 DEF Within, At
  <1> QED BY <1>7, <1>8, <1>9 DEF InHand

LEMMA pages_by_userInHand ==
    ASSUME FoldersInv, ReadsInv, Lasting, Watch, NEW t \in Thread, NEW u \in User,
           pages_by_user(t, u)
    PROVE  InHand(t)'
  <1> DEFINE keys == {<<"connection", c>> : c \in IF u \in user_items THEN ConnectionsOf(u) ELSE {}}
             filter == [user |-> {u}]
  <1>1. op[t] = Idle /\ Rest /\ op'[t] = Reading(filter, keys, FALSE)
    BY pages_by_userStep DEF FoldersInv, RowsInv, Only
  <1>2. \A c \in DOMAIN connection_items :
            connection_items[c] = u /\ u \in user_items => <<"connection", c>> \in keys
    BY DEF ConnectionsOf
  <1>3. "user" \in DOMAIN filter /\ filter.user = {u}
    OBVIOUS
  <1> HIDE DEF keys, filter
  <1>4. /\ op'[t].pc = "listing" /\ op'[t].keys = keys /\ op'[t].rows = {} /\ op'[t].answer = {}
        /\ op'[t].filter = filter /\ op'[t].filtered = FALSE
        /\ ~Reads(op[t]) /\ Reads(op'[t])
    BY <1>1 DEF Reading, Reads, Idle
  <1>5. steady'[t] \subseteq MatchingAll(filter, page_items', connection_items', user_items')
    BY <1>4, WatchBegins
  <1>6. \A p \in steady'[t] : <<"connection", page_items'[p]>> \in keys
    <2>1. \A p \in steady'[t] : /\ page_items'[p] \in DOMAIN connection_items'
                                /\ connection_items'[page_items'[p]] = u /\ u \in user_items'
      BY <1>3, <1>5, InMatchingAll
    <2> QED BY <1>1, <1>2, <2>1, RestRows
  <1>7. ReadShape(t)'
    BY <1>4 DEF ReadShape, At
  <1>8. Complete(t)'
    BY <1>4, <1>5, <1>6 DEF Complete, At
  <1> QED BY <1>4, <1>7, <1>8 DEF InHand

\* What a read that goes on has had in its hands, and what it may count on.
GoesOn(t) ==
    /\ Rest /\ op[t] \in Readings /\ InHand(t) /\ op'[t].filter = op[t].filter
    /\ steady'[t] \subseteq steady[t]
    /\ \A p \in steady'[t] : p \in MatchingAll(op'[t].filter, page_items', connection_items', user_items')
    /\ ever[t] \subseteq ever'[t]
    /\ MatchingSome(op[t].filter, page_items, connection_items) \subseteq ever'[t]
    /\ \A p \in Page : Known(p) => Known(p)'
    /\ \A p \in Page : Gone(p)' = Gone(p)

LEMMA ReadGoesOn ==
    ASSUME ReadsInv, Lasting, Watch, NEW t \in Thread, Rest, op[t] \in Readings,
           op'[t].pc \in ReadPc, op'[t].filter = op[t].filter
    PROVE  GoesOn(t)
  <1>1. Reads(op[t]) /\ Reads(op'[t])
    BY ReadingByPc DEF Reads, ReadPc
  <1>2. InHand(t)
    BY <1>1 DEF ReadsInv, InHand
  <1>3. \A p \in Page : Gone(p)' = Gone(p)
    BY RestRows DEF Gone
  <1>4. MatchingSome(op'[t].filter, page_items', connection_items')
            = MatchingSome(op[t].filter, page_items, connection_items)
    BY RestRows
  <1> QED BY <1>1, <1>2, <1>3, <1>4, WatchGoesOn DEF GoesOn, Lasting

LEMMA FetchInHand ==
    ASSUME FoldersInv, ReadsInv, Lasting, Watch, NEW t \in Thread, At(t, "listing"),
           NEW key \in op[t].keys, Fetch(t, key)
    PROVE  InHand(t)'
  <1>1. /\ op[t] \in Readings /\ Rest
        /\ op'[t].pc = "listing" /\ op'[t].filter = op[t].filter /\ op'[t].filtered = op[t].filtered
        /\ op'[t].keys = (op[t].keys \ {key}) \cup Edges(key)
        /\ op'[t].rows = op[t].rows \cup ({key[2]} \cap DOMAIN page_items)
        /\ op'[t].answer = op[t].answer
    BY FetchStep DEF FoldersInv, RowsInv
  <1>2. GoesOn(t)
    BY <1>1, ReadGoesOn DEF ReadPc
  <1>3. op[t].answer = {}
    BY <1>2 DEF GoesOn, InHand, ReadShape
  <1>4. ASSUME op[t].filtered
        PROVE  op'[t].keys \subseteq {"page"} \X Page
    <2>1. op[t].keys \subseteq {"page"} \X Page
      BY <1>2, <1>4 DEF GoesOn, InHand, ReadShape
    <2>2. key[1] = "page"
      BY <2>1
    <2>3. Edges(key) = {}
      BY <2>2 DEF Edges
    <2> QED BY <1>1, <2>1, <2>3
  <1>5. ReadShape(t)'
    BY <1>1, <1>3, <1>4 DEF ReadShape, At
  <1>6. Complete(t)'
    <2> SUFFICES ASSUME NEW p \in steady'[t]
                 PROVE  \/ p \in op'[t].rows
                        \/ <<"page", p>> \in op'[t].keys
                        \/ <<"connection", page_items'[p]>> \in op'[t].keys
      BY <1>1, <1>2 DEF Complete, At, GoesOn
    <2>1. page_items' = page_items
      BY <1>1, RestRows
    <2>2. p \in DOMAIN page_items
      BY <1>2, <2>1, InMatchingAll DEF GoesOn
    <2>3. \/ p \in op[t].rows
          \/ <<"page", p>> \in op[t].keys
          \/ <<"connection", page_items[p]>> \in op[t].keys
      BY <1>2, <1>3 DEF GoesOn, InHand, Complete
    <2>4. CASE key = <<"page", p>>
      <3>1. key[2] = p
        BY <2>4
      <3> QED BY <1>1, <2>2, <3>1
    <2>5. CASE key = <<"connection", page_items[p]>>
      <3>1. key[1] = "connection" /\ key[2] = page_items[p]
        BY <2>5
      <3>2. <<"page", p>> \in Edges(key)
        <4>1. page_items[p] \in DOMAIN connection_items
          BY <1>1, <1>2, RestRows, InMatchingAll DEF GoesOn
        <4> QED BY <2>2, <3>1, <4>1 DEF Edges, PagesOf
      <3> QED BY <1>1, <3>2
    <2> QED BY <1>1, <2>1, <2>3, <2>4, <2>5
  <1>7. ASSUME op[t].filtered
        PROVE  Within(t)'
    <2>0. Within(t)
      BY <1>2, <1>7 DEF GoesOn, InHand
    <2>1. ASSUME NEW p \in op'[t].rows
          PROVE  p \in Page /\ Known(p)' /\ (NameMatches(op'[t].filter, p) => p \in ever'[t])
      <3>1. CASE p \in op[t].rows
        BY <1>1, <1>2, <2>0, <3>1 DEF Within, GoesOn
      <3>2. CASE p \in DOMAIN page_items
        <4>1. p \in Page /\ Known(p)
          BY <3>2, RowIsKnown DEF FoldersInv
        <4>2. NameMatches(op[t].filter, p) => p \in MatchingSome(op[t].filter, page_items, connection_items)
          BY <3>2, InMatchingSome
        <4> QED BY <1>1, <1>2, <4>1, <4>2 DEF GoesOn
      <3> QED BY <1>1, <2>1, <3>1, <3>2
    <2> QED BY <1>1, <1>3, <2>1 DEF Within, At
  <1> QED BY <1>1, <1>5, <1>6, <1>7 DEF InHand

LEMMA FetchedInHand ==
    ASSUME FoldersInv, ReadsInv, Lasting, Watch, NEW t \in Thread, Fetched(t)
    PROVE  InHand(t)'
  <1>1. /\ op[t] \in Readings /\ At(t, "listing") /\ op[t].keys = {} /\ Rest
        /\ op'[t].filter = op[t].filter /\ op'[t].filtered = op[t].filtered
        /\ op[t].filtered => /\ op'[t].pc = "filtering" /\ op'[t].rows = op[t].rows
                             /\ op'[t].answer = op[t].answer
        /\ ~op[t].filtered => op'[t].pc = "answered" /\ op'[t].answer = op[t].rows
    BY FetchedStep DEF FoldersInv, RowsInv
  <1>2. GoesOn(t)
    BY <1>1, ReadGoesOn DEF ReadPc
  <1>3. \A p \in steady'[t] : p \in op[t].rows
    BY <1>1, <1>2 DEF GoesOn, InHand, Complete, ReadShape, At
  <1>4. CASE op[t].filtered
    <2>1. op'[t].filtered /\ op'[t].pc = "filtering" /\ op'[t].rows = op[t].rows /\ op'[t].answer = op[t].answer
      BY <1>1, <1>4
    <2>2. ReadShape(t)'
      BY <2>1 DEF ReadShape, At
    <2>3. Complete(t)'
      BY <1>2, <1>3, <2>1 DEF Complete, At, GoesOn
    <2>4. Within(t)
      BY <1>2, <1>4 DEF GoesOn, InHand
    <2>5. \A p \in op'[t].answer : p \in Page /\ Known(p)' /\ (p \in ever'[t] \/ Gone(p)')
      BY <1>2, <2>1, <2>4 DEF GoesOn, Within
    <2>6. \A p \in op'[t].rows : p \in Page /\ Known(p)' /\ (NameMatches(op'[t].filter, p) => p \in ever'[t])
      BY <1>1, <1>2, <2>1, <2>4 DEF GoesOn, Within
    <2>7. Within(t)'
      BY <2>1, <2>5, <2>6 DEF Within, At
    <2> QED BY <2>2, <2>3, <2>7 DEF InHand
  <1>5. CASE ~op[t].filtered
    <2>1. ~op'[t].filtered /\ op'[t].pc = "answered" /\ op'[t].answer = op[t].rows
      BY <1>1, <1>5
    <2>2. ReadShape(t)'
      BY <2>1 DEF ReadShape, At
    <2>3. Complete(t)'
      BY <1>2, <1>3, <2>1 DEF Complete, At, GoesOn
    <2> QED BY <2>1, <2>2, <2>3 DEF InHand
  <1> QED BY <1>4, <1>5

LEMMA FilterItemInHand ==
    ASSUME FoldersInv, ReadsInv, Lasting, Watch, NEW t \in Thread, NEW p \in Page, FilterItem(t, p)
    PROVE  InHand(t)'
  <1>1. /\ op[t] \in Readings /\ At(t, "filtering") /\ p \in op[t].rows /\ Rest
        /\ op'[t].filter = op[t].filter /\ op'[t].filtered = op[t].filtered
        /\ \/ /\ "user" \in DOMAIN op[t].filter /\ p \in DOMAIN page_items
              /\ op'[t].pc = "owning" /\ op'[t].keys = {<<p, page_items[p]>>}
              /\ op'[t].rows = op[t].rows /\ op'[t].answer = op[t].answer
           \/ /\ ~("user" \in DOMAIN op[t].filter /\ p \in DOMAIN page_items)
              /\ op'[t].pc = "filtering" /\ op'[t].rows = op[t].rows \ {p}
              /\ op'[t].answer = op[t].answer \cup {q \in {p} : NameMatches(op[t].filter, q)}
    BY FilterItemStep DEF FoldersInv, RowsInv
  <1>2. GoesOn(t)
    BY <1>1, ReadGoesOn DEF ReadPc
  <1>3. op[t].filtered /\ op'[t].filtered /\ Within(t)
    BY <1>1, <1>2 DEF GoesOn, InHand, ReadShape, At
  <1>4. \A q \in steady'[t] : q \in op[t].answer \/ q \in op[t].rows
    BY <1>1, <1>2 DEF GoesOn, InHand, Complete, At
  <1>5. \A q \in op[t].answer : q \in Page /\ Known(q)' /\ (q \in ever'[t] \/ Gone(q)')
    BY <1>2, <1>3 DEF GoesOn, Within
  <1>6. \A q \in op[t].rows : q \in Page /\ Known(q)' /\ (NameMatches(op'[t].filter, q) => q \in ever'[t])
    BY <1>1, <1>2, <1>3 DEF GoesOn, Within
  <1>7. CASE /\ "user" \in DOMAIN op[t].filter /\ p \in DOMAIN page_items
             /\ op'[t].pc = "owning" /\ op'[t].keys = {<<p, page_items[p]>>}
             /\ op'[t].rows = op[t].rows /\ op'[t].answer = op[t].answer
    <2>1. \A q \in Page, c \in Connection : <<q, c>> \in op'[t].keys => q = p /\ c = page_items[p]
      BY <1>7
    <2>2. ASSUME NEW c \in Connection, c = page_items[p]
          PROVE  Settled(p, c)'
      <3>1. Settled(p, c)
        BY <1>7, <2>2, RowIsSettled
      <3> QED BY <3>1, SettledLasts
    <2>3. ReadShape(t)'
      BY <1>1, <1>3, <1>7, <2>1, <2>2 DEF ReadShape, At
    <2>4. Complete(t)'
      BY <1>2, <1>4, <1>7 DEF Complete, At, GoesOn
    <2>5. ASSUME NEW c \in Connection, c = page_items[p], c \in DOMAIN connection_items',
                 connection_items'[c] \in op'[t].filter.user
          PROVE  p \in ever'[t]
      <3>1. p \in MatchingSome(op[t].filter, page_items, connection_items)
        BY <1>1, <1>7, <2>5, InMatchingSome, RestRows
      <3> QED BY <1>2, <3>1 DEF GoesOn
    <2>6. Within(t)'
      BY <1>5, <1>6, <1>7, <2>1, <2>5 DEF Within, At
    <2> QED BY <2>3, <2>4, <2>6 DEF InHand
  <1>8. CASE /\ ~("user" \in DOMAIN op[t].filter /\ p \in DOMAIN page_items)
             /\ op'[t].pc = "filtering" /\ op'[t].rows = op[t].rows \ {p}
             /\ op'[t].answer = op[t].answer \cup {q \in {p} : NameMatches(op[t].filter, q)}
    <2>1. ReadShape(t)'
      BY <1>3, <1>8 DEF ReadShape, At
    <2>2. ASSUME p \in steady'[t]
          PROVE  p \in op'[t].answer
      <3>1. p \in MatchingAll(op[t].filter, page_items, connection_items, user_items)
        BY <1>1, <1>2, <2>2, RestRows DEF GoesOn
      <3>2. "user" \notin DOMAIN op[t].filter
        BY <1>8, <3>1, InMatchingAll
      <3>3. "pagename" \in DOMAIN op[t].filter
        BY <1>1, <3>2, ReadingByPc, FilterHasTerms
      <3>4. NameMatches(op[t].filter, p)
        BY <3>1, <3>3, InMatchingAll
      <3> QED BY <1>8, <3>4
    <2>3. \A q \in steady'[t] : q \in op'[t].answer \/ q \in op'[t].rows
      BY <1>4, <1>8, <2>2
    <2>4. Complete(t)'
      BY <1>2, <1>8, <2>3 DEF Complete, At, GoesOn
    <2>5. Within(t)'
      <3>1. \A q \in op'[t].answer : q \in op[t].answer \/ (q = p /\ NameMatches(op'[t].filter, p))
        BY <1>1, <1>8
      <3>2. \A q \in op'[t].rows : q \in op[t].rows
        BY <1>8
      <3> QED BY <1>1, <1>5, <1>6, <1>8, <3>1, <3>2 DEF Within, At
    <2> QED BY <2>1, <2>4, <2>5 DEF InHand
  <1> QED BY <1>1, <1>7, <1>8

LEMMA OwnerFoundInHand ==
    ASSUME FoldersInv, ReadsInv, Lasting, Watch, NEW t \in Thread, At(t, "owning"), OwnerFound(t)
    PROVE  InHand(t)'
  <1>1. /\ op[t] \in Readings /\ Rest
        /\ op'[t].filter = op[t].filter /\ op'[t].filtered = op[t].filtered /\ op'[t].pc = "filtering"
    BY OwnerFoundStep DEF FoldersInv, RowsInv
  <1>2. PICK p \in Page, c \in Connection :
            /\ <<p, c>> \in op[t].keys
            /\ op'[t].rows = op[t].rows \ {p}
            /\ op'[t].answer = op[t].answer \cup
                  {q \in {p} : \/ NameMatches(op[t].filter, q)
                               \/ c \in DOMAIN connection_items /\ connection_items[c] \in op[t].filter.user}
    BY OwnerFoundStep DEF FoldersInv, RowsInv
  <1>3. GoesOn(t)
    BY <1>1, ReadGoesOn DEF ReadPc
  <1>4. /\ op[t].filtered /\ op'[t].filtered /\ Within(t) /\ "user" \in DOMAIN op[t].filter
        /\ p \in op[t].rows /\ Settled(p, c)
    BY <1>1, <1>2, <1>3 DEF GoesOn, InHand, ReadShape, At
  <1>5. ReadShape(t)'
    BY <1>1, <1>4 DEF ReadShape, At
  <1>6. \A q \in steady'[t] : q \in op[t].answer \/ q \in op[t].rows
    BY <1>3 DEF GoesOn, InHand, Complete, At
  <1>7. ASSUME p \in steady'[t]
        PROVE  p \in op'[t].answer
    <2>1. p \in MatchingAll(op[t].filter, page_items, connection_items, user_items)
      BY <1>1, <1>3, <1>7, RestRows DEF GoesOn
    <2>2. /\ p \in DOMAIN page_items /\ page_items[p] \in DOMAIN connection_items
          /\ connection_items[page_items[p]] \in op[t].filter.user
      BY <1>4, <2>1, InMatchingAll
    <2>3. page_items[p] = c
      BY <1>4, <2>2 DEF Settled
    <2> QED BY <1>2, <2>2, <2>3
  <1>8. \A q \in steady'[t] : q \in op'[t].answer \/ q \in op'[t].rows
    BY <1>2, <1>6, <1>7
  <1>9. Complete(t)'
    BY <1>1, <1>3, <1>8 DEF Complete, At, GoesOn
  <1>10. Within(t)'
    <2>1. \A q \in op[t].answer : q \in Page /\ Known(q)' /\ (q \in ever'[t] \/ Gone(q)')
      BY <1>3, <1>4 DEF GoesOn, Within
    <2>2. \A q \in op[t].rows : q \in Page /\ Known(q)' /\ (NameMatches(op'[t].filter, q) => q \in ever'[t])
      BY <1>1, <1>3, <1>4 DEF GoesOn, Within
    <2>3. c \in DOMAIN connection_items /\ connection_items[c] \in op[t].filter.user
             => p \in ever'[t] \/ Gone(p)'
      BY <1>2, <1>3, <1>4 DEF GoesOn, Within
    <2>4. \A q \in op'[t].answer :
              \/ q \in op[t].answer
              \/ q = p /\ NameMatches(op'[t].filter, p)
              \/ q = p /\ c \in DOMAIN connection_items /\ connection_items[c] \in op[t].filter.user
      BY <1>1, <1>2
    <2>5. \A q \in op'[t].answer : q \in Page /\ Known(q)' /\ (q \in ever'[t] \/ Gone(q)')
      BY <1>4, <2>1, <2>2, <2>3, <2>4
    <2>6. \A q \in op'[t].rows : q \in op[t].rows
      BY <1>2
    <2> QED BY <1>1, <2>2, <2>5, <2>6 DEF Within, At
  <1> QED BY <1>5, <1>9, <1>10 DEF InHand

LEMMA FilteredInHand ==
    ASSUME FoldersInv, ReadsInv, Lasting, Watch, NEW t \in Thread, Filtered(t)
    PROVE  InHand(t)'
  <1>1. /\ op[t] \in Readings /\ At(t, "filtering") /\ op[t].rows = {} /\ Rest
        /\ op'[t].filter = op[t].filter /\ op'[t].filtered = op[t].filtered
        /\ op'[t].pc = "answered" /\ op'[t].answer = op[t].answer /\ op'[t].rows = op[t].rows
    BY FilteredStep DEF FoldersInv, RowsInv
  <1>2. GoesOn(t)
    BY <1>1, ReadGoesOn DEF ReadPc
  <1>3. op[t].filtered /\ Within(t)
    BY <1>1, <1>2 DEF GoesOn, InHand, ReadShape, At
  <1>4. ReadShape(t)'
    BY <1>1 DEF ReadShape, At
  <1>5. \A p \in steady'[t] : p \in op'[t].answer
    BY <1>1, <1>2 DEF GoesOn, InHand, Complete, At
  <1>6. Complete(t)'
    BY <1>1, <1>2, <1>5 DEF Complete, At, GoesOn
  <1>7. \A p \in op[t].answer : p \in Page /\ Known(p)' /\ (p \in ever'[t] \/ Gone(p)')
    BY <1>2, <1>3 DEF GoesOn, Within
  <1>8. Within(t)'
    BY <1>1, <1>7 DEF Within, At
  <1> QED BY <1>4, <1>6, <1>8 DEF InHand

LEMMA ReadKeepsInHand ==
    ASSUME FoldersInv, ReadsInv, Lasting, Watch, NEW t \in Thread, Read(t), Reads(op'[t])
    PROVE  InHand(t)'
  <1>1. ~ReadEnds(t)
    <2>1. ASSUME ReadEnds(t)
          PROVE  FALSE
      <3>1. op'[t] = Idle
        BY <2>1, ReadEndsStep DEF FoldersInv, RowsInv, Only
      <3> QED BY <3>1 DEF Reads, Idle
    <2> QED BY <2>1
  <1> QED BY <1>1, pages_by_filterInHand, pages_by_userInHand, FetchInHand, FetchedInHand,
             FilterItemInHand, OwnerFoundInHand, FilteredInHand, Zenon DEF Read

LEMMA NextKeepsReads ==
    ASSUME FoldersInv, ReadsInv, Next
    PROVE  ReadsInv'
  <1>0. RowsInv /\ RowsInv' /\ Watch /\ Lasting
    BY NextKeepsRows, NextLasts DEF FoldersInv, Next
  <1>1. ASSUME NEW v \in Thread, Reads(op'[v])
        PROVE  InHand(v)'
    <2>1. CASE op'[v] = op[v]
      BY <1>0, <1>1, <2>1, ReaderAside
    <2>2. CASE op'[v] # op[v]
      <3>1. PICK t \in Thread : Read(t)
        BY <1>0, <1>1, <2>2, NextLasts DEF Aside
      <3>2. v = t
        BY <1>0, <2>2, <3>1, CalmSteps DEF Calm
      <3> QED BY <1>0, <1>1, <3>1, <3>2, ReadKeepsInHand
    <2> QED BY <2>1, <2>2
  <1>2. History'
    BY <1>0, WatchHistory
  <1> QED BY <1>1, <1>2 DEF ReadsInv, InHand, Reads

\* A read holds, at each of its steps, every page that has answered its
\* question all along, and no living page that never did.
THEOREM ReadsInvariant == Spec => []ReadsInv
  <1>1. Init => ReadsInv
    BY DEF Init, Idle, ReadsInv, History, Reads
  <1>2. ReadsInv /\ UNCHANGED vars => ReadsInv'
    <2> SUFFICES ASSUME ReadsInv, UNCHANGED vars PROVE ReadsInv'
      OBVIOUS
    <2>1. /\ page_items' = page_items /\ connection_items' = connection_items /\ user_items' = user_items
          /\ frozen' = frozen /\ minted' = minted /\ op' = op /\ steady' = steady /\ ever' = ever
      BY DEF vars, rowVars
    <2>2. History'
      BY <2>1 DEF ReadsInv, History
    <2>3. ASSUME NEW t \in Thread
          PROVE  ReadShape(t)' = ReadShape(t) /\ Complete(t)' = Complete(t) /\ Within(t)' = Within(t)
      BY <2>1 DEF ReadShape, Complete, Within, Settled, Known, Gone, At
    <2> QED BY <2>1, <2>2, <2>3 DEF ReadsInv
  <1>3. FoldersInv /\ ReadsInv /\ [Next]_vars => ReadsInv'
    BY <1>2, NextKeepsReads
  <1> QED BY <1>1, <1>3, FoldersInvariant, PTL DEF Spec

\* A read without the lock misses no page that answers its question from its
\* first step to its last, whatever is born, dropped, frozen, woken or
\* re-labelled beside it (siteregister_client.py, pages).
THEOREM NoPageIsMissed == Spec => []ReadsAreComplete
  <1>1. ReadsInv => ReadsAreComplete
    BY DEF ReadsInv, ReadsAreComplete, Complete, Reads, At
  <1> QED BY ReadsInvariant, <1>1, PTL

\* A broadcast reaches no living page that matched none of its terms at any
\* time of the read (siteregister_client.py, _filter_items).
THEOREM BroadcastIsWithin == Spec => []BroadcastStaysWithin
  <1>1. ReadsInv => BroadcastStaysWithin
    BY DEF ReadsInv, BroadcastStaysWithin, Within, Gone, Reads, At
  <1> QED BY ReadsInvariant, <1>1, PTL
=============================================================================
