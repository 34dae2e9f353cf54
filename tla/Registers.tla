----------------------------- MODULE Registers -----------------------------
(***************************************************************************)
(* The rows of a worker's registers and the verbs of the site that make,   *)
(* re-label, drop and list them: the lifecycle and the read commands of    *)
(* siteregister/siteregister_client.py, the three drop verbs with their    *)
(* disk folders of spa/genropy_worker.py, the freeze and the wake.         *)
(*                                                                         *)
(* What writes the rows holds dispatch_lock; what reads them does not, so  *)
(* a demolition is seen by a reader at every row it takes, and the client  *)
(* checks a row before the lock that its verb takes.  A read is one step   *)
(* per row it fetches.  rmtree is a step of its own where the code has     *)
(* released the lock.  The edges user -> connections -> pages are derived  *)
(* from the rows; stores, clocks and the other fields are left out.  The   *)
(* core's half of a verb (the row operations and their announcement) is    *)
(* modelled from how the client and the worker use it.                     *)
(***************************************************************************)
EXTENDS Naturals, Sequences, FiniteSets, Functions

CONSTANTS Page, Connection, User,
          Thread,     \* the threads of the worker
          PageName,   \* page -> its pagename
          Writer,     \* bound: the pages that keep files in their folder
          Filter      \* the filters asked for: term name -> the values its pattern matches

ASSUME RegistersAssumption ==
    /\ PageName \in [Page -> {PageName[p] : p \in Page}]
    /\ \A f \in Filter : DOMAIN f \subseteq {"user", "pagename"} /\ DOMAIN f # {}

VARIABLES page_items,        \* page -> its connection_id
          connection_items,  \* connection -> its user
          user_items,        \* the users with a row
          frozen,            \* the parcels: the pages and connections they carry
          minted,            \* the page ids used so far, each with its connection
          announced,         \* page -> connection, at the vertex once all is folded
          folders,           \* what is on disk: <<c>> and <<c, p>>
          op,                \* thread -> what it is in the middle of
          steady,            \* thread -> pages that answer its read all along (history)
          ever,              \* thread -> pages that did at some time of it (history)
          late               \* folders made when their row had gone (history)

rowVars == <<page_items, connection_items, user_items>>
vars == <<rowVars, frozen, minted, announced, folders, op, steady, ever, late>>

\* GUEST_PREFIX + cid
Guest(c) == <<"guest", c>>

Idle == [pc |-> "idle"]
EmptyMap == [k \in {} |-> {}]

Init ==
    /\ page_items = EmptyMap
    /\ connection_items = EmptyMap
    /\ user_items = {}
    /\ frozen = [pages |-> EmptyMap, connections |-> EmptyMap]
    /\ minted = EmptyMap
    /\ announced = EmptyMap
    /\ folders = {}
    /\ op = [t \in Thread |-> Idle]
    /\ steady = [t \in Thread |-> {}]
    /\ ever = [t \in Thread |-> {}]
    /\ late = {}

Put(f, k, v) == [j \in DOMAIN f \cup {k} |-> IF j = k THEN v ELSE f[j]]
Popped(f, keys) == Restrict(f, DOMAIN f \ keys)
Joined(f, g) == [k \in DOMAIN f \cup DOMAIN g |-> IF k \in DOMAIN g THEN g[k] ELSE f[k]]

PagesOf(cs) == {p \in DOMAIN page_items : page_items[p] \in cs}
ConnectionsOf(u) == {c \in DOMAIN connection_items : connection_items[c] = u}

At(t, pc) == op[t].pc = pc
Becomes(t, rec) == op' = [op EXCEPT ![t] = rec]

\* The connection sleeps, or is on its way to: the calls of its user are held
\* until the wake.
Asleep(c) == c \in DOMAIN frozen.connections

\* dispatch_lock is free.
Unlocked == \A t \in Thread : ~At(t, "demolishing")
-----------------------------------------------------------------------------
(* Births and the login. *)

\* new_connection of the client: the row is looked for without the lock; a
\* connection the worker holds is answered as it is.
new_connection(t, c) ==
    /\ At(t, "idle")
    /\ c \notin DOMAIN connection_items /\ ~Asleep(c)
    /\ Becomes(t, [pc |-> "registering", conn |-> c])
    /\ UNCHANGED <<rowVars, frozen, minted, announced, folders>>

\* The row, unless it has been made meanwhile.
Register(t) ==
    LET c == op[t].conn
    IN  /\ At(t, "registering") /\ Unlocked
        /\ connection_items' = Joined(Put(EmptyMap, c, Guest(c)), connection_items)
        /\ user_items' = user_items \cup {connection_items'[c]}
        /\ Becomes(t, Idle)
        /\ UNCHANGED <<page_items, frozen, minted, announced, folders>>

\* new_page of the client: a page belongs to its connection's user, read
\* without the lock.
new_page(t, p, c) ==
    /\ At(t, "idle")
    /\ p \notin DOMAIN minted
    /\ c \in DOMAIN connection_items /\ ~Asleep(c)
    /\ minted' = Put(minted, p, c)
    /\ Becomes(t, [pc |-> "opening", page |-> p, conn |-> c, user |-> connection_items[c]])
    /\ UNCHANGED <<rowVars, frozen, announced, folders>>

\* The core makes the connection too when it has none of that name.
Open(t) ==
    LET p == op[t].page  c == op[t].conn
    IN  /\ At(t, "opening") /\ Unlocked
        /\ page_items' = Put(page_items, p, c)
        /\ connection_items' = Joined(Put(EmptyMap, c, op[t].user), connection_items)
        /\ user_items' = user_items \cup {connection_items'[c]}
        /\ announced' = Put(announced, p, c)
        /\ Becomes(t, Idle)
        /\ UNCHANGED <<frozen, minted, folders>>

\* The login: the connection's pages go with it, and so does the row of the
\* user it leaves with no connection.
change_connection_user(t, c, u) ==
    /\ At(t, "idle") /\ Unlocked
    /\ c \in DOMAIN connection_items
    /\ connection_items' = [connection_items EXCEPT ![c] = u]
    /\ user_items' = {v \in user_items \cup {u} : \E d \in Connection :
                          d \in DOMAIN connection_items' /\ connection_items'[d] = v}
    /\ UNCHANGED <<page_items, frozen, minted, announced, folders, op>>

\* A request of the page writes in its folder, made on the spot.  The site does
\* not ask the registers: a request that is still running when its page is
\* dropped writes all the same.  A freeze waits for the user's requests.
WriteFolder(p) ==
    /\ p \in DOMAIN minted /\ ~Asleep(minted[p])
    /\ \A t \in Thread : At(t, "opening") => op[t].page # p
    /\ folders' = folders \cup {<<minted[p]>>, <<minted[p], p>>}
    /\ folders' # folders
    /\ UNCHANGED <<rowVars, frozen, minted, announced, op>>
-----------------------------------------------------------------------------
(* Demolitions: the rows go one by one under the lock. *)

\* rmtree
Tree(path) == {f \in folders : \A i \in DOMAIN path : i \in DOMAIN f /\ f[i] = path[i]}

\* What is to go, whether pages go first, the folder that goes before the
\* lock is released, the connection folders that go after it.
Demolition(pages, connections, ordered, inside, after) ==
    [pc |-> "demolishing", pages |-> pages, connections |-> connections,
     users |-> {u \in user_items : ConnectionsOf(u) # {} /\ ConnectionsOf(u) \subseteq connections},
     ordered |-> ordered, inside |-> inside, after |-> after]

\* Faulty variant: the vertex is not told.
RemovePageUntold(t, p) ==
    /\ At(t, "demolishing")
    /\ p \in op[t].pages
    /\ page_items' = Popped(page_items, {p})
    /\ op' = [op EXCEPT ![t].pages = @ \ {p}]
    /\ UNCHANGED <<connection_items, user_items, frozen, minted, announced, folders>>

RemovePage(t, p) ==
    /\ At(t, "demolishing")
    /\ p \in op[t].pages
    /\ page_items' = Popped(page_items, {p})
    /\ announced' = Popped(announced, {p})
    /\ op' = [op EXCEPT ![t].pages = @ \ {p}]
    /\ UNCHANGED <<connection_items, user_items, frozen, minted, folders>>

RemoveConnection(t, c) ==
    /\ At(t, "demolishing")
    /\ c \in op[t].connections
    /\ op[t].ordered => op[t].pages = {}
    /\ connection_items' = Popped(connection_items, {c})
    /\ op' = [op EXCEPT ![t].connections = @ \ {c}]
    /\ UNCHANGED <<page_items, user_items, frozen, minted, announced, folders>>

RemoveUser(t, u) ==
    /\ At(t, "demolishing")
    /\ u \in op[t].users
    /\ op[t].ordered => op[t].connections = {}
    /\ user_items' = user_items \ {u}
    /\ op' = [op EXCEPT ![t].users = @ \ {u}]
    /\ UNCHANGED <<page_items, connection_items, frozen, minted, announced, folders>>

\* Faulty variants: the page's subfolder goes even when the connection fell;
\* the whole folder goes even when it did not.
ClosedSubfolder(c, p) == Tree(<<c, p>>)
ClosedWhole(c, p) == Tree(<<c>>)

\* The disk of a dropped page: the whole connection folder when the
\* connection fell, the page's subfolder otherwise.
ClosedFolder(c, p) == IF c \in DOMAIN connection_items THEN Tree(<<c, p>>) ELSE Tree(<<c>>)

\* The lock is released, the folder of a dropped page gone before it.
Demolished(t) ==
    /\ At(t, "demolishing")
    /\ op[t].pages \cup op[t].connections \cup op[t].users = {}
    /\ folders' = folders \ UNION {ClosedFolder(path[1], path[2]) : path \in op[t].inside}
    /\ Becomes(t, IF op[t].after = {} THEN Idle ELSE [pc |-> "removing", left |-> op[t].after])
    /\ UNCHANGED <<rowVars, frozen, minted, announced>>

\* rmtree of one connection, the lock released.
RemoveFolder(t, c) ==
    /\ At(t, "removing")
    /\ c \in op[t].left
    /\ folders' = folders \ Tree(<<c>>)
    /\ Becomes(t, IF op[t].left = {c} THEN Idle ELSE [op[t] EXCEPT !.left = @ \ {c}])
    /\ UNCHANGED <<rowVars, frozen, minted, announced>>
-----------------------------------------------------------------------------
(* The drops. *)

\* drop_page of the client: the owner is walked without the lock, page first.
drop_page(t, p, cascade) ==
    /\ At(t, "idle")
    /\ p \in DOMAIN page_items /\ ~Asleep(page_items[p])
    /\ Becomes(t, [pc |-> "owner", page |-> p, conn |-> page_items[p], cascade |-> cascade])
    /\ UNCHANGED <<rowVars, frozen, minted, announced, folders>>

\* Then its connection: gone, the close is a no-op.
FindOwner(t) ==
    /\ At(t, "owner")
    /\ Becomes(t, IF op[t].conn \in DOMAIN connection_items
                  THEN [op[t] EXCEPT !.pc = "closing"] ELSE Idle)
    /\ UNCHANGED <<rowVars, frozen, minted, announced, folders>>

\* The worker's drop_page, under the lock: a page gone meanwhile is a no-op.
\* Without cascade the page goes alone; with it, what its departure empties.
Close(t) ==
    LET p == op[t].page  c == page_items[p]
        emptied == {d \in {c} : op[t].cascade /\ PagesOf({c}) = {p}}
    IN  /\ At(t, "closing") /\ Unlocked
        /\ \/ /\ p \in DOMAIN page_items
              /\ Becomes(t, Demolition({p}, emptied, TRUE, {<<c, p>>}, {}))
           \/ /\ p \notin DOMAIN page_items
              /\ Becomes(t, Idle)
        /\ UNCHANGED <<rowVars, frozen, minted, announced, folders>>

\* drop_connection of the client: a connection already gone is a no-op.
drop_connection(t, c) ==
    /\ At(t, "idle")
    /\ c \in DOMAIN connection_items /\ ~Asleep(c)
    /\ Becomes(t, [pc |-> "logout", conn |-> c])
    /\ UNCHANGED <<rowVars, frozen, minted, announced, folders>>

\* The worker's drop_connection; the folder goes once the lock is released.
\* The core is not asked what it does of a connection that has gone meanwhile:
\* it raises, or it passes and the folder is removed.
Logout(t) ==
    LET c == op[t].conn
    IN  /\ At(t, "logout") /\ Unlocked
        /\ \/ Becomes(t, Demolition(PagesOf({c}), {c} \cap DOMAIN connection_items, TRUE, {}, {c}))
           \/ c \notin DOMAIN connection_items /\ Becomes(t, Idle)
        /\ UNCHANGED <<rowVars, frozen, minted, announced, folders>>

\* The worker's drop_user: his connections are read under the lock.
drop_user(t, u) ==
    /\ At(t, "idle") /\ Unlocked
    /\ u \in user_items
    /\ Becomes(t, Demolition(PagesOf(ConnectionsOf(u)), ConnectionsOf(u), TRUE, {}, ConnectionsOf(u)))
    /\ UNCHANGED <<rowVars, frozen, minted, announced, folders>>
-----------------------------------------------------------------------------
(* The freeze and the wake: no folder is touched. *)

\* A verb of the user's own is pending: his freeze waits for it.
Pending(u) ==
    \E t \in Thread : \/ At(t, "removing") /\ op[t].left \cap ConnectionsOf(u) # {}
                      \/ /\ op[t].pc \in {"registering", "opening", "owner", "closing", "logout"}
                         /\ op[t].conn \in ConnectionsOf(u)

\* The rows go into the parcel and leave by the registry's internal removers,
\* in an order that is not assumed.
freeze_user(t, u) ==
    /\ At(t, "idle") /\ Unlocked
    /\ u \in user_items /\ ~Pending(u)
    /\ frozen' = [pages |-> Joined(frozen.pages, Restrict(page_items, PagesOf(ConnectionsOf(u)))),
                  connections |-> Joined(frozen.connections, Restrict(connection_items, ConnectionsOf(u)))]
    /\ Becomes(t, Demolition(PagesOf(ConnectionsOf(u)), ConnectionsOf(u), FALSE, {}, {}))
    /\ UNCHANGED <<rowVars, minted, announced, folders>>

\* Faulty variant: the pages stay in the parcel they have left.
WakeKeepsPages(t, c) ==
    LET pages == {p \in DOMAIN frozen.pages : frozen.pages[p] = c}
    IN  /\ At(t, "idle") /\ Unlocked
        /\ c \in DOMAIN frozen.connections
        /\ connection_items' = Put(connection_items, c, frozen.connections[c])
        /\ user_items' = user_items \cup {frozen.connections[c]}
        /\ page_items' = Joined(page_items, Restrict(frozen.pages, pages))
        /\ announced' = Joined(announced, Restrict(frozen.pages, pages))
        /\ frozen' = [frozen EXCEPT !.connections = Popped(@, {c})]
        /\ UNCHANGED <<minted, folders, op>>

\* Adoption of one connection of a parcel.
wake(t, c) ==
    LET pages == {p \in DOMAIN frozen.pages : frozen.pages[p] = c}
    IN  /\ At(t, "idle") /\ Unlocked
        /\ c \in DOMAIN frozen.connections
        /\ connection_items' = Put(connection_items, c, frozen.connections[c])
        /\ user_items' = user_items \cup {frozen.connections[c]}
        /\ page_items' = Joined(page_items, Restrict(frozen.pages, pages))
        /\ announced' = Joined(announced, Restrict(frozen.pages, pages))
        /\ frozen' = [pages |-> Popped(frozen.pages, pages),
                      connections |-> Popped(frozen.connections, {c})]
        /\ UNCHANGED <<minted, folders, op>>
-----------------------------------------------------------------------------
(* The reads: a snapshot of keys, then the rows one by one, without the lock. *)

Reading(filter, keys, filtered) ==
    [pc |-> "listing", filter |-> filter, keys |-> keys, filtered |-> filtered,
     rows |-> {}, answer |-> {}]

\* pages(filters=...), what setInClientData resolves its targets with.
pages_by_filter(t, filter) ==
    /\ At(t, "idle")
    /\ Becomes(t, Reading(filter, {<<"page", p>> : p \in DOMAIN page_items}, TRUE))
    /\ UNCHANGED <<rowVars, frozen, minted, announced, folders>>

\* pages(user=...): the ownership edges, each snapshot before it is walked.
pages_by_user(t, u) ==
    /\ At(t, "idle")
    /\ Becomes(t, Reading([user |-> {u}],
            {<<"connection", c>> : c \in IF u \in user_items THEN ConnectionsOf(u) ELSE {}}, FALSE))
    /\ UNCHANGED <<rowVars, frozen, minted, announced, folders>>

\* Faulty variant: the walk ends at the first row that has gone.
FetchStops(t, key) ==
    LET id == key[2]
        edges == IF key[1] = "connection" THEN {<<"page", p>> : p \in PagesOf({id} \cap DOMAIN connection_items)} ELSE {}
    IN  /\ At(t, "listing")
        /\ key \in op[t].keys
        /\ IF id \in DOMAIN page_items \cup DOMAIN connection_items
           THEN op' = [op EXCEPT ![t].keys = (@ \ {key}) \cup edges,
                                 ![t].rows = @ \cup ({id} \cap DOMAIN page_items)]
           ELSE op' = [op EXCEPT ![t].keys = {}]
        /\ UNCHANGED <<rowVars, frozen, minted, announced, folders>>

\* _live_rows: a row that has gone since the snapshot is not in the answer.
Fetch(t, key) ==
    LET id == key[2]
        edges == IF key[1] = "connection" THEN {<<"page", p>> : p \in PagesOf({id} \cap DOMAIN connection_items)} ELSE {}
    IN  /\ At(t, "listing")
        /\ key \in op[t].keys
        /\ op' = [op EXCEPT ![t].keys = (@ \ {key}) \cup edges,
                            ![t].rows = @ \cup ({id} \cap DOMAIN page_items)]
        /\ UNCHANGED <<rowVars, frozen, minted, announced, folders>>

Fetched(t) ==
    /\ At(t, "listing")
    /\ op[t].keys = {}
    /\ Becomes(t, IF op[t].filtered THEN [op[t] EXCEPT !.pc = "filtering"]
                  ELSE [op[t] EXCEPT !.pc = "answered", !.answer = op[t].rows])
    /\ UNCHANGED <<rowVars, frozen, minted, announced, folders>>

\* The terms on a row's own fields.
NameMatches(filter, p) == "pagename" \in DOMAIN filter /\ PageName[p] \in filter.pagename

\* Faulty variant: a page whose chain has a link gone matches any user.
JudgedOwnerless(rec, p, owners) ==
    [rec EXCEPT !.pc = "filtering", !.rows = @ \ {p},
                !.answer = @ \cup {q \in {p} : \/ NameMatches(rec.filter, q)
                                               \/ owners = {}
                                               \/ \E u \in owners : u \in rec.filter.user}]

\* The row joins the answer when some term matches it; no owner matches none.
Judged(rec, p, owners) ==
    [rec EXCEPT !.pc = "filtering", !.rows = @ \ {p},
                !.answer = @ \cup {q \in {p} : \/ NameMatches(rec.filter, q)
                                               \/ \E u \in owners : u \in rec.filter.user}]

\* _filter_items on one row.  A user term walks page -> connection -> user:
\* _page_owner, its first read here, its second in OwnerFound.
FilterItem(t, p) ==
    /\ At(t, "filtering")
    /\ p \in op[t].rows
    /\ Becomes(t, IF "user" \in DOMAIN op[t].filter /\ p \in DOMAIN page_items
                  THEN [op[t] EXCEPT !.pc = "owning", !.keys = {<<p, page_items[p]>>}]
                  ELSE Judged(op[t], p, {}))
    /\ UNCHANGED <<rowVars, frozen, minted, announced, folders>>

\* A chain with a link gone has no owner.
OwnerFound(t) ==
    \E key \in op[t].keys :
        /\ At(t, "owning")
        /\ Becomes(t, Judged([op[t] EXCEPT !.keys = {}], key[1],
                             {connection_items[c] : c \in {key[2]} \cap DOMAIN connection_items}))
        /\ UNCHANGED <<rowVars, frozen, minted, announced, folders>>

Filtered(t) ==
    /\ At(t, "filtering")
    /\ op[t].rows = {}
    /\ Becomes(t, [op[t] EXCEPT !.pc = "answered"])
    /\ UNCHANGED <<rowVars, frozen, minted, announced, folders>>

ReadEnds(t) ==
    /\ At(t, "answered")
    /\ Becomes(t, Idle)
    /\ UNCHANGED <<rowVars, frozen, minted, announced, folders>>
-----------------------------------------------------------------------------
AllUser == User \cup {Guest(c) : c \in Connection}

Birth(t) ==
    \/ \E c \in Connection : new_connection(t, c) \/ \E p \in Page : new_page(t, p, c)
    \/ Register(t) \/ Open(t)
    \/ \E c \in Connection, u \in User : change_connection_user(t, c, u)

Drop(t) ==
    \/ \E p \in Page, cascade \in BOOLEAN : drop_page(t, p, cascade)
    \/ FindOwner(t) \/ Close(t) \/ Logout(t) \/ Demolished(t)
    \/ \E c \in Connection : drop_connection(t, c) \/ RemoveConnection(t, c) \/ RemoveFolder(t, c)
    \/ \E p \in Page : RemovePage(t, p)
    \/ \E u \in AllUser : drop_user(t, u) \/ RemoveUser(t, u)

Sleep(t) ==
    \/ \E u \in AllUser : freeze_user(t, u)
    \/ \E c \in Connection : wake(t, c)

Read(t) ==
    \/ \E filter \in Filter : pages_by_filter(t, filter)
    \/ \E u \in User : pages_by_user(t, u)
    \/ At(t, "listing") /\ \E key \in op[t].keys : Fetch(t, key)
    \/ \E p \in Page : FilterItem(t, p)
    \/ At(t, "owning") /\ OwnerFound(t)
    \/ Fetched(t) \/ Filtered(t) \/ ReadEnds(t)

\* The pages that match every term of a filter with the whole chain standing,
\* and those that match some term.
OwnedBy(us, pages, connections) ==
    {p \in DOMAIN pages : pages[p] \in DOMAIN connections /\ connections[pages[p]] \in us}

Matching(term, filter, pages, connections) ==
    IF term = "user" THEN OwnedBy(filter.user, pages, connections)
    ELSE {p \in DOMAIN pages : NameMatches(filter, p)}

MatchingAll(filter, pages, connections, users) ==
    {p \in OwnedBy(users, pages, connections) :
        \A term \in DOMAIN filter : p \in Matching(term, filter, pages, connections)}
MatchingSome(filter, pages, connections) ==
    UNION {Matching(term, filter, pages, connections) : term \in DOMAIN filter}

Reads(rec) == rec.pc \in {"listing", "filtering", "owning", "answered"}

\* The path is of a connection that lives or sleeps, a subfolder of a page too.
HasRow(path, pages, connections, parcels) ==
    /\ path[1] \in DOMAIN connections \cup DOMAIN parcels.connections
    /\ Len(path) = 2 => path[2] \in DOMAIN pages \cup DOMAIN parcels.pages

\* The history of every read under way, and of the folders made too late.
Watch ==
    /\ steady' = [t \in Thread |->
            IF ~Reads(op'[t]) THEN {}
            ELSE MatchingAll(op'[t].filter, page_items', connection_items', user_items')
                     \cap IF Reads(op[t]) THEN steady[t] ELSE Page]
    /\ ever' = [t \in Thread |->
            IF ~Reads(op'[t]) THEN {}
            ELSE MatchingSome(op'[t].filter, page_items', connection_items') \cup ever[t]]
    /\ late' = {path \in folders' : /\ path \in folders => path \in late
                                    /\ ~HasRow(path, page_items', connection_items', frozen')}

Next ==
    /\ \/ \E t \in Thread : Birth(t) \/ Drop(t) \/ Sleep(t) \/ Read(t)
       \/ \E p \in Writer : WriteFolder(p)
    /\ Watch

Spec == Init /\ [][Next]_vars
-----------------------------------------------------------------------------
\* The rows name rows that can exist; a page is living, frozen or gone.
TypeOK ==
    /\ page_items \in [DOMAIN page_items -> Connection] /\ DOMAIN page_items \subseteq DOMAIN minted
    /\ connection_items \in [DOMAIN connection_items -> AllUser]
    /\ user_items \subseteq AllUser
    /\ folders \subseteq {<<c>> : c \in Connection} \cup (Connection \X Page)
    /\ Unlocked => /\ DOMAIN page_items \cap DOMAIN frozen.pages = {}
                   /\ DOMAIN connection_items \cap DOMAIN frozen.connections = {}

\* Whenever the lock is free every page has its connection and every connection
\* its user, no user is left without a connection, and what the worker has told
\* the vertex is exactly the pages it holds: no demolition stops half-way, the
\* cascade-less close announces itself, a wake announces every page it brings
\* back (genropy_worker.py, drop_page; the "half-applied demolition" that
\* siteregister_client.py, drop_page, lets through as an error).
RowsFormChains ==
    Unlocked =>
        /\ \A p \in DOMAIN page_items : page_items[p] \in DOMAIN connection_items
        /\ {connection_items[c] : c \in DOMAIN connection_items} = user_items
        /\ announced = page_items

\* No drop leaves anything behind on disk: once no removal is pending, each
\* connection folder is of a connection that lives or sleeps, each page's
\* subfolder of a page that does (genropy_worker.py, "the three drop verbs remove
\* the connection folders together with the rows").  What is left without a row
\* was made after the row and its folder had gone, by a request that was still
\* running on the page.
FoldersHaveRows ==
    Unlocked /\ (\A t \in Thread : ~At(t, "removing")) =>
        \A path \in folders \ late : HasRow(path, page_items, connection_items, frozen)

\* The folder of a connection that lives or sleeps, and the subfolder of a page
\* that does, are not removed, whoever closes its siblings or freezes its user:
\* "a frozen or moved user's folders must survive for the wake".  The one
\* removal that can is the late rmtree of drop_connection and drop_user on a
\* connection born again after the lock was released (genropy_worker.py).
FoldersSurvive ==
    [][\A path \in folders \ folders' :
          \/ \E t \in Thread : At(t, "removing") /\ path[1] \in op[t].left
          \/ Len(path) = 1 /\ path[1] \notin DOMAIN connection_items \cup DOMAIN frozen.connections
          \/ Len(path) = 2 /\ path[2] \notin DOMAIN page_items \cup DOMAIN frozen.pages]_vars

\* A read without the lock misses no page that answers its question from its
\* first step to its last, whatever is born, dropped, frozen or re-labelled
\* beside it (siteregister_client.py, pages).
ReadsAreComplete == \A t \in Thread : At(t, "answered") => steady[t] \subseteq op[t].answer

\* A broadcast reaches no living page that matched none of its terms at any
\* time of the read: the page of a user whom the pattern does not match is never
\* taken for one of a user it does, a login in the middle included
\* (siteregister_client.py, _filter_items, "ownership is derived so it cannot go
\* stale").
BroadcastStaysWithin ==
    \A t \in Thread : At(t, "answered") /\ op[t].filtered =>
        op[t].answer \cap DOMAIN page_items \subseteq ever[t]
=============================================================================
