---------------------------- MODULE PageMailbox ----------------------------
(***************************************************************************)
(* What waits for a page, and the collect that delivers it: the queue on   *)
(* its register row (spa/genropy_register.py), the queue at the desk, the  *)
(* view onto its user's store, and collect_page of spa/genropy_worker.py.  *)
(*                                                                         *)
(* One worker holds the pages of one connection, a guest's until the login *)
(* that hands them, with his Bag, to another user; the writers are the     *)
(* site's threads here, and everybody else, who reaches the pages only     *)
(* through the desk.  A collect is three steps, the second a CALL placed   *)
(* with no lock held; several threads collect at once, for one page or for *)
(* siblings, and a ping collects its page and then its children into one   *)
(* envelope.  A change is identified by its arrival_ts; its value, its     *)
(* attributes and change_idx, which collect_page renumbers, are left out.  *)
(* The user's Bag is the log of the STATE writes applied to it.  Pages are *)
(* born and announced before the behaviour begins: a birth is TableEvents'.*)
(***************************************************************************)
EXTENDS DeliveryDesk

CONSTANTS Thread,    \* the pool threads that collect
          Key,       \* keys of the addressed changes: [path, reason, fired]
          Kinds,     \* what is in use: addressed "page" and "user_store" writes,
                     \* the capture on a "page_store", the "login",
                     \* a "ping" that collects child pages too
          MaxClock   \* bound: no write is made after this instant

ASSUME MailboxAssumption == Kinds \subseteq {"page", "page_store", "user_store", "login", "ping"}
                                /\ MaxClock \in Nat /\ User # {}

VARIABLES user,       \* the user of the connection: the one with a row here
          rows,       \* page -> its row: datachanges, subscribed_paths, user_view
          store,      \* the STATE writes applied to the user's Bag, in order
          collects,   \* thread -> the request it is collecting for: the page it
                      \* is at, the children it has yet to reach, what it holds
          delivered   \* page -> the batches its browser received (history)

mailboxVars == <<user, rows, store, collects, delivered>>
vars == <<filterVars, populationVars, queueVars, clock, mailboxVars>>
deskVars == <<filterVars, populationVars, queueVars>>
unusedVars == <<poolVars, wire, source_filter>>

TheConnection == CHOOSE cid \in Connection : TRUE
TheGuest == CHOOSE u \in User : TRUE

Paths == {k.path : k \in Key}

\* user_view is None until the first subscription of a user-store prefix, which
\* is a view that watches nothing.
NoView == [paths |-> {}, changes |-> <<>>]
NewRow == [datachanges |-> <<>>, subscribed_paths |-> {}, user_view |-> NoView]

Init ==
    /\ FilterInit
    /\ page_connection_map = [p \in Page |-> TheConnection]
    /\ connection_user = [c \in {TheConnection} |-> TheGuest]
    /\ user_map = {TheGuest}
    /\ page_datachange_map = EmptyMap
    /\ page_dbevent_map = EmptyMap
    /\ user_store_change_map = EmptyMap
    /\ clock = 0
    /\ user = TheGuest
    /\ rows = [p \in Page |-> NewRow]
    /\ store = <<>>
    /\ collects = EmptyMap
    /\ delivered = [p \in Page |-> <<>>]

CapturedBy(paths, path) == \E prefix \in paths : Under(path, prefix)
-----------------------------------------------------------------------------
(* The addressed writes: the row when the caller's own user has the page   *)
(* here, the desk otherwise.                                               *)

Change(key) == [key |-> key, arrival_ts |-> 0, of |-> 0]

\* Faulty variant: the change is not stamped with its arrival.
AppendUnstamped(queue, change, replace) == Extended(queue, change, replace, 0)

\* append_page_datachange on a row's queue.
append_page_datachange(queue, change, replace) == Extended(queue, change, replace, clock + 1)

\* _route_datachange: `here` is a caller of the page's own user on this worker.
LocalRoad(p, here) == here /\ p \in DOMAIN rows

OnRow(p, queue) ==
    /\ rows' = [rows EXCEPT ![p].datachanges = queue]
    /\ UNCHANGED <<page_datachange_map, user_store_change_map, page_dbevent_map>>

AtDesk(message) == on_datachange(message) /\ UNCHANGED rows

set_datachange(p, key, replace, here) ==
    /\ clock < MaxClock
    /\ \/ /\ LocalRoad(p, here)
          /\ clock' = clock + 1
          /\ OnRow(p, append_page_datachange(rows[p].datachanges, Change(key), replace))
       \/ /\ ~LocalRoad(p, here)
          /\ AtDesk([op |-> "set_datachange", kind |-> "page", target |-> p,
                     replace |-> replace, change |-> Change(key)])

reset_datachanges(p, here) ==
    \/ LocalRoad(p, here) /\ OnRow(p, <<>>) /\ UNCHANGED clock
    \/ /\ ~LocalRoad(p, here)
       /\ AtDesk([op |-> "reset_datachanges", kind |-> "page", target |-> p])

drop_datachanges(p, path, here) ==
    \/ /\ LocalRoad(p, here)
       /\ OnRow(p, Pruned(rows[p].datachanges, path))
       /\ UNCHANGED clock
    \/ /\ ~LocalRoad(p, here)
       /\ AtDesk([op |-> "drop_datachanges", kind |-> "page", target |-> p, path |-> path])

\* set_datachange to a user's store: always the desk's.
set_user_store(u, key, replace) ==
    /\ clock < MaxClock
    /\ AtDesk([op |-> "set_datachange", kind |-> "user_store", target |-> u,
               replace |-> replace, change |-> Change(key)])

\* The capture on a page's own store: the site writes under a subscribed path.
subscribe_page_store(p, path) ==
    /\ clock < MaxClock
    /\ p \in DOMAIN rows
    /\ CapturedBy(rows[p].subscribed_paths, path)
    /\ clock' = clock + 1
    /\ OnRow(p, append_page_datachange(rows[p].datachanges,
            Change([path |-> path, reason |-> "serverChange", fired |-> FALSE]), FALSE))

\* setStoreSubscription on the page's own store, then on its user's.
setPageSubscription(p, prefix, active) ==
    /\ p \in DOMAIN rows
    /\ rows' = [rows EXCEPT ![p].subscribed_paths =
                   IF active THEN @ \cup {prefix} ELSE @ \ {prefix}]
    /\ UNCHANGED <<queueVars, clock>>

setUserSubscription(p, prefix, active) ==
    /\ p \in DOMAIN rows
    /\ rows' = [rows EXCEPT ![p].user_view.paths =
                   IF active THEN @ \cup {prefix} ELSE @ \ {prefix}]
    /\ UNCHANGED <<queueVars, clock>>
-----------------------------------------------------------------------------
(* collect_page. *)

At(t, pc) == t \in DOMAIN collects /\ collects[t].pc = pc

Ends(t) == collects' = Popped(collects, {t})

NoReply == [datachanges |-> <<>>, dbevents |-> <<>>, store_changes |-> <<>>]

\* Under dispatch_lock: the page is here; its user is read.
collect_page(p, children, envelope) ==
    [pc |-> "exchanging", page |-> p, user |-> user, reply |-> NoReply,
     children |-> children, envelope |-> envelope]

\* A request ends with the collect of its page (subscription_storechanges); a
\* ping goes on with its children.  What a ping writes first on the stores of
\* its pages, no lock held, are steps of subscribe_page_store; a ping of a page
\* that is not here answers False.
handle_ping(t, p, children) ==
    /\ t \notin DOMAIN collects
    /\ p \in DOMAIN rows
    /\ collects' = [s \in DOMAIN collects \cup {t} |->
            IF s = t THEN collect_page(p, children, EmptyMap) ELSE collects[s]]
    /\ UNCHANGED <<deskVars, clock, user, rows, store, delivered>>

\* What the browser has received once it gets this batch; an empty one leaves
\* no trace.
Receives(batches, batch) == IF batch = <<>> THEN batches ELSE Append(batches, batch)

\* The batches of an envelope, once the browser has it.
Delivered(envelope) ==
    [p \in Page |-> IF p \in DOMAIN envelope THEN Receives(delivered[p], envelope[p])
                                             ELSE delivered[p]]

\* A page of t has been collected: the browser gets the whole envelope after
\* the last of the children, and nothing before.
Answers(t, children, envelope) ==
    \/ children = {} /\ delivered' = Delivered(envelope) /\ Ends(t)
    \/ /\ children # {}
       /\ collects' = [collects EXCEPT ![t] =
               [@ EXCEPT !.pc = "next", !.reply = NoReply,
                         !.children = children, !.envelope = envelope]]
       /\ UNCHANGED delivered

\* The next child, in the order the browser names them; one that is not here
\* adds nothing.
NextChild(t, p) ==
    /\ At(t, "next") /\ p \in collects[t].children
    /\ LET children == collects[t].children \ {p}  envelope == collects[t].envelope
       IN  \/ /\ p \in DOMAIN rows
              /\ collects' = [collects EXCEPT ![t] = collect_page(p, children, envelope)]
              /\ UNCHANGED delivered
           \/ p \notin DOMAIN rows /\ Answers(t, children, envelope)
    /\ UNCHANGED <<deskVars, clock, user, rows, store>>

\* The CALL, with no lock held.
ExchangeCall(t) ==
    /\ At(t, "exchanging")
    /\ exchange(collects[t].page, collects[t].user, <<>>)
    /\ collects' = [collects EXCEPT ![t].pc = "collecting",
                       ![t].reply = ExchangeReply(collects[t].page, collects[t].user, <<>>)]
    /\ UNCHANGED <<filterVars, populationVars, clock, user, rows, store, delivered>>

\* CommanderCallFailed: the request ends here.  Nothing of this page was retired;
\* the pages a ping has already collected go with their batches.
ExchangeRefused(t) ==
    /\ At(t, "exchanging")
    /\ Ends(t)
    /\ UNCHANGED <<deskVars, clock, user, rows, store, delivered>>

\* apply_forwarded for each write in turn: what a view captures of them.  The
\* capture stamps nothing: its changes are merged on their own change_ts.
Captures(paths, writes) ==
    LET stamped == [i \in DOMAIN writes |->
            [writes[i] EXCEPT !.arrival_ts = clock + i, !.of = writes[i].arrival_ts]]
    IN  Kept(stamped, {c \in ToSet(stamped) : CapturedBy(paths, c.key.path)})

AfterCaptures(row, writes) ==
    [row EXCEPT !.user_view.changes = @ \o Captures(row.user_view.paths, writes)]

\* Faulty variant: the one list after the other.
Concatenated(a, b) == a \o b

\* heapq.merge of two lists on _arrival_order, the first list's first on a tie:
\* taken[n] of the first n changes come from a, the others from b.
Merged(a, b) ==
    LET taken[n \in 0..Len(a) + Len(b)] ==
            IF n = 0 THEN 0
            ELSE LET i == taken[n - 1] + 1  j == n - taken[n - 1]
                 IN  IF i <= Len(a) /\ (j <= Len(b) => a[i].arrival_ts <= b[j].arrival_ts)
                     THEN i ELSE i - 1
    IN  [n \in 1..Len(a) + Len(b) |->
            IF taken[n] > taken[n - 1] THEN a[taken[n]] ELSE b[n - taken[n]]]

\* Faulty variant: the row is merged only when the desk brings nothing.
BatchSkipsRow(row, desk_changes) ==
    Merged(IF desk_changes = <<>> THEN row.datachanges ELSE desk_changes, row.user_view.changes)

\* One batch: the row and the desk, then the view.
Batch(row, desk_changes) == Merged(Merged(row.datachanges, desk_changes), row.user_view.changes)

\* Faulty variants: the row's queue, or the view's (drain with reset=False),
\* survives its own delivery.
DrainedKeepsRow(row) == [row EXCEPT !.user_view.changes = <<>>]
DrainedKeepsView(row) == [row EXCEPT !.datachanges = <<>>]

Drained(row) == [row EXCEPT !.datachanges = <<>>, !.user_view.changes = <<>>]

\* Faulty variant: only a page that watches the user's store applies.
AppliesWatched(t) ==
    IF rows[collects[t].page].user_view.paths = {} THEN <<>> ELSE collects[t].reply.store_changes

\* The STATE writes a collect applies: all the exchange retired.
Applies(t) == collects[t].reply.store_changes

\* Faulty variant: the page is drained before the STATE writes are applied.
DrainBeforeApply(t) ==
    LET p == collects[t].page  reply == collects[t].reply  writes == Applies(t)
    IN  /\ At(t, "collecting")
        /\ p \in DOMAIN rows /\ collects[t].user = user
        /\ store' = store \o writes
        /\ clock' = clock + Len(writes)
        /\ Answers(t, collects[t].children,
                   Put(collects[t].envelope, p, Batch(rows[p], reply.datachanges)))
        /\ rows' = [q \in DOMAIN rows |->
                AfterCaptures(IF q = p THEN Drained(rows[q]) ELSE rows[q], writes)]
        /\ UNCHANGED <<deskVars, user>>

\* Under dispatch_lock again: the STATE writes are applied to the Bag, where
\* every view of the user's pages captures them, and the page is drained.
CollectDrain(t) ==
    LET p == collects[t].page  reply == collects[t].reply  writes == Applies(t)
    IN  /\ At(t, "collecting")
        /\ p \in DOMAIN rows /\ collects[t].user = user
        /\ store' = store \o writes
        /\ clock' = clock + Len(writes)
        /\ Answers(t, collects[t].children, Put(collects[t].envelope, p,
                          Batch(AfterCaptures(rows[p], writes), reply.datachanges)))
        /\ rows' = [q \in DOMAIN rows |->
                LET row == AfterCaptures(rows[q], writes) IN IF q = p THEN Drained(row) ELSE row]
        /\ UNCHANGED <<deskVars, user>>

\* The user read before the exchange has no row any more: user_item is None
\* and the request fails on it.
CollectFindsNoUser(t) ==
    /\ At(t, "collecting")
    /\ collects[t].page \in DOMAIN rows /\ collects[t].user # user
    /\ Ends(t)
    /\ UNCHANGED <<deskVars, clock, user, rows, store, delivered>>

\* Faulty variant: the KeyError ends the whole request.
NoPageFails(t) ==
    /\ At(t, "collecting")
    /\ collects[t].page \notin DOMAIN rows
    /\ Ends(t)
    /\ UNCHANGED <<deskVars, clock, user, rows, store, delivered>>

\* KeyError: the page has gone between the exchange and the lock; the request
\* reads it as empty and goes on.
CollectFindsNoPage(t) ==
    /\ At(t, "collecting")
    /\ collects[t].page \notin DOMAIN rows
    /\ Answers(t, collects[t].children, collects[t].envelope)
    /\ UNCHANGED <<deskVars, clock, user, rows, store>>
-----------------------------------------------------------------------------
(* A login, a page leaves: the rows first, the desk when the REPLY is folded. *)

\* The user had no other connection: the guest's Bag is conserved, his row goes.
change_connection_user(u) ==
    /\ user = TheGuest /\ u # user
    /\ user' = u
    /\ UNCHANGED <<deskVars, clock, rows, store, collects, delivered>>

\* The vertex re-labels the connection and forgets the guest, his queue too.
FoldLogin ==
    /\ user \notin user_map
    /\ connection_user' = [connection_user EXCEPT ![TheConnection] = user]
    /\ user_map' = {user}
    /\ user_store_change_map' = Popped(user_store_change_map, {TheGuest})
    /\ UNCHANGED <<filterVars, page_connection_map, page_datachange_map, page_dbevent_map,
                   clock, mailboxVars>>

worker_drop_page(p) ==
    /\ p \in DOMAIN rows
    /\ rows' = Popped(rows, {p})
    /\ UNCHANGED <<deskVars, clock, user, store, collects, delivered>>

FoldDropPage(p) ==
    /\ p \in DOMAIN page_connection_map \ DOMAIN rows
    /\ drop_page(p)
    /\ UNCHANGED <<unusedVars, clock, mailboxVars>>
-----------------------------------------------------------------------------
PageWrite ==
    \E p \in Page :
        \/ \E key \in Key, replace, here \in BOOLEAN : set_datachange(p, key, replace, here)
        \/ \E here \in BOOLEAN : reset_datachanges(p, here)
        \/ \E path \in Paths, here \in BOOLEAN : drop_datachanges(p, path, here)

PageStoreWrite ==
    \E p \in Page :
        \/ \E path \in Paths : subscribe_page_store(p, path)
        \/ \E prefix \in Paths, active \in BOOLEAN : setPageSubscription(p, prefix, active)

UserWrite ==
    \/ \E u \in User, key \in Key, replace \in BOOLEAN : set_user_store(u, key, replace)
    \/ \E p \in Page, prefix \in Paths, active \in BOOLEAN : setUserSubscription(p, prefix, active)

Write ==
    /\ \/ "page" \in Kinds /\ PageWrite
       \/ "page_store" \in Kinds /\ PageStoreWrite
       \/ "user_store" \in Kinds /\ UserWrite
    /\ UNCHANGED <<filterVars, populationVars, user, store, collects, delivered>>

Collect(t) ==
    \/ \E p \in Page : \E children \in (IF "ping" \in Kinds THEN SUBSET (Page \ {p}) ELSE {{}}) :
            handle_ping(t, p, children)
    \/ \E p \in Page : NextChild(t, p)
    \/ ExchangeCall(t) \/ ExchangeRefused(t) \/ CollectDrain(t)
    \/ CollectFindsNoPage(t) \/ CollectFindsNoUser(t)

Next ==
    \/ Write
    \/ \E t \in Thread : Collect(t)
    \/ \E p \in Page : worker_drop_page(p) \/ FoldDropPage(p)
    \/ "login" \in Kinds /\ \E u \in User : change_connection_user(u)
    \/ FoldLogin

Spec == Init /\ [][Next]_vars
-----------------------------------------------------------------------------
Stamps(changes) == {c.arrival_ts : c \in ToSet(changes)}

Sorted(changes) == \A i, j \in DOMAIN changes : i < j => changes[i].arrival_ts < changes[j].arrival_ts

\* What request t holds for page p: the reply it is collecting, its envelope.
Held(t, p) ==
    (IF collects[t].page = p THEN Stamps(collects[t].reply.datachanges) ELSE {})
        \cup Stamps(Pending(collects[t].envelope, p))

\* Where a change is on its way to page p: waiting, retired by a collect, received.
Waiting(p) == Stamps(rows[p].datachanges) \cup Stamps(rows[p].user_view.changes)
                  \cup Stamps(Pending(page_datachange_map, p))
Retired(p) == UNION {Held(t, p) : t \in DOMAIN collects}
Received(p) == UNION {Stamps(batch) : batch \in ToSet(delivered[p])}
Mail(p) == Waiting(p) \cup Retired(p) \cup Received(p)

\* Each queue grows in arrival order and names a prefix only of known paths:
\* what heapq.merge relies on (genropy_worker.py, collect_page, "each list is
\* already in its own arrival order").
TypeOK ==
    /\ clock \in Nat
    /\ \A p \in DOMAIN rows : /\ Sorted(rows[p].datachanges)
                              /\ Sorted(rows[p].user_view.changes)
                              /\ rows[p].subscribed_paths \subseteq Paths
                              /\ rows[p].user_view.paths \subseteq Paths
    /\ \A p \in Page : Sorted(Pending(page_datachange_map, p))
    /\ \A t \in DOMAIN collects : Sorted(collects[t].reply.datachanges)

\* A page reads each batch in arrival order, whichever of the three queues a
\* change waited in (genropy_worker.py, collect_page, the two merges).
BatchInArrivalOrder == \A p \in Page : \A batch \in ToSet(delivered[p]) : Sorted(batch)

\* No change reaches a page twice, with two collects of one page and refused
\* exchanges included: it is in one place only on its way.
MailDeliveredOnce ==
    \A p \in DOMAIN rows :
        /\ Received(p) \cap (Waiting(p) \cup Retired(p)) = {}
        /\ Waiting(p) \cap Retired(p) = {}
        /\ \A i, j \in DOMAIN delivered[p] :
              i # j => Stamps(delivered[p][i]) \cap Stamps(delivered[p][j]) = {}

\* The request t fails: its exchange may be refused, or the login has taken
\* away the user it had read.
MayFail(t) == At(t, "exchanging") \/ (At(t, "collecting") /\ collects[t].user # user)

\* No step of a collect loses a change of a page that lives: only a write
\* (replace, reset, drop) takes a pending change away, however the collects,
\* the pings and the writes on the two roads interleave (delivery_desk.py, "what
\* a page has not collected yet is delivered at its next exchange").  A request
\* that fails on its way, overtaken by a login after an exchange or refused at
\* the exchange of a child, is the exception: what it held is lost with it, and
\* nothing else.
CollectLosesNothing ==
    [][\/ UNCHANGED <<collects, delivered>>
       \/ \A p \in DOMAIN rows' :
            Mail(p) \ Mail(p)' \subseteq
                UNION {Held(t, p) : t \in {s \in DOMAIN collects \ DOMAIN collects' : MayFail(s)}}]_vars

\* A step of request t.
Steps(t) == t \notin DOMAIN collects' \/ collects'[t] # collects[t]

\* A STATE write applied to the user's Bag is read by the page that retired it
\* in this very delivery, and is captured by the view of every sibling that
\* watches its path (genropy_worker.py, collect_page).
AppliedIsSeen ==
    [][\A p \in DOMAIN rows', i \in Len(store) + 1..Len(store') :
          LET sees(changes) == \E c \in ToSet(changes) : c.of = store'[i].arrival_ts
              here == {t \in DOMAIN collects : collects[t].page = p /\ Steps(t)}
          IN  p \in DOMAIN rows /\ CapturedBy(rows[p].user_view.paths, store'[i].key.path)
                  => \/ here = {} /\ sees(rows'[p].user_view.changes)
                     \/ \E t \in here \cap DOMAIN collects' : sees(Pending(collects'[t].envelope, p))
                     \/ \E t \in here \ DOMAIN collects' :
                          Len(delivered'[p]) > Len(delivered[p]) /\ sees(Last(delivered'[p]))]_vars

\* The page or the user of t has gone after its exchange.
Overtaken(t) ==
    At(t, "collecting") /\ (collects[t].page \notin DOMAIN rows \/ collects[t].user # user)

\* Every STATE write on its way to the user's Bag, and the ones applied.
StateMail ==
    Stamps(store) \cup (UNION {Stamps(Pending(user_store_change_map, u)) : u \in User})
        \cup (UNION {Stamps(collects[t].reply.store_changes) : t \in DOMAIN collects})

\* A STATE write retired by a collect is applied to the user's Bag, whichever
\* of his pages retires it and whatever the siblings do, unless that collect
\* fails after its exchange, its page or its user gone (delivery_desk.py,
\* "whichever of his pages retires"; genropy_worker.py, collect_page).
RetiredIsApplied ==
    [][\/ UNCHANGED <<collects, store>>
       \/ StateMail \ StateMail' \subseteq
            UNION {Stamps(collects[t].reply.store_changes) :
                      t \in {s \in DOMAIN collects : Overtaken(s) /\ Steps(s)}}]_vars
=============================================================================
