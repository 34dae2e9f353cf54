---------------------------- MODULE TableEvents ----------------------------
(***************************************************************************)
(* The road of a table event, end to end: a commit inside a request of a   *)
(* worker (spa/genropy_worker.py), the source filter, the request slot and *)
(* its two exits, the desk's queues, the collect of a subscribing page.    *)
(*                                                                         *)
(* Several requests run at once, on pool threads of several workers.  A    *)
(* verb that CALLs the desk is split where it leaves dispatch_lock: other  *)
(* threads act between the check and the CALL, and between the CALL's      *)
(* reply and what is done with it.  The events a request produces (a page  *)
(* born, a page dropped) ride its own REPLY, so the CALLs it places        *)
(* overtake them.  Page ids are minted once.  A page leaves for the freezer *)
(* with its user and comes back on any worker with the request that wakes  *)
(* him; the freezer is the core's.                                         *)
(*                                                                         *)
(* A request collects its own page; a ping over the children of a page is  *)
(* a request for each of them (a ping commits nothing, so its slot is      *)
(* empty), and fails for all when it fails for one.                        *)
(***************************************************************************)
EXTENDS DeliveryDesk

CONSTANTS Request,      \* the pool threads requests run on
          MaxDeposits,  \* bound: the batches committed in a behaviour
          DeskRefuses   \* whether a CALL to the desk may be refused

ASSUME DepositsAssumption == MaxDeposits \in Nat /\ DeskRefuses \in BOOLEAN

VARIABLES rows,        \* page -> its register row: worker, table_subscriptions
          minted,      \* page ids used so far
          request,     \* thread -> the request it serves
          committed,   \* the batches committed so far
          delivered,   \* page -> the deposits its browser received
          owed,        \* deposit -> the pages that must still get it (history)
          parcels,     \* page -> the table_subscriptions its parcel carries
          leaving,     \* the pages frozen, the vertex not told yet
          userless,    \* the collects whose user has lost his row since they read it
          slept        \* page -> the tables it last slept with, not touched since (history)

freezerVars == <<parcels, leaving, slept>>
requestVars == <<rows, minted, request, committed, delivered, owed, freezerVars, userless>>
vars == <<filterVars, populationVars, queueVars, clock, requestVars>>
loopVars == <<poolVars, clock, wire, source_filter>>
elsewhere == <<loopVars, userless>>
untouched == <<elsewhere, freezerVars>>
deskVars == <<indexVars, push_tasks, populationVars, queueVars>>

\* Whose the page is does not matter to the desk's table events: one connection
\* and one user there.  To a collect it matters only that the user it read is
\* still registered when it drains, which a login of his may end.
TheConnection == CHOOSE cid \in Connection : TRUE
TheUser == CHOOSE u \in User : TRUE

Init ==
    /\ IndexInit
    /\ DeskInit
    /\ presented = Worker /\ living = Worker
    /\ push_tasks = [w \in Worker |-> 0]
    /\ wire = [w \in Worker |-> <<>>]
    /\ source_filter = [w \in Worker |-> {}]
    /\ rows = EmptyMap
    /\ minted = {}
    /\ request = EmptyMap
    /\ committed = 0
    /\ delivered = [p \in Page |-> <<>>]
    /\ owed = [i \in 1..MaxDeposits |-> {}]
    /\ parcels = EmptyMap
    /\ leaving = {}
    /\ slept = EmptyMap
    /\ userless = {}

At(r, pc) == r \in DOMAIN request /\ request[r].pc = pc

\* The request of r after a step that changes only its own record.
Becomes(r, rec) == request' = [request EXCEPT ![r] = rec]
-----------------------------------------------------------------------------
(* Births and drops of pages, and the requests on them. *)

NewRequest(w, p, events) ==
    [pc |-> "running", worker |-> w, page |-> p, dbevents |-> <<>>, own_dbevents |-> <<>>,
     events |-> events, reply |-> <<>>, call |-> <<>>]

Serve(r, req) ==
    /\ r \notin DOMAIN request
    /\ request' = Put(request, r, req)

\* A request on a page that lives in a worker.  A browser learns its page id
\* from the answer of the birth, so the vertex has already folded the page in.
StartRequest(r, p) ==
    /\ p \in DOMAIN rows \cap DOMAIN page_connection_map
    /\ Serve(r, NewRequest(rows[p].worker, p, <<>>))
    /\ UNCHANGED <<deskVars, untouched, rows, minted, committed, delivered, owed>>

\* A request that gives birth to its page: the announcement rides the REPLY.
StartRootPage(r, w, p) ==
    /\ p \notin minted
    /\ minted' = minted \cup {p}
    /\ rows' = Put(rows, p, [worker |-> w, table_subscriptions |-> {}])
    /\ Serve(r, NewRequest(w, p, <<[name |-> "new_page", page |-> p, tables |-> {}]>>))
    /\ UNCHANGED <<deskVars, untouched, committed, delivered, owed>>

\* The worker's drop_page, under dispatch_lock: the row goes now, the event
\* that tells the vertex rides the REPLY of this request.
worker_drop_page(r, p) ==
    /\ At(r, "running")
    /\ p \in DOMAIN rows
    /\ rows[p].worker = request[r].worker
    /\ rows' = Popped(rows, {p})
    /\ Becomes(r, [request[r] EXCEPT !.events =
                      Append(@, [name |-> "drop_page", page |-> p, tables |-> {}])])
    /\ slept' = Popped(slept, {p})
    /\ UNCHANGED <<deskVars, elsewhere, parcels, leaving, minted, committed, delivered, owed>>

\* A login on the connection these pages are of: it takes another user, and the
\* row of the one it had goes with his last connection.  (Where he has another,
\* his row stays and nothing here changes.)
change_connection_user(r, pages) ==
    /\ At(r, "running")
    /\ request[r].page \in pages
    /\ \A p \in pages : p \in DOMAIN rows /\ rows[p].worker = request[r].worker
    /\ userless' = userless \cup {s \in DOMAIN request :
          request[s].page \in pages /\ request[s].pc \in {"exchanging", "collecting"}}
    /\ UNCHANGED <<deskVars, loopVars, freezerVars,
                   rows, minted, request, committed, delivered, owed>>
-----------------------------------------------------------------------------
(* The verbs of the table events. *)

\* subscribeTable up to the release of dispatch_lock.
subscribeTable(r, t, opening) ==
    /\ At(r, "running")
    /\ request[r].page \in DOMAIN rows
    /\ rows' = [rows EXCEPT ![request[r].page].table_subscriptions =
                   IF opening THEN @ \cup {t} ELSE @ \ {t}]
    /\ Becomes(r, [request[r] EXCEPT !.pc = "subscribing", !.call = <<t, opening>>])
    /\ slept' = Popped(slept, {request[r].page})
    /\ UNCHANGED <<deskVars, elsewhere, parcels, leaving, minted, committed, delivered, owed>>

\* The deposits of table t not yet filed owe p nothing once p has left t.
Unowed(p, tables) ==
    LET slots == UNION {ToSet(request[s].dbevents) : s \in DOMAIN request}
    IN  [i \in DOMAIN owed |->
            IF \E d \in slots : d.id = i /\ d.table \in tables THEN owed[i] \ {p} ELSE owed[i]]

\* subscribeTable's CALL, served by the desk.
SubscribeTableCall(r) ==
    LET p == request[r].page  t == request[r].call[1]  opening == request[r].call[2]
    IN  /\ At(r, "subscribing")
        /\ Room
        /\ subscribe_table(p, t, opening)
        /\ owed' = IF opening THEN owed ELSE Unowed(p, {t})
        /\ Becomes(r, [request[r] EXCEPT !.pc = "running", !.call = <<>>])
        /\ UNCHANGED <<populationVars, queueVars, untouched,
                       rows, minted, committed, delivered>>

\* The CALL refused (CommanderCallFailed): the row keeps what was written on
\* it, the desk knows nothing of it, and the request fails.
SubscribeTableRefused(r) ==
    /\ DeskRefuses
    /\ At(r, "subscribing")
    /\ Becomes(r, [request[r] EXCEPT !.pc = "failed", !.call = <<>>])
    /\ UNCHANGED <<deskVars, untouched, rows, minted, committed, delivered, owed>>

Deposit(r, t, hidden) ==
    [id |-> committed + 1, table |-> t, from_page_id |-> request[r].page, hidden |-> hidden]

\* notifyDbEvents for one table of the commit, read against the filter of
\* the request's own worker.
notifyDbEvents(r, t) ==
    /\ At(r, "running")
    /\ committed < MaxDeposits
    /\ committed' = committed + 1
    /\ \/ /\ t \in source_filter[request[r].worker]
          /\ Becomes(r, [request[r] EXCEPT !.dbevents = Append(@, Deposit(r, t, FALSE))])
          /\ owed' = [owed EXCEPT ![committed + 1] = pages_for(t)]
       \/ /\ t \notin source_filter[request[r].worker]
          /\ UNCHANGED <<request, owed>>
    /\ UNCHANGED <<deskVars, untouched, rows, minted, delivered>>

\* Faulty variant: the hidden transaction's deposits join the ones that go up.
NotifyHiddenLeaks(r, t) ==
    /\ At(r, "running")
    /\ committed < MaxDeposits
    /\ committed' = committed + 1
    /\ Becomes(r, [request[r] EXCEPT !.dbevents = Append(@, Deposit(r, t, TRUE))])
    /\ UNCHANGED <<deskVars, untouched, rows, minted, delivered, owed>>

\* notifyDbEvents with local_only: the hidden transaction, not filtered.
notifyHidden(r, t) ==
    /\ At(r, "running")
    /\ committed < MaxDeposits
    /\ committed' = committed + 1
    /\ Becomes(r, [request[r] EXCEPT !.own_dbevents = Append(@, Deposit(r, t, TRUE))])
    /\ UNCHANGED <<deskVars, untouched, rows, minted, delivered, owed>>
-----------------------------------------------------------------------------
(* collect_page: check, exchange, drain. *)

\* Under dispatch_lock: the page is here, and so is its user.  When it is not,
\* the client answers the KeyError with an empty list and nothing has changed.
collect_page(r) ==
    /\ At(r, "running")
    /\ request[r].page \in DOMAIN rows
    /\ Becomes(r, [request[r] EXCEPT !.pc = "exchanging"])
    /\ UNCHANGED <<deskVars, untouched, rows, minted, committed, delivered, owed>>

\* Faulty variant: the slot is not emptied by the exchange.
ExchangeKeepsSlot(r) ==
    LET req == request[r]
    IN  /\ At(r, "exchanging")
        /\ exchange(req.page, TheUser, req.dbevents)
        /\ Becomes(r, [req EXCEPT !.pc = "collecting",
                          !.reply = ExchangeReply(req.page, TheUser, req.dbevents).dbevents])
        /\ UNCHANGED <<indexVars, push_tasks, populationVars, untouched,
                       rows, minted, committed, delivered, owed>>

\* The exchange CALL and the emptying of the slot on its answer.
ExchangeCall(r) ==
    LET req == request[r]
    IN  /\ At(r, "exchanging")
        /\ exchange(req.page, TheUser, req.dbevents)
        /\ Becomes(r, [req EXCEPT !.pc = "collecting", !.dbevents = <<>>,
                          !.reply = ExchangeReply(req.page, TheUser, req.dbevents).dbevents])
        /\ UNCHANGED <<indexVars, push_tasks, populationVars, untouched,
                       rows, minted, committed, delivered, owed>>

\* Faulty variant: a refused exchange takes the slot's deposits with it.
ExchangeRefusedClears(r) ==
    /\ DeskRefuses
    /\ At(r, "exchanging")
    /\ Becomes(r, [request[r] EXCEPT !.pc = "failed", !.dbevents = <<>>])
    /\ userless' = userless \ {r}
    /\ UNCHANGED <<deskVars, loopVars, freezerVars, rows, minted, committed, delivered, owed>>

\* CommanderCallFailed: it leaves collect_page before the slot is emptied, and
\* takes the request with it.
ExchangeRefused(r) ==
    /\ DeskRefuses
    /\ At(r, "exchanging")
    /\ Becomes(r, [request[r] EXCEPT !.pc = "failed"])
    /\ userless' = userless \ {r}
    /\ UNCHANGED <<deskVars, loopVars, freezerVars, rows, minted, committed, delivered, owed>>

\* Under dispatch_lock again: deliver, if the page and the user are still here.
\* KeyError when the page has gone, and the client answers an empty list: what
\* the exchange retired is lost with it.
CollectDrain(r) ==
    LET req == request[r]
    IN  /\ At(r, "collecting")
        /\ \/ /\ req.page \in DOMAIN rows /\ r \notin userless
              /\ delivered' = [delivered EXCEPT ![req.page] = @ \o req.reply \o req.own_dbevents]
              /\ Becomes(r, [req EXCEPT !.pc = "running", !.reply = <<>>, !.own_dbevents = <<>>])
           \/ /\ req.page \notin DOMAIN rows
              /\ Becomes(r, [req EXCEPT !.pc = "running", !.reply = <<>>])
              /\ UNCHANGED delivered
        /\ userless' = userless \ {r}
        /\ UNCHANGED <<deskVars, loopVars, freezerVars, rows, minted, committed, owed>>

\* The deposits of a reply that no page gets owe its page nothing any longer.
Forgone(p, reply) ==
    [i \in DOMAIN owed |->
        IF \E d \in ToSet(reply) : d.id = i THEN owed[i] \ {p} ELSE owed[i]]

\* The request fails with the page here and with what the exchange retired,
\* which the desk has no longer: user_item is None (TypeError, nothing drained
\* yet), or the page is drained and the request raises before it answers, as a
\* ping does at its next child (one step: between the two, what was drained is
\* this thread's alone).
CollectFails(r) ==
    LET req == request[r]
    IN  /\ At(r, "collecting")
        /\ req.page \in DOMAIN rows
        /\ Becomes(r, [req EXCEPT !.pc = "failed", !.reply = <<>>,
                          !.own_dbevents = IF r \in userless THEN @ ELSE <<>>])
        /\ owed' = Forgone(req.page, req.reply)
        /\ userless' = userless \ {r}
        /\ UNCHANGED <<deskVars, loopVars, freezerVars, rows, minted, committed, delivered>>
-----------------------------------------------------------------------------
(* The end of every request, failed ones included. *)

\* Faulty variant: a request that failed ends without delivering.
DeliverUnlessFailed(r) ==
    /\ At(r, "running") \/ At(r, "failed")
    /\ deposit(IF At(r, "failed") THEN <<>> ELSE request[r].dbevents)
    /\ Becomes(r, [request[r] EXCEPT !.pc = "replying", !.dbevents = <<>>, !.own_dbevents = <<>>])
    /\ UNCHANGED <<indexVars, push_tasks, populationVars, untouched,
                   rows, minted, committed, delivered, owed>>

\* deliver_slot_deposits, when the slot still holds something.
deliver_slot_deposits(r) ==
    /\ At(r, "running") \/ At(r, "failed")
    /\ \/ /\ deposit(request[r].dbevents)
          /\ UNCHANGED owed
       \/ /\ DeskRefuses /\ request[r].dbevents # <<>>   \* logged, dropped
          /\ owed' = [i \in DOMAIN owed |->
                IF \E d \in ToSet(request[r].dbevents) : d.id = i THEN {} ELSE owed[i]]
          /\ UNCHANGED queueVars
    /\ Becomes(r, [request[r] EXCEPT !.pc = "replying", !.dbevents = <<>>, !.own_dbevents = <<>>])
    /\ UNCHANGED <<indexVars, push_tasks, populationVars, untouched,
                   rows, minted, committed, delivered>>

\* The REPLY reaches the commander: its worker events are folded in order.
FoldEvent(r) ==
    /\ At(r, "replying")
    /\ request[r].events # <<>>
    /\ Room
    /\ LET event == Head(request[r].events)
       IN  \/ /\ event.name = "new_page"
              /\ on_new_page(event.page, TheConnection, TheUser, event.tables)
              /\ UNCHANGED owed
           \/ /\ event.name = "drop_page"
              /\ drop_page(event.page)
              /\ owed' = Unowed(event.page, Table)
    /\ Becomes(r, [request[r] EXCEPT !.events = Tail(@)])
    /\ UNCHANGED <<untouched, rows, minted, committed, delivered>>

EndRequest(r) ==
    /\ At(r, "replying")
    /\ request[r].events = <<>>
    /\ request' = Popped(request, {r})
    /\ UNCHANGED <<deskVars, untouched, rows, minted, committed, delivered, owed>>
-----------------------------------------------------------------------------
(* The freezer.  A user is frozen with no call of his pending. *)

freeze_page(p) ==
    /\ p \in DOMAIN rows
    /\ \A r \in DOMAIN request : request[r].page # p
    /\ rows' = Popped(rows, {p})
    /\ parcels' = Put(parcels, p, rows[p].table_subscriptions)
    /\ slept' = Put(slept, p, rows[p].table_subscriptions)
    /\ leaving' = leaving \cup {p}
    /\ UNCHANGED <<deskVars, elsewhere, minted, request, committed, delivered, owed>>

\* The vertex forgets the page: what waited for it at the desk is lost.
FoldFreeze(p) ==
    /\ p \in leaving
    /\ Room
    /\ drop_page(p)
    /\ leaving' = leaving \ {p}
    /\ owed' = [i \in DOMAIN owed |-> owed[i] \ {p}]
    /\ UNCHANGED <<elsewhere, parcels, slept, rows, minted, request, committed, delivered>>

\* Faulty variant: the wake announces the page as a birth does, with no table.
WakeAsBirth(r, w, p) ==
    /\ p \in DOMAIN parcels \ leaving
    /\ rows' = Put(rows, p, [worker |-> w, table_subscriptions |-> parcels[p]])
    /\ parcels' = Popped(parcels, {p})
    /\ Serve(r, NewRequest(w, p, <<[name |-> "new_page", page |-> p, tables |-> {}]>>))
    /\ UNCHANGED <<deskVars, elsewhere, slept, leaving, minted, committed, delivered, owed>>

\* The request that wakes him, on any worker: replay_fields puts the tables
\* back on the row, announcement_fields on the birth its REPLY carries.
wake_page(r, w, p) ==
    /\ p \in DOMAIN parcels \ leaving
    /\ rows' = Put(rows, p, [worker |-> w, table_subscriptions |-> parcels[p]])
    /\ parcels' = Popped(parcels, {p})
    /\ Serve(r, NewRequest(w, p, <<[name |-> "new_page", page |-> p, tables |-> parcels[p]]>>))
    /\ UNCHANGED <<deskVars, elsewhere, slept, leaving, minted, committed, delivered, owed>>
-----------------------------------------------------------------------------
Push(w) == (SendPush(w) \/ ApplyPush(w)) /\ UNCHANGED <<populationVars, queueVars, clock, requestVars>>

Verb(r) ==
    \/ \E t \in Table : notifyDbEvents(r, t) \/ notifyHidden(r, t)
    \/ \E t \in Table, opening \in BOOLEAN : subscribeTable(r, t, opening)
    \/ \E p \in Page : worker_drop_page(r, p)
    \/ \E pages \in SUBSET Page : change_connection_user(r, pages)

\* What a request does on its own once it has started to.
Progress(r) ==
    \/ SubscribeTableCall(r) \/ SubscribeTableRefused(r)
    \/ ExchangeCall(r) \/ ExchangeRefused(r)
    \/ CollectDrain(r) \/ CollectFails(r)
    \/ deliver_slot_deposits(r) \/ FoldEvent(r) \/ EndRequest(r)

Next ==
    \/ \E r \in Request, p \in Page :
          StartRequest(r, p) \/ \E w \in Worker : StartRootPage(r, w, p) \/ wake_page(r, w, p)
    \/ \E p \in Page : freeze_page(p) \/ FoldFreeze(p)
    \/ \E r \in Request : Verb(r) \/ collect_page(r) \/ Progress(r)
    \/ \E w \in Worker : Push(w)

Spec == Init /\ [][Next]_vars

\* Every page that stays keeps polling (the interim ping), each poll collects
\* sooner or later and the desk does not refuse it forever; every request
\* ends and goes on; the commander folds and pushes.
Polls(p) == \E r \in Request : StartRequest(r, p)
Collects(p) == \E r \in Request : At(r, "running") /\ request[r].page = p /\ collect_page(r)
Exchanges(p) == \E r \in Request : At(r, "exchanging") /\ request[r].page = p /\ ExchangeCall(r)

FairSpec ==
    /\ Spec
    /\ \A p \in Page : /\ SF_vars(Polls(p)) /\ SF_vars(Collects(p)) /\ SF_vars(Exchanges(p))
                       /\ SF_vars(FoldFreeze(p))
    /\ \A r \in Request : SF_vars(Progress(r)) /\ SF_vars(deliver_slot_deposits(r))
    /\ \A w \in Worker : WF_vars(Push(w))
-----------------------------------------------------------------------------
Ids(deposits) == {d.id : d \in ToSet(deposits)}

\* The deposits on their way to page p in the replies its collects hold.
InReplies(p) == UNION {Ids(request[r].reply) : r \in {s \in DOMAIN request : request[s].page = p}}

InSlots == UNION {Ids(request[r].dbevents) : r \in DOMAIN request}

Named(events) == {e.page : e \in ToSet(events)}

Distinct(deposits) == \A i, j \in DOMAIN deposits : deposits[i].id = deposits[j].id => i = j

\* A row carries tables, its worker is in the pool, its page was minted; the
\* index at the desk is one relation.
TypeOK ==
    /\ IndexInv
    /\ DOMAIN rows \subseteq minted
    /\ \A p \in DOMAIN rows : rows[p] \in [worker : Worker, table_subscriptions : SUBSET Table]
    /\ committed \in 0..MaxDeposits
    /\ DOMAIN rows \cap DOMAIN parcels = {} /\ leaving \subseteq DOMAIN parcels

\* No page gets a deposit twice: whatever a request does (collects twice,
\* fails after its exchange, ends with a deposit of its own), a deposit is in
\* one place only on its way to a page (genropy_worker.py, "after a collect
\* the slot is empty, so it delivers nothing twice").
DeliveredOnce ==
    \A p \in Page :
        LET waiting == Pending(page_dbevent_map, p)
        IN  /\ Distinct(delivered[p]) /\ Distinct(waiting)
            /\ Ids(delivered[p]) \cap (Ids(waiting) \cup InReplies(p) \cup InSlots) = {}
            /\ Ids(waiting) \cap (InReplies(p) \cup InSlots) = {}
            /\ InReplies(p) \cap InSlots = {}

\* A deposit that passed the source filter and has left its slot is, for each
\* page that subscribed its table when it was committed and has not left it
\* before it was filed, in that page's queue, in a reply of that page, or
\* delivered: neither exit of the slot, nor a refused exchange, nor a refused
\* subscription loses it, and a collect that fails loses to its own page what
\* its own exchange retired and nothing else (genropy_worker.py, the slot's two
\* exits and collect_page).
OwedIsOnItsWay ==
    \A i \in 1..committed, p \in DOMAIN rows :
        i \notin InSlots /\ p \in owed[i]
            => i \in Ids(delivered[p]) \cup Ids(Pending(page_dbevent_map, p)) \cup InReplies(p)

\* The deposits of a hidden transaction reach the page that made them and
\* nobody else, and never wait at the desk (genropy_worker.py, local_only).
HiddenStaysHome ==
    \A p \in Page :
        /\ \A d \in ToSet(delivered[p]) : d.hidden => d.from_page_id = p
        /\ \A d \in ToSet(Pending(page_dbevent_map, p)) : ~d.hidden

\* A page wakes with the tables it went to sleep with, on its row and, once the
\* wake is folded, at the desk, until it subscribes or drops again; asleep, it
\* has none at the desk once the freeze is folded (genropy_register.py,
\* replay_fields and announcement_fields; docs/internal/dbevents.md, "rebuilt
\* from every birth and every wake").
WakeRestoresIndex ==
    \A p \in DOMAIN slept :
        /\ p \in DOMAIN parcels \ leaving => tables_for(p) = {}
        /\ p \in DOMAIN rows => rows[p].table_subscriptions = slept[p]
        /\ p \in DOMAIN rows /\ (\A r \in DOMAIN request : p \notin Named(request[r].events))
              => tables_for(p) = slept[p]

\* A deposit reaches every page it was committed for, unless the page goes, is
\* frozen or leaves the table, the desk refuses the slot, or the collect that
\* retired it for the page fails on the way to the browser: while its page polls, no deposit waits forever in a slot, at the desk or in a reply
\* (delivery_desk.py, "nothing waiting at the desk expires").
OwedIsDelivered ==
    \A i \in 1..MaxDeposits, p \in Page :
        p \in owed[i] ~> \/ i \in Ids(delivered[p])
                         \/ p \notin owed[i] \/ p \notin DOMAIN rows

\* With no request in flight and no freeze to fold, the desk's index says
\* exactly what the page rows say, and nothing of a page that has gone
\* (genropy_spa_commander.py, "the desk's index is a projection of the page rows").
IndexProjectsRows ==
    request = EmptyMap /\ leaving = {} =>
        \A p \in Page : tables_for(p) =
            IF p \in DOMAIN rows THEN rows[p].table_subscriptions ELSE {}
=============================================================================
