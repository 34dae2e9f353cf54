---------------------------- MODULE DeliveryDesk ----------------------------
(***************************************************************************)
(* The vertex's desk (spa/delivery_desk.py) and the commander's drop and   *)
(* birth folds that feed it (spa/genropy_spa_commander.py): the three      *)
(* pending queues, by species, and the routes a worker CALLs.  Every route *)
(* is a sync method on the commander's one loop, so each is one atomic     *)
(* step; the routes are action fragments here, driven on their own by      *)
(* DeskCalls and by the workers' threads in TableEvents and PageMailbox.   *)
(*                                                                         *)
(* A deposit is a record with the table of its batch; a change is a record *)
(* with its key (path, reason, fired).  A path is the sequence of its      *)
(* segments, so "equal or under prefix." is IsPrefix.  arrival_ts is read  *)
(* from one strictly increasing clock, the wall clock the workers and the  *)
(* desk share.  to_tytx/from_tytx carry a change unharmed.  The population *)
(* maps are the core's: they are modelled from how the desk reads them.    *)
(***************************************************************************)
EXTENDS SourceFilter, SequencesExt

CONSTANTS User, Connection

VARIABLES page_connection_map,     \* page -> its connection
          connection_user,         \* connection -> its user
          user_map,                \* the users the vertex knows
          page_datachange_map,     \* page -> pending addressed changes
          page_dbevent_map,        \* page -> pending deposits
          user_store_change_map,   \* user -> pending STATE writes
          clock                    \* the last arrival_ts handed out

populationVars == <<page_connection_map, connection_user, user_map>>
queueVars == <<page_datachange_map, page_dbevent_map, user_store_change_map>>

EmptyMap == [k \in {} |-> <<>>]

DeskInit ==
    /\ page_connection_map = EmptyMap
    /\ connection_user = EmptyMap
    /\ user_map = {}
    /\ page_datachange_map = EmptyMap
    /\ page_dbevent_map = EmptyMap
    /\ user_store_change_map = EmptyMap
    /\ clock = 0

Put(f, k, v) == [j \in DOMAIN f \cup {k} |-> IF j = k THEN v ELSE f[j]]

\* dict.get(key, []) and dict.pop(key), on a dict of queues.
Pending(queues, k) == IF k \in DOMAIN queues THEN queues[k] ELSE <<>>
Popped(queues, keys) == Restrict(queues, DOMAIN queues \ keys)
-----------------------------------------------------------------------------
(* The table events. *)

\* file_dbevent: the deposit joins the queue of every page that subscribes
\* its table; a table nobody subscribes leaves the queues as they are.
file_dbevent(queues, batch) ==
    [p \in DOMAIN queues \cup pages_for(batch.table) |->
        IF p \in pages_for(batch.table) THEN Append(Pending(queues, p), batch) ELSE queues[p]]

\* The loop of deposit and exchange: each deposit is filed in its turn.
FiledDbevents(deposits) ==
    LET filed[n \in 0..Len(deposits)] ==
            IF n = 0 THEN page_dbevent_map ELSE file_dbevent(filed[n - 1], deposits[n])
    IN  filed[Len(deposits)]

deposit(deposits) ==
    /\ page_dbevent_map' = FiledDbevents(deposits)
    /\ UNCHANGED <<page_datachange_map, user_store_change_map>>

\* What exchange answers: its own deposits are filed first.
ExchangeReply(p, u, deposits) ==
    [datachanges |-> Pending(page_datachange_map, p),
     dbevents |-> Pending(FiledDbevents(deposits), p),
     store_changes |-> Pending(user_store_change_map, u)]

exchange(p, u, deposits) ==
    /\ page_dbevent_map' = Popped(FiledDbevents(deposits), {p})
    /\ page_datachange_map' = Popped(page_datachange_map, {p})
    /\ user_store_change_map' = Popped(user_store_change_map, {u})
-----------------------------------------------------------------------------
(* The addressed writes. *)

STATE_KINDS == {"page_store", "user_store", "connection_store"}

\* The desk is the authority on a target's existence.
Known(message) ==
    IF message.kind \in STATE_KINDS
    THEN message.target \in user_map
    ELSE message.target \in DOMAIN page_connection_map

Under(path, prefix) == IsPrefix(prefix, path)

\* The changes of a queue that are in a set, in their order.
Kept(queue, keep) ==
    LET kept[n \in 0..Len(queue)] ==
            IF n = 0 THEN <<>>
            ELSE IF queue[n] \in keep THEN Append(kept[n - 1], queue[n]) ELSE kept[n - 1]
    IN  kept[Len(queue)]

\* The queue with the pending changes under a prefix taken out.
Pruned(queue, prefix) == Kept(queue, {c \in ToSet(queue) : ~Under(c.key.path, prefix)})

\* The queue with a change appended, after its predecessors of the same key
\* have gone when the write replaces them.
Extended(queue, change, replace, stamp) ==
    Append(IF replace THEN Kept(queue, {c \in ToSet(queue) : c.key # change.key}) ELSE queue,
           [change EXCEPT !.arrival_ts = stamp])

\* file_datachange on one queue.
Filed(queue, message, stamp) ==
    CASE message.op = "reset_datachanges" -> <<>>
      [] message.op = "drop_datachanges" -> Pruned(queue, message.path)
      [] OTHER -> Extended(queue, message.change, message.replace, stamp)

FiledAt(queues, message) ==
    [k \in DOMAIN queues \cup {message.target} |->
        IF k = message.target THEN Filed(Pending(queues, k), message, clock + 1) ELSE queues[k]]

\* Faulty variant: the target's existence is not asked.
OnDatachangeUnchecked(message) ==
    /\ clock' = IF message.op = "set_datachange" THEN clock + 1 ELSE clock
    /\ IF message.kind \in STATE_KINDS
       THEN /\ user_store_change_map' = FiledAt(user_store_change_map, message)
            /\ UNCHANGED page_datachange_map
       ELSE /\ page_datachange_map' = FiledAt(page_datachange_map, message)
            /\ UNCHANGED user_store_change_map
    /\ UNCHANGED page_dbevent_map

\* Answers filed = Known(message); an unknown target leaves no trace.
on_datachange(message) ==
    /\ \/ /\ ~Known(message)
          /\ UNCHANGED <<page_datachange_map, user_store_change_map, clock>>
       \/ /\ Known(message)
          /\ clock' = IF message.op = "set_datachange" THEN clock + 1 ELSE clock
          /\ IF message.kind \in STATE_KINDS
             THEN /\ user_store_change_map' = FiledAt(user_store_change_map, message)
                  /\ UNCHANGED page_datachange_map
             ELSE /\ page_datachange_map' = FiledAt(page_datachange_map, message)
                  /\ UNCHANGED user_store_change_map
    /\ UNCHANGED page_dbevent_map
-----------------------------------------------------------------------------
(* The folds of the commander: births and drops, the core's half first. *)

\* on_new_page: the core folds the page in, the desk files its tables.
on_new_page(p, cid, u, tables) ==
    /\ page_connection_map' = [q \in DOMAIN page_connection_map \cup {p} |->
                                 IF q = p THEN cid ELSE page_connection_map[q]]
    /\ connection_user' = [c \in DOMAIN connection_user \cup {cid} |->
                                 IF c = cid THEN u ELSE connection_user[c]]
    /\ user_map' = user_map \cup {u}
    /\ record_page_table_subscriptions(p, tables)
    /\ UNCHANGED queueVars

\* Faulty variant: the queues go, the subscriptions stay.
DeskDropQueuesOnly(pages) ==
    /\ page_datachange_map' = Popped(page_datachange_map, pages)
    /\ page_dbevent_map' = Popped(page_dbevent_map, pages)
    /\ UNCHANGED <<indexVars, push_tasks>>

\* desk.drop_page for each of these pages.
desk_drop_pages(pages) ==
    /\ page_datachange_map' = Popped(page_datachange_map, pages)
    /\ page_dbevent_map' = Popped(page_dbevent_map, pages)
    /\ forget_pages(pages)

drop_page(p) ==
    /\ page_connection_map' = Popped(page_connection_map, {p})
    /\ desk_drop_pages({p})
    /\ UNCHANGED <<connection_user, user_map, user_store_change_map>>

PagesOf(connections) ==
    {p \in DOMAIN page_connection_map : page_connection_map[p] \in connections}

\* Faulty variant: the pages are read after the core has emptied them out.
DropConnectionReadsLate(cid) ==
    /\ page_connection_map' = Popped(page_connection_map, PagesOf({cid}))
    /\ connection_user' = Popped(connection_user, {cid})
    /\ desk_drop_pages({})
    /\ UNCHANGED <<user_map, user_store_change_map>>

\* The pages are read before the core empties them out.
drop_connection(cid) ==
    /\ page_connection_map' = Popped(page_connection_map, PagesOf({cid}))
    /\ connection_user' = Popped(connection_user, {cid})
    /\ desk_drop_pages(PagesOf({cid}))
    /\ UNCHANGED <<user_map, user_store_change_map>>

ConnectionsOf(u) == {c \in DOMAIN connection_user : connection_user[c] = u}

\* The core's demolition passes through drop_connection for each connection.
drop_user(u) ==
    /\ page_connection_map' = Popped(page_connection_map, PagesOf(ConnectionsOf(u)))
    /\ connection_user' = Popped(connection_user, ConnectionsOf(u))
    /\ user_map' = user_map \ {u}
    /\ desk_drop_pages(PagesOf(ConnectionsOf(u)))
    /\ user_store_change_map' = Popped(user_store_change_map, {u})
=============================================================================
