------------------------------ MODULE UserView ------------------------------
(***************************************************************************)
(* The view a page keeps onto its user's store: LegacyBagCollector of      *)
(* spa/legacy_bag.py, its making, widening and re-attachment in            *)
(* spa/genropy_register.py and spa/genropy_worker.py, and the site's       *)
(* writes through ServerStore (siteregister/siteregister_client.py).       *)
(*                                                                         *)
(* A site thread writes the Bag holding no lock of the register; what      *)
(* moves a view runs under dispatch_lock.  So a write, a drain and a       *)
(* re-attachment are split where another thread can step in: between the   *)
(* write and each callback, between the two lines of drain, and between    *)
(* the lines of the re-attachment loop.  One connection holds the pages,   *)
(* a guest's first, a user's after the login.  A change is the number of   *)
(* the write it captures; values, attributes and stamps are left out, and  *)
(* so are the STATE writes a collect applies (PageMailbox has them).       *)
(***************************************************************************)
EXTENDS Naturals, FiniteSets, SequencesExt

CONSTANTS Page,       \* the pages of the connection
          Bag,        \* the Bags a store can be
          Path,       \* paths and prefixes, sequences of labels
          Thread,     \* the threads of the worker
          MaxWrites   \* bound: the writes the site makes

ASSUME UserViewAssumption == IsFiniteSet(Page) /\ Cardinality(Bag) > 1 /\ MaxWrites \in Nat

VARIABLES user,         \* whose the connection is
          store,        \* user -> the Bag under "store" on his row
          data,         \* user -> the Bag under "data" on his row, once aliased
          carried,      \* Bags not yet the store of anyone
          rows,         \* page -> its row: store_subscriptions, user_view
          asleep,       \* page -> the store_subscriptions its parcel carries
          collectors,   \* every collector made, in order
          thread,       \* thread -> what it is in the middle of
          writes,       \* how many writes the site has made
          captured,     \* page -> the writes its views captured (history)
          delivered,    \* page -> the changes its browser received, in order
          overlapped    \* whether a write ever ran beside something else (history)

rowVars == <<user, store, data, carried>>
historyVars == <<captured, delivered, overlapped>>
vars == <<rowVars, rows, asleep, collectors, thread, writes, historyVars>>

Guest == "guest"
User == "mario"

\* The place of a view in `collectors`; 0 is None.
NoView == 0

Idle == [pc |-> "idle"]

\* The store of the guest, and of a user who may be at work on another connection.
Init ==
    /\ user = Guest
    /\ \E home \in [{Guest} -> Bag] \cup [{Guest, User} -> Bag] :
          /\ IsInjective(home)
          /\ store = home
          /\ carried = Bag \ {home[u] : u \in DOMAIN home}
    /\ data = <<>>
    /\ rows = [p \in Page |-> [store_subscriptions |-> {}, user_view |-> NoView]]
    /\ asleep = <<>>
    /\ collectors = <<>>
    /\ thread = [t \in Thread |-> Idle]
    /\ writes = 0
    /\ captured = [p \in Page |-> {}]
    /\ delivered = [p \in Page |-> <<>>]
    /\ overlapped = FALSE

Only(f, keep) == [k \in DOMAIN f \cap keep |-> f[k]]
With(f, k, v) == [j \in DOMAIN f \cup {k} |-> IF j = k THEN v ELSE f[j]]

At(t, pc) == thread[t].pc = pc

\* dispatch_lock is free when no thread is draining or re-attaching.
Unlocked == \A t \in Thread : thread[t].pc \in {"idle", "notifying"}

\* t begins an operation while another thread is in one of these.
Begins(t, pcs) == overlapped' = (overlapped \/ \E s \in Thread \ {t} : thread[s].pc \in pcs)

AllBusy == {"notifying", "draining", "reattaching", "detached", "feeding", "fed"}

Ends(t) == thread' = [thread EXCEPT ![t] = Idle]
-----------------------------------------------------------------------------
(* LegacyBagCollector. *)

\* A collector attached to a Bag; paths is never None for a view.
NewCollector(page, bag, paths) ==
    [page |-> page, bag |-> bag, paths |-> paths, changes |-> <<>>, attached |-> TRUE]

Captures(c, path) == \E prefix \in c.paths : IsPrefix(prefix, path)

Deposited(c, change) == [c EXCEPT !.changes = Append(@, change)]

\* Faulty variant: the pending changes go with the capture.
DetachedEmptied(c) == [c EXCEPT !.attached = FALSE, !.changes = <<>>]

Detached(c) == [c EXCEPT !.attached = FALSE]

\* The collectors whose callback a write of the Bag runs.
Subscribers(bag) == {v \in DOMAIN collectors : collectors[v].attached /\ collectors[v].bag = bag}
-----------------------------------------------------------------------------
(* The site writes through ServerStore. *)

\* _ensure_item_data: "data" is set at the first access of the row, and kept.
ensure_item_data(u) == IF u \in DOMAIN data THEN data ELSE With(data, u, store[u])

\* ServerStore.setItem on a user's store: the Bag is written, then its
\* subscribers are called one by one.  No row, nothing written.
setItem(t, u, path) ==
    LET aliased == ensure_item_data(u)
    IN  /\ At(t, "idle")
        /\ u \in DOMAIN store
        /\ writes < MaxWrites
        /\ writes' = writes + 1
        /\ data' = aliased
        /\ thread' = [thread EXCEPT ![t] = [pc |-> "notifying", path |-> path,
                          write |-> writes + 1, left |-> Subscribers(aliased[u])]]
        /\ Begins(t, AllBusy)
        /\ UNCHANGED <<user, store, carried, rows, asleep, collectors, captured, delivered>>

\* _on_event of the next subscriber.
on_event(t) ==
    LET v == Min(thread[t].left)  c == collectors[v]  n == thread[t].write
    IN  /\ At(t, "notifying")
        /\ thread[t].left # {}
        /\ thread' = [thread EXCEPT ![t].left = @ \ {v}]
        /\ \/ /\ Captures(c, thread[t].path)
              /\ collectors' = [collectors EXCEPT ![v] = Deposited(c, n)]
              /\ captured' = [captured EXCEPT ![c.page] = @ \cup {n}]
           \/ /\ ~Captures(c, thread[t].path)
              /\ UNCHANGED <<collectors, captured>>
        /\ UNCHANGED <<rowVars, rows, asleep, writes, delivered, overlapped>>

WriteEnds(t) ==
    /\ At(t, "notifying")
    /\ thread[t].left = {}
    /\ Ends(t)
    /\ UNCHANGED <<rowVars, rows, collectors, asleep, writes, historyVars>>
-----------------------------------------------------------------------------
(* Subscriptions and drops, each under dispatch_lock from end to end. *)

\* setStoreSubscription('user', active=True): the first makes the view.
subscribe_store_path(t, p, prefix) ==
    LET v == rows[p].user_view
    IN  /\ At(t, "idle") /\ Unlocked
        /\ p \in DOMAIN rows
        /\ \/ /\ v = NoView
              /\ collectors' = Append(collectors, NewCollector(p, store[user], {prefix}))
              /\ rows' = [rows EXCEPT ![p].store_subscriptions = @ \cup {prefix},
                                      ![p].user_view = Len(collectors')]
           \/ /\ v # NoView
              /\ collectors' = [collectors EXCEPT ![v].paths = @ \cup {prefix}]
              /\ rows' = [rows EXCEPT ![p].store_subscriptions = @ \cup {prefix}]
        /\ UNCHANGED <<rowVars, thread, asleep, writes, historyVars>>

\* setStoreSubscription('user', active=False).
unsubscribe_path(t, p, prefix) ==
    LET v == rows[p].user_view
    IN  /\ At(t, "idle") /\ Unlocked
        /\ p \in DOMAIN rows /\ v # NoView
        /\ rows' = [rows EXCEPT ![p].store_subscriptions = @ \ {prefix}]
        /\ collectors' = [collectors EXCEPT ![v].paths = @ \ {prefix}]
        /\ UNCHANGED <<rowVars, thread, asleep, writes, historyVars>>

\* drop_page: detach_page, then the row goes.
drop_page(t, p) ==
    LET v == rows[p].user_view
    IN  /\ At(t, "idle") /\ Unlocked
        /\ p \in DOMAIN rows
        /\ collectors' = [i \in DOMAIN collectors |->
                              IF i = v THEN Detached(collectors[i]) ELSE collectors[i]]
        /\ rows' = Only(rows, DOMAIN rows \ {p})
        /\ UNCHANGED <<rowVars, thread, asleep, writes, historyVars>>
-----------------------------------------------------------------------------
(* The drain a collect makes of the view: two lines, under the locks of the *)
(* collect, none of which a site's writer holds.                            *)

DrainReads(t, p) ==
    /\ At(t, "idle") /\ Unlocked
    /\ p \in DOMAIN rows /\ rows[p].user_view # NoView
    /\ thread' = [thread EXCEPT ![t] = [pc |-> "draining", page |-> p,
                      changes |-> collectors[rows[p].user_view].changes]]
    /\ Begins(t, {"notifying"})
    /\ UNCHANGED <<rowVars, rows, collectors, asleep, writes, captured, delivered>>

\* Faulty variant: reset=False.
DrainPeeks(t) ==
    /\ At(t, "draining")
    /\ delivered' = [delivered EXCEPT ![thread[t].page] = @ \o thread[t].changes]
    /\ Ends(t)
    /\ UNCHANGED <<rowVars, rows, collectors, asleep, writes, captured, overlapped>>

DrainResets(t) ==
    /\ At(t, "draining")
    /\ collectors' = [collectors EXCEPT ![rows[thread[t].page].user_view].changes = <<>>]
    /\ delivered' = [delivered EXCEPT ![thread[t].page] = @ \o thread[t].changes]
    /\ Ends(t)
    /\ UNCHANGED <<rowVars, rows, asleep, writes, captured, overlapped>>
-----------------------------------------------------------------------------
(* The store of the pages changes, and their views follow it. *)

\* The pages whose views are to be re-attached, one after the other, to `bag`.
Reattaching(pages, bag) == [pc |-> "reattaching", pages |-> pages, bag |-> bag]

Viewing == {p \in DOMAIN rows : rows[p].user_view # NoView}

\* The core's re-labelling: a user without a row takes the guest's, its Bag
\* included; otherwise the guest's row goes with its connection.
Relabelled(f) ==
    IF User \in DOMAIN store THEN Only(f, {User})
    ELSE IF Guest \in DOMAIN f THEN With(<<>>, User, f[Guest]) ELSE f

\* Faulty variant: the views stay where they are.
LoginLeavesViews(t) ==
    /\ At(t, "idle") /\ Unlocked
    /\ user = Guest /\ Guest \in DOMAIN store
    /\ user' = User
    /\ store' = Relabelled(store) /\ data' = Relabelled(data)
    /\ UNCHANGED <<carried, rows, thread, collectors, asleep, writes, historyVars>>

\* A view already on the new owner's Bag is left alone.
change_connection_user(t) ==
    /\ At(t, "idle") /\ Unlocked
    /\ user = Guest /\ Guest \in DOMAIN store
    /\ user' = User
    /\ store' = Relabelled(store) /\ data' = Relabelled(data)
    /\ thread' = [thread EXCEPT ![t] = Reattaching(
            {p \in Viewing : collectors[rows[p].user_view].bag # store'[User]}, store'[User])]
    /\ Begins(t, {"notifying"})
    /\ UNCHANGED <<carried, rows, collectors, asleep, writes, captured, delivered>>

\* _install_carried_store: the core puts the carried Bag under "store"; a
\* resident's row and an empty parcel change nothing.
install_carried_store(t, bag) ==
    /\ At(t, "idle") /\ Unlocked
    /\ bag \in carried /\ user \in DOMAIN store
    /\ carried' = carried \ {bag}
    /\ store' = [store EXCEPT ![user] = bag]
    /\ thread' = [thread EXCEPT ![t] = Reattaching(Viewing, bag)]
    /\ Begins(t, {"notifying"})
    /\ UNCHANGED <<user, data, rows, collectors, asleep, writes, captured, delivered>>

\* The freeze of the user (the core's): his row and his pages' go, with no call
\* of theirs pending; the parcel leaves the views behind, and what they held.
\* That each live row goes through detach_page, and so detaches its view, is
\* assumed of the core: detach_page is its hook for a row that leaves, and shows
\* only the parcel's fields of a move.
freeze_user(t) ==
    /\ At(t, "idle") /\ Unlocked
    /\ user \in DOMAIN store /\ rows # <<>>
    /\ asleep' = [p \in DOMAIN rows |-> rows[p].store_subscriptions]
    /\ rows' = <<>>
    /\ store' = Only(store, DOMAIN store \ {user})
    /\ data' = Only(data, DOMAIN data \ {user})
    /\ collectors' = [i \in DOMAIN collectors |-> Detached(collectors[i])]
    /\ captured' = [p \in Page |-> ToSet(delivered[p])]
    /\ Begins(t, {"notifying"})
    /\ UNCHANGED <<user, carried, thread, writes, delivered>>

\* Faulty variant: the sets are replayed, the view is not rebuilt.
WakeBlind(t, bag) ==
    /\ At(t, "idle") /\ Unlocked
    /\ asleep # <<>> /\ bag \in carried
    /\ carried' = carried \ {bag}
    /\ store' = With(store, user, bag)
    /\ rows' = [p \in DOMAIN asleep |->
                   [store_subscriptions |-> asleep[p], user_view |-> NoView]]
    /\ asleep' = <<>>
    /\ UNCHANGED <<user, data, collectors, thread, writes, historyVars>>

\* The wake, on the Bag his new row is born with: replay_fields makes the view
\* again at the first prefix and widens it with the others.
wake(t, bag) ==
    LET watchers == SetToSeq({p \in DOMAIN asleep : asleep[p] # {}})
        places == [p \in ToSet(watchers) |-> Len(collectors) + CHOOSE i \in DOMAIN watchers : watchers[i] = p]
    IN  /\ At(t, "idle") /\ Unlocked
        /\ asleep # <<>> /\ bag \in carried
        /\ carried' = carried \ {bag}
        /\ store' = With(store, user, bag)
        /\ collectors' = collectors \o [i \in DOMAIN watchers |->
                NewCollector(watchers[i], bag, asleep[watchers[i]])]
        /\ rows' = [p \in DOMAIN asleep |-> [store_subscriptions |-> asleep[p],
                       user_view |-> IF p \in DOMAIN places THEN places[p] ELSE NoView]]
        /\ asleep' = <<>>
        /\ UNCHANGED <<user, data, thread, writes, historyVars>>

\* view.detach()
Detach(t, p) ==
    /\ At(t, "reattaching")
    /\ p \in thread[t].pages
    /\ collectors' = [collectors EXCEPT ![rows[p].user_view] = Detached(@)]
    /\ thread' = [thread EXCEPT ![t] = [pc |-> "detached", page |-> p, then |-> thread[t]]]
    /\ UNCHANGED <<rowVars, rows, asleep, writes, historyVars>>

\* new_collector, with the prefixes of the row.
Attach(t) ==
    LET p == thread[t].page
    IN  /\ At(t, "detached")
        /\ collectors' = Append(collectors,
                NewCollector(p, thread[t].then.bag, rows[p].store_subscriptions))
        /\ thread' = [thread EXCEPT ![t] = [pc |-> "feeding", page |-> p, then |-> thread[t].then,
                          fed |-> 0, fresh |-> Len(collectors')]]
        /\ UNCHANGED <<rowVars, rows, asleep, writes, historyVars>>

OldChanges(t) == collectors[rows[thread[t].page].user_view].changes

\* One turn of the loop over the old view's live list.
Feed(t) ==
    /\ At(t, "feeding")
    /\ thread[t].fed < Len(OldChanges(t))
    /\ collectors' = [collectors EXCEPT
            ![thread[t].fresh] = Deposited(@, OldChanges(t)[thread[t].fed + 1])]
    /\ thread' = [thread EXCEPT ![t].fed = @ + 1]
    /\ UNCHANGED <<rowVars, rows, asleep, writes, historyVars>>

\* The loop has read the list to its end.
Fed(t) ==
    /\ At(t, "feeding")
    /\ thread[t].fed = Len(OldChanges(t))
    /\ thread' = [thread EXCEPT ![t].pc = "fed"]
    /\ UNCHANGED <<rowVars, rows, collectors, asleep, writes, historyVars>>

\* page["user_view"] = fresh, and on to the next page.
Assign(t) ==
    /\ At(t, "fed")
    /\ rows' = [rows EXCEPT ![thread[t].page].user_view = thread[t].fresh]
    /\ thread' = [thread EXCEPT ![t] = [thread[t].then EXCEPT !.pages = @ \ {thread[t].page}]]
    /\ UNCHANGED <<rowVars, collectors, asleep, writes, historyVars>>

Reattached(t) ==
    /\ At(t, "reattaching")
    /\ thread[t].pages = {}
    /\ Ends(t)
    /\ UNCHANGED <<rowVars, rows, collectors, asleep, writes, historyVars>>
-----------------------------------------------------------------------------
Writing(t) ==
    \/ \E u \in DOMAIN store, path \in Path : setItem(t, u, path)
    \/ on_event(t) \/ WriteEnds(t)

Windows(t) ==
    \/ \E p \in Page, prefix \in Path : subscribe_store_path(t, p, prefix) \/ unsubscribe_path(t, p, prefix)
    \/ \E p \in Page : drop_page(t, p)

Draining(t) == (\E p \in Page : DrainReads(t, p)) \/ DrainResets(t)

Moving(t) ==
    \/ change_connection_user(t)
    \/ \E bag \in Bag : install_carried_store(t, bag) \/ wake(t, bag)
    \/ freeze_user(t)
    \/ \E p \in Page : Detach(t, p)
    \/ Attach(t) \/ Feed(t) \/ Fed(t) \/ Assign(t) \/ Reattached(t)

Next == \E t \in Thread : Writing(t) \/ Windows(t) \/ Draining(t) \/ Moving(t)

Spec == Init /\ [][Next]_vars
-----------------------------------------------------------------------------
View(p) == collectors[rows[p].user_view]

\* A user's pages watch the Bag his row holds now, on the prefixes of their
\* rows, a page that woke included ("so a page wakes capturing what it captured
\* before it went to the deposit"), and no collector left behind by a login, a
\* swap, a freeze or a drop is still attached, capturing for nobody
\* (genropy_register.py, replay_fields, change_connection_user and detach_page;
\* genropy_worker.py, _install_carried_store).
ViewsFollowTheStore ==
    Unlocked =>
        /\ \A p \in DOMAIN rows : rows[p].store_subscriptions # {} => p \in Viewing
        /\ \A p \in Viewing : /\ View(p).attached
                              /\ View(p).bag = store[user]
                              /\ View(p).paths = rows[p].store_subscriptions
        /\ \A v \in DOMAIN collectors :
              collectors[v].attached => \E p \in Viewing : rows[p].user_view = v

\* No change is given twice to a page, by two drains or by a drain and the
\* re-deposit of what an old view held ("re-attached, never drained",
\* genropy_register.py, change_connection_user).
CapturedOnce ==
    Unlocked => \A p \in Viewing : IsInjective(delivered[p] \o View(p).changes)

\* As long as no write runs beside another operation (the site writes a Bag
\* holding no lock of its row, so one that falls between the two lines of a
\* drain is lost), a page reads what its views captured, all of it and in the
\* order it was written, across logins and swaps ("a change captured before the
\* login is still pending after it", genropy_register.py,
\* change_connection_user; the order that
\* test_no_captured_change_is_lost_in_the_swap asserts).  What a view held when
\* its page was frozen is left behind.
ReadWholeAndInOrder ==
    Unlocked /\ ~overlapped =>
        \A p \in Viewing :
            LET read == delivered[p] \o View(p).changes
            IN  /\ captured[p] = ToSet(read)
                /\ \A i, j \in DOMAIN read : i < j => read[i] < read[j]
=============================================================================
