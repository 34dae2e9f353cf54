# genropy-asgi, specified

TLA+ modules for the parts of genropy-asgi that decide who is told what, and
when: the subscriptions and the source filter, the delivery desk, the road of a
table event, the mailbox of a page, the view onto a user's store, the register
rows with their disk folders, the global store and the item locks. TLC checks
them on small instances; TLAPS proves every safety property of theirs, and both
refinements, for every value of the constants. `PROJECT.json` maps each
definition to the lines it models.

Paths below are relative to `src/src/genropy_asgi/`.

## 1. The system

genropy-asgi hosts a synchronous GenroPy site on ASGI. One **commander**
process (an asyncio loop) owns the population of users, connections and pages
and routes requests; **worker** processes run the site on pool threads. A user
is pinned to one worker (*usersticky*). Workers and commander talk on a *lane*:
a worker CALLs the commander from a request thread and waits; what a request
does to the population (a page born, a page dropped) rides its own REPLY as
worker events. The commander CALLs a worker only for the source filter.

| Component | State | Operations |
|---|---|---|
| Subscription index (`spa/subscription_index.py`) | `table_pages`, `page_tables` | `subscribe`, `unsubscribe`, `drop_page`, reads |
| Source filter (`spa/genropy_spa_commander.py`, worker's `DeliveryOrders`) | push tasks, the wire, each worker's `subscribed_tables` | broadcast on a transition, push to a newborn, push task, apply |
| Delivery desk (`spa/delivery_desk.py`) | index, `page_datachange_map`, `page_dbevent_map`, `user_store_change_map` | `subscribe_table`, `exchange`, `deposit`, `on_datachange`, drops |
| Table events (`spa/genropy_worker.py`) | request slot, rows' `table_subscriptions` | `subscribeTable`, `notifyDbEvents`, `collect_page`, `deliver_slot_deposits` |
| Page mailbox (`spa/genropy_worker.py`, `spa/genropy_register.py`) | row's `datachanges`, `subscribed_paths`, `user_view` | `set/reset/drop_datachanges`, page-store capture, `collect_page`, `handle_ping` |
| User view (`spa/legacy_bag.py`, `spa/genropy_register.py`) | collectors and their pending changes, the Bag of each user, the `data` alias | capture, drain, subscribe, login, carried store, freeze, wake |
| Global store adapter (`siteregister/global_store_adapter.py`) | the commander's dictionary, a thread's turn | get, set, delete, open and close a turn |
| Item locks (`siteregister/siteregister_client.py`) | lock dictionary, its mutex | `ServerStore` enter and exit, `lock_item`, `unlock_item` |
| Registers and disk folders (`siteregister/siteregister_client.py`, `spa/genropy_worker.py`) | rows of users, connections and pages; `data/_connections` | births, login, three drops, freeze, wake, listings and broadcasts |
| WSGI stitching, configuration, command line, proxy, daemon stubs | none shared | not modelled, section 8 |

How they interact. `subscribeTable` writes the page's row and CALLs the desk,
which files it in the index; when the set of subscribed tables moves, the desk
has the commander push the set to every living worker. A commit asks its
worker's copy of the set (the *source filter*) and puts what passes in the
request's slot. The slot is emptied by `collect_page`'s exchange with the desk,
or at the end of a request that did not collect, by a deposit. A collect merges
the row's queue, what the desk retired and the page's view of the user's store
into one batch for the browser, and applies to the user's Bag the store writes
it retired.

What is hard. The desk runs on one loop, and each verb is atomic there; on a
worker a verb holds `dispatch_lock` in pieces and CALLs between them, so state
read before a CALL is used after it; the site's own threads write Bags with no
lock at all; events that ride a REPLY are overtaken by CALLs; pushes are
fire-and-forget; an exchange may be refused.

What makes each part correct:

* index: both directions say the same, and a call reports a transition exactly
  when the set of subscribed tables moves;
* source filter: no worker is left with an old set;
* desk: a queue of addressed writes belongs to somebody the commander knows; who
  leaves takes everything along;
* table events: each subscriber gets an event once; a hidden one stays home;
* mailbox: batches in arrival order, nothing lost or doubled by a collect;
* views: on the Bag the row holds now, nothing captured lost or doubled;
* global store: each operation and each block takes effect at one instant;
* registers: rows are chains page, connection, user, and the vertex knows the
  living pages; a listing that takes no lock answers right; a folder lives as
  long as its row, asleep or awake;
* locks: one holder, released with the outermost block, nobody waits for ever.

## 2. The modules

```
SubscriptionIndex --- IndexCalls ------ refines TableInterest
      |                   \__ SubscriptionIndexProofs (the filter's too)
      +-- SourceFilter ___/
              +-- DeliveryDesk
                     +-- DeskCalls ---- DeskCallsProofs
                     +-- TableEvents -- TableEventsProofs
                     +-- PageMailbox -- PageMailboxProofs
GlobalStore ------------- GlobalStoreProofs; refines AtomicStore
UserView ---------------- UserViewProofs
Registers --------------- RegistersProofs
StoreLocks -------------- StoreLocksProofs
```

Every `MC...` module gives the constants of its specification small values.
Operators under a comment "Faulty variant" are not part of any specification:
each is the definition that follows it with a plausible mistake, kept to show
that the property it goes with would notice.

**SubscriptionIndex / IndexCalls.** `table_pages` and `page_tables` are partial
functions, as the dictionaries are; `forget` deletes a key with its last entry.
`IndexCalls` is the class with its callers, and remembers the answer of the
last call. `TableInterest` is what it promises: one set of (page, table) pairs,
and the answer "the set of subscribed tables moved". `index_drop_pages` is
`drop_page` for a set of pages: the commander's loop over the pages of a
connection has no await, so nobody sees it half way.

**SourceFilter.** `push_tasks[w]` counts tasks the loop has not run; `SendPush`
reads the set and puts it on `wire[w]`; `ApplyPush` is the worker's order, which
replaces the copy whole. The timeout on the answer changes nothing and has no
action. The wire is one ordered stream (core library); names of workers are
minted once.

**DeliveryDesk / DeskCalls.** One operator per verb, on the three queue maps and
the commander's maps. The loop that files a slot is a recursive function, one
`file_dbevent` per deposit. `exchange` files the slot's deposits first and then
retires, so a page that subscribes what it committed gets it in the same
exchange. `DeskCalls` lets any of them happen at any time, with births and
drops.

**TableEvents.** A request is a record with a program counter: `running`,
`subscribing` (row written, CALL not served), `exchanging`, `collecting` (reply
here, lock not yet retaken), `failed`, `replying` (its events are folded one by
one). The KeyError of a collect on a page that is gone is answered by the client
with an empty list, so the request goes on. Three things fail it: a refused
subscription, which leaves the row written; a refused exchange, which leaves the
slot full; and `CollectFails`, after the exchange, with what it retired: either
the user the collect read has no row any more (`userless`: the collects a login
overtook), and nothing is drained, or the page is drained and the request raises
before its answer. That second failure is one step with the drain, because what
was drained is the thread's alone until the answer. A request collects its own
page; a ping over several pages is a request for each (it commits nothing, so
each has an empty slot), and a failure at one child is a failure of all of them.
The history variable `owed` says which pages must still get a deposit: those
subscribed at the commit, less those that unsubscribe or leave before it is
filed, less what a refused end-of-request deposit drops, less the page of a
collect that fails with it in its reply. A page can be frozen
(its row leaves, its tables go into a parcel) and woken: the row is replayed
from the parcel and its announcement tells the index (`wake_page`).

**PageMailbox.** The same collect, seen from the datachanges: two roads for an
addressed write (the row when the caller's own user has the page here, the desk
otherwise), the capture on the page's store, the user-store writes. A change is
its `arrival_ts`; the clock moves at each write, so stamps are distinct (the
code's wall clock is assumed to be strictly increasing between two appends).
A request collects one page; a ping collects its page and then its children, in
any order, and its browser gets the batches in one envelope at the end, or none
of them when the ping fails on its way. One login re-labels the connection: the
guest's row goes, and a collect that had read the guest before its exchange
finds no user after it.

**UserView.** Collectors are objects, numbered as they are made; a row holds the
number of its view. A site write notifies the subscribers it found one by one;
`drain` is two steps, as its two lines are; the re-attachment loop of
`change_connection_user` and `_install_carried_store` is one step per line. The
core's part of the login and of the swap is external: a user with no row here
takes the guest's row, Bag included; the swap replaces `store` on the row. A
freeze detaches every view, which is an assumption about the core: that it calls
`detach_page` on each live row of a user it freezes (`genropy_register.py:169-178`
shows the hook, and that the parcel's fields carry no view). A wake builds them again from the prefixes the
parcel carried (`replay_fields`), on the Bag it brings.

**Registers.** `page_items`, `connection_items` and `user_items` reduced to the
links between them. Whoever writes rows holds `dispatch_lock`; a demolition
takes its rows one by one, because the readers hold no lock and see each of
them; it holds the lock, so no other writer moves meanwhile. The client's verbs
look at a row first and take the lock later: two steps. `drop_page` removes a
folder before it releases the lock; `drop_connection` and `drop_user` remove
theirs after, a step per folder. A listing is a snapshot of keys and a step per
row; a `user` term of a filter is the two reads of `_page_owner`. The term is
the set of the names or users its pattern matches: `re.match` takes any value
with a matching start, so `user:mario` may reach a `mario2` too. The site's
requests write folders without asking for a row (`WriteFolder`, external): the
request of a page that another has dropped may still write its folder. Writing
begins once the page is open, and there is no request on a user asleep.
The core's half of each verb is external; so are freeze and wake, which are here
for what they do to rows and folders. The order in which a freeze removes rows
is not assumed. `steady` and `ever` are history: the pages that answered a read
from its first step to its last, and those that did at some time of it; `late` are the folders made when their row had gone.

**GlobalStore.** The dictionary sits behind one FIFO lock (core, external). A
whole key is one CALL; a path inside a key is a keyed turn; `with globalStore()`
is a turn on a private copy. A date is a clock and a zone, and the wire reads a
naive date as UTC, so `wire_value` and `legacy_value` are modelled by what they
do. `AtomicStore` has one variable, the dictionary, and one step per operation or per block.

**StoreLocks.** The lock dictionary is an object too, because from a cold start
there can be two. The critical sections of `lock_item` and `unlock_item` are one
step each; reading and creating the dictionary are separate steps. The sleeps
between attempts are left out, the number of attempts is not.

## 3. The runs

| Run | Checks | Bounds |
|---|---|---|
| `subscription_index` | `IndexInv`, `ImplementsTableInterest` | 3 pages, 3 tables |
| `source_filter` | `FilterTypeOK`, `NoMissedTransition`, `FilterConverges` | 2 pages, 2 tables, 2 workers, 3 outstanding pushes to a worker |
| `desk_calls` | `TypeOK`, `QueuesHaveOwners`, `DepartureIsComplete` | 2 pages, 2 connections, 2 users, 1 table, 2 keys, 2 stamps |
| `table_events` | `TypeOK`, `DeliveredOnce`, `OwedIsOnItsWay`, `HiddenStaysHome`, `WakeRestoresIndex` | 2 pages, 2 requests, 1 batch, any number of logins and refusals |
| `delivery` | `OwedIsDelivered` | 1 page, 2 requests, 1 batch, any number of logins and refusals |
| `page_collects` | `TypeOK`, `BatchInArrivalOrder`, `MailDeliveredOnce`, `CollectLosesNothing` | 1 page, 2 collecting threads, 2 keys, 3 stamps, a login |
| `user_collects` | `MailDeliveredOnce`, `CollectLosesNothing`, `AppliedIsSeen`, `RetiredIsApplied` | 2 pages, 2 threads, pings, 2 stamps, a login |
| `user_views` | `ViewsFollowTheStore`, `CapturedOnce`, `ReadWholeAndInOrder` | 1 page, 2 threads, 3 Bags, 2 nested paths, 2 writes |
| `registers` | `TypeOK`, `RowsFormChains`, `FoldersHaveRows`, `FoldersSurvive`, `ReadsAreComplete`, `BroadcastStaysWithin` | 2 pages of two names, of which one keeps files (`Writer`), 2 connections, a user and the guests, 2 threads, a filter of one term and one of two, whose `user` pattern matches every guest |
| `global_store` | `TypeOK`, `ImplementsAtomicStore`, `NobodyWaitsForever` | 2 threads, 1 key with 2 leaves, blocks of 2 operations |
| `store_locks` | `TypeOK`, `OneHolder`, `CountIsDepth`, `EachCreatesOnce`, `EnterEnds` | 2 threads, 2 items, depth 2, 2 retries, from a cold start |
| `index_drift` | `IndexProjectsRows`, violated: section 5 | the smallest that shows it, with no CALL refused (`DeskRefuses`) |

What they show, in order of the components:

* The index answers like one relation, and a drop of several pages reports a
  transition whichever of its tables lost its last subscriber.
* A push reads the set when it is sent, so whatever the order of tasks, births
  and deaths, a living worker with no task left to run is going to hold the
  desk's set; and if the set stays for ever at some value, every living worker's
  filter ends there and stays.
* No addressed write waits at the desk for somebody the commander does not know,
  and the step that takes a page away, alone or with its connection or its user,
  takes its queues and subscriptions. Queues of table events are another matter:
  `subscribe_table` files a page whoever it is (section 5), and a deposit for its
  table then makes it a queue.
* A table event that passed the filter reaches each page that is owed it once,
  through collects, refused CALLs, failed requests and end-of-request deposits,
  except the ones a failing collect had retired for its page; a hidden one
  reaches its own page only. A page that keeps polling does get it. A page that
  wakes is in the index again with its tables.
* A batch is in arrival order across its three queues; no collect loses or
  doubles a change, two collects of one page and pings over several included; a
  user-store write that is retired is applied, and one that is applied is seen
  by the page that retired it, at once, and by its siblings. The exceptions are
  the requests that fail after an exchange, listed in section 5, and they lose
  what they held and nothing else.
* A view ends on the Bag the row holds, with the row's prefixes, and no
  collector is left attached, through logins, swaps, freezes and wakes. As long as no write runs beside another
  operation, a page reads what was captured, whole and in order.
* Each operation and each block on the global store takes effect at one instant;
  no date is shifted by the wire; nobody waits for ever.
* Whenever the lock is free the rows are whole chains and the vertex has been
  told of exactly the living pages. No listing misses a page that matched all
  along, and a broadcast reaches no page that matched no term at any time. No
  folder outlives its row but the ones made after it had gone, and none is taken
  from a row that lives or sleeps, except by the late removal of section 5.
* Locks: as the names say, while one dictionary exists; and no thread makes two.

Why the bounds are enough to meet the hard cases. Two of each actor give every
race between two of them, and a third thing to be right about: with two pages a
table loses one subscriber and keeps another; with several outstanding pushes an
older one is in flight while a newer is sent; two nested stores in two threads
give the opposite order; three stamps let a change wait on each road with a
third between them, or be replaced behind another. Two threads on two pages of
two connections give a listing every order against a demolition, and a page born
again under a late removal.

`CHECK_DEADLOCK FALSE` is set where the system may stop because the bounds on
writes, batches or ids are used up.

## 4. Fairness

* `SourceFilter`: weak fairness on the steps of a push. An asyncio loop runs
  every task it holds, and a living worker serves the CALLs on its wire. Nothing
  obliges anybody to subscribe, and no worker is obliged to die or to live.
* `GlobalStore`: weak fairness on the service of a waiting thread and on the end
  of a block. The commander's lock is first in, first out; a `with` block leaves
  by `__exit__` whatever its body does, so a body that ends releases the turn.
  A body that never ends would hold the store for ever, in the code too.
* `StoreLocks`: weak fairness on the steps of an enter: a thread between two
  attempts wakes up. Nothing obliges a body to end, and `EnterEnds` needs none,
  because the attempts are bounded.
* `TableEvents` (`FairSpec`): a page that stays keeps polling (the browser's
  interim ping), and of infinitely many polls one collects and is not refused:
  strong fairness on the start of a request of the page, on its collect and on
  the exchange being served. Without it a desk that refuses every exchange
  leaves everything where it is, in the code too. A request that has begun to
  end goes on, the commander folds what a REPLY carries and runs its pushes.
  Nobody is obliged to commit, to subscribe, to freeze or to wake.

## 5. Disagreements between the code and what is said of it

One run has a violation as its result; its finding in `PROJECT.json` quotes the
lines contradicted.

* `index_drift`: `subscribeTable` writes the row under `dispatch_lock` and CALLs
  the desk after it. The CALL can be served after the page's drop was folded
  (the desk does not ask whether the page exists, and keeps the table in every
  source filter for good), or two requests of a page can open and close a table
  in one order on the row and in the other at the desk. A refused CALL leaves
  them apart too; the run leaves refusals out, to show the race.

Other behaviours the models have, against what a comment suggests, with no run
of their own. The first six are the exceptions the properties name.

* A page dropped between its exchange and its drain takes with it the user-store
  writes that exchange retired, though they were for the user's Bag
  (`genropy_worker.py:461`; `delivery_desk.py:16-18` says they are applied by
  whichever page retires them).
* A login between the exchange and the drain takes away the row of the user the
  collect had read: `user_item` is None, the request fails with a TypeError at
  `genropy_worker.py:463`, and all the exchange retired is lost, table events
  included (`CollectFindsNoUser` of the mailbox, `CollectFails` of the road).
* A ping whose later child is refused at its exchange fails as a whole: the
  batches it had drained for the page and the earlier children are lost
  (`siteregister_client.py:973-979`; only KeyError is caught).
* A change captured between the two lines of `drain` (`legacy_bag.py:174`) is
  lost: the site's writer holds no lock of the row, though
  `docs/internal/datachanges.md:26-27` says every access takes it.
* `drop_connection` and `drop_user` remove folders after the lock
  (`genropy_worker.py:937`, `:950`): a connection born again in between loses the
  folder it is using.
* A request still running on a page that another has dropped writes the page's
  folder after the drop has removed it (`genropy_worker.py:920`), and nothing in
  this repository removes it then. `FoldersHaveRows` exempts the folders made when
  their row had gone.
* `_filter_items` takes a page for each term of `a:x AND b:y` that matches it
  (`siteregister_client.py:1320-1334`), so the answer is the pages that match any
  term, where the grammar's AND (`:1292`) says all. `BroadcastStaysWithin` holds
  the code to "any", not to "all".
* `new_page` reads its connection's user without the lock: when the connection
  is dropped in between the page brings the connection row back.
* `_flag_running_batch` compares `timedelta.seconds`, which starts again every
  day: a flag nobody has cleared for a day reads as running.
* A subscribe returns before its own worker's filter has the table, so a commit
  in the same request can be filtered out (`siteregister_client.py:1009-1010`
  says the reply refreshes the filter; `genropy_worker.py:752-754` says it does
  not).
* Of two collects of a page, the later to exchange can drain the row first: an
  older change then comes in a later batch. Arrival order is a property of a
  batch (`BatchInArrivalOrder`), not of the sequence of batches.
* `replace` coalesces on its own road only: a key pending on the row and replaced
  through the desk reaches the browser twice.
* Two siblings apply the user-store writes they retired in the order they get
  the lock, so the older value can stay in the Bag.
* While a view is re-attached, a change deposited in the old view after the loop
  has read it is lost, and a write to the new Bag before the new view is attached
  is not captured. `data` on a user's row keeps naming the Bag of before a swap.
* Two first callers of `item_locks` can each make a dictionary, and then both
  hold one item; one that finds the dictionary before the mutex gets a KeyError.
  `OneHolder` and `CountIsDepth` say "with one dictionary" for that reason.
* `docs/faq.rst:55` and `docs/internal/pool-internals.rst:25` describe a replica
  of the global store in each worker; the code has none, every read is a CALL.
  The docstring of `on_datachange` says the verb raises on `filed: False`; the
  worker reports it.

## 6. What is proved

For every value of the constants:

* `IndexInvariant`: `CallSpec => []IndexInv` of `IndexCalls`. `IndexInv` (types, no empty entry,
  the two directions one relation) is inductive as it stands. The lemmas of
  `SubscriptionIndexProofs` say that `subscribe`, `unsubscribe` and
  `index_drop_pages` each preserve it, once, for every module that uses them.
* `IndexRefinement`: `IndexCalls` implements `TableInterest` under the mapping
  that reads the relation off `page_tables`. The step needs `IndexInv`: only
  when the two directions agree does "the key was deleted" mean "the last
  subscriber has gone".
* `FilterTypeCorrect` and `NoTransitionMissed` for the source filter.
  `NoMissedTransition` is inductive together with the types and `IndexInv`: a
  task that runs sends the set as it is *then*, so when the last task has run
  the last push carries the present set; a worker is born with a task of its
  own; and an operation that moves the set adds a task for each living worker,
  while one that reports no move leaves the set as it was. That last fact is the
  index's (`CreatesIsMove`, `DeletesIsMove`), and is why `IndexInv` is needed.
* `DeskTypeCorrect`, `QueuesAlwaysOwned`, `DepartureCorrect` for the desk. The
  type invariant carries `Rooted`: every page's connection and every
  connection's user is known, so that dropping a user reaches every page of
  his. `QueuesHaveOwners` is inductive with it: `on_datachange` asks before it
  files, and the drops remove queues with their owners. `DepartureIsComplete`
  is a step property that follows from what a drop of pages does to the desk.

* `LocksTypeOK`, `LocksOneHolder`, `LocksCountIsDepth` and
  `LocksEachCreatesOnce` for the item locks. One holder is not inductive by
  itself: `LocksInv` adds that who is inside an item is whom its lock names, that
  the count on an item is the depth of its holder in it, and which steps of an
  enter know that a dictionary exists. `EachCreatesOnce` counts what each thread
  has made: one that is about to make the dictionary has made none before,
  because once one is there `item_locks` returns it.
* For the registers, three invariants in turn. `RowsInv` (`RegistersTypeOK`,
  `ChainsAreWhole`): rows are whole chains only while the lock
  is free, so the invariant says what is true in the middle of a demolition: one
  thread demolishes at most, a link may be missing only at a row that is still
  on its list, and nothing that stays hangs from what goes. `FoldersInv`
  (`NoFolderIsLeft`, and the action property `FoldersAreSpared`) adds that each
  folder has a row, awake or asleep, or a removal that is still to come, or was
  made too late, and
  that a row on a demolition's list sleeps or has its folder on the list too.
  `ReadsInv` (`NoPageIsMissed`, `BroadcastIsWithin`) says of each stage of a read
  without the lock what it has in hand: a page that has matched all along is in
  the answer or among the keys still to look at, and a page in the answer has
  matched at some time. It rests on one fact of the rows: a page once opened
  never changes connection, and never comes back once dropped.
* For the road of a table event, `RoadInv`, and from it `RoadTypeOK`,
  `DepositsDeliveredOnce`, `OwedIsNeverLost`, `HiddenNeverLeaves` and
  `WakeIsFaithful`. Its parts: `Control` and `Announced`, what a request can hold
  and announce at each step (only a collect holds a reply; a birth is the first
  of the events and is of the request's own page; a page whose drop is announced
  never lives again); `OnePlace`, which strengthens `DeliveredOnce` over the
  slots, the own deposits and the replies of every pair of requests, without
  which an exchange could file what another has in hand; `Owing`, which adds to
  `OwedIsOnItsWay` that who is owed a deposit still in a slot is in the index,
  so that filing it reaches him, and that the claims of the pages asleep are
  kept too, since a page wakes with its past (a failing collect gives up its
  page's claims on its own reply, and `OnePlace` says nobody else has it in hand
  for that page); `Sleeping`, that each wake has one
  birth still to be folded, and that it carries the tables slept with to a desk
  that has none.

  What filing a slot does to the queues (`Filing`) is proved by induction over
  the deposits. The library's induction theorems take an operator, which the
  provers here cannot instantiate, so `NaturalsFrom` states induction on a *set*
  of naturals, from the well-foundedness of <; the loop being a recursive
  function, its existence (`LoopRuns`) and its effect are two uses of it. The
  loops of the mailbox, of a block and of a re-attachment are proved the same way.
* For the global store, `StoreInv`, and from it `StoreTypeOK` and
  `StoreRefinement`: every operation and every block is one step of
  `AtomicStore`, or none. The refinement mapping reads the dictionary as the site
  does, each date brought back from the wire. What makes it hold is that a turn
  in force excludes every writer, so what it read is still so when it writes:
  `KeyedIsFresh` says it of the one key of a keyed turn, `TurnIsFresh` of a
  block, whose private copy is what its log makes of the dictionary as it still
  is (`Passes`, the dictionaries the operations go through; `Ran`, each entry
  answered by the one it found). Closing the block is then one abstract step
  with that log.
* For the mailbox, `MailInv`, and from it `MailboxTypeOK`, `BatchesInOrder` and
  `DeliveredOnce`. `MailDeliveredOnce` alone is not inductive: `Apart` adds that
  the three queues of a page have no change in common and that no two requests
  hold the same one; `AllInOrder`, that every queue, reply and batch rises in its
  stamps and has none from after the clock, without which a new change could
  repeat an old one and a merge could come out of order. Each action is shown to
  move the mail of a page within one pool: what waited, what its own request
  held, and stamps not used before (`Parted`, `StaysApart`, `StepKeeps`). What
  `Merged` and `Kept` compute is proved by induction on their loops. The action
  properties `NothingIsLost`, `AppliedWritesAreSeen` and `RetiredWritesAreApplied`
  follow step by step from the same invariant: a step of a collect takes mail or
  a store write from one place and puts it in another, or it is the step in which
  its request fails.
* For the views, three invariants in turn. `ViewInv` (`ViewsAreOnTheStore`) says
  where each view is at every line of a re-attachment and of a drain: one thread
  holds the lock; a view is attached unless it is in hand, on the present Bag
  unless it is due in the loop, and nothing else is attached but the view being
  fed. `OnceInv` (`ChangesComeOnce`) adds where each write is: on its way to one
  view of a page at most and to none that has had it, and what was fed to a new
  view has left the part of the old list still to be read. It holds however the
  writes overlap the rest. `AloneInv` (`ReadingIsWhole`) is about the behaviours
  in which no write has run beside another operation: what was captured is what
  was delivered and what is pending, all of the one before all of the other and
  both rising, and a drain or a re-attachment has in hand exactly the list it
  read.

Each inductive invariant was checked by TLC on the instance of its run before it
was proved. The loops of the models (`Kept`, `Merged`, the filing of a slot) are
recursive functions, and neither `SelectSeq` nor a sort, so that the prover can
reason about them.

Assumptions: only those the modules name. The bounds are natural numbers
(`MaxPushesAssumption`, `BoundsAssumption`, `DepositsAssumption`,
`LocksAssumption`): they appear in the guards, and the proofs do not use their
values (`DeskRefuses`, which says whether a CALL may be refused, is a Boolean);
`RegistersAssumption` that every page has a name and
that a filter has at least one of the two terms modelled; `NoThreadAssumption`
that the mark of a free turn is no thread; `MailboxAssumption` that there is a
user; `UserViewAssumption` that a worker's pages are finitely many, since a wake
rebuilds their views one after the other, and that there are two Bags at least.

Only model-checked: the liveness properties (`FilterConverges`,
`OwedIsDelivered`, `NobodyWaitsForever`, `EnterEnds`). Fairness and ENABLED are
outside what the prover does. Three of them rest on a proved invariant that says
what is still to happen: `NoMissedTransition` that a push is under way,
`OwedIsOnItsWay` that a deposit is somewhere a collect can reach,
`StoreInvariant` that the waiters are in the queue.

## 7. Abstractions

* Values, attributes, reasons and wording of a change; the numbering
  `change_idx`, which a collect writes afresh; TYTX and XML encodings, except
  dates in the global store.
* Kinds of address other than a page and a user's store: `filters` and the
  STATE kinds no branch files are refused before anything changes.
* The local Bag of the global store before a worker is attached.
* The clocks of a row (`_local_refresh`, `refresh`): they feed the freeze valve,
  which is the core's; here a freeze may happen whenever its user is quiet.
* The pages of `PageMailbox` are born before the behaviour begins; its login is
  the one that conserves the guest's Bag. What a login does to the views, and
  the other kind, is `UserView`'s; to the rows, `Registers`'.

## 8. Not modelled

* `spa/site_engine_factory.py`, `spa/genropy_spa_application.py` and the
  worker's `_create_site` and WSGI bridge: they build objects at the start and
  convert one request to the site's form; no state is shared between requests.
* `spa/config.py` and `spa/cli.py`: parsing of options and files, start of
  processes.
* `proxy/genropy_proxy.py`: a pass-through with no state.
* `siteregister/siteregister.py`, `handler.py`, `service.py`, `processes.py`,
  `exceptions.py`: names kept so that GenroPy's imports resolve.
* In `siteregister_client.py`: the clocks, the running-batch flag, the dressing
  of rows and changes for the legacy site, and the constant answers to the
  daemon's maintenance calls.
* The core library (genro-asgi) is outside the repository and appears only as
  external definitions: its lane, its population maps, the freezer, the global
  dictionary's lock.

## 9. Plan

Done: every part of section 1 that has state is modelled, and every invariant,
action property and refinement the runs check is proved. What stays as it is:

* liveness, which the prover does not reach (section 6);
* three hazards with no property, because what the code does there is a choice
  and not a promise: `replace` across the two roads, the order in which siblings
  apply the store writes they retired, and the `data` alias after a swap
  (section 5 says what happens in each);
* the parts of section 8.

When the code changes, the run of its component says whether the model still
holds, and the proof of the action that models the changed lines is the one to
look at first: each proof of preservation has one lemma or step per action.
