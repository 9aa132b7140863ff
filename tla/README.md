# Aisle Flow: a TLA+ verification development

Aisle Flow is a shared shopping list for a household: a Go server over
PostgreSQL, and a React client that is to work in a store without reception.
This directory models its core in TLA+, checks the models with TLC and proves
theorems about them with TLAPS. Paths below are relative to `src/`.

## Inventory

| Part | State | Operations | Meets |
|---|---|---|---|
| Store (`backend/internal/store`) | tables `lists`, `items` | list, create or revive, update, delete items; list, create, rename, delete lists | PostgreSQL's locks and constraints |
| Ordering (`store/position.go`) | column `position` | midpoint, renormalize | called inside `Update` |
| Schema (`db/migrations`) | constraints | unique names, keys, cascade, the note CHECK | decides races between transactions |
| HTTP handlers (`backend/internal/api`) | none | one per route; decode, call the store, map errors | the client's `request()` |
| Request wrapper (`frontend/src/api/client.ts`) | `onlineManager`, `probeTimer` | `request`, `markOffline`, the probe | browser events, the queue |
| Mutation queue (`api/queryClient.ts`) | pending mutations of one scope | tap, run, pause, retry, resume, settle | cache, storage, server |
| Query cache (`api/queryClient.ts`, `api/hooks.ts`) | items of a list, lists, snapshots, refetches | optimistic write, rollback, poll, invalidate | queue, worker |
| Persistence (`App.tsx`) | local storage | throttled write, restore, resume | queue, cache |
| Service worker (`vite.config.ts`) | copies of GET answers | network first, then the copy | refetches |
| Display order (`api/sort.ts`), reorder plan (`api/reorder.ts`) | none | sort and split, neighbours of a drop | mirrors of the server |
| Screens (`ShoppingList`, `AddItemBar`, `UncheckedList`) | the edits they send | add, toggle, convert, delete, drop | queue, cache |
| Navigation (`ListScreen`, `RootRedirect`, `TopBar`) | route, last list, a 250 ms timer, a dialog | redirect, navigate, create, rename, delete | lists cache |
| Row gestures (`useRowSwipe.ts`, `ItemRow`) | one gesture, revealed side | pointer events, clicks, keys | edits |
| Server process, embedded files, app update, tooling | none that matters here | | |

What is hard in it:

- Positions are doubles between neighbours. Gaps run out, hidden rows keep their
  slots, and a renormalization rewrites them all in the middle of a request.
- Two household members press buttons at once. The code relies on `FOR UPDATE`,
  on unique indexes and on foreign keys under READ COMMITTED, each statement
  with its own snapshot.
- The tab's edits go through a queue with retries, pauses, hidden tabs, an
  online flag that the app overrides, and a storage that sees only part of it.
- The cache is written by optimistic edits, rollbacks, polls, refetches and
  copies of old answers, in any order, and the screens navigate on what it says.
- What a tab shows is computed in it a second time, by code that has to agree
  with the server's, and is replayed on tables that others have changed.
- Pointers come down, move and go in any order, and a click may follow or not.

What makes each part correct:

- *Store*: names are unique in a list, no item is orphaned, a list is left, a
  note is never checked; a drop lands where it was dropped, a new item comes
  last, nothing else moves, no body that the client could build is answered with
  500.
- *Concurrent lists and items*: the same under interleaving; the outcome is that
  of requests served one at a time; somebody can always go on.
- *Queue*: edits are served in the order of their taps; no wake-up is missed; an
  offline tab finds out; every edit ends.
- *Cache*: once quiet it shows the server's list; it reconciles after the tab has
  been offline, and whenever a refetch comes by.
- *Tabs together*: what is shown at once is what will be answered; a replay does
  no harm; nothing is refused without a reason; tabs that refetch come to agree.
- *Navigation*: a new list is not mistaken for a missing one; the tab ends on a
  list that exists.
- *Gestures*: the row rests where it is open, does what it shows, and no swipe
  ends as a tap.

## Modules

| Module | Models | State |
|---|---|---|
| `Position` | `position.go` on a fixed-point grid | operators |
| `StoreOps` | each store method as a function of the tables | operators |
| `Store` | the mutating routes, one action each, alone | `items`, `lists` |
| `Reorder` | a drag, from the drop to the order served: `sort.ts`, `reorder.ts`, `UncheckedList` | as `Store` |
| `ListRegistry` | what the lists endpoints promise (abstract) | `names` |
| `ListTxn` | lists methods and the foreign-key side of an add, statement by statement | tables, row locks, statements |
| `ItemTxn` | items methods with the reorder, statement by statement | rows, row locks, statements |
| `Outbox` | what the app relies on its queue for (abstract) | `accepted`, `pending`, `arrived`, `lost` |
| `MutationQueue` | queue, request wrapper, probe, persistence of one tab | see below |
| `ListView` | cache, refetches, worker copy, server version | adds `shown`, `served`, ... |
| `Sync` | several tabs that edit one list: screens, patch functions, store | see below |
| `Navigation` | route, screens, menus, dialogs, lists cache | see below |
| `RowSwipe` | `useRowSwipe` and the handlers of `ItemRow` | see below |
| `MCStore`, `MCListTxn`, `MCItemTxn`, `MCQueue`, `MCView`, `MCSync`, `MCNavigation`, `MCSwipe` | instances for TLC | |
| `PositionProofs`, `StoreProofs`, `ListTxnProofs`, `ItemTxnProofs`, `ListViewProofs`, `SyncProofs`, `NavigationProofs`, `RowSwipeProofs` | theorems | |

`Reorder` extends `Store` extends `StoreOps` extends `Position`; `ItemTxn` and
`Sync` extend `StoreOps`; `ListView` extends `MutationQueue`. `ListTxn` implements
`ListRegistry` and `MutationQueue` implements `Outbox` under refinement mappings.

### Store

A table is a function from ids to rows. Positions are integers on a grid:
`MinPositionGap` grid units stand for 1e-6 and `PositionGap` for 1024. A midpoint
between two grid points is rounded down. Names are case-folded names, since
citext compares them so; ids are naturals, since uuids are ordered; `created_at`
is a counter. The inputs are the bodies the handlers let through. `Patch` is the
set of PATCH bodies; the runs take names, checks, notes and every pair of
neighbours (`Edited`), the proofs any set of bodies.

### Reorder

`Shown` is the unchecked section as `splitItems` sorts it, `Served` as `ListItems`
answers it. `PlanReorder` turns a drop into the neighbours for the PATCH and the
guess for the cache, which counts in halves of a grid unit because the client
does not round. `ShownAtOnce` is the section after the write to the cache,
`Answer` what the PATCH does. The client breaks ties by comparing creation times
as texts, and Go prints them without trailing zeros, so two rows that tie and
were created in one second may be shown in another order than they are served
(`Printed`); the rows of the model are all created in one second. `DropIsServed`
therefore speaks of lists shown in the order served. Where doubles run out of
midpoints the guess may tie as well; the model's guess is exact. The properties
are about every drop in every state that any bodies lead to.

### ListTxn

`Begin` takes the snapshot of the first statement and the actions after it are
the statements, with a wait for every lock they take. `LockNext` is one row of
`SELECT ... FOR UPDATE` in scan order; `heap` is that order, and a commit puts a
written row version anywhere in it. `Lockers` and `NameWriters` say whom a
statement waits for, and `Abort` is the deadlock detector. `CheckList` is the
foreign-key check of the insert in `CreateOrRevive`. A rename to the very name a
list has takes a weaker lock in PostgreSQL; the model takes the stronger one.

### ItemTxn

The same for the items of one list, which itself stays. `todo` are the rows that
a transaction's statements have still to lock, `seen` the rows it has read under
lock, `written` its uncommitted row versions, and `snap` the table from which a
statement has computed positions before it waited: the `MAX(position)` of an add
and the `row_number()` of a renormalization are those of the statement's
snapshot and are not computed again. `Renormalizes` is the start of that UPDATE,
which writes the rows its transaction holds and then meets the others in any
order (`RenormalizeRow`), taking each as it is by then and skipping one that is
gone. `Insert` waits for whoever is writing the name and then inserts or runs
into the row; `SelectHolder` and `Revive` are the statements after the conflict,
and find nothing if the row was deleted or renamed. `Write` and `TakeName` are
the two halves of the UPDATE: the row version, then the unique index. A delete
is one statement and commits by itself. The id of a new item is fresh, so the
transaction's number stands for it.

### MutationQueue

| Model | Code |
|---|---|
| `Tap` | `mutate()` of the hooks in `hooks.ts`, with `onMutate`, which only awaits microtasks |
| `Serve` | the server serves the request or answers an error |
| `Answer` | `request()` returns, throws an `ApiError`, or fails while it reads the body |
| `Fail`, `ReadFails` | `fetch` rejects: `markOffline` and a `NetworkError`, which mutations retry and queries do not |
| `Wake` | the retry delay is over: run, or pause when offline or hidden |
| `Settle` | `onSettled` has run, the next mutation of the scope is told |
| `LinkChanges`, `ProbeAnswered` | the browser's events and the health probe, with the resume they cause |
| `Hide`, `Show` | visibility; coming into view resumes |
| `Persist`, `Reload` | the persister's write of the paused mutations; a new page with its seed, restore and resume |

`phase` is how far an edit has come: `sent`, `answered`, `sleeping` and
`settling` are running, `parked` is paused with its retryer, `restored` paused
without. The library that runs the queue, TanStack Query, is modelled as the app
relies on it and marked external. The queue is the set of its edits, an edit is
the number of its tap: the scope, the storage and the restore keep that order.
A request that fails was served before it failed or never, and so was one the
page dies with. The link is `up`, `dead` (the browser takes it for a working one)
or `off`.

### ListView

A version of the list is the set of edits it has. Edits are independent of each
other and nobody else edits. `previous` holds the snapshots that `onMutate`
returned, per page; a drop (`Reorders`) writes before its mutation is made, so
its snapshot has the drop already. `fetching` is the list's one query: cancelled by a
tap, begun anew by an invalidate. `polling` says that the interval of the poll is
set. `refetchInterval` is a function, which TanStack Query calls when the query
updates or `ShoppingList`, which holds it, renders (`Evaluated`), and at no other
time. The refetch that `onSettled` awaits lands while its mutation still counts,
which clears the interval; when the mutation then settles, `ShoppingList` renders
if it observes it (`Watched`: checks, conversions and deletes), but not if
`AddItemBar` or `UncheckedList` do. `Render` is a render for another reason. A
drag may be under way at any evaluation, so that setting the interval is never
certain. `due` is the refetch that a focus, a reconnect or the restore has still
to make, once the mutations that it resumed have ended (`Recheck`). What
`PersistShown` stores matters only to a reload that the bound still allows. `copy`
is the worker's copy, and there may be none. `dead` stands also for a link so slow that the worker's three seconds run
out, which the browser cannot tell from a dead one; `FetchFails` is a GET
without a copy to fall back on.

### Sync

What `ListView` leaves out: the contents of edits and several tabs. `Edits` of a
tab are what `AddItemBar`, `ShoppingList` and `UncheckedList` send for the rows
the tab shows; `addItem`, `updateItem` and `deleteItem` are the patches that
`onMutate` applies to the cache; `Serve` is the store method applied to the
table as it is by then. An answer may be lost after it was served
(`AnswerLost`), and the request is sent again. The refetch that a mutation awaits
reads the server (`Fetch`) and lands with the settling (`Settle`), two steps
between which other tabs are served; an edit in between cancels it. Any other
refetch is one step: whatever writes the tab's cache cancels it, so nothing of
the tab comes between, and it may as well have landed when it was answered.
`merged` are the ids whose add the server resolved to another row of that name:
until the refetch lands the tab shows, and its edits name, an id that the server
does not have, which DESIGN.md:588 accepts.

### Navigation

The tab is online and requests are slow; answers and refetches may be lost, and
other clients create and delete lists. A mutation is made and its caller
navigates at once, but `onMutate` writes to the cache in a microtask: `landing`
says that it has not. `ListScreen`'s timer outlasts microtasks, which is what
`Debounced` says. `fetching` distinguishes a refetch asked for from one that
carries an answer. `alone`, `asked` and `heard` are history: the lists that were
created with an empty queue, and whether the server has had its say on them.

### RowSwipe

Positions are `clientX` in units of a few pixels, a pointer is released where it
last moved to, and whether a move is steeper than wide is a choice. A touch is
captured by the row it came down on, a mouse only once it swipes, so before that
it may be released where the row does not see it (`ReleaseElsewhere`). The
branches of `finish` are actions of their own. `onClickCapture` is the click that
may follow a release; `crossed` is history: a press began before the hook saw
the last one end.

## Runs

| Run | Question | Result |
|---|---|---|
| `store_order` | Do drops land, new items come last, sections keep their order, on a list of three with every gap exhausted again and again? Is a drag served, and before that shown, where the user dropped it? Does any body that does not name one row as both neighbours answer 500? | holds, and none does |
| `store_lists` | Do two lists keep the schema's relations, apart from each other? | holds |
| `store_slots` | Does a renormalization keep the slots of checked items, as DESIGN.md says? | **no** |
| `list_txn` | Three concurrent requests on lists: relations, atomicity, no deadlock of deletes and adds, somebody can always go on, and is it the registry? | holds |
| `item_txn` | Three concurrent requests on the items of a list without room: does each end as if it had run alone, do drops land, can somebody always go on? | holds, but for what `EndsAsIfAlone` excepts |
| `queue` | Are edits served in order, no wake-up missed, no probe forgotten, does every edit end, and is it the outbox? | holds |
| `queue_survives` | Does a queued edit survive a reload? | **not always** |
| `view` | Does the list show the truth when nothing is pending, and come to show it after a break and a reload? | holds; the second if the tab knew it was offline, or goes on refetching |
| `view_offline` | Does what is queued stay on the screen offline? | **not always** |
| `sync` | Do two tabs show what will be answered, replay without harm, get refusals only for a reason, and come to agree? | holds; those agree that refetch, and whoever was served last |
| `navigation` | Do the lists come to rest true, are new lists left alone, and does the tab end on a list of its menu? | holds; the menu is the server's undisturbed, or if the tab goes on refetching |
| `swipe` | Does the row rest where it is open, do what it shows, and never take a swipe for a tap? | holds |

The three disagreements:

1. `renormalize` orders by `checked` first, so checked items lose the slots they
   retained (`position.go:109` against DESIGN.md:134 and the comment at
   `position.go:103`).
2. A queued edit leaves the storage when its replay begins, and dies with a
   page that closes before the request is out (`queryClient.ts:86`).
3. A rollback restores a snapshot that lacks the edits tapped since. When that
   happens while the tab goes offline, no refetch repairs it and a queued edit is
   gone from the screen (`queryClient.ts:139` against `queryClient.ts:111`). The
   edit itself stays queued.

What the models show besides, each a conjunct that a property needs to hold:

- A row dropped between two rows that tie gets their position as a guess and is
  shown where its creation time puts it until the server, which renormalizes,
  has answered (`reorder.ts:31` against `sort.ts:5` and DESIGN.md:327).
- A renormalization that waits for a row numbers it by its snapshot, and so
  overwrites a reorder committed meanwhile (`position.go:103` says the relative
  order is preserved; DESIGN.md:160 accepts that the last write wins). Two
  adds at once take the same position, and their creation times order them.
  Without its condition on `snap`, TLC refutes `EndsAsIfAlone` with both.
- An add that runs into a row which is then deleted or renamed is answered 404.
  `items.go:84` expects the client to try again, but `queryClient.ts` retries
  nothing that the server answered.
- `DeleteList` counts a snapshot, so it may refuse the delete of a list that is
  no longer the only one (`lists.go:78` against DESIGN.md:275). It errs on the
  safe side: that a list is left is proved.
- A create that is in flight when the page dies is forgotten, while the adds
  paused behind it were persisted and are replayed (DESIGN.md:589). A replayed
  create of a list whose answer was lost is answered 409.
- Follow-up edits of an add that the server resolved to another row are
  answered 404 until the refetch has landed (`merged` in `RefusedForAReason`).
- A new list whose create waits behind another mutation is left by a refetch on
  focus, as "List not found": `OnlyServerUnlists` speaks of lists created with
  nothing queued (DESIGN.md:298, `ListScreen.tsx:36`).
- After an add or a drop the poll stays off: the awaited refetch has cleared its
  interval (`hooks.ts:41`), and nothing evaluates it again before a focus, a
  reconnect, a render of `ShoppingList` or an edit that it observes. What other
  tabs change meanwhile, or a stale copy that the worker answered on a slow link,
  stays on the screen, although DESIGN.md:160 counts on the polling loop to
  reconcile clients within seconds. `Reconciles`, `Converge` and `SettlesOnList`
  hold only with the premise that refetches come by. `refetchOnReconnect` alone
  brings back a tab that has taken itself for offline.
- The interval is not evaluated when the tab goes offline either, so it may fire
  once more there, with what the worker's copy holds (`hooks.ts:28`).
- A swipe that no click follows leaves its flag, and the next tap on the
  checkbox is swallowed (`useRowSwipe.ts:92`); `SwipeNeverToggles` has only the
  other direction.

### Bounds

- `store_*`: three items, `PositionGap = 2`, `MinPositionGap = 1`. A gap
  is exhausted after one midpoint, so renormalization happens in a few steps
  where it takes some thirty drops in the program. `Positions` and `Times` bound
  the window of positions and creation times; it holds several fresh gaps.
  `store_order` hands out uuids in the order of creation (`SpecByAge`): creation
  times are distinct and uuids only break their ties, so nothing is lost but
  other names of the rows, and its window goes two fresh gaps up and two down
  from the first row. The proofs cover every gap and any number of rows.
- `list_txn`: two seeded lists, three names, three transactions. Two deletes and
  a third request that creates, renames or adds is what the races of
  `DeleteList` take; names suffice for a conflict, a swap and a free name.
- `item_txn`: four items whose third was dragged between the first two, so that
  no room is left there, checked since or not; three transactions, each one of
  nine requests that share rows and names: a renormalization, a change behind
  its back, and one more. A list with more rows would only be longer.
- `queue`: three edits give one that runs, one that waits and one behind it.
  Two breaks let the link fail again after a recovery; a reload may come at any
  point and a hidden tab too. The proofs cover any numbers. The violation runs
  need less.
- `view`: two edits, one a drag, one break, one reload, one hiding: an edit with
  its rollback and its refetches, and another that is tapped at any point of it.
  `QuietShowsServed` speaks of the states before a break, with reloads and without.
- `sync`: two tabs with two and one edits, five ids, two names and one answer
  lost: an edit that follows another of the same row, across one of the other
  tab. `PositionGap` is large enough for the client's midpoints to be exact.
- `navigation`: three list ids, two of which may exist when the page opens, two
  edits here, one elsewhere, one loss: a create with a delete or rename behind
  it while the lists change under it.
- `swipe`: a touch and a mouse, five positions, thresholds of one, two and three
  units: every branch of `finish` from every rest, and crossed presses.
- Deadlock is not checked where the bounds let a model stop; `navigation` and
  `swipe` never stop.

### Fairness

- `Store`, `ListTxn`, `ItemTxn`, `RowSwipe`: none. Whether requests come to an
  end is stated without it: some transaction can take a step whenever one is
  unanswered (`OneCanAlwaysStep`), and every step brings its transaction nearer
  its end and no other one farther from it (`TransactionsEnd`), so that nobody
  waits forever in a server that runs what it has begun. Both are proved.
- `MutationQueue`: an edit's own next step is fair (requests end, timers fire,
  callbacks run), and so is the probe, an interval. Taps, links, visibility,
  persisting and reloads are not. The properties assume that the link stays up
  and the tab in view from some time on, which nothing in the code brings about.
  What is left of `EveryEditEnds` without fairness is proved: on such a link no
  edit falls back (`EditsOnlyAdvance`), and the first of the queue is under way
  or the probe is running (`QueueGoesOn`).
- `ListView`: also fetches end, and the refetch that a focus, a reconnect or the
  restore has to make is made when the queue has run dry. No poll is assumed,
  and no render: nothing sees to it that the interval is set. `Reconciles` has
  the premises that the code does not bring about: the link stays up and the tab
  in view, and either the tab had taken itself for offline, or refetches go on.
- `Sync`, `Navigation`: requests and refetches end, microtasks and effects run,
  timers fire. Edits, focus, losses and other clients are not fair, and
  bounded; nor is the poll, for the reason given for `ListView`. `Converge`
  therefore says two things: the queues run dry, with the tab that was served
  last showing the server's list; and so does every tab that refetches when it
  is behind (`WF_vars(Refetch(c))` is a premise of the property, not of the
  specification). `SettlesOnList` is split in the same way. That the mutations
  of `Sync` run out is proved (`MutationsAreFinite`).

## Proofs

All for every value of the constants under the named assumptions of the modules:
`GapAssumption` (a fresh gap can be halved once), `StoreAssumption`,
`ListTxnAssumption`, `ItemTxnAssumption`, `QueueAssumption`, `ReordersAssumption`,
`SyncAssumption` (the list meets the schema's promises when the tabs open),
`NavigationAssumption`, `SwipeAssumption`.

- `PositionProofs`: `row_number()` is strictly monotone along the canonical
  order, so `Renormalize` spreads a list by at least `PositionGap` and keeps the
  order of the rows of equal status; a midpoint in such a gap is not too close;
  so `computePosition` never fails after its one renormalization. That there is a
  largest position in a finite table is proved from the finiteness of its subsets.
  `Ordered` sorts a set by rank, the number of elements before one: ranks of a
  strict total order on a finite set are distinct and fill `1 .. n`, so the sorted
  sequence exists, is unique and rises (`OrderedFacts`, `OrderedIsUnique`), and one
  element taken out of it and put in elsewhere leaves the others in order
  (`MovedOrder`, about `arrayMove`). Then what each store method leaves of a
  table, and that it keeps the schema; `StoreProofs`, `ItemTxnProofs` and
  `SyncProofs` build on that.
- `StoreProofs`: `TypeCorrect`, `SchemaHolds`, `NeverInternal`,
  `DroppedRowsLand`, `NewItemsGoLast`, `ListsAreIsolated`,
  `SectionOrderIsKept`. The inductive invariant is `TypeOK`, finiteness of the
  tables and `SchemaOK`; the properties of requests follow from it by the lemmas
  on the operators. So do those of drags, `DropsAreServed` and `DropsAreShown`,
  for a list of any length: the rows other than the dragged one keep their order
  under a renormalization and under the client's guess alike, the dragged row
  lies between its new neighbours, and a set has only one sequence in an order.
- `ListTxnProofs`: `TypeCorrect`, `ListAlwaysSurvives`, `NoOrphanedItems`,
  `OneDeleteIsDone`, `DeletesGoThrough`, `NeverAllWait`, `OneCanAlwaysStep`,
  `TransactionsEnd`, `ListsAreARegistry`. The inductive invariant adds what
  holding a lock is worth: rows that a `DeleteList` has counted are present and
  its own until it ends (`CountedIsHeld`), a writer holds its row and a delete
  counted another one (`WriterHoldsRow`), `FOR UPDATE` excludes `FOR KEY SHARE`
  (`UpdateExcludesShare`). Without the first, two deletes could each count the
  row the other one is about to delete. For the refinement `SerialInv` adds what
  the unique index is worth: whoever is about to commit a name has it to himself
  (`NameIsTaken`), and a deleted list does not come back (`GoneForGood`). For
  waiting, `WaitInv` says that who holds a row is running, that the scan meets
  every row once, and that a delete holds a prefix of the scan (`LocksInOrder`).
  Of deletes and adds, whoever waits for a row waits for a transaction that is
  further in the scan or about to commit, so nobody waits for himself through
  others (`DeletesGoThrough`). With writers there are deadlocks; but
  transactions wait for running ones only, so if all of them wait, one waits for
  itself through others (`WaitGraph`: it is in a smallest set that waits only
  for itself), and is aborted. `NeverAllWait` states that as `SomeoneIsFree`.
  `CanStep` writes out the guards of a transaction's next statement, and
  `OneCanAlwaysStep` adds that they hold: what a statement chooses from is never
  empty, the order in which a commit leaves the heap included (`CommitHasHeap`).
  `StepsLeft` counts the rows a scan has still to meet and the statements behind
  it; `TransactionsEnd` says that each step lowers that of one transaction and
  leaves the others'.
- `ItemTxnProofs`: `TypeCorrect`, `NamesStayUnique`, `DropsLand`,
  `EndAsIfAlone`, `NeverAllWait`, `OneCanAlwaysStep` and `TransactionsEnd` (as
  for lists; a renormalization meets every row once), for any number of requests
  on a list of any length. The inductive invariant (`IInv`) says what a row lock
  is worth: what an update has read under it is still committed but for the
  position a renormalization gave it (`ReadIsHeld`), the rows a reorder names
  are read or still to be (`NamedAreRead`), the other rows it writes only get
  the numbers of its snapshot (`OthersRenumbered`), all of those that remain
  (`AllRenumbered`), and it does so for want of room (`WantOfRoom`). It says
  what the unique index is worth: names are unique (`NamesUnique`) and one that
  is about to be committed is nobody else's (`NameIsTaken`); without the second,
  a commit could end the first. Steps of others are shown to keep what a
  transaction holds, then each statement to establish what the next one needs.
  `DropsLand` then follows from `PositionProofs`; for `EndAsIfAlone` each ending
  step is compared with the store method, alone, on the table of that moment.
  `IInv` was model-checked on `MCItemTxn`'s instance before it was proved.
- `ListViewProofs`, of the queue: `TypeCorrect`, `EditsServedInOrder`,
  `QueueNeverStalls`, `OfflineIsWatched`, `QueueIsOutbox`, `EditsOnlyAdvance`,
  `QueueGoesOn`. `ServedInOrder` leans on `RunningIsFirst` (what runs is the
  first of the queue), `TapsInOrder` and `AnsweredArrived`; for reloads it takes
  `DiskIsTapped`: the storage never brings back an edit that was lost. The
  measure of `EditsAdvance` falls from `sleeping` through `parked` and `sent` to
  `settled`. Of the cache: `ViewTypeCorrect` (with it that no interval is set
  while a mutation is pending), `QuietShowsTheTruth`. The
  invariant says that on an unbroken link a refetch which was asked for after
  the last edit was served carries the truth (`RefetchIsTrue`), since every tap
  cancels it, every answer begins another and a new page begins with one. Every
  step of the view is a step of the queue or leaves it alone
  (`ViewStepIsQueueStep`), so that what is proved of the queue holds of the
  whole: `ViewKeepsQueue`, `ViewIsOutbox`.
- `SyncProofs`: `TypeCorrect`, `ShowsAsStored`, `PatchesMirrorServer`,
  `ReplaysAreHarmless`, `RefusalsHaveAReason`, `TabsSendWellFormed`,
  `MutationsAreFinite`, for any number of tabs, edits, rows and lost answers.
  The inductive invariant has five parts.
  `Typed`: every table, cache and snapshot meets the schema's promises and every
  queued edit is one a screen sends; that the patches keep the promises on a
  stale cache is `EditFacts`, that the server does is `StoredFacts`.
  `Carries`: so does the answer to an awaited refetch, and its rows are accounted
  for as those of the cache are.
  `AddsNamed`: all adds of an id, and the row under it, have one name, so that
  an add never meets its id under another name. `ServedAgain`: serving a
  mutation that was just served changes nothing, from idempotence of each method
  (`StoredTwice`; a drop computes the same position again because the row it
  moves is not among its neighbours). `Followed`: every row that a tab shows, a
  snapshot holds or an edit needs is on the server, was deleted or merged, or is
  added by an edit ahead in the same queue. Refusals follow: an update fails
  only for a row that is not there (`UpdateRefused`: there is always room, a
  note is never checked, a name that is kept is free), and no edit is served
  before the adds ahead of it. Every mutation takes four steps, and
  one more for each answer lost on the way, which bounds all that is to come
  (`StepsToCome`). What a tab sends never names a row as its own neighbour or
  one row as both, which `Store` and `ItemTxn` take for granted of the requests
  they enumerate. Most of these parts were model-checked on `MCSync`'s instance
  before they were proved.
- `NavigationProofs`: `TypeCorrect`, `QuietListsCorrect`, by the same argument
  for the lists (`Behind`, `Truth`), and `OnlyTheServerUnlists`. Its invariant
  follows a list created alone through the cache: the snapshots of later edits
  have it (`SnapshotsHaveIt`), and so has the cache (`CacheHasIt`) until a
  refetch that was asked for after it (`AskedLater`) brings the server's word.
- `RowSwipeProofs`: `TypeCorrect`, `RowComesToRest`, `SwipeShowsOneSide`,
  `SwipeIsNoTap`, `SwipeActsAsShown`, for any number of pointers, any screen and
  any thresholds.

The type invariants of `Store`, `ListTxn`, `ItemTxn` and `ListView` are proved and are not
checked by a run.

Only model-checked: liveness (`EveryEditEnds`, `Reconciles`, `Converge`,
`SettlesOnList`), which depends on fairness, and `SomeoneGoesOn`, which is about
ENABLED, both out of the prover's reach. `OneCanAlwaysStep` is `SomeoneGoesOn`
with the guards written out: TLC confirmed for both modules that `CanStep(t)` and
`ENABLED Step(t)` agree in every state of the runs' instances. Every other
property a run expects to hold is a theorem. What a recursive definition computes
for every input would take induction over data, which the prover cannot do; no module here that is
proved about has one.

## Not modelled

- `byName`, which orders the checked section by locale while citext folds case:
  no other state depends on it. The read-only routes change nothing; that
  `ListItems` tells an empty list from a missing one by a second statement can
  only make it answer an empty list for one just created.
- The persister's maximal age and buster, which throw the storage away; worker
  copies that are evicted.
- Fields of dialogs (`ListNameDialog.tsx:30` resets what was typed when the name
  it starts from changes), the flash of a duplicate, folded sections, dnd-kit's
  sensors, rendering, styling, logging.
- Malformed bodies, which reach no method; process start and shutdown; static
  files; the worker's update, which comes down to a `Reload`; down migrations.
- Transactions on items while their list is deleted: `ListTxn` has the add
  against the delete, and a cascade takes the same locks as the deletes of
  `ItemTxn`.
