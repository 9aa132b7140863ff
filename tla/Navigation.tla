----------------------------- MODULE Navigation -----------------------------
(***************************************************************************)
(* Which list the tab shows: the routes of App, the two screens ListScreen *)
(* and RootRedirect, the menus and dialogs of TopBar, and the collection   *)
(* of lists under the mutations that optimisticLists patches, rolls back   *)
(* and reconciles, against a server that other clients change.             *)
(*                                                                         *)
(* A list is its id; names only matter to the server, which may refuse one *)
(* that is taken.  The list cache is Unknown until it is first filled.     *)
(* The queue runs one mutation at a time, as MutationQueue shows; here the *)
(* tab is online, requests are slow, answers and refetches may be lost.    *)
(***************************************************************************)
EXTENDS Integers, FiniteSets, Sequences

CONSTANTS
  Lists,      \* list ids
  Old,        \* those that may exist when the page opens
  Root,       \* a path that is no list's
  Unknown,    \* undefined
  MaxEdits,   \* bound: how many lists are created, renamed or deleted here
  MaxForeign, \* bound: how many are created or deleted by others
  MaxLosses   \* bound: how many answers and refetches are lost

ASSUME NavigationAssumption ==
  /\ Old \subseteq Lists /\ Old # {}
  /\ Root \notin Lists /\ \A L \in SUBSET Lists : L # Unknown
  /\ {MaxEdits, MaxForeign, MaxLosses} \subseteq Nat

VARIABLES
  served,   \* the server's lists
  cached,   \* the query ['lists']
  fetching, \* "none", "asked" or "answered"
  carried,  \* the lists in the answer
  queue,    \* the mutations of the scope, with their snapshots
  stage,    \* of the first: "sent", "ok", "refused" or "settling"
  landing,  \* the last one has not run its onMutate
  route,    \* the path
  last,     \* LAST_LIST_KEY
  dialog,   \* the dialog of TopBar that is open
  used,     \* the ids that were ever given
  alone,    \* history: the lists created here while nothing was queued
  asked,    \* history: those of alone when the refetch was asked for
  heard,    \* history: those of alone that the server has had its say on
  edits, foreign, losses

lists   == <<served, cached, fetching, carried>>
sending == <<queue, stage, landing>>
screen  == <<route, last, dialog>>
history == <<used, alone, asked, heard>>
bounds  == <<edits, foreign, losses>>
vars    == <<lists, sending, screen, history, bounds>>

Loaded == IF cached = Unknown THEN {} ELSE cached

\* The page opens on any path, with or without a persisted cache, and mounts
\* the query.
Init ==
  /\ served \in (SUBSET Old) \ {{}}
  /\ cached = Unknown \/ cached \in SUBSET Old
  /\ fetching = "asked" /\ carried = {}
  /\ queue = <<>> /\ stage = "sent" /\ landing = FALSE
  /\ route \in Old \cup {Root} /\ last = route /\ dialog = "none"
  /\ used = Old /\ alone = {} /\ asked = {} /\ heard = {}
  /\ edits = 0 /\ foreign = 0 /\ losses = 0

-----------------------------------------------------------------------------
\* The query

\* A refetch that is under way is joined by another, or cancelled.
Ask == fetching' = "asked" /\ asked' = alone

AskOrJoin == IF fetching = "none" THEN Ask ELSE UNCHANGED <<fetching, asked>>

\* The poll, and the refetches on focus, on reconnect and when a restored page's
\* mutations have ended.
Refetch ==
  /\ ~landing /\ fetching = "none" /\ stage # "settling"
  /\ Ask
  /\ UNCHANGED <<served, cached, carried, sending, screen, used, alone, heard, bounds>>

FetchAnswered ==
  /\ ~landing /\ fetching = "asked"
  /\ fetching' = "answered" /\ carried' = served
  /\ UNCHANGED <<served, cached, sending, screen, history, bounds>>

FetchLands ==
  /\ ~landing /\ fetching = "answered"
  /\ fetching' = "none" /\ cached' = carried
  /\ heard' = heard \cup asked
  /\ UNCHANGED <<served, carried, sending, screen, used, alone, asked, bounds>>

FetchFails ==
  /\ ~landing /\ fetching # "none" /\ losses < MaxLosses
  /\ fetching' = "none" /\ losses' = losses + 1
  /\ UNCHANGED <<served, cached, carried, sending, screen, history, edits, foreign>>

-----------------------------------------------------------------------------
\* Screens

Goes(l) == route' = l /\ last' = l

\* Mutant: the list seen last, there or not.
TargetLast(l) == IF last = Root THEN l \in Loaded ELSE l = last /\ Loaded # {}

\* The list seen last, if it is still there, or any other.
Target(l) == l \in Loaded /\ (last \in Loaded => l = last)

\* RootRedirect forwards to its target; the screen that mounts refetches.
RootRedirect ==
  /\ ~landing /\ route = Root
  /\ \E l \in Lists : Target(l) /\ Goes(l)
  /\ AskOrJoin
  /\ UNCHANGED <<served, cached, carried, sending, dialog, used, alone, heard, bounds>>

Missing == cached # Unknown /\ route \notin cached

\* Mutant: no timer.
DebouncedNever == TRUE

\* The timer outlasts the microtask that writes a new list to the cache.
Debounced == ~landing

\* Mutant: the dialog outlives the screen.
LeavesDialog == route' = Root /\ UNCHANGED dialog

\* The screen unmounts, and TopBar with it.
Leaves == route' = Root /\ dialog' = "none"

\* ListScreen's timer: "List not found", and back to RootRedirect.
Bounce ==
  /\ route # Root /\ Missing /\ Debounced
  /\ Leaves
  /\ AskOrJoin
  /\ UNCHANGED <<served, cached, carried, sending, last, used, alone, heard, bounds>>

\* TopBar: its menus open dialogs, and the first of them switches lists.
onlyOneList == Cardinality(Loaded) <= 1

Shows(d) ==
  /\ ~landing /\ route # Root
  /\ dialog' = d
  /\ UNCHANGED <<lists, sending, route, last, history, bounds>>

OpenDialog ==
  /\ dialog = "none" /\ edits < MaxEdits
  /\ \E d \in {"new", "rename", "delete"} : (d = "delete" => ~onlyOneList) /\ Shows(d)

onClose == dialog # "none" /\ Shows("none")

switchTo(l) ==
  /\ ~landing /\ route # Root /\ dialog = "none" /\ l # route
  /\ Goes(l)
  /\ UNCHANGED <<lists, sending, dialog, history, bounds>>

-----------------------------------------------------------------------------
\* Mutations

\* A mutation is made, and its onMutate is to run.
Mutates(kind, l) ==
  /\ ~landing /\ edits < MaxEdits
  /\ edits' = edits + 1
  /\ queue' = Append(queue, [kind |-> kind, list |-> l, previous |-> Unknown])
  /\ landing' = TRUE /\ dialog' = "none"
  /\ UNCHANGED <<lists, stage, asked, heard, foreign, losses>>

\* The caller navigates to the list before it is in the cache.
createList(l) ==
  /\ dialog = "new" /\ l \in Lists \ used
  /\ Mutates("create", l)
  /\ Goes(l)
  /\ used' = used \cup {l}
  /\ alone' = IF queue = <<>> THEN alone \cup {l} ELSE alone

renameList ==
  /\ dialog = "rename"
  /\ Mutates("rename", route)
  /\ UNCHANGED <<route, last, used, alone>>

\* Navigates to a surviving list first; if none is left, only the dialog closes.
confirmDelete ==
  /\ dialog = "delete"
  /\ IF Loaded \ {route} = {} THEN Shows("none")
     ELSE /\ Mutates("delete", route)
          /\ \E fallback \in Loaded \ {route} : Goes(fallback)
          /\ UNCHANGED <<used, alone>>

Patched(c, m) ==
  CASE m.kind = "create" -> c \cup {m.list}
    [] m.kind = "rename" -> c
    [] m.kind = "delete" -> c \ {m.list}

\* Mutant: the refetch under way is let go on.
CancelNot == UNCHANGED <<fetching, asked>>

CancelQueries == fetching' = "none" /\ UNCHANGED asked

\* onMutate: the refetch under way is cancelled, the snapshot taken, the cache
\* patched; an unknown one counts as empty.
onMutate ==
  /\ landing
  /\ landing' = FALSE
  /\ CancelQueries
  /\ queue' = [queue EXCEPT ![Len(queue)].previous = cached]
  /\ cached' = Patched(Loaded, queue[Len(queue)])
  /\ UNCHANGED <<served, carried, stage, screen, used, alone, heard, bounds>>

\* The server serves the first mutation: a name may be taken, a list gone, and
\* the last list stays.
Serve ==
  LET m == Head(queue)
      stale == IF m.kind = "create" THEN m.list \in served ELSE m.list \notin served
  IN
  /\ ~landing /\ queue # <<>> /\ stage = "sent"
  /\ \/ stage' = "refused" /\ (m.kind # "delete" \/ stale \/ served = {m.list})
        /\ UNCHANGED served
     \/ stage' = "ok" /\ ~stale /\ served' = Patched(served, m) /\ served' # {}
  /\ UNCHANGED <<cached, fetching, carried, queue, landing, screen, history, bounds>>

\* The answer is lost, and the request is sent again.
AnswerLost ==
  /\ ~landing /\ stage \in {"ok", "refused"} /\ losses < MaxLosses
  /\ stage' = "sent" /\ losses' = losses + 1
  /\ UNCHANGED <<lists, queue, landing, screen, history, edits, foreign>>

\* What onError leaves in the cache.
Restored(m) == IF m.previous = Unknown THEN cached ELSE m.previous

\* Mutant: the refetch joins the one under way.
InvalidateJoins == AskOrJoin

\* invalidateQueries: the refetch under way is cancelled, and another begins.
Invalidate == Ask

\* onError if it was refused, and onSettled.
Answer ==
  /\ ~landing /\ stage \in {"ok", "refused"}
  /\ cached' = IF stage = "refused" THEN Restored(Head(queue)) ELSE cached
  /\ heard' = IF Head(queue).kind = "delete" \/ (Head(queue).kind = "create" /\ stage = "refused")
              THEN heard \cup {Head(queue).list} ELSE heard
  /\ stage' = "settling"
  /\ Invalidate
  /\ UNCHANGED <<served, carried, queue, landing, screen, used, alone, bounds>>

\* onSettled has waited for its refetch, and the next mutation starts.
Settle ==
  /\ ~landing /\ stage = "settling" /\ fetching = "none"
  /\ queue' = Tail(queue) /\ stage' = "sent"
  /\ UNCHANGED <<lists, landing, screen, history, bounds>>

\* Another client creates a list, or deletes one that is not the last.
Foreign ==
  /\ ~landing /\ foreign < MaxForeign /\ foreign' = foreign + 1
  /\ \/ \E l \in Lists \ used : served' = served \cup {l} /\ used' = used \cup {l}
     \/ \E l \in served : served' = served \ {l} /\ served' # {} /\ UNCHANGED used
  /\ UNCHANGED <<cached, fetching, carried, sending, screen, alone, asked, heard, edits, losses>>

-----------------------------------------------------------------------------

\* What happens by itself.
Runs == Serve \/ Answer \/ Settle \/ FetchAnswered \/ FetchLands

Next ==
  \/ Refetch \/ FetchFails \/ AnswerLost \/ Runs \/ onMutate
  \/ RootRedirect \/ Bounce
  \/ OpenDialog \/ onClose
  \/ \E l \in Loaded : switchTo(l)
  \/ \E l \in Lists : createList(l)
  \/ renameList \/ confirmDelete
  \/ Foreign

\* Requests and refetches end, microtasks and effects run, and the timer fires.
\* No poll is assumed to come round: its interval may stay cleared.
Fairness ==
  WF_vars(onMutate) /\ WF_vars(Runs) /\ WF_vars(RootRedirect) /\ WF_vars(Bounce)

Spec == Init /\ [][Next]_vars /\ Fairness

-----------------------------------------------------------------------------
\* Properties

\* Only a list that was navigated to is remembered, dialogs are TopBar's, and a
\* mutation in the queue has its snapshot once it has landed.
TypeOK ==
  /\ served \in (SUBSET Lists) \ {{}}
  /\ (cached = Unknown \/ cached \subseteq Lists) /\ carried \subseteq Lists
  /\ fetching \in {"none", "asked", "answered"}
  /\ stage \in {"sent", "ok", "refused", "settling"}
  /\ queue = <<>> => stage = "sent" /\ ~landing
  /\ \A k \in DOMAIN queue : queue[k].list \in used
  /\ route \in used \cup {Root} /\ last \in used \cup {Root}
  /\ dialog # "none" => route # Root

\* When nothing is queued and no refetch is under way, the cached lists are the
\* server's, but for what others did and refetches that were lost: no order of
\* taps, rollbacks, refetches and answers leaves a ghost or a gap.
QuietListsServed ==
  foreign = 0 /\ losses = 0 /\ queue = <<>> /\ fetching = "none" => cached = served

\* A list just created is not mistaken for missing: when nothing was queued
\* before it, the tab only leaves it after the server refused it, or answered
\* its delete, or a refetch asked for after the tap.
OnlyServerUnlists ==
  [][route' = Root /\ route # Root => route \notin alone \ heard]_vars

\* However its lists come and go, the two screens do not bounce the user for ever:
\* the tab ends on a list of its menu, if that has any.  The menu is the server's
\* in the end, undisturbed by others and by losses, or else if the tab goes on
\* refetching, which nothing sees to.
SettlesOnList ==
  /\ <>[](Loaded # {} => route \in Loaded)
  /\ [](foreign = 0 /\ losses = 0) \/ []<>(fetching # "none")
       => <>[](route \in served /\ cached = served)
=============================================================================
