------------------------------ MODULE ListView ------------------------------
(***************************************************************************)
(* What the tab shows of a list: the query cache that the queue's          *)
(* optimistic writes, rollbacks and refetches share (the optimistic()      *)
(* callbacks of api/queryClient.ts and the refetch rules of api/hooks.ts), *)
(* in front of the service worker's copy of older responses                *)
(* (runtimeCaching in vite.config.ts) and of the server.                   *)
(*                                                                         *)
(* A version of the list is the set of edits that it has; edits are        *)
(* independent of each other, and nobody else edits.  A refetch that is    *)
(* cancelled never lands.                                                  *)
(*                                                                         *)
(* The poll is an interval that TanStack Query sets or clears by calling   *)
(* refetchInterval when the query changes or the component that shows the  *)
(* list renders, and at no other time: the end of a mutation is no such    *)
(* occasion unless the component observes it.                              *)
(***************************************************************************)
EXTENDS MutationQueue

CONSTANTS
  Reorders, \* the edits that are drags
  Watched   \* those whose mutation ShoppingList observes: neither drags nor adds

ASSUME ReordersAssumption == Reorders \subseteq Edit /\ Watched \subseteq Edit \ Reorders

VARIABLES
  served,     \* the server's version
  shown,      \* the version in the query cache
  previous,   \* onMutate's snapshots, of the edits tapped in this page
  fetching,   \* the list's query: "none", "asked" or "answered"
  carried,    \* the version in the answer
  copy,       \* the service worker's copy: no version, or one
  diskShown,  \* the query cache as last persisted
  polling,    \* the interval of the poll is set
  due         \* a focus, a reconnect or the restore has a refetch to make

interval == <<polling, due>>
view     == <<served, shown, previous, fetching, carried, copy, diskShown, interval>>
allVars  == <<vars, view>>

NoEdits == [m \in {} |-> {}]

ViewInit ==
  /\ Init
  /\ served = {} /\ shown = {} /\ diskShown = {}
  /\ previous = NoEdits
  /\ fetching = "none" /\ carried = {}
  /\ copy \in {{}, {{}}}
  /\ polling = TRUE /\ due = FALSE

-----------------------------------------------------------------------------
\* The poll

\* client.isMutating() is 0.
Calm == queue = {}

\* refetchInterval is called: online, with no mutation pending, and no drag under
\* way, the interval is set.
Evaluated == polling' \in {FALSE, online' /\ Calm'}

-----------------------------------------------------------------------------
\* Edits

\* A drop writes the new order before its mutation is made; onMutate cancels
\* the refetch under way, takes its snapshot and writes the edit.
TapShown(m) ==
  /\ Tap(m)
  /\ fetching' = "none"
  /\ previous' = [k \in DOMAIN previous \cup {m} |->
                    IF k # m THEN previous[k]
                    ELSE IF m \in Reorders THEN shown \cup {m} ELSE shown]
  /\ shown' = shown \cup {m}
  /\ Evaluated
  /\ UNCHANGED <<served, carried, copy, diskShown, due>>

ServeEdit(m) ==
  /\ Serve(m)
  /\ served' = IF verdict'[m] = "ok" THEN served \cup {m} ELSE served
  /\ UNCHANGED <<shown, previous, fetching, carried, copy, diskShown, interval>>

\* Mutant: the refetch joins the one under way.
RefetchJoins == fetching' = IF fetching = "none" THEN "asked" ELSE fetching

\* invalidateQueries: the refetch under way is cancelled, and another begins.
RefetchAnew == fetching' = "asked"

\* onError writes the snapshot back, if this page has it; onSettled invalidates.
AnswerShown(m) ==
  /\ Answer(m)
  /\ \E failed \in BOOLEAN :
       /\ verdict[m] = "refused" => failed
       /\ failed => verdict[m] = "refused" \/ link # "up"
       /\ shown' = IF failed /\ m \in DOMAIN previous THEN previous[m] ELSE shown
  /\ RefetchAnew /\ Evaluated
  /\ UNCHANGED <<served, previous, carried, copy, diskShown, due>>

\* onSettled has waited for its refetch.  ShoppingList renders if it has made
\* the mutation, in this page.
SettleShown(m) ==
  /\ Settle(m) /\ fetching = "none"
  /\ IF m \in Watched \cap DOMAIN previous THEN Evaluated ELSE UNCHANGED polling
  /\ UNCHANGED <<served, shown, previous, fetching, carried, copy, diskShown, due>>

StepShown(m) ==
  \/ ServeEdit(m) \/ AnswerShown(m) \/ SettleShown(m)
  \/ (Fail(m) \/ Wake(m)) /\ UNCHANGED view

-----------------------------------------------------------------------------
\* Refetches

Asks ==
  /\ fetching = "none" /\ fetching' = "asked"
  /\ UNCHANGED <<vars, served, shown, previous, carried, copy, diskShown>>
  /\ Evaluated

\* A mutation whose refetch has ended settles before anything else happens.
NoneSettles == \A m \in Edit : phase[m] # "settling"

\* A mount refetches when online.
Refetch == online /\ NoneSettles /\ Asks /\ UNCHANGED due

\* A focus, a reconnect or the restore resumes the queue and refetches when the
\* mutations that it resumed have ended; a refetch under way is joined.
Recheck ==
  /\ due /\ due' = FALSE /\ NoneSettles
  /\ IF online /\ fetching = "none" THEN Asks ELSE UNCHANGED <<vars, served, shown,
       previous, fetching, carried, copy, diskShown, polling>>

\* The interval fires, every four seconds while the tab is in view.
Poll == polling /\ focused /\ Asks /\ UNCHANGED due

\* ShoppingList renders for a reason of its own, as for a flash.
Render ==
  /\ UNCHANGED <<vars, served, shown, previous, fetching, carried, copy, diskShown, due>>
  /\ Evaluated

\* The server answers a GET, and the service worker keeps a copy.
FetchFresh ==
  /\ fetching = "asked" /\ link = "up"
  /\ fetching' = "answered" /\ carried' = served /\ copy' = {served}
  /\ UNCHANGED <<vars, served, shown, previous, diskShown, interval>>

\* No answer within three seconds: the service worker answers with its copy.
FetchCopy ==
  /\ fetching = "asked" /\ link # "up"
  /\ carried' \in copy
  /\ fetching' = "answered"
  /\ UNCHANGED <<vars, served, shown, previous, copy, diskShown, interval>>

FetchFails ==
  /\ fetching = "asked" /\ copy = {}
  /\ ReadFails
  /\ fetching' = "none" /\ Evaluated
  /\ UNCHANGED <<served, shown, previous, carried, copy, diskShown, due>>

FetchLands ==
  /\ fetching = "answered"
  /\ fetching' = "none" /\ shown' = carried
  /\ UNCHANGED <<vars, served, previous, carried, copy, diskShown, due>>
  /\ Evaluated

Fetch == FetchFresh \/ FetchCopy \/ FetchFails \/ FetchLands

-----------------------------------------------------------------------------
\* The page

\* Queue and cache are dehydrated together; what is stored matters only to a
\* reload that may still come (the bound MaxReloads).
PersistShown ==
  /\ reloads < MaxReloads
  /\ IF Dehydrated = disk THEN diskShown # shown /\ UNCHANGED vars ELSE Persist
  /\ diskShown' = shown
  /\ UNCHANGED <<served, shown, previous, fetching, carried, copy, interval>>

\* The cache is restored without the snapshots; a mount refetches when online,
\* and onSuccess of App once more when the restored mutations have ended.
ReloadShown ==
  /\ Reload
  /\ shown' = diskShown /\ previous' = NoEdits
  /\ fetching' = IF online' THEN "asked" ELSE "none"
  /\ Evaluated /\ due' = TRUE
  /\ UNCHANGED <<served, carried, copy, diskShown>>

\* Mutant: a reconnect refetches nothing.
NoticedFocus ==
  /\ due' = (due \/ (focused' /\ ~focused))
  /\ UNCHANGED <<served, shown, previous, fetching, carried, copy, diskShown, polling>>

\* Who comes online or into view has a refetch to make; the interval is left as
\* it is.
Noticed ==
  /\ due' = (due \/ (online' /\ ~online) \/ (focused' /\ ~focused))
  /\ UNCHANGED <<served, shown, previous, fetching, carried, copy, diskShown, polling>>

Connection ==
  /\ (\E l \in Links : LinkChanges(l)) \/ ProbeAnswered \/ Hide \/ Show
  /\ Noticed

ViewNext ==
  \/ \E m \in Edit : TapShown(m) \/ StepShown(m)
  \/ Refetch \/ Recheck \/ Poll \/ Render \/ Fetch
  \/ PersistShown \/ ReloadShown \/ Connection

\* As in the queue; fetches end, and what a focus, a reconnect or the restore asks
\* for is asked when the queue is done.  No poll is assumed: nothing sees to it that
\* the interval is set.
ViewFairness ==
  /\ WF_allVars(ProbeAnswered /\ Noticed)
  /\ \A m \in Edit : WF_allVars(StepShown(m))
  /\ WF_allVars(Fetch) /\ WF_allVars(Calm /\ Recheck)

ViewSpec == ViewInit /\ [][ViewNext]_allVars /\ ViewFairness

-----------------------------------------------------------------------------
\* Properties

ViewTypeOK ==
  /\ TypeOK
  /\ {served, shown, carried, diskShown} \subseteq SUBSET Edit
  /\ DOMAIN previous \subseteq Edit /\ previous \in [DOMAIN previous -> SUBSET Edit]
  /\ fetching \in {"none", "asked", "answered"}
  /\ copy = {} \/ \E V \in SUBSET Edit : copy = {V}
  /\ {polling, due} \subseteq BOOLEAN
  /\ polling => Calm

\* With an unbroken link the tab shows the server's version whenever the queue
\* is empty and no refetch is under way: the last edit to settle brings the
\* truth, however the edits, rollbacks, refetches and reloads before it
\* interleaved, and a reload whatever had been persisted.
QuietShowsServed == breaks = 0 /\ Calm /\ fetching = "none" => shown = served

Steady == [](link = "up" /\ focused)

\* Whatever the link and the page went through, once the link stays up and the
\* tab in view, the tab comes to show the server's version for good: without any
\* poll if it has taken itself for offline, as hooks.ts says of recovery, and
\* else if it goes on refetching, which nothing sees to: after a drag or an add
\* the interval stays cleared.
Reconciles ==
  <>(~online /\ Steady) \/ (<>Steady /\ []<>(fetching # "none")) => <>[](shown = served)

\* What queryClient.ts and DESIGN.md say of a mutation that is queued offline:
\* its optimistic write stays intact, for neither a rollback nor an older
\* response replaces what is shown.
OfflineEditsShown == ~online => queue \subseteq shown
=============================================================================
