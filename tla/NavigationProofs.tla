-------------------------- MODULE NavigationProofs --------------------------
(***************************************************************************)
(* Theorems about Navigation, for any lists and any number of edits, of    *)
(* edits by others and of losses.  The first invariant is about what a     *)
(* refetch carries while a mutation settles; the second follows a list     *)
(* that was just created, and that the server has not had its say on,      *)
(* through the cache, the snapshots and the route.                         *)
(***************************************************************************)
EXTENDS Navigation, TLAPS

Mutation ==
  [kind : {"create", "rename", "delete"}, list : Lists, previous : (SUBSET Lists) \cup {Unknown}]

Known(c) == c = Unknown \/ c \subseteq used

Snapshots == \A k \in 1 .. Len(queue) : Known(queue[k].previous)

Types ==
  /\ TypeOK
  /\ queue \in Seq(Mutation)
  /\ landing \in BOOLEAN /\ (landing => queue # <<>>)
  /\ used \subseteq Lists /\ served \subseteq used /\ carried \subseteq used
  /\ Known(cached)
  /\ Snapshots
  /\ {edits, foreign, losses} \subseteq Nat

-----------------------------------------------------------------------------
\* Types

LEMMA InitTypes == Init => Types
<1> SUFFICES ASSUME Init PROVE Types
  OBVIOUS
<1>1. TypeOK
  BY NavigationAssumption DEF Init, TypeOK
<1>2. queue \in Seq(Mutation) /\ Snapshots
  BY DEF Init, Snapshots
<1>3. /\ used \subseteq Lists /\ served \subseteq used /\ carried \subseteq used
      /\ Known(cached)
  BY NavigationAssumption DEF Init, Known
<1>4. landing \in BOOLEAN /\ ~landing
  BY DEF Init
<1>5. {edits, foreign, losses} \subseteq Nat
  BY DEF Init
<1> QED BY <1>1, <1>2, <1>3, <1>4, <1>5 DEF Types

\* A cache that is known is a set of lists.
LEMMA LoadedType ==
  ASSUME Types
  PROVE  Loaded \subseteq used /\ (cached # Unknown => cached = Loaded)
BY DEF Types, Known, Loaded

\* Steps that leave the queue alone.
LEMMA UnqueuedTypes ==
  ASSUME Types, TypeOK', UNCHANGED <<queue, landing>>,
         used \subseteq used', used' \subseteq Lists, served' \subseteq used',
         carried' \subseteq used', Known(cached)',
         {edits', foreign', losses'} \subseteq Nat
  PROVE  Types'
BY DEF Types, Known, Snapshots

LEMMA FetchTypes ==
  ASSUME Types, Refetch \/ FetchAnswered \/ FetchLands \/ FetchFails
  PROVE  Types'
<1>1. TypeOK'
  BY DEF Types, TypeOK, Refetch, Ask, FetchAnswered, FetchLands, FetchFails, lists, sending,
         screen, history, bounds
<1>2. Known(cached)' /\ carried' \subseteq used'
  BY DEF Types, Known, Refetch, FetchAnswered, FetchLands, FetchFails, sending, history
<1>3. {edits', foreign', losses'} \subseteq Nat
  BY DEF Types, Refetch, FetchAnswered, FetchLands, FetchFails, bounds
<1> QED BY <1>1, <1>2, <1>3, UnqueuedTypes
        DEF Refetch, FetchAnswered, FetchLands, FetchFails, sending, history, Types

LEMMA ScreenTypes ==
  ASSUME Types,
         RootRedirect \/ Bounce \/ OpenDialog \/ onClose \/ \E l \in Loaded : switchTo(l)
  PROVE  Types'
<1>1. UNCHANGED <<served, cached, carried, queue, stage, landing, used, bounds>>
  BY DEF RootRedirect, Bounce, OpenDialog, onClose, Shows, switchTo, lists, sending, history
<1>2. /\ fetching' \in {"none", "asked", "answered"}
      /\ route' \in used \cup {Root} /\ last' \in used \cup {Root}
      /\ dialog' # "none" => route' # Root
  <2>1. CASE RootRedirect
    BY <2>1, LoadedType DEF RootRedirect, Target, Goes, AskOrJoin, Ask, Types, TypeOK
  <2>2. CASE Bounce
    BY <2>2 DEF Bounce, Leaves, AskOrJoin, Ask, Types, TypeOK
  <2>3. CASE OpenDialog \/ onClose
    BY <2>3 DEF OpenDialog, onClose, Shows, lists, Types, TypeOK
  <2>4. CASE \E l \in Loaded : switchTo(l)
    BY <2>4, LoadedType, NavigationAssumption DEF switchTo, Goes, lists, Types, TypeOK
  <2> QED BY <2>1, <2>2, <2>3, <2>4
<1>3. TypeOK'
  BY <1>1, <1>2 DEF Types, TypeOK
<1> QED BY <1>1, <1>3, UnqueuedTypes DEF Types, Known, bounds

\* A mutation goes to the end of the queue.
LEMMA MutatesTypes ==
  ASSUME Types, NEW kind \in {"create", "rename", "delete"}, NEW l \in used', Mutates(kind, l),
         used \subseteq used', used' \subseteq Lists,
         route' \in used', last' \in used' \cup {Root}
  PROVE  /\ Types'
         /\ Len(queue') = Len(queue) + 1
         /\ queue'[Len(queue')].kind = kind /\ queue'[Len(queue')].list = l
         /\ \A k \in 1 .. Len(queue) : queue'[k] = queue[k]
<1> DEFINE m == [kind |-> kind, list |-> l, previous |-> Unknown]
<1>1. m \in Mutation
  BY DEF Mutation
<1>2. queue' = Append(queue, m) /\ queue \in Seq(Mutation)
  BY DEF Mutates, Types
<1> HIDE DEF m
<1>3. /\ queue' \in Seq(Mutation) /\ Len(queue') = Len(queue) + 1
      /\ queue'[Len(queue')] = m /\ queue' # <<>>
      /\ \A k \in 1 .. Len(queue) : queue'[k] = queue[k]
  BY <1>1, <1>2
<1>4. \A k \in 1 .. Len(queue') : k \in 1 .. Len(queue) \/ k = Len(queue')
  BY <1>2, <1>3
<1>5. TypeOK'
  <2>1. \A k \in 1 .. Len(queue') : queue'[k].list \in used'
    BY <1>3, <1>4 DEF Types, TypeOK, m
  <2>2. Root \notin Lists
    BY NavigationAssumption
  <2> QED BY <1>3, <2>1, <2>2 DEF Types, TypeOK, Mutates, lists
<1>6. Snapshots'
  <2>1. m.previous = Unknown
    BY DEF m
  <2> QED BY <1>3, <1>4, <2>1 DEF Types, Snapshots, Known
<1>7. Known(cached)'
  BY DEF Types, Known, Mutates, lists
<1>8. Types'
  BY <1>3, <1>5, <1>6, <1>7 DEF Types, Mutates, lists
<1> QED BY <1>3, <1>8 DEF m

LEMMA EditTypes ==
  ASSUME Types, (\E l \in Lists : createList(l)) \/ renameList \/ confirmDelete
  PROVE  Types'
<1>1. ASSUME NEW l \in Lists, createList(l) PROVE Types'
  BY <1>1, MutatesTypes DEF createList, Goes, Types
<1>2. CASE renameList
  <2>1. route \in used
    BY <1>2 DEF renameList, Types, TypeOK
  <2> QED BY <1>2, <2>1, MutatesTypes DEF renameList, Types, TypeOK
<1>3. CASE confirmDelete
  <2>1. route \in used /\ Loaded \subseteq used
    BY <1>3, LoadedType DEF confirmDelete, Types, TypeOK
  <2>2. CASE Shows("none")
    <3>1. UNCHANGED <<lists, sending, route, last, history, bounds>> /\ dialog' = "none"
      BY <2>2 DEF Shows
    <3>2. TypeOK'
      BY <3>1 DEF Types, TypeOK, lists, sending, history
    <3> QED BY <3>1, <3>2, UnqueuedTypes DEF Types, Known, lists, sending, history, bounds
  <2>3. CASE Mutates("delete", route) /\ UNCHANGED used /\ \E fb \in Loaded : Goes(fb)
    BY <2>1, <2>3, MutatesTypes DEF Goes, Types
  <2> QED BY <1>3, <2>2, <2>3 DEF confirmDelete
<1> QED BY <1>1, <1>2, <1>3

\* onMutate gives the last mutation its snapshot.
LEMMA LandingQueue ==
  ASSUME Types, onMutate
  PROVE  /\ Len(queue') = Len(queue) /\ Len(queue) \in Nat \ {0}
         /\ queue' \in Seq(Mutation)
         /\ \A k \in 1 .. Len(queue) : /\ queue'[k].kind = queue[k].kind
                                       /\ queue'[k].list = queue[k].list
         /\ \A k \in 1 .. Len(queue) - 1 : queue'[k] = queue[k]
         /\ queue'[Len(queue)].previous = cached
<1> DEFINE n == Len(queue)
           m == queue[n]
<1>1. queue \in Seq(Mutation) /\ n \in Nat \ {0} /\ n \in DOMAIN queue /\ m \in Mutation
  BY DEF Types, onMutate
<1>2. cached \in (SUBSET Lists) \cup {Unknown}
  BY DEF Types, Known
<1>3. queue' = [queue EXCEPT ![n] = [m EXCEPT !.previous = cached]]
  BY DEF onMutate
<1>4. /\ [m EXCEPT !.previous = cached] \in Mutation
      /\ [m EXCEPT !.previous = cached].kind = m.kind
      /\ [m EXCEPT !.previous = cached].list = m.list
      /\ [m EXCEPT !.previous = cached].previous = cached
  BY <1>1, <1>2 DEF Mutation
<1> HIDE DEF n, m
<1>5. /\ queue' \in Seq(Mutation) /\ Len(queue') = Len(queue)
      /\ queue'[n] = [m EXCEPT !.previous = cached]
      /\ \A k \in 1 .. Len(queue) : k # n => queue'[k] = queue[k]
  BY <1>1, <1>3, <1>4
<1>6. n = Len(queue) /\ m = queue[n]
  BY DEF n, m
<1>7. \A k \in 1 .. Len(queue) : /\ queue'[k].kind = queue[k].kind
                                /\ queue'[k].list = queue[k].list
  BY <1>4, <1>5, <1>6
<1>8. \A k \in 1 .. Len(queue) - 1 : k \in 1 .. Len(queue) /\ k # n
  BY <1>1, <1>6
<1>9. queue'[Len(queue)].previous = cached
  BY <1>4, <1>5, <1>6
<1> QED BY <1>1, <1>5, <1>6, <1>7, <1>8, <1>9

LEMMA OnMutateTypes ==
  ASSUME Types, onMutate
  PROVE  Types'
<1>1. LET m == queue[Len(queue)]
      IN  m.list \in used /\ cached' = Patched(Loaded, m) /\ m \in Mutation
  <2>1. Len(queue) \in 1 .. Len(queue) /\ queue \in Seq(Mutation)
    BY LandingQueue DEF Types
  <2> QED BY <2>1 DEF Types, TypeOK, onMutate
<1>2. cached' \subseteq used
  BY <1>1, LoadedType DEF Patched, Mutation
<1>3. UNCHANGED <<served, carried, stage, route, last, dialog, used, edits, foreign, losses>>
      /\ landing' = FALSE /\ fetching' = "none"
  BY DEF onMutate, CancelQueries, screen, bounds
<1>4. queue' # <<>> /\ \A k \in 1 .. Len(queue') : queue'[k].list \in used
  BY LandingQueue DEF Types, TypeOK
<1>5. TypeOK'
  BY <1>2, <1>3, <1>4, LandingQueue DEF Types, TypeOK
<1>6. Snapshots'
  <2>1. \A k \in 1 .. Len(queue) : k \in 1 .. Len(queue) - 1 \/ k = Len(queue)
    BY LandingQueue
  <2> QED BY <1>3, <2>1, LandingQueue DEF Types, Snapshots, Known
<1>7. Known(cached)'
  BY <1>2, <1>3 DEF Known
<1> QED BY <1>3, <1>4, <1>5, <1>6, <1>7, LandingQueue DEF Types

LEMMA HeadType ==
  ASSUME Types, queue # <<>>
  PROVE  /\ Head(queue) = queue[1] /\ 1 \in 1 .. Len(queue)
         /\ Head(queue) \in Mutation /\ Head(queue).list \in used
         /\ Known(Head(queue).previous)
<1>1. queue \in Seq(Mutation) /\ Len(queue) \in Nat \ {0}
  BY DEF Types
<1>2. Head(queue) = queue[1] /\ 1 \in 1 .. Len(queue)
  BY <1>1
<1> QED BY <1>1, <1>2 DEF Types, TypeOK, Snapshots

\* Between a tap and its onMutate nothing is answered.
LEMMA SentTypes ==
  ASSUME Types, Serve \/ AnswerLost \/ Answer
  PROVE  Types'
<1>1. queue # <<>> /\ UNCHANGED <<queue, landing, used>>
  BY DEF Serve, AnswerLost, Answer, Types, TypeOK, history
<1>2. Known(cached)' /\ carried' \subseteq used'
  BY <1>1, HeadType DEF Serve, AnswerLost, Answer, Restored, Types, Known, lists
<1>3. served' \subseteq used /\ served' \in (SUBSET Lists) \ {{}}
  <2>1. CASE Serve
    <3>1. CASE UNCHANGED served
      BY <3>1 DEF Types, TypeOK
    <3>2. CASE served' = Patched(served, Head(queue)) /\ served' # {}
      BY <1>1, <3>2, HeadType DEF Patched, Mutation, Types
    <3> QED BY <2>1, <3>1, <3>2 DEF Serve
  <2>2. CASE AnswerLost \/ Answer
    BY <2>2 DEF AnswerLost, Answer, lists, Types, TypeOK
  <2> QED BY <2>1, <2>2
<1>4. /\ stage' \in {"sent", "ok", "refused", "settling"}
      /\ fetching' \in {"none", "asked", "answered"}
      /\ UNCHANGED <<route, last, dialog>>
  BY DEF Serve, AnswerLost, Answer, Invalidate, Ask, lists, screen, Types, TypeOK
<1>5. TypeOK'
  BY <1>1, <1>2, <1>3, <1>4 DEF Types, TypeOK, Known
<1>6. {edits', foreign', losses'} \subseteq Nat
  BY DEF Serve, AnswerLost, Answer, bounds, Types
<1> QED BY <1>1, <1>2, <1>3, <1>5, <1>6, UnqueuedTypes DEF Types

\* The queue without its first mutation.
LEMMA TailQueue ==
  ASSUME Types, queue # <<>>, queue' = Tail(queue)
  PROVE  /\ queue' \in Seq(Mutation) /\ Len(queue') = Len(queue) - 1 /\ Len(queue) \in Nat \ {0}
         /\ queue' = <<>> => Len(queue) = 1
         /\ \A k \in 1 .. Len(queue') : k + 1 \in 1 .. Len(queue) /\ queue'[k] = queue[k + 1]
<1>1. queue \in Seq(Mutation) /\ Len(queue) \in Nat \ {0}
  BY DEF Types
<1>2. Tail(queue) \in Seq(Mutation) /\ Len(Tail(queue)) = Len(queue) - 1
  BY <1>1
<1>3. Len(<<>>) = 0
  OBVIOUS
<1>4. ASSUME Tail(queue) = <<>> PROVE Len(queue) = 1
  <2>1. Len(Tail(queue)) = 0
    BY <1>3, <1>4, Zenon
  <2> QED BY <1>1, <1>2, <2>1
<1>5. \A k \in 1 .. Len(Tail(queue)) : k + 1 \in 1 .. Len(queue) /\ Tail(queue)[k] = queue[k + 1]
  BY <1>1, <1>2
<1> QED BY <1>1, <1>2, <1>4, <1>5

LEMMA SettleTypes ==
  ASSUME Types, Settle
  PROVE  Types'
<1>1. /\ queue # <<>> /\ queue' = Tail(queue) /\ stage' = "sent" /\ landing = FALSE
      /\ UNCHANGED <<lists, landing, screen, history, bounds>>
  BY DEF Settle, Types, TypeOK
<1>2. TypeOK'
  BY <1>1, TailQueue DEF Types, TypeOK, lists, screen, history
<1>3. Snapshots'
  BY <1>1, TailQueue DEF Types, Snapshots, Known, history
<1> QED BY <1>1, <1>2, <1>3, TailQueue DEF Types, Known, lists, history, bounds

LEMMA ForeignTypes ==
  ASSUME Types, Foreign
  PROVE  Types'
<1>1. /\ used \subseteq used' /\ used' \subseteq Lists
      /\ served' \subseteq used' /\ served' \in (SUBSET Lists) \ {{}}
  BY DEF Foreign, Types, TypeOK
<1>2. UNCHANGED <<cached, fetching, carried, sending, screen, edits, losses>>
      /\ foreign' = foreign + 1
  BY DEF Foreign
<1>3. TypeOK'
  BY <1>1, <1>2 DEF Types, TypeOK, sending, screen
<1> QED BY <1>1, <1>2, <1>3, UnqueuedTypes DEF Types, Known, sending

LEMMA StepTypes == Types /\ [Next]_vars => Types'
<1> SUFFICES ASSUME Types, [Next]_vars PROVE Types'
  OBVIOUS
<1>1. CASE UNCHANGED vars
  BY <1>1 DEF vars, lists, sending, screen, history, bounds, Types, TypeOK, Known, Snapshots
<1> QED BY <1>1, FetchTypes, ScreenTypes, EditTypes, OnMutateTypes, SentTypes, SettleTypes,
           ForeignTypes DEF Next, Runs

\* The type invariant, for every instance.
THEOREM TypeCorrect == Spec => []TypeOK
<1>1. Types => TypeOK
  BY DEF Types
<1> QED BY <1>1, InitTypes, StepTypes, PTL DEF Spec

-----------------------------------------------------------------------------
\* What a refetch carries

\* No edits of others, and nothing lost.
Undisturbed == foreign = 0 /\ losses = 0

\* While nothing is in flight, an answer under way is the server's state, and
\* so is the cache once no refetch is to land and no other mutation waits.
Truth ==
  queue = <<>> \/ stage = "settling" =>
    /\ fetching = "answered" => carried = served
    /\ fetching = "none" /\ Len(queue) <= 1 => cached = served

\* A tap while a mutation settles is queued behind it.
Behind == landing /\ stage = "settling" => Len(queue) >= 2

QuietInv == Behind /\ (Undisturbed => Truth)

LEMMA InitQuiet == Init => QuietInv
BY DEF Init, QuietInv, Behind, Truth

LEMMA StepQuiet == Types /\ QuietInv /\ [Next]_vars => QuietInv'
<1> SUFFICES ASSUME Types, QuietInv, [Next]_vars PROVE QuietInv'
  OBVIOUS
<1> USE DEF QuietInv
<1>1. CASE Refetch \/ FetchAnswered \/ FetchLands
  BY <1>1 DEF Refetch, Ask, FetchAnswered, FetchLands, Behind, Truth, Undisturbed,
              sending, bounds
<1>2. CASE FetchFails \/ AnswerLost \/ Foreign
  <2>1. ~Undisturbed'
    BY <1>2 DEF FetchFails, AnswerLost, Foreign, Undisturbed, Types
  <2>2. UNCHANGED <<queue, landing>> /\ stage' \in {stage, "sent"}
    BY <1>2 DEF FetchFails, AnswerLost, Foreign, sending
  <2> QED BY <2>1, <2>2 DEF Behind
<1>3. CASE Serve \/ Answer
  <2>1. /\ ~landing' /\ queue' # <<>>
        /\ stage' # "settling" \/ fetching' = "asked"
    BY <1>3 DEF Serve, Answer, Invalidate, Ask, Types, TypeOK
  <2> QED BY <2>1 DEF Behind, Truth
<1>4. CASE Settle
  <2>1. ~landing' /\ stage' = "sent" /\ queue # <<>> /\ queue' = Tail(queue)
    BY <1>4 DEF Settle, Types, TypeOK
  <2>2. queue' = <<>> => Len(queue) = 1
    BY <2>1, TailQueue
  <2>3. /\ stage = "settling" /\ fetching = "none" /\ UNCHANGED <<served, cached, fetching>>
        /\ Undisturbed' => Undisturbed
    BY <1>4 DEF Settle, Undisturbed, lists, bounds
  <2>4. Undisturbed' /\ queue' = <<>> => cached = served
    <3>1. Len(queue) = 1 => Len(queue) <= 1
      OBVIOUS
    <3> QED BY <2>2, <2>3, <3>1 DEF Truth
  <2> QED BY <2>1, <2>3, <2>4 DEF Behind, Truth
<1>5. CASE onMutate
  <2>1. ~landing' /\ Len(queue') = Len(queue) /\ queue' # <<>> /\ landing
        /\ stage' = stage /\ fetching' = "none"
    BY <1>5, LandingQueue DEF onMutate, CancelQueries
  <2> QED BY <2>1, LandingQueue, <1>5 DEF Behind, Truth
<1>6. CASE RootRedirect \/ Bounce \/ OpenDialog \/ onClose \/ \E l \in Loaded : switchTo(l)
  <2>1. UNCHANGED <<served, cached, carried, queue, stage, landing, bounds>>
    BY <1>6 DEF RootRedirect, Bounce, OpenDialog, onClose, Shows, switchTo, lists, sending
  <2>2. fetching' \in {fetching, "asked"}
    BY <1>6 DEF RootRedirect, Bounce, AskOrJoin, Ask, OpenDialog, onClose, Shows, switchTo, lists
  <2> QED BY <2>1, <2>2 DEF Behind, Truth, Undisturbed, bounds
<1>7. CASE (\E l \in Lists : createList(l)) \/ renameList \/ confirmDelete
  <2>1. CASE Shows("none")
    BY <2>1 DEF Shows, lists, sending, bounds, Behind, Truth, Undisturbed
  <2>2. ASSUME NEW kind, NEW l, Mutates(kind, l) PROVE QuietInv'
    <3>1. UNCHANGED <<lists, stage, foreign, losses>>
      BY <2>2 DEF Mutates
    <3>2. queue \in Seq(Mutation) /\ queue' # <<>> /\ Len(queue') = Len(queue) + 1
      BY <2>2 DEF Mutates, Types
    <3>3. stage = "settling" => Len(queue) >= 1
      BY <3>2 DEF Types, TypeOK
    <3> QED BY <3>1, <3>2, <3>3 DEF lists, Behind, Truth, Undisturbed
  <2> QED BY <1>7, <2>1, <2>2 DEF createList, renameList, confirmDelete
<1>8. CASE UNCHANGED vars
  BY <1>8 DEF vars, lists, sending, bounds, Behind, Truth, Undisturbed
<1> QED BY <1>1, <1>2, <1>3, <1>4, <1>5, <1>6, <1>7, <1>8 DEF Next, Runs

\* Undisturbed by others and by losses, a quiet tab shows the server's lists:
\* the refetch that follows a mutation is true when it lands.
THEOREM QuietListsCorrect == Spec => []QuietListsServed
<1>1. Types /\ QuietInv => QuietListsServed
  BY DEF Types, QuietInv, Truth, Undisturbed, QuietListsServed
<1> QED BY <1>1, InitTypes, StepTypes, InitQuiet, StepQuiet, PTL DEF Spec

-----------------------------------------------------------------------------
\* A list that was just created

\* Those that the server has not had its say on.
Waiting == alone \ heard

\* How many mutations have landed: all but the one that has not run onMutate.
Landed == IF landing THEN Len(queue) - 1 ELSE Len(queue)

Creates(k, l) == queue[k].kind = "create" /\ queue[k].list = l

Deletes(k, l) == queue[k].kind = "delete" /\ queue[k].list = l

\* One of the first n mutations deletes the list.
Deleted(l, n) == \E d \in 1 .. n : Deletes(d, l)

\* A refetch that lands was asked for after the tap.
AskedLater == ~landing /\ fetching # "none" => Waiting \subseteq asked

\* A mutation that settles was answered.
Answered == stage = "settling" => \A l \in Waiting : ~Deletes(1, l)

\* A snapshot that onError may restore has the list, unless it was its own
\* mutation or a delete before it that took it out.
SnapshotsHaveIt ==
  \A l \in Waiting : \A k \in 1 .. Landed :
    \/ Creates(k, l)
    \/ queue[k].previous # Unknown /\ l \in queue[k].previous
    \/ Deleted(l, k - 1)

\* So has the cache, once the create has landed.
CacheHasIt ==
  \A l \in Waiting :
    l \in Loaded \/ Deleted(l, Landed) \/ (landing /\ Creates(Len(queue), l))

\* The tab never shows one that is deleted here, or is about to be.
RouteHasIt ==
  route \in Waiting =>
    route \in IF landing THEN Patched(Loaded, queue[Len(queue)]) ELSE Loaded

UnlistInv ==
  /\ alone \subseteq used
  /\ AskedLater /\ Answered /\ SnapshotsHaveIt /\ CacheHasIt /\ RouteHasIt

LEMMA InitUnlist == Init => UnlistInv
BY DEF Init, UnlistInv, Waiting, Landed, AskedLater, Answered, SnapshotsHaveIt, CacheHasIt,
       RouteHasIt

\* Steps that leave the queue and the cache alone, and show no list but one of
\* the cache.
LEMMA SameUnlist ==
  ASSUME Types, UnlistInv, UNCHANGED <<queue, landing, cached, alone>>,
         used \subseteq used', heard \subseteq heard', AskedLater', Answered',
         route' \in {route, Root} \/ (~landing /\ route' \in Loaded)
  PROVE  UnlistInv'
<1>1. Waiting' \subseteq Waiting
  BY DEF Waiting
<1>2. Root \notin Waiting'
  BY <1>1, NavigationAssumption DEF Types, UnlistInv, Waiting
<1>3. Landed' = Landed /\ Loaded' = Loaded
  BY DEF Landed, Loaded
<1>4. \A l, n : (Deleted(l, n))' <=> Deleted(l, n)
  BY DEF Deleted, Deletes
<1>5. SnapshotsHaveIt'
  BY <1>1, <1>3, <1>4 DEF UnlistInv, SnapshotsHaveIt, Creates
<1>6. CacheHasIt'
  BY <1>1, <1>3, <1>4 DEF UnlistInv, CacheHasIt, Creates
<1>7. RouteHasIt'
  BY <1>1, <1>2, <1>3 DEF UnlistInv, RouteHasIt, Patched
<1> QED BY <1>5, <1>6, <1>7 DEF UnlistInv

LEMMA FetchUnlist ==
  ASSUME Types, UnlistInv, Refetch \/ FetchAnswered \/ FetchLands \/ FetchFails
  PROVE  UnlistInv'
<1>1. CASE Refetch
  <2>1. AskedLater' /\ Answered'
    BY <1>1 DEF Refetch, Ask, AskedLater, Answered, Waiting, sending
  <2> QED BY <1>1, <2>1, SameUnlist DEF Refetch, sending, screen
<1>2. CASE FetchAnswered \/ FetchFails
  <2>1. AskedLater' /\ Answered'
    BY <1>2 DEF FetchAnswered, FetchFails, UnlistInv, AskedLater, Answered, Deletes, Waiting,
                sending, history
  <2> QED BY <1>2, <2>1, SameUnlist DEF FetchAnswered, FetchFails, sending, screen, history
<1>3. CASE FetchLands
  <2>1. Waiting' = {} /\ UNCHANGED <<alone, used>>
    BY <1>3 DEF FetchLands, UnlistInv, AskedLater, Waiting
  <2> QED BY <2>1 DEF UnlistInv, AskedLater, Answered, SnapshotsHaveIt, CacheHasIt, RouteHasIt
<1> QED BY <1>1, <1>2, <1>3

LEMMA ScreenUnlist ==
  ASSUME Types, UnlistInv,
         RootRedirect \/ Bounce \/ OpenDialog \/ onClose \/ \E l \in Loaded : switchTo(l)
  PROVE  UnlistInv'
<1>1. UNCHANGED <<cached, queue, stage, landing, used, alone, heard>>
  BY DEF RootRedirect, Bounce, OpenDialog, onClose, Shows, switchTo, lists, sending, history
<1>2. AskedLater'
  BY <1>1 DEF RootRedirect, Bounce, OpenDialog, onClose, Shows, switchTo, AskOrJoin, Ask, lists,
              history, UnlistInv, AskedLater, Waiting
<1>3. route' \in {route, Root} \/ (~landing /\ route' \in Loaded)
  BY DEF RootRedirect, Target, Bounce, Leaves, OpenDialog, onClose, Shows, switchTo, Goes
<1>4. Answered'
  BY <1>1 DEF UnlistInv, Answered, Deletes, Waiting
<1> QED BY <1>1, <1>2, <1>3, <1>4, SameUnlist

LEMMA ServerUnlist ==
  ASSUME Types, UnlistInv, Serve \/ AnswerLost \/ Foreign
  PROVE  UnlistInv'
<1>1. /\ UNCHANGED <<cached, fetching, queue, landing, route, alone, asked, heard>>
      /\ stage' = "settling" => stage = "settling"
      /\ used \subseteq used'
  BY DEF Serve, AnswerLost, Foreign, lists, sending, screen, history
<1>2. AskedLater' /\ Answered'
  BY <1>1 DEF UnlistInv, AskedLater, Answered, Deletes, Waiting
<1> QED BY <1>1, <1>2, SameUnlist

\* A refusal restores a snapshot that has the list, or is the server's say on it.
LEMMA AnswerUnlist ==
  ASSUME Types, UnlistInv, Answer
  PROVE  UnlistInv'
<1>1. /\ ~landing /\ UNCHANGED <<queue, landing, route, used, alone>>
      /\ queue # <<>> /\ stage' = "settling" /\ asked' = alone
      /\ heard \subseteq heard'
  BY DEF Answer, Invalidate, Ask, screen, Types, TypeOK
<1>2. /\ Head(queue) = queue[1] /\ 1 \in 1 .. Len(queue) /\ Known(queue[1].previous)
      /\ 1 \in 1 .. Landed /\ Landed' = Landed
  BY <1>1, HeadType DEF Landed
<1>3. Waiting' \subseteq Waiting
  BY <1>1 DEF Waiting
<1>4. AskedLater'
  BY <1>1 DEF AskedLater, Waiting
<1>5. Answered'
  BY <1>1, <1>2 DEF Answer, Answered, Deletes, Waiting
<1>6. \A l, n : (Deleted(l, n))' <=> Deleted(l, n)
  BY <1>1 DEF Deleted, Deletes
<1>7. SnapshotsHaveIt'
  BY <1>1, <1>2, <1>3, <1>6 DEF UnlistInv, SnapshotsHaveIt, Creates
<1>8. ASSUME NEW l \in Waiting', l \in Loaded \/ stage = "refused" PROVE l \in Loaded'
  <2>1. CASE stage = "refused"
    <3>1. ~Creates(1, l)
      BY <1>2, <1>8, <2>1 DEF Answer, Creates, Waiting
    <3>2. ~Deleted(l, 1 - 1)
      BY DEF Deleted
    <3>3. queue[1].previous # Unknown /\ l \in queue[1].previous
      BY <1>2, <1>3, <1>8, <3>1, <3>2 DEF UnlistInv, SnapshotsHaveIt
    <3>4. cached' = queue[1].previous
      BY <1>2, <2>1, <3>3 DEF Answer, Restored
    <3> QED BY <3>3, <3>4 DEF Loaded
  <2>2. CASE stage # "refused"
    BY <1>8, <2>2 DEF Answer, Loaded
  <2> QED BY <2>1, <2>2
<1>9. CacheHasIt'
  BY <1>1, <1>2, <1>3, <1>6, <1>8 DEF UnlistInv, CacheHasIt, Creates
<1>10. RouteHasIt'
  BY <1>1, <1>3, <1>8 DEF UnlistInv, RouteHasIt
<1> QED BY <1>1, <1>4, <1>5, <1>7, <1>9, <1>10 DEF UnlistInv

\* The first mutation leaves; a delete has had its answer by then.
LEMMA SettleUnlist ==
  ASSUME Types, UnlistInv, Settle
  PROVE  UnlistInv'
<1>1. /\ ~landing /\ stage = "settling" /\ stage' = "sent" /\ fetching' = "none"
      /\ queue # <<>> /\ queue' = Tail(queue)
      /\ UNCHANGED <<cached, landing, route, used, alone, asked, heard>>
  BY DEF Settle, lists, screen, history, Types, TypeOK
<1>2. /\ Len(queue') = Len(queue) - 1 /\ Len(queue) \in Nat \ {0}
      /\ \A k \in 1 .. Len(queue') : k + 1 \in 1 .. Len(queue) /\ queue'[k] = queue[k + 1]
  BY <1>1, TailQueue
<1>3. Landed = Len(queue) /\ Landed' = Len(queue) - 1 /\ Waiting' = Waiting /\ Loaded' = Loaded
  BY <1>1, <1>2 DEF Landed, Waiting, Loaded
<1>4. ASSUME NEW l \in Waiting, NEW n \in 0 .. Len(queue) - 1, Deleted(l, n + 1)
      PROVE  (Deleted(l, n))'
  <2>1. PICK d \in 1 .. n + 1 : Deletes(d, l)
    BY <1>4 DEF Deleted
  <2>2. d # 1
    BY <1>1, <2>1 DEF UnlistInv, Answered
  <2>3. d - 1 \in 1 .. n /\ d - 1 \in 1 .. Len(queue') /\ (d - 1) + 1 = d
    BY <1>2, <2>1, <2>2
  <2>4. queue'[d - 1] = queue[d]
    BY <1>2, <2>3
  <2> QED BY <2>1, <2>3, <2>4 DEF Deleted, Deletes
<1>5. SnapshotsHaveIt'
  <2> SUFFICES ASSUME NEW l \in Waiting, NEW k \in 1 .. Len(queue')
               PROVE  \/ (Creates(k, l))'
                      \/ queue'[k].previous # Unknown /\ l \in queue'[k].previous
                      \/ (Deleted(l, k - 1))'
    BY <1>2, <1>3 DEF SnapshotsHaveIt
  <2>1. k + 1 \in 1 .. Len(queue) /\ queue'[k] = queue[k + 1]
    BY <1>2
  <2>2. k - 1 \in 0 .. Len(queue) - 1 /\ (k + 1) - 1 = (k - 1) + 1
    BY <1>2
  <2>3. \/ Creates(k + 1, l)
        \/ queue[k + 1].previous # Unknown /\ l \in queue[k + 1].previous
        \/ Deleted(l, (k - 1) + 1)
    BY <1>3, <2>1, <2>2 DEF UnlistInv, SnapshotsHaveIt
  <2> QED BY <1>4, <2>1, <2>2, <2>3 DEF Creates
<1>6. CacheHasIt'
  <2>1. Len(queue) - 1 \in 0 .. Len(queue) - 1 /\ (Len(queue) - 1) + 1 = Len(queue)
    BY <1>2
  <2> QED BY <1>1, <1>3, <1>4, <2>1 DEF UnlistInv, CacheHasIt
<1>7. AskedLater' /\ Answered' /\ RouteHasIt'
  BY <1>1, <1>3 DEF UnlistInv, AskedLater, Answered, RouteHasIt
<1> QED BY <1>1, <1>5, <1>6, <1>7 DEF UnlistInv

\* A tap: the mutation is last, and the tab shows a list it leaves.
LEMMA MutatesUnlist ==
  ASSUME Types, UnlistInv,
         NEW kind \in {"create", "rename", "delete"}, NEW l \in used', Mutates(kind, l),
         used \subseteq used', used' \subseteq Lists,
         route' \in used', last' \in used' \cup {Root},
         alone' = alone \/ (kind = "create" /\ queue = <<>> /\ alone' = alone \cup {l}),
         route' \in Waiting' =>
           \/ route' \in Loaded /\ (kind = "delete" => route' # l)
           \/ kind = "create" /\ route' = l
  PROVE  UnlistInv'
<1>1. /\ Len(queue') = Len(queue) + 1
      /\ queue'[Len(queue')].kind = kind /\ queue'[Len(queue')].list = l
      /\ \A k \in 1 .. Len(queue) : queue'[k] = queue[k]
  BY MutatesTypes
<1>2. ~landing /\ landing' /\ UNCHANGED <<cached, fetching, stage, heard>>
  BY DEF Mutates, lists
<1>3. Len(queue) \in Nat
  BY DEF Types
<1>4. Landed = Len(queue) /\ Landed' = Len(queue) /\ Loaded' = Loaded
  BY <1>1, <1>2, <1>3 DEF Landed, Loaded
<1>5. \A x \in Waiting' : x \in Waiting \/ (kind = "create" /\ x = l /\ queue = <<>>)
  BY <1>2 DEF Waiting
<1>6. \A x : \A n \in 0 .. Len(queue) : Deleted(x, n) <=> (Deleted(x, n))'
  BY <1>1, <1>3 DEF Deleted, Deletes
<1>7. Answered'
  <2>1. stage = "settling" => queue # <<>>
    BY DEF Types, TypeOK
  <2>2. queue # <<>> => 1 \in 1 .. Len(queue)
    BY HeadType
  <2> QED BY <1>1, <1>2, <1>5, <2>1, <2>2 DEF UnlistInv, Answered, Deletes
<1>8. SnapshotsHaveIt'
  <2> SUFFICES ASSUME NEW x \in Waiting', NEW k \in 1 .. Len(queue)
               PROVE  \/ (Creates(k, x))'
                      \/ queue'[k].previous # Unknown /\ x \in queue'[k].previous
                      \/ (Deleted(x, k - 1))'
    BY <1>4 DEF SnapshotsHaveIt
  <2>1. Len(queue) # 0 /\ k - 1 \in 0 .. Len(queue)
    BY <1>3
  <2>2. Len(<<>>) = 0
    OBVIOUS
  <2>3. queue # <<>>
    BY <2>1, <2>2, Zenon
  <2>4. x \in Waiting
    BY <1>5, <2>3
  <2> QED BY <1>1, <1>4, <1>6, <2>1, <2>4 DEF UnlistInv, SnapshotsHaveIt, Creates
<1>9. CacheHasIt'
  <2>1. Len(queue) \in 0 .. Len(queue)
    BY <1>3
  <2> QED BY <1>1, <1>2, <1>4, <1>5, <1>6, <2>1 DEF UnlistInv, CacheHasIt, Creates
<1>10. RouteHasIt'
  BY <1>1, <1>2, <1>4 DEF RouteHasIt, Patched
<1>11. alone' \subseteq used'
  BY DEF UnlistInv
<1> QED BY <1>2, <1>7, <1>8, <1>9, <1>10, <1>11 DEF UnlistInv, AskedLater

LEMMA EditUnlist ==
  ASSUME Types, UnlistInv, (\E l \in Lists : createList(l)) \/ renameList \/ confirmDelete
  PROVE  UnlistInv'
<1>1. ASSUME NEW l \in Lists, createList(l) PROVE UnlistInv'
  BY <1>1, MutatesUnlist DEF createList, Goes, Types
<1>2. CASE renameList
  <2>1. route \in used /\ ~landing /\ UNCHANGED <<alone, heard>>
    BY <1>2 DEF renameList, Mutates, Types, TypeOK
  <2>2. route \in Waiting' => route \in Loaded
    BY <2>1 DEF UnlistInv, RouteHasIt, Waiting
  <2> QED BY <1>2, <2>1, <2>2, MutatesUnlist DEF renameList, Types, TypeOK
<1>3. CASE confirmDelete
  <2>1. route \in used /\ Loaded \subseteq used
    BY <1>3, LoadedType DEF confirmDelete, Types, TypeOK
  <2>2. CASE Shows("none")
    <3>1. UNCHANGED <<cached, fetching, sending, route, used, alone, asked, heard>>
      BY <2>2 DEF Shows, lists, history
    <3>2. AskedLater' /\ Answered'
      BY <3>1 DEF UnlistInv, AskedLater, Answered, Deletes, Waiting, sending
    <3> QED BY <3>1, <3>2, SameUnlist DEF sending
  <2>3. CASE /\ Mutates("delete", route) /\ UNCHANGED <<used, alone>>
             /\ \E fb \in Loaded \ {route} : Goes(fb)
    BY <2>1, <2>3, MutatesUnlist DEF Goes, Types
  <2> QED BY <1>3, <2>2, <2>3 DEF confirmDelete
<1> QED BY <1>1, <1>2, <1>3

\* onMutate: the snapshot is of a cache that has the list.
LEMMA OnMutateUnlist ==
  ASSUME Types, UnlistInv, onMutate
  PROVE  UnlistInv'
<1>0. PICK n : n = Len(queue)
  OBVIOUS
<1>1. /\ n \in Nat \ {0} /\ Len(queue') = n
      /\ \A k \in 1 .. n : queue'[k].kind = queue[k].kind /\ queue'[k].list = queue[k].list
      /\ \A k \in 1 .. n - 1 : queue'[k] = queue[k]
      /\ queue'[n].previous = cached
  BY <1>0, LandingQueue
<1>2. /\ landing /\ ~landing' /\ fetching' = "none" /\ cached' = Patched(Loaded, queue[n])
      /\ UNCHANGED <<stage, route, used, alone, heard>>
  BY <1>0 DEF onMutate, CancelQueries, screen
<1>3. queue[n] \in Mutation /\ n \in 1 .. n /\ 1 \in 1 .. n
  BY <1>0, <1>1 DEF Types
<1>4. cached' \subseteq Lists /\ Loaded' = cached'
  BY <1>2, <1>3, LoadedType, NavigationAssumption DEF Patched, Mutation, Loaded, Types
<1>5. Landed = n - 1 /\ Landed' = n /\ Waiting' = Waiting
  BY <1>0, <1>1, <1>2 DEF Landed, Waiting
<1>6. \A x : \A k \in 0 .. n : (Deleted(x, k))' <=> Deleted(x, k)
  BY <1>1 DEF Deleted, Deletes
<1>7. \A x \in Waiting : x \in Loaded \/ Deleted(x, n - 1) \/ Creates(n, x)
  BY <1>0, <1>5 DEF UnlistInv, CacheHasIt
<1>8. Answered'
  BY <1>1, <1>2, <1>3, <1>5 DEF UnlistInv, Answered, Deletes
<1>9. SnapshotsHaveIt'
  <2> SUFFICES ASSUME NEW x \in Waiting, NEW k \in 1 .. n
               PROVE  \/ (Creates(k, x))'
                      \/ queue'[k].previous # Unknown /\ x \in queue'[k].previous
                      \/ (Deleted(x, k - 1))'
    BY <1>5 DEF SnapshotsHaveIt
  <2>1. k - 1 \in 0 .. n /\ (k = n \/ k \in 1 .. n - 1)
    BY <1>1
  <2>2. CASE k = n
    <3>1. x \in Loaded => cached # Unknown /\ x \in cached
      BY DEF Loaded
    <3> QED BY <1>1, <1>3, <1>6, <1>7, <2>1, <2>2, <3>1 DEF Creates
  <2>3. CASE k \in 1 .. n - 1
    BY <1>1, <1>5, <1>6, <2>1, <2>3 DEF UnlistInv, SnapshotsHaveIt, Creates
  <2> QED BY <2>1, <2>2, <2>3
<1>10. CacheHasIt'
  <2> SUFFICES ASSUME NEW x \in Waiting PROVE x \in Loaded' \/ (Deleted(x, n))'
    BY <1>5 DEF CacheHasIt
  <2>1. Deleted(x, n - 1) \/ Deletes(n, x) => Deleted(x, n)
    BY <1>1, <1>3 DEF Deleted
  <2>2. n \in 0 .. n
    BY <1>1
  <2> QED BY <1>2, <1>3, <1>4, <1>6, <1>7, <2>1, <2>2
          DEF Creates, Deletes, Patched, Mutation
<1>11. RouteHasIt'
  BY <1>0, <1>2, <1>4, <1>5 DEF UnlistInv, RouteHasIt
<1> QED BY <1>2, <1>8, <1>9, <1>10, <1>11 DEF UnlistInv, AskedLater

LEMMA StepUnlist == Types /\ UnlistInv /\ [Next]_vars => UnlistInv'
<1> SUFFICES ASSUME Types, UnlistInv, [Next]_vars PROVE UnlistInv'
  OBVIOUS
<1>1. CASE UNCHANGED vars
  <2>1. UNCHANGED <<cached, fetching, queue, stage, landing, route, used, alone, asked, heard>>
    BY <1>1 DEF vars, lists, sending, screen, history
  <2>2. AskedLater' /\ Answered'
    BY <2>1 DEF UnlistInv, AskedLater, Answered, Deletes, Waiting
  <2> QED BY <2>1, <2>2, SameUnlist
<1> QED BY <1>1, FetchUnlist, ScreenUnlist, ServerUnlist, AnswerUnlist, SettleUnlist, EditUnlist,
           OnMutateUnlist DEF Next, Runs

-----------------------------------------------------------------------------
\* The timer of ListScreen is the only step that leaves a list for the root.
LEMMA OnlyBounceLeaves ==
  ASSUME Types, [Next]_vars, route' = Root, route # Root
  PROVE  Bounce
<1>1. Root \notin Lists /\ Loaded \subseteq Lists
  BY LoadedType, NavigationAssumption DEF Types
<1>2. ~ \E l \in Lists : Goes(l)
  BY <1>1 DEF Goes
<1>3. ~RootRedirect /\ ~(\E l \in Loaded : switchTo(l)) /\ ~(\E l \in Lists : createList(l))
  BY <1>1, <1>2 DEF RootRedirect, switchTo, createList
<1>4. ~confirmDelete /\ ~renameList /\ ~OpenDialog /\ ~onClose
  BY <1>1, <1>2 DEF confirmDelete, renameList, OpenDialog, onClose, Shows
<1>5. /\ ~Refetch /\ ~FetchFails /\ ~AnswerLost /\ ~Serve /\ ~Answer /\ ~Settle
      /\ ~FetchAnswered /\ ~FetchLands /\ ~onMutate /\ ~Foreign
  BY DEF Refetch, FetchFails, AnswerLost, Serve, Answer, Settle, FetchAnswered, FetchLands,
         onMutate, Foreign, screen
<1>6. ~UNCHANGED vars
  BY DEF vars, screen
<1> QED BY <1>3, <1>4, <1>5, <1>6 DEF Next, Runs

\* The tab leaves a list it has just created only once the server has had its
\* say on it: "List not found" is no artefact of the optimistic cache.
THEOREM OnlyTheServerUnlists == Spec => OnlyServerUnlists
<1>1. Types /\ UnlistInv /\ [Next]_vars =>
        (route' = Root /\ route # Root => route \notin alone \ heard)
  <2> SUFFICES ASSUME Types, UnlistInv, [Next]_vars, route' = Root, route # Root
               PROVE  route \notin Waiting
    BY DEF Waiting
  <2>1. ~landing /\ route \notin Loaded
    BY OnlyBounceLeaves DEF Bounce, Missing, Debounced, Loaded
  <2> QED BY <2>1 DEF UnlistInv, RouteHasIt
<1> QED BY <1>1, InitTypes, StepTypes, InitUnlist, StepUnlist, PTL DEF Spec, OnlyServerUnlists

=============================================================================
