--------------------------- MODULE MutationQueue ---------------------------
(***************************************************************************)
(* One tab's queue of edits: the mutations of api/queryClient.ts, sent by  *)
(* request() of api/client.ts, with the online state that markOffline and  *)
(* the browser keep and the storage that App.tsx persists the queue to.    *)
(*                                                                         *)
(* TanStack Query runs the queue; what it does under the options the app   *)
(* gives it is modelled as the app relies on it: the mutations of one      *)
(* scope run one at a time, first come first served; one that may not run, *)
(* or whose retry is due while the tab is offline or hidden, is paused;    *)
(* going online or coming into view continues the paused ones; only paused *)
(* mutations are dehydrated.                                               *)
(*                                                                         *)
(* An edit is the number of its tap, and a queue the set of its edits: the *)
(* scope, the storage and the restore keep the order of the taps.  A       *)
(* request that fails was served before it failed or never; one the page   *)
(* dies with likewise.                                                     *)
(***************************************************************************)
EXTENDS Naturals

CONSTANTS
  Edits,      \* bound: how many edits are tapped
  Links,      \* the links there may be: "up", "dead", "off"
  MaxBreaks,  \* bound: how often the link breaks
  MaxReloads, \* bound: how often the page dies and is loaded again
  MaxHides    \* bound: how often the tab is hidden

ASSUME QueueAssumption ==
  /\ {Edits, MaxBreaks, MaxReloads, MaxHides} \subseteq Nat
  /\ "up" \in Links /\ Links \subseteq {"up", "dead", "off"}

Edit == 1 .. Edits

VARIABLES
  link,     \* "dead" is a network the browser takes for a working one
  online,   \* onlineManager.isOnline()
  probing,  \* probeTimer is set
  focused,  \* the tab is in view
  queue,    \* the pending mutations of the scope
  phase,    \* how far each edit has come
  verdict,  \* what the server answered to it last
  disk,     \* the queue as last persisted
  arrived,  \* history: the edits the server was ever asked for
  kept,     \* history: the edits that were ever on disk
  breaks, reloads, hides

connection == <<link, online, probing, focused>>
history    == <<arrived, kept>>
bounds     == <<breaks, reloads, hides>>
vars == <<connection, queue, phase, verdict, disk, history, bounds>>

Paused  == {"parked", "restored"}
Running == {"sent", "answered", "sleeping", "settling"}
Pending == Paused \cup Running
Ended   == {"settled", "lost"}

Init ==
  /\ link = "up" /\ online = TRUE /\ probing = FALSE /\ focused = TRUE
  /\ queue = {} /\ disk = {}
  /\ phase = [m \in Edit |-> "untapped"]
  /\ verdict = [m \in Edit |-> "none"]
  /\ arrived = {} /\ kept = {}
  /\ breaks = 0 /\ reloads = 0 /\ hides = 0

-----------------------------------------------------------------------------
\* When a mutation may run

\* Mutant: no scope.
CanRunAny(q, m) == TRUE

\* m is the first pending mutation of its scope.
CanRun(q, m) == \A k \in q : m <= k

\* The phase of m once its retryer starts.
Started(q, m, on) == IF on /\ CanRun(q, m) THEN "sent" ELSE "parked"

\* Mutant: a restored mutation has nothing to continue.
ContinuedParked(ph, q, m, on, seen) ==
  IF ph[m] = "parked" /\ seen THEN Started(q, m, on) ELSE ph[m]

\* The phase of m after continue(): a paused mutation runs if it may, one that
\* was restored from storage starts, and any other is left alone.
Continued(ph, q, m, on, seen) ==
  IF ph[m] = "restored" THEN Started(q, m, on)
  ELSE IF ph[m] = "parked" /\ seen THEN Started(q, m, on)
  ELSE ph[m]

\* resumePausedMutations
Resumed(ph, q, on, seen) ==
  IF on THEN [m \in Edit |-> Continued(ph, q, m, on, seen)] ELSE ph

\* Mutant: nobody is told.
RunNextNone(ph, q) == ph

\* runNext: the first paused mutation of the scope is continued.
RunNext(ph, q) ==
  LET waiting == {m \in q : ph[m] \in Paused}
  IN  [m \in Edit |-> IF m \in waiting /\ CanRun(waiting, m)
                     THEN Continued(ph, q, m, online, focused)
                     ELSE ph[m]]

-----------------------------------------------------------------------------
\* Edits

\* The next edit is tapped: mutate() queues it, and runs it if it may.
Tap(m) ==
  /\ phase[m] = "untapped" /\ \A k \in 1 .. m - 1 : phase[k] # "untapped"
  /\ queue' = queue \cup {m}
  /\ phase' = [phase EXCEPT ![m] = Started(queue', m, online)]
  /\ UNCHANGED <<connection, verdict, disk, history, bounds>>

\* The server serves a request, or refuses it.
Serve(m) ==
  /\ phase[m] = "sent" /\ link = "up"
  /\ \E v \in {"ok", "refused"} : verdict' = [verdict EXCEPT ![m] = v]
  /\ phase' = [phase EXCEPT ![m] = "answered"]
  /\ arrived' = arrived \cup {m}
  /\ UNCHANGED <<connection, queue, disk, kept, bounds>>

\* request() returns, or throws what is no NetworkError and is not retried: an
\* ApiError, or a body that broke off.  The mutation has its callbacks to run.
Answer(m) ==
  /\ phase[m] = "answered"
  /\ phase' = [phase EXCEPT ![m] = "settling"]
  /\ UNCHANGED <<connection, queue, verdict, disk, history, bounds>>

\* Mutant: offline without a probe.
MarkOfflineOnly == online' = FALSE /\ UNCHANGED probing

MarkOffline == online' = FALSE /\ probing' = TRUE

\* request() throws a NetworkError, which is retried after a delay.
Fail(m) ==
  /\ phase[m] \in {"sent", "answered"} /\ link # "up"
  /\ MarkOffline
  /\ phase' = [phase EXCEPT ![m] = "sleeping"]
  /\ UNCHANGED <<link, focused, queue, verdict, disk, history, bounds>>

\* request() throws a NetworkError for a GET, which is not retried.
ReadFails ==
  /\ link # "up"
  /\ MarkOffline
  /\ UNCHANGED <<link, focused, queue, phase, verdict, disk, history, bounds>>

\* Mutant: a mutation that failed is given up.
RetriedNever(m) == "settling"

\* A NetworkError is retried for ever.
Retried(m) == IF focused THEN Started(queue, m, online) ELSE "parked"

\* The retry delay is over: the mutation is sent again, or paused.
Wake(m) ==
  /\ phase[m] = "sleeping"
  /\ phase' = [phase EXCEPT ![m] = Retried(m)]
  /\ UNCHANGED <<connection, queue, verdict, disk, history, bounds>>

\* Mutant: a settled mutation stays in the scope.
RemainingAll(q, m) == q

Remaining(q, m) == q \ {m}

\* The callbacks have run, and the next mutation of the scope is told.
Settle(m) ==
  /\ phase[m] = "settling"
  /\ queue' = Remaining(queue, m)
  /\ phase' = RunNext([phase EXCEPT ![m] = "settled"], queue')
  /\ UNCHANGED <<connection, verdict, disk, history, bounds>>

Step(m) == Serve(m) \/ Answer(m) \/ Fail(m) \/ Wake(m) \/ Settle(m)

-----------------------------------------------------------------------------
\* The connection

\* The browser fires "online" and "offline" as it believes, and the online
\* manager's listeners retire the probe and resume the queue.
LinkChanges(l) ==
  /\ l # link
  /\ IF link = "up" THEN breaks < MaxBreaks /\ breaks' = breaks + 1 ELSE UNCHANGED breaks
  /\ link' = l
  /\ IF l = "off"
     THEN online' = FALSE /\ UNCHANGED <<probing, phase>>
     ELSE IF link = "off"
     THEN /\ online' = TRUE /\ probing' = FALSE
          /\ phase' = IF online THEN phase ELSE Resumed(phase, queue, TRUE, focused)
     ELSE UNCHANGED <<online, probing, phase>>
  /\ UNCHANGED <<focused, queue, verdict, disk, history, reloads, hides>>

\* The probe of /api/healthz is answered.
ProbeAnswered ==
  /\ probing /\ link = "up"
  /\ probing' = FALSE /\ online' = TRUE
  /\ phase' = IF online THEN phase ELSE Resumed(phase, queue, TRUE, focused)
  /\ UNCHANGED <<link, focused, queue, verdict, disk, history, bounds>>

Hide ==
  /\ focused /\ hides < MaxHides
  /\ focused' = FALSE /\ hides' = hides + 1
  /\ UNCHANGED <<link, online, probing, queue, phase, verdict, disk, history, breaks, reloads>>

Show ==
  /\ ~focused
  /\ focused' = TRUE
  /\ phase' = Resumed(phase, queue, online, TRUE)
  /\ UNCHANGED <<link, online, probing, queue, verdict, disk, history, bounds>>

-----------------------------------------------------------------------------
\* Storage

\* dehydrate: the mutations that are paused.
Dehydrated == {m \in queue : phase[m] \in Paused}

\* The persister's throttle lets a write through.
Persist ==
  /\ disk' = Dehydrated /\ disk' # disk
  /\ kept' = kept \cup disk'
  /\ UNCHANGED <<connection, queue, phase, verdict, arrived, bounds>>

\* The page dies and is loaded again: main.tsx seeds the online state from
\* navigator.onLine, the persisted queue is restored, and resumed if online.
Reload ==
  /\ reloads < MaxReloads /\ reloads' = reloads + 1
  /\ online' = (link # "off") /\ probing' = FALSE /\ focused' = TRUE
  /\ queue' = disk
  /\ LET restored == [m \in Edit |-> IF m \in disk THEN "restored"
                                     ELSE IF phase[m] \in Pending THEN "lost"
                                     ELSE phase[m]]
     IN  phase' = Resumed(restored, disk, online', TRUE)
  /\ UNCHANGED <<link, verdict, disk, history, breaks, hides>>

-----------------------------------------------------------------------------

Next ==
  \/ \E m \in Edit : Tap(m) \/ Step(m)
  \/ \E l \in Links : LinkChanges(l)
  \/ ReadFails \/ ProbeAnswered \/ Hide \/ Show \/ Persist \/ Reload

\* Requests end, timers fire and callbacks run; the probe is repeated until it
\* is answered.
Fairness == WF_vars(ProbeAnswered) /\ \A m \in Edit : WF_vars(Step(m))

Spec == Init /\ [][Next]_vars /\ Fairness

-----------------------------------------------------------------------------
\* Properties

\* The queue holds the edits that are pending.
TypeOK ==
  /\ link \in Links
  /\ {online, probing, focused} \subseteq BOOLEAN
  /\ phase \in [Edit -> {"untapped"} \cup Pending \cup Ended]
  /\ verdict \in [Edit -> {"none", "ok", "refused"}]
  /\ disk \subseteq Edit
  /\ queue = {m \in Edit : phase[m] \in Pending}
  /\ arrived \subseteq Edit /\ kept \subseteq Edit
  /\ breaks \in 0 .. MaxBreaks /\ reloads \in 0 .. MaxReloads /\ hides \in 0 .. MaxHides

\* Edits reach the server in the order of their taps: when one does, all those
\* tapped before it have, but for the ones that died with a page.
ServedInOrder ==
  \A m \in arrived : \A k \in 1 .. m - 1 : k \in arrived \/ phase[k] = "lost"

\* No wake-up is missed: while the tab is online and in view, the first edit of
\* the queue is under way, whatever order the last one settled, the connection
\* came back and the tab was shown in.
NothingStalls ==
  online /\ focused => \A m \in queue : CanRun(queue, m) => phase[m] \in Running

\* A tab that takes itself for offline will learn better: the browser knows, or
\* the probe is running.
OfflineEnds == online \/ probing \/ link = "off"

\* Every edit is settled in the end, unless it dies with a page, once the link
\* stays up and the tab is in view.
EveryEditEnds ==
  <>[](link = "up" /\ focused) => \A m \in Edit : phase[m] \in Pending ~> phase[m] \in Ended

Box ==
  INSTANCE Outbox WITH accepted <- {m \in Edit : phase[m] # "untapped"},
                       pending  <- queue,
                       arrived  <- arrived,
                       lost     <- {m \in Edit : phase[m] = "lost"}

\* Through all retries, pauses, resumes and reloads the queue is an outbox: it
\* delivers what it accepted in order, drops nothing undelivered but when the
\* page dies, and delivers nothing that was lost.
ImplementsOutbox == Box!Spec

\* What queryClient.ts says of mutations queued while offline: they survive a
\* reload, so one that was persisted is never dropped before it was sent.
QueuedSurvives == \A m \in kept : phase[m] = "lost" => m \in arrived
=============================================================================
