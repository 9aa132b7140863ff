--------------------------- MODULE ListViewProofs ---------------------------
(***************************************************************************)
(* Theorems about MutationQueue, for any number of edits, breaks, reloads  *)
(* and hidings, and about ListView above it, for any number of edits,      *)
(* drags among them.                                                       *)
(*                                                                         *)
(* The queue's inductive invariant adds to its properties what they lean   *)
(* on: taps come in order, what runs is the first of the queue, what is    *)
(* answered has arrived, and the storage holds no edit that was lost.      *)
(*                                                                         *)
(* Every step of the view is a step of the queue, whose invariant holds    *)
(* therefore; to it comes that while a mutation settles, or none is        *)
(* queued, what a refetch carries is the server's version: a mutation      *)
(* that settles is the only one under way, so nothing is served meanwhile. *)
(*                                                                         *)
(* Of the progress of edits, without fairness: none falls back on a link   *)
(* that is up, and the first of the queue can go on.                       *)
(***************************************************************************)
EXTENDS ListView, FiniteSetTheorems, TLAPS

Phase == {"untapped"} \cup Pending \cup Ended

TapsInOrder ==
  \A m \in Edit : phase[m] # "untapped" => \A k \in 1 .. m - 1 : phase[k] # "untapped"

RunningIsFirst == \A m \in Edit : phase[m] \in Running => CanRun(queue, m)

AnsweredArrived ==
  \A m \in Edit : phase[m] \in {"answered", "settling", "settled"} => m \in arrived

DiskIsTapped == \A m \in disk : phase[m] \notin {"untapped", "lost"}

IInv ==
  /\ TypeOK
  /\ TapsInOrder
  /\ RunningIsFirst
  /\ AnsweredArrived
  /\ DiskIsTapped
  /\ ServedInOrder
  /\ NothingStalls
  /\ OfflineEnds

-----------------------------------------------------------------------------
\* Continuing paused mutations

\* What continuing mutations of the queue q does: only paused ones change, they
\* are sent or stay paused, and only the first may be sent.
OnlyPausedChange(old, new, q) ==
  /\ new \in [Edit -> Phase]
  /\ \A m \in Edit : old[m] \notin Paused => new[m] = old[m]
  /\ \A m \in Edit : old[m] \in Paused =>
       new[m] \in Paused \/ (new[m] = "sent" /\ CanRun(q, m))

\* A mutation that is continued is sent if it is the first and the tab is online
\* and in view.
LEMMA ContinuedSends ==
  ASSUME NEW ph \in [Edit -> Phase], NEW q, NEW on \in BOOLEAN, NEW seen \in BOOLEAN,
         NEW m \in Edit
  PROVE  LET new == Continued(ph, q, m, on, seen)
         IN  /\ new \in Phase
             /\ ph[m] \notin Paused => new = ph[m]
             /\ ph[m] \in Paused => new \in Paused \/ (new = "sent" /\ CanRun(q, m))
             /\ ph[m] \in Paused /\ on /\ seen /\ CanRun(q, m) => new = "sent"
BY DEF Continued, Started, Phase, Paused, Pending, Running

LEMMA ResumedPhases ==
  ASSUME NEW ph \in [Edit -> Phase], NEW q, NEW on \in BOOLEAN, NEW seen \in BOOLEAN
  PROVE  /\ OnlyPausedChange(ph, Resumed(ph, q, on, seen), q)
         /\ on /\ seen => \A m \in Edit : ph[m] \in Paused /\ CanRun(q, m)
                                            => Resumed(ph, q, on, seen)[m] = "sent"
BY ContinuedSends DEF Resumed, OnlyPausedChange

LEMMA RunNextPhases ==
  ASSUME TypeOK, NEW ph \in [Edit -> Phase], NEW q \in SUBSET Edit
  PROVE  /\ OnlyPausedChange(ph, RunNext(ph, q), q)
         /\ online /\ focused => \A m \in q : ph[m] \in Paused /\ CanRun(q, m)
                                                => RunNext(ph, q)[m] = "sent"
<1>1. online \in BOOLEAN /\ focused \in BOOLEAN
  BY DEF TypeOK
<1>2. \A m \in q : CanRun(q, m) => CanRun({k \in q : ph[k] \in Paused}, m)
  BY DEF CanRun
<1> QED BY <1>1, <1>2, ContinuedSends DEF RunNext, OnlyPausedChange

-----------------------------------------------------------------------------
\* The inductive invariant

LEMMA EditIsNat == Edit \subseteq Nat /\ \A m \in Edit : \A k \in 1 .. m - 1 : k \in Edit /\ k < m
BY QueueAssumption DEF Edit

LEMMA InitIInv == Init => IInv
<1> SUFFICES ASSUME Init PROVE IInv
  OBVIOUS
<1>1. TypeOK
  <2>1. link \in Links /\ {online, probing, focused} \subseteq BOOLEAN
    BY QueueAssumption DEF Init
  <2>2. queue = {m \in Edit : phase[m] \in Pending}
    BY DEF Init, Pending, Paused, Running
  <2>3. breaks \in 0 .. MaxBreaks /\ reloads \in 0 .. MaxReloads /\ hides \in 0 .. MaxHides
    BY QueueAssumption DEF Init
  <2> QED BY <2>1, <2>2, <2>3 DEF Init, TypeOK
<1> QED BY <1>1 DEF Init, IInv, TapsInOrder, RunningIsFirst, AnsweredArrived, DiskIsTapped,
                    ServedInOrder, NothingStalls, OfflineEnds, Running

\* Steps of the connection that continue mutations of an unchanged queue, or
\* leave all of them alone.
LEMMA ConnectionIInv ==
  ASSUME IInv,
         OnlyPausedChange(phase, phase', queue),
         online' /\ focused' =>
           \/ online /\ focused
           \/ \A m \in Edit : phase[m] \in Paused /\ CanRun(queue, m) => phase'[m] = "sent",
         TypeOK', OfflineEnds',
         UNCHANGED <<queue, verdict, disk, history>>
  PROVE  IInv'
<1>1. phase \in [Edit -> Phase] /\ queue = {m \in Edit : phase[m] \in Pending}
  BY DEF IInv, TypeOK, Phase
<1>2. phase' \in [Edit -> Phase]
  BY DEF OnlyPausedChange
<1>3. TapsInOrder'
  BY <1>1, EditIsNat DEF IInv, TapsInOrder, OnlyPausedChange, Paused
<1>4. RunningIsFirst'
  BY <1>1 DEF IInv, RunningIsFirst, OnlyPausedChange, Paused, Running, CanRun
<1>5. AnsweredArrived' /\ DiskIsTapped'
  BY <1>1 DEF IInv, TypeOK, AnsweredArrived, DiskIsTapped, OnlyPausedChange, Paused, history
<1>6. ServedInOrder'
  BY <1>1, EditIsNat DEF IInv, TypeOK, ServedInOrder, OnlyPausedChange, Paused, history
<1>7. NothingStalls'
  BY <1>1 DEF IInv, NothingStalls, OnlyPausedChange, Paused, Pending, Running, CanRun
<1> QED BY <1>3, <1>4, <1>5, <1>6, <1>7 DEF IInv

-----------------------------------------------------------------------------
\* Edits

LEMMA TapIInv ==
  ASSUME IInv, NEW m \in Edit, Tap(m)
  PROVE  IInv'
<1>1. phase \in [Edit -> Phase] /\ queue = {k \in Edit : phase[k] \in Pending}
  BY DEF IInv, TypeOK, Phase
<1>2. /\ phase[m] = "untapped" /\ m \notin queue /\ m \notin disk
      /\ queue' = queue \cup {m} /\ phase' = [phase EXCEPT ![m] = Started(queue', m, online)]
      /\ UNCHANGED <<connection, verdict, disk, history, bounds>>
  BY <1>1 DEF Tap, IInv, DiskIsTapped, Pending, Paused, Running
<1>3. /\ phase'[m] \in {"sent", "parked"}
      /\ phase'[m] = "sent" => CanRun(queue', m)
      /\ online /\ CanRun(queue', m) => phase'[m] = "sent"
      /\ \A k \in Edit \ {m} : phase'[k] = phase[k]
      /\ phase' \in [Edit -> Phase]
  BY <1>1, <1>2 DEF Started, Phase, Pending, Paused, Running
<1>4. \A k \in queue : k < m
  <2> SUFFICES ASSUME NEW k \in queue, ~(k < m) PROVE FALSE
    OBVIOUS
  <2>1. k \in Edit /\ phase[k] # "untapped" /\ m < k
    BY <1>1, <1>2, EditIsNat DEF Pending, Paused, Running
  <2>2. m \in 1 .. k - 1
    BY <2>1, QueueAssumption DEF Edit
  <2> QED BY <1>2, <2>1, <2>2 DEF IInv, TapsInOrder
<1>5. TypeOK'
  <2>1. queue' = {k \in Edit : phase'[k] \in Pending}
    BY <1>1, <1>2, <1>3 DEF Pending, Paused, Running
  <2> QED BY <1>2, <1>3, <2>1 DEF IInv, TypeOK, Phase, connection, history, bounds
<1>6. TapsInOrder'
  BY <1>1, <1>2, <1>3, EditIsNat DEF Tap, IInv, TapsInOrder
<1>7. RunningIsFirst'
  <2>1. \A k \in Edit \ {m} : phase[k] \in Running => k \in queue /\ CanRun(queue, k)
    BY <1>1 DEF IInv, RunningIsFirst, Pending
  <2>2. \A k \in queue : CanRun(queue, k) => CanRun(queue', k)
    BY <1>1, <1>2, <1>4, EditIsNat DEF CanRun
  <2>3. phase'[m] \in Running => CanRun(queue', m)
    BY <1>3 DEF Running
  <2> QED BY <1>3, <2>1, <2>2, <2>3 DEF RunningIsFirst, CanRun
<1>8. AnsweredArrived' /\ DiskIsTapped'
  BY <1>1, <1>2, <1>3 DEF IInv, AnsweredArrived, DiskIsTapped, TypeOK, history
<1>9. ServedInOrder'
  BY <1>1, <1>2, <1>3, EditIsNat DEF IInv, ServedInOrder, TypeOK, history
<1>10. NothingStalls'
  <2>1. online' = online /\ focused' = focused
    BY <1>2 DEF connection
  <2>2. \A k \in queue : CanRun(queue', k) => CanRun(queue, k)
    BY <1>2 DEF CanRun
  <2>3. \A k \in queue : k \in Edit /\ k # m
    BY <1>1, <1>2
  <2>4. online /\ focused => \A k \in queue : CanRun(queue', k) => phase'[k] \in Running
    BY <1>3, <2>2, <2>3 DEF IInv, NothingStalls
  <2>5. online /\ CanRun(queue', m) => phase'[m] \in Running
    BY <1>3 DEF Running
  <2> QED BY <1>2, <2>1, <2>4, <2>5 DEF NothingStalls, CanRun
<1>11. OfflineEnds'
  BY <1>2 DEF IInv, OfflineEnds, connection
<1> QED BY <1>5, <1>6, <1>7, <1>8, <1>9, <1>10, <1>11 DEF IInv

\* A step of one edit that is running and stays so.
LEMMA RunsOnIInv ==
  ASSUME IInv, NEW m \in Edit, NEW p \in Running, phase[m] \in Running,
         p \in {"answered", "settling"} => m \in arrived',
         phase' = [phase EXCEPT ![m] = p],
         arrived' = arrived \/ (phase[m] = "sent" /\ arrived' = arrived \cup {m}),
         verdict' \in [Edit -> {"none", "ok", "refused"}],
         online' \in BOOLEAN, probing' \in BOOLEAN, OfflineEnds',
         online' => online,
         UNCHANGED <<link, focused, queue, disk, kept, bounds>>
  PROVE  IInv'
<1>1. phase \in [Edit -> Phase] /\ queue = {k \in Edit : phase[k] \in Pending} /\ arrived \subseteq Edit
  BY DEF IInv, TypeOK, Phase
<1>2. phase'[m] = p /\ \A k \in Edit \ {m} : phase'[k] = phase[k]
  BY <1>1
<1>3. phase' \in [Edit -> Phase] /\ queue' = {k \in Edit : phase'[k] \in Pending}
  BY <1>1, <1>2 DEF Phase, Pending
<1>4. TypeOK'
  BY <1>1, <1>3 DEF IInv, TypeOK, Phase, bounds
<1>5. TapsInOrder'
  BY <1>1, <1>2, EditIsNat DEF IInv, TapsInOrder, Running
<1>6. RunningIsFirst'
  BY <1>1, <1>2 DEF IInv, RunningIsFirst, CanRun
<1>7. AnsweredArrived' /\ DiskIsTapped'
  BY <1>1, <1>2 DEF IInv, TypeOK, AnsweredArrived, DiskIsTapped, Running
<1>8. ServedInOrder'
  <2> SUFFICES ASSUME NEW n \in arrived', NEW k \in 1 .. n - 1
               PROVE  k \in arrived' \/ phase'[k] = "lost"
    BY DEF ServedInOrder
  <2>1. n \in Edit /\ k \in Edit /\ k < n
    BY <1>1, EditIsNat
  <2>2. CASE n \in arrived
    <3>1. k \in arrived \/ phase[k] = "lost"
      BY <2>2 DEF IInv, ServedInOrder
    <3> QED BY <1>2, <2>1, <3>1 DEF Running
  <2>3. CASE n \notin arrived
    <3>1. n = m /\ phase[m] = "sent"
      BY <2>3
    <3>2. k \notin queue
      BY <2>1, <3>1, EditIsNat DEF IInv, RunningIsFirst, CanRun
    <3>3. phase[k] # "untapped"
      BY <2>1, <3>1 DEF IInv, TapsInOrder
    <3>4. phase[k] \in {"settled", "lost"}
      BY <1>1, <2>1, <3>2, <3>3 DEF Phase, Ended
    <3> QED BY <1>2, <2>1, <3>1, <3>4 DEF IInv, AnsweredArrived
  <2> QED BY <2>2, <2>3
<1>9. NothingStalls'
  BY <1>1, <1>2 DEF IInv, NothingStalls, CanRun
<1> QED BY <1>4, <1>5, <1>6, <1>7, <1>8, <1>9 DEF IInv

LEMMA ServeIInv ==
  ASSUME IInv, NEW m \in Edit, Serve(m)
  PROVE  IInv'
<1>1. verdict \in [Edit -> {"none", "ok", "refused"}] /\ online \in BOOLEAN /\ probing \in BOOLEAN
  BY DEF IInv, TypeOK
<1>2. verdict' \in [Edit -> {"none", "ok", "refused"}]
  BY <1>1 DEF Serve
<1>3. OfflineEnds'
  BY DEF Serve, IInv, OfflineEnds, connection
<1> QED BY <1>1, <1>2, <1>3, RunsOnIInv DEF Serve, Running, connection

LEMMA AnswerIInv ==
  ASSUME IInv, NEW m \in Edit, Answer(m)
  PROVE  IInv'
<1>1. verdict \in [Edit -> {"none", "ok", "refused"}] /\ online \in BOOLEAN /\ probing \in BOOLEAN
  BY DEF IInv, TypeOK
<1>2. OfflineEnds'
  BY DEF Answer, IInv, OfflineEnds, connection
<1>3. m \in arrived'
  BY DEF Answer, IInv, AnsweredArrived, history
<1> QED BY <1>1, <1>2, <1>3, RunsOnIInv DEF Answer, Running, connection, history

LEMMA FailIInv ==
  ASSUME IInv, NEW m \in Edit, Fail(m)
  PROVE  IInv'
<1>1. verdict \in [Edit -> {"none", "ok", "refused"}]
  BY DEF IInv, TypeOK
<1>2. OfflineEnds'
  BY DEF Fail, MarkOffline, OfflineEnds
<1> QED BY <1>1, <1>2, RunsOnIInv DEF Fail, MarkOffline, Running, history

\* An edit that wakes up is still the first of the queue.
LEMMA WakeIInv ==
  ASSUME IInv, NEW m \in Edit, Wake(m)
  PROVE  IInv'
<1>1. /\ phase \in [Edit -> Phase] /\ queue = {k \in Edit : phase[k] \in Pending}
      /\ arrived \subseteq Edit /\ online \in BOOLEAN /\ focused \in BOOLEAN
  BY DEF IInv, TypeOK, Phase
<1>2. /\ phase[m] = "sleeping" /\ CanRun(queue, m)
      /\ UNCHANGED <<connection, queue, verdict, disk, history, bounds>>
  BY DEF Wake, IInv, RunningIsFirst, Running
<1>3. /\ phase'[m] \in {"sent", "parked"}
      /\ online /\ focused => phase'[m] = "sent"
      /\ \A k \in Edit \ {m} : phase'[k] = phase[k]
      /\ phase' \in [Edit -> Phase]
  BY <1>1, <1>2 DEF Wake, Retried, Started, Phase, Pending, Paused, Running
<1>4. TypeOK'
  <2>1. queue' = {k \in Edit : phase'[k] \in Pending}
    BY <1>1, <1>2, <1>3 DEF Pending, Paused, Running
  <2> QED BY <1>2, <1>3, <2>1 DEF IInv, TypeOK, Phase, connection, history, bounds
<1>5. TapsInOrder'
  BY <1>2, <1>3, EditIsNat DEF IInv, TapsInOrder
<1>6. RunningIsFirst'
  BY <1>2, <1>3 DEF IInv, RunningIsFirst, CanRun
<1>7. AnsweredArrived' /\ DiskIsTapped'
  BY <1>2, <1>3 DEF IInv, TypeOK, AnsweredArrived, DiskIsTapped, history
<1>8. ServedInOrder'
  BY <1>1, <1>2, <1>3, EditIsNat DEF IInv, ServedInOrder, history
<1>9. NothingStalls'
  BY <1>1, <1>2, <1>3 DEF IInv, NothingStalls, CanRun, Running, connection
<1>10. OfflineEnds'
  BY <1>2 DEF IInv, OfflineEnds, connection
<1> QED BY <1>4, <1>5, <1>6, <1>7, <1>8, <1>9, <1>10 DEF IInv

\* When an edit settles, what waits behind it is paused, and the first of it is
\* continued.
LEMMA SettleIInv ==
  ASSUME IInv, NEW m \in Edit, Settle(m)
  PROVE  IInv'
<1> DEFINE ph == [phase EXCEPT ![m] = "settled"]
<1>1. /\ phase \in [Edit -> Phase] /\ queue = {k \in Edit : phase[k] \in Pending}
      /\ arrived \subseteq Edit /\ TypeOK
  BY DEF IInv, TypeOK, Phase
<1>2. /\ phase[m] = "settling" /\ CanRun(queue, m)
      /\ queue' = queue \ {m} /\ phase' = RunNext(ph, queue')
      /\ UNCHANGED <<connection, verdict, disk, history, bounds>>
  BY DEF Settle, Remaining, IInv, RunningIsFirst, Running
<1>3. /\ ph \in [Edit -> Phase] /\ ph[m] = "settled"
      /\ \A k \in Edit \ {m} : ph[k] = phase[k]
  BY <1>1 DEF Phase, Ended
<1>4. /\ OnlyPausedChange(ph, phase', queue')
      /\ online /\ focused => \A k \in queue' : ph[k] \in Paused /\ CanRun(queue', k)
                                                  => phase'[k] = "sent"
  <2> HIDE DEF ph
  <2>1. queue' \in SUBSET Edit
    BY <1>1, <1>2
  <2> QED BY <1>1, <1>2, <1>3, <2>1, RunNextPhases
<1> HIDE DEF ph
<1>5. phase'[m] = "settled" /\ phase' \in [Edit -> Phase]
  BY <1>3, <1>4 DEF OnlyPausedChange, Paused
<1>6. \A k \in queue' : k \in Edit /\ k # m /\ phase[k] \in Paused /\ ph[k] = phase[k]
  <2> SUFFICES ASSUME NEW k \in queue' PROVE k \in Edit /\ k # m /\ phase[k] \in Paused
    BY <1>3
  <2>1. k \in queue /\ k \in Edit /\ k # m /\ phase[k] \in Pending
    BY <1>1, <1>2
  <2>2. phase[k] \notin Running
    <3>1. m \in queue
      BY <1>1, <1>2 DEF Pending, Running
    <3>2. phase[k] \in Running => k <= m /\ m <= k
      BY <1>2, <2>1, <3>1 DEF IInv, RunningIsFirst, CanRun
    <3> QED BY <2>1, <3>2, EditIsNat
  <2> QED BY <2>1, <2>2 DEF Pending
<1>7. \A k \in Edit \ {m} : /\ phase[k] \notin Paused => phase'[k] = phase[k]
                            /\ phase[k] \in Paused => phase'[k] \in Paused \cup {"sent"}
  BY <1>3, <1>4 DEF OnlyPausedChange
<1>8. TypeOK'
  <2>1. queue' = {k \in Edit : phase'[k] \in Pending}
    BY <1>1, <1>2, <1>5, <1>7 DEF Pending, Paused, Running
  <2> QED BY <1>2, <1>5, <2>1 DEF IInv, TypeOK, Phase, connection, history, bounds
<1>9. TapsInOrder'
  BY <1>2, <1>5, <1>7, EditIsNat DEF IInv, TapsInOrder, Paused
<1>10. RunningIsFirst'
  <2> SUFFICES ASSUME NEW k \in Edit, phase'[k] \in Running PROVE CanRun(queue', k)
    BY DEF RunningIsFirst, CanRun
  <2>1. k \in queue'
    BY <1>8 DEF TypeOK, Pending
  <2> QED BY <1>4, <1>6, <2>1 DEF OnlyPausedChange, Paused, Running
<1>11. AnsweredArrived' /\ DiskIsTapped'
  BY <1>1, <1>2, <1>5, <1>7 DEF IInv, TypeOK, AnsweredArrived, DiskIsTapped, Paused, history
<1>12. ServedInOrder'
  BY <1>1, <1>2, <1>7, EditIsNat DEF IInv, ServedInOrder, Paused, history
<1>13. NothingStalls'
  <2>1. online' = online /\ focused' = focused
    BY <1>2 DEF connection
  <2>2. online /\ focused => \A k \in queue' : CanRun(queue', k) => phase'[k] \in Running
    BY <1>4, <1>6 DEF Running
  <2> QED BY <2>1, <2>2 DEF NothingStalls, CanRun
<1>14. OfflineEnds'
  BY <1>2 DEF IInv, OfflineEnds, connection
<1> QED BY <1>8, <1>9, <1>10, <1>11, <1>12, <1>13, <1>14 DEF IInv

-----------------------------------------------------------------------------
\* The connection

\* A phase that no mutation leaves.
LEMMA NobodyContinues ==
  ASSUME IInv, NEW q
  PROVE  OnlyPausedChange(phase, phase, q)
BY DEF IInv, TypeOK, OnlyPausedChange, Phase

\* The pending edits are the same once some of them were continued.
LEMMA QueueStaysPending ==
  ASSUME IInv, NEW new, OnlyPausedChange(phase, new, queue)
  PROVE  queue = {m \in Edit : new[m] \in Pending}
<1>1. queue = {m \in Edit : phase[m] \in Pending}
  BY DEF IInv, TypeOK
<1>2. \A m \in Edit : phase[m] \in Pending <=> new[m] \in Pending
  BY DEF OnlyPausedChange, Pending, Paused, Running
<1> QED BY <1>1, <1>2

LEMMA LinkChangesIInv ==
  ASSUME IInv, NEW l \in Links, LinkChanges(l)
  PROVE  IInv'
<1>1. /\ phase \in [Edit -> Phase] /\ online \in BOOLEAN /\ probing \in BOOLEAN /\ focused \in BOOLEAN
      /\ breaks \in 0 .. MaxBreaks
  BY DEF IInv, TypeOK, Phase
<1>2. breaks' \in 0 .. MaxBreaks
  BY <1>1, QueueAssumption DEF LinkChanges
<1>3. OnlyPausedChange(phase, phase', queue)
  BY <1>1, NobodyContinues, ResumedPhases DEF LinkChanges
<1>4. online' /\ focused' =>
        \/ online /\ focused
        \/ \A m \in Edit : phase[m] \in Paused /\ CanRun(queue, m) => phase'[m] = "sent"
  BY <1>1, ResumedPhases DEF LinkChanges
<1>5. online' \in BOOLEAN /\ probing' \in BOOLEAN /\ OfflineEnds'
  BY <1>1 DEF LinkChanges, IInv, OfflineEnds
<1>6. phase' \in [Edit -> Phase] /\ queue = {m \in Edit : phase'[m] \in Pending}
  BY <1>3, QueueStaysPending DEF OnlyPausedChange
<1>7. TypeOK'
  BY <1>1, <1>2, <1>5, <1>6 DEF LinkChanges, IInv, TypeOK, Phase, history
<1>8. UNCHANGED <<queue, verdict, disk, history>>
  BY DEF LinkChanges
<1> QED BY <1>3, <1>4, <1>5, <1>7, <1>8, ConnectionIInv

LEMMA ProbeAnsweredIInv ==
  ASSUME IInv, ProbeAnswered
  PROVE  IInv'
<1>1. phase \in [Edit -> Phase] /\ online \in BOOLEAN /\ focused \in BOOLEAN
  BY DEF IInv, TypeOK, Phase
<1>2. OnlyPausedChange(phase, phase', queue)
  BY <1>1, NobodyContinues, ResumedPhases DEF ProbeAnswered
<1>3. online' /\ focused' =>
        \/ online /\ focused
        \/ \A m \in Edit : phase[m] \in Paused /\ CanRun(queue, m) => phase'[m] = "sent"
  BY <1>1, ResumedPhases DEF ProbeAnswered
<1>4. phase' \in [Edit -> Phase] /\ queue = {m \in Edit : phase'[m] \in Pending}
  BY <1>2, QueueStaysPending DEF OnlyPausedChange
<1>5. TypeOK'
  BY <1>4 DEF ProbeAnswered, IInv, TypeOK, Phase, history, bounds
<1>6. OfflineEnds' /\ UNCHANGED <<queue, verdict, disk, history>>
  BY DEF ProbeAnswered, OfflineEnds
<1> QED BY <1>2, <1>3, <1>5, <1>6, ConnectionIInv

LEMMA HideIInv ==
  ASSUME IInv, Hide
  PROVE  IInv'
<1>1. OnlyPausedChange(phase, phase', queue)
  BY NobodyContinues DEF Hide
<1>2. hides' \in 0 .. MaxHides
  BY QueueAssumption DEF Hide, IInv, TypeOK
<1>3. TypeOK'
  BY <1>2 DEF Hide, IInv, TypeOK, history
<1>4. ~focused' /\ OfflineEnds' /\ UNCHANGED <<queue, verdict, disk, history>>
  BY DEF Hide, IInv, OfflineEnds
<1> QED BY <1>1, <1>3, <1>4, ConnectionIInv

LEMMA ShowIInv ==
  ASSUME IInv, Show
  PROVE  IInv'
<1>1. phase \in [Edit -> Phase] /\ online \in BOOLEAN
  BY DEF IInv, TypeOK, Phase
<1>2. OnlyPausedChange(phase, phase', queue)
  BY <1>1, ResumedPhases DEF Show
<1>3. online' /\ focused' =>
        \A m \in Edit : phase[m] \in Paused /\ CanRun(queue, m) => phase'[m] = "sent"
  BY <1>1, ResumedPhases DEF Show
<1>4. phase' \in [Edit -> Phase] /\ queue = {m \in Edit : phase'[m] \in Pending}
  BY <1>2, QueueStaysPending DEF OnlyPausedChange
<1>5. TypeOK'
  BY <1>4 DEF Show, IInv, TypeOK, Phase, history, bounds
<1>6. OfflineEnds' /\ UNCHANGED <<queue, verdict, disk, history>>
  BY DEF Show, IInv, OfflineEnds
<1> QED BY <1>2, <1>3, <1>5, <1>6, ConnectionIInv

LEMMA ReadFailsIInv ==
  ASSUME IInv, ReadFails
  PROVE  IInv'
<1>1. OnlyPausedChange(phase, phase', queue)
  BY NobodyContinues DEF ReadFails
<1>2. TypeOK'
  BY DEF ReadFails, MarkOffline, IInv, TypeOK, history, bounds
<1>3. ~online' /\ OfflineEnds' /\ UNCHANGED <<queue, verdict, disk, history>>
  BY DEF ReadFails, MarkOffline, OfflineEnds
<1> QED BY <1>1, <1>2, <1>3, ConnectionIInv

-----------------------------------------------------------------------------
\* Storage

LEMMA PersistIInv ==
  ASSUME IInv, Persist
  PROVE  IInv'
<1>1. disk' \subseteq Edit /\ \A m \in disk' : phase[m] \in Paused
  BY DEF Persist, Dehydrated, IInv, TypeOK
<1>2. TypeOK'
  BY <1>1 DEF Persist, IInv, TypeOK, connection, bounds
<1>3. DiskIsTapped'
  BY <1>1 DEF Persist, DiskIsTapped, Paused
<1> QED BY <1>2, <1>3
        DEF Persist, IInv, TapsInOrder, RunningIsFirst, AnsweredArrived, ServedInOrder,
            NothingStalls, OfflineEnds, CanRun, connection

\* After a reload the queue is what was on disk, restored and resumed; what was
\* settled or lost before stays so unless it is on disk.
LEMMA ReloadIInv ==
  ASSUME IInv, Reload
  PROVE  IInv'
<1> DEFINE restored == [m \in Edit |-> IF m \in disk THEN "restored"
                                       ELSE IF phase[m] \in Pending THEN "lost"
                                       ELSE phase[m]]
<1>1. /\ phase \in [Edit -> Phase] /\ disk \subseteq Edit /\ arrived \subseteq Edit
      /\ reloads \in 0 .. MaxReloads
  BY DEF IInv, TypeOK, Phase
<1>2. /\ online' \in BOOLEAN /\ probing' = FALSE /\ focused' = TRUE
      /\ queue' = disk /\ phase' = Resumed(restored, disk, online', TRUE)
      /\ reloads' \in 0 .. MaxReloads /\ OfflineEnds'
      /\ UNCHANGED <<link, verdict, disk, history, breaks, hides>>
  <2>1. /\ online' = (link # "off") /\ probing' = FALSE /\ focused' = TRUE
        /\ queue' = disk /\ reloads < MaxReloads /\ reloads' = reloads + 1
        /\ UNCHANGED <<link, verdict, disk, history, breaks, hides>>
    BY DEF Reload
  <2>2. phase' = Resumed(restored, disk, online', TRUE)
    BY DEF Reload
  <2>3. reloads' \in 0 .. MaxReloads
    BY <1>1, <2>1, QueueAssumption
  <2>4. online' \in BOOLEAN /\ OfflineEnds'
    BY <2>1 DEF OfflineEnds
  <2> QED BY <2>1, <2>2, <2>3, <2>4
<1>3. /\ restored \in [Edit -> Phase]
      /\ \A m \in Edit : restored[m] \in Paused <=> m \in disk
      /\ \A m \in Edit : restored[m] \in Pending <=> m \in disk
      /\ \A m \in Edit : restored[m] = "untapped" <=> phase[m] = "untapped"
      /\ \A m \in Edit \ disk : phase[m] \notin Pending => restored[m] = phase[m]
      /\ \A m \in Edit \ disk : phase[m] \in Pending => restored[m] = "lost"
  BY <1>1 DEF Phase, Pending, Paused, Running, Ended, IInv, DiskIsTapped
<1> HIDE DEF restored
<1>4. /\ OnlyPausedChange(restored, phase', disk)
      /\ online' => \A m \in Edit : restored[m] \in Paused /\ CanRun(disk, m) => phase'[m] = "sent"
  BY <1>2, <1>3, ResumedPhases
<1>5. \A m \in disk : m \in Edit /\ phase'[m] \in Paused \cup {"sent"}
                      /\ (phase'[m] \in Running => CanRun(disk, m))
  BY <1>1, <1>3, <1>4 DEF OnlyPausedChange, Paused, Running
<1>6. \A m \in Edit \ disk : phase'[m] = restored[m] /\ restored[m] \notin Pending
  BY <1>3, <1>4 DEF OnlyPausedChange
<1>7. TypeOK'
  <2>1. queue' = {m \in Edit : phase'[m] \in Pending}
    BY <1>1, <1>2, <1>5, <1>6 DEF Pending, Paused, Running
  <2> QED BY <1>2, <1>4, <2>1 DEF OnlyPausedChange, IInv, TypeOK, Phase, history
<1>8. TapsInOrder'
  BY <1>3, <1>5, <1>6, EditIsNat DEF IInv, TapsInOrder, DiskIsTapped, Paused
<1>9. RunningIsFirst'
  BY <1>2, <1>5, <1>6 DEF RunningIsFirst, CanRun, Pending
<1>10. AnsweredArrived'
  BY <1>2, <1>3, <1>5, <1>6 DEF IInv, AnsweredArrived, Paused, Pending, Running, history
<1>11. DiskIsTapped'
  BY <1>2, <1>5 DEF DiskIsTapped, Paused
<1>12. ServedInOrder'
  <2> SUFFICES ASSUME NEW m \in arrived, NEW k \in 1 .. m - 1
               PROVE  k \in arrived \/ phase'[k] = "lost"
    BY <1>2 DEF ServedInOrder, history
  <2>1. k \in Edit /\ (k \in arrived \/ phase[k] = "lost")
    BY <1>1, EditIsNat DEF IInv, ServedInOrder
  <2>2. phase[k] = "lost" => k \notin disk /\ phase[k] \notin Pending
    BY DEF IInv, DiskIsTapped, Pending, Paused, Running
  <2> QED BY <1>3, <1>6, <2>1, <2>2
<1>13. NothingStalls'
  BY <1>1, <1>2, <1>3, <1>4 DEF NothingStalls, CanRun, Running
<1> QED BY <1>2, <1>7, <1>8, <1>9, <1>10, <1>11, <1>12, <1>13 DEF IInv

-----------------------------------------------------------------------------
\* The theorems

LEMMA NextIInv == IInv /\ [Next]_vars => IInv'
<1> SUFFICES ASSUME IInv, [Next]_vars PROVE IInv'
  OBVIOUS
<1>1. ASSUME NEW m \in Edit, Tap(m) \/ Step(m) PROVE IInv'
  BY <1>1, TapIInv, ServeIInv, AnswerIInv, FailIInv, WakeIInv, SettleIInv DEF Step
<1>2. ASSUME NEW l \in Links, LinkChanges(l) PROVE IInv'
  BY <1>2, LinkChangesIInv
<1>3. CASE ReadFails \/ ProbeAnswered \/ Hide \/ Show
  BY <1>3, ReadFailsIInv, ProbeAnsweredIInv, HideIInv, ShowIInv
<1>4. CASE Persist \/ Reload
  BY <1>4, PersistIInv, ReloadIInv
<1>5. CASE UNCHANGED vars
  BY <1>5 DEF vars, connection, history, bounds, IInv, TypeOK, TapsInOrder, RunningIsFirst,
              AnsweredArrived, DiskIsTapped, ServedInOrder, NothingStalls, OfflineEnds, CanRun
<1> QED BY <1>1, <1>2, <1>3, <1>4, <1>5 DEF Next

LEMMA Inductive == Spec => []IInv
BY InitIInv, NextIInv, PTL DEF Spec

\* The state of the tab keeps its type, and the queue holds just the edits that
\* are pending.
THEOREM TypeCorrect == Spec => []TypeOK
<1>1. IInv => TypeOK
  BY DEF IInv
<1> QED BY <1>1, Inductive, PTL

\* Edits reach the server in the order of their taps, whatever retries, pauses,
\* resumes and reloads they go through (the scope of queryClient.ts).
THEOREM EditsServedInOrder == Spec => []ServedInOrder
<1>1. IInv => ServedInOrder
  BY DEF IInv
<1> QED BY <1>1, Inductive, PTL

\* An online tab in view never has a queue whose first edit nobody continues.
THEOREM QueueNeverStalls == Spec => []NothingStalls
<1>1. IInv => NothingStalls
  BY DEF IInv
<1> QED BY <1>1, Inductive, PTL

\* A tab that is offline has a probe running, or a browser that will tell it
\* (markOffline of client.ts).
THEOREM OfflineIsWatched == Spec => []OfflineEnds
<1>1. IInv => OfflineEnds
  BY DEF IInv
<1> QED BY <1>1, Inductive, PTL

-----------------------------------------------------------------------------
\* The refinement

Accepted == {m \in Edit : phase[m] # "untapped"}
Lost     == {m \in Edit : phase[m] = "lost"}

\* What the outbox sees of a step that continues paused mutations, or moves one
\* from one pending phase to another: nothing.
LEMMA UnseenStep ==
  ASSUME IInv, UNCHANGED <<queue, arrived>>,
         \A m \in Edit : phase'[m] = phase[m] \/ (phase[m] \in Pending /\ phase'[m] \in Pending)
  PROVE  UNCHANGED Box!vars
<1>1. Accepted' = Accepted /\ Lost' = Lost
  BY DEF Accepted, Lost, Pending, Paused, Running
<1> QED BY <1>1 DEF Box!vars, Accepted, Lost

LEMMA ResumeUnseen ==
  ASSUME IInv, UNCHANGED <<queue, arrived>>, OnlyPausedChange(phase, phase', queue)
  PROVE  UNCHANGED Box!vars
<1>1. \A m \in Edit : phase'[m] = phase[m] \/ (phase[m] \in Pending /\ phase'[m] \in Pending)
  BY DEF OnlyPausedChange, Pending, Paused, Running
<1> QED BY <1>1, UnseenStep

LEMMA TapAccepts ==
  ASSUME IInv, NEW m \in Edit, Tap(m)
  PROVE  Box!Accept(m)
<1>1. /\ phase \in [Edit -> Phase] /\ phase[m] = "untapped"
      /\ \A k \in 1 .. m - 1 : phase[k] # "untapped"
      /\ queue' = queue \cup {m} /\ phase' = [phase EXCEPT ![m] = Started(queue', m, online)]
      /\ arrived' = arrived
  BY DEF Tap, IInv, TypeOK, Phase, history
<1>2. phase'[m] \in {"sent", "parked"} /\ \A k \in Edit \ {m} : phase'[k] = phase[k]
  BY <1>1 DEF Started
<1>3. Accepted' = Accepted \cup {m} /\ Lost' = Lost /\ m \notin Accepted
  BY <1>1, <1>2 DEF Accepted, Lost
<1>4. Box!Before(m) \subseteq Accepted
  <2> SUFFICES ASSUME NEW k \in Edit, k < m PROVE phase[k] # "untapped"
    BY DEF Box!Before, Accepted
  <2>1. k \in 1 .. m - 1
    BY QueueAssumption DEF Edit
  <2> QED BY <1>1, <2>1
<1> QED BY <1>1, <1>3, <1>4 DEF Box!Accept, Accepted, Lost

\* The first of the queue is delivered after all that were accepted before it.
LEMMA ServeDelivers ==
  ASSUME IInv, NEW m \in Edit, Serve(m)
  PROVE  Box!Deliver(m)
<1>1. /\ phase \in [Edit -> Phase] /\ queue = {k \in Edit : phase[k] \in Pending}
      /\ phase[m] = "sent" /\ CanRun(queue, m)
      /\ phase' = [phase EXCEPT ![m] = "answered"]
      /\ arrived' = arrived \cup {m} /\ queue' = queue
  BY DEF Serve, IInv, TypeOK, Phase, RunningIsFirst, Running
<1>2. Accepted' = Accepted /\ Lost' = Lost
  BY <1>1 DEF Accepted, Lost
<1>3. Box!Before(m) \subseteq arrived \cup Lost
  <2> SUFFICES ASSUME NEW k \in Edit, k < m PROVE k \in arrived \/ phase[k] = "lost"
    BY DEF Box!Before, Lost
  <2>1. k \in 1 .. m - 1 /\ k \notin queue
    BY <1>1, QueueAssumption DEF Edit, CanRun
  <2>2. phase[k] \in Ended
    BY <1>1, <2>1 DEF IInv, TapsInOrder, Phase
  <2> QED BY <2>2 DEF IInv, AnsweredArrived, Ended
<1>4. m \in queue
  BY <1>1 DEF Pending, Running
<1> QED BY <1>1, <1>2, <1>3, <1>4 DEF Box!Deliver, Accepted, Lost

\* What settles has been delivered.
LEMMA SettleFinishes ==
  ASSUME IInv, NEW m \in Edit, Settle(m)
  PROVE  Box!Finish(m)
<1> DEFINE settled == [phase EXCEPT ![m] = "settled"]
<1>1. /\ phase \in [Edit -> Phase] /\ queue = {k \in Edit : phase[k] \in Pending}
      /\ phase[m] = "settling" /\ m \in arrived
      /\ queue' = queue \ {m} /\ phase' = RunNext(settled, queue') /\ arrived' = arrived
  BY DEF Settle, Remaining, IInv, TypeOK, Phase, AnsweredArrived, history
<1>2. settled \in [Edit -> Phase] /\ queue' \in SUBSET Edit
  BY <1>1 DEF Phase, Ended
<1>3. OnlyPausedChange(settled, phase', queue')
  <2>1. TypeOK
    BY DEF IInv
  <2> HIDE DEF settled
  <2> QED BY <1>1, <1>2, <2>1, RunNextPhases
<1>4. \A k \in Edit : /\ (phase'[k] = "untapped" <=> phase[k] = "untapped")
                      /\ (phase'[k] = "lost" <=> phase[k] = "lost")
  BY <1>1, <1>3 DEF OnlyPausedChange, Paused
<1>5. Accepted' = Accepted /\ Lost' = Lost
  BY <1>4 DEF Accepted, Lost
<1>6. m \in queue
  BY <1>1 DEF Pending, Running
<1> QED BY <1>1, <1>5, <1>6 DEF Box!Finish, Accepted, Lost

\* A page that dies loses what is not on disk; the disk holds nothing lost.
LEMMA ReloadDies ==
  ASSUME IInv, Reload
  PROVE  Box!Die
<1> DEFINE restored == [m \in Edit |-> IF m \in disk THEN "restored"
                                       ELSE IF phase[m] \in Pending THEN "lost"
                                       ELSE phase[m]]
<1>1. /\ phase \in [Edit -> Phase] /\ disk \subseteq Edit
      /\ queue = {k \in Edit : phase[k] \in Pending}
      /\ \A m \in disk : phase[m] \notin {"untapped", "lost"}
  BY DEF IInv, TypeOK, Phase, DiskIsTapped
<1>2. /\ queue' = disk /\ arrived' = arrived /\ online' \in BOOLEAN
      /\ phase' = Resumed(restored, disk, online', TRUE)
  BY DEF Reload, history
<1>3. /\ restored \in [Edit -> Phase]
      /\ \A m \in disk : restored[m] = "restored"
      /\ \A m \in Edit \ disk :
           restored[m] = IF phase[m] \in Pending THEN "lost" ELSE phase[m]
  BY <1>1 DEF Phase, Pending, Paused, Ended
<1> HIDE DEF restored
<1>4. OnlyPausedChange(restored, phase', disk)
  BY <1>2, <1>3, ResumedPhases
<1>5. \A m \in disk : phase'[m] \notin {"untapped", "lost"}
  BY <1>1, <1>3, <1>4 DEF OnlyPausedChange, Paused
<1>6. \A m \in Edit \ disk :
        phase'[m] = IF phase[m] \in Pending THEN "lost" ELSE phase[m]
  BY <1>1, <1>3, <1>4 DEF OnlyPausedChange, Pending, Paused, Running
<1>7. Accepted' = Accepted
  BY <1>1, <1>5, <1>6 DEF Accepted, Pending, Paused, Running
<1>8. Lost' = Lost \cup (queue \ disk)
  BY <1>1, <1>5, <1>6 DEF Lost, Pending, Paused, Running
<1>9. disk \in SUBSET (Accepted \ Lost)
  BY <1>1 DEF Accepted, Lost
<1> QED BY <1>2, <1>7, <1>8, <1>9 DEF Box!Die, Accepted, Lost

LEMMA NextBox == IInv /\ [Next]_vars => [Box!Next]_(Box!vars)
<1> SUFFICES ASSUME IInv, [Next]_vars PROVE [Box!Next]_(Box!vars)
  OBVIOUS
<1>1. phase \in [Edit -> Phase] /\ online \in BOOLEAN /\ focused \in BOOLEAN
  BY DEF IInv, TypeOK, Phase
<1>2. ASSUME NEW m \in Edit, Tap(m) \/ Serve(m) \/ Settle(m) PROVE Box!Next
  BY <1>2, TapAccepts, ServeDelivers, SettleFinishes DEF Box!Next
<1>3. ASSUME NEW m \in Edit, Answer(m) \/ Fail(m) \/ Wake(m) PROVE UNCHANGED Box!vars
  <2>1. /\ UNCHANGED <<queue, arrived>>
        /\ phase[m] \in Pending /\ phase'[m] \in Pending
        /\ \A k \in Edit \ {m} : phase'[k] = phase[k]
    BY <1>1, <1>3 DEF Answer, Fail, Wake, Retried, Started, Pending, Paused, Running, history
  <2> QED BY <2>1, UnseenStep
<1>4. ASSUME NEW l \in Links, LinkChanges(l) PROVE UNCHANGED Box!vars
  <2>1. UNCHANGED <<queue, arrived>>
    BY <1>4 DEF LinkChanges, history
  <2>2. phase' = phase \/ phase' = Resumed(phase, queue, TRUE, focused)
    BY <1>4 DEF LinkChanges
  <2> QED BY <1>1, <2>1, <2>2, ResumedPhases, ResumeUnseen, UnseenStep
<1>5. CASE ProbeAnswered \/ Show
  <2>1. UNCHANGED <<queue, arrived>>
    BY <1>5 DEF ProbeAnswered, Show, history
  <2>2. \/ phase' = phase
        \/ \E on, seen \in BOOLEAN : phase' = Resumed(phase, queue, on, seen)
    BY <1>1, <1>5 DEF ProbeAnswered, Show
  <2> QED BY <1>1, <2>1, <2>2, ResumedPhases, ResumeUnseen, UnseenStep
<1>6. CASE ReadFails \/ Hide \/ Persist \/ UNCHANGED vars
  <2>1. UNCHANGED <<queue, phase, arrived>>
    BY <1>6 DEF ReadFails, Hide, Persist, vars, history
  <2> QED BY <2>1, UnseenStep
<1>7. CASE Reload
  BY <1>7, ReloadDies DEF Box!Next
<1> QED BY <1>2, <1>3, <1>4, <1>5, <1>6, <1>7 DEF Next, Step

\* The queue implements the outbox: whatever fails, pauses, resumes and reloads,
\* its edits are delivered in order and leave only delivered or with a page.
THEOREM QueueIsOutbox == Spec => ImplementsOutbox
<1>1. Init => Box!Init
  BY DEF Init, Box!Init
<1> QED BY <1>1, NextBox, Inductive, PTL DEF Spec, ImplementsOutbox, Box!Spec

-----------------------------------------------------------------------------
\* The way of an edit

\* The steps that an edit of the queue needs until it is settled, while the link
\* is up: to wake up, to be continued, served, answered and settled.
StepsLeft(m) ==
  CASE phase[m] = "sleeping"                 -> 5
    [] phase[m] \in Paused                   -> 4
    [] phase[m] = "sent"                     -> 3
    [] phase[m] = "answered"                 -> 2
    [] phase[m] = "settling"                 -> 1
    [] phase[m] \in {"untapped"} \cup Ended  -> 0

\* While the link is up and the page lives, no step brings a queued edit back,
\* and each of its own brings it forward.
EditsAdvance ==
  [][link = "up" /\ link' = "up" /\ reloads' = reloads =>
       \A m \in queue : /\ StepsLeft(m)' <= StepsLeft(m)
                        /\ Step(m) => StepsLeft(m)' < StepsLeft(m)]_vars

\* On a link that is up a queue waits for the probe, for the tab to be shown, or
\* for a step of its first edit.
QueueCanGoOn ==
  link = "up" /\ queue # {} =>
    \/ ~online /\ probing
    \/ ~focused
    \/ \E m \in queue : CanRun(queue, m) /\ phase[m] \in Running

\* Continuing paused edits leaves each where it was, or sends it.
LEMMA ContinuedAdvances ==
  ASSUME NEW q, OnlyPausedChange(phase, phase', q), NEW m \in Edit
  PROVE  StepsLeft(m)' <= StepsLeft(m)
<1>1. CASE phase[m] \notin Paused
  <2>1. phase'[m] = phase[m]
    BY <1>1 DEF OnlyPausedChange
  <2>2. StepsLeft(m)' = StepsLeft(m)
    BY <2>1 DEF StepsLeft, Paused, Ended
  <2>3. phase'[m] \in Phase
    BY DEF OnlyPausedChange
  <2>4. StepsLeft(m) \in {5, 3, 2, 1, 0}
    BY <1>1, <2>1, <2>3 DEF StepsLeft, Phase, Pending, Running, Paused, Ended
  <2> QED BY <2>2, <2>4
<1>2. CASE phase[m] \in Paused
  <2>1. phase'[m] \in Paused \/ phase'[m] = "sent"
    BY <1>2 DEF OnlyPausedChange
  <2>2. StepsLeft(m) = 4
    BY <1>2 DEF StepsLeft, Paused, Ended
  <2>3. StepsLeft(m)' \in {4, 3}
    BY <2>1 DEF StepsLeft, Paused, Ended
  <2> QED BY <2>2, <2>3
<1> QED BY <1>1, <1>2

LEMMA SamePhaseAdvances ==
  ASSUME NEW m, phase[m] \in Phase, phase'[m] = phase[m]
  PROVE  StepsLeft(m)' <= StepsLeft(m)
<1>1. StepsLeft(m) \in {5, 4, 3, 2, 1, 0}
  BY DEF StepsLeft, Phase, Pending, Paused, Running, Ended
<1>2. StepsLeft(m)' = StepsLeft(m)
  BY DEF StepsLeft, Paused, Ended
<1> QED BY <1>1, <1>2

\* A step of an edit that is under way; on a link that is up it does not fail.
LEMMA OwnStepAdvances ==
  ASSUME IInv, NEW m \in Edit, Step(m), link = "up"
  PROVE  /\ StepsLeft(m)' < StepsLeft(m)
         /\ \A k \in Edit \ {m} : StepsLeft(k)' <= StepsLeft(k)
<1>1. phase \in [Edit -> Phase]
  BY DEF IInv, TypeOK, Phase
<1>2. ASSUME NEW p, phase' = [phase EXCEPT ![m] = p]
      PROVE  phase'[m] = p /\ \A k \in Edit \ {m} : StepsLeft(k)' <= StepsLeft(k)
  <2>1. phase'[m] = p /\ \A k \in Edit \ {m} : phase'[k] = phase[k] /\ phase[k] \in Phase
    BY <1>1, <1>2
  <2> QED BY <2>1, SamePhaseAdvances
<1>3. CASE Serve(m)
  <2>1. phase[m] = "sent" /\ phase' = [phase EXCEPT ![m] = "answered"]
    BY <1>3 DEF Serve
  <2>2. StepsLeft(m) = 3 /\ StepsLeft(m)' = 2
    BY <1>2, <2>1 DEF StepsLeft, Paused, Ended
  <2>3. \A k \in Edit \ {m} : StepsLeft(k)' <= StepsLeft(k)
    BY <1>2, <2>1
  <2> QED BY <2>2, <2>3
<1>4. CASE Answer(m)
  <2>1. phase[m] = "answered" /\ phase' = [phase EXCEPT ![m] = "settling"]
    BY <1>4 DEF Answer
  <2>2. StepsLeft(m) = 2 /\ StepsLeft(m)' = 1
    BY <1>2, <2>1 DEF StepsLeft, Paused, Ended
  <2>3. \A k \in Edit \ {m} : StepsLeft(k)' <= StepsLeft(k)
    BY <1>2, <2>1
  <2> QED BY <2>2, <2>3
<1>5. CASE Fail(m)
  BY <1>5 DEF Fail
<1>6. CASE Wake(m)
  <2>1. phase[m] = "sleeping" /\ phase' = [phase EXCEPT ![m] = Retried(m)]
    BY <1>6 DEF Wake
  <2>2. Retried(m) \in {"sent", "parked"}
    BY DEF Retried, Started
  <2>3. StepsLeft(m) = 5
    BY <2>1 DEF StepsLeft, Paused, Ended
  <2>4. StepsLeft(m)' \in {4, 3}
    BY <1>2, <2>1, <2>2 DEF StepsLeft, Paused, Ended
  <2>5. \A k \in Edit \ {m} : StepsLeft(k)' <= StepsLeft(k)
    BY <1>2, <2>1
  <2> QED BY <2>3, <2>4, <2>5
<1>7. CASE Settle(m)
  <2> DEFINE settled == [phase EXCEPT ![m] = "settled"]
  <2>1. /\ phase[m] = "settling" /\ queue' = queue \ {m} /\ queue \subseteq Edit
        /\ phase' = RunNext(settled, queue')
    BY <1>7 DEF Settle, Remaining, IInv, TypeOK
  <2>2. /\ settled \in [Edit -> Phase] /\ settled[m] = "settled"
        /\ \A k \in Edit \ {m} : settled[k] = phase[k]
    BY <1>1 DEF Phase, Ended
  <2>3. OnlyPausedChange(settled, phase', queue')
    <3>1. queue' \in SUBSET Edit /\ TypeOK
      BY <2>1 DEF IInv
    <3> HIDE DEF settled
    <3> QED BY <2>1, <2>2, <3>1, RunNextPhases
  <2> HIDE DEF settled
  <2>4. phase'[m] = "settled"
    BY <2>2, <2>3 DEF OnlyPausedChange, Paused
  <2>5. StepsLeft(m) = 1 /\ StepsLeft(m)' = 0
    BY <2>1, <2>4 DEF StepsLeft, Paused, Ended
  <2>6. ASSUME NEW k \in Edit \ {m} PROVE StepsLeft(k)' <= StepsLeft(k)
    <3>1. CASE phase[k] \notin Paused
      <4>1. phase'[k] = phase[k] /\ phase[k] \in Phase
        BY <1>1, <2>2, <2>3, <3>1 DEF OnlyPausedChange
      <4> QED BY <4>1, SamePhaseAdvances
    <3>2. CASE phase[k] \in Paused
      <4>1. phase'[k] \in Paused \/ phase'[k] = "sent"
        BY <2>2, <2>3, <3>2 DEF OnlyPausedChange
      <4>2. StepsLeft(k) = 4
        BY <3>2 DEF StepsLeft, Paused, Ended
      <4>3. StepsLeft(k)' \in {4, 3}
        BY <4>1 DEF StepsLeft, Paused, Ended
      <4> QED BY <4>2, <4>3
    <3> QED BY <3>1, <3>2
  <2> QED BY <2>5, <2>6
<1> QED BY <1>3, <1>4, <1>5, <1>6, <1>7 DEF Step

\* On a link that stays up every edit comes nearer to its end, through pauses,
\* retries and whatever else the tab does (onlineManager, retry and scope in
\* queryClient.ts): the argument by which EveryEditEnds holds.
THEOREM EditsOnlyAdvance == Spec => EditsAdvance
<1>1. ASSUME IInv, Next, link = "up", link' = "up", reloads' = reloads, NEW m \in queue
      PROVE  StepsLeft(m)' <= StepsLeft(m) /\ (Step(m) => StepsLeft(m)' < StepsLeft(m))
  <2>1. /\ phase \in [Edit -> Phase] /\ m \in Edit /\ phase[m] \in Pending
        /\ online \in BOOLEAN /\ focused \in BOOLEAN
    BY <1>1 DEF IInv, TypeOK, Phase
  <2>2. Step(m) => StepsLeft(m)' < StepsLeft(m)
    BY <1>1, <2>1, OwnStepAdvances
  <2>3. StepsLeft(m) \in Nat
    BY <2>1 DEF StepsLeft, Pending, Paused, Running, Ended
  <2>4. ASSUME NEW k \in Edit, Step(k) PROVE StepsLeft(m)' <= StepsLeft(m)
    <3>1. CASE k = m
      <4>1. phase'[m] \in Phase
        BY <1>1, <2>1, NextIInv DEF IInv, TypeOK, Phase
      <4>2. StepsLeft(m)' \in Nat
        BY <4>1 DEF StepsLeft, Phase, Pending, Paused, Running, Ended
      <4> QED BY <2>2, <2>3, <2>4, <3>1, <4>2
    <3> QED BY <1>1, <2>1, <2>4, <3>1, OwnStepAdvances
  <2>5. ASSUME NEW k \in Edit, Tap(k) PROVE StepsLeft(m)' <= StepsLeft(m)
    <3>1. k # m /\ phase' = [phase EXCEPT ![k] = Started(queue', k, online)]
      BY <2>1, <2>5 DEF Tap, Pending, Paused, Running
    <3> QED BY <2>1, <3>1, SamePhaseAdvances
  <2>6. CASE \E l \in Links : LinkChanges(l)
    BY <1>1, <2>6 DEF LinkChanges
  <2>7. CASE ProbeAnswered \/ Show
    <3>1. \/ phase' = phase
          \/ \E on, seen \in BOOLEAN : phase' = Resumed(phase, queue, on, seen)
      BY <2>1, <2>7 DEF ProbeAnswered, Show
    <3>2. CASE phase' = phase
      BY <2>1, <2>2, <3>2, SamePhaseAdvances
    <3>3. ASSUME NEW on \in BOOLEAN, NEW seen \in BOOLEAN, phase' = Resumed(phase, queue, on, seen)
          PROVE  StepsLeft(m)' <= StepsLeft(m)
      BY <2>1, <3>3, ResumedPhases, ContinuedAdvances
    <3> QED BY <2>2, <3>1, <3>2, <3>3
  <2>8. CASE ReadFails \/ Hide \/ Persist
    <3>1. phase' = phase
      BY <2>8 DEF ReadFails, Hide, Persist
    <3> QED BY <2>1, <2>2, <3>1, SamePhaseAdvances
  <2>9. CASE Reload
    BY <1>1, <2>9, QueueAssumption DEF Reload, IInv, TypeOK
  <2> QED BY <1>1, <2>2, <2>4, <2>5, <2>6, <2>7, <2>8, <2>9 DEF Next
<1>2. IInv /\ [Next]_vars =>
        [link = "up" /\ link' = "up" /\ reloads' = reloads =>
           \A m \in queue : /\ StepsLeft(m)' <= StepsLeft(m)
                            /\ Step(m) => StepsLeft(m)' < StepsLeft(m)]_vars
  BY <1>1
<1> QED BY <1>2, Inductive, PTL DEF Spec, EditsAdvance

\* Every set of edits has a first.
LEMMA HasFirst ==
  ASSUME NEW q \in SUBSET Edit, q # {}
  PROVE  \E m \in q : CanRun(q, m)
<1> DEFINE Below(m) == {k \in q : k < m}
           T == {Below(m) : m \in q}
<1>1. q \subseteq Nat /\ IsFiniteSet(q)
  <2>1. IsFiniteSet(1 .. Edits)
    BY FS_Interval, QueueAssumption
  <2> QED BY <2>1, EditIsNat, FS_Subset DEF Edit
<1>2. T \subseteq FiniteSubsetsOf(q) /\ T # {}
  <2>1. \A m \in q : Below(m) \in SUBSET q
    OBVIOUS
  <2>2. \A m \in q : IsFiniteSet(Below(m))
    BY <1>1, <2>1, FS_Subset
  <2> QED BY <2>1, <2>2 DEF FiniteSubsetsOf
<1>3. PICK U \in T : \A V \in T : <<V, U>> \notin StrictSubsetOrdering(q)
  <2> HIDE DEF T
  <2> QED BY <1>1, <1>2, FS_StrictSubsetOrderingWellFounded, WFMin
<1>4. PICK m \in q : U = Below(m)
  BY <1>3
<1>5. ASSUME NEW k \in q, k < m PROVE FALSE
  <2>1. Below(k) \subseteq Below(m) /\ k \in Below(m) /\ k \notin Below(k)
    <3>1. \A i \in q : i < k => i < m
      BY <1>1, <1>5
    <3>2. ~(k < k)
      BY <1>1
    <3> QED BY <1>5, <3>1, <3>2
  <2>2. <<Below(k), Below(m)>> \in StrictSubsetOrdering(q)
    BY <2>1 DEF StrictSubsetOrdering
  <2> QED BY <1>3, <1>4, <2>2
<1> QED BY <1>1, <1>5 DEF CanRun

LEMMA FirstIsUnderWay == IInv => QueueCanGoOn
<1> SUFFICES ASSUME IInv, link = "up", queue # {}, online, focused
             PROVE  \E m \in queue : CanRun(queue, m) /\ phase[m] \in Running
  BY DEF QueueCanGoOn, IInv, TypeOK, OfflineEnds
<1>1. PICK m \in queue : CanRun(queue, m)
  BY HasFirst DEF IInv, TypeOK
<1> QED BY <1>1 DEF IInv, NothingStalls

\* On a link that is up a queue never waits for nothing: unless the tab is
\* offline, with its probe running, or hidden, its first edit is under way.
THEOREM QueueGoesOn == Spec => []QueueCanGoOn
BY FirstIsUnderWay, Inductive, PTL

-----------------------------------------------------------------------------
\* The view

\* No mutation is under way that the server has not answered.
Resting == Calm \/ \E m \in queue : phase[m] = "settling"

RefetchIsTrue ==
  breaks = 0 =>
    /\ link = "up"
    /\ fetching = "answered" /\ Resting => carried = served
    /\ /\ fetching = "none"
       /\ \A m \in queue : queue = {m} /\ phase[m] = "settling"
       => shown = served

ViewInv == ViewTypeOK /\ RefetchIsTrue

-----------------------------------------------------------------------------
\* The queue below the view

LEMMA ViewStepIsQueueStep == [ViewNext]_allVars => [Next]_vars
<1> SUFFICES ASSUME ViewNext PROVE [Next]_vars
  BY DEF allVars
<1>1. ASSUME NEW m \in Edit, TapShown(m) \/ StepShown(m) PROVE Next
  BY <1>1 DEF TapShown, StepShown, ServeEdit, AnswerShown, SettleShown, Next, Step
<1>2. CASE Refetch \/ Recheck \/ Poll \/ Render
  BY <1>2 DEF Refetch, Recheck, Poll, Render, Asks
<1>3. CASE Fetch
  BY <1>3 DEF Fetch, FetchFresh, FetchCopy, FetchFails, FetchLands, Next
<1>4. CASE PersistShown \/ ReloadShown
  BY <1>4 DEF PersistShown, ReloadShown, Next
<1>5. CASE Connection
  BY <1>5 DEF Connection, Next
<1> QED BY <1>1, <1>2, <1>3, <1>4, <1>5 DEF ViewNext

LEMMA QueueInductive == ViewSpec => []IInv
<1>1. ViewInit => Init
  BY DEF ViewInit
<1> QED BY <1>1, InitIInv, NextIInv, ViewStepIsQueueStep, PTL DEF ViewSpec

\* One mutation is under way at a time.
LEMMA OneIsRunning ==
  ASSUME IInv, NEW m \in Edit, NEW k \in Edit,
         phase[m] \in Running, phase[k] \in Running
  PROVE  m = k
<1>1. m \in queue /\ k \in queue
  BY DEF IInv, TypeOK, Pending
<1>2. m <= k /\ k <= m
  BY <1>1 DEF IInv, RunningIsFirst, CanRun
<1> QED BY <1>2, EditIsNat

-----------------------------------------------------------------------------
\* Types

LEMMA InitViewInv == ViewInit => ViewInv
<1> SUFFICES ASSUME ViewInit PROVE ViewInv
  OBVIOUS
<1>1. TypeOK /\ link = "up" /\ queue = {}
  BY InitIInv DEF ViewInit, IInv, Init
<1>2. ViewTypeOK
  BY <1>1 DEF ViewInit, ViewTypeOK, NoEdits, Calm
<1> QED BY <1>1, <1>2 DEF ViewInit, ViewInv, RefetchIsTrue

\* The interval is set by none but who finds no mutation pending, and a mutation
\* that is tapped clears it.
LEMMA IntervalStep ==
  ASSUME ViewTypeOK, [ViewNext]_allVars
  PROVE  polling' \in BOOLEAN /\ (polling' => Calm')
<1>1. polling \in BOOLEAN /\ (polling => Calm)
  BY DEF ViewTypeOK
<1>2. Evaluated => polling' \in BOOLEAN /\ (polling' => Calm')
  BY DEF Evaluated, Calm
<1>3. UNCHANGED polling /\ queue' \subseteq queue => polling' \in BOOLEAN /\ (polling' => Calm')
  BY <1>1 DEF Calm
<1>4. ASSUME NEW m \in Edit, TapShown(m) PROVE Evaluated
  BY <1>4 DEF TapShown
<1>5. ASSUME NEW m \in Edit, StepShown(m)
      PROVE  Evaluated \/ (UNCHANGED polling /\ queue' \subseteq queue)
  BY <1>5 DEF StepShown, ServeEdit, AnswerShown, SettleShown, Serve, Settle, Remaining, Fail, Wake,
              view, interval
<1>6. CASE Refetch \/ Recheck \/ Poll \/ Render
  BY <1>2, <1>3, <1>6 DEF Refetch, Recheck, Poll, Render, Asks, vars
<1>7. CASE Fetch
  BY <1>2, <1>3, <1>7 DEF Fetch, FetchFresh, FetchCopy, FetchFails, FetchLands, interval, vars
<1>8. CASE PersistShown \/ ReloadShown
  BY <1>2, <1>3, <1>8 DEF PersistShown, ReloadShown, Persist, interval, vars
<1>9. CASE Connection
  BY <1>3, <1>9 DEF Connection, Noticed, LinkChanges, ProbeAnswered, Hide, Show
<1>10. CASE UNCHANGED allVars
  BY <1>3, <1>10 DEF allVars, view, interval, vars
<1> QED BY <1>2, <1>3, <1>4, <1>5, <1>6, <1>7, <1>8, <1>9, <1>10 DEF ViewNext

LEMMA StepViewTypeOK ==
  ASSUME ViewTypeOK, TypeOK', [ViewNext]_allVars
  PROVE  ViewTypeOK'
<1> USE IntervalStep DEF ViewTypeOK
<1>1. ASSUME NEW m \in Edit, TapShown(m) PROVE ViewTypeOK'
  <2>1. previous' = [k \in DOMAIN previous \cup {m} |->
                       IF k # m THEN previous[k]
                       ELSE IF m \in Reorders THEN shown \cup {m} ELSE shown]
    BY <1>1 DEF TapShown
  <2>2. DOMAIN previous' \subseteq Edit /\ previous' \in [DOMAIN previous' -> SUBSET Edit]
    BY <2>1
  <2> QED BY <1>1, <2>2 DEF TapShown
<1>2. ASSUME NEW m \in Edit, StepShown(m) PROVE ViewTypeOK'
  <2>1. CASE ServeEdit(m)
    BY <2>1 DEF ServeEdit, interval
  <2>2. CASE AnswerShown(m)
    BY <2>2 DEF AnswerShown, RefetchAnew
  <2>3. CASE SettleShown(m) \/ ((Fail(m) \/ Wake(m)) /\ UNCHANGED view)
    BY <2>3 DEF SettleShown, view, interval
  <2> QED BY <1>2, <2>1, <2>2, <2>3 DEF StepShown
<1>3. CASE Refetch \/ Recheck \/ Poll \/ Render
  BY <1>3 DEF Refetch, Recheck, Poll, Render, Asks
<1>4. CASE FetchFresh
  BY <1>4 DEF FetchFresh, interval
<1>5. CASE FetchCopy
  BY <1>5 DEF FetchCopy, interval
<1>6. CASE FetchFails \/ FetchLands
  BY <1>6 DEF FetchFails, FetchLands
<1>7. CASE PersistShown
  BY <1>7 DEF PersistShown, interval
<1>8. CASE ReloadShown
  BY <1>8 DEF ReloadShown, NoEdits
<1>9. CASE Connection \/ UNCHANGED allVars
  BY <1>9 DEF Connection, Noticed, allVars, view, interval
<1> QED BY <1>1, <1>2, <1>3, <1>4, <1>5, <1>6, <1>7, <1>8, <1>9 DEF ViewNext, Fetch

-----------------------------------------------------------------------------
\* What a refetch carries

\* A step of one mutation, on a link that was never broken.
LEMMA StepShownTrue ==
  ASSUME IInv, RefetchIsTrue, NEW m \in Edit, StepShown(m)
  PROVE  RefetchIsTrue'
<1> SUFFICES ASSUME breaks' = 0
             PROVE  /\ link' = "up"
                    /\ fetching' = "answered" /\ Resting' => carried' = served'
                    /\ /\ fetching' = "none"
                       /\ \A k \in queue' : queue' = {k} /\ phase'[k] = "settling"
                       => shown' = served'
  BY DEF RefetchIsTrue
<1>1. breaks = 0 /\ UNCHANGED link
  BY DEF StepShown, ServeEdit, AnswerShown, SettleShown, Serve, Answer, Settle, Fail, Wake,
         bounds, connection
<1>2. link = "up"
  BY <1>1 DEF RefetchIsTrue
<1>3. phase \in [Edit -> Phase] /\ queue = {k \in Edit : phase[k] \in Pending}
  BY DEF IInv, TypeOK, Phase
<1>4. ASSUME phase[m] \in Running \ {"settling"}, queue' = queue,
             phase' \in [Edit -> Phase], phase'[m] # "settling",
             \A k \in Edit \ {m} : phase'[k] = phase[k]
      PROVE  ~Resting' /\ \E k \in queue' : phase'[k] # "settling"
  <2>1. m \in queue'
    BY <1>3, <1>4 DEF Pending
  <2>2. \A k \in queue : phase[k] # "settling"
    BY <1>3, <1>4, OneIsRunning DEF Running
  <2> QED BY <1>3, <1>4, <2>1, <2>2 DEF Resting, Calm
<1>5. CASE ServeEdit(m)
  <2>1. /\ phase[m] = "sent" /\ queue' = queue
        /\ phase' = [phase EXCEPT ![m] = "answered"]
    BY <1>5 DEF ServeEdit, Serve
  <2>2. ~Resting' /\ \E k \in queue' : phase'[k] # "settling"
    BY <1>3, <1>4, <2>1 DEF Running, Phase, Pending
  <2> QED BY <1>1, <1>2, <2>2
<1>6. CASE AnswerShown(m)
  BY <1>1, <1>2, <1>6 DEF AnswerShown, RefetchAnew
<1>7. CASE SettleShown(m)
  <2>1. /\ phase[m] = "settling" /\ queue' = queue \ {m}
        /\ phase' = RunNext([phase EXCEPT ![m] = "settled"], queue')
        /\ fetching = "none" /\ UNCHANGED <<served, shown, fetching, carried>>
    BY <1>7 DEF SettleShown, Settle, Remaining
  <2>2. m \in queue
    BY <1>3, <2>1 DEF Pending, Running
  <2>3. \A k \in queue' : phase'[k] # "settling"
    <3>1. \A k \in queue' : phase[k] # "settling"
      BY <1>3, <2>1, OneIsRunning DEF Running
    <3>2. [phase EXCEPT ![m] = "settled"] \in [Edit -> Phase] /\ queue' \in SUBSET Edit
      BY <1>3, <2>1 DEF Phase, Ended
    <3>3. OnlyPausedChange([phase EXCEPT ![m] = "settled"], phase', queue')
      BY <2>1, <3>2, RunNextPhases DEF IInv
    <3> QED BY <1>3, <2>1, <3>1, <3>3, ZenonT(60) DEF OnlyPausedChange, Paused
  <2>4. queue' = {} => \A k \in queue : queue = {k} /\ phase[k] = "settling"
    BY <2>1, <2>2
  <2> QED BY <1>1, <1>2, <2>1, <2>3, <2>4 DEF RefetchIsTrue, view
<1>8. CASE Fail(m) /\ UNCHANGED view
  BY <1>2, <1>8 DEF Fail
<1>9. CASE Wake(m) /\ UNCHANGED view
  <2>1. /\ phase[m] = "sleeping" /\ queue' = queue
        /\ phase' = [phase EXCEPT ![m] = Retried(m)]
    BY <1>9 DEF Wake
  <2>2. Retried(m) \in {"sent", "parked"}
    BY DEF Retried, Started
  <2>3. ~Resting' /\ \E k \in queue' : phase'[k] # "settling"
    BY <1>3, <1>4, <2>1, <2>2 DEF Running, Phase, Pending, Paused
  <2> QED BY <1>1, <1>2, <2>3
<1> QED BY <1>5, <1>6, <1>7, <1>8, <1>9 DEF StepShown

\* Steps that neither settle a mutation nor stop one from settling.
LEMMA UnsettledTrue ==
  ASSUME RefetchIsTrue,
         UNCHANGED <<queue, link, breaks, served, shown, fetching, carried>>,
         \A m \in queue : phase'[m] = "settling" <=> phase[m] = "settling"
  PROVE  RefetchIsTrue'
BY DEF RefetchIsTrue, Resting, Calm

LEMMA ConnectionTrue ==
  ASSUME IInv, RefetchIsTrue, Connection
  PROVE  RefetchIsTrue'
<1>1. phase \in [Edit -> Phase] /\ queue \subseteq Edit
  BY DEF IInv, TypeOK, Phase
<1>2. online \in BOOLEAN /\ focused \in BOOLEAN
  BY DEF IInv, TypeOK
<1>3. ASSUME NEW on \in BOOLEAN, NEW seen \in BOOLEAN, NEW m \in queue
      PROVE  Resumed(phase, queue, on, seen)[m] = "settling" <=> phase[m] = "settling"
  BY <1>1, ResumedPhases DEF OnlyPausedChange, Paused
<1>4. CASE \E l \in Links : LinkChanges(l)
  <2>1. \/ link # "up" /\ UNCHANGED breaks
        \/ breaks' = breaks + 1
    BY <1>4 DEF LinkChanges
  <2>2. breaks \in Nat
    BY <1>4, QueueAssumption DEF LinkChanges, IInv, TypeOK
  <2> QED BY <2>1, <2>2 DEF RefetchIsTrue
<1>5. CASE ProbeAnswered
  <2>1. \A m \in queue : phase'[m] = "settling" <=> phase[m] = "settling"
    BY <1>2, <1>3, <1>5 DEF ProbeAnswered
  <2> QED BY <1>5, <2>1, UnsettledTrue DEF ProbeAnswered, Connection, Noticed, bounds
<1>6. CASE Hide
  BY <1>6, UnsettledTrue DEF Hide, Connection, Noticed
<1>7. CASE Show
  <2>1. \A m \in queue : phase'[m] = "settling" <=> phase[m] = "settling"
    BY <1>2, <1>3, <1>7 DEF Show
  <2> QED BY <1>7, <2>1, UnsettledTrue DEF Show, Connection, Noticed, bounds
<1> QED BY <1>4, <1>5, <1>6, <1>7 DEF Connection

LEMMA StepTrue ==
  ASSUME IInv, RefetchIsTrue, [ViewNext]_allVars
  PROVE  RefetchIsTrue'
<1>1. ASSUME NEW m \in Edit, TapShown(m) PROVE RefetchIsTrue'
  <2>1. /\ phase[m] = "untapped" /\ queue' = queue \cup {m}
        /\ phase' = [phase EXCEPT ![m] = Started(queue', m, online)]
        /\ fetching' = "none" /\ UNCHANGED <<link, breaks>>
    BY <1>1 DEF TapShown, Tap, connection, bounds
  <2>2. phase'[m] # "settling" /\ m \in queue'
    BY <2>1 DEF Started, IInv, TypeOK
  <2> QED BY <2>1, <2>2 DEF RefetchIsTrue
<1>2. ASSUME NEW m \in Edit, StepShown(m) PROVE RefetchIsTrue'
  BY <1>2, StepShownTrue
<1>3. CASE Refetch \/ Recheck \/ Poll \/ Render
  BY <1>3 DEF Refetch, Recheck, Poll, Render, Asks, Calm, Resting, RefetchIsTrue, vars, connection, bounds
<1>4. CASE FetchFresh
  BY <1>4 DEF FetchFresh, RefetchIsTrue, vars, connection, bounds
<1>5. CASE FetchCopy
  BY <1>5 DEF FetchCopy, RefetchIsTrue, vars, connection, bounds
<1>6. CASE FetchFails
  BY <1>6 DEF FetchFails, ReadFails, RefetchIsTrue, bounds
<1>7. CASE FetchLands
  BY <1>7 DEF FetchLands, RefetchIsTrue, Resting, Calm, vars, connection, bounds
<1>8. CASE PersistShown
  <2>1. UNCHANGED <<queue, phase, link, breaks>>
    BY <1>8 DEF PersistShown, Persist, vars, connection, bounds
  <2> QED BY <1>8, <2>1, UnsettledTrue DEF PersistShown
<1>9. CASE ReloadShown
  <2>1. UNCHANGED <<link, breaks>> /\ online' = (link # "off")
        /\ fetching' = IF online' THEN "asked" ELSE "none"
    BY <1>9 DEF ReloadShown, Reload
  <2> QED BY <2>1 DEF RefetchIsTrue
<1>10. CASE Connection
  BY <1>10, ConnectionTrue
<1>11. CASE UNCHANGED allVars
  BY <1>11 DEF allVars, view, vars, connection, bounds, RefetchIsTrue, Resting, Calm
<1> QED BY <1>1, <1>2, <1>3, <1>4, <1>5, <1>6, <1>7, <1>8, <1>9, <1>10, <1>11
        DEF ViewNext, Fetch

-----------------------------------------------------------------------------
\* Theorems

LEMMA ViewInductive == ViewSpec => []ViewInv
<1>1. IInv /\ IInv' /\ ViewInv /\ [ViewNext]_allVars => ViewInv'
  BY StepViewTypeOK, StepTrue DEF ViewInv, IInv
<1> QED BY <1>1, InitViewInv, QueueInductive, PTL DEF ViewSpec

\* The versions shown, served, carried and kept are sets of edits, and no interval
\* is set while a mutation is pending: no poll reads what an optimistic write is
\* ahead of (pollInterval in hooks.ts).
THEOREM ViewTypeCorrect == ViewSpec => []ViewTypeOK
<1>1. ViewInv => ViewTypeOK
  BY DEF ViewInv
<1> QED BY <1>1, ViewInductive, PTL

\* With an unbroken link the tab shows the server's version whenever nothing is
\* queued or under way, for any number of edits and reloads and whatever of the
\* edits is refused (the callbacks of optimistic()).
THEOREM QuietShowsTheTruth == ViewSpec => []QuietShowsServed
<1>1. ViewInv => QuietShowsServed
  BY DEF ViewInv, RefetchIsTrue, QuietShowsServed, Calm
<1> QED BY <1>1, ViewInductive, PTL

\* The composed view runs the queue as it is: its edits reach the server in the
\* order of their taps, no wake-up is missed, an offline tab will learn better
\* and the first edit goes on, with refetches, polls and rollbacks in between.
THEOREM ViewKeepsQueue ==
  ViewSpec => [](TypeOK /\ ServedInOrder /\ NothingStalls /\ OfflineEnds /\ QueueCanGoOn)
<1>1. IInv => TypeOK /\ ServedInOrder /\ NothingStalls /\ OfflineEnds /\ QueueCanGoOn
  BY FirstIsUnderWay DEF IInv
<1> QED BY <1>1, QueueInductive, PTL

\* What the list shows hangs on nothing but an outbox: every step of the view
\* is one of the outbox, or one that it does not see.
THEOREM ViewIsOutbox == ViewSpec => ImplementsOutbox
<1>1. ViewInit => Box!Init
  BY DEF ViewInit, Init, Box!Init
<1>2. IInv /\ [ViewNext]_allVars => [Box!Next]_(Box!vars)
  BY NextBox, ViewStepIsQueueStep
<1> QED BY <1>1, <1>2, QueueInductive, PTL DEF ViewSpec, ImplementsOutbox, Box!Spec
=============================================================================
