--------------------------- MODULE RowSwipeProofs ---------------------------
(***************************************************************************)
(* Theorems about RowSwipe, for any pointers, positions and thresholds.    *)
(* The inductive invariant adds to the properties what ties the row to the *)
(* pointer: a row that swipes is drawn where its pointer is, and as long   *)
(* as presses do not cross, only the gesture's pointer is down and a swipe *)
(* has raised the flag that swallows its click.                            *)
(***************************************************************************)
EXTENDS RowSwipe, TLAPS

\* The row is drawn where the pointer that swipes it is.
DrawnAtPointer == Swiping => dx = Followed(gesture, at[gesture.pointerId])

\* Presses that do not cross: the gesture's pointer alone is down, and no click
\* is due while it is.
Alone ==
  gesture # NoGesture /\ ~crossed => held \subseteq {gesture.pointerId} /\ due = "none"

\* A swipe, and what may be clicked after it, has raised the flag.
Flagged ==
  /\ Swiping /\ ~crossed => suppressNextClick
  /\ due \in {"swipe", "close"} => suppressNextClick

IInv ==
  /\ TypeOK
  /\ DrawnAtPointer
  /\ Alone
  /\ Flagged
  /\ RestsWhereRevealed
  /\ SwipeNeverToggles

-----------------------------------------------------------------------------
\* Where the row is drawn

LEMMA RestDxValue ==
  /\ restDx("none") = 0 /\ restDx("left") = -Reveal /\ restDx("right") = Reveal
  /\ \A side \in {"none", "left", "right"} : restDx(side) \in {-Reveal, 0, Reveal}
BY DEF restDx

\* A row that follows a gesture shows no more than its side, and as much as the
\* pointer travelled on it.
LEMMA FollowedSide ==
  ASSUME NEW g \in Gestures, NEW x \in Positions
  PROVE  /\ Followed(g, x) \in Int
         /\ Followed(g, x) * g.direction >= 0
         /\ Offset(g, x) \in Int
         /\ g.direction < 0 => (Offset(g, x) >= Commit <=> Followed(g, x) <= -Commit)
                                /\ Followed(g, x) < Commit
         /\ ~(g.direction < 0) => (Offset(g, x) >= Commit <=> Followed(g, x) >= Commit)
                                /\ Followed(g, x) > -Commit
<1> DEFINE t == Travel(g, x)
<1>1. t \in Int
  <2>1. Reveal \in Nat /\ x \in Int
    BY SwipeAssumption
  <2>2. g.baseDx \in {-Reveal, 0, Reveal} /\ g.startX \in Int
    BY SwipeAssumption DEF Gestures
  <2> QED BY <2>1, <2>2 DEF Travel
<1>2. Commit \in Nat /\ Commit > 0
  BY SwipeAssumption
<1>3. CASE g.direction = -1
  <2>1. Offset(g, x) = -t /\ Followed(g, x) = IF t < 0 THEN t ELSE 0
    BY <1>1, <1>3 DEF Offset, Followed
  <2> HIDE DEF t
  <2> QED BY <1>1, <1>2, <1>3, <2>1
<1>4. CASE g.direction = 1
  <2>1. Offset(g, x) = t /\ Followed(g, x) = IF t > 0 THEN t ELSE 0
    BY <1>1, <1>4 DEF Offset, Followed
  <2> HIDE DEF t
  <2> QED BY <1>1, <1>2, <1>4, <2>1
<1> QED BY <1>3, <1>4 DEF Gestures

LEMMA ActivatedType ==
  ASSUME NEW g \in Gestures, NEW x \in Positions, NEW steep \in BOOLEAN
  PROVE  /\ Activated(g, x, steep) \in Gestures
         /\ Activated(g, x, steep).pointerId = g.pointerId
BY DEF Activated, Gestures

-----------------------------------------------------------------------------
\* The inductive invariant

LEMMA InitIInv == Init => IInv
<1> SUFFICES ASSUME Init PROVE IInv
  OBVIOUS
<1>1. TypeOK
  <2>1. /\ dx \in Int /\ revealed \in {"none", "left", "right"}
        /\ due \in {"none", "tap", "close", "swipe", "stray"}
    BY DEF Init
  <2>2. /\ deleting \in BOOLEAN /\ swiping \in BOOLEAN
        /\ suppressNextClick \in BOOLEAN /\ crossed \in BOOLEAN
    BY DEF Init
  <2>3. held \subseteq Pointers /\ at \in [Pointers -> Positions]
    BY DEF Init
  <2>4. gesture \in Gestures \cup {NoGesture}
    BY DEF Init
  <2>5. deleting => gesture = NoGesture /\ revealed = "none"
    BY DEF Init
  <2> QED BY <2>1, <2>2, <2>3, <2>4, <2>5 DEF TypeOK
<1>2. DrawnAtPointer /\ Alone /\ Flagged
  BY DEF Init, DrawnAtPointer, Swiping, Alone, Flagged
<1>3. RestsWhereRevealed
  BY RestDxValue DEF Init, RestsWhereRevealed
<1>4. SwipeNeverToggles
  BY DEF Init, SwipeNeverToggles
<1> QED BY <1>1, <1>2, <1>3, <1>4 DEF IInv

LEMMA PressIInv ==
  ASSUME IInv, NEW p \in Pointers, NEW x \in Positions, onPointerDown(p, x)
  PROVE  IInv'
<1> USE DEF IInv, TypeOK
<1>1. revealed \in {"none", "left", "right"} /\ restDx(revealed) \in {-Reveal, 0, Reveal}
  BY RestDxValue
<1>2. CASE Pressable
  <2> DEFINE g == [pointerId |-> p, startX |-> x, baseDx |-> restDx(revealed),
                   active |-> FALSE, direction |-> 1]
  <2>1. gesture' = g /\ g \in Gestures /\ ~g.active /\ g.pointerId = p
    BY <1>1, <1>2 DEF onPointerDown, Gestures
  <2>2. gesture' # NoGesture
    BY <2>1, SwipeAssumption
  <2>3. TypeOK'
    BY <1>2, <2>1 DEF onPointerDown, Pressable
  <2>4. Alone'
    BY <1>2, <2>1 DEF Alone, onPointerDown
  <2>5. RestsWhereRevealed'
    BY <1>2, <2>1 DEF onPointerDown, RestsWhereRevealed, Swiping
  <2> HIDE DEF g
  <2> QED BY <2>1, <2>2, <2>3, <2>4, <2>5 DEF onPointerDown, DrawnAtPointer, Swiping, Flagged,
                                              SwipeNeverToggles
<1>3. CASE ~Pressable
  BY <1>3 DEF onPointerDown, Pressable, DrawnAtPointer, Swiping, Alone, Flagged,
              RestsWhereRevealed, SwipeNeverToggles
<1> QED BY <1>2, <1>3

LEMMA MoveIInv ==
  ASSUME IInv, NEW p \in Pointers, NEW x \in Positions, NEW steep \in BOOLEAN,
         onPointerMove(p, x, steep)
  PROVE  IInv'
<1> USE DEF IInv, TypeOK
<1>1. CASE Follows(p) /\ ~deleting /\ Activated(gesture, x, steep).active
  <2>1. gesture \in Gestures /\ gesture.pointerId = p
    BY <1>1 DEF Follows
  <2>2. /\ gesture' = Activated(gesture, x, steep) /\ gesture' \in Gestures
        /\ gesture'.pointerId = p /\ gesture'.active /\ gesture' # NoGesture
    BY <1>1, <2>1, ActivatedType, SwipeAssumption, SMTT(30) DEF onPointerMove
  <2>3. dx' = Followed(gesture', x) /\ dx' \in Int /\ at'[p] = x
    BY <1>1, <2>2, FollowedSide DEF onPointerMove
  <2>4. TypeOK'
    BY <1>1, <2>2, <2>3 DEF onPointerMove
  <2>5. DrawnAtPointer'
    BY <2>2, <2>3 DEF DrawnAtPointer
  <2>6. Alone'
    BY <1>1, <2>1, <2>2 DEF Alone, onPointerMove, Follows
  <2>7. Flagged'
    BY <1>1, <2>1 DEF Flagged, Swiping, onPointerMove, Follows
  <2>8. RestsWhereRevealed'
    BY <2>2 DEF RestsWhereRevealed, Swiping
  <2>9. SwipeNeverToggles'
    BY DEF SwipeNeverToggles, onPointerMove
  <2> QED BY <2>4, <2>5, <2>6, <2>7, <2>8, <2>9
<1>2. CASE ~(Follows(p) /\ ~deleting /\ Activated(gesture, x, steep).active)
  <2>1. Swiping => gesture.pointerId # p
    BY <1>2 DEF Swiping, Follows, Activated
  <2>2. UNCHANGED <<gesture, suppressNextClick, swiping, dx, deleting, revealed, held, due, did, crossed>>
    BY <1>2 DEF onPointerMove
  <2>3. TypeOK'
    BY <2>2 DEF onPointerMove
  <2>4. DrawnAtPointer'
    BY <2>1, <2>2 DEF DrawnAtPointer, Swiping, onPointerMove, Gestures
  <2>5. Swiping' <=> Swiping
    BY <2>2 DEF Swiping
  <2>6. RestsWhereRevealed'
    BY <2>2, <2>5 DEF RestsWhereRevealed
  <2> QED BY <2>2, <2>3, <2>4, <2>5, <2>6 DEF Alone, Flagged, SwipeNeverToggles
<1> QED BY <1>1, <1>2

\* The pointer of another gesture, or of none, is released: only a click can
\* come of it.
LEMMA StrayIInv ==
  ASSUME IInv, NEW p \in Pointers, NEW cancelled \in BOOLEAN, finishStray(p, cancelled)
  PROVE  IInv'
<1> USE DEF IInv, TypeOK, finishStray, Released, hook
<1>1. TypeOK'
  OBVIOUS
<1>2. Alone'
  <2>1. gesture # NoGesture /\ ~crossed => p \notin held
    BY DEF Alone, Follows
  <2> QED BY <2>1 DEF Alone
<1>3. DrawnAtPointer' /\ Flagged' /\ RestsWhereRevealed' /\ SwipeNeverToggles'
  BY DEF DrawnAtPointer, Flagged, Swiping, RestsWhereRevealed, SwipeNeverToggles
<1> QED BY <1>1, <1>2, <1>3

LEMMA TapIInv ==
  ASSUME IInv, NEW p \in Pointers, NEW cancelled \in BOOLEAN, finishTap(p, cancelled)
  PROVE  IInv'
<1> USE DEF IInv, TypeOK, finishTap, Released
<1>1. TypeOK'
  <2>1. CASE revealed = "none"
    BY <2>1
  <2>2. CASE revealed # "none"
    BY <2>2
  <2> QED BY <2>1, <2>2
<1>2. DrawnAtPointer' /\ Alone' /\ SwipeNeverToggles'
  BY DEF DrawnAtPointer, Swiping, Alone, SwipeNeverToggles
<1>3. Flagged'
  BY DEF Flagged, Swiping
<1>4. RestsWhereRevealed'
  <2>1. ~deleting
    BY DEF Follows
  <2>2. ~crossed => ~swiping /\ dx = restDx(revealed)
    BY <2>1 DEF RestsWhereRevealed
  <2> QED BY <2>1, <2>2, RestDxValue DEF RestsWhereRevealed
<1> QED BY <1>1, <1>2, <1>3, <1>4

\* A swipe that ends, whichever of its branches is taken, brings the row to rest.
LEMMA SwipeIInv ==
  ASSUME IInv, NEW p \in Pointers, finishSwipe(p)
  PROVE  IInv'
<1> USE DEF IInv
<1>1. /\ gesture \in Gestures /\ gesture' = NoGesture /\ ~swiping' /\ ~deleting
      /\ gesture.pointerId = p
  BY DEF finishSwipe, Follows, TypeOK
<1>2. UNCHANGED <<at, suppressNextClick>> /\ held' = held \ {p} /\ crossed' = (held' # {})
  BY DEF finishSwipe, Released
<1>3. /\ deleting' \in BOOLEAN /\ revealed' \in {"none", "left", "right"}
      /\ dx' = IF deleting' THEN -Width ELSE restDx(revealed')
      /\ deleting' => revealed' = "none"
  <2>1. \/ revealed' = "none" /\ deleting' = TRUE /\ dx' = -Width
        \/ \E side \in {"none", "left", "right"} : Rests(side)
    BY DEF finishSwipe
  <2>2. CASE revealed' = "none" /\ deleting' = TRUE /\ dx' = -Width
    BY <2>2
  <2>3. CASE \E side \in {"none", "left", "right"} : Rests(side)
    <3>1. ~deleting' /\ deleting' \in BOOLEAN
      BY <1>1, <2>3 DEF Rests, TypeOK
    <3> QED BY <2>3, <3>1 DEF Rests
  <2> QED BY <2>1, <2>2, <2>3
<1>4. dx' \in Int
  BY <1>3, RestDxValue, SwipeAssumption
<1>5. due' = IF crossed THEN "stray" ELSE "swipe"
  BY DEF finishSwipe, Released
<1>6. did'[1] \in {"swipe", "close"} => did'[2] # "toggle"
  BY DEF finishSwipe
<1>7. TypeOK'
  <2>1. due' \in {"none", "tap", "close", "swipe", "stray"}
    BY <1>5
  <2>0. swiping' \in BOOLEAN
    BY DEF finishSwipe
  <2>2. crossed' \in BOOLEAN
    BY <1>2
  <2> QED BY <1>1, <1>2, <1>3, <1>4, <2>0, <2>1, <2>2 DEF TypeOK
<1>8. DrawnAtPointer' /\ Alone'
  BY <1>1 DEF DrawnAtPointer, Swiping, Alone
<1>9. Flagged'
  <2>1. ~crossed => suppressNextClick
    BY DEF Flagged, finishSwipe
  <2> QED BY <1>1, <1>2, <1>5, <2>1 DEF Flagged, Swiping
<1> QED BY <1>1, <1>3, <1>6, <1>7, <1>8, <1>9 DEF RestsWhereRevealed, SwipeNeverToggles

LEMMA CancelIInv ==
  ASSUME IInv, NEW p \in Pointers, cancelSwipe(p)
  PROVE  IInv'
<1> USE DEF IInv
<1>1. /\ gesture \in Gestures /\ gesture' = NoGesture /\ ~swiping' /\ ~deleting /\ ~deleting'
      /\ revealed' = revealed /\ dx' = restDx(revealed) /\ due' = "none"
  BY DEF cancelSwipe, Rests, Follows, TypeOK, Released
<1>2. /\ UNCHANGED <<at, suppressNextClick, did>> /\ held' = held \ {p}
      /\ crossed' = (held' # {})
  BY DEF cancelSwipe, Released
<1>3. TypeOK'
  <2>1. dx' \in Int
    BY <1>1, RestDxValue, SwipeAssumption DEF TypeOK
  <2>3. swiping' \in BOOLEAN /\ crossed' \in BOOLEAN
    BY <1>2 DEF cancelSwipe
  <2>2. deleting' \in BOOLEAN /\ suppressNextClick' \in BOOLEAN
    BY <1>2 DEF TypeOK, cancelSwipe, Rests
  <2> QED BY <1>1, <1>2, <2>1, <2>2, <2>3 DEF TypeOK
<1>4. DrawnAtPointer' /\ Alone' /\ Flagged'
  BY <1>1 DEF DrawnAtPointer, Swiping, Alone, Flagged
<1> QED BY <1>1, <1>2, <1>3, <1>4 DEF RestsWhereRevealed, SwipeNeverToggles

\* Steps that leave the hook alone.
LEMMA QuietIInv ==
  ASSUME IInv, UNCHANGED <<hook, at, crossed>>,
         held' \subseteq held, due' \in {"none", due},
         did'[1] \in {"swipe", "close"} => did'[2] # "toggle"
  PROVE  IInv'
<1> USE DEF IInv, hook
<1>1. TypeOK'
  BY DEF TypeOK
<1>2. DrawnAtPointer' /\ Alone' /\ Flagged'
  BY DEF DrawnAtPointer, Swiping, Alone, Flagged
<1>3. RestsWhereRevealed'
  BY DEF RestsWhereRevealed, Swiping
<1> QED BY <1>1, <1>2, <1>3 DEF SwipeNeverToggles

LEMMA ClickIInv ==
  ASSUME IInv, onClickCapture
  PROVE  IInv'
<1>1. TypeOK'
  <2>1. suppressNextClick' \in BOOLEAN
    BY DEF onClickCapture, Swallowed
  <2>2. UNCHANGED <<dx, deleting, swiping, revealed, gesture, held, at, crossed>> /\ due' = "none"
    BY DEF onClickCapture
  <2>3. TypeOK
    BY DEF IInv
  <2>4. deleting' \in BOOLEAN /\ swiping' \in BOOLEAN /\ crossed' \in BOOLEAN
    BY <2>2, <2>3 DEF TypeOK
  <2>6. deleting' => gesture' = NoGesture /\ revealed' = "none"
    BY <2>2, <2>3 DEF TypeOK
  <2>5. /\ dx' \in Int /\ revealed' \in {"none", "left", "right"}
        /\ gesture' \in Gestures \cup {NoGesture}
        /\ held' \subseteq Pointers /\ at' \in [Pointers -> Positions]
        /\ due' \in {"none", "tap", "close", "swipe", "stray"}
    BY <2>2, <2>3 DEF TypeOK
  <2> QED BY <2>1, <2>4, <2>5, <2>6 DEF TypeOK
<1> USE DEF IInv, onClickCapture
<1>2. gesture = NoGesture \/ crossed
  BY DEF Alone
<1>3. DrawnAtPointer' /\ Alone' /\ Flagged'
  BY <1>2 DEF DrawnAtPointer, Swiping, Alone, Flagged
<1>4. RestsWhereRevealed'
  BY DEF RestsWhereRevealed, Swiping
<1>5. SwipeNeverToggles'
  BY DEF SwipeNeverToggles, Flagged, Swallowed
<1> QED BY <1>1, <1>3, <1>4, <1>5

LEMMA RemountIInv ==
  ASSUME IInv, Remount
  PROVE  IInv'
<1> USE DEF IInv, Remount
<1>1. TypeOK'
  <2>1. deleting' => gesture' = NoGesture /\ revealed' = "none"
    OBVIOUS
  <2>2. /\ deleting' \in BOOLEAN /\ swiping' \in BOOLEAN
        /\ suppressNextClick' \in BOOLEAN /\ crossed' \in BOOLEAN
    OBVIOUS
  <2>3. /\ dx' \in Int /\ revealed' \in {"none", "left", "right"}
        /\ held' \subseteq Pointers /\ at' \in [Pointers -> Positions]
        /\ due' \in {"none", "tap", "close", "swipe", "stray"}
    BY DEF TypeOK
  <2>4. gesture' \in Gestures \cup {NoGesture}
    OBVIOUS
  <2> HIDE DEF Remount
  <2> QED BY <2>1, <2>2, <2>3, <2>4 DEF TypeOK
<1>2. DrawnAtPointer' /\ Alone' /\ Flagged'
  BY DEF DrawnAtPointer, Swiping, Alone, Flagged
<1>3. RestsWhereRevealed'
  BY RestDxValue DEF RestsWhereRevealed
<1> QED BY <1>1, <1>2, <1>3 DEF SwipeNeverToggles

LEMMA NextIInv == IInv /\ [Next]_vars => IInv'
<1> SUFFICES ASSUME IInv, [Next]_vars PROVE IInv'
  OBVIOUS
<1>1. CASE \E p \in Pointers, x \in Positions :
            onPointerDown(p, x) \/ \E steep \in BOOLEAN : onPointerMove(p, x, steep)
  BY <1>1, PressIInv, MoveIInv
<1>2. CASE \E p \in Pointers, cancelled \in BOOLEAN :
            finishStray(p, cancelled) \/ finishTap(p, cancelled)
  BY <1>2, StrayIInv, TapIInv
<1>3. CASE \E p \in Pointers : finishSwipe(p) \/ cancelSwipe(p)
  BY <1>3, SwipeIInv, CancelIInv
<1>4. CASE \E p \in Pointers : ReleasedElsewhere(p)
  <2>1. held' \subseteq held /\ UNCHANGED <<hook, at, due, did, crossed>>
    BY <1>4 DEF ReleasedElsewhere
  <2> QED BY <2>1, QuietIInv DEF IInv, SwipeNeverToggles
<1>5. CASE onClickCapture
  BY <1>5, ClickIInv
<1>6. CASE NoClick
  BY <1>6, QuietIInv DEF NoClick, IInv, SwipeNeverToggles
<1>7. CASE DeleteButton \/ NoteButton \/ onKeyDown
  BY <1>7, QuietIInv DEF DeleteButton, NoteButton, onKeyDown, Act
<1>8. CASE Remount
  BY <1>8, RemountIInv
<1>9. CASE UNCHANGED vars
  BY <1>9, QuietIInv DEF vars, IInv, SwipeNeverToggles
<1> QED BY <1>1, <1>2, <1>3, <1>4, <1>5, <1>6, <1>7, <1>8, <1>9 DEF Next

LEMMA Invariance == Spec => []IInv
BY InitIInv, NextIInv, PTL DEF Spec

-----------------------------------------------------------------------------
\* The theorems

\* The hook's state is of its types, and a row that slides off is in nobody's
\* hands, whatever pointers come down on it and in whatever order they go.
THEOREM TypeCorrect == Spec => []TypeOK
BY Invariance, PTL DEF IInv

\* Whenever no swipe is under way the row lies where it is open, for any number
\* of pointers whose presses do not cross.
THEOREM RowComesToRest == Spec => []RestsWhereRevealed
BY Invariance, PTL DEF IInv

\* The strip of the other side never shows during a swipe.
THEOREM SwipeShowsOneSide == Spec => []OneSideShown
<1>1. IInv => OneSideShown
  <2> SUFFICES ASSUME IInv, Swiping PROVE dx * gesture.direction >= 0
    BY DEF OneSideShown
  <2>1. gesture \in Gestures /\ at[gesture.pointerId] \in Positions
    BY DEF IInv, TypeOK, Swiping, Gestures
  <2> QED BY <2>1, FollowedSide DEF IInv, DrawnAtPointer
<1> QED BY <1>1, Invariance, PTL

\* The clicks that end a swipe or close an open row never check the item, unless
\* presses cross.
THEOREM SwipeIsNoTap == Spec => []SwipeNeverToggles
BY Invariance, PTL DEF IInv

\* A swipe that is released acts on the side the row shows, past the threshold,
\* and only there.
THEOREM SwipeActsAsShown == Spec => CommitsWhatIsShown
<1> DEFINE Step == did' # did /\ did'[1] = "swipe" /\ did'[2] # "toggle" /\ did'[2] # "swallow"
           Shown == /\ (did'[2] = "delete") <=> (dx <= -Commit)
                    /\ (did'[2] = "note") <=> (dx >= Commit)
<1>1. IInv /\ [Next]_vars => [Step => Shown]_vars
  <2> SUFFICES ASSUME IInv, Next, Step PROVE Shown
    OBVIOUS
  <2>1. PICK p \in Pointers : finishSwipe(p)
    <3>1. did' # did
      OBVIOUS
    <3>2. CASE onClickCapture
      BY <3>2 DEF onClickCapture
    <3>3. CASE DeleteButton \/ NoteButton \/ onKeyDown
      BY <3>3 DEF DeleteButton, NoteButton, onKeyDown, Act
    <3>4. CASE Remount
      BY <3>4 DEF Remount
    <3> QED BY <3>1, <3>2, <3>3, <3>4 DEF Next, onPointerDown, onPointerMove, finishStray,
              finishTap, cancelSwipe, ReleasedElsewhere, NoClick
  <2> DEFINE g == gesture
             x == at[p]
  <2>2. g \in Gestures /\ x \in Positions /\ dx = Followed(g, x)
    BY <2>1 DEF finishSwipe, Follows, Swiping, IInv, TypeOK, DrawnAtPointer
  <2>3. CASE g.direction < 0
    <3>1. did'[2] = "delete" <=> Offset(g, x) >= Commit
      BY <2>1, <2>3 DEF finishSwipe
    <3>2. did'[2] # "note"
      BY <2>1, <2>3 DEF finishSwipe
    <3>3. dx < Commit /\ dx \in Int /\ Commit \in Int
      <4>1. Commit \in Int
        BY SwipeAssumption
      <4> QED BY <2>2, <2>3, <4>1, FollowedSide
    <3>4. ~(dx >= Commit)
      BY <3>3
    <3> QED BY <2>2, <2>3, <3>1, <3>2, <3>4, FollowedSide
  <2>4. CASE ~(g.direction < 0)
    <3>1. did'[2] = "note" <=> Offset(g, x) >= Commit
      BY <2>1, <2>4 DEF finishSwipe
    <3>2. did'[2] # "delete"
      BY <2>1, <2>4 DEF finishSwipe
    <3>3. dx > -Commit /\ dx \in Int /\ Commit \in Int
      BY <2>2, <2>4, FollowedSide, SwipeAssumption
    <3>4. ~(dx <= -Commit)
      BY <3>3
    <3> QED BY <2>2, <2>4, <3>1, <3>2, <3>4, FollowedSide
  <2> QED BY <2>3, <2>4
<1> QED BY <1>1, Invariance, PTL DEF Spec, CommitsWhatIsShown
=============================================================================
