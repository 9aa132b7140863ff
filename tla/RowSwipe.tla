------------------------------ MODULE RowSwipe ------------------------------
(***************************************************************************)
(* The gestures of one row: the hook useRowSwipe and the handlers that     *)
(* ItemRow hangs on it.  Pointers come down on the row, move and are       *)
(* released or cancelled; a click may follow a release, aimed at the       *)
(* checkbox; the backdrop's button and the keyboard act without a gesture. *)
(*                                                                         *)
(* Positions are clientX in units of a few pixels.  A pointer is released  *)
(* where it last moved to.  Whether a move is steeper than it is wide is a *)
(* choice.  A touch is captured by the row it came down on; a mouse is     *)
(* captured only once it swipes, so that before it may be released where   *)
(* the row does not see it, and it moves over the row without being held.  *)
(***************************************************************************)
EXTENDS Integers

CONSTANTS
  Touches, Mice,  \* the pointers
  Positions,      \* bound: where on the screen a pointer may be
  Slop,           \* ACTIVATION_SLOP_PX
  Reveal,         \* REVEAL_WIDTH_PX
  Width,          \* of the row
  Commit,         \* width * COMMIT_FRACTION
  NoGesture       \* gesture.current when it is null

Pointers == Touches \cup Mice

Gestures == [pointerId : Pointers, startX : Positions, baseDx : {-Reveal, 0, Reveal},
             active : BOOLEAN, direction : {-1, 1}]

ASSUME SwipeAssumption ==
  /\ Positions \subseteq Int
  /\ {Slop, Reveal, Width, Commit} \subseteq Nat \ {0}
  /\ NoGesture \notin Gestures

VARIABLES
  dx, deleting, swiping, revealed,  \* the state of the hook
  gesture, suppressNextClick,       \* its refs
  held,     \* the pointers that are down
  at,       \* where each pointer is
  due,      \* what the click that may come now follows
  did,      \* history: the last event of note and its effect
  crossed   \* history: a press began before the last one ended, as the hook saw it

hook == <<dx, deleting, swiping, revealed, gesture, suppressNextClick>>
vars == <<hook, held, at, due, did, crossed>>

Init ==
  /\ dx = 0 /\ deleting = FALSE /\ swiping = FALSE /\ revealed = "none"
  /\ gesture = NoGesture /\ suppressNextClick = FALSE
  /\ held = {} /\ at \in [Pointers -> Positions]
  /\ due = "none" /\ did = <<"mount", "none">> /\ crossed = FALSE

-----------------------------------------------------------------------------
\* Pressing and moving

restDx(side) == CASE side = "left" -> -Reveal [] side = "right" -> Reveal [] OTHER -> 0

\* Mutant: a row that slides off can still be pressed.
PressableAlways == TRUE

Pressable == ~deleting

onPointerDown(p, x) ==
  /\ due = "none" /\ p \notin held
  /\ held' = held \cup {p} /\ at' = [at EXCEPT ![p] = x]
  /\ IF Pressable
     THEN /\ gesture' = [pointerId |-> p, startX |-> x, baseDx |-> restDx(revealed),
                         active |-> FALSE, direction |-> 1]
          /\ crossed' = (crossed \/ gesture # NoGesture \/ held # {})
     ELSE UNCHANGED <<gesture, crossed>>
  /\ UNCHANGED <<dx, deleting, swiping, revealed, suppressNextClick, due, did>>

Travel(g, x) == g.baseDx + (x - g.startX)

\* Mutant: an over-swipe past the centre shows the other side.
FollowedFree(g, x) == Travel(g, x)

\* Where the row is drawn: with the pointer, on the locked direction's half.
Followed(g, x) ==
  IF g.direction < 0 THEN (IF Travel(g, x) < 0 THEN Travel(g, x) ELSE 0)
                     ELSE (IF Travel(g, x) > 0 THEN Travel(g, x) ELSE 0)

\* The gesture once the pointer is at x; its direction is locked as it activates.
Activated(g, x, steep) ==
  LET moveX == x - g.startX
      wide  == ~steep /\ (moveX >= Slop \/ -moveX >= Slop)
  IN  IF g.active \/ ~wide THEN g
      ELSE [g EXCEPT !.active = TRUE, !.direction = IF moveX < 0 THEN -1 ELSE 1]

Follows(p) == gesture # NoGesture /\ gesture.pointerId = p

Swiping == gesture # NoGesture /\ gesture.active

onPointerMove(p, x, steep) ==
  /\ due = "none" /\ p \in held \cup Mice /\ x # at[p]
  /\ at' = [at EXCEPT ![p] = x]
  /\ IF Follows(p) /\ ~deleting /\ Activated(gesture, x, steep).active
     THEN /\ gesture' = Activated(gesture, x, steep)
          /\ suppressNextClick' = (suppressNextClick \/ ~gesture.active)
          /\ swiping' = TRUE
          /\ dx' = Followed(gesture', x)
     ELSE UNCHANGED <<gesture, suppressNextClick, swiping, dx>>
  /\ UNCHANGED <<deleting, revealed, held, due, did, crossed>>

-----------------------------------------------------------------------------
\* Releasing: the branches of finish

\* p goes up, or is cancelled, and the row sees it.
Released(p, cancelled, follow) ==
  /\ due = "none" /\ p \in held
  /\ held' = held \ {p}
  /\ due' = IF cancelled THEN "none" ELSE follow
  /\ UNCHANGED at

\* The pointer is not the gesture's.
finishStray(p, cancelled) ==
  /\ ~Follows(p)
  /\ Released(p, cancelled, "stray")
  /\ UNCHANGED <<hook, did, crossed>>

\* A press that did not swipe closes an open row.
finishTap(p, cancelled) ==
  /\ Follows(p) /\ ~Swiping
  /\ Released(p, cancelled, IF crossed THEN "stray" ELSE IF revealed = "none" THEN "tap" ELSE "close")
  /\ gesture' = NoGesture
  /\ IF revealed = "none"
     THEN UNCHANGED <<revealed, dx, suppressNextClick>>
     ELSE revealed' = "none" /\ dx' = 0 /\ suppressNextClick' = TRUE
  /\ UNCHANGED <<deleting, swiping, did, crossed>>

\* Mutant: the distance that the row was open already is left out.
OffsetFromPress(g, x) == (x - g.startX) * g.direction

\* How far the row travelled in the locked direction.
Offset(g, x) == Travel(g, x) * g.direction

\* Mutant: the row is left where it was released.
RestsUnmoved(side) == revealed' = side /\ UNCHANGED <<dx, deleting>>

\* The row comes to rest open on a side, or closed.
Rests(side) == revealed' = side /\ dx' = restDx(side) /\ UNCHANGED deleting

\* A swipe commits, snaps open or springs back.
finishSwipe(p) ==
  LET offset == Offset(gesture, at[p])
      left   == gesture.direction < 0
  IN
  /\ Follows(p) /\ Swiping
  /\ Released(p, FALSE, IF crossed THEN "stray" ELSE "swipe")
  /\ gesture' = NoGesture /\ swiping' = FALSE /\ crossed' = (held' # {})
  /\ IF offset >= Commit /\ left
     THEN revealed' = "none" /\ deleting' = TRUE /\ dx' = -Width /\ did' = <<"swipe", "delete">>
     ELSE IF offset >= Commit
     THEN Rests("none") /\ did' = <<"swipe", "note">>
     ELSE IF 2 * offset >= Reveal
     THEN Rests(IF left THEN "left" ELSE "right") /\ did' = <<"swipe", "open">>
     ELSE Rests("none") /\ did' = <<"swipe", "spring">>
  /\ UNCHANGED suppressNextClick

\* A swipe the browser takes away springs back to where the row rested.
cancelSwipe(p) ==
  /\ Follows(p) /\ Swiping
  /\ Released(p, TRUE, "none")
  /\ gesture' = NoGesture /\ swiping' = FALSE /\ crossed' = (held' # {})
  /\ Rests(revealed)
  /\ UNCHANGED <<suppressNextClick, did>>

\* A mouse the row has not captured is released elsewhere.
ReleasedElsewhere(p) ==
  /\ due = "none" /\ p \in Mice \cap held /\ ~(Follows(p) /\ Swiping)
  /\ held' = held \ {p}
  /\ UNCHANGED <<hook, at, due, did, crossed>>

-----------------------------------------------------------------------------
\* Clicks, keys and the row's life

\* Mutant: the flag that a swipe leaves behind is not looked at.
SwallowedIfDeleting == deleting

Swallowed == deleting \/ suppressNextClick

\* A click on the checkbox: onClickCapture, then the checkbox's onChange.
onClickCapture ==
  /\ due # "none"
  /\ due' = "none"
  /\ suppressNextClick' = (suppressNextClick /\ ~Swallowed)
  /\ did' = <<due, IF Swallowed THEN "swallow" ELSE "toggle">>
  /\ UNCHANGED <<dx, deleting, swiping, revealed, gesture, held, at, crossed>>

\* No click comes: a touch that moved far has none.
NoClick ==
  /\ due # "none"
  /\ due' = "none"
  /\ UNCHANGED <<hook, held, at, did, crossed>>

\* The backdrop that shows has a button, and the row has two keys.
Act(event, effect) ==
  /\ due = "none"
  /\ did' = <<event, effect>>
  /\ UNCHANGED <<hook, held, at, due, crossed>>

DeleteButton == dx < 0 /\ Act("button", "delete")
NoteButton   == dx > 0 /\ Act("button", "note")
onKeyDown    == \E effect \in {"delete", "note"} : Act("key", effect)

\* The row leaves the screen, or its section, and is mounted anew; so it does
\* after each of its effects.
Remount ==
  /\ due = "none"
  /\ dx' = 0 /\ deleting' = FALSE /\ swiping' = FALSE /\ revealed' = "none"
  /\ gesture' = NoGesture /\ suppressNextClick' = FALSE
  /\ did' = <<"mount", "none">> /\ crossed' = FALSE
  /\ UNCHANGED <<held, at, due>>

Next ==
  \/ \E p \in Pointers, x \in Positions :
       onPointerDown(p, x) \/ \E steep \in BOOLEAN : onPointerMove(p, x, steep)
  \/ \E p \in Pointers :
       \/ \E cancelled \in BOOLEAN : finishStray(p, cancelled) \/ finishTap(p, cancelled)
       \/ finishSwipe(p) \/ cancelSwipe(p) \/ ReleasedElsewhere(p)
  \/ onClickCapture \/ NoClick
  \/ DeleteButton \/ NoteButton \/ onKeyDown
  \/ Remount

Spec == Init /\ [][Next]_vars

-----------------------------------------------------------------------------
\* Properties

\* A row that slides off follows no gesture and is open on no side.
TypeOK ==
  /\ dx \in Int /\ deleting \in BOOLEAN /\ swiping \in BOOLEAN
  /\ suppressNextClick \in BOOLEAN /\ crossed \in BOOLEAN
  /\ revealed \in {"none", "left", "right"}
  /\ gesture \in Gestures \cup {NoGesture}
  /\ held \subseteq Pointers /\ at \in [Pointers -> Positions]
  /\ due \in {"none", "tap", "close", "swipe", "stray"}
  /\ deleting => gesture = NoGesture /\ revealed = "none"

\* When no swipe is under way the row lies where it is open, or off the
\* screen: nothing is left half-way by any order of presses, moves, releases
\* and cancellations, unless a press began before the hook saw the last one
\* end; and a swipe that ends with no other pointer down brings such a row to
\* rest as well.
RestsWhereRevealed ==
  ~Swiping /\ ~crossed =>
    /\ ~swiping
    /\ dx = IF deleting THEN -Width ELSE restDx(revealed)

\* The strip of the other side never shows during a swipe, wherever the row
\* was open when it began and however far back the pointer goes.
OneSideShown == Swiping => dx * gesture.direction >= 0

\* A swipe does what the row shows when it is released: it deletes just when
\* the row is past the threshold on the left, and converts just when it is on
\* the right, however the row was open before.
CommitsWhatIsShown ==
  [][ did' # did /\ did'[1] = "swipe" /\ did'[2] # "toggle" /\ did'[2] # "swallow" =>
        /\ (did'[2] = "delete") <=> (dx <= -Commit)
        /\ (did'[2] = "note") <=> (dx >= Commit) ]_vars

\* Neither the click that ends a swipe nor the one that closes an open row
\* checks the item, unless presses crossed.
SwipeNeverToggles ==
  did[1] \in {"swipe", "close"} => did[2] # "toggle"
=============================================================================
