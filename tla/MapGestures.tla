--------------------------- MODULE MapGestures ---------------------------
(***************************************************************************)
(* The fingers on the map: bindGestures() of board/board.ts. Pointer       *)
(* events become pans, pinches, throws, double taps and province taps, and *)
(* the click the browser makes of a gesture is blocked or let through. A   *)
(* tick is 50 ms. The finger of a pointerup the page never saw stays       *)
(* tracked; what gesture the player really made is kept beside it.         *)
(***************************************************************************)
EXTENDS MapView, FiniteSets

CONSTANTS
  Block,      \* CLICK_BLOCK_MS, in ticks
  Double,     \* how quick a second tap is, in ticks
  Stale,      \* INERTIA_MAX_AGE_MS, in ticks
  MaxWheel    \* bound on the notches gathered in a window

VARIABLES
  hand,    \* the player: [fingers, mouse, panned, pinched]
  track,   \* what the handlers keep
  view, pane,
  animation,
  wheel,   \* the wheel accumulator: the notches gathered in this window
  click,   \* a click of the browser's is due
  did      \* what the last pointerup or click came to

gestureVars == <<hand, track, view, pane, animation, wheel, click, did>>

Fingers == {1, 2}

GestureInit ==
  /\ hand = [fingers |-> {}, mouse |-> FALSE, panned |-> FALSE, pinched |-> FALSE]
  /\ track = [pointers |-> {}, moved |-> 0, dragging |-> FALSE, pinch |-> FALSE,
              block |-> 0, sinceTap |-> Double, age |-> Stale + 1]
  /\ pane \in Panes
  /\ \E narrow \in BOOLEAN : view = resetView(pane, narrow)
  /\ animation = "none"
  /\ wheel = [pixels |-> 0, pending |-> FALSE]
  /\ click = FALSE
  /\ did = "nothing"

\* Mutant of Tracked: no sweep, so a lost pointerup stays for good.
NoSweep(primary, f) == track.pointers \cup {f}

(* A primary pointer means no other finger is down. *)
Tracked(primary, f) == (IF primary THEN {} ELSE track.pointers) \cup {f}

(* stopAnimation: nothing animates the view under a finger. *)
Calmed == "none"

(* pointerdown. A new touch ends any animation and lifts the block. *)
Down(f, mouse) ==
  /\ f \notin hand.fingers /\ ~click
  /\ mouse => hand.fingers = {} /\ f = 1
  /\ hand.fingers # {} => ~hand.mouse
  /\ LET primary == hand.fingers = {}
         pointers == Tracked(primary, f)
         two == Cardinality(pointers) = 2
     IN  /\ hand' = [fingers |-> hand.fingers \cup {f}, mouse |-> mouse,
                     panned |-> ~primary /\ hand.panned, pinched |-> ~primary]
         /\ track' = IF two
                     THEN [track EXCEPT !.pointers = pointers, !.pinch = TRUE,
                                        !.dragging = FALSE, !.block = Block]
                     ELSE [track EXCEPT !.pointers = pointers, !.moved = 0, !.dragging = TRUE,
                                        !.age = 0, !.block = 0]
  /\ animation' = Calmed
  /\ did' = "nothing"
  /\ UNCHANGED <<view, pane, wheel, click>>

(* pointermove: one finger pans once it is past the slop, two pinch. *)
PointerMove(f) ==
  /\ f \in hand.fingers \cap track.pointers /\ ~click
  /\ IF Cardinality(track.pointers) = 1 /\ track.dragging
     THEN /\ track' = [track EXCEPT !.block = IF track.moved > 0 THEN Block ELSE @,
                                    !.moved = IF @ < 2 THEN @ + 1 ELSE @, !.age = 0]
          /\ hand' = [hand EXCEPT !.panned = @ \/ track.moved > 0]
          /\ \E dx, dy \in {-1, 0, 1} :
               view' = IF track.moved > 0 THEN pannedView(view, dx, dy) ELSE view
     ELSE IF Cardinality(track.pointers) = 2 /\ track.pinch
     THEN /\ \E num, den \in {1, 2}, at \in {0, 1, 2} \X {0, 2} :
               view' = zoomedView(pane, view, at, num, den)
          /\ UNCHANGED <<track, hand>>
     ELSE UNCHANGED <<track, hand, view>>
  /\ did' = "nothing"
  /\ UNCHANGED <<pane, animation, wheel, click>>

Freed(f) ==
  LET left == track.pointers \ {f}
  IN  [track EXCEPT !.pointers = left, !.dragging = @ /\ left # {},
                    !.pinch = @ /\ Cardinality(left) = 2]

(* What the lifting of the last tracked finger comes to. onUnit and        *)
(* supporting: what is under it, and whether a support is being built.     *)
Released(f, onUnit, supporting) ==
  CASE track.moved > 1 ->
         [track |-> Freed(f), did |-> "pan",
          animation |-> IF track.age <= Stale THEN "coast" ELSE animation]
    [] track.moved <= 1 /\ track.sinceTap < Double /\ ~supporting ->
         [track |-> [Freed(f) EXCEPT !.block = Block, !.sinceTap = Double],
          did |-> IF onUnit THEN "hold" ELSE "zoom",
          animation |-> IF onUnit THEN animation ELSE "zoom"]
    [] OTHER ->
         [track |-> [Freed(f) EXCEPT !.sinceTap = 0, !.block = IF hand.mouse THEN @ ELSE Block],
          did |-> IF hand.mouse THEN "nothing" ELSE "tap",
          animation |-> animation]

(* pointerup. Touch taps are resolved here, mouse taps by their click; a   *)
(* browser may make a click of either.                                     *)
Up(f) ==
  /\ f \in hand.fingers /\ ~click
  /\ hand' = [hand EXCEPT !.fingers = @ \ {f}]
  /\ \E onUnit, supporting \in BOOLEAN :
       IF f \in track.pointers /\ Cardinality(track.pointers) = 1
       THEN LET r == Released(f, onUnit, supporting)
            IN  track' = r.track /\ did' = r.did /\ animation' = r.animation
       ELSE /\ track' = IF f \in track.pointers THEN Freed(f) ELSE track
            /\ did' = "ignored"
            /\ UNCHANGED animation
  /\ click' \in IF hand.mouse \/ (~hand.pinched /\ ~hand.panned) THEN BOOLEAN ELSE {FALSE}
  /\ UNCHANGED <<view, pane, wheel>>

(* The click that follows, in the capture phase: swallowed or a tap. *)
Click ==
  /\ click
  /\ click' = FALSE
  /\ track' = [track EXCEPT !.block = 0]
  /\ did' = IF track.block = 0 THEN "tap" ELSE IF did = "nothing" THEN "blocked" ELSE did
  /\ UNCHANGED <<hand, view, pane, animation, wheel>>

(* pointercancel frees the finger and is no tap. *)
PointerCancelled(f) ==
  /\ f \in hand.fingers /\ ~click
  /\ hand' = [hand EXCEPT !.fingers = @ \ {f}]
  /\ track' = IF f \in track.pointers THEN Freed(f) ELSE track
  /\ did' = "nothing"
  /\ UNCHANGED <<view, pane, animation, wheel, click>>

(* A finger lifts and the page never hears of it. *)
LostUp(f) ==
  /\ f \in hand.fingers /\ ~click
  /\ hand' = [hand EXCEPT !.fingers = @ \ {f}]
  /\ did' = "nothing"
  /\ UNCHANGED <<track, view, pane, animation, wheel, click>>

Tick ==
  /\ ~click
  /\ track' = [track EXCEPT !.block = IF @ > 0 THEN @ - 1 ELSE 0,
                            !.sinceTap = IF @ < Double THEN @ + 1 ELSE @,
                            !.age = IF @ <= Stale THEN @ + 1 ELSE @]
  /\ did' = "nothing"
  /\ UNCHANGED <<hand, view, pane, animation, wheel, click>>

(* One frame of a coast or of an eased zoom, the last one or not. *)
Frame ==
  /\ animation # "none"
  /\ view' \in IF animation = "coast"
               THEN {pannedView(view, dx, dy) : dx, dy \in {-1, 0, 1}}
               ELSE {view, zoomedView(pane, view, <<1, 0>>, 2, 1)}
  /\ animation' \in {"none", animation}
  /\ UNCHANGED <<hand, track, pane, wheel, click, did>>

(* Wheel events are gathered, and one zoom step is made of a window. *)
Wheel(notch) ==
  /\ wheel.pixels + notch \in -MaxWheel..MaxWheel
  /\ animation' = Calmed
  /\ wheel' = [pixels |-> wheel.pixels + notch, pending |-> TRUE]
  /\ UNCHANGED <<hand, track, view, pane, click, did>>

WheelFlush ==
  /\ wheel.pending
  /\ wheel' = [pixels |-> 0, pending |-> FALSE]
  /\ view' \in IF wheel.pixels = 0 THEN {view}
               ELSE {zoomedView(pane, view, at, IF wheel.pixels < 0 THEN 2 ELSE 1,
                                IF wheel.pixels < 0 THEN 1 ELSE 2) : at \in {0, 1, 2} \X {0, 2}}
  /\ UNCHANGED <<hand, track, pane, animation, click, did>>

(* The window or the pane changed shape. *)
Resize ==
  /\ pane' \in Panes \ {pane}
  /\ view' = refit(pane', view)
  /\ UNCHANGED <<hand, track, animation, wheel, click, did>>

GestureNext ==
  \/ \E f \in Fingers : \/ \E mouse \in BOOLEAN : Down(f, mouse)
                        \/ PointerMove(f) \/ Up(f) \/ PointerCancelled(f) \/ LostUp(f)
  \/ Click \/ Tick \/ Frame \/ Resize \/ WheelFlush
  \/ \E notch \in {-1, 1} : Wheel(notch)

GestureSpec == GestureInit /\ [][GestureNext]_gestureVars

-----------------------------------------------------------------------------
(* Properties.                                                             *)

(* Whatever pans, pinches, throws, wheel steps and resizes follow each     *)
(* other, the view is over the map, centred where it is the larger, and    *)
(* between fit-all and MaxZoom times closer (placeView, clampedSize).      *)
ViewOverMap ==
  /\ OnMap(MapBox.x, MapBox.w, view.w, view.x)
  /\ OnMap(MapBox.y, MapBox.h, view.h, view.y)
  /\ view.w <= fitAllWidth(pane) /\ view.w * MaxZoom >= fitAllWidth(pane)

(* One finger down and up on one spot is a tap, a hold or a zoom, whatever *)
(* went before: a pan whose click never came, a pinch, a pointerup the     *)
(* page never saw (the sweep and the lifted block in pointerdown).         *)
TapAlwaysLands == did \in {"ignored", "blocked"} => hand.panned \/ hand.pinched
=============================================================================
