----------------------------- MODULE MapView -----------------------------
(***************************************************************************)
(* The pan and zoom arithmetic of board/viewbox.ts, in whole map units: a  *)
(* view is the part of the map's own box that is on screen, and every pan, *)
(* zoom, coast and resize goes through placeView.                          *)
(***************************************************************************)
EXTENDS Integers

CONSTANTS
  MapBox,      \* the map's own viewBox
  Panes,       \* the shapes the container can take, [width, height]
  MaxZoom,     \* how much closer than fit-all a view may go
  NarrowStep   \* how far in a narrow board opens

clamp(value, low, high) ==
  IF value < low THEN low ELSE IF value > high THEN high ELSE value

fitAllWidth(pane) ==
  LET across == (MapBox.h * pane.width) \div pane.height
  IN  IF across > MapBox.w THEN across ELSE MapBox.w

(* Map units are fine enough for the closest view to be a whole number of  *)
(* them; the code's are not whole.                                         *)
ASSUME MapAssumption ==
  /\ MapBox \in [x : Int, y : Int, w : Nat \ {0}, h : Nat \ {0}]
  /\ Panes \subseteq [width : Nat \ {0}, height : Nat \ {0}]
  /\ MaxZoom \in Nat \ {0} /\ NarrowStep \in Nat \ {0}
  /\ \A pane \in Panes : fitAllWidth(pane) % MaxZoom = 0

clampedSize(pane, wanted) ==
  LET w == clamp(wanted, fitAllWidth(pane) \div MaxZoom, fitAllWidth(pane))
  IN  [w |-> w, h |-> (w * pane.height) \div pane.width]

\* Mutant of placeAxis: a view wider than the map is clamped like any other.
ClampOnly(low, length, size, at) == clamp(at, low, low + length - size)

(* Where the view is larger than the map there is nothing to pan along. *)
placeAxis(low, length, size, at) ==
  IF size >= length THEN low + (length - size) \div 2 ELSE clamp(at, low, low + length - size)

placeView(size, x, y) ==
  [w |-> size.w, h |-> size.h,
   x |-> placeAxis(MapBox.x, MapBox.w, size.w, x),
   y |-> placeAxis(MapBox.y, MapBox.h, size.h, y)]

centredView(pane, wanted) ==
  LET size == clampedSize(pane, wanted)
  IN  placeView(size, MapBox.x + (MapBox.w - size.w) \div 2, MapBox.y + (MapBox.h - size.h) \div 2)

(* Zoomed by num/den about a point given in halves of the pane, (0,0) its  *)
(* top left corner and (2,2) its bottom right one: that map point stays.   *)
zoomedView(pane, view, at, num, den) ==
  LET size == clampedSize(pane, (view.w * den) \div num)
  IN  placeView(size, view.x + (at[1] * (view.w - size.w)) \div 2,
                      view.y + (at[2] * (view.h - size.h)) \div 2)

(* Panned by halves of the view, at the current zoom. *)
pannedView(view, dx, dy) ==
  placeView([w |-> view.w, h |-> view.h],
            view.x - (dx * view.w) \div 2, view.y - (dy * view.h) \div 2)

(* The same middle, in a pane that changed shape. *)
refit(pane, view) ==
  LET size == clampedSize(pane, view.w)
  IN  placeView(size, view.x + (view.w - size.w) \div 2, view.y + (view.h - size.h) \div 2)

(* Wide boards open on the whole map, narrow ones a little further in. *)
resetView(pane, narrow) ==
  LET widest == fitAllWidth(pane)
      within == IF widest < MapBox.w THEN widest ELSE MapBox.w
  IN  centredView(pane, IF narrow THEN within \div NarrowStep ELSE widest)

-----------------------------------------------------------------------------

(* On each axis the view lies within the map, or, when it is larger than   *)
(* the map, has it in the middle.                                          *)
OnMap(low, length, size, at) ==
  IF size >= length THEN at = low + (length - size) \div 2
  ELSE at >= low /\ at + size <= low + length
=============================================================================
