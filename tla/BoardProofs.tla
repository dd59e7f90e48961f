------------------------------ MODULE BoardProofs ------------------------------
(***************************************************************************)
(* The board of a seat, for every map, every pane and every set of         *)
(* provinces: a tap lands where the finger was, the taps of an order make one*)
(* that was offered, the map stays in sight, what is drawn on it is what the*)
(* board was last told, and the pieces on a real board follow the guide to *)
(* the game's position, but for those no guide had a true word for.        *)
(* The parts share nothing; each has its own invariant.                    *)
(***************************************************************************)
EXTENDS MapGestures, BoardDrawing, BoardOrders, TableBoard, FiniteSetTheorems,
        SequenceTheorems, TLAPS

-------------------------------------------------------------------------------
(* MapGestures: a finger that is alone on the map and has neither panned   *)
(* nor pinched is the only one tracked, and no click of it is blocked.     *)

Hand == [fingers : SUBSET Fingers, mouse : BOOLEAN, panned : BOOLEAN, pinched : BOOLEAN]
IsTrack(t) ==
  /\ t \in [pointers : SUBSET Fingers, moved : {t.moved}, dragging : {t.dragging}, pinch : {t.pinch},
            block : {t.block}, sinceTap : {t.sinceTap}, age : {t.age}]
  /\ t.moved \in Nat

OneTap == ~hand.panned /\ ~hand.pinched

TapInv ==
  /\ hand \in Hand /\ IsTrack(track)
  /\ OneTap =>
       /\ hand.fingers # {} => track.pointers = hand.fingers /\ Cardinality(hand.fingers) = 1
                               /\ track.block = 0
       /\ click /\ did = "nothing" => track.block = 0
       /\ did \notin {"ignored", "blocked"}

LEMMA TapInit == GestureInit => TapInv
<1> SUFFICES ASSUME GestureInit PROVE TapInv
  OBVIOUS
<1>1. hand \in Hand
  BY DEF GestureInit, Hand
<1>2. IsTrack(track)
  BY DEF GestureInit, IsTrack
<1> QED BY <1>1, <1>2 DEF GestureInit, TapInv

LEMMA FreedTrack == ASSUME IsTrack(track), NEW f PROVE IsTrack(Freed(f)) /\ Freed(f).block = track.block
BY DEF IsTrack, Freed

\* What lifting the last tracked finger comes to.
LEMMA ReleasedOne ==
  ASSUME IsTrack(track), NEW f, NEW onUnit \in BOOLEAN, NEW supporting \in BOOLEAN,
         NEW r, r = Released(f, onUnit, supporting)
  PROVE  /\ IsTrack(r.track)
         /\ r.did = "nothing" => r.track.block = track.block
         /\ r.did \notin {"ignored", "blocked"}
<1>0. IsTrack(Freed(f)) /\ Freed(f).block = track.block
  BY FreedTrack
<1>1. CASE track.moved > 1
  <2>1. r = [track |-> Freed(f), did |-> "pan",
             animation |-> IF track.age <= Stale THEN "coast" ELSE animation]
    <3>1. ~(track.moved <= 1)
      BY <1>1 DEF IsTrack
    <3> QED BY <1>1, <3>1 DEF Released
  <2>2. r.track = Freed(f) /\ r.did = "pan"
    BY <2>1
  <2> QED BY <1>0, <2>2
<1>2. CASE track.moved <= 1 /\ track.sinceTap < Double /\ ~supporting
  <2>0. ~(track.moved > 1)
    BY <1>2 DEF IsTrack
  <2>1. r = [track |-> [Freed(f) EXCEPT !.block = Block, !.sinceTap = Double],
             did |-> IF onUnit THEN "hold" ELSE "zoom",
             animation |-> IF onUnit THEN animation ELSE "zoom"]
    BY <1>2, <2>0 DEF Released
  <2>2. r.track = [Freed(f) EXCEPT !.block = Block, !.sinceTap = Double]
    BY <2>1
  <2>3. r.did \in {"hold", "zoom"}
    BY <2>1
  <2> QED BY <1>0, <2>2, <2>3 DEF IsTrack
<1>3. CASE track.moved <= 1 /\ ~(track.sinceTap < Double /\ ~supporting)
  <2>0. ~(track.moved > 1)
    BY <1>3 DEF IsTrack
  <2>1. r = [track |-> [Freed(f) EXCEPT !.sinceTap = 0, !.block = IF hand.mouse THEN @ ELSE Block],
             did |-> IF hand.mouse THEN "nothing" ELSE "tap", animation |-> animation]
    BY <1>3, <2>0 DEF Released
  <2>2. r.track = [Freed(f) EXCEPT !.sinceTap = 0, !.block = IF hand.mouse THEN @ ELSE Block]
    BY <2>1
  <2>3. r.did = IF hand.mouse THEN "nothing" ELSE "tap"
    BY <2>1
  <2> QED BY <1>0, <2>2, <2>3 DEF IsTrack
<1>4. track.moved > 1 \/ track.moved <= 1
  BY DEF IsTrack
<1> QED BY <1>1, <1>2, <1>3, <1>4

LEMMA DownKeeps ==
  ASSUME TapInv, NEW f \in Fingers, NEW mouse \in BOOLEAN, Down(f, mouse) PROVE TapInv'
<1> DEFINE primary == hand.fingers = {}
           pointers == Tracked(primary, f)
           two == Cardinality(pointers) = 2
<1>1. /\ hand' = [fingers |-> hand.fingers \cup {f}, mouse |-> mouse,
                  panned |-> ~primary /\ hand.panned, pinched |-> ~primary]
      /\ track' = IF two
                  THEN [track EXCEPT !.pointers = pointers, !.pinch = TRUE,
                                     !.dragging = FALSE, !.block = Block]
                  ELSE [track EXCEPT !.pointers = pointers, !.moved = 0, !.dragging = TRUE,
                                     !.age = 0, !.block = 0]
      /\ did' = "nothing" /\ ~click /\ click' = click
  BY DEF Down
<1>2. /\ hand.fingers \in SUBSET Fingers /\ hand.panned \in BOOLEAN /\ IsTrack(track)
      /\ track.pointers \in SUBSET Fingers
  BY DEF TapInv, Hand, IsTrack
<1>3. pointers \in SUBSET Fingers
  BY <1>2 DEF Tracked
<1>4. primary => pointers = {f} /\ ~two
  <2>1. Cardinality({f}) = 1
    BY FS_Singleton
  <2> QED BY <2>1 DEF Tracked
<1> HIDE DEF pointers, two
<1>5. IsTrack(track') /\ track'.pointers = pointers /\ (~two => track'.block = 0)
  BY <1>1, <1>2, <1>3 DEF IsTrack
<1>6. hand' \in Hand
  BY <1>1, <1>2 DEF Hand
<1>7. OneTap' => primary
  BY <1>1 DEF OneTap
<1>8. CASE primary
  <2>1. hand'.fingers = {f} /\ Cardinality(hand'.fingers) = 1 /\ track'.pointers = {f}
    BY <1>1, <1>4, <1>5, <1>8, FS_Singleton
  <2> QED BY <1>1, <1>4, <1>5, <1>6, <1>8, <2>1 DEF TapInv
<1>9. CASE ~primary
  BY <1>5, <1>6, <1>7, <1>9 DEF TapInv
<1> QED BY <1>8, <1>9

LEMMA MoveKeeps == ASSUME TapInv, NEW f \in Fingers, PointerMove(f) PROVE TapInv'
<1>1. hand \in Hand /\ IsTrack(track)
  BY DEF TapInv
<1>2. /\ did' = "nothing" /\ ~click /\ click' = click
      /\ f \in hand.fingers
  BY DEF PointerMove
<1>3. CASE Cardinality(track.pointers) = 1 /\ track.dragging
  <2>1. /\ track' = [track EXCEPT !.block = IF track.moved > 0 THEN Block ELSE @,
                                  !.moved = IF @ < 2 THEN @ + 1 ELSE @, !.age = 0]
        /\ hand' = [hand EXCEPT !.panned = @ \/ track.moved > 0]
    BY <1>3 DEF PointerMove
  <2>2. IsTrack(track') /\ track'.pointers = track.pointers
        /\ (~(track.moved > 0) => track'.block = track.block)
    <3> DEFINE block == IF track.moved > 0 THEN Block ELSE track.block
               moved == IF track.moved < 2 THEN track.moved + 1 ELSE track.moved
    <3>1. track' = [track EXCEPT !.block = block, !.moved = moved, !.age = 0]
      BY <2>1
    <3>2. moved \in Nat /\ (~(track.moved > 0) => block = track.block)
      BY <1>1 DEF IsTrack
    <3> HIDE DEF block, moved
    <3> QED BY <1>1, <3>1, <3>2 DEF IsTrack
  <2>3. PICK yes \in BOOLEAN : yes <=> track.moved > 0
    <3>1. CASE track.moved > 0
      <4> WITNESS TRUE \in BOOLEAN
      <4> QED BY <3>1
    <3>2. CASE ~(track.moved > 0)
      <4> WITNESS FALSE \in BOOLEAN
      <4> QED BY <3>2
    <3> QED BY <3>1, <3>2
  <2>4. hand' = [hand EXCEPT !.panned = @ \/ yes]
    BY <2>1, <2>3
  <2>5. /\ hand' \in Hand /\ hand'.fingers = hand.fingers /\ hand'.pinched = hand.pinched
        /\ hand'.panned = (hand.panned \/ yes)
    BY <1>1, <2>4 DEF Hand
  <2> QED BY <1>1, <1>2, <2>2, <2>3, <2>5 DEF TapInv, OneTap
<1>4. CASE ~(Cardinality(track.pointers) = 1 /\ track.dragging)
  <2>1. UNCHANGED <<track, hand>>
    BY <1>4 DEF PointerMove
  <2> QED BY <1>2, <2>1 DEF TapInv, OneTap
<1> QED BY <1>3, <1>4

LEMMA UpKeeps == ASSUME TapInv, NEW f \in Fingers, Up(f) PROVE TapInv'
<1>1. hand \in Hand /\ IsTrack(track)
  BY DEF TapInv
<1>2. /\ f \in hand.fingers /\ ~click
      /\ hand' = [hand EXCEPT !.fingers = @ \ {f}]
  BY DEF Up
<1>3. /\ hand' \in Hand /\ hand'.fingers = hand.fingers \ {f}
      /\ hand'.panned = hand.panned /\ hand'.pinched = hand.pinched
  BY <1>1, <1>2 DEF Hand
<1>4. OneTap' => OneTap
  BY <1>3 DEF OneTap
<1>5. OneTap => hand'.fingers = {}
  <2> SUFFICES ASSUME OneTap PROVE hand'.fingers = {}
    OBVIOUS
  <2>1. Cardinality(hand.fingers) = 1 /\ hand.fingers \in SUBSET Fingers
    BY <1>1, <1>2 DEF TapInv, Hand
  <2>2. IsFiniteSet(hand.fingers)
    <3>1. IsFiniteSet(Fingers)
      <4>1. IsFiniteSet({1}) /\ Fingers = {1} \cup {2}
        BY FS_Singleton DEF Fingers
      <4> QED BY <4>1, FS_AddElement
    <3> QED BY <2>1, <3>1, FS_Subset
  <2>3. PICK g : hand.fingers = {g}
    BY <2>1, <2>2, FS_Singleton
  <2> QED BY <1>2, <1>3, <2>3
<1>6. PICK onUnit \in BOOLEAN, supporting \in BOOLEAN :
        IF f \in track.pointers /\ Cardinality(track.pointers) = 1
        THEN LET r == Released(f, onUnit, supporting)
             IN  track' = r.track /\ did' = r.did
        ELSE /\ track' = IF f \in track.pointers THEN Freed(f) ELSE track
             /\ did' = "ignored"
  BY DEF Up
<1>7. CASE f \in track.pointers /\ Cardinality(track.pointers) = 1
  <2>0. PICK r : r = Released(f, onUnit, supporting)
    OBVIOUS
  <2>1. track' = r.track /\ did' = r.did
    BY <1>6, <1>7, <2>0
  <2>2. /\ IsTrack(r.track) /\ r.did \notin {"ignored", "blocked"}
        /\ r.did = "nothing" => r.track.block = track.block
    BY <1>1, <2>0, ReleasedOne
  <2>3. OneTap => track.block = 0
    BY <1>2 DEF TapInv
  <2> QED BY <1>3, <1>4, <1>5, <2>1, <2>2, <2>3 DEF TapInv
<1>8. CASE ~(f \in track.pointers /\ Cardinality(track.pointers) = 1)
  <2>1. ~OneTap
    BY <1>2, <1>8 DEF TapInv
  <2>2. IsTrack(track')
    BY <1>1, <1>6, <1>8, FreedTrack
  <2> QED BY <1>3, <1>4, <2>1, <2>2 DEF TapInv
<1> QED BY <1>7, <1>8

\* A finger that is gone, told or not, leaves none in a gesture of one.
LEMMA GoneKeeps ==
  ASSUME TapInv, NEW f \in Fingers, PointerCancelled(f) \/ LostUp(f) PROVE TapInv'
<1>1. hand \in Hand /\ IsTrack(track)
  BY DEF TapInv
<1>2. /\ f \in hand.fingers /\ ~click /\ click' = click /\ did' = "nothing"
      /\ hand' = [hand EXCEPT !.fingers = @ \ {f}]
  BY DEF PointerCancelled, LostUp
<1>3. /\ hand' \in Hand /\ hand'.fingers = hand.fingers \ {f}
      /\ hand'.panned = hand.panned /\ hand'.pinched = hand.pinched
  BY <1>1, <1>2 DEF Hand
<1>4. OneTap' = OneTap
  BY <1>3 DEF OneTap
<1>5. OneTap => hand'.fingers = {}
  <2> SUFFICES ASSUME OneTap PROVE hand'.fingers = {}
    OBVIOUS
  <2>1. Cardinality(hand.fingers) = 1 /\ hand.fingers \in SUBSET Fingers
    BY <1>1, <1>2 DEF TapInv, Hand
  <2>2. IsFiniteSet(hand.fingers)
    <3>1. IsFiniteSet(Fingers)
      <4>1. IsFiniteSet({1}) /\ Fingers = {1} \cup {2}
        BY FS_Singleton DEF Fingers
      <4> QED BY <4>1, FS_AddElement
    <3> QED BY <2>1, <3>1, FS_Subset
  <2>3. PICK g : hand.fingers = {g}
    BY <2>1, <2>2, FS_Singleton
  <2> QED BY <1>2, <1>3, <2>3
<1>6. IsTrack(track')
  BY <1>1, FreedTrack DEF PointerCancelled, LostUp
<1> QED BY <1>2, <1>3, <1>4, <1>5, <1>6 DEF TapInv

LEMMA TapStep == TapInv /\ [GestureNext]_gestureVars => TapInv'
<1> SUFFICES ASSUME TapInv, [GestureNext]_gestureVars PROVE TapInv'
  OBVIOUS
<1>0. hand \in Hand /\ IsTrack(track)
  BY DEF TapInv
<1>1. CASE Click
  <2>1. /\ track' = [track EXCEPT !.block = 0] /\ UNCHANGED hand /\ click /\ ~click'
        /\ did' = IF track.block = 0 THEN "tap" ELSE IF did = "nothing" THEN "blocked" ELSE did
    BY <1>1 DEF Click
  <2>2. IsTrack(track') /\ track'.pointers = track.pointers /\ track'.block = 0
    BY <1>0, <2>1 DEF IsTrack
  <2> QED BY <2>1, <2>2 DEF TapInv, OneTap
<1>2. CASE Tick
  <2>1. /\ track' = [track EXCEPT !.block = IF @ > 0 THEN @ - 1 ELSE 0,
                            !.sinceTap = IF @ < Double THEN @ + 1 ELSE @,
                            !.age = IF @ <= Stale THEN @ + 1 ELSE @]
        /\ UNCHANGED <<hand, click>> /\ ~click /\ did' = "nothing"
    BY <1>2 DEF Tick
  <2>2. IsTrack(track') /\ track'.pointers = track.pointers
        /\ (track.block = 0 => track'.block = 0)
    <3> DEFINE block == IF track.block > 0 THEN track.block - 1 ELSE 0
               sinceTap == IF track.sinceTap < Double THEN track.sinceTap + 1 ELSE track.sinceTap
               age == IF track.age <= Stale THEN track.age + 1 ELSE track.age
    <3>1. track' = [track EXCEPT !.block = block, !.sinceTap = sinceTap, !.age = age]
      BY <2>1
    <3>2. track.block = 0 => block = 0
      OBVIOUS
    <3> HIDE DEF block, sinceTap, age
    <3> QED BY <1>0, <3>1, <3>2 DEF IsTrack
  <2> QED BY <2>1, <2>2 DEF TapInv, OneTap
<1>3. CASE Frame \/ Resize \/ WheelFlush \/ (\E notch \in {-1, 1} : Wheel(notch))
           \/ UNCHANGED gestureVars
  <2>1. UNCHANGED <<hand, track, click, did>>
    BY <1>3 DEF Frame, Resize, WheelFlush, Wheel, gestureVars
  <2> QED BY <2>1 DEF TapInv, OneTap
<1> QED BY <1>1, <1>2, <1>3, DownKeeps, MoveKeeps, UpKeeps, GoneKeeps DEF GestureNext

\* bindGestures: however long each delay is, whatever fingers came, went or
\* were lost before, a finger that is put down and lifted on one spot is never
\* swallowed.
THEOREM TapsLand == GestureSpec => []TapAlwaysLands
<1>1. TapInv => TapAlwaysLands
  BY DEF TapInv, TapAlwaysLands, OneTap, Hand
<1> QED BY <1>1, TapInit, TapStep, PTL DEF GestureSpec

-------------------------------------------------------------------------------
(* MapView: every view is placed by placeView at a clamped size, and a pan *)
(* keeps the size it has.                                                  *)

View == [x : Int, y : Int, w : Int, h : Int]

ViewInv == pane \in Panes /\ view \in View /\ ViewOverMap

LEMMA DivInt == ASSUME NEW a \in Int, NEW b \in Nat \ {0} PROVE a \div b \in Int
OBVIOUS

LEMMA FitAllWidth ==
  ASSUME NEW shape \in Panes
  PROVE  fitAllWidth(shape) \in Nat /\ shape.width \in Nat \ {0} /\ shape.height \in Nat \ {0}
<1>1. /\ MapBox.w \in Nat \ {0} /\ MapBox.h \in Nat \ {0}
      /\ shape.width \in Nat \ {0} /\ shape.height \in Nat \ {0}
  BY MapAssumption
<1> DEFINE across == (MapBox.h * shape.width) \div shape.height
<1>2. MapBox.h * shape.width \in Nat
  BY <1>1
<1>3. across \in Nat
  <2> DEFINE area == MapBox.h * shape.width
  <2>1. area \in Nat
    BY <1>2
  <2> HIDE DEF area
  <2>2. \A a \in Nat, b \in Nat \ {0} : a \div b \in Nat
    OBVIOUS
  <2>3. across = area \div shape.height
    BY DEF area
  <2> QED BY <2>1, <2>2, <2>3, <1>1
<1>4. fitAllWidth(shape) = IF across > MapBox.w THEN across ELSE MapBox.w
  BY DEF fitAllWidth
<1> HIDE DEF across
<1> QED BY <1>1, <1>3, <1>4

LEMMA ClampedWidth ==
  ASSUME NEW shape \in Panes, NEW wanted \in Int
  PROVE  LET size == clampedSize(shape, wanted)
         IN  /\ size.w \in Int /\ size.h \in Int
             /\ size.w <= fitAllWidth(shape) /\ size.w * MaxZoom >= fitAllWidth(shape)
<1> DEFINE all == fitAllWidth(shape)
           least == all \div MaxZoom
           w == clamp(wanted, least, all)
           h == (w * shape.height) \div shape.width
<1>1. all \in Nat /\ MaxZoom \in Nat \ {0} /\ all % MaxZoom = 0
      /\ shape.width \in Nat \ {0} /\ shape.height \in Nat \ {0}
  BY FitAllWidth, MapAssumption
<1> HIDE DEF all
<1>2. least \in Nat /\ least * MaxZoom = all
  <2>1. \A a \in Nat, b \in Nat \ {0} : a % b = 0 => a \div b \in Nat /\ (a \div b) * b = a
    OBVIOUS
  <2> QED BY <1>1, <2>1
<1> HIDE DEF least
<1>3. least <= all
  <2>1. \A a \in Nat, b \in Nat \ {0} : a <= a * b
    OBVIOUS
  <2> QED BY <1>1, <1>2, <2>1
<1>4. w \in Int /\ w <= all /\ w >= least
  BY <1>1, <1>2, <1>3 DEF clamp
<1> HIDE DEF w
<1>5. w * MaxZoom >= all
  <2>1. \A a \in Int, c \in Nat, b \in Nat \ {0} : a >= c => a * b >= c * b
    OBVIOUS
  <2> QED BY <1>1, <1>2, <1>4, <2>1
<1>6. h \in Int
  <2>1. w * shape.height \in Int
    BY <1>1, <1>4
  <2> QED BY <1>1, <2>1, DivInt
<1>7. clampedSize(shape, wanted) = [w |-> w, h |-> h]
  BY DEF clampedSize, w, least, all
<1> HIDE DEF h
<1> QED BY <1>4, <1>5, <1>6, <1>7 DEF all

LEMMA PlacedOnMap ==
  ASSUME NEW low \in Int, NEW length \in Int, NEW size \in Int, NEW at \in Int
  PROVE  /\ placeAxis(low, length, size, at) \in Int
         /\ OnMap(low, length, size, placeAxis(low, length, size, at))
BY DEF placeAxis, clamp, OnMap

LEMMA PlacedView ==
  ASSUME NEW size, size.w \in Int, size.h \in Int, NEW x \in Int, NEW y \in Int
  PROVE  LET placed == placeView(size, x, y)
         IN  /\ placed \in View /\ placed.w = size.w
             /\ OnMap(MapBox.x, MapBox.w, placed.w, placed.x)
             /\ OnMap(MapBox.y, MapBox.h, placed.h, placed.y)
<1>1. MapBox.x \in Int /\ MapBox.y \in Int /\ MapBox.w \in Int /\ MapBox.h \in Int
  BY MapAssumption
<1> DEFINE px == placeAxis(MapBox.x, MapBox.w, size.w, x)
           py == placeAxis(MapBox.y, MapBox.h, size.h, y)
<1>2. px \in Int /\ OnMap(MapBox.x, MapBox.w, size.w, px)
  BY <1>1, PlacedOnMap
<1>3. py \in Int /\ OnMap(MapBox.y, MapBox.h, size.h, py)
  BY <1>1, PlacedOnMap
<1>4. placeView(size, x, y) = [w |-> size.w, h |-> size.h, x |-> px, y |-> py]
  BY DEF placeView
<1> HIDE DEF px, py
<1> QED BY <1>2, <1>3, <1>4 DEF View

\* A view is over the map in a pane of a shape.
InPane(shape, v) ==
  /\ v \in View
  /\ OnMap(MapBox.x, MapBox.w, v.w, v.x) /\ OnMap(MapBox.y, MapBox.h, v.h, v.y)
  /\ v.w <= fitAllWidth(shape) /\ v.w * MaxZoom >= fitAllWidth(shape)

LEMMA ClampedOver ==
  ASSUME NEW shape \in Panes, NEW wanted \in Int, NEW x \in Int, NEW y \in Int
  PROVE  InPane(shape, placeView(clampedSize(shape, wanted), x, y))
<1>1. PICK size : size = clampedSize(shape, wanted)
  OBVIOUS
<1>2. /\ size.w \in Int /\ size.h \in Int
      /\ size.w <= fitAllWidth(shape) /\ size.w * MaxZoom >= fitAllWidth(shape)
  BY <1>1, ClampedWidth
<1>3. PICK placed : placed = placeView(size, x, y)
  OBVIOUS
<1>4. /\ placed \in View /\ placed.w = size.w
      /\ OnMap(MapBox.x, MapBox.w, placed.w, placed.x)
      /\ OnMap(MapBox.y, MapBox.h, placed.h, placed.y)
  BY <1>2, <1>3, PlacedView
<1>5. InPane(shape, placed)
  BY <1>2, <1>4 DEF InPane
<1> QED BY <1>1, <1>3, <1>5

LEMMA CentredOver ==
  ASSUME NEW shape \in Panes, NEW wanted \in Int PROVE InPane(shape, centredView(shape, wanted))
<1>1. PICK size : size = clampedSize(shape, wanted)
  OBVIOUS
<1>2. size.w \in Int /\ size.h \in Int
  BY <1>1, ClampedWidth
<1>3. MapBox.x \in Int /\ MapBox.y \in Int /\ MapBox.w \in Int /\ MapBox.h \in Int
  BY MapAssumption
<1>4. /\ MapBox.x + (MapBox.w - size.w) \div 2 \in Int
      /\ MapBox.y + (MapBox.h - size.h) \div 2 \in Int
  BY <1>2, <1>3
<1>5. centredView(shape, wanted)
        = placeView(size, MapBox.x + (MapBox.w - size.w) \div 2, MapBox.y + (MapBox.h - size.h) \div 2)
  BY <1>1 DEF centredView
<1> QED BY <1>1, <1>4, <1>5, ClampedOver

LEMMA ResetOver ==
  ASSUME NEW shape \in Panes, NEW narrow \in BOOLEAN PROVE InPane(shape, resetView(shape, narrow))
<1>1. /\ fitAllWidth(shape) \in Nat /\ MapBox.w \in Nat /\ NarrowStep \in Nat \ {0}
  BY FitAllWidth, MapAssumption
<1> DEFINE within == IF fitAllWidth(shape) < MapBox.w THEN fitAllWidth(shape) ELSE MapBox.w
           wanted == IF narrow THEN within \div NarrowStep ELSE fitAllWidth(shape)
<1>2. wanted \in Int
  <2>1. within \in Int
    BY <1>1
  <2> QED BY <1>1, <2>1, DivInt
<1>3. resetView(shape, narrow) = centredView(shape, wanted)
  BY DEF resetView
<1> HIDE DEF wanted
<1> QED BY <1>2, <1>3, CentredOver

LEMMA ZoomedOver ==
  ASSUME NEW shape \in Panes, NEW v \in View, NEW at \in {0, 1, 2} \X {0, 1, 2},
         NEW num \in {1, 2}, NEW den \in {1, 2}
  PROVE  InPane(shape, zoomedView(shape, v, at, num, den))
<1>0. v.w \in Int /\ v.h \in Int /\ v.x \in Int /\ v.y \in Int /\ at[1] \in Int /\ at[2] \in Int
  BY DEF View
<1>1. (v.w * den) \div num \in Int
  BY <1>0
<1>2. PICK size : size = clampedSize(shape, (v.w * den) \div num)
  OBVIOUS
<1>3. size.w \in Int /\ size.h \in Int
  BY <1>1, <1>2, ClampedWidth
<1> DEFINE x == v.x + (at[1] * (v.w - size.w)) \div 2
           y == v.y + (at[2] * (v.h - size.h)) \div 2
<1>4. x \in Int /\ y \in Int
  <2>1. at[1] * (v.w - size.w) \in Int /\ at[2] * (v.h - size.h) \in Int
    BY <1>0, <1>3
  <2> QED BY <1>0, <2>1, DivInt
<1>5. zoomedView(shape, v, at, num, den) = placeView(size, x, y)
  BY <1>2 DEF zoomedView
<1> HIDE DEF x, y
<1> QED BY <1>1, <1>2, <1>4, <1>5, ClampedOver

LEMMA PannedOver ==
  ASSUME NEW shape \in Panes, NEW v, InPane(shape, v), NEW dx \in {-1, 0, 1}, NEW dy \in {-1, 0, 1}
  PROVE  InPane(shape, pannedView(v, dx, dy))
<1>0. v.w \in Int /\ v.h \in Int /\ v.x \in Int /\ v.y \in Int
  BY DEF InPane, View
<1> DEFINE size == [w |-> v.w, h |-> v.h]
           x == v.x - (dx * v.w) \div 2
           y == v.y - (dy * v.h) \div 2
<1>1. x \in Int /\ y \in Int
  <2>1. dx * v.w \in Int /\ dy * v.h \in Int
    BY <1>0
  <2> QED BY <1>0, <2>1, DivInt
<1>2. size.w = v.w /\ size.h = v.h
  OBVIOUS
<1>3. pannedView(v, dx, dy) = placeView(size, x, y)
  BY DEF pannedView
<1> HIDE DEF size, x, y
<1>4. PICK placed : placed = placeView(size, x, y)
  OBVIOUS
<1>5. /\ placed \in View /\ placed.w = v.w
      /\ OnMap(MapBox.x, MapBox.w, placed.w, placed.x)
      /\ OnMap(MapBox.y, MapBox.h, placed.h, placed.y)
  BY <1>0, <1>1, <1>2, <1>4, PlacedView
<1>6. InPane(shape, placed)
  BY <1>5 DEF InPane
<1> QED BY <1>3, <1>4, <1>6

LEMMA RefitOver ==
  ASSUME NEW shape \in Panes, NEW v \in View PROVE InPane(shape, refit(shape, v))
<1>0. v.w \in Int /\ v.h \in Int /\ v.x \in Int /\ v.y \in Int
  BY DEF View
<1>1. PICK size : size = clampedSize(shape, v.w)
  OBVIOUS
<1>2. size.w \in Int /\ size.h \in Int
  BY <1>0, <1>1, ClampedWidth
<1>3. v.x + (v.w - size.w) \div 2 \in Int /\ v.y + (v.h - size.h) \div 2 \in Int
  BY <1>0, <1>2
<1>4. refit(shape, v) = placeView(size, v.x + (v.w - size.w) \div 2, v.y + (v.h - size.h) \div 2)
  BY <1>1 DEF refit
<1> QED BY <1>0, <1>1, <1>3, <1>4, ClampedOver

\* Whatever moves the view leaves it over the map in the pane there is.
LEMMA ViewMoves == ASSUME ViewInv, GestureNext PROVE pane' \in Panes /\ InPane(pane', view')
<1>0. pane \in Panes /\ view \in View /\ InPane(pane, view)
  BY DEF ViewInv, ViewOverMap, InPane
<1>1. ASSUME UNCHANGED <<pane, view>> PROVE pane' \in Panes /\ InPane(pane', view')
  BY <1>0, <1>1
<1>2. ASSUME NEW f \in Fingers, PointerMove(f) PROVE pane' \in Panes /\ InPane(pane', view')
  <2>1. \/ view' = view
        \/ \E dx, dy \in {-1, 0, 1} : view' = pannedView(view, dx, dy)
        \/ \E num, den \in {1, 2}, at \in {0, 1, 2} \X {0, 2} :
             view' = zoomedView(pane, view, at, num, den)
    BY <1>2 DEF PointerMove
  <2>2. pane' = pane
    BY <1>2 DEF PointerMove
  <2>3. {0, 1, 2} \X {0, 2} \subseteq {0, 1, 2} \X {0, 1, 2}
    OBVIOUS
  <2> QED BY <1>0, <2>1, <2>2, <2>3, PannedOver, ZoomedOver
<1>3. CASE Frame
  <2>1. \/ view' = view
        \/ \E dx, dy \in {-1, 0, 1} : view' = pannedView(view, dx, dy)
        \/ view' = zoomedView(pane, view, <<1, 0>>, 2, 1)
    BY <1>3 DEF Frame
  <2>2. pane' = pane /\ <<1, 0>> \in {0, 1, 2} \X {0, 1, 2}
    BY <1>3 DEF Frame
  <2> QED BY <1>0, <2>1, <2>2, PannedOver, ZoomedOver
<1>4. CASE WheelFlush
  <2>1. \/ view' = view
        \/ \E num, den \in {1, 2}, at \in {0, 1, 2} \X {0, 2} :
             view' = zoomedView(pane, view, at, num, den)
    BY <1>4 DEF WheelFlush
  <2>2. pane' = pane
    BY <1>4 DEF WheelFlush
  <2>3. {0, 1, 2} \X {0, 2} \subseteq {0, 1, 2} \X {0, 1, 2}
    OBVIOUS
  <2> QED BY <1>0, <2>1, <2>2, <2>3, ZoomedOver
<1>5. CASE Resize
  BY <1>0, <1>5, RefitOver DEF Resize
<1>6. ASSUME NEW f \in Fingers, (\E mouse \in BOOLEAN : Down(f, mouse)) \/ Up(f) \/ PointerCancelled(f)
                                \/ LostUp(f)
      PROVE  pane' \in Panes /\ InPane(pane', view')
  <2>1. UNCHANGED <<pane, view>>
    BY <1>6 DEF Down, Up, PointerCancelled, LostUp
  <2> QED BY <1>1, <2>1
<1>7. CASE Click \/ Tick \/ (\E notch \in {-1, 1} : Wheel(notch))
  <2>1. UNCHANGED <<pane, view>>
    BY <1>7 DEF Click, Tick, Wheel
  <2> QED BY <1>1, <2>1
<1> QED BY <1>2, <1>3, <1>4, <1>5, <1>6, <1>7 DEF GestureNext

\* viewbox.ts: for every map, every set of panes and every way to pan, pinch,
\* throw, wheel and resize, the view stays over the map and within its zooms.
THEOREM ViewsStay == GestureSpec => []ViewOverMap
<1>1. GestureInit => ViewInv
  <2> SUFFICES ASSUME GestureInit PROVE ViewInv
    OBVIOUS
  <2>1. pane \in Panes /\ InPane(pane, view)
    BY ResetOver DEF GestureInit
  <2> QED BY <2>1 DEF ViewInv, ViewOverMap, InPane
<1>2. ViewInv /\ [GestureNext]_gestureVars => ViewInv'
  <2>1. ASSUME ViewInv, UNCHANGED gestureVars PROVE ViewInv'
    BY <2>1 DEF ViewInv, ViewOverMap, gestureVars
  <2>2. ASSUME ViewInv, GestureNext PROVE ViewInv'
    <3>1. pane' \in Panes /\ InPane(pane', view')
      BY <2>2, ViewMoves
    <3> QED BY <3>1 DEF ViewInv, ViewOverMap, InPane
  <2> QED BY <2>1, <2>2
<1>3. ViewInv => ViewOverMap
  BY DEF ViewInv
<1> QED BY <1>1, <1>2, <1>3, PTL DEF GestureSpec

-------------------------------------------------------------------------------
(* BoardDrawing, the layers: the pieces are on top as long as what lies    *)
(* under them is there before a layer is put anywhere but at the end.      *)

LayerIds == {"centres", "names", "codes", "orders", "units"}
Top(s) == Len(s) > 0 /\ s[Len(s)] = "units"

StackOK(s) ==
  /\ s \in Seq(LayerIds) /\ Top(s) /\ Contains(s, "orders")
  /\ art # "both" => Contains(s, "codes")

LEMMA Joined ==
  ASSUME NEW S, NEW a \in Seq(S), NEW b \in Seq(S)
  PROVE  /\ a \o b \in Seq(S) /\ Len(a \o b) = Len(a) + Len(b)
         /\ \A j \in 1..Len(a) : (a \o b)[j] = a[j]
         /\ \A j \in 1..Len(b) : (a \o b)[Len(a) + j] = b[j]
<1>0. Len(a) \in Nat /\ Len(b) \in Nat
  OBVIOUS
<1>1. /\ a \o b \in Seq(S) /\ Len(a \o b) = Len(a) + Len(b)
      /\ \A i \in 1..(Len(a) + Len(b)) : (a \o b)[i] = IF i <= Len(a) THEN a[i] ELSE b[i - Len(a)]
  BY ConcatProperties
<1>2. ASSUME NEW j \in 1..Len(a) PROVE (a \o b)[j] = a[j]
  <2>1. j \in 1..(Len(a) + Len(b)) /\ j <= Len(a)
    BY <1>0
  <2> QED BY <1>1, <2>1
<1>3. ASSUME NEW j \in 1..Len(b) PROVE (a \o b)[Len(a) + j] = b[j]
  <2>1. Len(a) + j \in 1..(Len(a) + Len(b)) /\ ~(Len(a) + j <= Len(a)) /\ Len(a) + j - Len(a) = j
    BY <1>0
  <2> QED BY <1>1, <2>1
<1> QED BY <1>1, <1>2, <1>3

LEMMA Part ==
  ASSUME NEW S, NEW s \in Seq(S), NEW m \in 1..(Len(s) + 1), NEW n \in 0..Len(s), m <= n + 1
  PROVE  /\ SubSeq(s, m, n) \in Seq(S) /\ Len(SubSeq(s, m, n)) = n - m + 1
         /\ \A j \in 1..(n - m + 1) : SubSeq(s, m, n)[j] = s[m + j - 1]
<1>1. PICK i, j : i = m /\ j = n
  OBVIOUS
<1>2. i \in 1..(Len(s) + 1) /\ j \in 0..Len(s) /\ (IF i <= j THEN j - i + 1 ELSE 0) = j - i + 1
  BY <1>1
<1>3. /\ SubSeq(s, i, j) \in Seq(S) /\ Len(SubSeq(s, i, j)) = IF i <= j THEN j - i + 1 ELSE 0
      /\ \A k \in 1..(j - i + 1) : SubSeq(s, i, j)[k] = s[i + k - 1]
  BY <1>2, SubSeqProperties
<1> QED BY <1>1, <1>2, <1>3

LEMMA OverlayLayers ==
  ASSUME NEW s \in Seq(LayerIds), NEW id \in LayerIds
  PROVE  /\ overlay(s, id) \in Seq(LayerIds) /\ Contains(overlay(s, id), id)
         /\ \A x : Contains(s, x) => Contains(overlay(s, id), x)
         /\ Contains(s, id) => overlay(s, id) = s
<1>1. CASE Contains(s, id)
  BY <1>1 DEF overlay
<1>2. CASE ~Contains(s, id)
  <2>1. overlay(s, id) = Append(s, id)
    BY <1>2 DEF overlay
  <2>2. Append(s, id) \in Seq(LayerIds) /\ Len(Append(s, id)) = Len(s) + 1
        /\ Append(s, id)[Len(s) + 1] = id /\ \A i \in 1..Len(s) : Append(s, id)[i] = s[i]
    OBVIOUS
  <2>3. Len(s) \in Nat
    OBVIOUS
  <2> HIDE DEF LayerIds
  <2> QED BY <1>2, <2>1, <2>2, <2>3 DEF Contains
<1> QED BY <1>1, <1>2

LEMMA LayerPlace ==
  ASSUME NEW s, NEW id, Contains(s, id)
  PROVE  LayerAt(s, id) \in 1..Len(s) /\ s[LayerAt(s, id)] = id
BY DEF LayerAt, Contains

LEMMA WithoutLayer ==
  ASSUME NEW s \in Seq(LayerIds), NEW id \in LayerIds
  PROVE  /\ Without(s, id) \in Seq(LayerIds)
         /\ \A x : x # id /\ Contains(s, x) => Contains(Without(s, id), x)
         /\ Top(s) /\ id # "units" => Top(Without(s, id))
<1>1. CASE ~Contains(s, id)
  BY <1>1 DEF Without
<1>2. CASE Contains(s, id)
  <2>0. PICK i, low, high, rest :
          /\ i = LayerAt(s, id) /\ low = SubSeq(s, 1, i - 1) /\ high = SubSeq(s, i + 1, Len(s))
          /\ rest = low \o high
    OBVIOUS
  <2>1. i \in 1..Len(s) /\ s[i] = id /\ Len(s) \in Nat
    BY <1>2, <2>0, LayerPlace
  <2>2. Without(s, id) = rest
    BY <1>2, <2>0 DEF Without, RemoveAt
  <2>3. /\ low \in Seq(LayerIds) /\ Len(low) = i - 1
        /\ \A j \in 1..(i - 1) : low[j] = s[j]
    <3>1. i - 1 \in 0..Len(s) /\ 1 \in 1..(Len(s) + 1) /\ 1 <= i - 1 + 1
          /\ i - 1 - 1 + 1 = i - 1 /\ \A j \in 1..(i - 1) : 1 + j - 1 = j
      BY <2>1
    <3> QED BY <2>0, <3>1, Part
  <2>4. /\ high \in Seq(LayerIds) /\ Len(high) = Len(s) - i
        /\ \A j \in 1..(Len(s) - i) : high[j] = s[i + j]
    <3>1. /\ high \in Seq(LayerIds) /\ Len(high) = Len(s) - (i + 1) + 1
          /\ \A j \in 1..(Len(s) - (i + 1) + 1) : high[j] = s[i + 1 + j - 1]
      <4>1. i + 1 \in 1..(Len(s) + 1) /\ Len(s) \in 0..Len(s) /\ i + 1 <= Len(s) + 1
        BY <2>1
      <4> QED BY <2>0, <4>1, Part
    <3>2. Len(high) = Len(s) - i
      BY <2>1, <3>1
    <3>3. \A j \in 1..(Len(s) - i) : high[j] = s[i + j]
      <4>1. ASSUME NEW j \in 1..(Len(s) - i) PROVE high[j] = s[i + j]
        <5>1. j \in 1..(Len(s) - (i + 1) + 1) /\ i + 1 + j - 1 = i + j
          BY <2>1
        <5> QED BY <3>1, <5>1
      <4> QED BY <4>1
    <3> QED BY <3>1, <3>2, <3>3
  <2>5. /\ rest \in Seq(LayerIds) /\ Len(rest) = Len(low) + Len(high)
        /\ \A j \in 1..Len(low) : rest[j] = low[j]
        /\ \A j \in 1..Len(high) : rest[Len(low) + j] = high[j]
    <3>1. low \in Seq(LayerIds) /\ high \in Seq(LayerIds) /\ rest = low \o high
      BY <2>0, <2>3, <2>4
    <3> QED BY <3>1, Joined
  <2>6. ASSUME NEW k \in 1..Len(s), k # i
        PROVE  rest[IF k < i THEN k ELSE k - 1] = s[k]
               /\ (IF k < i THEN k ELSE k - 1) \in 1..Len(rest)
    <3>1. CASE k < i
      <4>1. k \in 1..(i - 1) /\ k \in 1..Len(low) /\ k \in 1..Len(rest)
        BY <2>1, <2>3, <2>4, <2>5, <3>1
      <4> QED BY <2>3, <2>5, <3>1, <4>1
    <3>2. CASE k > i
      <4>1. k - i \in 1..(Len(s) - i) /\ k - i \in 1..Len(high) /\ Len(low) + (k - i) = k - 1
            /\ i + (k - i) = k /\ k - 1 \in 1..Len(rest) /\ ~(k < i)
        BY <2>1, <2>3, <2>4, <2>5, <3>2
      <4>2. rest[Len(low) + (k - i)] = high[k - i] /\ high[k - i] = s[i + (k - i)]
        BY <2>4, <2>5, <4>1
      <4> QED BY <4>1, <4>2
    <3> QED BY <2>1, <2>6, <3>1, <3>2
  <2>7. \A x : x # id /\ Contains(s, x) => Contains(rest, x)
    <3> SUFFICES ASSUME NEW x, x # id, Contains(s, x) PROVE Contains(rest, x)
      OBVIOUS
    <3>1. PICK k \in 1..Len(s) : s[k] = x
      BY DEF Contains
    <3>2. k # i
      BY <2>1, <3>1
    <3> QED BY <2>6, <3>1, <3>2 DEF Contains
  <2>8. ASSUME Top(s), id # "units" PROVE Top(rest)
    <3>1. Len(s) \in 1..Len(s) /\ Len(s) # i /\ ~(Len(s) < i)
      BY <2>1, <2>8 DEF Top
    <3>2. Len(rest) = Len(s) - 1
      BY <2>1, <2>3, <2>4, <2>5
    <3>3. rest[Len(s) - 1] = s[Len(s)] /\ Len(s) - 1 \in 1..Len(rest)
      BY <2>6, <3>1
    <3> QED BY <2>8, <3>2, <3>3 DEF Top
  <2> QED BY <2>2, <2>5, <2>7, <2>8
<1> QED BY <1>1, <1>2

LEMMA InsertedLayer ==
  ASSUME NEW s \in Seq(LayerIds), NEW id \in LayerIds, NEW i \in 1..Len(s)
  PROVE  /\ InsertAt(s, i, id) \in Seq(LayerIds) /\ Contains(InsertAt(s, i, id), id)
         /\ \A x : Contains(s, x) => Contains(InsertAt(s, i, id), x)
         /\ Top(s) => Top(InsertAt(s, i, id))
<1>0. PICK low, high, one, most, all :
        /\ low = SubSeq(s, 1, i - 1) /\ high = SubSeq(s, i, Len(s)) /\ one = <<id>>
        /\ most = low \o one /\ all = most \o high
  OBVIOUS
<1>1. i \in Nat /\ i >= 1 /\ i <= Len(s) /\ Len(s) \in Nat
  OBVIOUS
<1>2. /\ low \in Seq(LayerIds) /\ Len(low) = i - 1 /\ \A j \in 1..(i - 1) : low[j] = s[j]
  <2>1. i - 1 \in 0..Len(s) /\ 1 \in 1..(Len(s) + 1) /\ 1 <= i - 1 + 1
        /\ i - 1 - 1 + 1 = i - 1 /\ \A j \in 1..(i - 1) : 1 + j - 1 = j
    BY <1>1
  <2> QED BY <1>0, <2>1, Part
<1>3. /\ high \in Seq(LayerIds) /\ Len(high) = Len(s) - i + 1
      /\ \A j \in 1..(Len(s) - i + 1) : high[j] = s[i + j - 1]
  <2>1. i \in 1..(Len(s) + 1) /\ Len(s) \in 0..Len(s) /\ i <= Len(s) + 1
    BY <1>1
  <2> QED BY <1>0, <2>1, Part
<1>4. one \in Seq(LayerIds) /\ Len(one) = 1 /\ one[1] = id
  BY <1>0
<1>5. InsertAt(s, i, id) = all
  BY <1>0 DEF InsertAt
<1>6. /\ most \in Seq(LayerIds) /\ Len(most) = i
      /\ \A j \in 1..(i - 1) : most[j] = low[j]
      /\ most[i] = id
  <2>1. /\ most \in Seq(LayerIds) /\ Len(most) = Len(low) + Len(one)
        /\ \A j \in 1..Len(low) : most[j] = low[j]
        /\ \A j \in 1..Len(one) : most[Len(low) + j] = one[j]
    BY <1>2, <1>4, <1>0, Joined
  <2>2. Len(most) = i /\ 1 \in 1..Len(one) /\ Len(low) + 1 = i
    BY <1>1, <1>2, <1>4, <2>1
  <2>3. most[Len(low) + 1] = one[1]
    BY <2>1, <2>2
  <2> QED BY <1>2, <1>4, <2>1, <2>2, <2>3
<1>7. /\ all \in Seq(LayerIds) /\ Len(all) = Len(most) + Len(high)
      /\ \A j \in 1..Len(most) : all[j] = most[j]
      /\ \A j \in 1..Len(high) : all[Len(most) + j] = high[j]
  <2>1. most \in Seq(LayerIds) /\ high \in Seq(LayerIds) /\ all = most \o high
    BY <1>0, <1>3, <1>6
  <2> QED BY <2>1, Joined
<1>8. Len(all) = Len(s) + 1 /\ i \in 1..Len(all)
  BY <1>1, <1>3, <1>6, <1>7
<1>9. Contains(all, id)
  <2>1. i \in 1..Len(most)
    BY <1>1, <1>6
  <2>2. all[i] = id
    BY <2>1, <1>6, <1>7
  <2> QED BY <1>8, <2>2 DEF Contains
<1>10. ASSUME NEW k \in 1..Len(s)
       PROVE  (IF k < i THEN k ELSE k + 1) \in 1..Len(all) /\ all[IF k < i THEN k ELSE k + 1] = s[k]
  <2>1. CASE k < i
    <3>1. k \in 1..(i - 1) /\ k \in 1..Len(most) /\ k \in 1..Len(all)
      BY <1>1, <1>6, <1>8, <2>1
    <3> QED BY <1>2, <1>6, <1>7, <2>1, <3>1
  <2>2. CASE ~(k < i)
    <3>1. k - i + 1 \in 1..Len(high) /\ k - i + 1 \in 1..(Len(s) - i + 1)
          /\ Len(most) + (k - i + 1) = k + 1
          /\ i + (k - i + 1) - 1 = k /\ k + 1 \in 1..Len(all)
      BY <1>1, <1>3, <1>6, <1>8, <2>2
    <3>2. all[Len(most) + (k - i + 1)] = high[k - i + 1] /\ high[k - i + 1] = s[i + (k - i + 1) - 1]
      BY <1>3, <1>7, <3>1
    <3> QED BY <2>2, <3>1, <3>2
  <2> QED BY <2>1, <2>2
<1>11. \A x : Contains(s, x) => Contains(all, x)
  <2> SUFFICES ASSUME NEW x, Contains(s, x) PROVE Contains(all, x)
    OBVIOUS
  <2>1. PICK k \in 1..Len(s) : s[k] = x
    BY DEF Contains
  <2> QED BY <1>10, <2>1 DEF Contains
<1>12. ASSUME Top(s) PROVE Top(all)
  <2>1. Len(s) \in 1..Len(s) /\ ~(Len(s) < i)
    BY <1>1
  <2>2. all[Len(s) + 1] = s[Len(s)]
    BY <1>10, <2>1
  <2> QED BY <1>1, <1>8, <1>12, <2>2 DEF Top
<1> QED BY <1>5, <1>7, <1>9, <1>11, <1>12

\* s grows to t: nothing is lost, and pieces that are on top stay there.
Grows(s, t) ==
  t \in Seq(LayerIds) /\ \A x : Contains(s, x) => Contains(t, x)

LEMMA UnderLayer ==
  ASSUME NEW s \in Seq(LayerIds), NEW id \in LayerIds \ {"units"}, NEW other \in LayerIds,
         id # other, Contains(s, other)
  PROVE  /\ Grows(s, Under(s, id, other)) /\ Contains(Under(s, id, other), id)
         /\ Top(s) /\ Contains(s, id) => Top(Under(s, id, other))
<1>0. PICK whole, rest : whole = overlay(s, id) /\ rest = Without(whole, id)
  OBVIOUS
<1>1. /\ whole \in Seq(LayerIds) /\ Contains(whole, other)
      /\ \A x : Contains(s, x) => Contains(whole, x)
      /\ Contains(s, id) => whole = s
  BY <1>0, OverlayLayers
<1>2. /\ rest \in Seq(LayerIds)
      /\ \A x : x # id /\ Contains(whole, x) => Contains(rest, x)
      /\ Top(whole) => Top(rest)
  BY <1>0, <1>1, WithoutLayer
<1>3. PICK i : i = LayerAt(rest, other)
  OBVIOUS
<1>4. i \in 1..Len(rest)
  BY <1>1, <1>2, <1>3, LayerPlace
<1>5. PICK new : new = InsertAt(rest, i, id)
  OBVIOUS
<1>6. /\ new \in Seq(LayerIds) /\ Contains(new, id)
      /\ \A x : Contains(rest, x) => Contains(new, x)
      /\ Top(rest) => Top(new)
  BY <1>2, <1>4, <1>5, InsertedLayer
<1>7. Under(s, id, other) = new
  BY <1>0, <1>3, <1>5 DEF Under
<1>8. \A x : Contains(s, x) => Contains(new, x)
  BY <1>1, <1>2, <1>6
<1>9. Top(s) /\ Contains(s, id) => Top(new)
  BY <1>1, <1>2, <1>6
<1> QED BY <1>6, <1>7, <1>8, <1>9 DEF Grows

LEMMA TwoOverlays ==
  ASSUME NEW s \in Seq(LayerIds), NEW a \in LayerIds, NEW b \in LayerIds
  PROVE  LET t == overlay(overlay(s, a), b)
         IN  Grows(s, t) /\ Contains(t, a) /\ Contains(t, b)
             /\ (Contains(s, a) /\ Contains(s, b) => t = s)
<1>1. PICK mid : mid = overlay(s, a)
  OBVIOUS
<1>2. /\ mid \in Seq(LayerIds) /\ Contains(mid, a) /\ \A x : Contains(s, x) => Contains(mid, x)
      /\ Contains(s, a) => mid = s
  BY <1>1, OverlayLayers
<1>3. /\ overlay(mid, b) \in Seq(LayerIds) /\ Contains(overlay(mid, b), b)
      /\ \A x : Contains(mid, x) => Contains(overlay(mid, b), x)
      /\ Contains(mid, b) => overlay(mid, b) = mid
  BY <1>2, OverlayLayers
<1> QED BY <1>1, <1>2, <1>3 DEF Grows

LEMMA TopHasUnits == ASSUME NEW s \in Seq(LayerIds), Top(s) PROVE Contains(s, "units")
<1>1. Len(s) \in 1..Len(s)
  BY DEF Top
<1> QED BY <1>1 DEF Top, Contains

LEMMA OverlayLayerStack ==
  ASSUME NEW s \in Seq(LayerIds)
  PROVE  /\ Grows(s, overlayLayer(s))
         /\ Contains(overlayLayer(s), "orders") /\ Contains(overlayLayer(s), "units")
         /\ Top(s) /\ Contains(s, "orders") => Top(overlayLayer(s))
<1>0. /\ "orders" \in LayerIds \ {"units"} /\ "units" \in LayerIds /\ "orders" # "units"
      /\ "orders" \in LayerIds
  BY DEF LayerIds
<1>1. PICK both : both = overlay(overlay(s, "orders"), "units")
  OBVIOUS
<1>2. /\ both \in Seq(LayerIds) /\ Contains(both, "orders") /\ Contains(both, "units")
      /\ \A x : Contains(s, x) => Contains(both, x)
      /\ Contains(s, "orders") /\ Contains(s, "units") => both = s
  BY <1>0, <1>1, TwoOverlays DEF Grows
<1>3. /\ Grows(both, Under(both, "orders", "units"))
      /\ Contains(Under(both, "orders", "units"), "orders")
      /\ Top(both) /\ Contains(both, "orders") => Top(Under(both, "orders", "units"))
  BY <1>0, <1>2, UnderLayer
<1>4. overlayLayer(s) = Under(both, "orders", "units")
  BY <1>1 DEF overlayLayer
<1> QED BY <1>2, <1>3, <1>4, TopHasUnits DEF Grows

\* The codes: only their own layer may go, and only where the art has them.
LEMMA BriefLayerStack ==
  ASSUME NEW s \in Seq(LayerIds), NEW b
  PROVE  /\ BriefLayer(s, b) \in Seq(LayerIds)
         /\ \A x : x # "codes" /\ Contains(s, x) => Contains(BriefLayer(s, b), x)
         /\ art # "both" => Contains(BriefLayer(s, b), "codes")
         /\ Top(s) /\ (art # "both" => Contains(s, "codes")) => Top(BriefLayer(s, b))
<1>0. /\ "codes" \in LayerIds \ {"units"} /\ "codes" \in LayerIds /\ "units" \in LayerIds
      /\ "codes" # "units"
  BY DEF LayerIds
<1>1. CASE art = "both"
  <2>1. BriefLayer(s, b) = Without(s, "codes")
    BY <1>1 DEF BriefLayer
  <2> QED BY <1>0, <1>1, <2>1, WithoutLayer
<1>2. CASE art # "both" /\ ~b.brief
  <2>1. BriefLayer(s, b) = overlay(s, "codes")
    BY <1>2 DEF BriefLayer
  <2> QED BY <1>0, <1>2, <2>1, OverlayLayers
<1>3. CASE art # "both" /\ b.brief
  <2>1. PICK both : both = overlay(overlay(s, "codes"), "units")
    OBVIOUS
  <2>2. /\ both \in Seq(LayerIds) /\ Contains(both, "codes") /\ Contains(both, "units")
        /\ \A x : Contains(s, x) => Contains(both, x)
        /\ Contains(s, "codes") /\ Contains(s, "units") => both = s
    BY <1>0, <2>1, TwoOverlays DEF Grows
  <2>3. /\ Grows(both, Under(both, "codes", "units"))
        /\ Contains(Under(both, "codes", "units"), "codes")
        /\ Top(both) /\ Contains(both, "codes") => Top(Under(both, "codes", "units"))
    BY <1>0, <2>2, UnderLayer
  <2>4. BriefLayer(s, b) = Under(both, "codes", "units")
    BY <1>3, <2>1 DEF BriefLayer
  <2> QED BY <1>3, <2>2, <2>3, <2>4, TopHasUnits DEF Grows
<1> QED BY <1>1, <1>2, <1>3

LEMMA DataLayersStack ==
  ASSUME NEW s \in Seq(LayerIds), NEW b
  PROVE  /\ DataLayers(s, b) \in Seq(LayerIds)
         /\ \A x : x \notin {"centres", "names"} /\ Contains(s, x) => Contains(DataLayers(s, b), x)
<1>0. "centres" \in LayerIds /\ "names" \in LayerIds
  BY DEF LayerIds
<1>1. CASE FromRecords(b)
  <2>1. DataLayers(s, b) = overlay(overlay(s, "centres"), "names")
    BY <1>1 DEF DataLayers
  <2> QED BY <1>0, <2>1, TwoOverlays DEF Grows
<1>2. CASE ~FromRecords(b)
  <2>1. PICK mid : mid = Without(s, "centres")
    OBVIOUS
  <2>2. /\ mid \in Seq(LayerIds)
        /\ \A x : x # "centres" /\ Contains(s, x) => Contains(mid, x)
    BY <1>0, <2>1, WithoutLayer
  <2>3. /\ Without(mid, "names") \in Seq(LayerIds)
        /\ \A x : x # "names" /\ Contains(mid, x) => Contains(Without(mid, "names"), x)
    BY <1>0, <2>2, WithoutLayer
  <2>4. DataLayers(s, b) = Without(mid, "names")
    BY <1>2, <2>1 DEF DataLayers
  <2> QED BY <2>2, <2>3, <2>4
<1> QED BY <1>1, <1>2

\* The order of the layers there are has the pieces last.
LEMMA Ordered ==
  ASSUME NEW s \in Seq(LayerIds), Contains(s, "units"), Contains(s, "orders"),
         art # "both" => Contains(s, "codes")
  PROVE  StackOK(orderDrawnLayers(s))
<1>0. /\ "orders" \in LayerIds /\ "units" \in LayerIds /\ "codes" \in LayerIds
      /\ "centres" \in LayerIds /\ "names" \in LayerIds
  BY DEF LayerIds
<1>1. PICK a : a = IF Contains(s, "centres") THEN <<"centres">> ELSE <<>>
  OBVIOUS
<1>2. PICK b : b = IF Contains(s, "names") THEN <<"names">> ELSE <<>>
  OBVIOUS
<1>3. PICK c : c = IF Contains(s, "codes") THEN <<"codes">> ELSE <<>>
  OBVIOUS
<1>4. PICK d, e : d = <<"orders">> /\ e = <<"units">>
  OBVIOUS
<1>5. orderDrawnLayers(s) = (((a \o b) \o c) \o d) \o e
  BY <1>1, <1>2, <1>3, <1>4 DEF orderDrawnLayers
<1>6. PICK ab, abc, abcd, all :
        ab = a \o b /\ abc = ab \o c /\ abcd = abc \o d /\ all = abcd \o e
  OBVIOUS
<1>7. a \in Seq(LayerIds) /\ b \in Seq(LayerIds) /\ c \in Seq(LayerIds)
  BY <1>0, <1>1, <1>2, <1>3
<1>8. /\ d \in Seq(LayerIds) /\ Len(d) = 1 /\ d[1] = "orders"
      /\ e \in Seq(LayerIds) /\ Len(e) = 1 /\ e[1] = "units"
  BY <1>0, <1>4
<1>9. ab \in Seq(LayerIds)
  BY <1>6, <1>7
<1>10. /\ abc \in Seq(LayerIds) /\ Len(abc) = Len(ab) + Len(c)
       /\ \A j \in 1..Len(c) : abc[Len(ab) + j] = c[j]
  BY <1>6, <1>7, <1>9, Joined
<1>11. /\ abcd \in Seq(LayerIds) /\ Len(abcd) = Len(abc) + Len(d)
       /\ \A j \in 1..Len(abc) : abcd[j] = abc[j]
       /\ \A j \in 1..Len(d) : abcd[Len(abc) + j] = d[j]
  <2>1. abc \in Seq(LayerIds) /\ d \in Seq(LayerIds) /\ abcd = abc \o d
    BY <1>6, <1>8, <1>10
  <2> QED BY <2>1, Joined
<1>12. /\ all \in Seq(LayerIds) /\ Len(all) = Len(abcd) + Len(e)
       /\ \A j \in 1..Len(abcd) : all[j] = abcd[j]
       /\ \A j \in 1..Len(e) : all[Len(abcd) + j] = e[j]
  <2>1. abcd \in Seq(LayerIds) /\ e \in Seq(LayerIds) /\ all = abcd \o e
    BY <1>6, <1>8, <1>11
  <2> QED BY <2>1, Joined
<1>13. Len(ab) \in Nat /\ Len(abc) \in Nat /\ Len(abcd) \in Nat /\ Len(c) \in Nat
  BY <1>7, <1>9, <1>10, <1>11
<1>14. Top(all)
  <2>1. Len(all) = Len(abcd) + 1 /\ 1 \in 1..Len(e)
    BY <1>8, <1>12, <1>13
  <2>2. all[Len(abcd) + 1] = "units"
    BY <1>8, <1>12, <2>1
  <2> QED BY <1>13, <2>1, <2>2 DEF Top
<1>15. Contains(all, "orders")
  <2>1. /\ 1 \in 1..Len(d) /\ Len(abc) + 1 \in 1..Len(abcd) /\ Len(abc) + 1 \in 1..Len(all)
    BY <1>8, <1>11, <1>12, <1>13
  <2>2. all[Len(abc) + 1] = "orders"
    BY <1>8, <1>11, <1>12, <2>1
  <2> QED BY <2>1, <2>2 DEF Contains
<1>16. ASSUME art # "both" PROVE Contains(all, "codes")
  <2>1. Len(c) = 1 /\ c[1] = "codes"
    BY <1>3, <1>16
  <2>2. /\ 1 \in 1..Len(c) /\ Len(ab) + 1 \in 1..Len(abc) /\ Len(ab) + 1 \in 1..Len(abcd)
        /\ Len(ab) + 1 \in 1..Len(all)
    BY <2>1, <1>8, <1>10, <1>11, <1>12, <1>13
  <2>3. all[Len(ab) + 1] = "codes"
    BY <1>10, <1>11, <1>12, <2>1, <2>2
  <2> QED BY <2>2, <2>3 DEF Contains
<1>17. orderDrawnLayers(s) = all
  BY <1>5, <1>6
<1> QED BY <1>12, <1>14, <1>15, <1>16, <1>17 DEF StackOK

LEMMA DrawnInOrder ==
  ASSUME NEW s \in Seq(LayerIds), NEW b, Contains(s, "orders"), Contains(s, "units")
  PROVE  StackOK(orderDrawnLayers(BriefLayer(DataLayers(s, b), b)))
<1>1. PICK data : data = DataLayers(s, b)
  OBVIOUS
<1>2. data \in Seq(LayerIds) /\ Contains(data, "orders") /\ Contains(data, "units")
  BY <1>1, DataLayersStack
<1>3. PICK brief : brief = BriefLayer(data, b)
  OBVIOUS
<1>4. /\ brief \in Seq(LayerIds) /\ Contains(brief, "orders") /\ Contains(brief, "units")
      /\ art # "both" => Contains(brief, "codes")
  BY <1>2, <1>3, BriefLayerStack
<1> QED BY <1>1, <1>3, <1>4, Ordered

LEMMA AllStackOK == ASSUME NEW s \in Seq(LayerIds), NEW b PROVE StackOK(AllStack(s, b))
BY OverlayLayerStack, DrawnInOrder DEF AllStack, Grows

LEMMA OverlaysStackOK ==
  ASSUME NEW s \in Seq(LayerIds), NEW b
  PROVE  /\ OverlaysStack(s, b) \in Seq(LayerIds)
         /\ StackOK(s) => StackOK(OverlaysStack(s, b))
<1>1. PICK over : over = overlayLayer(s)
  OBVIOUS
<1>2. /\ over \in Seq(LayerIds) /\ \A x : Contains(s, x) => Contains(over, x)
      /\ Contains(over, "orders")
      /\ Top(s) /\ Contains(s, "orders") => Top(over)
  BY <1>1, OverlayLayerStack DEF Grows
<1>3. PICK brief : brief = BriefLayer(over, b)
  OBVIOUS
<1>4. /\ brief \in Seq(LayerIds) /\ Contains(brief, "orders")
      /\ art # "both" => Contains(brief, "codes")
      /\ Top(over) /\ (art # "both" => Contains(over, "codes")) => Top(brief)
  BY <1>2, <1>3, BriefLayerStack
<1>5. OverlaysStack(s, b) = brief
  BY <1>1, <1>3 DEF OverlaysStack
<1> QED BY <1>2, <1>4, <1>5 DEF StackOK

LEMMA OrdersStay == ASSUME NEW s, StackOK(s) PROVE overlay(s, "orders") = s
BY DEF StackOK, overlay

-------------------------------------------------------------------------------
(* BoardDrawing, the pictures: each call redraws what the field it changed *)
(* is seen in, and no more.                                                *)

States == [known : BOOLEAN, phase : {"movement", "retreat"}, drafts : Drafts]
Mounts ==
  [loaded : BOOLEAN, state : States, review : BOOLEAN, hide : BOOLEAN, brief : BOOLEAN,
   pieces : {"tokens", "cannon"}, style : {"day", "midnight"}, illegal : SUBSET Lands,
   selected : Lands \cup {Nil}, builder : Lands \cup {Nil}, zoom : 1..2]
Pages ==
  [state : States, review : BOOLEAN, hide : BOOLEAN, brief : BOOLEAN,
   pieces : {"tokens", "cannon"}, style : {"day", "midnight"}, told : SUBSET Lands]
Calls ==
  [at : Lands, draft : {"none", "legal", "bluff"}, old : BOOLEAN, marks : SUBSET Lands]

IsCanvas(c) ==
  c \in [orders : {c.orders}, units : {c.units}, names : {c.names}, codes : {c.codes},
         art : {c.art}, lit : {c.lit}]

\* A board's picture, with the order q away.
Painted(c, b, q) ==
  /\ c.units = UnitsShown(b) /\ c.codes = CodesShown(b)
  /\ c.names = NamesShown(b) /\ c.art = ArtShown(b)
  /\ q = Nil \/ b.review => c.orders = OrdersShown(b)
  /\ q = Nil => c.lit = Lit(b)

DrawInv ==
  /\ art \in Art /\ page \in Pages /\ mount \in Mounts /\ sent \in Calls \cup {Nil}
  /\ IsCanvas(canvas)
  /\ page.review = mount.review
  /\ mount.review => mount.selected = Nil
  /\ mount.loaded => Painted(canvas, mount, sent) /\ StackOK(stack)
  /\ ~mount.loaded => stack = <<>>

LEMMA PictureKept ==
  ASSUME UNCHANGED art, Painted(canvas', mount', sent'), StackOK(stack')
  PROVE  Painted(canvas, mount, sent)' /\ StackOK(stack)'
BY DEF Painted, UnitsShown, CodesShown, NamesShown, ArtShown, OrdersShown, Lit, FromRecords,
       Tone, Weight, Drafted, StackOK, Top

LEMMA Rendered ==
  ASSUME NEW c, NEW b, IsCanvas(c)
  PROVE  /\ LET d == renderOrders(c, b)
            IN  IsCanvas(d) /\ d.orders = OrdersShown(b) /\ d.units = c.units /\ d.names = c.names
                /\ d.codes = c.codes /\ d.art = c.art /\ d.lit = c.lit
         /\ LET d == renderUnits(c, b)
            IN  IsCanvas(d) /\ d.orders = c.orders /\ d.units = UnitsShown(b) /\ d.names = c.names
                /\ d.codes = c.codes /\ d.art = c.art /\ d.lit = c.lit
         /\ LET d == renderBriefLabels(c, b)
            IN  IsCanvas(d) /\ d.orders = c.orders /\ d.units = c.units /\ d.names = c.names
                /\ d.codes = CodesShown(b) /\ d.art = ArtShown(b) /\ d.lit = c.lit
         /\ LET d == renderDataNames(c, b)
            IN  IsCanvas(d) /\ d.orders = c.orders /\ d.units = c.units
                /\ d.names = NamesShown(b)
                /\ d.codes = c.codes /\ d.art = c.art /\ d.lit = c.lit
<1>1. PICK d : d = [c EXCEPT !.orders = OrdersShown(b)]
  OBVIOUS
<1>2. IsCanvas(d) /\ d.orders = OrdersShown(b) /\ d.units = c.units /\ d.names = c.names
      /\ d.codes = c.codes /\ d.art = c.art /\ d.lit = c.lit
  BY <1>1 DEF IsCanvas
<1>3. PICK e : e = [c EXCEPT !.units = UnitsShown(b)]
  OBVIOUS
<1>4. IsCanvas(e) /\ e.orders = c.orders /\ e.units = UnitsShown(b) /\ e.names = c.names
      /\ e.codes = c.codes /\ e.art = c.art /\ e.lit = c.lit
  BY <1>3 DEF IsCanvas
<1>5. PICK f : f = [c EXCEPT !.codes = CodesShown(b), !.art = ArtShown(b)]
  OBVIOUS
<1>6. IsCanvas(f) /\ f.orders = c.orders /\ f.units = c.units /\ f.names = c.names
      /\ f.codes = CodesShown(b) /\ f.art = ArtShown(b) /\ f.lit = c.lit
  BY <1>5 DEF IsCanvas
<1>7. PICK g : g = [c EXCEPT !.names = NamesShown(b)]
  OBVIOUS
<1>8. IsCanvas(g) /\ g.orders = c.orders /\ g.units = c.units /\ g.names = NamesShown(b)
      /\ g.codes = c.codes /\ g.art = c.art /\ g.lit = c.lit
  BY <1>7 DEF IsCanvas
<1> QED
  BY <1>1, <1>2, <1>3, <1>4, <1>5, <1>6, <1>7, <1>8
  DEF renderOrders, renderUnits, renderBriefLabels, renderDataNames

LEMMA RenderedOverlays ==
  ASSUME NEW c, NEW b, IsCanvas(c)
  PROVE  LET d == renderOverlays(c, b)
         IN  IsCanvas(d) /\ d.orders = OrdersShown(b) /\ d.units = UnitsShown(b)
             /\ d.names = c.names /\ d.codes = CodesShown(b) /\ d.art = ArtShown(b)
             /\ d.lit = c.lit
<1>1. PICK e, f, d : e = renderOrders(c, b) /\ f = renderUnits(e, b) /\ d = renderBriefLabels(f, b)
  OBVIOUS
<1>2. IsCanvas(e) /\ e.orders = OrdersShown(b) /\ e.names = c.names /\ e.lit = c.lit
  BY <1>1, Rendered
<1>3. IsCanvas(f) /\ f.orders = e.orders /\ f.units = UnitsShown(b) /\ f.names = e.names
      /\ f.lit = e.lit
  BY <1>1, <1>2, Rendered
<1>4. IsCanvas(d) /\ d.orders = f.orders /\ d.units = f.units /\ d.names = f.names
      /\ d.codes = CodesShown(b) /\ d.art = ArtShown(b) /\ d.lit = f.lit
  BY <1>1, <1>3, Rendered
<1> QED BY <1>1, <1>2, <1>3, <1>4 DEF renderOverlays

LEMMA RenderedAll ==
  ASSUME NEW c, NEW b, IsCanvas(c), NEW q
  PROVE  IsCanvas(renderAll(c, b)) /\ Painted(renderAll(c, b), b, q)
<1>1. PICK e, f, d :
        e = renderOverlays(c, b) /\ f = renderDataNames(e, b) /\ d = [f EXCEPT !.lit = Lit(b)]
  OBVIOUS
<1>2. IsCanvas(e) /\ e.orders = OrdersShown(b) /\ e.units = UnitsShown(b)
      /\ e.codes = CodesShown(b) /\ e.art = ArtShown(b)
  BY <1>1, RenderedOverlays
<1>3. IsCanvas(f) /\ f.orders = e.orders /\ f.units = e.units /\ f.names = NamesShown(b)
      /\ f.codes = e.codes /\ f.art = e.art
  BY <1>1, <1>2, Rendered
<1>4. IsCanvas(d) /\ d.orders = f.orders /\ d.units = f.units /\ d.names = f.names
      /\ d.codes = f.codes /\ d.art = f.art /\ d.lit = Lit(b)
  BY <1>1, <1>3 DEF IsCanvas
<1> QED BY <1>1, <1>2, <1>3, <1>4 DEF renderAll, Painted

LEMMA RedrawnAll ==
  ASSUME NEW b, RedrawAll(b), IsCanvas(canvas), stack \in Seq(LayerIds), NEW q
  PROVE  /\ mount' = b /\ IsCanvas(canvas')
         /\ b.loaded => Painted(canvas', b, q) /\ StackOK(stack')
         /\ ~b.loaded => stack' = stack
BY RenderedAll, AllStackOK DEF RedrawAll, Redraw

\* What a picture hangs on.
LEMMA SamePictures ==
  ASSUME NEW a, NEW b, a.state = b.state, a.review = b.review
  PROVE  /\ a.brief = b.brief => NamesShown(a) = NamesShown(b) /\ ArtShown(a) = ArtShown(b)
         /\ a.brief = b.brief /\ a.style = b.style /\ a.zoom = b.zoom => CodesShown(a) = CodesShown(b)
         /\ a.pieces = b.pieces /\ a.zoom = b.zoom => UnitsShown(a) = UnitsShown(b)
         /\ a.builder = b.builder => Lit(a) = Lit(b)
<1>1. ASSUME a.brief = b.brief
      PROVE  NamesShown(a) = NamesShown(b) /\ ArtShown(a) = ArtShown(b)
  BY <1>1 DEF NamesShown, ArtShown, FromRecords
<1>2. ASSUME a.brief = b.brief, a.style = b.style, a.zoom = b.zoom
      PROVE  CodesShown(a) = CodesShown(b)
  BY <1>2 DEF CodesShown
<1>3. ASSUME a.pieces = b.pieces, a.zoom = b.zoom PROVE UnitsShown(a) = UnitsShown(b)
  BY <1>3 DEF UnitsShown, Drafted
<1>4. ASSUME a.builder = b.builder PROVE Lit(a) = Lit(b)
  BY <1>4 DEF Lit
<1> QED BY <1>1, <1>2, <1>3, <1>4

LEMMA SameOrders ==
  ASSUME NEW a, NEW b, a.state = b.state, a.review = b.review, a.selected = b.selected,
         a.style = b.style, a.zoom = b.zoom,
         a.review \/ (a.illegal = b.illegal /\ a.hide = b.hide)
  PROVE  OrdersShown(a) = OrdersShown(b)
BY DEF OrdersShown, Tone, Weight, Drafted

LEMMA DrawInvInit == DrawInit => DrawInv
<1> SUFFICES ASSUME DrawInit PROVE DrawInv
  OBVIOUS
<1>1. NoState \in States
  BY DEF NoState, States, Drafts
<1>2. page \in Pages
  BY <1>1 DEF DrawInit, Pages
<1>3. mount \in Mounts /\ ~mount.loaded /\ ~mount.review /\ ~page.review
  BY <1>1 DEF DrawInit, Mounted, Mounts
<1>4. IsCanvas(canvas)
  BY DEF DrawInit, Blank, IsCanvas
<1>5. art \in Art /\ stack = <<>> /\ sent \in Calls \cup {Nil}
  BY DEF DrawInit
<1>6. page.review = mount.review
  BY DEF DrawInit, Mounted
<1> QED BY <1>2, <1>3, <1>4, <1>5, <1>6 DEF DrawInv

\* After a call: the types, what the page and its board agree on, the picture.
LEMMA Redone ==
  ASSUME UNCHANGED art, DrawInv, page' \in Pages, mount' \in Mounts, sent' \in Calls \cup {Nil},
         IsCanvas(canvas'), page'.review = mount'.review, mount'.review => mount'.selected = Nil,
         mount'.loaded => Painted(canvas', mount', sent') /\ StackOK(stack'),
         ~mount'.loaded => stack' = <<>>
  PROVE  DrawInv'
<1>1. IsCanvas(canvas)'
  BY DEF IsCanvas
<1>2. (mount.loaded => Painted(canvas, mount, sent) /\ StackOK(stack))'
  BY PictureKept
<1> QED BY <1>1, <1>2 DEF DrawInv, Pages, Mounts, Calls, States, Drafts

LEMMA StackTyped == ASSUME DrawInv PROVE stack \in Seq(LayerIds)
<1>1. CASE mount.loaded
  BY <1>1 DEF DrawInv, StackOK
<1>2. CASE ~mount.loaded
  <2>1. stack = <<>>
    BY <1>2 DEF DrawInv
  <2> QED BY <2>1
<1> QED BY <1>1, <1>2

\* A call that redraws everything.
LEMMA RedoneAll ==
  ASSUME UNCHANGED art, DrawInv, page' \in Pages, sent' \in Calls \cup {Nil},
         NEW b \in Mounts, RedrawAll(b), b.loaded = mount.loaded,
         page'.review = b.review, b.review => b.selected = Nil
  PROVE  DrawInv'
<1>1. IsCanvas(canvas) /\ stack \in Seq(LayerIds) /\ (~mount.loaded => stack = <<>>)
  BY StackTyped DEF DrawInv
<1>2. /\ mount' = b /\ IsCanvas(canvas')
      /\ b.loaded => Painted(canvas', b, sent') /\ StackOK(stack')
      /\ ~b.loaded => stack' = stack
  BY <1>1, RedrawnAll
<1> QED BY <1>1, <1>2, Redone

LEMMA MapLoadsDrawn == ASSUME DrawInv, MapLoads PROVE DrawInv'
<1>1. PICK b, c, s : b = [mount EXCEPT !.loaded = TRUE] /\ c = renderOverlays(canvas, b)
                     /\ s = OverlaysStack(stack, b)
  OBVIOUS
<1>2. /\ b \in Mounts /\ b.loaded /\ b.review = mount.review /\ b.selected = mount.selected
  BY <1>1 DEF DrawInv, Mounts
<1>3. mount' = b /\ canvas' = renderAll(c, b) /\ stack' = AllStack(s, b)
  BY <1>1 DEF MapLoads
<1>4. IsCanvas(c)
  BY <1>1, RenderedOverlays DEF DrawInv
<1>5. s \in Seq(LayerIds)
  BY <1>1, StackTyped, OverlaysStackOK
<1>6. IsCanvas(canvas') /\ Painted(canvas', mount', sent')
  BY <1>3, <1>4, RenderedAll
<1>7. StackOK(stack')
  <2>1. StackOK(AllStack(s, b))
    BY <1>5, AllStackOK
  <2> QED BY <1>3, <2>1 
<1>8. UNCHANGED <<art, page, sent>>
  BY DEF MapLoads
<1> QED BY <1>2, <1>3, <1>6, <1>7, <1>8, Redone DEF DrawInv

\* A new state on the board.
LEMMA UpdatedMount ==
  ASSUME NEW b \in Mounts, NEW state \in States
  PROVE  /\ Updated(b, state) \in Mounts
         /\ Updated(b, state).loaded = b.loaded /\ Updated(b, state).review = b.review
         /\ Updated(b, state).selected \in {Nil, b.selected}
<1>1. PICK builder, illegal, selected :
        /\ builder = IF state.phase # b.state.phase THEN Nil ELSE b.builder
        /\ illegal = {p \in b.illegal : state.drafts[p] # "none"}
        /\ selected = IF b.selected # Nil /\ state.drafts[b.selected] = "none" THEN Nil ELSE b.selected
  OBVIOUS
<1>2. builder \in Lands \cup {Nil} /\ illegal \in SUBSET Lands
      /\ selected \in Lands \cup {Nil} /\ selected \in {Nil, b.selected}
  BY <1>1 DEF Mounts
<1>3. Updated(b, state) = [b EXCEPT !.state = state, !.builder = builder, !.illegal = illegal,
                                    !.selected = selected]
  BY <1>1 DEF Updated
<1> QED BY <1>2, <1>3 DEF Mounts

LEMMA StateArrivesDrawn == ASSUME DrawInv, StateArrives PROVE DrawInv'
<1>1. PICK phase \in {"movement", "retreat"} : update([NoState EXCEPT !.known = TRUE, !.phase = phase])
  BY DEF StateArrives
<1>2. PICK state : state = [NoState EXCEPT !.known = TRUE, !.phase = phase]
  OBVIOUS
<1>3. state \in States
  BY <1>2 DEF NoState, States, Drafts
<1>4. PICK b : b = Updated(mount, state)
  OBVIOUS
<1>5. b \in Mounts /\ b.loaded = mount.loaded /\ b.review = mount.review
      /\ b.selected \in {Nil, mount.selected}
  BY <1>3, <1>4, UpdatedMount DEF DrawInv
<1>6. PICK told : told = Told(page, mount.illegal, b.illegal)
  OBVIOUS
<1>7. told \in SUBSET Lands
  BY <1>5, <1>6 DEF Told, Mounts, DrawInv, Pages
<1>8. page' = [page EXCEPT !.state = state, !.told = told] /\ RedrawAll(b)
  BY <1>1, <1>2, <1>4, <1>6 DEF update
<1>9. page' \in Pages /\ page'.review = page.review
  BY <1>3, <1>7, <1>8 DEF DrawInv, Pages
<1>10. UNCHANGED <<art, sent>>
  BY DEF StateArrives
<1>11. page'.review = b.review /\ (b.review => b.selected = Nil) /\ sent' \in Calls \cup {Nil}
  BY <1>5, <1>9, <1>10 DEF DrawInv
<1> QED BY <1>5, <1>8, <1>9, <1>10, <1>11, RedoneAll

LEMMA ReviewDrawn == ASSUME DrawInv, showReviewOf PROVE DrawInv'
<1>1. PICK b : b = Reviewed(mount, ~page.review)
  OBVIOUS
<1>2. /\ b \in Mounts /\ b.loaded = mount.loaded /\ b.review = ~page.review
      /\ b.review => b.selected = Nil
  <2>1. PICK on, builder, selected :
          /\ on = ~page.review /\ builder = (IF on THEN Nil ELSE mount.builder)
          /\ selected = (IF on THEN Nil ELSE mount.selected)
    OBVIOUS
  <2>2. on \in BOOLEAN /\ builder \in Lands \cup {Nil} /\ selected \in Lands \cup {Nil}
        /\ (on => selected = Nil)
    BY <2>1 DEF DrawInv, Mounts, Pages
  <2>3. b = [mount EXCEPT !.review = on, !.builder = builder, !.selected = selected]
    BY <1>1, <2>1 DEF Reviewed
  <2>4. b \in Mounts /\ b.loaded = mount.loaded /\ b.review = on /\ b.selected = selected
    BY <2>2, <2>3 DEF DrawInv, Mounts
  <2> QED BY <2>1, <2>2, <2>4
<1>3. page' \in Pages /\ page'.review = ~page.review
  BY DEF showReviewOf, Switched, DrawInv, Pages
<1>4. RedrawAll(b) /\ UNCHANGED <<art, sent>>
  BY <1>1 DEF showReviewOf, Switched
<1> QED BY <1>2, <1>3, <1>4, RedoneAll DEF DrawInv

\* What the drawing knows before a call that draws a part of it.
LEMMA Before ==
  ASSUME DrawInv
  PROVE  /\ IsCanvas(canvas) /\ stack \in Seq(LayerIds) /\ mount \in Mounts /\ page \in Pages
         /\ page.review = mount.review /\ (mount.review => mount.selected = Nil)
         /\ sent \in Calls \cup {Nil}
         /\ mount.loaded => Painted(canvas, mount, sent) /\ StackOK(stack)
         /\ ~mount.loaded => stack = <<>>
BY StackTyped DEF DrawInv

LEMMA HideDrawn == ASSUME DrawInv, setHideOrders PROVE DrawInv'
<1>1. PICK b, c : b = [mount EXCEPT !.hide = ~@] /\ c = renderOrders(canvas, b)
  OBVIOUS
<1>2. /\ b \in Mounts /\ b.loaded = mount.loaded /\ b.review = mount.review
      /\ b.selected = mount.selected /\ b.state = mount.state /\ b.brief = mount.brief
      /\ b.style = mount.style /\ b.zoom = mount.zoom /\ b.pieces = mount.pieces
      /\ b.builder = mount.builder
  BY <1>1, Before DEF Mounts
<1>3. page' \in Pages /\ page'.review = page.review
  BY Before DEF setHideOrders, Switched, Pages
<1>4. /\ mount' = b /\ UNCHANGED <<art, sent>>
      /\ canvas' = IF b.loaded THEN c ELSE canvas
      /\ stack' = IF b.loaded THEN overlay(stack, "orders") ELSE stack
  BY <1>1 DEF setHideOrders, Switched, Redraw
<1>5. IsCanvas(c) /\ c.orders = OrdersShown(b) /\ c.units = canvas.units
      /\ c.names = canvas.names /\ c.codes = canvas.codes /\ c.art = canvas.art
      /\ c.lit = canvas.lit
  BY <1>1, Before, Rendered
<1>6. ASSUME b.loaded PROVE Painted(c, b, sent)
  <2>1. Painted(canvas, mount, sent)
    BY <1>2, <1>6, Before
  <2> QED BY <1>2, <1>5, <2>1, SamePictures DEF Painted
<1>7. b.loaded => stack' = stack
  BY <1>2, <1>4, Before, OrdersStay
<1> QED BY <1>2, <1>3, <1>4, <1>5, <1>6, <1>7, Before, Redone

LEMMA SelectDrawn == ASSUME DrawInv, NEW p \in Lands, selectOrder(p) PROVE DrawInv'
<1>0. PICK picked : picked = IF mount.selected = p THEN Nil ELSE p
  OBVIOUS
<1>1. PICK b, c : b = [mount EXCEPT !.selected = picked] /\ c = renderOrders(canvas, b)
  OBVIOUS
<1>2. /\ b \in Mounts /\ b.loaded = mount.loaded /\ b.review = mount.review
      /\ b.state = mount.state /\ b.brief = mount.brief
      /\ b.style = mount.style /\ b.zoom = mount.zoom /\ b.pieces = mount.pieces
      /\ b.builder = mount.builder
  BY <1>0, <1>1, Before DEF Mounts
<1>3. ~b.review
  BY <1>2, Before DEF selectOrder
<1>4. /\ mount' = b /\ UNCHANGED <<art, page, sent>>
      /\ canvas' = IF b.loaded THEN c ELSE canvas
      /\ stack' = IF b.loaded THEN overlay(stack, "orders") ELSE stack
  BY <1>0, <1>1 DEF selectOrder, Redraw
<1>5. IsCanvas(c) /\ c.orders = OrdersShown(b) /\ c.units = canvas.units
      /\ c.names = canvas.names /\ c.codes = canvas.codes /\ c.art = canvas.art
      /\ c.lit = canvas.lit
  BY <1>1, Before, Rendered
<1>6. ASSUME b.loaded PROVE Painted(c, b, sent)
  <2>1. Painted(canvas, mount, sent)
    BY <1>2, <1>6, Before
  <2> QED BY <1>2, <1>5, <2>1, SamePictures DEF Painted
<1>7. b.loaded => stack' = stack
  BY <1>2, <1>4, Before, OrdersStay
<1> QED BY <1>2, <1>3, <1>4, <1>5, <1>6, <1>7, Before, Redone

LEMMA BriefDrawn == ASSUME DrawInv, setBriefLabels PROVE DrawInv'
<1>1. PICK b, c, d : b = [mount EXCEPT !.brief = ~@] /\ c = renderDataNames(canvas, b)
                     /\ d = renderBriefLabels(c, b)
  OBVIOUS
<1>2. /\ b \in Mounts /\ b.loaded = mount.loaded /\ b.review = mount.review
      /\ b.selected = mount.selected /\ b.state = mount.state /\ b.hide = mount.hide
      /\ b.style = mount.style /\ b.zoom = mount.zoom /\ b.pieces = mount.pieces
      /\ b.builder = mount.builder /\ b.illegal = mount.illegal
  BY <1>1, Before DEF Mounts
<1>3. page' \in Pages /\ page'.review = page.review
  BY Before DEF setBriefLabels, Switched, Pages
<1>4. /\ mount' = b /\ UNCHANGED <<art, sent>>
      /\ canvas' = IF b.loaded THEN d ELSE canvas
      /\ stack' = IF b.loaded THEN orderDrawnLayers(BriefLayer(DataLayers(stack, b), b)) ELSE stack
  BY <1>1 DEF setBriefLabels, Switched, Redraw
<1>5. IsCanvas(c) /\ c.orders = canvas.orders /\ c.units = canvas.units
      /\ c.names = NamesShown(b) /\ c.lit = canvas.lit
  BY <1>1, Before, Rendered
<1>6. IsCanvas(d) /\ d.orders = c.orders /\ d.units = c.units /\ d.names = c.names
      /\ d.codes = CodesShown(b) /\ d.art = ArtShown(b) /\ d.lit = c.lit
  BY <1>1, <1>5, Rendered
<1>7. ASSUME b.loaded PROVE Painted(d, b, sent)
  <2>1. Painted(canvas, mount, sent)
    BY <1>2, <1>7, Before
  <2>2. OrdersShown(b) = OrdersShown(mount) /\ UnitsShown(b) = UnitsShown(mount) /\ Lit(b) = Lit(mount)
    BY <1>2, SamePictures, SameOrders
  <2> QED BY <1>2, <1>5, <1>6, <2>1, <2>2 DEF Painted
<1>8. b.loaded => StackOK(stack')
  <2>1. ASSUME b.loaded PROVE Contains(stack, "orders") /\ Contains(stack, "units")
    BY <1>2, <2>1, Before, TopHasUnits DEF StackOK
  <2> QED BY <1>4, <2>1, Before, DrawnInOrder
<1> QED BY <1>2, <1>3, <1>4, <1>6, <1>7, <1>8, Before, Redone

LEMMA PiecesDrawn == ASSUME DrawInv, setMarkerStyle PROVE DrawInv'
<1>1. PICK b, c, d : b = [mount EXCEPT !.pieces = OtherPieces(@)] /\ c = renderUnits(canvas, b)
                     /\ d = renderOrders(c, b)
  OBVIOUS
<1>2. /\ b \in Mounts /\ b.loaded = mount.loaded /\ b.review = mount.review
      /\ b.selected = mount.selected /\ b.state = mount.state /\ b.brief = mount.brief
      /\ b.style = mount.style /\ b.zoom = mount.zoom /\ b.builder = mount.builder
  BY <1>1, Before DEF Mounts, OtherPieces
<1>3. page' \in Pages /\ page'.review = page.review
  BY Before DEF setMarkerStyle, Switched, Pages, OtherPieces
<1>4. /\ mount' = b /\ UNCHANGED <<art, sent>>
      /\ canvas' = IF b.loaded THEN d ELSE canvas
      /\ stack' = IF b.loaded THEN overlayLayer(stack) ELSE stack
  BY <1>1 DEF setMarkerStyle, Switched, Redraw
<1>5. IsCanvas(c) /\ c.units = UnitsShown(b) /\ c.names = canvas.names /\ c.codes = canvas.codes
      /\ c.art = canvas.art /\ c.lit = canvas.lit
  BY <1>1, Before, Rendered
<1>6. IsCanvas(d) /\ d.orders = OrdersShown(b) /\ d.units = c.units /\ d.names = c.names
      /\ d.codes = c.codes /\ d.art = c.art /\ d.lit = c.lit
  BY <1>1, <1>5, Rendered
<1>7. ASSUME b.loaded PROVE Painted(d, b, sent)
  <2>1. Painted(canvas, mount, sent)
    BY <1>2, <1>7, Before
  <2> QED BY <1>2, <1>5, <1>6, <2>1, SamePictures DEF Painted
<1>8. b.loaded => StackOK(stack')
  <2>1. ASSUME b.loaded PROVE StackOK(overlayLayer(stack))
    BY <1>2, <2>1, Before, OverlayLayerStack DEF StackOK, Grows
  <2> QED BY <1>4, <2>1
<1> QED BY <1>2, <1>3, <1>4, <1>6, <1>7, <1>8, Before, Redone

LEMMA RemountDrawn == ASSUME DrawInv, Remount PROVE DrawInv'
<1>1. page' \in Pages /\ page'.review = page.review
  BY Before DEF Remount, Pages
<1>2. mount' \in Mounts /\ ~mount'.loaded /\ mount'.review = page'.review /\ mount'.selected = Nil
  BY <1>1 DEF Remount, Mounted, Mounts, Pages
<1>3. IsCanvas(canvas')
  BY DEF Remount, Blank, IsCanvas
<1>4. sent' \in Calls \cup {Nil}
  <2>1. CASE sent = Nil \/ sent.old
    BY <2>1, Before DEF Remount
  <2>2. CASE ~(sent = Nil \/ sent.old)
    <3>1. sent' = [sent EXCEPT !.old = TRUE, !.marks = mount.illegal]
      BY <2>2 DEF Remount
    <3> QED BY <2>2, <3>1, Before DEF Calls, Mounts
  <2> QED BY <2>1, <2>2
<1>5. UNCHANGED art /\ stack' = <<>>
  BY DEF Remount
<1> QED BY <1>1, <1>2, <1>3, <1>4, <1>5, Redone

LEMMA ZoomDrawn == ASSUME DrawInv, Zoomed PROVE DrawInv'
<1>1. PICK b, c : b = [mount EXCEPT !.zoom = 3 - @] /\ c = renderOverlays(canvas, b)
  OBVIOUS
<1>2. /\ b \in Mounts /\ b.loaded = mount.loaded /\ b.review = mount.review
      /\ b.selected = mount.selected /\ b.state = mount.state /\ b.brief = mount.brief
      /\ b.style = mount.style /\ b.builder = mount.builder
  <2>1. 3 - mount.zoom \in 1..2
    BY Before DEF Mounts
  <2> QED BY <1>1, <2>1, Before DEF Mounts
<1>3. b.loaded /\ UNCHANGED <<art, page, sent>>
  BY <1>2 DEF Zoomed
<1>4. mount' = b /\ canvas' = c /\ stack' = OverlaysStack(stack, b)
  BY <1>1, <1>3 DEF Zoomed, RedrawOverlays, Redraw
<1>5. IsCanvas(c) /\ c.orders = OrdersShown(b) /\ c.units = UnitsShown(b)
      /\ c.names = canvas.names /\ c.codes = CodesShown(b) /\ c.art = ArtShown(b)
      /\ c.lit = canvas.lit
  BY <1>1, Before, RenderedOverlays
<1>6. Painted(c, b, sent)
  <2>1. Painted(canvas, mount, sent)
    BY <1>2, <1>3, Before
  <2> QED BY <1>2, <1>5, <2>1, SamePictures DEF Painted
<1>7. StackOK(stack')
  <2>1. StackOK(stack)
    BY <1>2, <1>3, Before
  <2> QED BY <1>4, <2>1, Before, OverlaysStackOK
<1> QED BY <1>2, <1>3, <1>4, <1>5, <1>6, <1>7, Before, Redone

LEMMA PickDrawn == ASSUME DrawInv, NEW p \in Lands, PickUnit(p) PROVE DrawInv'
<1>0. PICK unit : unit = IF mount.builder = p THEN Nil ELSE p
  OBVIOUS
<1>1. PICK b : b = [mount EXCEPT !.builder = unit]
  OBVIOUS
<1>2. /\ b \in Mounts /\ b.loaded = mount.loaded /\ b.review = mount.review
      /\ b.selected = mount.selected
  BY <1>0, <1>1, Before DEF Mounts
<1>3. RedrawAll(b) /\ UNCHANGED <<art, page, sent>>
  BY <1>0, <1>1 DEF PickUnit
<1> QED BY <1>2, <1>3, Before, RedoneAll

LEMMA AwayIsACall ==
  ASSUME NEW p \in Lands, NEW draft \in {"none", "legal", "bluff"}
  PROVE  Away(p, draft) \in Calls /\ Away(p, draft) # Nil
<1>1. PICK call : call = [at |-> p, draft |-> draft, old |-> FALSE, marks |-> {}]
  OBVIOUS
<1>2. call \in Calls
  BY <1>1 DEF Calls
<1>3. Nil \notin Calls
  BY PictureAssumption DEF Calls
<1> QED BY <1>1, <1>2, <1>3 DEF Away

LEMMA PostDrawn ==
  ASSUME DrawInv, NEW draft \in {"legal", "bluff"}, PostDraft(draft) PROVE DrawInv'
<1>0. PICK unit, illegal :
        /\ unit = mount.builder
        /\ illegal = IF draft = "bluff" THEN mount.illegal \cup {unit} ELSE mount.illegal
  OBVIOUS
<1>1. unit \in Lands /\ illegal \in SUBSET Lands
  BY <1>0, Before DEF PostDraft, Mounts
<1>2. mount' = [mount EXCEPT !.builder = Nil, !.illegal = illegal]
  BY <1>0 DEF PostDraft
<1>3. /\ mount' \in Mounts /\ mount'.loaded = mount.loaded /\ mount'.review = mount.review
      /\ mount'.selected = mount.selected /\ mount'.state = mount.state
      /\ mount'.brief = mount.brief /\ mount'.style = mount.style /\ mount'.zoom = mount.zoom
      /\ mount'.pieces = mount.pieces /\ mount'.illegal = illegal
  BY <1>1, <1>2, Before DEF Mounts
<1>4. page' \in Pages /\ page'.review = page.review
  <2>1. CASE draft = "bluff"
    <3>1. page' = [page EXCEPT !.told = illegal]
      BY <1>3, <2>1 DEF PostDraft
    <3> QED BY <1>1, <3>1, Before DEF Pages
  <2>2. CASE draft # "bluff"
    BY <2>2, Before DEF PostDraft
  <2> QED BY <2>1, <2>2
<1>5. sent' \in Calls /\ sent' # Nil
  <2>1. sent' = Away(unit, draft)
    BY <1>0 DEF PostDraft
  <2> QED BY <1>1, <2>1, AwayIsACall
<1>6. UNCHANGED <<art, canvas, stack>>
  BY DEF PostDraft
<1>7. ASSUME mount'.loaded PROVE Painted(canvas', mount', sent')
  <2>1. Painted(canvas, mount, sent)
    BY <1>3, <1>7, Before
  <2>2. mount.review => OrdersShown(mount') = OrdersShown(mount)
    BY <1>3, SameOrders
  <2>3. /\ NamesShown(mount') = NamesShown(mount) /\ ArtShown(mount') = ArtShown(mount)
        /\ CodesShown(mount') = CodesShown(mount) /\ UnitsShown(mount') = UnitsShown(mount)
    BY <1>3, SamePictures
  <2> QED BY <1>3, <1>5, <1>6, <2>1, <2>2, <2>3 DEF Painted
<1> QED BY <1>3, <1>4, <1>5, <1>6, <1>7, Before, Redone

LEMMA DropDrawn == ASSUME DrawInv, NEW p \in Lands, DropDraft(p) PROVE DrawInv'
<1>0. PICK unit : unit = IF mount.builder = p THEN Nil ELSE mount.builder
  OBVIOUS
<1>1. unit \in Lands \cup {Nil}
  BY <1>0, Before DEF Mounts
<1>2. mount' = [mount EXCEPT !.builder = unit, !.selected = Nil]
  BY <1>0 DEF DropDraft
<1>3. /\ mount' \in Mounts /\ mount'.loaded = mount.loaded /\ mount'.review = mount.review
      /\ mount'.state = mount.state /\ mount'.selected = Nil
      /\ mount'.brief = mount.brief /\ mount'.style = mount.style /\ mount'.zoom = mount.zoom
      /\ mount'.pieces = mount.pieces
  BY <1>1, <1>2, Before DEF Mounts
<1>4. ~mount'.review
  BY <1>3, Before DEF DropDraft
<1>5. sent' \in Calls /\ sent' # Nil
  <2>1. sent' = Away(p, "none")
    BY DEF DropDraft
  <2> QED BY <2>1, AwayIsACall
<1>6. UNCHANGED <<art, page, canvas, stack>>
  BY DEF DropDraft
<1>7. ASSUME mount'.loaded PROVE Painted(canvas', mount', sent')
  <2>1. Painted(canvas, mount, sent)
    BY <1>3, <1>7, Before
  <2>2. /\ NamesShown(mount') = NamesShown(mount) /\ ArtShown(mount') = ArtShown(mount)
        /\ CodesShown(mount') = CodesShown(mount) /\ UnitsShown(mount') = UnitsShown(mount)
    BY <1>3, SamePictures
  <2> QED BY <1>3, <1>4, <1>5, <1>6, <2>1, <2>2 DEF Painted
<1> QED BY <1>3, <1>4, <1>5, <1>6, <1>7, Before, Redone

LEMMA AnswerDrawn == ASSUME DrawInv, StateAnswered PROVE DrawInv'
<1>1. PICK taken \in BOOLEAN :
       LET marks == MarksAfter(IF sent.old THEN sent.marks ELSE mount.illegal, sent, taken)
           pg == [page EXCEPT
                    !.state.drafts[sent.at] = IF taken THEN sent.draft ELSE @,
                    !.told = Told(page, IF sent.old THEN sent.marks ELSE mount.illegal, marks)]
           b == Updated(IF sent.old THEN mount ELSE [mount EXCEPT !.illegal = marks], pg.state)
       IN  /\ page' = pg
           /\ RedrawAll(b)
  BY DEF StateAnswered
<1>2. sent \in Calls /\ sent' = Nil /\ UNCHANGED art
  BY Before DEF StateAnswered
<1>3. PICK old, marks, told :
        /\ old = (IF sent.old THEN sent.marks ELSE mount.illegal)
        /\ marks = MarksAfter(old, sent, taken) /\ told = Told(page, old, marks)
  OBVIOUS
<1>4. old \in SUBSET Lands /\ marks \in SUBSET Lands /\ told \in SUBSET Lands
  BY <1>2, <1>3, Before DEF Calls, Mounts, Pages, MarksAfter, Told
<1>5. PICK at, draft : at = sent.at /\ draft = (IF taken THEN sent.draft ELSE page.state.drafts[at])
  OBVIOUS
<1>6. at \in Lands /\ draft \in {"none", "legal", "bluff"}
  BY <1>2, <1>5, Before DEF Calls, Pages, States, Drafts
<1>7. page' = [page EXCEPT !.state.drafts[at] = draft, !.told = told]
  BY <1>1, <1>3, <1>5
<1>8. page' \in Pages /\ page'.review = page.review /\ page'.state \in States
  BY <1>4, <1>6, <1>7, Before DEF Pages, States, Drafts
<1>9. PICK m, b : m = (IF sent.old THEN mount ELSE [mount EXCEPT !.illegal = marks])
                  /\ b = Updated(m, page'.state)
  OBVIOUS
<1>10. m \in Mounts /\ m.loaded = mount.loaded /\ m.review = mount.review
       /\ m.selected = mount.selected
  BY <1>4, <1>9, Before DEF Mounts
<1>11. b \in Mounts /\ b.loaded = mount.loaded /\ b.review = mount.review
       /\ b.selected \in {Nil, mount.selected}
  BY <1>8, <1>9, <1>10, UpdatedMount
<1>12. RedrawAll(b)
  BY <1>1, <1>3, <1>9
<1>13. page'.review = b.review /\ (b.review => b.selected = Nil) /\ sent' \in Calls \cup {Nil}
  BY <1>2, <1>8, <1>11, Before
<1> QED BY <1>2, <1>8, <1>11, <1>12, <1>13, RedoneAll

LEMMA DrawInvNext == DrawInv /\ [DrawNext]_drawVars => DrawInv'
<1> SUFFICES ASSUME DrawInv, [DrawNext]_drawVars PROVE DrawInv'
  OBVIOUS
<1>1. CASE UNCHANGED drawVars
  BY <1>1, Before, Redone DEF drawVars
<1>2. CASE MapLoads \/ StateArrives \/ showReviewOf \/ setHideOrders \/ setBriefLabels
  BY <1>2, MapLoadsDrawn, StateArrivesDrawn, ReviewDrawn, HideDrawn, BriefDrawn
<1>3. CASE setMarkerStyle \/ Remount \/ Zoomed \/ StateAnswered
  BY <1>3, PiecesDrawn, RemountDrawn, ZoomDrawn, AnswerDrawn
<1>4. CASE \E p \in Lands : selectOrder(p) \/ PickUnit(p) \/ DropDraft(p)
  BY <1>4, SelectDrawn, PickDrawn, DropDrawn
<1>5. CASE \E draft \in {"legal", "bluff"} : PostDraft(draft)
  BY <1>5, PostDrawn
<1> QED BY <1>1, <1>2, <1>3, <1>4, <1>5 DEF DrawNext

\* What a picture of what the board was told says of it.
LEMMA PublicPicture ==
  ASSUME DrawInv, mount.loaded, mount.review PROVE ReviewIsPublic
<1>1. mount.selected = Nil /\ canvas.orders = OrdersShown(mount) /\ canvas.units = UnitsShown(mount)
  BY DEF DrawInv, Painted
<1> DEFINE order(p) == [at |-> p, tone |-> Tone(mount, p), weight |-> "plain", zoom |-> mount.zoom]
<1>2. canvas.orders = {order(p) : p \in Lands}
  BY <1>1 DEF OrdersShown, Weight
<1>3. {o.at : o \in canvas.orders} = Lands
  <2>1. \A p \in Lands : order(p).at = p /\ order(p) \in canvas.orders
    BY <1>2
  <2>2. \A o \in canvas.orders : \E p \in Lands : o = order(p)
    BY <1>2
  <2> HIDE DEF order
  <2> QED BY <2>1, <2>2
<1>4. \A o \in canvas.orders : o.tone \in {Tone(mount, p) : p \in Lands} /\ o.weight # "dim"
  BY <1>2
<1>5. \A u \in canvas.units : u.spoken = {}
  <2>1. PICK shown : shown = [spoken |-> {}, pieces |-> mount.pieces, zoom |-> mount.zoom,
                              ringed |-> "thrown out then"]
    OBVIOUS
  <2>2. canvas.units = {shown} /\ shown.spoken = {}
    BY <1>1, <2>1 DEF UnitsShown
  <2> QED BY <2>2
<1> QED BY <1>3, <1>4, <1>5 DEF ReviewIsPublic

LEMMA LabelledOnce == ASSUME DrawInv, mount.loaded PROVE OneLabelEach
<1>1. canvas.codes = CodesShown(mount) /\ canvas.names = NamesShown(mount)
      /\ canvas.art = ArtShown(mount)
  BY DEF DrawInv, Painted
<1>2. art \in {"both", "names", "none"} /\ mount.brief \in BOOLEAN
  BY PictureAssumption DEF DrawInv, Mounts
<1> SUFFICES ASSUME NEW p \in Lands
             PROVE  Labels(p) <= 1 /\ (mount.state.known => Labels(p) = 1)
  BY DEF OneLabelEach
<1>3. PICK a, n, c :
        /\ a = {l \in canvas.art : l[1] = p} /\ n = {l \in canvas.names : l[1] = p}
        /\ c = {l \in canvas.codes : l.at = p}
  OBVIOUS
<1>4. Cardinality({}) = 0 /\ \A x : Cardinality({x}) = 1
  BY FS_EmptySet, FS_Singleton
<1>5. Labels(p) = Cardinality(a) + Cardinality(n) + Cardinality(c)
  BY <1>3 DEF Labels
<1>6. ASSUME NEW x, \/ a = {x} /\ n = {} /\ c = {}
                    \/ a = {} /\ n = {x} /\ c = {}
                    \/ a = {} /\ n = {} /\ c = {x}
      PROVE  Labels(p) = 1
  <2>1. CASE a = {x} /\ n = {} /\ c = {}
    <3>1. Cardinality(a) = 1 /\ Cardinality(n) = 0 /\ Cardinality(c) = 0
      BY <1>4, <2>1
    <3> QED BY <1>5, <3>1
  <2>2. CASE a = {} /\ n = {x} /\ c = {}
    <3>1. Cardinality(a) = 0 /\ Cardinality(n) = 1 /\ Cardinality(c) = 0
      BY <1>4, <2>2
    <3> QED BY <1>5, <3>1
  <2>3. CASE a = {} /\ n = {} /\ c = {x}
    <3>1. Cardinality(a) = 0 /\ Cardinality(n) = 0 /\ Cardinality(c) = 1
      BY <1>4, <2>3
    <3> QED BY <1>5, <3>1
  <2> QED BY <1>6, <1>5, <2>1, <2>2, <2>3
<1>7. CASE art = "both"
  <2>1. n = {} /\ c = {}
    BY <1>1, <1>3, <1>7 DEF NamesShown, CodesShown, FromRecords
  <2>2. PICK label : label = <<p, IF mount.brief THEN "code" ELSE "name">>
    OBVIOUS
  <2>3. a = {label}
    BY <1>1, <1>3, <1>7, <2>2 DEF ArtShown
  <2>4. Labels(p) = 1
    BY <1>6, <2>1, <2>3
  <2> QED BY <2>4
<1>8. CASE art = "names" /\ ~mount.brief
  <2>1. n = {} /\ c = {}
    BY <1>1, <1>3, <1>8 DEF NamesShown, CodesShown, FromRecords
  <2>2. PICK label : label = <<p, "name">>
    OBVIOUS
  <2>3. a = {label}
    BY <1>1, <1>3, <1>8, <2>2 DEF ArtShown
  <2>4. Labels(p) = 1
    BY <1>6, <2>1, <2>3
  <2> QED BY <2>4
<1>9. CASE art # "both" /\ mount.brief
  <2>1. n = {} /\ a = {}
    BY <1>1, <1>3, <1>9 DEF NamesShown, ArtShown
  <2>2. PICK label : label = [at |-> p, ink |-> mount.style, zoom |-> mount.zoom]
    OBVIOUS
  <2>3. c = {label}
    BY <1>1, <1>3, <1>9, <2>2 DEF CodesShown
  <2>4. Labels(p) = 1
    BY <1>6, <2>1, <2>3
  <2> QED BY <2>4
<1>10. CASE art = "none" /\ ~mount.brief
  <2>1. c = {} /\ a = {}
    BY <1>1, <1>3, <1>10 DEF CodesShown, ArtShown
  <2>2. CASE mount.state.known
    <3>1. PICK label : label = <<p, IF p \in Named THEN "name" ELSE "code">>
      OBVIOUS
    <3>2. n = {label}
      BY <1>1, <1>3, <1>10, <2>2, <3>1 DEF NamesShown, FromRecords
    <3>3. Labels(p) = 1
      BY <1>6, <2>1, <3>2
    <3> QED BY <3>3
  <2>3. CASE ~mount.state.known
    <3>1. n = {}
      BY <1>1, <1>3, <1>10, <2>3 DEF NamesShown, FromRecords
    <3>2. Cardinality(a) = 0 /\ Cardinality(n) = 0 /\ Cardinality(c) = 0
      BY <1>4, <2>1, <3>1
    <3> QED BY <1>5, <2>3, <3>2
  <2> QED BY <2>2, <2>3
<1> QED BY <1>2, <1>7, <1>8, <1>9, <1>10

LEMMA DrawnIsTrue == DrawInv => MapIsUpToDate
<1> SUFFICES ASSUME DrawInv, mount.loaded
             PROVE  NothingStale /\ ReviewIsPublic /\ OneLabelEach /\ PiecesOnTop
  BY DEF MapIsUpToDate
<1>1. NothingStale
  BY DEF DrawInv, Painted, NothingStale
<1>2. ReviewIsPublic
  BY PublicPicture DEF ReviewIsPublic
<1>3. PiecesOnTop
  BY DEF DrawInv, StackOK, Top, PiecesOnTop, Last
<1> QED BY <1>1, <1>2, <1>3, LabelledOnce

(* For every map, every set of provinces and whatever came of their        *)
(* orders: once the map is in, what its layers show is what the board was  *)
(* last told, a review shows nothing of this seat alone, each province has *)
(* one label and the pieces lie on top (renderAll, renderOverlays,         *)
(* renderBriefLabels, renderDataNames, applyDrawnLabelLayers).             *)
THEOREM MapStaysTrue == DrawSpec => []MapIsUpToDate
BY DrawInvInit, DrawInvNext, DrawnIsTrue, PTL DEF DrawSpec

-------------------------------------------------------------------------------
(* BoardOrders: the tree a builder walks is the one of its unit in a phase *)
(* there was, and a coast on the chip is a key of the tree that is open.   *)

Reached(tree, parts) ==
  \E o \in tree : Len(parts) <= Len(o) /\ SubSeq(o, 1, Len(parts)) = parts

IsBuilder(b) ==
  /\ b \in [prov : Shapes, tree : {b.tree}, kind : {b.kind}, epoch : {b.epoch},
            parts : {b.parts}, short : {b.short}, support : {b.support}]
  /\ \E ph \in 1..Len(Kinds) : b.tree = Trees[ph][b.prov]
  /\ Len(b.parts) \in Nat

IsBoard(bd) ==
  bd \in [phase : 1..Len(Kinds), orders : {bd.orders}, plan : 1..Len(Kinds),
          builder : {bd.builder}, menu : {bd.menu}, review : {bd.review},
          illegal : {bd.illegal}, epoch : {bd.epoch}, last : {bd.last}, taps : {bd.taps}]

\* A coast on the chip is a key of the tree that is open.
MenuOK(bd) ==
  \A item \in bd.menu : item.act = "coast" /\ bd.builder # None =>
    Len(item.head) \in Nat /\ item.key \in Keys(bd.builder.tree, item.head)

BoardOK(bd) ==
  IsBoard(bd) /\ (bd.builder # None => IsBuilder(bd.builder)) /\ MenuOK(bd)

IsCall(c) ==
  /\ c.prov \in Shapes
  /\ c.call = "options" => c.since \in 1..Len(Kinds)
  /\ c.call = "order" =>
       /\ c \in [call : {"order"}, prov : Shapes, parts : {c.parts}, why : {c.why},
                 reply : {c.reply}]
       /\ c.reply # None => c.reply.phase \in 1..Len(Kinds)
       /\ c.why = "legal" => Complete(c.prov, c.parts)

OrdersInv ==
  /\ BoardOK(board)
  /\ \A c \in orderCalls : IsCall(c)
  /\ orderDesk.phase \in 1..Len(Kinds)

Good(result) == BoardOK(result.board) /\ \A c \in result.send : IsCall(c)

-------------------------------------------------------------------------------
(* Walks in a tree.                                                        *)

LEMMA HeadOfAnOrder ==
  ASSUME NEW tree, tree \subseteq Seq(Words), NEW head, Len(head) \in Nat,
         NEW key \in Keys(tree, head)
  PROVE  /\ head \in Seq(Words) /\ key \in Words
         /\ head \o <<key>> \in Seq(Words)
         /\ Len(head \o <<key>>) = Len(head) + 1
         /\ Reached(tree, head \o <<key>>)
<1>1. PICK o \in tree : Len(o) > Len(head) /\ SubSeq(o, 1, Len(head)) = head
                        /\ key = o[Len(head) + 1]
  BY DEF Keys
<1>2. o \in Seq(Words) /\ Len(o) \in Nat
  OBVIOUS
<1>3. PICK n : n = Len(head)
  OBVIOUS
<1>4. n \in Nat /\ n + 1 <= Len(o) /\ n <= Len(o)
  BY <1>1, <1>2, <1>3
<1>5. /\ SubSeq(o, 1, n) \in Seq(Words)
      /\ \A j \in 1..n : SubSeq(o, 1, n)[j] = o[j]
  BY <1>2, <1>4
<1>6. key \in Words
  BY <1>1, <1>2, <1>3, <1>4
<1>7. head \in Seq(Words) /\ \A j \in 1..n : head[j] = o[j]
  BY <1>1, <1>3, <1>5
<1>8. PICK long, most : long = head \o <<key>> /\ most = SubSeq(o, 1, n + 1)
  OBVIOUS
<1>9. /\ long \in Seq(Words) /\ Len(long) = n + 1 /\ long[n + 1] = key
      /\ \A j \in 1..n : long[j] = head[j]
  <2>1. PICK one : one = <<key>>
    OBVIOUS
  <2>2. one \in Seq(Words) /\ Len(one) = 1 /\ one[1] = key
    BY <1>6, <2>1
  <2>3. long = head \o one /\ head \in Seq(Words) /\ one \in Seq(Words)
    BY <1>7, <1>8, <2>1, <2>2
  <2>4. /\ long \in Seq(Words) /\ Len(long) = Len(head) + Len(one)
        /\ \A i \in 1..(Len(head) + Len(one)) :
             long[i] = IF i <= Len(head) THEN head[i] ELSE one[i - Len(head)]
    BY <2>3, ConcatProperties
  <2>5. n + 1 \in 1..(Len(head) + Len(one)) /\ ~(n + 1 <= Len(head)) /\ n + 1 - Len(head) = 1
        /\ \A j \in 1..n : j \in 1..(Len(head) + Len(one)) /\ j <= Len(head)
    BY <1>3, <1>4, <2>2
  <2> QED BY <1>3, <2>2, <2>4, <2>5
<1>10. /\ most \in Seq(Words) /\ Len(most) = n + 1
       /\ \A j \in 1..(n + 1) : most[j] = o[j]
  BY <1>2, <1>4, <1>8
<1>11. most = long
  <2>1. \A j \in 1..(n + 1) : most[j] = long[j]
    BY <1>1, <1>3, <1>4, <1>7, <1>9, <1>10
  <2> QED BY <1>4, <1>9, <1>10, <2>1
<1> QED BY <1>1, <1>2, <1>3, <1>4, <1>6, <1>7, <1>8, <1>9, <1>11 DEF Reached

LEMMA WholeOrder ==
  ASSUME NEW tree, tree \subseteq Seq(Words), NEW parts, Len(parts) \in Nat,
         Reached(tree, parts), Keys(tree, parts) = {}
  PROVE  parts \in tree
<1>1. PICK o \in tree : Len(parts) <= Len(o) /\ SubSeq(o, 1, Len(parts)) = parts
  BY DEF Reached
<1>2. o \in Seq(Words) /\ Len(o) \in Nat
  OBVIOUS
<1>3. ~(Len(o) > Len(parts))
  <2>1. Len(o) > Len(parts) => o[Len(parts) + 1] \in Keys(tree, parts)
    BY <1>1 DEF Keys
  <2> QED BY <2>1
<1>4. Len(o) = Len(parts)
  BY <1>1, <1>2, <1>3
<1>5. SubSeq(o, 1, Len(o)) = o
  BY <1>2
<1> QED BY <1>1, <1>4, <1>5

LEMMA TwoSteps ==
  ASSUME NEW s \in Seq(Words), NEW a \in Words, NEW b \in Words
  PROVE  s \o <<a, b>> = (s \o <<a>>) \o <<b>>
<1>1. PICK t, u, v : t = <<a>> /\ u = <<b>> /\ v = <<a, b>>
  OBVIOUS
<1>2. t \in Seq(Words) /\ u \in Seq(Words)
  BY <1>1
<1>3. Append(t, b) = t \o u
  BY <1>1, <1>2, AppendIsConcat
<1>4. Append(t, b) = v
  <2>1. PICK x : x = Append(t, b)
    OBVIOUS
  <2>2. x \in Seq(Words) /\ Len(x) = 2 /\ x[1] = a /\ x[2] = b
    BY <1>1, <1>2, <2>1
  <2>3. v \in Seq(Words) /\ Len(v) = 2 /\ v[1] = a /\ v[2] = b
    BY <1>1
  <2>4. \A i \in 1..2 : x[i] = v[i]
    BY <2>2, <2>3
  <2> QED BY <2>1, <2>2, <2>3, <2>4
<1>5. (s \o t) \o u = s \o (t \o u)
  BY <1>2, ConcatAssociative
<1> QED BY <1>1, <1>3, <1>4, <1>5

LEMMA TreeTyped == ASSUME NEW b, IsBuilder(b) PROVE b.tree \subseteq Seq(Words)
BY OrdersAssumption DEF IsBuilder

\* A key that matches a shape is a key of the tree, and so are its coasts.
LEMMA KeyMatched ==
  ASSUME NEW keys, NEW p, matchingKey(keys, p) # None
  PROVE  matchingKey(keys, p) \in keys
<1>1. CASE p \in keys
  BY <1>1 DEF matchingKey
<1>2. CASE p \notin keys /\ Base[p] \in keys
  BY <1>2 DEF matchingKey
<1>3. CASE p \notin keys /\ Base[p] \notin keys
  <2>1. Cardinality(SameBase(keys, p)) = 1
    BY <1>3 DEF matchingKey
  <2>2. SameBase(keys, p) # {}
    BY <2>1, FS_EmptySet
  <2>3. matchingKey(keys, p) \in SameBase(keys, p)
    BY <1>3, <2>1, <2>2 DEF matchingKey
  <2> QED BY <2>3 DEF SameBase
<1> QED BY <1>1, <1>2, <1>3

LEMMA CoastsAreKeys == ASSUME NEW keys, NEW p PROVE coastKeys(keys, p) \subseteq keys
BY DEF coastKeys, SameBase

-------------------------------------------------------------------------------
(* The handlers.                                                           *)

LEMMA Quiet ==
  ASSUME NEW bd, BoardOK(bd)
  PROVE  /\ BoardOK([bd EXCEPT !.menu = {}]) /\ [bd EXCEPT !.menu = {}].builder = bd.builder
         /\ BoardOK(Shut(bd)) /\ BoardOK([bd EXCEPT !.builder = None])
         /\ [bd EXCEPT !.menu = {}].plan = bd.plan /\ Shut(bd).plan = bd.plan
         /\ Shut(bd).menu = {} /\ Shut(bd).builder = None
<1>1. IsBoard(bd)
  BY DEF BoardOK
<1>2. PICK x, y, z : x = [bd EXCEPT !.menu = {}] /\ y = [bd EXCEPT !.builder = None]
                     /\ z = [bd EXCEPT !.menu = {}, !.builder = None]
  OBVIOUS
<1>3. /\ IsBoard(x) /\ x.menu = {} /\ x.builder = bd.builder /\ x.plan = bd.plan
      /\ IsBoard(y) /\ y.builder = None
      /\ IsBoard(z) /\ z.menu = {} /\ z.builder = None /\ z.plan = bd.plan
      /\ Shut(bd) = z
  BY <1>1, <1>2 DEF Shut, IsBoard
<1>4. BoardOK(x) /\ BoardOK(y) /\ BoardOK(z)
  BY <1>3 DEF BoardOK, MenuOK
<1> QED BY <1>2, <1>3, <1>4

LEMMA DoneGood == ASSUME NEW bd, BoardOK(bd) PROVE Good(Done(bd))
BY DEF Good, Done

LEMMA PostGood ==
  ASSUME NEW bd, BoardOK(bd), NEW p \in Shapes, NEW parts, NEW why,
         why = "legal" => Complete(p, parts)
  PROVE  /\ Good(Post(bd, p, parts, why))
         /\ Post(bd, p, parts, why).board = [bd EXCEPT !.builder = None]
<1>1. PICK call : call = [call |-> "order", prov |-> p, parts |-> parts, why |-> why, reply |-> None]
  OBVIOUS
<1>2. IsCall(call)
  BY <1>1 DEF IsCall
<1>3. BoardOK([bd EXCEPT !.builder = None])
  BY Quiet
<1> QED BY <1>1, <1>2, <1>3 DEF Post, Good

LEMMA WalkGood ==
  ASSUME NEW bd, IsBoard(bd), IsBuilder(bd.builder), NEW path,
         Len(bd.builder.parts \o path) \in Nat,
         Reached(bd.builder.tree, bd.builder.parts \o path)
  PROVE  Good(Walk(bd, path))
<1>1. PICK b, parts : b = bd.builder /\ parts = b.parts \o path
  OBVIOUS
<1>2. PICK quiet : quiet = [bd EXCEPT !.menu = {}]
  OBVIOUS
<1>3. IsBoard(quiet) /\ quiet.menu = {} /\ quiet.builder = b
  BY <1>1, <1>2 DEF IsBoard
<1>4. CASE Keys(b.tree, parts) = {}
  <2>1. parts \in b.tree
    BY <1>1, <1>4, TreeTyped, WholeOrder
  <2>2. b.prov \in Shapes /\ Complete(b.prov, parts)
    BY <1>1, <2>1 DEF IsBuilder, Complete
  <2>3. BoardOK(quiet)
    BY <1>1, <1>3 DEF BoardOK, MenuOK
  <2>4. Good(Post(quiet, b.prov, parts, "legal"))
    BY <2>2, <2>3, PostGood
  <2> QED BY <1>1, <1>2, <1>4, <2>4 DEF Walk
<1>5. CASE Keys(b.tree, parts) # {}
  <2>1. PICK no : no = FALSE
    OBVIOUS
  <2>2. PICK nb : nb = [b EXCEPT !.parts = parts, !.short = no, !.support = None]
    OBVIOUS
  <2>3. IsBuilder(nb)
    BY <1>1, <2>2 DEF IsBuilder
  <2>4. PICK new : new = [bd EXCEPT !.menu = {}, !.builder = nb]
    OBVIOUS
  <2>5. IsBoard(new) /\ new.menu = {} /\ new.builder = nb
    BY <2>4 DEF IsBoard
  <2>6. Good(Done(new))
    BY <2>3, <2>5, DoneGood DEF BoardOK, MenuOK
  <2>7. Walk(bd, path) = Done(new)
    BY <1>1, <1>5, <2>1, <2>2, <2>4 DEF Walk
  <2> QED BY <2>6, <2>7
<1> QED BY <1>4, <1>5

LEMMA BranchGood ==
  ASSUME NEW bd, IsBoard(bd), IsBuilder(bd.builder), NEW head, Len(head) \in Nat,
         NEW key \in Keys(bd.builder.tree, head)
  PROVE  Good(chooseInBranch(bd, head, key))
<1>1. PICK b : b = [bd.builder EXCEPT !.parts = head]
  OBVIOUS
<1>2. IsBuilder(b) /\ b.tree = bd.builder.tree /\ b.parts = head
  BY <1>1 DEF IsBuilder
<1>3. PICK new : new = [bd EXCEPT !.builder = b]
  OBVIOUS
<1>4. IsBoard(new) /\ new.builder = b
  BY <1>3 DEF IsBoard
<1>5. PICK path : path = <<key>>
  OBVIOUS
<1>6. Len(head \o path) \in Nat /\ Reached(b.tree, head \o path)
  <2>1. b.tree \subseteq Seq(Words) /\ key \in Keys(b.tree, head)
    BY <1>2, TreeTyped
  <2>2. Len(head \o <<key>>) = Len(head) + 1 /\ Reached(b.tree, head \o <<key>>)
    BY <2>1, HeadOfAnOrder
  <2> QED BY <1>5, <2>2
<1>7. Good(Walk(new, path))
  BY <1>2, <1>4, <1>6, WalkGood
<1>8. chooseInBranch(bd, head, key) = Walk(new, path)
  BY <1>1, <1>3, <1>5 DEF chooseInBranch
<1> QED BY <1>7, <1>8

LEMMA CoastMenuGood ==
  ASSUME NEW bd, BoardOK(bd), NEW head, Len(head) \in Nat,
         NEW coasts, coasts \subseteq Keys(bd.builder.tree, head)
  PROVE  Good(CoastMenu(bd, head, coasts))
<1>1. PICK menu : menu = {[act |-> "coast", head |-> head, key |-> c] : c \in coasts}
  OBVIOUS
<1>2. PICK new : new = [bd EXCEPT !.menu = menu]
  OBVIOUS
<1>3. IsBoard(new) /\ new.menu = menu /\ new.builder = bd.builder
  BY <1>2 DEF BoardOK, IsBoard
<1>4. \A item \in menu : item.head = head /\ item.key \in coasts
  BY <1>1
<1>5. BoardOK(new)
  BY <1>3, <1>4 DEF BoardOK, MenuOK
<1> QED BY <1>1, <1>2, <1>5, DoneGood DEF CoastMenu

\* A menu without coasts.
LEMMA OtherMenu ==
  ASSUME NEW bd, BoardOK(bd), NEW menu, \A item \in menu : item.act # "coast"
  PROVE  BoardOK([bd EXCEPT !.menu = menu])
<1>1. PICK new : new = [bd EXCEPT !.menu = menu]
  OBVIOUS
<1>2. IsBoard(new) /\ new.menu = menu /\ new.builder = bd.builder
  BY <1>1 DEF BoardOK, IsBoard
<1> QED BY <1>1, <1>2 DEF BoardOK, MenuOK

\* The builder that is open in a step of the map.
Open(bd) == BoardOK(bd) /\ bd.builder # None

LEMMA TakeMoveGood ==
  ASSUME NEW bd, Open(bd), NEW p PROVE Good(takeMove(bd, p))
<1>1. PICK head, keys : head = <<"Move">> /\ keys = MoveKeys(bd.builder)
  OBVIOUS
<1>2. Len(head) \in Nat /\ keys \subseteq Keys(bd.builder.tree, head)
  BY <1>1 DEF MoveKeys
<1>3. CASE coastKeys(keys, p) # {}
  <2>1. Good(CoastMenu(bd, head, coastKeys(keys, p)))
    BY <1>2, CoastsAreKeys, CoastMenuGood DEF Open
  <2> QED BY <1>1, <1>3, <2>1 DEF takeMove
<1>4. CASE coastKeys(keys, p) = {} /\ matchingKey(keys, p) # None
  <2>1. Good(chooseInBranch(bd, head, matchingKey(keys, p)))
    BY <1>2, <1>4, KeyMatched, BranchGood DEF Open, BoardOK
  <2> QED BY <1>1, <1>4, <2>1 DEF takeMove
<1>5. CASE coastKeys(keys, p) = {} /\ matchingKey(keys, p) = None
  BY <1>1, <1>5, DoneGood DEF takeMove, Open
<1> QED BY <1>3, <1>4, <1>5

LEMMA SupportGood ==
  ASSUME NEW bd, Open(bd), NEW src PROVE Good(enterSupport(bd, src))
<1>1. CASE Keys(bd.builder.tree, <<"Support", src>>) = {}
  BY <1>1, DoneGood DEF enterSupport, Open
<1>2. CASE Keys(bd.builder.tree, <<"Support", src>>) # {}
  <2>1. PICK support : support = [src |-> src, legal |-> TRUE]
    OBVIOUS
  <2>2. PICK b : b = [bd.builder EXCEPT !.support = support]
    OBVIOUS
  <2>3. IsBuilder(b)
    BY <2>2 DEF IsBuilder, Open, BoardOK
  <2>4. PICK new : new = [bd EXCEPT !.menu = {}, !.builder = b]
    OBVIOUS
  <2>5. IsBoard(new) /\ new.menu = {} /\ new.builder = b
    BY <2>4 DEF Open, BoardOK, IsBoard
  <2>6. Good(Done(new))
    BY <2>3, <2>5, DoneGood DEF BoardOK, MenuOK
  <2>7. enterSupport(bd, src) = Done(new)
    BY <1>2, <2>1, <2>2, <2>4 DEF enterSupport
  <2> QED BY <2>6, <2>7
<1> QED BY <1>1, <1>2

LEMMA OfferGood ==
  ASSUME NEW bd, Open(bd), NEW p PROVE Good(offerChoice(bd, p))
<1>1. PICK quiet : quiet = [bd EXCEPT !.menu = {}]
  OBVIOUS
<1>2. Open(quiet)
  BY <1>1, Quiet DEF Open
<1>3. PICK support : support = matchingKey(SupportKeys(bd.builder), p)
  OBVIOUS
<1>4. PICK menu : menu = {[act |-> "attack", at |-> p], [act |-> "support", src |-> support]}
  OBVIOUS
<1>5. \A item \in menu : item.act # "coast"
  BY <1>4
<1>6. Good(Done([bd EXCEPT !.menu = menu]))
  BY <1>5, OtherMenu, DoneGood DEF Open
<1>7. Good(takeMove(quiet, p)) /\ Good(enterSupport(quiet, support))
  BY <1>2, TakeMoveGood, SupportGood
<1>8. offerChoice(bd, p) \in {takeMove(quiet, p), enterSupport(quiet, support),
                              Done([bd EXCEPT !.menu = menu])}
  BY <1>1, <1>3, <1>4 DEF offerChoice
<1> QED BY <1>6, <1>7, <1>8

LEMMA IllegalGood ==
  ASSUME NEW bd, Open(bd), NEW parts PROVE Good(postIllegal(bd, parts))
<1>1. PICK marks : marks = bd.illegal \cup {bd.builder.prov}
  OBVIOUS
<1>2. PICK new : new = [bd EXCEPT !.illegal = marks, !.menu = {}]
  OBVIOUS
<1>3. IsBoard(new) /\ new.menu = {} /\ new.builder = bd.builder
  BY <1>2 DEF Open, BoardOK, IsBoard
<1>4. BoardOK(new)
  BY <1>3 DEF Open, BoardOK, MenuOK
<1>5. Good(Post(new, bd.builder.prov, parts, "illegal"))
  BY <1>4, PostGood DEF Open, BoardOK, IsBuilder
<1> QED BY <1>1, <1>2, <1>5 DEF postIllegal

LEMMA OfferIllegalGood ==
  ASSUME NEW bd, Open(bd), NEW p PROVE Good(offerIllegal(bd, p))
<1>1. PICK menu : menu = {[act |-> "bluff", parts |-> <<"Move", p>>],
                          [act |-> "bluffSupport", src |-> occupantOf(p)]}
  OBVIOUS
<1>2. \A item \in menu : item.act # "coast"
  BY <1>1
<1>3. Good(Done([bd EXCEPT !.menu = menu]))
  BY <1>2, OtherMenu, DoneGood DEF Open
<1>4. /\ Good(postIllegal(bd, <<"Support", bd.builder.support.src, p>>))
      /\ Good(postIllegal(bd, <<"Move", p>>))
  BY IllegalGood
<1>5. offerIllegal(bd, p) \in {postIllegal(bd, <<"Support", bd.builder.support.src, p>>),
                               postIllegal(bd, <<"Move", p>>), Done([bd EXCEPT !.menu = menu])}
  BY <1>1 DEF offerIllegal
<1> QED BY <1>3, <1>4, <1>5

\* A new builder stands at the root of its unit's tree.
LEMMA NewBuilder ==
  ASSUME NEW p \in Shapes, NEW ph \in 1..Len(Kinds), NEW k, NEW e
  PROVE  LET b == Builder(p, Trees[ph][p], k, e)
         IN  IsBuilder(b) /\ b.tree = Trees[ph][p] /\ b.parts = <<>>
<1>1. PICK tree, short : tree = Trees[ph][p]
          /\ short = (k # "adjustment" /\ (Keys(tree, <<"Move">>) # {}
                        \/ (k = "movement" /\ Keys(tree, <<"Support">>) # {})))
  OBVIOUS
<1>2. PICK b : b = [prov |-> p, tree |-> tree, kind |-> k, epoch |-> e, parts |-> <<>>,
                    short |-> short, support |-> None]
  OBVIOUS
<1>3. IsBuilder(b) /\ b.tree = tree /\ b.parts = <<>>
  BY <1>1, <1>2 DEF IsBuilder
<1> QED BY <1>1, <1>2, <1>3 DEF Builder

LEMMA OpenedGood ==
  ASSUME NEW bd, BoardOK(bd), NEW p \in Shapes, NEW ph \in 1..Len(Kinds), NEW e
  PROVE  BoardOK(Opened(bd, p, Trees[ph][p], e))
<1>1. CASE Trees[ph][p] = {}
  BY <1>1, Quiet DEF Opened
<1>2. CASE Trees[ph][p] # {}
  <2>1. PICK b, new : b = Builder(p, Trees[ph][p], kind(bd), e)
                      /\ new = [bd EXCEPT !.menu = {}, !.builder = b]
    OBVIOUS
  <2>2. IsBuilder(b)
    BY <2>1, NewBuilder
  <2>3. IsBoard(new) /\ new.menu = {} /\ new.builder = b
    BY <2>1 DEF BoardOK, IsBoard
  <2> QED BY <1>2, <2>1, <2>2, <2>3 DEF Opened, BoardOK, MenuOK
<1> QED BY <1>1, <1>2

LEMMA AskGood ==
  ASSUME NEW bd, BoardOK(bd), NEW p \in Shapes, NEW why PROVE Good(AskOptions(bd, why, p))
<1>1. PICK e, new : e = bd.epoch + 1 /\ new = [bd EXCEPT !.epoch = e]
  OBVIOUS
<1>2. IsBoard(new) /\ new.menu = bd.menu /\ new.builder = bd.builder
  BY <1>1 DEF BoardOK, IsBoard
<1>3. BoardOK(new)
  BY <1>2 DEF BoardOK, MenuOK
<1>4. PICK call : call = [call |-> "options", why |-> why, prov |-> p, epoch |-> e,
                          since |-> bd.phase]
  OBVIOUS
<1>5. IsCall(call)
  BY <1>4 DEF IsCall, BoardOK, IsBoard
<1> QED BY <1>1, <1>3, <1>4, <1>5 DEF AskOptions, Good

LEMMA StartGood ==
  ASSUME NEW bd, BoardOK(bd), NEW p \in Shapes PROVE Good(startOrder(bd, p))
<1>1. CASE p \in Actionable(bd)
  <2>1. PICK e, new : e = bd.epoch + 1 /\ new = [bd EXCEPT !.epoch = e]
    OBVIOUS
  <2>2. IsBoard(new) /\ new.menu = bd.menu /\ new.builder = bd.builder
    BY <2>1 DEF BoardOK, IsBoard
  <2>3. BoardOK(new)
    BY <2>2 DEF BoardOK, MenuOK
  <2>4. bd.plan \in 1..Len(Kinds)
    BY DEF BoardOK, IsBoard
  <2>5. Good(Done(Opened(new, p, Trees[bd.plan][p], e)))
    BY <2>3, <2>4, OpenedGood, DoneGood
  <2> QED BY <1>1, <2>1, <2>5 DEF startOrder
<1>2. CASE p \notin Actionable(bd)
  BY <1>2, AskGood DEF startOrder
<1> QED BY <1>1, <1>2

LEMMA UnitsAreShapes ==
  ASSUME NEW bd, NEW p \in Shapes
  PROVE  actionableKey(bd, p) \in Shapes /\ (occupantOf(p) # None => occupantOf(p) \in Shapes)
<1>1. actionableKey(bd, p) \in Shapes
  <2>1. CASE p \notin Actionable(bd) /\ Cardinality(SameBase(Actionable(bd), p)) = 1
    <3>1. SameBase(Actionable(bd), p) # {}
      BY <2>1, FS_EmptySet
    <3>2. actionableKey(bd, p) \in SameBase(Actionable(bd), p)
      BY <2>1, <3>1 DEF actionableKey
    <3> QED BY <3>2 DEF SameBase
  <2>2. CASE ~(p \notin Actionable(bd) /\ Cardinality(SameBase(Actionable(bd), p)) = 1)
    BY <2>2 DEF actionableKey
  <2> QED BY <2>1, <2>2
<1>2. ASSUME occupantOf(p) # None PROVE occupantOf(p) \in Shapes
  <2>1. CASE p \in DOMAIN Units
    BY <2>1 DEF occupantOf
  <2>2. CASE p \notin DOMAIN Units
    <3>1. SameBase(DOMAIN Units, p) # {}
      BY <1>2, <2>2 DEF occupantOf
    <3>2. occupantOf(p) \in SameBase(DOMAIN Units, p)
      BY <2>2, <3>1 DEF occupantOf
    <3> QED BY <3>2 DEF SameBase
  <2> QED BY <2>1, <2>2
<1> QED BY <1>1, <1>2

LEMMA StartOverGood ==
  ASSUME NEW bd, BoardOK(bd), NEW p \in Shapes PROVE Good(StartOver(bd, p))
<1>1. PICK away, unit, put :
        /\ away = (kind(bd) # "movement")
        /\ unit = (IF away THEN actionableKey(bd, p) ELSE occupantOf(p))
        /\ put = (IF away THEN Shut(bd) ELSE [bd EXCEPT !.menu = {}])
  OBVIOUS
<1>2. BoardOK(put) /\ Good(Done(Shut(bd)))
  BY <1>1, Quiet, DoneGood
<1>3. ASSUME unit # None PROVE Good(startOrder(put, unit))
  <2>1. unit \in Shapes
    BY <1>1, <1>3, UnitsAreShapes
  <2> QED BY <1>2, <2>1, StartGood
<1>4. StartOver(bd, p) = IF unit = None \/ ~Allowed(bd, unit) THEN Done(Shut(bd))
                         ELSE startOrder(put, unit)
  BY <1>1 DEF StartOver
<1> QED BY <1>2, <1>3, <1>4

LEMMA HoldGood ==
  ASSUME NEW bd, BoardOK(bd), NEW unit \in Shapes PROVE Good(holdOrder(bd, unit))
BY Quiet, DoneGood, AskGood DEF holdOrder

\* Where the keys of a step come from.
LEMMA StepKeys ==
  ASSUME NEW bd, Open(bd), NEW b, b = bd.builder,
         NEW keys, keys = (IF shortcutMode(b) = "support" THEN Dests(b) ELSE Keys(b.tree, b.parts)),
         NEW head, head = (IF shortcutMode(b) = "support" THEN <<"Support", b.support.src>> ELSE b.parts)
  PROVE  Len(head) \in Nat /\ keys \subseteq Keys(b.tree, head)
<1>1. CASE shortcutMode(b) = "support"
  BY <1>1 DEF Dests
<1>2. CASE shortcutMode(b) # "support"
  BY <1>2 DEF Open, BoardOK, IsBuilder
<1> QED BY <1>1, <1>2

LEMMA ClickGood ==
  ASSUME NEW bd, BoardOK(bd), NEW p \in Shapes PROVE Good(onProvinceClick(bd, p))
<1>1. CASE bd.review
  BY <1>1, DoneGood DEF onProvinceClick
<1>2. CASE ~bd.review /\ bd.builder = None
  BY <1>2, StartOverGood DEF onProvinceClick
<1>3. CASE ~bd.review /\ bd.builder # None
  <2>1. Open(bd)
    BY <1>3 DEF Open
  <2>2. PICK b, mode : b = bd.builder /\ mode = shortcutMode(b)
    OBVIOUS
  <2>3. PICK keys : keys = IF shortcutMode(b) = "support" THEN Dests(b) ELSE Keys(b.tree, b.parts)
    OBVIOUS
  <2>4. PICK head : head = IF shortcutMode(b) = "support" THEN <<"Support", b.support.src>> ELSE b.parts
    OBVIOUS
  <2>5. Len(head) \in Nat /\ keys \subseteq Keys(bd.builder.tree, head)
    BY <2>1, <2>2, <2>3, <2>4, StepKeys
  <2>6. /\ Good(offerChoice(bd, p)) /\ Good(offerIllegal(bd, p)) /\ Good(StartOver(bd, p))
    BY <2>1, OfferGood, OfferIllegalGood, StartOverGood
  <2>7. Good(CoastMenu(bd, head, coastKeys(keys, p)))
    <3>1. coastKeys(keys, p) \subseteq Keys(bd.builder.tree, head)
      BY <2>5, CoastsAreKeys
    <3> QED BY <2>5, <3>1, CoastMenuGood
  <2>8. ASSUME matchingKey(keys, p) # None
        PROVE  Good(chooseInBranch(bd, head, matchingKey(keys, p)))
    <3>1. matchingKey(keys, p) \in Keys(bd.builder.tree, head)
      BY <2>5, <2>8, KeyMatched
    <3> QED BY <2>1, <2>5, <3>1, BranchGood DEF Open, BoardOK
  <2>9. onProvinceClick(bd, p) =
          IF mode = "pick"
          THEN IF Taken(b, p) THEN offerChoice(bd, p)
               ELSE IF Bluffs(bd, p) THEN offerIllegal(bd, p) ELSE StartOver(bd, p)
          ELSE IF coastKeys(keys, p) # {} THEN CoastMenu(bd, head, coastKeys(keys, p))
          ELSE IF matchingKey(keys, p) # None
               THEN chooseInBranch(bd, head, matchingKey(keys, p))
          ELSE IF Bluffs(bd, p) THEN offerIllegal(bd, p) ELSE StartOver(bd, p)
    BY <1>3, <2>2, <2>3, <2>4 DEF onProvinceClick
  <2> QED BY <2>6, <2>7, <2>8, <2>9
<1> QED BY <1>1, <1>2, <1>3

LEMMA ChoiceGood ==
  ASSUME NEW bd, Open(bd), NEW path \in builderChoices(bd.builder) PROVE Good(Walk(bd, path))
<1>1. PICK b, tree, parts : b = bd.builder /\ tree = b.tree /\ parts = b.parts
  OBVIOUS
<1>2. IsBuilder(b) /\ tree \subseteq Seq(Words) /\ Len(parts) \in Nat
  BY <1>1, TreeTyped DEF Open, BoardOK, IsBuilder
<1>3. PICK k \in Keys(tree, parts) :
        \/ path = <<k>>
        \/ \E t \in Keys(tree, parts \o <<k>>) : path = <<k, t>>
        \/ parts = <<>> /\ k = "Move" /\ \E d \in MoveKeys(b) : path = <<k, d>>
  BY <1>1 DEF builderChoices
<1>4. /\ parts \in Seq(Words) /\ k \in Words
      /\ parts \o <<k>> \in Seq(Words) /\ Len(parts \o <<k>>) = Len(parts) + 1
      /\ Reached(tree, parts \o <<k>>)
  BY <1>2, HeadOfAnOrder
<1>5. Len(parts \o path) \in Nat /\ Reached(tree, parts \o path)
  <2>1. CASE path = <<k>>
    BY <1>2, <1>4, <2>1
  <2>2. ASSUME NEW t \in Keys(tree, parts \o <<k>>), path = <<k, t>>
        PROVE  Len(parts \o path) \in Nat /\ Reached(tree, parts \o path)
    <3>1. PICK longer : longer = parts \o <<k>>
      OBVIOUS
    <3>2. Len(longer) \in Nat /\ t \in Keys(tree, longer)
      BY <1>2, <1>4, <2>2, <3>1
    <3>3. /\ t \in Words /\ Len(longer \o <<t>>) = Len(longer) + 1
          /\ Reached(tree, longer \o <<t>>)
      BY <1>2, <3>2, HeadOfAnOrder
    <3>4. parts \o path = longer \o <<t>>
      BY <1>4, <2>2, <3>1, <3>3, TwoSteps
    <3> QED BY <3>2, <3>3, <3>4
  <2>3. ASSUME parts = <<>>, k = "Move", NEW d \in MoveKeys(b), path = <<k, d>>
        PROVE  Len(parts \o path) \in Nat /\ Reached(tree, parts \o path)
    <3>1. parts \o <<k>> = <<"Move">>
      BY <2>3
    <3>2. d \in Keys(tree, parts \o <<k>>)
      BY <1>1, <2>3, <3>1 DEF MoveKeys
    <3> QED BY <2>2, <2>3, <3>2
  <2> QED BY <1>3, <2>1, <2>2, <2>3
<1> QED BY <1>1, <1>2, <1>5, WalkGood DEF Open, BoardOK

-------------------------------------------------------------------------------
(* The steps.                                                              *)

LEMMA OrdersInit == BoardInit => OrdersInv
<1> SUFFICES ASSUME BoardInit PROVE OrdersInv
  OBVIOUS
<1>1. 1 \in 1..Len(Kinds)
  BY OrdersAssumption
<1>2. IsBoard(board) /\ board.builder = None /\ board.menu = {}
  BY <1>1 DEF BoardInit, IsBoard
<1>3. orderDesk.phase = 1 /\ orderCalls = {}
  BY DEF BoardInit
<1> QED BY <1>1, <1>2, <1>3 DEF OrdersInv, BoardOK, MenuOK

\* What a handler returns is put in place of the board.
LEMMA Handled ==
  ASSUME OrdersInv, NEW result, Good(result), Handle(result) PROVE OrdersInv'
<1>1. PICK n, nb : n = result.board.taps + 1 /\ nb = [result.board EXCEPT !.taps = n]
  OBVIOUS
<1>2. IsBoard(nb) /\ nb.menu = result.board.menu /\ nb.builder = result.board.builder
  BY <1>1 DEF Good, BoardOK, IsBoard
<1>3. BoardOK(nb)
  BY <1>2 DEF Good, BoardOK, MenuOK
<1>4. board' = nb /\ orderCalls' = orderCalls \cup result.send /\ orderDesk' = orderDesk
  BY <1>1 DEF Handle
<1>5. BoardOK(board')
  BY <1>3, <1>4
<1>6. \A c \in orderCalls' : IsCall(c)
  BY <1>4 DEF OrdersInv, Good
<1> QED BY <1>4, <1>5, <1>6 DEF OrdersInv

\* The board with another last tap.
LEMMA Tapped ==
  ASSUME NEW bd, BoardOK(bd), NEW p PROVE BoardOK([bd EXCEPT !.last = p])
<1>1. PICK nb : nb = [bd EXCEPT !.last = p]
  OBVIOUS
<1>2. IsBoard(nb) /\ nb.menu = bd.menu /\ nb.builder = bd.builder
  BY <1>1 DEF BoardOK, IsBoard
<1> QED BY <1>1, <1>2 DEF BoardOK, MenuOK

LEMMA MenuPicked ==
  ASSUME OrdersInv, NEW item \in board.menu, PickFromMenu(item) PROVE OrdersInv'
<1>1. PICK shut : shut = [board EXCEPT !.menu = {}]
  OBVIOUS
<1>2. /\ BoardOK(board) /\ board.builder # None /\ BoardOK(shut)
      /\ shut.builder = board.builder /\ Open(shut)
  BY <1>1, Quiet DEF PickFromMenu, OrdersInv, Open
<1>3. CASE item.act = "attack"
  <2>1. Handle(takeMove(shut, item.at))
    BY <1>1, <1>3 DEF PickFromMenu
  <2> QED BY <1>2, <2>1, TakeMoveGood, Handled
<1>4. CASE item.act = "support"
  <2>1. Handle(enterSupport(shut, item.src))
    BY <1>1, <1>4 DEF PickFromMenu
  <2> QED BY <1>2, <2>1, SupportGood, Handled
<1>5. CASE item.act = "coast"
  <2>1. Handle(chooseInBranch(shut, item.head, item.key))
    BY <1>1, <1>5 DEF PickFromMenu
  <2>2. Len(item.head) \in Nat /\ item.key \in Keys(shut.builder.tree, item.head)
    BY <1>2, <1>5 DEF BoardOK, MenuOK
  <2>3. IsBoard(shut) /\ IsBuilder(shut.builder)
    BY <1>2 DEF Open, BoardOK
  <2>4. Good(chooseInBranch(shut, item.head, item.key))
    BY <2>2, <2>3, BranchGood
  <2> QED BY <2>1, <2>4, Handled
<1>6. CASE item.act = "bluff"
  <2>1. Handle(postIllegal(shut, item.parts))
    BY <1>1, <1>6 DEF PickFromMenu
  <2> QED BY <1>2, <2>1, IllegalGood, Handled
<1>7. CASE item.act \notin {"attack", "support", "coast", "bluff"}
  <2>1. PICK support : support = [src |-> item.src, legal |-> FALSE]
    OBVIOUS
  <2>2. PICK b : b = [shut.builder EXCEPT !.support = support]
    OBVIOUS
  <2>3. PICK new : new = [shut EXCEPT !.builder = b]
    OBVIOUS
  <2>4. Handle(Done(new))
    BY <1>1, <1>7, <2>1, <2>2, <2>3 DEF PickFromMenu
  <2>5. IsBuilder(b)
    BY <1>2, <2>2 DEF Open, BoardOK, IsBuilder
  <2>6. IsBoard(new) /\ new.builder = b /\ new.menu = shut.menu
    BY <1>2, <2>3 DEF BoardOK, IsBoard
  <2>7. shut.menu = {}
    BY <1>1, <1>2 DEF BoardOK, IsBoard
  <2>8. Good(Done(new))
    BY <2>5, <2>6, <2>7, DoneGood DEF BoardOK, MenuOK
  <2> QED BY <2>4, <2>8, Handled
<1> QED BY <1>3, <1>4, <1>5, <1>6, <1>7

LEMMA Escaped == ASSUME OrdersInv, escape PROVE OrdersInv'
<1>1. CASE board.menu # {}
  BY <1>1, Quiet, DoneGood, Handled DEF escape, OrdersInv
<1>2. CASE board.menu = {} /\ board.builder # None /\ board.builder.support # None
  <2>1. PICK b, new : b = [board.builder EXCEPT !.support = None] /\ new = [board EXCEPT !.builder = b]
    OBVIOUS
  <2>2. IsBuilder(b)
    BY <1>2, <2>1 DEF OrdersInv, BoardOK, IsBuilder
  <2>3. IsBoard(new) /\ new.builder = b /\ new.menu = board.menu
    BY <2>1 DEF OrdersInv, BoardOK, IsBoard
  <2>4. Good(Done(new))
    BY <1>2, <2>2, <2>3, DoneGood DEF BoardOK, MenuOK
  <2>5. Handle(Done(new))
    BY <1>2, <2>1 DEF escape
  <2> QED BY <2>4, <2>5, Handled
<1>3. CASE board.menu = {} /\ ~(board.builder # None /\ board.builder.support # None)
  BY <1>3, Quiet, DoneGood, Handled DEF escape, OrdersInv
<1> QED BY <1>1, <1>2, <1>3

LEMMA Cancelled ==
  ASSUME OrdersInv, NEW p \in Shapes, NEW why \in {"cancel", "change"}, cancelOrder(p, why)
  PROVE  OrdersInv'
<1>1. PICK kept : kept = IF board.builder # None /\ board.builder.prov = p THEN Shut(board)
                         ELSE [board EXCEPT !.menu = {}]
  OBVIOUS
<1>2. BoardOK(kept) /\ kept.menu = {}
  <2>1. IsBoard(board) /\ BoardOK(board)
    BY DEF OrdersInv, BoardOK
  <2>2. PICK x : x = [board EXCEPT !.menu = {}]
    OBVIOUS
  <2>3. x.menu = {}
    BY <2>1, <2>2 DEF IsBoard
  <2> QED BY <1>1, <2>1, <2>2, <2>3, Quiet
<1>3. PICK posted : posted = Post(kept, p, <<>>, why)
  OBVIOUS
<1>4. Good(posted) /\ posted.board = [kept EXCEPT !.builder = None]
  BY <1>2, <1>3, PostGood
<1>5. PICK b, result : b = kept.builder /\ result = [posted EXCEPT !.board.builder = b]
  OBVIOUS
<1>6. posted = [board |-> posted.board, send |-> posted.send]
  BY <1>3 DEF Post
<1>7. PICK nb : nb = [posted.board EXCEPT !.builder = b]
  OBVIOUS
<1>8. result.board = nb /\ result.send = posted.send
  BY <1>5, <1>6, <1>7
<1>9. IsBoard(nb) /\ nb.builder = b /\ nb.menu = {}
  <2>1. PICK x : x = [kept EXCEPT !.builder = None]
    OBVIOUS
  <2>2. IsBoard(x) /\ x.menu = {}
    BY <1>2, <2>1 DEF BoardOK, IsBoard
  <2>3. nb = [x EXCEPT !.builder = b]
    BY <1>4, <1>7, <2>1
  <2> QED BY <2>2, <2>3 DEF IsBoard
<1>10. Good(result)
  BY <1>2, <1>4, <1>5, <1>8, <1>9 DEF Good, BoardOK, MenuOK
<1>11. Handle(result)
  BY <1>1, <1>3, <1>5 DEF cancelOrder
<1> QED BY <1>10, <1>11, Handled

LEMMA GestureKeeps == ASSUME OrdersInv, Gesture PROVE OrdersInv'
<1>1. ASSUME NEW p \in Shapes, Tap(p) PROVE OrdersInv'
  BY <1>1, Tapped, ClickGood, Handled DEF Tap, OrdersInv
<1>2. ASSUME NEW p \in Shapes, DoubleTap(p) PROVE OrdersInv'
  <2>1. BoardOK([Shut(board) EXCEPT !.last = None])
    BY Quiet, Tapped DEF OrdersInv
  <2> QED BY <1>2, <2>1, UnitsAreShapes, HoldGood, Handled DEF DoubleTap
<1>3. ASSUME NEW item \in board.menu, PickFromMenu(item) PROVE OrdersInv'
  BY <1>3, MenuPicked
<1>4. ASSUME Take PROVE OrdersInv'
  <2>1. Open(board)
    BY <1>4 DEF Take, Open, OrdersInv
  <2> QED BY <1>4, <2>1, ChoiceGood, Handled DEF Take
<1> QED BY <1>1, <1>2, <1>3, <1>4, Escaped, Cancelled DEF Gesture

\* What an answer's handler returns, its call being over.
LEMMA Settled ==
  ASSUME OrdersInv, NEW result, Good(result), NEW call,
         board' = result.board, orderCalls' = (orderCalls \ {call}) \cup result.send,
         UNCHANGED orderDesk
  PROVE  OrdersInv'
<1>1. BoardOK(board')
  BY DEF Good
<1>2. \A c \in orderCalls' : IsCall(c)
  BY DEF Good, OrdersInv
<1> QED BY <1>1, <1>2 DEF OrdersInv

LEMMA OptionsKeep ==
  ASSUME OrdersInv, NEW call \in orderCalls, OptionsAnswered(call) PROVE OrdersInv'
<1>1. call.prov \in Shapes /\ call.since \in 1..Len(Kinds) /\ orderDesk.phase \in 1..Len(Kinds)
  BY DEF OptionsAnswered, OrdersInv, IsCall
<1>2. PICK ph \in call.since .. orderDesk.phase :
       LET tree == Trees[ph][call.prov]
           opened == [board EXCEPT !.builder = Builder(call.prov, tree, "none", call.epoch)]
           result == IF ~Current(call) THEN Done(board)
                     ELSE IF call.why = "start"
                          THEN Done(Opened(board, call.prov, tree, call.epoch))
                     ELSE IF "Hold" \in Keys(tree, <<>>) THEN Walk(opened, <<"Hold">>)
                     ELSE Done(board)
       IN  /\ board' = result.board
           /\ orderCalls' = (orderCalls \ {call}) \cup result.send
  BY DEF OptionsAnswered
<1>3. ph \in 1..Len(Kinds)
  BY <1>1, OrdersAssumption
<1>4. PICK tree, b, opened :
        /\ tree = Trees[ph][call.prov] /\ b = Builder(call.prov, tree, "none", call.epoch)
        /\ opened = [board EXCEPT !.builder = b]
  OBVIOUS
<1>5. BoardOK(board) /\ IsBoard(board)
  BY DEF OrdersInv, BoardOK
<1>6. IsBuilder(b) /\ b.tree = tree /\ b.parts = <<>>
  <2>1. PICK prov, k, e : prov = call.prov /\ k = "none" /\ e = call.epoch
    OBVIOUS
  <2>2. prov \in Shapes /\ b = Builder(prov, Trees[ph][prov], k, e) /\ tree = Trees[ph][prov]
    BY <1>1, <1>4, <2>1
  <2> QED BY <1>3, <2>2, NewBuilder
<1>7. IsBoard(opened) /\ opened.builder = b
  BY <1>4, <1>5 DEF IsBoard
<1>8. ASSUME "Hold" \in Keys(tree, <<>>) PROVE Good(Walk(opened, <<"Hold">>))
  <2>1. PICK none : none = <<>>
    OBVIOUS
  <2>2. Len(none) \in Nat /\ "Hold" \in Keys(tree, none) /\ tree \subseteq Seq(Words)
    BY <1>6, <1>8, <2>1, TreeTyped
  <2>3. Len(none \o <<"Hold">>) \in Nat /\ Reached(tree, none \o <<"Hold">>)
    BY <2>2, HeadOfAnOrder
  <2> QED BY <1>6, <1>7, <2>1, <2>3, WalkGood
<1>9. Good(Done(board)) /\ Good(Done(Opened(board, call.prov, tree, call.epoch)))
  BY <1>1, <1>3, <1>4, <1>5, DoneGood, OpenedGood
<1>10. PICK result :
         result = IF ~Current(call) THEN Done(board)
                  ELSE IF call.why = "start"
                       THEN Done(Opened(board, call.prov, tree, call.epoch))
                  ELSE IF "Hold" \in Keys(tree, <<>>) THEN Walk(opened, <<"Hold">>)
                  ELSE Done(board)
  OBVIOUS
<1>11. Good(result)
  BY <1>8, <1>9, <1>10
<1>12. board' = result.board /\ orderCalls' = (orderCalls \ {call}) \cup result.send
  BY <1>2, <1>4, <1>10
<1>13. UNCHANGED orderDesk
  BY DEF OptionsAnswered
<1> QED BY <1>11, <1>12, <1>13, Settled

LEMMA ServedKeeps ==
  ASSUME OrdersInv, NEW call \in orderCalls, OrderServed(call) PROVE OrdersInv'
<1>1. IsCall(call) /\ call.call = "order"
  BY DEF OrderServed, OrdersInv
<1>2. PICK held : held = [orderDesk.orders EXCEPT ![call.prov] = call.parts]
  OBVIOUS
<1>3. orderDesk' = [orderDesk EXCEPT !.orders = held]
  BY <1>2 DEF OrderServed
<1>4. orderDesk'.phase = orderDesk.phase
  BY <1>3
<1>5. PICK new : new = [call EXCEPT !.reply = orderDesk']
  OBVIOUS
<1>6. IsCall(new)
  BY <1>1, <1>4, <1>5 DEF IsCall, OrdersInv
<1>7. orderCalls' = (orderCalls \ {call}) \cup {new} /\ board' = board
  BY <1>5 DEF OrderServed
<1> QED BY <1>4, <1>6, <1>7 DEF OrdersInv

\* The board with other orders and marks.
LEMMA BoardTold ==
  ASSUME NEW bd, BoardOK(bd), NEW orders, NEW ph \in 1..Len(Kinds), NEW marks
  PROVE  /\ BoardOK([bd EXCEPT !.orders = orders, !.phase = ph, !.illegal = marks])
         /\ BoardOK([bd EXCEPT !.illegal = marks])
<1>1. PICK x, y : x = [bd EXCEPT !.orders = orders, !.phase = ph, !.illegal = marks]
                  /\ y = [bd EXCEPT !.illegal = marks]
  OBVIOUS
<1>2. IsBoard(x) /\ x.menu = bd.menu /\ x.builder = bd.builder
  BY <1>1 DEF BoardOK, IsBoard
<1>3. IsBoard(y) /\ y.menu = bd.menu /\ y.builder = bd.builder
  BY <1>1 DEF BoardOK, IsBoard
<1> QED BY <1>1, <1>2, <1>3 DEF BoardOK, MenuOK

LEMMA AnswerKeeps ==
  ASSUME OrdersInv, NEW call \in orderCalls, OrderAnswered(call) PROVE OrdersInv'
<1>1. /\ call.prov \in Shapes /\ call.reply.phase \in 1..Len(Kinds) /\ BoardOK(board)
  BY DEF OrderAnswered, OrdersInv, IsCall
<1>2. PICK bd, taken : bd = Unmarked(board, call) /\ taken = AnswerTaken(board, call)
  OBVIOUS
<1>3. BoardOK(bd)
  BY <1>1, <1>2, BoardTold DEF Unmarked
<1>4. BoardOK(taken)
  BY <1>1, <1>2, <1>3, BoardTold DEF AnswerTaken
<1>5. PICK result : result = IF call.why = "change" THEN startOrder(taken, call.prov) ELSE Done(taken)
  OBVIOUS
<1>6. Good(result)
  BY <1>1, <1>4, <1>5, StartGood, DoneGood
<1>7. /\ board' = result.board /\ orderCalls' = (orderCalls \ {call}) \cup result.send
      /\ UNCHANGED orderDesk
  BY <1>2, <1>5 DEF OrderAnswered
<1> QED BY <1>6, <1>7, Settled

LEMMA FailureKeeps ==
  ASSUME OrdersInv, NEW call \in orderCalls, OrderFailed(call) PROVE OrdersInv'
<1>1. call.prov \in Shapes /\ BoardOK(board)
  BY DEF OrderFailed, OrdersInv, IsCall
<1>2. PICK bd : bd = IF call.why = "illegal" THEN [board EXCEPT !.illegal = @ \ {call.prov}] ELSE board
  OBVIOUS
<1>3. BoardOK(bd)
  <2>1. PICK marks : marks = board.illegal \ {call.prov}
    OBVIOUS
  <2>2. 1 \in 1..Len(Kinds)
    BY OrdersAssumption
  <2>3. BoardOK([board EXCEPT !.illegal = marks])
    BY <1>1, <2>2, BoardTold
  <2> QED BY <1>1, <1>2, <2>1, <2>3
<1>4. PICK result : result = IF call.why = "change" THEN startOrder(bd, call.prov) ELSE Done(bd)
  OBVIOUS
<1>5. Good(result)
  BY <1>1, <1>3, <1>4, StartGood, DoneGood
<1>6. /\ board' = result.board /\ orderCalls' = (orderCalls \ {call}) \cup result.send
      /\ UNCHANGED orderDesk
  BY <1>2, <1>4 DEF OrderFailed
<1> QED BY <1>5, <1>6, Settled

LEMMA UpdateKeeps ==
  ASSUME OrdersInv, NEW state, state.phase \in 1..Len(Kinds), NEW plan \in 1..Len(Kinds),
         Update(state, plan)
  PROVE  OrdersInv'
<1>1. PICK bd : bd = IF Kinds[plan] # Kinds[board.plan] THEN Shut(board) ELSE board
  OBVIOUS
<1>2. BoardOK(bd)
  BY <1>1, Quiet DEF OrdersInv
<1>3. PICK marks : marks = Kept(bd, state.orders)
  OBVIOUS
<1>4. PICK new : new = [bd EXCEPT !.phase = state.phase, !.orders = state.orders, !.plan = plan,
                                  !.illegal = marks]
  OBVIOUS
<1>5. IsBoard(new) /\ new.menu = bd.menu /\ new.builder = bd.builder
  BY <1>2, <1>4 DEF BoardOK, IsBoard
<1>6. BoardOK(new)
  BY <1>2, <1>5 DEF BoardOK, MenuOK
<1>7. board' = new /\ UNCHANGED <<orderCalls, orderDesk>>
  BY <1>1, <1>3, <1>4 DEF Update
<1> QED BY <1>6, <1>7 DEF OrdersInv

LEMMA ReviewKeeps ==
  ASSUME OrdersInv, NEW on \in BOOLEAN, showReview(on) PROVE OrdersInv'
<1>1. PICK bd : bd = IF on THEN Shut(board) ELSE board
  OBVIOUS
<1>2. BoardOK(bd)
  BY <1>1, Quiet DEF OrdersInv
<1>3. PICK new : new = [bd EXCEPT !.review = on]
  OBVIOUS
<1>4. IsBoard(new) /\ new.menu = bd.menu /\ new.builder = bd.builder
  BY <1>2, <1>3 DEF BoardOK, IsBoard
<1>5. BoardOK(new)
  BY <1>2, <1>4 DEF BoardOK, MenuOK
<1>6. board' = new /\ UNCHANGED <<orderCalls, orderDesk>>
  <2>1. CASE on
    BY <1>1, <1>3, <2>1 DEF showReview
  <2>2. CASE ~on
    BY <1>1, <1>3, <2>2 DEF showReview
  <2> QED BY <2>1, <2>2
<1> QED BY <1>5, <1>6 DEF OrdersInv

LEMMA OrdersStep == OrdersInv /\ [BoardNext]_boardVars => OrdersInv'
<1> SUFFICES ASSUME OrdersInv, [BoardNext]_boardVars PROVE OrdersInv'
  OBVIOUS
<1>1. CASE UNCHANGED boardVars
  BY <1>1 DEF boardVars, OrdersInv
<1>2. ASSUME NEW call \in orderCalls, OptionsFailed(call) PROVE OrdersInv'
  BY <1>2 DEF OptionsFailed, OrdersInv
<1>3. CASE StateRead
  BY <1>3, UpdateKeeps DEF StateRead, OrdersInv, BoardOK, IsBoard
<1>4. CASE PlanRead
  <2>1. PICK state : state = [phase |-> board.phase, orders |-> board.orders]
    OBVIOUS
  <2>2. state.phase \in 1..Len(Kinds) /\ board.phase \in 1..Len(Kinds)
    BY <2>1 DEF OrdersInv, BoardOK, IsBoard
  <2> QED BY <1>4, <2>1, <2>2, UpdateKeeps DEF PlanRead
<1>5. CASE PhaseAdvances
  <2>1. orderDesk'.phase = orderDesk.phase + 1 /\ orderDesk.phase < Len(Kinds)
        /\ UNCHANGED <<board, orderCalls>>
    BY <1>5 DEF PhaseAdvances
  <2>2. orderDesk'.phase \in 1..Len(Kinds)
    BY <2>1, OrdersAssumption DEF OrdersInv
  <2> QED BY <2>1, <2>2 DEF OrdersInv
<1> QED BY <1>1, <1>2, <1>3, <1>4, <1>5, GestureKeeps, OptionsKeep, ServedKeeps, AnswerKeeps,
           FailureKeeps, ReviewKeeps DEF BoardNext

-------------------------------------------------------------------------------
(* What is lit.                                                            *)

LEMMA KeysCount ==
  ASSUME NEW keys, NEW key \in keys, key \in Shapes, NEW s \in provinceShapes(key)
  PROVE  matchingKey(keys, s) # None
<1>1. s \in Shapes /\ (s = key \/ Base[s] = key)
  BY DEF provinceShapes
<1>2. CASE s \in keys
  BY <1>1, <1>2, OrdersAssumption DEF matchingKey
<1>3. CASE s \notin keys
  <2>1. Base[s] = key
    BY <1>1, <1>3
  <2> QED BY <1>3, <2>1, OrdersAssumption DEF matchingKey
<1> QED BY <1>2, <1>3

LEMMA LitAnswer == LitShapesAnswer
<1> SUFFICES ASSUME board.builder # None, NEW key \in highlightKeys(board.builder),
                    NEW s \in provinceShapes(key)
             PROVE  Taken(board.builder, s)
  BY DEF LitShapesAnswer
<1>1. PICK b : b = board.builder
  OBVIOUS
<1>2. CASE shortcutMode(b) = "support"
  BY <1>1, <1>2, KeysCount DEF highlightKeys, Taken
<1>3. CASE shortcutMode(b) = "pick"
  BY <1>1, <1>3, KeysCount DEF highlightKeys, Taken
<1>4. CASE shortcutMode(b) \notin {"support", "pick"}
  BY <1>1, <1>4, KeysCount DEF highlightKeys, Taken
<1> QED BY <1>2, <1>3, <1>4

\* For every map and every tree of options, however late its answers are: a
\* shape that is lit takes a tap, and an order that was tapped together is one
\* the server offered (onProvinceClick, matchingKey, chooseOption, applyPath).
THEOREM TapsStayInTheTree == BoardSpec => []TapsSpeakTheTree
<1>1. OrdersInv => TapsSpeakTheTree
  BY LitAnswer DEF OrdersInv, IsCall, PostsAreOffered, TapsSpeakTheTree
<1> QED BY <1>1, OrdersInit, OrdersStep, PTL DEF BoardSpec

-------------------------------------------------------------------------------
(* TableBoard: what stands on the table is the game's position, but for    *)
(* the acts that are left, a piece that is still to go or still to come,   *)
(* and for the pieces astray, of which nothing is known.  No two acts of a *)
(* guide move the same piece.                                              *)

Adding == {"move", "retreat", "place"}
Taking == {"move", "stand", "remove"}
Clearing == {"retreat", "take"}

GuideActs == refereeGuide(record)
ActsLeft == {a \in GuideActs : a.id \notin acted}

ToCome(p, w) == \E a \in ActsLeft : a.doing \in Adding /\ a.to = p /\ a.power = w
ToGo(p, w) == \E a \in ActsLeft : a.doing \in Taking /\ a.from = p /\ a.power = w
ToClear(p, w) == \E a \in ActsLeft : a.doing \in Clearing /\ a.from = p /\ a.power = w
ToStand(p, w) == \E a \in ActsLeft : a.doing = "stand" /\ a.from = p /\ a.power = w
ToRule(w) == \E a \in ActsLeft : a.doing = "note" /\ a.power = w

One(b) == IF b THEN 1 ELSE 0

\* Each act does what the game did, but for the failed orders of an adjustment.
ActFits(a) ==
  /\ a.doing \in Adding \cup Taking \cup Clearing \cup {"note"}
  /\ a.power \in Player
  /\ a.doing # "note" => a.from \in Province /\ a.to \in Province
  /\ a.doing = "place" => a.from = a.to
  /\ a.doing = "note" => a.group = "stays" /\ a.power \in record.nmr
  /\ a.group = "stays" => a.doing = "note"
  /\ a.doing \in Adding /\ <<a.to, a.power>> \notin astray => position[a.to] = a.power
  /\ a.doing \in Clearing => record.kind = "retreat" /\ a.power \notin record.nmr
  /\ a.doing = "stand" => record.kind = "movement" /\ dislodged[a.from] = a.power
  /\ a.doing # "note" /\ record.kind = "adjustment" => a.power \notin record.nmr

ActsApart(a, b) ==
  \/ a = b
  \/ /\ a.id # b.id
     /\ a.doing \in Adding /\ b.doing \in Adding => a.to # b.to
     /\ a.doing \in Taking /\ b.doing \in Taking => a.from # b.from
     /\ a.doing \in Clearing /\ b.doing \in Clearing => a.from # b.from

GuideFits ==
  /\ \A a \in GuideActs : ActFits(a)
  /\ \A a, b \in GuideActs : ActsApart(a, b)
  /\ record.kind = "retreat" => dislodged = NoUnits
  /\ record.kind = "adjustment" =>
       \A p \in Province : record.ruled[p] # Nobody => position[p] = Nobody

TableCounts ==
  \A p \in Province, w \in Player :
    <<p, w>> \notin astray /\ ~(record.kind = "adjustment" /\ record.ruled[p] = w /\ ToRule(w)) =>
      table[p][w] = One(position[p] = w) + One(ToGo(p, w)) - One(ToCome(p, w))

AsideCounts ==
  \A p \in Province, w \in Player :
    <<p, w>> \notin astray /\ ~(record.kind = "retreat" /\ ToRule(w)) =>
      aside[p][w] = One(dislodged[p] = w) + One(ToClear(p, w)) - One(ToStand(p, w))

Tally == [Province -> [Player -> Int]]

TableTyped ==
  /\ position \in [Province -> Player \cup {Nobody}]
  /\ dislodged \in [Province -> Player \cup {Nobody}]
  /\ table \in Tally /\ aside \in Tally
  /\ done \subseteq acted

TableInv == TableTyped /\ GuideFits /\ TableCounts /\ AsideCounts

Takes(a, p, w) == a.doing \in Taking /\ a.from = p /\ a.power = w
Adds(a, p, w) == a.doing \in Adding /\ a.to = p /\ a.power = w
Clears(a, p, w) == a.doing \in Clearing /\ a.from = p /\ a.power = w
Raises(a, p, w) == a.doing = "stand" /\ a.from = p /\ a.power = w

-------------------------------------------------------------------------------
(* The hands.                                                              *)

LEMMA ShiftAt ==
  ASSUME NEW of \in Tally, NEW p \in Province, NEW w \in Player, NEW n \in Int
  PROVE  /\ Shift(of, p, w, n) \in Tally
         /\ \A q \in Province, v \in Player :
              /\ of[q][v] \in Int
              /\ ~(q = p /\ v = w) => Shift(of, p, w, n)[q][v] = of[q][v]
         /\ of[p][w] + n >= 0 => Shift(of, p, w, n)[p][w] = of[p][w] + n
<1>1. of[p][w] \in Int /\ of[p] \in [Player -> Int]
  BY DEF Tally
<1>2. PICK m : m = IF of[p][w] + n < 0 THEN 0 ELSE of[p][w] + n
  OBVIOUS
<1>3. m \in Int /\ (of[p][w] + n >= 0 => m = of[p][w] + n)
  BY <1>1, <1>2
<1>4. Shift(of, p, w, n) = [of EXCEPT ![p] = [of[p] EXCEPT ![w] = m]]
  BY <1>2 DEF Shift
<1> QED BY <1>1, <1>3, <1>4 DEF Tally

LEMMA OneTaken ==
  ASSUME NEW of \in Tally, NEW p \in Province, NEW w \in Player, NEW new,
         new = Shift(of, p, w, -1)
  PROVE  /\ new \in Tally
         /\ \A q \in Province, v \in Player :
              of[q][v] \in Int /\ (~(q = p /\ v = w) => new[q][v] = of[q][v])
         /\ of[p][w] >= 1 => new[p][w] = of[p][w] - 1
<1>1. PICK n : n = -1
  OBVIOUS
<1>2. of[p][w] \in Int /\ n \in Int
  BY <1>1 DEF Tally
<1>3. /\ Shift(of, p, w, n) \in Tally
      /\ \A q \in Province, v \in Player :
           /\ of[q][v] \in Int
           /\ ~(q = p /\ v = w) => Shift(of, p, w, n)[q][v] = of[q][v]
      /\ of[p][w] + n >= 0 => Shift(of, p, w, n)[p][w] = of[p][w] + n
  BY <1>2, ShiftAt
<1> QED BY <1>1, <1>2, <1>3

LEMMA OneAdded ==
  ASSUME NEW of \in Tally, NEW p \in Province, NEW w \in Player, NEW new,
         new = Shift(of, p, w, 1)
  PROVE  /\ new \in Tally
         /\ \A q \in Province, v \in Player :
              of[q][v] \in Int /\ (~(q = p /\ v = w) => new[q][v] = of[q][v])
         /\ of[p][w] >= 0 => new[p][w] = of[p][w] + 1
<1>1. of[p][w] \in Int /\ 1 \in Int
  BY DEF Tally
<1>2. /\ Shift(of, p, w, 1) \in Tally
      /\ \A q \in Province, v \in Player :
           /\ of[q][v] \in Int
           /\ ~(q = p /\ v = w) => Shift(of, p, w, 1)[q][v] = of[q][v]
      /\ of[p][w] + 1 >= 0 => Shift(of, p, w, 1)[p][w] = of[p][w] + 1
  BY <1>1, ShiftAt
<1> QED BY <1>1, <1>2

LEMMA LeftAfter ==
  ASSUME TableInv, NEW a \in GuideActs, Push(a)
  PROVE  /\ a \in ActsLeft /\ ActsLeft' = ActsLeft \ {a} /\ GuideFits'
         /\ UNCHANGED <<record, position, dislodged, astray>> /\ done' \subseteq acted'
<1>1. UNCHANGED <<record, position, dislodged, astray>> /\ acted' = acted \cup {a.id}
      /\ a.id \notin acted /\ done' \subseteq acted'
  BY DEF Push, TableInv, TableTyped
<1>2. GuideActs' = GuideActs
  BY <1>1 DEF GuideActs
<1>3. \A b \in GuideActs : b.id = a.id => b = a
  BY DEF TableInv, GuideFits, ActsApart
<1>4. a \in ActsLeft /\ ActsLeft' = ActsLeft \ {a}
  BY <1>1, <1>2, <1>3 DEF ActsLeft
<1>5. GuideFits'
  BY <1>1, <1>2 DEF TableInv, GuideFits, ActFits, NoUnits
<1> QED BY <1>1, <1>4, <1>5

LEMMA LeftCounts ==
  ASSUME TableInv, NEW a \in GuideActs, Push(a), NEW p \in Province, NEW w \in Player
  PROVE  /\ One(ToGo(p, w)') = One(ToGo(p, w)) - One(Takes(a, p, w))
         /\ One(ToCome(p, w)') = One(ToCome(p, w)) - One(Adds(a, p, w))
         /\ One(ToClear(p, w)') = One(ToClear(p, w)) - One(Clears(a, p, w))
         /\ One(ToStand(p, w)') = One(ToStand(p, w)) - One(Raises(a, p, w))
<1>1. a \in ActsLeft /\ ActsLeft' = ActsLeft \ {a} /\ ActsLeft \subseteq GuideActs
  BY LeftAfter DEF ActsLeft
<1>2. \A b \in ActsLeft : b # a => ActsApart(a, b)
  BY <1>1 DEF TableInv, GuideFits
<1>3. /\ ToGo(p, w) <=> ToGo(p, w)' \/ Takes(a, p, w)
      /\ ~(ToGo(p, w)' /\ Takes(a, p, w))
  BY <1>1, <1>2 DEF ToGo, Takes, ActsApart
<1>4. /\ ToCome(p, w) <=> ToCome(p, w)' \/ Adds(a, p, w)
      /\ ~(ToCome(p, w)' /\ Adds(a, p, w))
  BY <1>1, <1>2 DEF ToCome, Adds, ActsApart
<1>5. /\ ToClear(p, w) <=> ToClear(p, w)' \/ Clears(a, p, w)
      /\ ~(ToClear(p, w)' /\ Clears(a, p, w))
  BY <1>1, <1>2 DEF ToClear, Clears, ActsApart
<1>6. /\ ToStand(p, w) <=> ToStand(p, w)' \/ Raises(a, p, w)
      /\ ~(ToStand(p, w)' /\ Raises(a, p, w))
  BY <1>1, <1>2 DEF ToStand, Raises, ActsApart, Taking
<1>7. One(ToGo(p, w)') = One(ToGo(p, w)) - One(Takes(a, p, w))
  BY <1>3 DEF One
<1>8. One(ToCome(p, w)') = One(ToCome(p, w)) - One(Adds(a, p, w))
  BY <1>4 DEF One
<1>9. One(ToClear(p, w)') = One(ToClear(p, w)) - One(Clears(a, p, w))
  BY <1>5 DEF One
<1>10. One(ToStand(p, w)') = One(ToStand(p, w)) - One(Raises(a, p, w))
  BY <1>6 DEF One
<1> QED BY <1>7, <1>8, <1>9, <1>10

\* A piece that is to go is there, unless it is astray.
LEMMA PiecesThere ==
  ASSUME TableInv, NEW a \in ActsLeft, a.doing # "note"
  PROVE  /\ <<a.from, a.power>> \notin astray =>
              /\ table[a.from][a.power] >= 0
              /\ a.doing \in Taking => table[a.from][a.power] >= 1
              /\ a.doing \in Clearing => aside[a.from][a.power] >= 1
              /\ a.doing = "stand" => aside[a.from][a.power] >= 0
         /\ <<a.to, a.power>> \notin astray => table[a.to][a.power] >= 0
<1>1. a \in GuideActs /\ ActFits(a)
  BY DEF ActsLeft, TableInv, GuideFits
<1>2. a.from \in Province /\ a.to \in Province /\ a.power \in Player
  BY <1>1 DEF ActFits
<1>3. \A p \in Province :
        ToCome(p, a.power) /\ <<p, a.power>> \notin astray => position[p] = a.power
  BY DEF ToCome, ActsLeft, TableInv, GuideFits, ActFits
<1>4. ~(record.kind = "adjustment" /\ ToRule(a.power))
  BY <1>1 DEF ToRule, ActsLeft, TableInv, GuideFits, ActFits
<1>5. ASSUME NEW p \in {a.from, a.to}, <<p, a.power>> \notin astray
      PROVE  /\ table[p][a.power] >= 0
             /\ ToGo(p, a.power) => table[p][a.power] >= 1
  <2>1. table[p][a.power] = One(position[p] = a.power) + One(ToGo(p, a.power))
                            - One(ToCome(p, a.power))
    BY <1>2, <1>4, <1>5 DEF TableInv, TableCounts
  <2>2. ToCome(p, a.power) => position[p] = a.power
    BY <1>2, <1>3, <1>5
  <2> QED BY <2>1, <2>2 DEF One
<1>6. a.doing \in Taking => ToGo(a.from, a.power)
  BY DEF ToGo
<1>7. ASSUME a.doing \in Clearing, <<a.from, a.power>> \notin astray
      PROVE  aside[a.from][a.power] >= 1
  <2>1. record.kind = "retreat" /\ ~ToRule(a.power)
    BY <1>1, <1>7 DEF ToRule, ActsLeft, TableInv, GuideFits, ActFits
  <2>2. ToClear(a.from, a.power) /\ ~ToStand(a.from, a.power)
    BY <1>7, <2>1 DEF ToClear, ToStand, ActsLeft, TableInv, GuideFits, ActFits
  <2> QED BY <1>2, <1>7, <2>1, <2>2 DEF TableInv, AsideCounts, One
<1>8. ASSUME a.doing = "stand", <<a.from, a.power>> \notin astray
      PROVE  aside[a.from][a.power] >= 0
  <2>1. record.kind = "movement" /\ dislodged[a.from] = a.power
    BY <1>1, <1>8 DEF ActFits
  <2> QED BY <1>2, <1>8, <2>1 DEF TableInv, AsideCounts, One
<1> QED BY <1>5, <1>6, <1>7, <1>8

\* What a hand does is what the act says, and no more.
LEMMA PieceMoved ==
  ASSUME TableInv, NEW a \in GuideActs, Push(a), a.doing # "note"
  PROVE  /\ table' \in Tally /\ aside' \in Tally
         /\ \A p \in Province, w \in Player :
              /\ table[p][w] \in Int /\ aside[p][w] \in Int
              /\ <<p, w>> \notin astray =>
                   /\ table'[p][w] = table[p][w] - One(Takes(a, p, w)) + One(Adds(a, p, w))
                   /\ aside'[p][w] = aside[p][w] - One(Clears(a, p, w)) + One(Raises(a, p, w))
<1>1. ActDone(a) /\ a \in ActsLeft
  BY LeftAfter DEF Push
<1>2. /\ a.from \in Province /\ a.to \in Province /\ a.power \in Player
      /\ a.doing \in Adding \cup Taking \cup Clearing
      /\ a.doing = "place" => a.from = a.to
  BY DEF TableInv, GuideFits, ActFits
<1>3. PICK f, t, v, x, y, m, n :
        f = a.from /\ t = a.to /\ v = a.power /\ x = table /\ y = aside
        /\ m = table' /\ n = aside'
  OBVIOUS
<1>4. x \in Tally /\ y \in Tally /\ \A p \in Province, w \in Player : x[p][w] \in Int /\ y[p][w] \in Int
  BY <1>3 DEF TableInv, TableTyped, Tally
<1>5. f \in Province /\ t \in Province /\ v \in Player
  BY <1>2, <1>3
<1>6. /\ <<f, v>> \notin astray =>
           /\ x[f][v] >= 0
           /\ a.doing \in Taking => x[f][v] >= 1
           /\ a.doing \in Clearing => y[f][v] >= 1
           /\ a.doing = "stand" => y[f][v] >= 0
      /\ <<t, v>> \notin astray => x[t][v] >= 0
  BY <1>1, <1>3, PiecesThere
<1> DEFINE Goal ==
      /\ m \in Tally /\ n \in Tally
      /\ \A p \in Province, w \in Player :
           <<p, w>> \notin astray =>
             /\ m[p][w] = x[p][w] - One(Takes(a, p, w)) + One(Adds(a, p, w))
             /\ n[p][w] = y[p][w] - One(Clears(a, p, w)) + One(Raises(a, p, w))
<1> SUFFICES Goal
  BY <1>3, <1>4
<1>7. CASE a.doing = "move"
  <2>1. PICK mid : mid = Shift(x, f, v, -1)
    OBVIOUS
  <2>2. m = Shift(mid, t, v, 1) /\ n = y
    BY <1>1, <1>3, <1>7, <2>1 DEF ActDone
  <2>3. <<f, v>> \notin astray => x[f][v] >= 1
    BY <1>6, <1>7 DEF Taking
  <2>4. /\ mid \in Tally
        /\ \A q \in Province, u \in Player : ~(q = f /\ u = v) => mid[q][u] = x[q][u]
        /\ x[f][v] >= 1 => mid[f][v] = x[f][v] - 1
    BY <1>4, <1>5, <2>1, OneTaken
  <2>5. <<t, v>> \notin astray => mid[t][v] >= 0
    BY <1>4, <1>5, <1>6, <2>3, <2>4
  <2>6. /\ m \in Tally
        /\ \A q \in Province, u \in Player :
             mid[q][u] \in Int /\ (~(q = t /\ u = v) => m[q][u] = mid[q][u])
        /\ mid[t][v] >= 0 => m[t][v] = mid[t][v] + 1
    BY <1>5, <2>2, <2>4, OneAdded
  <2>7. ASSUME NEW p \in Province, NEW w \in Player
        PROVE  /\ Takes(a, p, w) <=> p = f /\ w = v
               /\ Adds(a, p, w) <=> p = t /\ w = v
               /\ ~Clears(a, p, w) /\ ~Raises(a, p, w)
    BY <1>3, <1>7 DEF Takes, Adds, Clears, Raises, Taking, Adding, Clearing
  <2> QED BY <1>4, <2>2, <2>3, <2>4, <2>5, <2>6, <2>7 DEF One
<1>8. CASE a.doing = "retreat"
  <2>1. m = Shift(x, t, v, 1) /\ n = Shift(y, f, v, -1)
    BY <1>1, <1>3, <1>8 DEF ActDone
  <2>2. <<t, v>> \notin astray => x[t][v] >= 0
    BY <1>6, <1>8 DEF Taking, Clearing
  <2>3. /\ m \in Tally
        /\ \A q \in Province, u \in Player : ~(q = t /\ u = v) => m[q][u] = x[q][u]
        /\ x[t][v] >= 0 => m[t][v] = x[t][v] + 1
    BY <1>4, <1>5, <2>1, OneAdded
  <2>4. <<f, v>> \notin astray => y[f][v] >= 1
    BY <1>6, <1>8 DEF Taking, Clearing
  <2>5. /\ n \in Tally
        /\ \A q \in Province, u \in Player : ~(q = f /\ u = v) => n[q][u] = y[q][u]
        /\ y[f][v] >= 1 => n[f][v] = y[f][v] - 1
    BY <1>4, <1>5, <2>1, OneTaken
  <2>6. ASSUME NEW p \in Province, NEW w \in Player
        PROVE  /\ Adds(a, p, w) <=> p = t /\ w = v
               /\ Clears(a, p, w) <=> p = f /\ w = v
               /\ ~Takes(a, p, w) /\ ~Raises(a, p, w)
    BY <1>2, <1>3, <1>8 DEF Takes, Adds, Clears, Raises, Taking, Adding, Clearing
  <2> QED BY <1>4, <2>1, <2>2, <2>3, <2>4, <2>5, <2>6 DEF One
<1>9. CASE a.doing = "take"
  <2>1. m = x /\ n = Shift(y, f, v, -1)
    BY <1>1, <1>3, <1>9 DEF ActDone
  <2>2. <<f, v>> \notin astray => y[f][v] >= 1
    BY <1>6, <1>9 DEF Taking, Clearing
  <2>3. /\ n \in Tally
        /\ \A q \in Province, u \in Player : ~(q = f /\ u = v) => n[q][u] = y[q][u]
        /\ y[f][v] >= 1 => n[f][v] = y[f][v] - 1
    BY <1>4, <1>5, <2>1, OneTaken
  <2>4. ASSUME NEW p \in Province, NEW w \in Player
        PROVE  /\ Clears(a, p, w) <=> p = f /\ w = v
               /\ ~Adds(a, p, w) /\ ~Takes(a, p, w) /\ ~Raises(a, p, w)
    BY <1>2, <1>3, <1>9 DEF Takes, Adds, Clears, Raises, Taking, Adding, Clearing
  <2> QED BY <1>4, <2>1, <2>2, <2>3, <2>4 DEF One
<1>10. CASE a.doing = "stand"
  <2>1. m = Shift(x, f, v, -1) /\ n = Shift(y, f, v, 1)
    BY <1>1, <1>3, <1>10 DEF ActDone
  <2>2. <<f, v>> \notin astray => x[f][v] >= 1
    BY <1>6, <1>10 DEF Taking, Clearing
  <2>3. /\ m \in Tally
        /\ \A q \in Province, u \in Player : ~(q = f /\ u = v) => m[q][u] = x[q][u]
        /\ x[f][v] >= 1 => m[f][v] = x[f][v] - 1
    BY <1>4, <1>5, <2>1, OneTaken
  <2>4. <<f, v>> \notin astray => y[f][v] >= 0
    BY <1>6, <1>10 DEF Taking, Clearing
  <2>5. /\ n \in Tally
        /\ \A q \in Province, u \in Player : ~(q = f /\ u = v) => n[q][u] = y[q][u]
        /\ y[f][v] >= 0 => n[f][v] = y[f][v] + 1
    BY <1>4, <1>5, <2>1, OneAdded
  <2>6. ASSUME NEW p \in Province, NEW w \in Player
        PROVE  /\ Takes(a, p, w) <=> p = f /\ w = v
               /\ Raises(a, p, w) <=> p = f /\ w = v
               /\ ~Adds(a, p, w) /\ ~Clears(a, p, w)
    BY <1>2, <1>3, <1>10 DEF Takes, Adds, Clears, Raises, Taking, Adding, Clearing
  <2> QED BY <1>4, <2>1, <2>2, <2>3, <2>4, <2>5, <2>6 DEF One
<1>11. CASE a.doing = "place"
  <2>1. m = Shift(x, f, v, 1) /\ n = y
    BY <1>1, <1>3, <1>11 DEF ActDone
  <2>2. <<f, v>> \notin astray => x[f][v] >= 0
    BY <1>6, <1>11 DEF Taking, Clearing
  <2>3. /\ m \in Tally
        /\ \A q \in Province, u \in Player : ~(q = f /\ u = v) => m[q][u] = x[q][u]
        /\ x[f][v] >= 0 => m[f][v] = x[f][v] + 1
    BY <1>4, <1>5, <2>1, OneAdded
  <2>4. ASSUME NEW p \in Province, NEW w \in Player
        PROVE  /\ Adds(a, p, w) <=> p = f /\ w = v
               /\ ~Takes(a, p, w) /\ ~Raises(a, p, w) /\ ~Clears(a, p, w)
    BY <1>2, <1>3, <1>11 DEF Takes, Adds, Clears, Raises, Taking, Adding, Clearing
  <2> QED BY <1>4, <2>1, <2>2, <2>3, <2>4 DEF One
<1>12. CASE a.doing = "remove"
  <2>1. m = Shift(x, f, v, -1) /\ n = y
    BY <1>1, <1>3, <1>12 DEF ActDone
  <2>2. <<f, v>> \notin astray => x[f][v] >= 1
    BY <1>6, <1>12 DEF Taking, Clearing
  <2>3. /\ m \in Tally
        /\ \A q \in Province, u \in Player : ~(q = f /\ u = v) => m[q][u] = x[q][u]
        /\ x[f][v] >= 1 => m[f][v] = x[f][v] - 1
    BY <1>4, <1>5, <2>1, OneTaken
  <2>4. ASSUME NEW p \in Province, NEW w \in Player
        PROVE  /\ Takes(a, p, w) <=> p = f /\ w = v
               /\ ~Adds(a, p, w) /\ ~Raises(a, p, w) /\ ~Clears(a, p, w)
    BY <1>2, <1>3, <1>12 DEF Takes, Adds, Clears, Raises, Taking, Adding, Clearing
  <2> QED BY <1>4, <2>1, <2>2, <2>3, <2>4 DEF One
<1> QED BY <1>2, <1>7, <1>8, <1>9, <1>10, <1>11, <1>12 DEF Adding, Taking, Clearing

LEMMA PieceKeeps ==
  ASSUME TableInv, NEW a \in GuideActs, Push(a), a.doing # "note"
  PROVE  TableInv'
<1>1. /\ ActsLeft' = ActsLeft \ {a} /\ GuideFits'
      /\ UNCHANGED <<record, position, dislodged, astray>> /\ done' \subseteq acted'
  BY LeftAfter
<1>2. TableTyped'
  BY <1>1, PieceMoved DEF TableInv, TableTyped, Tally
<1>3. \A w \in Player : ToRule(w)' <=> ToRule(w)
  BY <1>1 DEF ToRule
<1>4. ASSUME NEW p \in Province, NEW w \in Player, <<p, w>> \notin astray,
             ~(record.kind = "adjustment" /\ record.ruled[p] = w /\ ToRule(w))
      PROVE  table'[p][w] = One(position[p] = w) + One(ToGo(p, w)') - One(ToCome(p, w)')
  <2>1. table[p][w] = One(position[p] = w) + One(ToGo(p, w)) - One(ToCome(p, w))
    BY <1>4 DEF TableInv, TableCounts
  <2>2. table'[p][w] = table[p][w] - One(Takes(a, p, w)) + One(Adds(a, p, w))
    BY <1>4, PieceMoved
  <2>3. /\ One(ToGo(p, w)') = One(ToGo(p, w)) - One(Takes(a, p, w))
        /\ One(ToCome(p, w)') = One(ToCome(p, w)) - One(Adds(a, p, w))
    BY LeftCounts
  <2>4. /\ One(ToGo(p, w)) \in Int /\ One(ToCome(p, w)) \in Int
        /\ One(Takes(a, p, w)) \in Int /\ One(Adds(a, p, w)) \in Int
        /\ One(position[p] = w) \in Int
    BY DEF One
  <2> QED BY <2>1, <2>2, <2>3, <2>4
<1>5. ASSUME NEW p \in Province, NEW w \in Player, <<p, w>> \notin astray,
             ~(record.kind = "retreat" /\ ToRule(w))
      PROVE  aside'[p][w] = One(dislodged[p] = w) + One(ToClear(p, w)') - One(ToStand(p, w)')
  <2>1. aside[p][w] = One(dislodged[p] = w) + One(ToClear(p, w)) - One(ToStand(p, w))
    BY <1>5 DEF TableInv, AsideCounts
  <2>2. aside'[p][w] = aside[p][w] - One(Clears(a, p, w)) + One(Raises(a, p, w))
    BY <1>5, PieceMoved
  <2>3. /\ One(ToClear(p, w)') = One(ToClear(p, w)) - One(Clears(a, p, w))
        /\ One(ToStand(p, w)') = One(ToStand(p, w)) - One(Raises(a, p, w))
    BY LeftCounts
  <2>4. /\ One(ToClear(p, w)) \in Int /\ One(ToStand(p, w)) \in Int
        /\ One(Clears(a, p, w)) \in Int /\ One(Raises(a, p, w)) \in Int
        /\ One(dislodged[p] = w) \in Int
    BY DEF One
  <2> QED BY <2>1, <2>2, <2>3, <2>4
<1>6. TableCounts'
  BY <1>1, <1>3, <1>4 DEF TableCounts
<1>7. AsideCounts'
  BY <1>1, <1>3, <1>5 DEF AsideCounts
<1> QED BY <1>1, <1>2, <1>6, <1>7 DEF TableInv

\* A note clears what the rules took of that power, and touches nothing else.
LEMMA NoteKeeps ==
  ASSUME TableInv, NEW a \in GuideActs, Push(a), a.doing = "note"
  PROVE  TableInv'
<1>1. /\ a \in ActsLeft /\ ActsLeft' = ActsLeft \ {a} /\ GuideFits'
      /\ UNCHANGED <<record, position, dislodged, astray>> /\ done' \subseteq acted'
  BY LeftAfter
<1>2. PICK v : v = a.power
  OBVIOUS
<1>3. v \in Player /\ v \in record.nmr
  BY <1>2 DEF TableInv, GuideFits, ActFits
<1>4. /\ aside' = [p \in Province |->
                    IF record.kind = "retreat" THEN [aside[p] EXCEPT ![v] = 0] ELSE aside[p]]
      /\ table' = [p \in Province |->
                    IF record.kind = "adjustment" /\ record.ruled[p] = v
                    THEN [table[p] EXCEPT ![v] = 0] ELSE table[p]]
  BY <1>2 DEF Push, ActDone
<1>5. table \in Tally /\ aside \in Tally
  BY DEF TableInv, TableTyped
<1>6. table' \in Tally /\ aside' \in Tally
  <2>1. ASSUME NEW of \in Tally, NEW p \in Province PROVE [of[p] EXCEPT ![v] = 0] \in [Player -> Int]
    BY <1>3 DEF Tally
  <2>2. \A p \in Province : table'[p] \in [Player -> Int] /\ aside'[p] \in [Player -> Int]
    BY <1>4, <1>5, <2>1 DEF Tally
  <2> QED BY <1>4, <2>2 DEF Tally
<1>7. \A p \in Province, w \in Player :
        /\ table'[p][w] = IF record.kind = "adjustment" /\ record.ruled[p] = v /\ w = v
                          THEN 0 ELSE table[p][w]
        /\ aside'[p][w] = IF record.kind = "retreat" /\ w = v THEN 0 ELSE aside[p][w]
  BY <1>3, <1>4, <1>5 DEF Tally
<1>8. \A p \in Province, w \in Player :
        /\ ToGo(p, w)' <=> ToGo(p, w)
        /\ ToCome(p, w)' <=> ToCome(p, w)
        /\ ToClear(p, w)' <=> ToClear(p, w)
        /\ ToStand(p, w)' <=> ToStand(p, w)
        /\ w # v => (ToRule(w)' <=> ToRule(w))
  BY <1>1, <1>2 DEF ToGo, ToCome, ToClear, ToStand, ToRule, Adding, Taking, Clearing
<1>9. ToRule(v)
  BY <1>1, <1>2 DEF ToRule
<1>10. ASSUME NEW p \in Province, NEW w \in Player, <<p, w>> \notin astray,
              ~(record.kind = "adjustment" /\ record.ruled[p] = w /\ ToRule(w)')
       PROVE  table'[p][w] = One(position[p] = w) + One(ToGo(p, w)') - One(ToCome(p, w)')
  <2>1. CASE record.kind = "adjustment" /\ record.ruled[p] = v /\ w = v
    <3>1. position[p] # w
      BY <1>3, <2>1, TableAssumption DEF TableInv, GuideFits
    <3>2. ~ToGo(p, w) /\ ~ToCome(p, w)
      BY <1>3, <2>1 DEF ToGo, ToCome, ActsLeft, TableInv, GuideFits, ActFits, Adding, Taking
    <3> QED BY <1>7, <1>8, <2>1, <3>1, <3>2 DEF One
  <2>2. CASE ~(record.kind = "adjustment" /\ record.ruled[p] = v /\ w = v)
    <3>1. ~(record.kind = "adjustment" /\ record.ruled[p] = w /\ ToRule(w))
      BY <1>8, <1>10, <2>2
    <3>2. table[p][w] = One(position[p] = w) + One(ToGo(p, w)) - One(ToCome(p, w))
      BY <1>10, <3>1 DEF TableInv, TableCounts
    <3> QED BY <1>7, <1>8, <2>2, <3>2 DEF One
  <2> QED BY <2>1, <2>2
<1>11. ASSUME NEW p \in Province, NEW w \in Player, <<p, w>> \notin astray,
              ~(record.kind = "retreat" /\ ToRule(w)')
       PROVE  aside'[p][w] = One(dislodged[p] = w) + One(ToClear(p, w)') - One(ToStand(p, w)')
  <2>1. CASE record.kind = "retreat" /\ w = v
    <3>1. dislodged[p] # w
      BY <1>3, <2>1, TableAssumption DEF TableInv, GuideFits, NoUnits
    <3>2. ~ToClear(p, w) /\ ~ToStand(p, w)
      BY <1>3, <2>1 DEF ToClear, ToStand, ActsLeft, TableInv, GuideFits, ActFits
    <3> QED BY <1>7, <1>8, <2>1, <3>1, <3>2 DEF One
  <2>2. CASE ~(record.kind = "retreat" /\ w = v)
    <3>1. ~(record.kind = "retreat" /\ ToRule(w))
      BY <1>8, <1>11, <2>2
    <3>2. aside[p][w] = One(dislodged[p] = w) + One(ToClear(p, w)) - One(ToStand(p, w))
      BY <1>11, <3>1 DEF TableInv, AsideCounts
    <3> QED BY <1>7, <1>8, <2>2, <3>2 DEF One
  <2> QED BY <2>1, <2>2
<1>12. TableCounts' /\ AsideCounts'
  BY <1>1, <1>10, <1>11 DEF TableCounts, AsideCounts
<1>13. TableTyped'
  BY <1>1, <1>6 DEF TableInv, TableTyped
<1> QED BY <1>1, <1>12, <1>13 DEF TableInv

-------------------------------------------------------------------------------
(* A new phase.                                                            *)

\* When a guide is done, the table is the game, but for the pieces astray.
LEMMA AllActed ==
  ASSUME TableInv, \A a \in GuideActs : a.id \in acted, NEW p \in Province, NEW w \in Player,
         <<p, w>> \notin astray
  PROVE  table[p][w] = One(position[p] = w) /\ aside[p][w] = One(dislodged[p] = w)
<1>1. ActsLeft = {}
  BY DEF ActsLeft
<1>2. ~ToGo(p, w) /\ ~ToCome(p, w) /\ ~ToClear(p, w) /\ ~ToStand(p, w) /\ ~ToRule(w)
  BY <1>1 DEF ToGo, ToCome, ToClear, ToStand, ToRule
<1> QED BY <1>2 DEF TableInv, TableCounts, AsideCounts, One

OrderAct(p, group, doing, to, w) == Act(<<"order", p>>, group, doing, p, to, w)
StandAct(p, w) == Act(<<"dislodged", p>>, "removals", "stand", p, p, w)
NoteAct(w) == Act(<<"nmr", w>>, "stays", "note", Nobody, Nobody, w)

LEMMA StandsAndNotes ==
  ASSUME NEW r, NEW a
  PROVE  /\ a \in StandActs(r) <=> \E p \in Province : r.dislodged[p] # Nobody
                                                     /\ a = StandAct(p, r.dislodged[p])
         /\ a \in NoteActs(r) <=> \E w \in r.nmr : a = NoteAct(w)
BY DEF StandActs, NoteActs, StandAct, NoteAct, TableUnits

LEMMA MovementActs ==
  ASSUME NEW r, r.kind = "movement", NEW a
  PROVE  a \in OrderActs(r) <=>
           \E p \in DOMAIN r.parts :
             /\ r.parts[p].type = "Move" /\ p \notin r.failed
             /\ a = OrderAct(p, "moves", "move", r.parts[p].to, r.powers[p])
BY DEF OrderActs, OrderAct, FailedMatters

LEMMA RetreatActs ==
  ASSUME NEW r, r.kind = "retreat", NEW a
  PROVE  a \in OrderActs(r) <=>
           \E p \in DOMAIN r.parts :
             \/ /\ r.parts[p].type = "Move" /\ p \notin r.failed
                /\ a = OrderAct(p, "moves", "retreat", r.parts[p].to, r.powers[p])
             \/ /\ ~(r.parts[p].type = "Move" /\ p \notin r.failed)
                /\ a = OrderAct(p, "removals", "take", p, r.powers[p])
BY DEF OrderActs, OrderAct, FailedMatters

LEMMA AdjustmentActs ==
  ASSUME NEW r, r.kind = "adjustment", NEW a
  PROVE  a \in OrderActs(r) <=>
           \E p \in DOMAIN r.parts :
             \/ /\ r.parts[p].type = "Build"
                /\ a = OrderAct(p, "placements", "place", p, r.powers[p])
             \/ /\ r.parts[p].type = "Disband"
                /\ a = OrderAct(p, "removals", "remove", p, r.powers[p])
BY DEF OrderActs, OrderAct

LEMMA OneEach ==
  ASSUME NEW S, IsFiniteSet(S), NEW f, Cardinality({f[x] : x \in S}) = Cardinality(S),
         NEW x \in S, NEW y \in S, f[x] = f[y]
  PROVE  x = y
<1>1. PICK g, T : g = [z \in S |-> f[z]] /\ T = {f[z] : z \in S}
  OBVIOUS
<1>2. g \in Surjection(S, T)
  BY <1>1 DEF Surjection
<1>3. g \in Injection(S, T)
  BY <1>1, <1>2, FS_Surjection
<1> QED BY <1>1, <1>3 DEF Injection, IsInjective

LEMMA RecordRead ==
  ASSUME NEW k, NEW parts, NEW powers, NEW failed, NEW out, NEW nmr, NEW ruled, NEW next,
         Resolved(k, parts, powers, failed, out, nmr, ruled, next)
  PROVE  /\ record'.kind = k /\ record'.parts = parts /\ record'.powers = powers
         /\ record'.failed = failed /\ record'.dislodged = out /\ record'.nmr = nmr
         /\ record'.ruled = ruled
         /\ position' = next /\ dislodged' = out /\ acted' = {}
         /\ table' = table /\ aside' = aside
         /\ astray' = astray \cup Untold(record')
BY DEF Resolved

LEMMA GuideWasDone == ASSUME PlayedOn PROVE \A a \in GuideActs : a.id \in acted
BY DEF PlayedOn, GuideActs

MovementOf(given, aim, ok, cut, nmr) ==
  LET target == {aim[p] : p \in ok}
      out == [p \in Province |->
                IF p \in target /\ p \notin ok THEN position[p] ELSE Nobody]
      parts == [p \in given |-> IF aim[p] = p THEN Plain("Other") ELSE Move(aim[p])]
      next == [p \in Province |->
                 IF p \in target THEN position[CHOOSE q \in ok : aim[q] = p]
                 ELSE IF p \in ok THEN Nobody ELSE position[p]]
  IN /\ Cardinality(target) = Cardinality(ok)
     /\ \A q \in ok : out[aim[q]] # position[q]
     /\ cut \subseteq TableUnits(out)
     /\ Resolved("movement", parts, Owners(position, given),
                 ({p \in given : aim[p] # p} \ ok) \cup cut, out, nmr, NoUnits, next)

LEMMA MovementKeeps == ASSUME TableInv, ResolveMovement PROVE TableInv'
<1>0. \A a \in GuideActs : a.id \in acted
  BY GuideWasDone DEF ResolveMovement
<1> DEFINE quiet(given) == SUBSET Silent(Owing(position), Owners(position, given))
<1>1. PICK given \in SUBSET TableUnits(position) :
      \E aim \in [given -> Province] :
      \E ok \in SUBSET {p \in given : aim[p] # p} :
      \E cut \in SUBSET {p \in given : aim[p] = p} :
      \E nmr \in quiet(given) : MovementOf(given, aim, ok, cut, nmr)
  BY DEF ResolveMovement, MovementOf
<1>2. PICK aim \in [given -> Province] :
      \E ok \in SUBSET {p \in given : aim[p] # p} :
      \E cut \in SUBSET {p \in given : aim[p] = p} :
      \E nmr \in quiet(given) : MovementOf(given, aim, ok, cut, nmr)
  BY <1>1
<1>3. PICK ok \in SUBSET {p \in given : aim[p] # p}, cut \in SUBSET {p \in given : aim[p] = p},
           nmr \in quiet(given) : MovementOf(given, aim, ok, cut, nmr)
  BY <1>2
<1>4. PICK target, out, parts, next, failed :
        /\ target = {aim[p] : p \in ok}
        /\ out = [p \in Province |-> IF p \in target /\ p \notin ok THEN position[p] ELSE Nobody]
        /\ parts = [p \in given |-> IF aim[p] = p THEN Plain("Other") ELSE Move(aim[p])]
        /\ next = [p \in Province |->
                     IF p \in target THEN position[CHOOSE q \in ok : aim[q] = p]
                     ELSE IF p \in ok THEN Nobody ELSE position[p]]
        /\ failed = ({p \in given : aim[p] # p} \ ok) \cup cut
  OBVIOUS
<1>5. /\ Cardinality(target) = Cardinality(ok)
      /\ Resolved("movement", parts, Owners(position, given), failed, out, nmr, NoUnits, next)
  BY <1>3, <1>4 DEF MovementOf
<1>6. /\ given \subseteq Province /\ ok \subseteq given
      /\ position \in [Province -> Player \cup {Nobody}]
      /\ \A p \in given : position[p] \in Player
      /\ \A p \in ok : aim[p] \in Province
  BY DEF TableUnits, TableInv, TableTyped
<1>7. \A x, y \in ok : aim[x] = aim[y] => x = y
  <2>1. IsFiniteSet(ok)
    BY <1>6, TableAssumption, FS_Subset
  <2> QED BY <1>4, <1>5, <2>1, OneEach
<1>8. \A q \in ok : next[aim[q]] = position[q]
  <2> SUFFICES ASSUME NEW q \in ok PROVE next[aim[q]] = position[q]
    OBVIOUS
  <2>1. PICK c : c = CHOOSE z \in ok : aim[z] = aim[q]
    OBVIOUS
  <2>2. c \in ok /\ aim[c] = aim[q]
    BY <2>1
  <2>3. c = q
    BY <1>7, <2>2
  <2> QED BY <1>4, <1>6, <2>1, <2>3
<1>9. /\ next \in [Province -> Player \cup {Nobody}]
      /\ out \in [Province -> Player \cup {Nobody}]
  <2>1. \A p \in target : \E q \in ok : aim[q] = p
    BY <1>4
  <2>2. \A p \in Province : next[p] \in Player \cup {Nobody}
    BY <1>4, <1>6, <1>8, <2>1
  <2> QED BY <1>4, <1>6, <2>2
<1>10. PICK r : r = record'
  OBVIOUS
<1>11. /\ r.kind = "movement" /\ r.parts = parts /\ r.powers = Owners(position, given)
       /\ r.failed = failed /\ r.dislodged = out /\ r.nmr = nmr /\ r.ruled = NoUnits
       /\ position' = next /\ dislodged' = out /\ acted' = {} /\ astray \subseteq astray'
       /\ table' = table /\ aside' = aside /\ \A a \in GuideActs : a.id \in acted
  BY <1>0, <1>5, <1>10, RecordRead
<1>12. \A w \in nmr : w \in Player
  BY <1>6 DEF Silent, Owing, TableUnits
<1>13. ASSUME NEW a
       PROVE  a \in refereeGuide(r) <=>
                \/ \E p \in ok : a = OrderAct(p, "moves", "move", aim[p], position[p])
                \/ \E p \in Province : out[p] # Nobody /\ a = StandAct(p, out[p])
                \/ \E w \in nmr : a = NoteAct(w)
  <2>1. \A p \in given : p \in ok <=> parts[p].type = "Move" /\ p \notin failed
    BY <1>4 DEF Plain, Move
  <2>2. \A p \in ok : parts[p].to = aim[p]
    BY <1>4, <1>6 DEF Move
  <2>3. DOMAIN parts = given /\ \A p \in given : Owners(position, given)[p] = position[p]
    BY <1>4 DEF Owners
  <2>4. a \in OrderActs(r) <=> \E p \in ok : a = OrderAct(p, "moves", "move", aim[p], position[p])
    BY <1>6, <1>11, <2>1, <2>2, <2>3, MovementActs
  <2> QED BY <1>11, <2>4, StandsAndNotes DEF refereeGuide
<1>14. \A a \in refereeGuide(r) :
         \/ /\ a.doing = "move" /\ a.group = "moves" /\ a.from \in ok
            /\ a = OrderAct(a.from, "moves", "move", aim[a.from], position[a.from])
            /\ a.id = <<"order", a.from>> /\ a.to = aim[a.from] /\ a.power = position[a.from]
         \/ /\ a.doing = "stand" /\ a.group = "removals" /\ a.from \in Province
            /\ out[a.from] # Nobody /\ a = StandAct(a.from, out[a.from])
            /\ a.id = <<"dislodged", a.from>> /\ a.to = a.from /\ a.power = out[a.from]
         \/ /\ a.doing = "note" /\ a.group = "stays" /\ a.power \in nmr
            /\ a = NoteAct(a.power) /\ a.id = <<"nmr", a.power>>
  BY <1>13 DEF OrderAct, StandAct, NoteAct, Act
<1>15. GuideActs' = refereeGuide(r)
  BY <1>10 DEF GuideActs
<1>16. \A a \in GuideActs' : ActFits(a)'
  BY <1>6, <1>8, <1>9, <1>10, <1>11, <1>12, <1>14, <1>15, TableAssumption
  DEF ActFits, Adding, Taking, Clearing
<1>17. \A a, b \in GuideActs' : ActsApart(a, b)'
  BY <1>4, <1>7, <1>14, <1>15 DEF ActsApart, Adding, Taking, Clearing
<1>18. GuideFits'
  BY <1>10, <1>11, <1>16, <1>17 DEF GuideFits
<1>19. ActsLeft' = refereeGuide(r)
  BY <1>11, <1>15 DEF ActsLeft
<1>20. TableUnits(dislodged) = {}
  BY DEF ResolveMovement
<1>21. ASSUME NEW p \in Province, NEW w \in Player
       PROVE  /\ ToGo(p, w)' <=> (p \in ok /\ position[p] = w) \/ out[p] = w
              /\ ToCome(p, w)' <=> p \in target /\ next[p] = w
              /\ ~ToClear(p, w)'
              /\ ToStand(p, w)' <=> out[p] = w
  <2>1. ASSUME p \in ok PROVE OrderAct(p, "moves", "move", aim[p], position[p]) \in refereeGuide(r)
    BY <1>13, <2>1
  <2>2. ASSUME out[p] # Nobody PROVE StandAct(p, out[p]) \in refereeGuide(r)
    BY <1>13, <2>2
  <2>3. ToGo(p, w)' <=> (p \in ok /\ position[p] = w) \/ out[p] = w
    BY <1>14, <1>19, <2>1, <2>2, TableAssumption DEF ToGo, Taking, OrderAct, StandAct, Act
  <2>4. ToStand(p, w)' <=> out[p] = w
    BY <1>14, <1>19, <2>2, TableAssumption DEF ToStand, StandAct, Act
  <2>5. ~ToClear(p, w)'
    BY <1>14, <1>19 DEF ToClear, Clearing
  <2>6. ASSUME p \in target, next[p] = w PROVE ToCome(p, w)'
    <3>1. PICK q \in ok : aim[q] = p
      BY <1>4, <2>6
    <3>2. OrderAct(q, "moves", "move", aim[q], position[q]) \in refereeGuide(r)
      BY <1>13
    <3> QED BY <1>8, <1>19, <2>6, <3>1, <3>2 DEF ToCome, Adding, OrderAct, Act
  <2>7. ASSUME ToCome(p, w)' PROVE p \in target /\ next[p] = w
    <3>1. PICK a \in refereeGuide(r) : a.doing \in Adding /\ a.to = p /\ a.power = w
      BY <1>19, <2>7 DEF ToCome
    <3>2. a.from \in ok /\ a.to = aim[a.from] /\ a.power = position[a.from]
      BY <1>14, <3>1 DEF Adding
    <3> QED BY <1>4, <1>8, <3>1, <3>2
  <2> QED BY <2>3, <2>4, <2>5, <2>6, <2>7
<1>22. \A p \in Province, w \in Player :
         <<p, w>> \notin astray' => table[p][w] = One(position[p] = w) /\ aside[p][w] = 0
  BY <1>11, <1>20, AllActed, TableAssumption DEF One, TableUnits, TableInv, TableTyped
<1>23. ASSUME NEW p \in Province, NEW w \in Player, <<p, w>> \notin astray'
       PROVE  table'[p][w] = One(next[p] = w) + One(ToGo(p, w)') - One(ToCome(p, w)')
  <2>1. out[p] = w => p \in target /\ p \notin ok /\ position[p] = w
    BY <1>4, TableAssumption
  <2>2. p \in target /\ p \notin ok => out[p] = position[p]
    BY <1>4
  <2>3. p \notin target => next[p] = IF p \in ok THEN Nobody ELSE position[p]
    BY <1>4
  <2> QED BY <1>11, <1>21, <1>22, <1>23, <2>1, <2>2, <2>3, TableAssumption DEF One
<1>24. ASSUME NEW p \in Province, NEW w \in Player, <<p, w>> \notin astray'
       PROVE  aside'[p][w] = One(out[p] = w) + One(ToClear(p, w)') - One(ToStand(p, w)')
  BY <1>11, <1>21, <1>22, <1>24 DEF One
<1>25. TableCounts' /\ AsideCounts'
  BY <1>11, <1>23, <1>24 DEF TableCounts, AsideCounts
<1>26. TableTyped'
  BY <1>9, <1>11 DEF TableInv, TableTyped, ResolveMovement, GuideOver
<1> QED BY <1>18, <1>25, <1>26 DEF TableInv

RetreatOf(given, aim, nmr, ok) ==
  LET moving == {p \in given : aim[p] # Nobody}
  IN Resolved("retreat",
              [p \in given |-> IF p \in moving THEN Move(aim[p]) ELSE Plain("Disband")],
              Owners(dislodged, given), moving \ ok, NoUnits, nmr,
              [p \in Province |-> IF p \in given THEN Nobody ELSE dislodged[p]],
              [p \in Province |->
                 IF \E q \in ok : aim[q] = p
                 THEN dislodged[CHOOSE q \in ok : aim[q] = p] ELSE position[p]])

LEMMA RetreatKeeps == ASSUME TableInv, ResolveRetreat PROVE TableInv'
<1>0. \A a \in GuideActs : a.id \in acted
  BY GuideWasDone DEF ResolveRetreat
<1> DEFINE mv(given, aim) == {p \in given : aim[p] # Nobody}
           free(given, aim) ==
             {p \in {q \in mv(given, aim) : \A z \in mv(given, aim) : aim[z] = aim[q] => z = q} :
                position[aim[p]] = Nobody}
           quiet(given) == SUBSET Silent(Owing(dislodged), Owners(dislodged, given))
<1>1. PICK given \in SUBSET TableUnits(dislodged) :
        \E aim \in [given -> Province \cup {Nobody}] :
        \E nmr \in quiet(given) :
        \E ok \in SUBSET free(given, aim) : RetreatOf(given, aim, nmr, ok)
  BY DEF ResolveRetreat, RetreatOf
<1>2. PICK aim \in [given -> Province \cup {Nobody}] :
        \E nmr \in quiet(given) :
        \E ok \in SUBSET free(given, aim) : RetreatOf(given, aim, nmr, ok)
  BY <1>1
<1>3. PICK nmr \in quiet(given), ok \in SUBSET free(given, aim) : RetreatOf(given, aim, nmr, ok)
  BY <1>2
<1>4. PICK failed, parts, next, ruled :
        /\ failed = mv(given, aim) \ ok
        /\ parts = [p \in given |-> IF p \in mv(given, aim) THEN Move(aim[p]) ELSE Plain("Disband")]
        /\ next = [p \in Province |->
                     IF \E q \in ok : aim[q] = p
                     THEN dislodged[CHOOSE q \in ok : aim[q] = p] ELSE position[p]]
        /\ ruled = [p \in Province |-> IF p \in given THEN Nobody ELSE dislodged[p]]
        /\ Resolved("retreat", parts, Owners(dislodged, given), failed, NoUnits, nmr, ruled, next)
  BY <1>3 DEF RetreatOf
<1>5. /\ given \subseteq Province /\ ok \subseteq given
      /\ position \in [Province -> Player \cup {Nobody}]
      /\ dislodged \in [Province -> Player \cup {Nobody}]
      /\ \A p \in given : dislodged[p] \in Player
      /\ \A p \in ok : aim[p] \in Province /\ position[aim[p]] = Nobody
      /\ \A p \in ok : p \in mv(given, aim)
  BY DEF TableUnits, TableInv, TableTyped
<1>6. \A x, y \in ok : aim[x] = aim[y] => x = y
  OBVIOUS
<1>7. \A q \in ok : next[aim[q]] = dislodged[q]
  <2> SUFFICES ASSUME NEW q \in ok PROVE next[aim[q]] = dislodged[q]
    OBVIOUS
  <2>1. PICK c : c = CHOOSE z \in ok : aim[z] = aim[q]
    OBVIOUS
  <2>2. c \in ok /\ aim[c] = aim[q]
    BY <2>1
  <2>3. c = q
    BY <1>6, <2>2
  <2> QED BY <1>4, <1>5, <2>1, <2>3
<1>8. next \in [Province -> Player \cup {Nobody}]
  <2>1. \A p \in Province : next[p] \in Player \cup {Nobody}
    BY <1>4, <1>5, <1>7
  <2> QED BY <1>4, <2>1
<1>9. PICK r : r = record'
  OBVIOUS
<1>10. /\ r.kind = "retreat" /\ r.parts = parts /\ r.powers = Owners(dislodged, given)
       /\ r.failed = failed /\ r.dislodged = NoUnits /\ r.nmr = nmr /\ r.ruled = ruled
       /\ position' = next /\ dislodged' = NoUnits /\ acted' = {}
       /\ astray' = astray \cup Untold(r)
       /\ table' = table /\ aside' = aside /\ \A a \in GuideActs : a.id \in acted
  BY <1>0, <1>4, <1>9, RecordRead
<1>11. \A w \in nmr : w \in Player
  BY <1>5 DEF Silent, Owing, TableUnits
<1>12. \A p \in given : dislodged[p] \notin nmr
  BY <1>5 DEF Silent, Owners
<1>13. ASSUME NEW a
       PROVE  a \in refereeGuide(r) <=>
                \/ \E p \in ok : a = OrderAct(p, "moves", "retreat", aim[p], dislodged[p])
                \/ \E p \in given \ ok : a = OrderAct(p, "removals", "take", p, dislodged[p])
                \/ \E w \in nmr : a = NoteAct(w)
  <2>1. \A p \in given : p \in ok <=> parts[p].type = "Move" /\ p \notin failed
    BY <1>4, <1>5 DEF Plain, Move
  <2>2. \A p \in ok : parts[p].to = aim[p]
    BY <1>4, <1>5 DEF Move
  <2>3. DOMAIN parts = given /\ \A p \in given : Owners(dislodged, given)[p] = dislodged[p]
    BY <1>4 DEF Owners
  <2>4. a \in OrderActs(r) <=>
          \/ \E p \in ok : a = OrderAct(p, "moves", "retreat", aim[p], dislodged[p])
          \/ \E p \in given \ ok : a = OrderAct(p, "removals", "take", p, dislodged[p])
    BY <1>5, <1>10, <2>1, <2>2, <2>3, RetreatActs
  <2>5. a \notin StandActs(r)
    BY <1>10, StandsAndNotes DEF NoUnits
  <2> QED BY <1>10, <2>4, <2>5, StandsAndNotes DEF refereeGuide
<1>14. \A a \in refereeGuide(r) :
         \/ /\ a.doing = "retreat" /\ a.group = "moves" /\ a.from \in ok
            /\ a = OrderAct(a.from, "moves", "retreat", aim[a.from], dislodged[a.from])
            /\ a.id = <<"order", a.from>> /\ a.to = aim[a.from] /\ a.power = dislodged[a.from]
         \/ /\ a.doing = "take" /\ a.group = "removals" /\ a.from \in given \ ok
            /\ a = OrderAct(a.from, "removals", "take", a.from, dislodged[a.from])
            /\ a.id = <<"order", a.from>> /\ a.to = a.from /\ a.power = dislodged[a.from]
         \/ /\ a.doing = "note" /\ a.group = "stays" /\ a.power \in nmr
            /\ a = NoteAct(a.power) /\ a.id = <<"nmr", a.power>>
  BY <1>13 DEF OrderAct, NoteAct, Act
<1>15. GuideActs' = refereeGuide(r)
  BY <1>9 DEF GuideActs
<1>16. \A a \in GuideActs' : ActFits(a)'
  BY <1>5, <1>7, <1>8, <1>9, <1>10, <1>11, <1>12, <1>14, <1>15
  DEF ActFits, Adding, Taking, Clearing
<1>17. \A a, b \in GuideActs' : ActsApart(a, b)'
  BY <1>6, <1>14, <1>15 DEF ActsApart, Adding, Taking, Clearing
<1>18. GuideFits'
  BY <1>9, <1>10, <1>16, <1>17 DEF GuideFits, NoUnits
<1>19. ActsLeft' = refereeGuide(r)
  BY <1>10, <1>15 DEF ActsLeft
<1>20. ASSUME NEW p \in Province, NEW w \in Player
       PROVE  /\ ~ToGo(p, w)' /\ ~ToStand(p, w)'
              /\ ToCome(p, w)' <=> (\E q \in ok : aim[q] = p) /\ next[p] = w
              /\ ToClear(p, w)' <=> p \in given /\ dislodged[p] = w
  <2>1. ~ToGo(p, w)' /\ ~ToStand(p, w)'
    BY <1>14, <1>19 DEF ToGo, ToStand, Taking
  <2>2. ASSUME NEW q \in ok, aim[q] = p, next[p] = w PROVE ToCome(p, w)'
    <3>1. OrderAct(q, "moves", "retreat", aim[q], dislodged[q]) \in refereeGuide(r)
      BY <1>13
    <3> QED BY <1>7, <1>19, <2>2, <3>1 DEF ToCome, Adding, OrderAct, Act
  <2>3. ASSUME ToCome(p, w)' PROVE (\E q \in ok : aim[q] = p) /\ next[p] = w
    <3>1. PICK a \in refereeGuide(r) : a.doing \in Adding /\ a.to = p /\ a.power = w
      BY <1>19, <2>3 DEF ToCome
    <3>2. a.from \in ok /\ a.to = aim[a.from] /\ a.power = dislodged[a.from]
      BY <1>14, <3>1 DEF Adding
    <3> QED BY <1>7, <3>1, <3>2
  <2>4. ASSUME p \in given, dislodged[p] = w PROVE ToClear(p, w)'
    <3>1. \/ OrderAct(p, "moves", "retreat", aim[p], dislodged[p]) \in refereeGuide(r)
          \/ OrderAct(p, "removals", "take", p, dislodged[p]) \in refereeGuide(r)
      BY <1>13, <2>4
    <3> QED BY <1>19, <2>4, <3>1 DEF ToClear, Clearing, OrderAct, Act
  <2>5. ASSUME ToClear(p, w)' PROVE p \in given /\ dislodged[p] = w
    <3>1. PICK a \in refereeGuide(r) : a.doing \in Clearing /\ a.from = p /\ a.power = w
      BY <1>19, <2>5 DEF ToClear
    <3> QED BY <1>5, <1>14, <3>1 DEF Clearing
  <2> QED BY <2>1, <2>2, <2>3, <2>4, <2>5
<1>21. \A p \in Province, w \in Player :
         <<p, w>> \notin astray' =>
           table[p][w] = One(position[p] = w) /\ aside[p][w] = One(dislodged[p] = w)
  BY <1>10, AllActed
<1>22. ASSUME NEW p \in Province, NEW w \in Player, <<p, w>> \notin astray'
       PROVE  table'[p][w] = One(next[p] = w) + One(ToGo(p, w)') - One(ToCome(p, w)')
  <2>1. (\E q \in ok : aim[q] = p) => position[p] = Nobody
    BY <1>5
  <2>2. ~(\E q \in ok : aim[q] = p) => next[p] = position[p]
    BY <1>4
  <2> QED BY <1>10, <1>20, <1>21, <1>22, <2>1, <2>2, TableAssumption DEF One
<1>23. ASSUME NEW p \in Province, NEW w \in Player, <<p, w>> \notin astray', ~ToRule(w)'
       PROVE  aside'[p][w] = One(NoUnits[p] = w) + One(ToClear(p, w)') - One(ToStand(p, w)')
  <2>1. w \notin nmr
    <3>1. w \in nmr => NoteAct(w) \in refereeGuide(r)
      BY <1>13
    <3> QED BY <1>19, <1>23, <3>1 DEF ToRule, NoteAct, Act
  <2>2. dislodged[p] = w => p \in given
    <3>1. dislodged[p] = w /\ p \notin given => r.ruled[p] = w /\ p \in TableUnits(r.ruled)
      BY <1>4, <1>10, TableAssumption DEF TableUnits
    <3> QED BY <1>10, <1>23, <2>1, <3>1 DEF Untold
  <2> QED BY <1>10, <1>20, <1>21, <1>23, <2>2, TableAssumption DEF One, NoUnits
<1>24. TableCounts' /\ AsideCounts'
  BY <1>9, <1>10, <1>22, <1>23 DEF TableCounts, AsideCounts
<1>25. TableTyped'
  BY <1>8, <1>10 DEF TableInv, TableTyped, ResolveRetreat, GuideOver, NoUnits
<1> QED BY <1>18, <1>24, <1>25 DEF TableInv

AdjustmentOf(by, bad, built, taken, nmr) ==
  LET given == TableUnits(by)
      lost == taken \cup {p \in given \ bad : p \notin built}
  IN /\ \A p \in given : position[p] \in {Nobody, by[p]}
     /\ \A p \in given \ bad : p \in built <=> position[p] = Nobody
     /\ \A p \in built \ bad, q \in lost : position[q] # by[p]
     /\ Resolved("adjustment",
                 [p \in given |-> IF p \in built THEN Plain("Build") ELSE Plain("Disband")],
                 Owners(by, given), bad, NoUnits, nmr,
                 [p \in Province |-> IF p \in taken THEN position[p] ELSE Nobody],
                 [p \in Province |-> IF p \in built \ bad THEN by[p]
                                     ELSE IF p \in lost THEN Nobody ELSE position[p]])

LEMMA AdjustmentKeeps == ASSUME TableInv, ResolveAdjustment PROVE TableInv'
<1>0. \A a \in GuideActs : a.id \in acted
  BY GuideWasDone DEF ResolveAdjustment
<1> DEFINE may(by, bad) == {p \in TableUnits(by) : p \in bad \/ position[p] = Nobody}
           rest(by) == TableUnits(position) \ TableUnits(by)
           quiet(by) == SUBSET Silent(Player, Owners(by, TableUnits(by)))
<1>1. PICK by \in [Province -> Player \cup {Nobody}] :
        \E bad \in SUBSET TableUnits(by) :
        \E built \in SUBSET may(by, bad) :
        \E taken \in SUBSET rest(by) :
        \E nmr \in quiet(by) : AdjustmentOf(by, bad, built, taken, nmr)
  BY DEF ResolveAdjustment, AdjustmentOf
<1>2. PICK bad \in SUBSET TableUnits(by) :
        \E built \in SUBSET may(by, bad) :
        \E taken \in SUBSET rest(by) :
        \E nmr \in quiet(by) : AdjustmentOf(by, bad, built, taken, nmr)
  BY <1>1
<1>3. PICK built \in SUBSET may(by, bad), taken \in SUBSET rest(by), nmr \in quiet(by) :
        AdjustmentOf(by, bad, built, taken, nmr)
  BY <1>2
<1>4. PICK given, lost, parts, powers, next, ruled :
        /\ given = TableUnits(by)
        /\ lost = taken \cup {p \in given \ bad : p \notin built}
        /\ parts = [p \in given |-> IF p \in built THEN Plain("Build") ELSE Plain("Disband")]
        /\ powers = Owners(by, given)
        /\ next = [p \in Province |-> IF p \in built \ bad THEN by[p]
                                      ELSE IF p \in lost THEN Nobody ELSE position[p]]
        /\ ruled = [p \in Province |-> IF p \in taken THEN position[p] ELSE Nobody]
  OBVIOUS
<1>5. /\ \A p \in given : position[p] \in {Nobody, by[p]}
      /\ \A p \in given \ bad : p \in built <=> position[p] = Nobody
      /\ Resolved("adjustment", parts, powers, bad, NoUnits, nmr, ruled, next)
  BY <1>3, <1>4 DEF AdjustmentOf
<1>6. /\ given \subseteq Province /\ built \subseteq given /\ bad \subseteq given
      /\ taken \subseteq Province /\ taken \cap given = {}
      /\ position \in [Province -> Player \cup {Nobody}]
      /\ \A p \in given : by[p] \in Player
  BY <1>4 DEF TableUnits, TableInv, TableTyped
<1>7. next \in [Province -> Player \cup {Nobody}]
  BY <1>4, <1>6
<1>8. \A p \in taken : next[p] = Nobody
  BY <1>4, <1>6
<1>9. PICK r : r = record'
  OBVIOUS
<1>10. /\ r.kind = "adjustment" /\ r.parts = parts /\ r.powers = powers /\ r.failed = bad
       /\ r.dislodged = NoUnits /\ r.nmr = nmr /\ r.ruled = ruled
       /\ position' = next /\ dislodged' = NoUnits /\ acted' = {}
       /\ astray' = astray \cup Untold(r)
       /\ table' = table /\ aside' = aside /\ \A a \in GuideActs : a.id \in acted
  BY <1>0, <1>5, <1>9, RecordRead
<1>11. DOMAIN parts = given /\ \A p \in given : powers[p] = by[p]
  BY <1>4 DEF Owners
<1>12. /\ \A w \in nmr : w \in Player
       /\ \A p \in given : by[p] \notin nmr
  BY <1>4 DEF Silent, Owners
<1>13. ASSUME NEW a
       PROVE  a \in refereeGuide(r) <=>
                \/ \E p \in built : a = OrderAct(p, "placements", "place", p, by[p])
                \/ \E p \in given \ built : a = OrderAct(p, "removals", "remove", p, by[p])
                \/ \E w \in nmr : a = NoteAct(w)
  <2>1. \A p \in given : parts[p].type = IF p \in built THEN "Build" ELSE "Disband"
    BY <1>4 DEF Plain
  <2>2. a \in OrderActs(r) <=>
          \/ \E p \in built : a = OrderAct(p, "placements", "place", p, by[p])
          \/ \E p \in given \ built : a = OrderAct(p, "removals", "remove", p, by[p])
    BY <1>6, <1>10, <1>11, <2>1, AdjustmentActs
  <2>3. a \notin StandActs(r)
    BY <1>10, StandsAndNotes DEF NoUnits
  <2> QED BY <1>10, <2>2, <2>3, StandsAndNotes DEF refereeGuide
<1>14. \A a \in refereeGuide(r) :
         \/ /\ a.doing = "place" /\ a.group = "placements" /\ a.from \in built
            /\ a = OrderAct(a.from, "placements", "place", a.from, by[a.from])
            /\ a.id = <<"order", a.from>> /\ a.to = a.from /\ a.power = by[a.from]
         \/ /\ a.doing = "remove" /\ a.group = "removals" /\ a.from \in given \ built
            /\ a = OrderAct(a.from, "removals", "remove", a.from, by[a.from])
            /\ a.id = <<"order", a.from>> /\ a.to = a.from /\ a.power = by[a.from]
         \/ /\ a.doing = "note" /\ a.group = "stays" /\ a.power \in nmr
            /\ a = NoteAct(a.power) /\ a.id = <<"nmr", a.power>>
  BY <1>13 DEF OrderAct, NoteAct, Act
<1>15. GuideActs' = refereeGuide(r)
  BY <1>9 DEF GuideActs
\* The pairs that are not astray: no order of that power failed there, and
\* what the rules took of it has its note.
<1>16. ASSUME NEW p \in Province, NEW w \in Player, <<p, w>> \notin astray'
       PROVE  /\ <<p, w>> \notin astray
              /\ p \in bad => by[p] # w
              /\ p \in taken /\ position[p] = w => w \in nmr
  <2>1. p \in bad => <<p, by[p]>> \in Untold(r)
    BY <1>6, <1>10, <1>11 DEF Untold
  <2>2. p \in taken /\ position[p] = w => r.ruled[p] = w /\ p \in TableUnits(r.ruled)
    BY <1>4, <1>6, <1>10, TableAssumption DEF TableUnits
  <2>3. p \in taken /\ position[p] = w /\ w \notin nmr => <<p, w>> \in Untold(r)
    BY <1>10, <2>2 DEF Untold
  <2> QED BY <1>10, <1>16, <2>1, <2>3
<1>17. \A a \in GuideActs' : ActFits(a)'
  <2> SUFFICES ASSUME NEW a \in GuideActs' PROVE ActFits(a)'
    OBVIOUS
  <2>1. CASE a.doing = "place"
    <3>1. a.from \in built /\ a.to = a.from /\ a.power = by[a.from] /\ a.group = "placements"
      BY <1>14, <1>15, <2>1
    <3>2. <<a.to, a.power>> \notin astray' => a.from \notin bad
      BY <1>6, <1>16, <3>1
    <3>3. <<a.to, a.power>> \notin astray' => position'[a.to] = a.power
      BY <1>4, <1>6, <1>10, <3>1, <3>2
    <3> QED BY <1>6, <1>9, <1>10, <1>12, <2>1, <3>1, <3>3 DEF ActFits, Adding, Taking, Clearing
  <2>2. CASE a.doing = "remove"
    BY <1>6, <1>9, <1>10, <1>12, <1>14, <1>15, <2>2 DEF ActFits, Adding, Taking, Clearing
  <2>3. CASE a.doing = "note"
    BY <1>9, <1>10, <1>12, <1>14, <1>15, <2>3 DEF ActFits, Adding, Taking, Clearing
  <2> QED BY <1>14, <1>15, <2>1, <2>2, <2>3
<1>18. \A a, b \in GuideActs' : ActsApart(a, b)'
  BY <1>14, <1>15 DEF ActsApart, Adding, Taking, Clearing
<1>19. GuideFits'
  <2>1. \A p \in Province : ruled[p] # Nobody => next[p] = Nobody
    BY <1>4, <1>8
  <2> QED BY <1>9, <1>10, <1>17, <1>18, <2>1 DEF GuideFits
<1>20. ActsLeft' = refereeGuide(r)
  BY <1>10, <1>15 DEF ActsLeft
<1>21. ASSUME NEW p \in Province, NEW w \in Player
       PROVE  /\ ToGo(p, w)' <=> p \in given \ built /\ by[p] = w
              /\ ToCome(p, w)' <=> p \in built /\ by[p] = w
              /\ ~ToClear(p, w)' /\ ~ToStand(p, w)'
  <2>1. ~ToClear(p, w)' /\ ~ToStand(p, w)'
    BY <1>14, <1>20 DEF ToClear, ToStand, Clearing
  <2>2. ASSUME p \in given \ built, by[p] = w PROVE ToGo(p, w)'
    <3>1. OrderAct(p, "removals", "remove", p, by[p]) \in refereeGuide(r)
      BY <1>13, <2>2
    <3> QED BY <1>20, <2>2, <3>1 DEF ToGo, Taking, OrderAct, Act
  <2>3. ASSUME ToGo(p, w)' PROVE p \in given \ built /\ by[p] = w
    BY <1>14, <1>20, <2>3 DEF ToGo, Taking
  <2>4. ASSUME p \in built, by[p] = w PROVE ToCome(p, w)'
    <3>1. OrderAct(p, "placements", "place", p, by[p]) \in refereeGuide(r)
      BY <1>13, <2>4
    <3> QED BY <1>20, <2>4, <3>1 DEF ToCome, Adding, OrderAct, Act
  <2>5. ASSUME ToCome(p, w)' PROVE p \in built /\ by[p] = w
    BY <1>14, <1>20, <2>5 DEF ToCome, Adding
  <2> QED BY <2>1, <2>2, <2>3, <2>4, <2>5
<1>22. TableUnits(dislodged) = {}
  BY DEF ResolveAdjustment
<1>23. \A p \in Province, w \in Player :
         <<p, w>> \notin astray' => table[p][w] = One(position[p] = w) /\ aside[p][w] = 0
  BY <1>10, <1>22, AllActed, TableAssumption DEF One, TableUnits, TableInv, TableTyped
<1>24. ASSUME NEW p \in Province, NEW w \in Player, <<p, w>> \notin astray',
              ~(ruled[p] = w /\ ToRule(w)')
       PROVE  table'[p][w] = One(next[p] = w) + One(ToGo(p, w)') - One(ToCome(p, w)')
  <2>1. table'[p][w] = One(position[p] = w) /\ (p \in bad => by[p] # w)
    BY <1>10, <1>16, <1>23, <1>24
  <2>2. w # Nobody
    BY TableAssumption
  <2>3. w \in nmr => ToRule(w)'
    <3>1. w \in nmr => NoteAct(w) \in refereeGuide(r)
      BY <1>13
    <3> QED BY <1>20, <3>1 DEF ToRule, NoteAct, Act
  <2>4. CASE p \in given \ bad
    BY <1>4, <1>5, <1>6, <1>21, <2>1, <2>2, <2>4 DEF One
  <2>5. CASE p \in bad
    <3>1. next[p] = position[p] /\ position[p] # w
      BY <1>4, <1>5, <1>6, <2>1, <2>2, <2>5
    <3> QED BY <1>21, <2>1, <2>5, <3>1 DEF One
  <2>6. CASE p \in taken
    <3>1. position[p] # w
      BY <1>4, <1>16, <1>24, <2>3, <2>6
    <3> QED BY <1>6, <1>8, <1>21, <2>1, <2>2, <2>6, <3>1 DEF One
  <2>7. CASE p \notin given /\ p \notin taken
    BY <1>4, <1>6, <1>21, <2>1, <2>7 DEF One
  <2> QED BY <2>4, <2>5, <2>6, <2>7
<1>25. ASSUME NEW p \in Province, NEW w \in Player, <<p, w>> \notin astray'
       PROVE  aside'[p][w] = One(NoUnits[p] = w) + One(ToClear(p, w)') - One(ToStand(p, w)')
  BY <1>10, <1>21, <1>23, <1>25, TableAssumption DEF One, NoUnits
<1>26. TableCounts' /\ AsideCounts'
  BY <1>9, <1>10, <1>24, <1>25 DEF TableCounts, AsideCounts
<1>27. TableTyped'
  BY <1>7, <1>10 DEF TableInv, TableTyped, ResolveAdjustment, GuideOver, NoUnits
<1> QED BY <1>19, <1>26, <1>27 DEF TableInv

-------------------------------------------------------------------------------
(* The table is the game's.                                                *)

LEMMA TableStarts == TableInit => TableInv
<1> SUFFICES ASSUME TableInit PROVE TableInv
  OBVIOUS
<1>1. /\ position \in [Province -> Player \cup {Nobody}] /\ dislodged = NoUnits
      /\ record = NoRecord /\ table = Pieces(position) /\ aside = NoPieces
      /\ acted = {} /\ done = {}
  BY TableAssumption DEF TableInit
<1>2. GuideActs = {}
  <2>1. DOMAIN NoRecord.parts = {} /\ NoRecord.nmr = {} /\ NoRecord.dislodged = NoUnits
    BY DEF NoRecord
  <2>2. OrderActs(NoRecord) = {}
    BY <2>1 DEF OrderActs
  <2>3. StandActs(NoRecord) = {} /\ NoteActs(NoRecord) = {}
    BY <2>1, StandsAndNotes DEF NoUnits
  <2> QED BY <1>1, <2>2, <2>3 DEF GuideActs, refereeGuide
<1>3. ActsLeft = {}
  BY <1>2 DEF ActsLeft
<1>4. record.kind = "none"
  BY <1>1 DEF NoRecord
<1>5. GuideFits
  BY <1>2, <1>4 DEF GuideFits
<1>6. \A p \in Province, w \in Player :
        ~ToGo(p, w) /\ ~ToCome(p, w) /\ ~ToClear(p, w) /\ ~ToStand(p, w)
  BY <1>3 DEF ToGo, ToCome, ToClear, ToStand
<1>7. TableCounts /\ AsideCounts
  BY <1>1, <1>6, TableAssumption DEF TableCounts, AsideCounts, One, Pieces, NoPieces, NoUnits
<1>8. TableTyped
  BY <1>1 DEF TableTyped, Tally, Pieces, NoPieces, NoUnits
<1> QED BY <1>5, <1>7, <1>8 DEF TableInv

LEMMA TableStep == ASSUME TableInv, [TableNext]_tableVars PROVE TableInv'
<1>1. ASSUME UNCHANGED <<position, dislodged, record, table, aside, acted, astray>>,
             done' \subseteq acted
      PROVE  TableInv'
  <2>1. GuideActs' = GuideActs /\ ActsLeft' = ActsLeft
    BY <1>1 DEF GuideActs, ActsLeft
  <2>2. TableTyped'
    BY <1>1 DEF TableInv, TableTyped
  <2>3. GuideFits'
    BY <1>1, <2>1 DEF TableInv, GuideFits, ActFits, NoUnits
  <2>4. \A p \in Province, w \in Player :
          /\ ToGo(p, w)' <=> ToGo(p, w)
          /\ ToCome(p, w)' <=> ToCome(p, w)
          /\ ToClear(p, w)' <=> ToClear(p, w)
          /\ ToStand(p, w)' <=> ToStand(p, w)
          /\ ToRule(w)' <=> ToRule(w)
    BY <2>1 DEF ToGo, ToCome, ToClear, ToStand, ToRule
  <2>5. TableCounts'
    BY <1>1, <2>4 DEF TableInv, TableCounts, One
  <2>6. AsideCounts'
    BY <1>1, <2>4 DEF TableInv, AsideCounts, One
  <2> QED BY <2>2, <2>3, <2>5, <2>6 DEF TableInv
<1>2. CASE UNCHANGED tableVars
  BY <1>1, <1>2 DEF tableVars, TableInv, TableTyped
<1>3. ASSUME NEW a \in refereeGuide(record), Push(a) PROVE TableInv'
  BY <1>3, PieceKeeps, NoteKeeps DEF GuideActs
<1>4. ASSUME NEW id \in Ticked(record), toggle(id) PROVE TableInv'
  BY <1>1, <1>4 DEF toggle, TableInv, TableTyped
<1>5. CASE CloseGuide
  BY <1>1, <1>5 DEF CloseGuide
<1> QED BY <1>2, <1>3, <1>4, <1>5, MovementKeeps, RetreatKeeps, AdjustmentKeeps DEF TableNext

\* For every map and opening and however long the game, with orders that are
\* missing, partly given or not legal: a guide whose lines are ticked and whose
\* notes are followed, in any order, leaves every piece that some guide did not
\* pass over as the game has it (refereeGuide, RefereeGuide.tsx).
THEOREM TableFollowsTheGame == TableSpec => []OnlyTheUntoldAstray
<1>1. TableInv => OnlyTheUntoldAstray
  <2> SUFFICES ASSUME TableInv, Followed, NEW p \in Province, NEW w \in Player,
                      <<p, w>> \notin astray
               PROVE  /\ table[p][w] = Pieces(position)[p][w]
                      /\ aside[p][w] = Pieces(dislodged)[p][w]
    BY DEF OnlyTheUntoldAstray
  <2>1. ASSUME NEW a \in GuideActs, a.group = "stays" PROVE a.id \in acted
    <3>1. a.doing = "note"
      BY <2>1 DEF TableInv, GuideFits, ActFits
    <3>2. a \in NoteActs(record)
      BY <3>1 DEF GuideActs, refereeGuide, OrderActs, StandActs, Act
    <3> QED BY <3>2 DEF Followed
  <2>2. ASSUME NEW a \in GuideActs, a.group # "stays" PROVE a.id \in acted
    BY <2>2 DEF GuideActs, Followed, Ticked, TableInv, TableTyped
  <2> QED BY <2>1, <2>2, AllActed DEF Pieces, One
<1>2. TableInv /\ [TableNext]_tableVars => TableInv'
  BY TableStep
<1> QED BY <1>1, <1>2, TableStarts, PTL DEF TableSpec
================================================================================
