--------------------------- MODULE BoardDrawing ---------------------------
(***************************************************************************)
(* What is on the map: the drawing half of board/board.ts and the effects  *)
(* of components/Board.tsx. A board keeps what it was told and redraws     *)
(* some of its layers after each call; the map arrives late, a change of   *)
(* map style replaces the board, and orders it sent are answered later.    *)
(* A picture is what a layer shows, not how.                               *)
(***************************************************************************)
EXTENDS Naturals, Sequences, FiniteSets, SequencesExt

CONSTANTS
  Lands,      \* provinces
  Named,      \* those the placement table has a name record for
  Art,        \* what the map's own art draws: "both" labels, "names", "none"
  Outcomes,   \* what came of each order of the phase under review
  Nil,
  MaxChanges  \* bound on the page's changes: switches, styles, reviews

ASSUME PictureAssumption ==
  /\ Art \subseteq {"both", "names", "none"}
  /\ Nil \notin [at : Lands, draft : {"none", "legal", "bluff"}, old : BOOLEAN, marks : SUBSET Lands]

VARIABLES
  art,      \* the map of this game
  page,     \* Board.tsx: [state, review, hide, brief, pieces, style, told]
  mount,    \* the board: what it was told and has not been drawn to yet
  canvas,   \* what each layer shows
  stack,    \* the board's own layers, lowest first
  sent,     \* the order that is with the server, or Nil
  changes

drawVars == <<art, page, mount, canvas, stack, sent, changes>>

Drafts == [Lands -> {"none", "legal", "bluff"}]
NoState == [known |-> FALSE, phase |-> "movement", drafts |-> [p \in Lands |-> "none"]]
Blank == [orders |-> {}, units |-> {}, names |-> {}, codes |-> {}, art |-> {}, lit |-> {}]

(* A board of its own: nothing of the one it replaces but what the page    *)
(* hands over at mount.                                                    *)
Mounted(pg) ==
  [loaded |-> FALSE, state |-> pg.state, review |-> pg.review, hide |-> pg.hide,
   brief |-> pg.brief, pieces |-> pg.pieces, style |-> pg.style,
   illegal |-> {}, selected |-> Nil, builder |-> Nil, zoom |-> 1]

DrawInit ==
  /\ art \in Art
  /\ page = [state |-> NoState, review |-> FALSE, hide |-> FALSE, brief |-> FALSE,
             pieces |-> "tokens", style |-> "day", told |-> {}]
  /\ mount = Mounted(page)
  /\ canvas = Blank
  /\ stack = <<>>
  /\ sent = Nil
  /\ changes = 0

-----------------------------------------------------------------------------
(* Pictures.                                                               *)

Drafted(b) == {p \in Lands : b.state.drafts[p] # "none"}

(* outcomePaint(outcomeOf()): ink that survives the map's own art. *)
Tone(b, p) == IF Outcomes[p] = "success" THEN b.style ELSE Outcomes[p]

Weight(b, p) ==
  IF b.selected = Nil THEN "plain" ELSE IF b.selected = p THEN "hot" ELSE "dim"

(* A review draws the public record in its outcomes; the live board this   *)
(* seat's drafts, unless they are switched off, the bluffs in amber.       *)
OrdersShown(b) ==
  {[at |-> p,
    tone |-> IF b.review THEN Tone(b, p) ELSE IF p \in b.illegal THEN "amber" ELSE "power",
    weight |-> Weight(b, p), zoom |-> b.zoom] :
     p \in IF b.review THEN Lands ELSE IF b.hide THEN {} ELSE Drafted(b)}

UnitsShown(b) ==
  {[spoken |-> IF b.review THEN {} ELSE Drafted(b), pieces |-> b.pieces, zoom |-> b.zoom,
    ringed |-> IF b.review THEN "thrown out then" ELSE b.state.phase]}

(* Records are used where they came with a state and the art draws none. *)
FromRecords(b) == b.state.known /\ art = "none"

(* A province whose name does not fit shows its code among the names. *)
NamesShown(b) ==
  IF FromRecords(b) /\ ~b.brief
  THEN {<<p, IF p \in Named THEN "name" ELSE "code">> : p \in Lands} ELSE {}

CodesShown(b) ==
  IF b.brief /\ art # "both"
  THEN {[at |-> p, ink |-> b.style, zoom |-> b.zoom] : p \in Lands} ELSE {}

(* The art's own layers are shown and hidden, not drawn. *)
ArtShown(b) ==
  {<<p, IF b.brief THEN "code" ELSE "name">> : p \in IF art = "both" THEN Lands ELSE {}}
  \cup {<<p, "name">> : p \in IF art = "names" /\ ~b.brief THEN Lands ELSE {}}

(* A review invites no tap; a retreat or an adjustment marks what must act *)
(* until a unit is picked.                                                 *)
Lit(b) ==
  CASE b.review -> {}
    [] ~b.review /\ b.builder # Nil -> {b.builder}
    [] OTHER -> IF b.state.known /\ b.state.phase # "movement" THEN Lands ELSE {}

renderOrders(c, b) == [c EXCEPT !.orders = OrdersShown(b)]
renderUnits(c, b) == [c EXCEPT !.units = UnitsShown(b)]
renderBriefLabels(c, b) == [c EXCEPT !.codes = CodesShown(b), !.art = ArtShown(b)]
renderDataNames(c, b) == [c EXCEPT !.names = NamesShown(b)]

\* Mutant of renderOverlays: the pieces keep the size of the last zoom.
OrdersFollow(c, b) == renderBriefLabels(renderOrders(c, b), b)

renderOverlays(c, b) == renderBriefLabels(renderUnits(renderOrders(c, b), b), b)

renderAll(c, b) == [renderDataNames(renderOverlays(c, b), b) EXCEPT !.lit = Lit(b)]

-----------------------------------------------------------------------------
(* The stack of layers.                                                    *)

LayerAt(s, id) == CHOOSE i \in 1..Len(s) : s[i] = id

overlay(s, id) == IF Contains(s, id) THEN s ELSE Append(s, id)
Without(s, id) == IF Contains(s, id) THEN RemoveAt(s, LayerAt(s, id)) ELSE s

(* insertBefore, unless it is there already. *)
Under(s, id, other) ==
  LET rest == Without(overlay(s, id), id)
  IN  InsertAt(rest, LayerAt(rest, other), id)

overlayLayer(s) == Under(overlay(overlay(s, "orders"), "units"), "orders", "units")

BriefLayer(s, b) ==
  CASE art = "both" -> Without(s, "codes")
    [] art # "both" /\ ~b.brief -> overlay(s, "codes")
    [] OTHER -> Under(overlay(overlay(s, "codes"), "units"), "codes", "units")

DataLayers(s, b) ==
  IF FromRecords(b) THEN overlay(overlay(s, "centres"), "names")
  ELSE Without(Without(s, "centres"), "names")

(* The five from the lowest to the highest, those there are. *)
orderDrawnLayers(s) ==
  LET only(id) == IF Contains(s, id) THEN <<id>> ELSE <<>>
  IN  only("centres") \o only("names") \o only("codes") \o only("orders") \o only("units")

OverlaysStack(s, b) == BriefLayer(overlayLayer(s), b)
AllStack(s, b) == orderDrawnLayers(BriefLayer(DataLayers(overlayLayer(s), b), b))

-----------------------------------------------------------------------------
(* The board's calls: what it was told, then the redraw that belongs to it *)
(* once the map is there.                                                  *)

Redraw(b, picture, layers) ==
  /\ mount' = b
  /\ canvas' = IF b.loaded THEN picture ELSE canvas
  /\ stack' = IF b.loaded THEN layers ELSE stack

RedrawAll(b) == Redraw(b, renderAll(canvas, b), AllStack(stack, b))
RedrawOverlays(b) == Redraw(b, renderOverlays(canvas, b), OverlaysStack(stack, b))

(* ready: the map is in, the view is set, everything is drawn. *)
MapLoads ==
  /\ ~mount.loaded
  /\ LET b == [mount EXCEPT !.loaded = TRUE]
     IN  /\ mount' = b
         /\ canvas' = renderAll(renderOverlays(canvas, b), b)
         /\ stack' = AllStack(OverlaysStack(stack, b), b)
  /\ UNCHANGED <<art, page, sent, changes>>

(* Marks of drafts that are gone go; a new kind of phase ends the builder. *)
Updated(b, state) ==
  [b EXCEPT !.state = state,
            !.builder = IF state.phase # b.state.phase THEN Nil ELSE @,
            !.illegal = {p \in @ : state.drafts[p] # "none"},
            !.selected = IF @ # Nil /\ state.drafts[@] = "none" THEN Nil ELSE @]

(* reportIllegal(), only when a mark was dropped. *)
Told(pg, before, after) == IF before # after THEN after ELSE pg.told

update(state) ==
  LET b == Updated(mount, state)
  IN  /\ page' = [page EXCEPT !.state = state, !.told = Told(page, mount.illegal, b.illegal)]
      /\ RedrawAll(b)

(* The first state, and every new phase with nothing drafted. *)
StateArrives ==
  /\ sent = Nil /\ changes < MaxChanges
  /\ changes' = IF page.state.known THEN changes + 1 ELSE changes
  /\ \E phase \in {"movement", "retreat"} :
       update([NoState EXCEPT !.known = TRUE, !.phase = phase])
  /\ UNCHANGED <<art, sent>>

Switched(pg) ==
  /\ changes < MaxChanges /\ changes' = changes + 1
  /\ page' = pg
  /\ UNCHANGED <<art, sent>>

(* showReview(): a half-built order belongs to the live board. *)
Reviewed(b, on) ==
  [b EXCEPT !.review = on, !.builder = IF on THEN Nil ELSE @, !.selected = IF on THEN Nil ELSE @]

showReviewOf ==
  /\ Switched([page EXCEPT !.review = ~@])
  /\ RedrawAll(Reviewed(mount, ~page.review))

setHideOrders ==
  /\ Switched([page EXCEPT !.hide = ~@])
  /\ LET b == [mount EXCEPT !.hide = ~@]
     IN  Redraw(b, renderOrders(canvas, b), overlay(stack, "orders"))

setBriefLabels ==
  /\ Switched([page EXCEPT !.brief = ~@])
  /\ LET b == [mount EXCEPT !.brief = ~@]
     IN  Redraw(b, renderBriefLabels(renderDataNames(canvas, b), b),
                orderDrawnLayers(BriefLayer(DataLayers(stack, b), b)))

OtherPieces(style) == IF style = "tokens" THEN "cannon" ELSE "tokens"
setMarkerStyle ==
  /\ Switched([page EXCEPT !.pieces = OtherPieces(@)])
  /\ LET b == [mount EXCEPT !.pieces = OtherPieces(@)]
     IN  Redraw(b, renderOrders(renderUnits(canvas, b), b), overlayLayer(stack))

(* Another map style is another board: the map is fetched again, and the   *)
(* answer to an order of the old one still comes.                          *)
Remount ==
  /\ changes < MaxChanges /\ changes' = changes + 1
  /\ page' = [page EXCEPT !.style = IF @ = "day" THEN "midnight" ELSE "day"]
  /\ mount' = Mounted(page')
  /\ canvas' = Blank
  /\ stack' = <<>>
  /\ sent' = IF sent = Nil \/ sent.old THEN sent
             ELSE [sent EXCEPT !.old = TRUE, !.marks = mount.illegal]
  /\ UNCHANGED art

(* selectOrder(), from the list of orders, which is out of reach in a review. *)
selectOrder(p) ==
  /\ ~page.review /\ page.state.drafts[p] # "none"
  /\ LET b == [mount EXCEPT !.selected = IF @ = p THEN Nil ELSE p]
     IN  Redraw(b, renderOrders(canvas, b), overlay(stack, "orders"))
  /\ UNCHANGED <<art, page, sent, changes>>

(* Any pan, zoom or change of the pane's shape. *)
Zoomed ==
  /\ mount.loaded
  /\ RedrawOverlays([mount EXCEPT !.zoom = 3 - @])
  /\ UNCHANGED <<art, page, sent, changes>>

(* A unit's options are in, also late in a review, or the builder is left. *)
PickUnit(p) ==
  /\ mount.loaded /\ mount.state.known
  /\ RedrawAll([mount EXCEPT !.builder = IF @ = p THEN Nil ELSE p])
  /\ UNCHANGED <<art, page, sent, changes>>

-----------------------------------------------------------------------------
(* Orders: sent now, drawn when the answer is in.                          *)

Away(p, draft) == [at |-> p, draft |-> draft, old |-> FALSE, marks |-> {}]

(* A tree's order, or a bluff, which is marked before it is sent. *)
PostDraft(draft) ==
  /\ sent = Nil /\ mount.builder # Nil
  /\ sent' = Away(mount.builder, draft)
  /\ mount' = [mount EXCEPT !.builder = Nil,
                            !.illegal = IF draft = "bluff" THEN @ \cup {mount.builder} ELSE @]
  /\ page' = IF draft = "bluff" THEN [page EXCEPT !.told = mount'.illegal] ELSE page
  /\ UNCHANGED <<art, canvas, stack, changes>>

DropDraft(p) ==
  /\ sent = Nil /\ ~page.review /\ mount.state.drafts[p] # "none"
  /\ sent' = Away(p, "none")
  /\ mount' = [mount EXCEPT !.builder = IF @ = p THEN Nil ELSE @, !.selected = Nil]
  /\ UNCHANGED <<art, page, canvas, stack, changes>>

(* The mark goes with the draft it was on, or with the bluff that failed. *)
MarksAfter(marks, call, taken) ==
  IF taken = (call.draft = "bluff") THEN marks ELSE marks \ {call.at}

(* The answer: the page is told the new state, the board redraws it all.   *)
(* One that belongs to a board that is gone has only the page to tell.     *)
StateAnswered ==
  /\ sent # Nil
  /\ sent' = Nil
  /\ \E taken \in BOOLEAN :
       LET marks == MarksAfter(IF sent.old THEN sent.marks ELSE mount.illegal, sent, taken)
           pg == [page EXCEPT
                    !.state.drafts[sent.at] = IF taken THEN sent.draft ELSE @,
                    !.told = Told(page, IF sent.old THEN sent.marks ELSE mount.illegal, marks)]
           b == Updated(IF sent.old THEN mount ELSE [mount EXCEPT !.illegal = marks], pg.state)
       IN  /\ page' = pg
           /\ RedrawAll(b)
  /\ UNCHANGED <<art, changes>>

DrawNext ==
  \/ MapLoads \/ StateArrives \/ showReviewOf \/ setHideOrders \/ setBriefLabels
  \/ setMarkerStyle \/ Remount \/ Zoomed \/ StateAnswered
  \/ \E p \in Lands : selectOrder(p) \/ PickUnit(p) \/ DropDraft(p)
  \/ \E draft \in {"legal", "bluff"} : PostDraft(draft)

DrawSpec == DrawInit /\ [][DrawNext]_drawVars

-----------------------------------------------------------------------------
(* Properties.                                                             *)

(* Nothing on the map is old: with no order away, the orders, the pieces,  *)
(* the codes and the lit provinces are those of what the board was last    *)
(* told (update, showReview, the switches, the zoom).                      *)
NothingStale ==
  sent = Nil =>
    /\ canvas.orders = OrdersShown(mount) /\ canvas.units = UnitsShown(mount)
    /\ canvas.codes = CodesShown(mount) /\ canvas.lit = Lit(mount)

(* A review is a picture of what happened: no draft of this seat, no mark  *)
(* only its writer may see and no picked order shows on it (showReview).   *)
ReviewIsPublic ==
  mount.review =>
    /\ {o.at : o \in canvas.orders} = Lands
    /\ \A o \in canvas.orders : o.tone \in {Tone(mount, p) : p \in Lands} /\ o.weight # "dim"
    /\ \A u \in canvas.units : u.spoken = {}

(* However the map's art, the placement table and the codes switch meet,   *)
(* no province carries two labels, and each has one once a state is in     *)
(* (renderDataNames, renderBriefLabels, applyDrawnLabelLayers).            *)
Labels(p) ==
  Cardinality({l \in canvas.art : l[1] = p}) + Cardinality({l \in canvas.names : l[1] = p})
    + Cardinality({l \in canvas.codes : l.at = p})
OneLabelEach ==
  \A p \in Lands : Labels(p) <= 1 /\ (mount.state.known => Labels(p) = 1)

(* Pieces lie over every name, code and arrow, whatever order the layers   *)
(* were made in (overlayLayer, orderDrawnLayers).                          *)
PiecesOnTop == Contains(stack, "units") => Last(stack) = "units"

(* Each call redraws only the layers it thinks it touches; whichever of    *)
(* them came in which order, before and after the map was in, what the     *)
(* player sees is what the board was told and nothing else.                *)
MapIsUpToDate ==
  mount.loaded => NothingStale /\ ReviewIsPublic /\ OneLabelEach /\ PiecesOnTop
=============================================================================
