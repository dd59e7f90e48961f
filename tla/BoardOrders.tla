--------------------------- MODULE BoardOrders ---------------------------
(***************************************************************************)
(* The map island of the web client (board/board.ts): how taps, double     *)
(* taps, chips, buttons and keys become orders, while the options the      *)
(* board asks for and the orders it posts are answered late, the page      *)
(* hands it new states and plans, and the review of the last phase is put  *)
(* over it.                                                                *)
(*                                                                         *)
(* A tree of options is the set of complete orders in it, an order being   *)
(* the sequence of parts the player taps; the province steps the board     *)
(* walks past by itself (skipAutoNodes) are left out of the sequences.     *)
(***************************************************************************)
EXTENDS Naturals, Sequences, FiniteSets

CONSTANTS
  Shapes,    \* the hit shapes of the map, which are also the province keys
  Base,      \* the province each shape is a part of
  Units,     \* [province key -> nation], the units on the board
  Kinds,     \* the kind of each phase, by number
  Trees,     \* [phase -> [Shapes -> set of complete orders]]
  Power,     \* the power of this seat
  None,
  MaxTaps,   \* bound on gestures
  MaxCalls   \* bound on calls in flight

\* The parts of an order are strings, and there is a first phase.
Words == STRING

ASSUME OrdersAssumption ==
  /\ None \notin Shapes
  /\ Len(Kinds) \in Nat \ {0}
  /\ \A ph \in 1..Len(Kinds) : \A p \in Shapes : Trees[ph][p] \subseteq Seq(Words)

VARIABLES
  board,     \* the closure's variables of mount()
  orderCalls,  \* options asked and orders posted, not answered yet
  orderDesk    \* the server: its phase and this seat's orders in it

boardVars == <<board, orderCalls, orderDesk>>

NoOrders == [p \in Shapes |-> <<>>]

BoardInit ==
  /\ board = [phase |-> 1, orders |-> NoOrders, plan |-> 1, builder |-> None, menu |-> {},
              review |-> FALSE, illegal |-> {}, epoch |-> 0, last |-> None,
              taps |-> 0]
  /\ orderCalls = {}
  /\ orderDesk = [phase |-> 1, orders |-> NoOrders]

-----------------------------------------------------------------------------
(* The option tree and the shapes.                                         *)

(* The keys of the node a walk of parts has reached. *)
Keys(tree, parts) ==
  {order[Len(parts) + 1] :
     order \in {o \in tree : Len(o) > Len(parts) /\ SubSeq(o, 1, Len(parts)) = parts}}

SameBase(keys, p) == {k \in keys : k \in Shapes /\ Base[k] = Base[p]}

\* Mutant of matchingKey: the shape under the finger is taken for the key.
MatchesTheShape(keys, p) == IF SameBase(keys, p) # {} THEN p ELSE None

(* Exact, then the base, then the one coast of that base. *)
matchingKey(keys, p) ==
  CASE p \in keys                       -> p
    [] p \notin keys /\ Base[p] \in keys -> Base[p]
    [] OTHER -> IF Cardinality(SameBase(keys, p)) = 1
                THEN CHOOSE k \in SameBase(keys, p) : TRUE ELSE None

(* The coasts of one province the tree offers more than one of. *)
coastKeys(keys, p) ==
  IF Base[p] \in keys \/ Cardinality(SameBase(keys, p)) < 2 THEN {} ELSE SameBase(keys, p)

(* Every shape a key lights: its own, and for a base province its coasts. *)
provinceShapes(key) ==
  IF key = Base[key] THEN {s \in Shapes : Base[s] = key} ELSE {key}

occupantOf(p) ==
  IF p \in DOMAIN Units THEN p
  ELSE LET there == SameBase(DOMAIN Units, p)
       IN  IF there = {} THEN None ELSE CHOOSE u \in there : TRUE

-----------------------------------------------------------------------------
(* The builder: an order half made.                                        *)

kind(bd) == Kinds[bd.plan]

MoveKeys(b) == IF b.short THEN Keys(b.tree, <<"Move">>) ELSE {}
SupportKeys(b) ==
  IF b.short /\ b.kind = "movement" THEN Keys(b.tree, <<"Support">>) ELSE {}
Dests(b) == IF b.support.legal THEN Keys(b.tree, <<"Support", b.support.src>>) ELSE {}

shortcutMode(b) ==
  CASE b.support # None -> "support"
    [] b.support = None /\ MoveKeys(b) \cup SupportKeys(b) # {} -> "pick"
    [] OTHER -> "walk"

(* The provinces lit at this step, which is where a tap should count. *)
highlightKeys(b) ==
  Shapes \cap (CASE shortcutMode(b) = "support" -> Dests(b)
                 [] shortcutMode(b) = "pick" -> MoveKeys(b) \cup SupportKeys(b)
                 [] OTHER -> Keys(b.tree, b.parts))

Taken(b, s) ==
  LET counts(keys) == matchingKey(keys, s) # None \/ coastKeys(keys, s) # {}
  IN  CASE shortcutMode(b) = "support" -> counts(Dests(b))
        [] shortcutMode(b) = "pick" -> counts(MoveKeys(b)) \/ matchingKey(SupportKeys(b), s) # None
        [] OTHER -> counts(Keys(b.tree, b.parts))

(* The buttons of the step: unit types and retreats are one tap each. *)
builderChoices(b) ==
  UNION {IF k = "Build" THEN {<<k, t>> : t \in Keys(b.tree, b.parts \o <<k>>)}
         ELSE IF b.parts = <<>> /\ b.kind = "retreat" /\ k = "Move" /\ b.short
              THEN {<<k, d>> : d \in MoveKeys(b)}
              ELSE {<<k>>} : k \in Keys(b.tree, b.parts)}

(* What a handler does: the board after it, and the calls it makes. *)
Done(bd) == [board |-> bd, send |-> {}]

Shut(bd) == [bd EXCEPT !.builder = None, !.menu = {}]

Post(bd, p, parts, why) ==
  [board |-> [bd EXCEPT !.builder = None],
   send |-> {[call |-> "order", prov |-> p, parts |-> parts, why |-> why, reply |-> None]}]

(* chooseOption and applyPath: a leaf is posted, anything else is shown. *)
Walk(bd, path) ==
  LET b == bd.builder
      parts == b.parts \o path
  IN  IF Keys(b.tree, parts) = {}
      THEN Post([bd EXCEPT !.menu = {}], b.prov, parts, "legal")
      ELSE Done([bd EXCEPT !.menu = {}, !.builder =
                   [b EXCEPT !.parts = parts, !.short = FALSE, !.support = None]])

chooseInBranch(bd, head, key) == Walk([bd EXCEPT !.builder.parts = head], <<key>>)

enterSupport(bd, src) ==
  IF Keys(bd.builder.tree, <<"Support", src>>) = {} THEN Done(bd)
  ELSE Done([bd EXCEPT !.menu = {}, !.builder.support = [src |-> src, legal |-> TRUE]])

CoastMenu(bd, head, coasts) ==
  Done([bd EXCEPT !.menu = {[act |-> "coast", head |-> head, key |-> c] : c \in coasts}])

takeMove(bd, p) ==
  LET coasts == coastKeys(MoveKeys(bd.builder), p)
      key == matchingKey(MoveKeys(bd.builder), p)
  IN  IF coasts # {} THEN CoastMenu(bd, <<"Move">>, coasts)
      ELSE IF key # None THEN chooseInBranch(bd, <<"Move">>, key) ELSE Done(bd)

(* Both readings legal: the chip asks. One alone is taken straight away. *)
offerChoice(bd, p) ==
  LET b == bd.builder
      canMove == matchingKey(MoveKeys(b), p) # None \/ coastKeys(MoveKeys(b), p) # {}
      support == matchingKey(SupportKeys(b), p)
  IN  IF canMove /\ support = None THEN takeMove([bd EXCEPT !.menu = {}], p)
      ELSE IF ~canMove THEN enterSupport([bd EXCEPT !.menu = {}], support)
      ELSE Done([bd EXCEPT !.menu = {[act |-> "attack", at |-> p],
                                     [act |-> "support", src |-> support]}])

(* An order the tree does not offer, written anyway and marked as such. *)
postIllegal(bd, parts) ==
  Post([bd EXCEPT !.illegal = @ \cup {bd.builder.prov}, !.menu = {}],
       bd.builder.prov, parts, "illegal")

Bluffs(bd, p) ==
  \/ shortcutMode(bd.builder) = "support"
  \/ /\ shortcutMode(bd.builder) = "pick"
     /\ occupantOf(p) # None => Units[occupantOf(p)] # Power

offerIllegal(bd, p) ==
  LET b == bd.builder
  IN  IF shortcutMode(b) = "support" THEN postIllegal(bd, <<"Support", b.support.src, p>>)
      ELSE IF occupantOf(p) = None THEN postIllegal(bd, <<"Move", p>>)
      ELSE Done([bd EXCEPT !.menu = {[act |-> "bluff", parts |-> <<"Move", p>>],
                                     [act |-> "bluffSupport", src |-> occupantOf(p)]}])

-----------------------------------------------------------------------------
(* Opening a unit.                                                         *)

Actionable(bd) ==
  IF kind(bd) = "movement" THEN {} ELSE {p \in Shapes : Trees[bd.plan][p] # {}}

Allowed(bd, p) ==
  IF kind(bd) # "movement" THEN p \in Actionable(bd) \/ bd.orders[p] # <<>>
  ELSE LET u == IF p \in DOMAIN Units THEN p ELSE Base[p]
       IN  u \in DOMAIN Units /\ Units[u] = Power

actionableKey(bd, p) ==
  IF p \in Actionable(bd) THEN p
  ELSE LET same == SameBase(Actionable(bd), p)
       IN  IF Cardinality(same) = 1 THEN CHOOSE k \in same : TRUE ELSE p

Builder(p, tree, ofKind, epoch) ==
  [prov |-> p, tree |-> tree, kind |-> ofKind, epoch |-> epoch, parts |-> <<>>,
   short |-> ofKind # "adjustment" /\ (Keys(tree, <<"Move">>) # {}
               \/ (ofKind = "movement" /\ Keys(tree, <<"Support">>) # {})),
   support |-> None]

(* A unit with no order to give shuts the builder and leaves the chip. *)
Opened(bd, p, tree, epoch) ==
  IF tree = {} THEN [bd EXCEPT !.builder = None]
  ELSE [bd EXCEPT !.menu = {}, !.builder = Builder(p, tree, kind(bd), epoch)]

AskOptions(bd, why, p) ==
  [board |-> [bd EXCEPT !.epoch = @ + 1],
   send |-> {[call |-> "options", why |-> why, prov |-> p, epoch |-> bd.epoch + 1,
              since |-> bd.phase]}]

(* A retreat or an adjustment has its tree in hand. *)
startOrder(bd, p) ==
  IF p \in Actionable(bd)
  THEN Done(Opened([bd EXCEPT !.epoch = @ + 1], p, Trees[bd.plan][p], bd.epoch + 1))
  ELSE AskOptions(bd, "start", p)

(* Nothing legal under the finger: put down what is open and start over. *)
StartOver(bd, p) ==
  LET outOfPhase == kind(bd) # "movement"
      unit == IF outOfPhase THEN actionableKey(bd, p) ELSE occupantOf(p)
      put == IF outOfPhase THEN Shut(bd) ELSE [bd EXCEPT !.menu = {}]
  IN  IF unit = None \/ ~Allowed(bd, unit) THEN Done(Shut(bd)) ELSE startOrder(put, unit)

onProvinceClick(bd, p) ==
  IF bd.review THEN Done(bd)
  ELSE IF bd.builder = None THEN StartOver(bd, p)
  ELSE LET b == bd.builder
           mode == shortcutMode(b)
           keys == IF mode = "support" THEN Dests(b) ELSE Keys(b.tree, b.parts)
           head == IF mode = "support" THEN <<"Support", b.support.src>> ELSE b.parts
       IN  IF mode = "pick"
           THEN IF Taken(b, p) THEN offerChoice(bd, p)
                ELSE IF Bluffs(bd, p) THEN offerIllegal(bd, p) ELSE StartOver(bd, p)
           ELSE IF coastKeys(keys, p) # {} THEN CoastMenu(bd, head, coastKeys(keys, p))
           ELSE IF matchingKey(keys, p) # None
                THEN chooseInBranch(bd, head, matchingKey(keys, p))
           ELSE IF Bluffs(bd, p) THEN offerIllegal(bd, p) ELSE StartOver(bd, p)

(* Double tapping a unit is a hold, in a movement phase only. *)
holdOrder(bd, unit) ==
  IF kind(bd) # "movement" THEN Done(bd)
  ELSE IF ~Allowed(bd, unit) THEN Done(Shut(bd)) ELSE AskOptions(bd, "hold", unit)

-----------------------------------------------------------------------------
(* What the player does.                                                   *)

Handle(result) ==
  /\ board.taps < MaxTaps
  /\ Cardinality(orderCalls) + Cardinality(result.send) <= MaxCalls
  /\ board' = [result.board EXCEPT !.taps = @ + 1]
  /\ orderCalls' = orderCalls \cup result.send
  /\ UNCHANGED orderDesk

Tap(p) == Handle(onProvinceClick([board EXCEPT !.last = p], p))

(* The second tap never reaches the click handler; a support under way     *)
(* keeps its second tap.                                                   *)
DoubleTap(p) ==
  /\ board.last = p
  /\ board.builder # None => board.builder.support = None
  /\ occupantOf(p) # None
  /\ Handle(holdOrder([Shut(board) EXCEPT !.last = None], occupantOf(p)))

PickFromMenu(item) ==
  LET shut == [board EXCEPT !.menu = {}]
  IN  /\ board.builder # None   \* without one the chip's row throws
      /\ CASE item.act = "attack"  -> Handle(takeMove(shut, item.at))
           [] item.act = "support" -> Handle(enterSupport(shut, item.src))
           [] item.act = "coast"   -> Handle(chooseInBranch(shut, item.head, item.key))
           [] item.act = "bluff"   -> Handle(postIllegal(shut, item.parts))
           [] OTHER -> Handle(Done([shut EXCEPT !.builder.support =
                                      [src |-> item.src, legal |-> FALSE]]))

(* A button of the bar, or its letter on the keyboard. *)
Take == /\ board.builder # None
        /\ \E path \in builderChoices(board.builder) : Handle(Walk(board, path))

escape ==
  Handle(Done(IF board.menu # {} THEN [board EXCEPT !.menu = {}]
              ELSE IF board.builder # None /\ board.builder.support # None
                   THEN [board EXCEPT !.builder.support = None]
                   ELSE [board EXCEPT !.builder = None]))

(* The panel's Remove and Change: both send an order with no parts. *)
cancelOrder(p, why) ==
  /\ board.orders[p] # <<>>
  /\ LET b == board.builder
         kept == IF b # None /\ b.prov = p THEN Shut(board) ELSE [board EXCEPT !.menu = {}]
         sent == Post(kept, p, <<>>, why)
     IN  Handle([sent EXCEPT !.board.builder = kept.builder])

Gesture ==
  \/ \E p \in Shapes : Tap(p) \/ DoubleTap(p)
  \/ \E item \in board.menu : PickFromMenu(item)
  \/ Take
  \/ escape
  \/ \E p \in Shapes, why \in {"cancel", "change"} : cancelOrder(p, why)

-----------------------------------------------------------------------------
(* What comes back.                                                        *)

(* A later gesture took over when the epoch moved on. *)
Current(call) == call.epoch = board.epoch

(* The options of a phase the server was in while the call was out. *)
OptionsAnswered(call) ==
  /\ call \in orderCalls /\ call.call = "options"
  /\ \E ph \in call.since .. orderDesk.phase :
       LET tree == Trees[ph][call.prov]
           opened == [board EXCEPT !.builder = Builder(call.prov, tree, "none", call.epoch)]
           result == IF ~Current(call) THEN Done(board)
                     ELSE IF call.why = "start"
                          THEN Done(Opened(board, call.prov, tree, call.epoch))
                     ELSE IF "Hold" \in Keys(tree, <<>>) THEN Walk(opened, <<"Hold">>)
                     ELSE Done(board)
       IN  /\ board' = result.board
           /\ orderCalls' = (orderCalls \ {call}) \cup result.send
  /\ UNCHANGED orderDesk

OptionsFailed(call) ==
  /\ call \in orderCalls /\ call.call = "options"
  /\ orderCalls' = orderCalls \ {call}
  /\ UNCHANGED <<board, orderDesk>>

(* The server keeps anything that parses, and answers with the state. *)
OrderServed(call) ==
  /\ call \in orderCalls /\ call.call = "order" /\ call.reply = None
  /\ orderDesk' = [orderDesk EXCEPT !.orders[call.prov] = call.parts]
  /\ orderCalls' = (orderCalls \ {call}) \cup {[call EXCEPT !.reply = orderDesk']}
  /\ UNCHANGED board

(* A mark is only ever of a draft still on the board. *)
Kept(bd, held) == {p \in bd.illegal : held[p] # <<>>}

(* An order off the tree, or a removal, takes the mark with it. *)
Unmarked(bd, call) ==
  IF call.why = "illegal" THEN bd ELSE [bd EXCEPT !.illegal = @ \ {call.prov}]

(* The answer replaces the state, and the page hands it straight back.     *)
AnswerTaken(bd, call) ==
  [Unmarked(bd, call) EXCEPT !.orders = call.reply.orders, !.phase = call.reply.phase,
                             !.illegal = Kept(Unmarked(bd, call), call.reply.orders)]

OrderAnswered(call) ==
  /\ call \in orderCalls /\ call.call = "order" /\ call.reply # None
  /\ LET taken == AnswerTaken(board, call)
         result == IF call.why = "change" THEN startOrder(taken, call.prov) ELSE Done(taken)
     IN  /\ board' = result.board
         /\ orderCalls' = (orderCalls \ {call}) \cup result.send
  /\ UNCHANGED orderDesk

(* A failed post is reported; a failed bluff loses its mark. A failed      *)
(* removal inside Change still opens the unit. When only the answer was    *)
(* lost, the server holds what the board thinks it does not.               *)
OrderFailed(call) ==
  /\ call \in orderCalls /\ call.call = "order"
  /\ LET bd == IF call.why = "illegal" THEN [board EXCEPT !.illegal = @ \ {call.prov}] ELSE board
         result == IF call.why = "change" THEN startOrder(bd, call.prov) ELSE Done(bd)
     IN  /\ board' = result.board
         /\ orderCalls' = (orderCalls \ {call}) \cup result.send
  /\ UNCHANGED orderDesk

(* update(): a plan of another kind throws away a half-built order. *)
Update(state, plan) ==
  LET bd == IF Kinds[plan] # Kinds[board.plan] THEN Shut(board) ELSE board
  IN  /\ board' = [bd EXCEPT !.phase = state.phase, !.orders = state.orders, !.plan = plan,
                             !.illegal = Kept(bd, state.orders)]
      /\ UNCHANGED <<orderCalls, orderDesk>>

(* The page reads the seat again, and the plan after it. *)
StateRead ==
  /\ orderDesk # [phase |-> board.phase, orders |-> board.orders]
  /\ Update(orderDesk, board.plan)
PlanRead ==
  /\ board.plan # board.phase
  /\ Update([phase |-> board.phase, orders |-> board.orders], board.phase)

(* The review of the phase before opens over the board, and is closed. *)
showReview(on) ==
  /\ board.review # on /\ board.phase > 1
  /\ board' = IF on THEN [Shut(board) EXCEPT !.review = TRUE] ELSE [board EXCEPT !.review = FALSE]
  /\ UNCHANGED <<orderCalls, orderDesk>>

(* The phase resolves at the server: its orders are spent. *)
PhaseAdvances ==
  /\ orderDesk.phase < Len(Kinds)
  /\ orderDesk' = [phase |-> orderDesk.phase + 1, orders |-> NoOrders]
  /\ UNCHANGED <<board, orderCalls>>

BoardNext ==
  \/ Gesture
  \/ \E call \in orderCalls :
       \/ OptionsAnswered(call) \/ OptionsFailed(call)
       \/ OrderServed(call) \/ OrderAnswered(call) \/ OrderFailed(call)
  \/ StateRead \/ PlanRead \/ PhaseAdvances
  \/ \E on \in BOOLEAN : showReview(on)

BoardSpec == BoardInit /\ [][BoardNext]_boardVars

-----------------------------------------------------------------------------
(* Properties.                                                             *)

Complete(p, parts) == \E ph \in 1..Len(Kinds) : parts \in Trees[ph][p]

(* A post the board takes for legal is a whole order of that unit's tree.   *)
PostsAreOffered ==
  \A c \in orderCalls : c.call = "order" /\ c.why = "legal" => Complete(c.prov, c.parts)

(* Every shape the board lights answers a tap.                             *)
LitShapesAnswer ==
  board.builder # None =>
    \A key \in highlightKeys(board.builder) :
      \A s \in provinceShapes(key) : Taken(board.builder, s)

(* The shape under the finger and the key in the tree need not be spelled  *)
(* alike, and the board never confuses them: what it lights can be tapped, *)
(* and what is tapped together from shapes, coasts, chips and buttons,     *)
(* whatever answers came late meanwhile, is an order the server offered    *)
(* (provinceShapes, matchingKey, coastKeys, chooseInBranch, takeMove).     *)
TapsSpeakTheTree == PostsAreOffered /\ LitShapesAnswer
=============================================================================
