------------------------------- MODULE MCParts --------------------------------
(***************************************************************************)
(* Small instances, for TLC, of the parts that meet the sealed game only   *)
(* through the server's answers: the map, press, the game master's desk,   *)
(* the seats, the lists and the watch page.  In these models they share no *)
(* state, so one behaviour is one part's: the subject is chosen at the     *)
(* start, and every other part rests.                                      *)
(***************************************************************************)
EXTENDS BoardOrders, MapGestures, BoardDrawing, PressPins, PressRoom, TableBoard,
        DrawVote, MasterKey, SandboxBoard, GamesList, PhaseWalk, GmDesk, ReviewSheet,
        SeatKeys, PhaseClock

VARIABLE subject   \* the part this behaviour is about

allPartVars ==
  <<boardVars, gestureVars, drawVars, pressVars, roomVars, tableVars,
    drawVoteVars, keyVars, sandboxVars, listVars, walkVars, deskVars, reviewVars, seatVars, clockVars>>

Subjects ==
  {"orders", "gestures", "drawing", "pins", "room", "table", "vote", "key", "sandbox",
   "list", "walk", "desk", "review", "seats", "clock"}

(***************************************************************************)
(* The constants.                                                          *)
(***************************************************************************)

\* A fleet that meets a province of two coasts, an army beside it, a neighbour.
MCShapes == {"mar", "por", "gas", "spa", "spa/nc", "spa/sc"}
MCBase == [s \in MCShapes |-> IF s \in {"spa/nc", "spa/sc"} THEN "spa" ELSE s]
MCUnits == [u \in {"mar", "por", "gas"} |-> IF u = "gas" THEN "France" ELSE "Italy"]
MCKinds == <<"movement", "retreat">>
MCMovement ==
  [s \in MCShapes |->
    CASE s = "mar" -> {<<"Hold">>, <<"Move", "spa">>, <<"Move", "gas">>, <<"Support", "gas", "gas">>}
      [] s = "por" -> {<<"Hold">>, <<"Move", "spa/nc">>, <<"Move", "spa/sc">>,
                       <<"Support", "mar", "spa">>}
      [] OTHER -> {}]
MCRetreat == [s \in MCShapes |-> IF s = "mar" THEN {<<"Move", "spa">>, <<"Disband">>} ELSE {}]
MCTrees == <<MCMovement, MCRetreat>>

\* A map twice as wide as high, in a pane of its shape and in a wider one.
MCMapBox == [x |-> 0, y |-> 0, w |-> 4, h |-> 2]
MCPanes == {[width |-> 4, height |-> 2], [width |-> 8, height |-> 2]}

MCOutcomes == [p \in Lands |-> IF p = "a" THEN "success" ELSE "failed"]

\* The openings of two powers on three provinces in which both have a unit,
\* but for the names of powers and provinces.
MCProvinces == {"x", "y", "z"}
MCOpenings == {[p \in MCProvinces |-> IF p = "x" THEN "A" ELSE IF p = "y" THEN "G" ELSE last] :
                 last \in {"A", Nobody}}

MCBallots == {{"A"}, {"A", "G"}, Voter}

\* A board of each kind of phase; the second asks one power of the two.
MCPowers == <<"A", "G">>
MCSites == {"a1", "g1"}
MCOwner == [p \in MCSites |-> IF p = "g1" THEN "G" ELSE "A"]
MCPhases == <<"movement", "retreat">>
MCBudget == <<[A |-> 1, G |-> 1], [A |-> 0, G |-> 1]>>

\* No clock, and one of two minutes with the least share for retreats.
MCEntered == {[minutes |-> -1, percent |-> 50, grace |-> 0, extra |-> 0],
              [minutes |-> 2, percent |-> 0, grace |-> 1, extra |-> 1]}
MCExtensions == {0}
MCSkews == {-1, 1}

(***************************************************************************)
(* One subject at a time.                                                  *)
(***************************************************************************)
\* Parts that start in several ways start in one of them while they rest.
OneStart ==
  /\ subject # "gestures" => pane.width = 4 /\ view = resetView(pane, FALSE)
  /\ subject # "drawing" => art = "none"
  /\ subject # "pins" => seat.sign = 0
  /\ subject # "table" => position["z"] = Nobody
  /\ subject # "key" => address["s2"] = -1
  /\ subject # "walk" => live = 0 /\ at = Live
  /\ subject # "clock" => phase.rules.minutes = 0 /\ device.skew = 1

PartsInit ==
  /\ subject \in Subjects
  /\ BoardInit /\ GestureInit /\ DrawInit /\ PressInit /\ RoomInit
  /\ TableInit /\ VoteInit /\ KeyInit
  /\ SandboxInit /\ ListInit /\ WalkInit /\ DeskInit /\ ReviewInit /\ SeatInit
  /\ ClockInit
  /\ OneStart

OthersRest(s) ==
  /\ s # "orders" => UNCHANGED boardVars
  /\ s # "gestures" => UNCHANGED gestureVars
  /\ s # "drawing" => UNCHANGED drawVars
  /\ s # "pins" => UNCHANGED pressVars
  /\ s # "room" => UNCHANGED roomVars
  /\ s # "table" => UNCHANGED tableVars
  /\ s # "vote" => UNCHANGED drawVoteVars
  /\ s # "key" => UNCHANGED keyVars
  /\ s # "sandbox" => UNCHANGED sandboxVars
  /\ s # "list" => UNCHANGED listVars
  /\ s # "walk" => UNCHANGED walkVars
  /\ s # "desk" => UNCHANGED deskVars
  /\ s # "review" => UNCHANGED reviewVars
  /\ s # "seats" => UNCHANGED seatVars
  /\ s # "clock" => UNCHANGED clockVars
  /\ UNCHANGED subject

PartsNext ==
  \/ subject = "orders" /\ BoardNext /\ OthersRest("orders")
  \/ subject = "gestures" /\ GestureNext /\ OthersRest("gestures")
  \/ subject = "drawing" /\ DrawNext /\ OthersRest("drawing")
  \/ subject = "pins" /\ PressNext /\ OthersRest("pins")
  \/ subject = "room" /\ RoomNext /\ OthersRest("room")
  \/ subject = "table" /\ TableNext /\ OthersRest("table")
  \/ subject = "vote" /\ VoteNext /\ OthersRest("vote")
  \/ subject = "key" /\ KeyNext /\ OthersRest("key")
  \/ subject = "sandbox" /\ SandboxNext /\ OthersRest("sandbox")
  \/ subject = "list" /\ ListNext /\ OthersRest("list")
  \/ subject = "walk" /\ WalkNext /\ OthersRest("walk")
  \/ subject = "desk" /\ DeskNext /\ OthersRest("desk")
  \/ subject = "review" /\ ReviewNext /\ OthersRest("review")
  \/ subject = "seats" /\ SeatNext /\ OthersRest("seats")
  \/ subject = "clock" /\ ClockNext /\ OthersRest("clock")

PartsSpec == PartsInit /\ [][PartsNext]_<<subject, allPartVars>>

\* A state is told from another by its subject; the parts that rest never change.
SubjectView ==
  CASE subject = "orders" -> <<subject, boardVars>>
    [] subject = "gestures" -> <<subject, gestureVars>>
    [] subject = "drawing" -> <<subject, drawVars>>
    [] subject = "pins" -> <<subject, pressVars>>
    [] subject = "room" -> <<subject, roomVars>>
    [] subject = "table" -> <<subject, tableVars>>
    [] subject = "vote" -> <<subject, drawVoteVars>>
    [] subject = "key" -> <<subject, keyVars>>
    [] subject = "sandbox" -> <<subject, sandboxVars>>
    [] subject = "list" -> <<subject, listVars>>
    [] subject = "walk" -> <<subject, walkVars>>
    [] subject = "desk" -> <<subject, deskVars>>
    [] subject = "review" -> <<subject, reviewVars>>
    [] subject = "seats" -> <<subject, seatVars>>
    [] subject = "clock" -> <<subject, clockVars>>
===============================================================================
