------------------------------ MODULE GamesList --------------------------------
(***************************************************************************)
(* The list of games and the owner's delete (web/src/pages/GamesPage.tsx,  *)
(* web/src/pages/AdminPage.tsx, web/src/gamelist.ts, web/src/held.ts;      *)
(* internal/server/admin.go, registry.go, create.go).                      *)
(*                                                                         *)
(* The list is polled, and games come, start and go while the owner's      *)
(* finger is on its way: the rows move, and a row that moves to another    *)
(* block, or was gone for one answer, is a new row.  The admin page reads  *)
(* its table once.  On both, a first press arms a row and a second deletes.*)
(***************************************************************************)
EXTENDS Integers, Sequences, FiniteSets, SequencesExt

CONSTANTS Game,
          NoGame,
          MaxPolls, MaxDeletes

ASSUME ListAssumption == NoGame \notin Game /\ MaxPolls \in Nat /\ MaxDeletes \in Nat

VARIABLES games,     \* the registry: newest first, each with whether it has started
          born,      \* the ids handed out
          shownRows, \* GamesPage.games
          armed,     \* the rows of the list whose delete is armed, and where they stood
          polls,     \* answers to the list on their way
          adminTable, \* AdminPage's rows
          inPlay,    \* AdminPage's armed game
          busy,      \* AdminPage's busy game
          deletes,   \* deletes on their way: the page, the row, what was answered, and
                     \* (history) how often the row had been pressed
          pressed    \* history: presses on each page's row since it was last unarmed

listVars == <<games, born, shownRows, armed, polls, adminTable, inPlay, busy, deletes, pressed>>

Place(list, g) == CHOOSE i \in DOMAIN list : list[i].id = g
Listed(list) == {list[i].id : i \in DOMAIN list}
ListWithout(list, g) == IF g \in Listed(list) THEN RemoveAt(list, Place(list, g)) ELSE list

(***************************************************************************)
(* Where the list draws each: the games in progress before those setting   *)
(* up.  Those this device only has a key for stand below, with no delete.  *)
(***************************************************************************)
RowBlock(one) == IF one.started THEN "playing" ELSE "waiting"
groupRows(list) ==
  [k \in DOMAIN list |->
     Cardinality({j \in DOMAIN list : IF list[j].started = list[k].started THEN j <= k
                                      ELSE list[j].started})]

\* Rows keep what they hold by game and block.
Row(list, k) == [id |-> list[k].id, block |-> RowBlock(list[k]), place |-> groupRows(list)[k]]
Standing(list) == {[id |-> list[k].id, block |-> RowBlock(list[k])] : k \in DOMAIN list}
KeptRow(list) == {a \in armed : [id |-> a.id, block |-> a.block] \in Standing(list)}

\* Mutant of ArmedRow: a row is known by its place in the list.
ArmedPlace(row) == {a \in armed : a.place = row.place}
ArmedRow(row) == {a \in armed : a.id = row.id /\ a.block = row.block}

Unpressed(page, gs) ==
  [pressed EXCEPT ![page] = [g \in Game |-> IF g \in gs THEN 0 ELSE @[g]]]

\* The list replaced: rows that are new start unarmed, and a delete whose row
\* is no longer there has none to tell.
Redrawn(list) ==
  /\ shownRows' = list /\ armed' = KeptRow(list)
  /\ pressed' = Unpressed("list", Game \ {a.id : a \in KeptRow(list)})
  /\ deletes' = {IF d.page = "list" /\ [id |-> d.id, block |-> d.block] \notin Standing(list)
                 THEN [d EXCEPT !.block = "gone"] ELSE d : d \in deletes}

(***************************************************************************)
(* The server.                                                             *)
(***************************************************************************)
createGame(g) ==
  /\ g \notin born /\ born' = born \cup {g}
  /\ games' = <<[id |-> g, started |-> FALSE]>> \o games
  /\ UNCHANGED <<shownRows, armed, polls, adminTable, inPlay, busy, deletes, pressed>>

StartGame(g) ==
  /\ g \in Listed(games) /\ ~games[Place(games, g)].started
  /\ games' = [games EXCEPT ![Place(games, g)].started = TRUE]
  /\ UNCHANGED <<born, shownRows, armed, polls, adminTable, inPlay, busy, deletes, pressed>>

\* Refused when the owner's session is over, or the game is gone already.
handleAdminDeleteGame(d) ==
  /\ d.said = "none"
  /\ \E session \in BOOLEAN :
       /\ deletes' = (deletes \ {d}) \cup
            {[d EXCEPT !.said = IF session /\ d.id \in Listed(games) THEN "deleted" ELSE "refused"]}
       /\ games' = IF session THEN ListWithout(games, d.id) ELSE games
  /\ UNCHANGED <<born, shownRows, armed, polls, adminTable, inPlay, busy, pressed>>

handleListGames ==
  /\ Cardinality(polls) < MaxPolls /\ polls' = polls \cup {games}
  /\ UNCHANGED <<games, born, shownRows, armed, adminTable, inPlay, busy, deletes, pressed>>

(***************************************************************************)
(* The list.                                                               *)
(***************************************************************************)
Polled(list) ==
  /\ list \in polls /\ polls' = polls \ {list}
  /\ Redrawn(list)
  /\ UNCHANGED <<games, born, adminTable, inPlay, busy>>

Pressed(page, g) == pressed' = [pressed EXCEPT ![page][g] = IF @ = 2 THEN 2 ELSE @ + 1]
Sent(page, g, block) ==
  /\ Cardinality(deletes) < MaxDeletes
  /\ deletes' = deletes \cup {[page |-> page, id |-> g, block |-> block, said |-> "none",
                               presses |-> pressed[page][g] + 1]}

\* The delete of the row of the list's i-th game.
press(i) ==
  LET row == Row(shownRows, i)
  IN /\ i \in DOMAIN shownRows
     /\ ~\E d \in deletes : d.page = "list" /\ d.id = row.id /\ d.block = row.block
     /\ IF ArmedRow(row) = {} THEN armed' = armed \cup {row} /\ UNCHANGED deletes
        ELSE Sent("list", row.id, row.block) /\ UNCHANGED armed
     /\ Pressed("list", row.id)
     /\ UNCHANGED <<games, born, shownRows, polls, adminTable, inPlay, busy>>

\* ARMED_MS later.
Disarm(a) ==
  /\ armed' = armed \ {a} /\ pressed' = Unpressed("list", {a.id})
  /\ UNCHANGED <<games, born, shownRows, polls, adminTable, inPlay, busy, deletes>>

deleteGame(d) ==
  /\ d.page = "list" /\ d.said # "none"
  /\ deletes' = deletes \ {d}
  /\ shownRows' = IF d.said = "deleted" THEN ListWithout(shownRows, d.id) ELSE shownRows
  /\ LET over == {a \in armed : a.id = d.id /\ (d.said = "deleted" \/ a.block = d.block)}
     IN armed' = armed \ over /\ pressed' = Unpressed("list", {a.id : a \in over})
  /\ UNCHANGED <<games, born, polls, adminTable, inPlay, busy>>

(***************************************************************************)
(* The admin page: one armed row and one busy row at a time.               *)
(***************************************************************************)
OpenAdmin ==
  /\ adminTable = <<>> /\ adminTable' = games
  /\ UNCHANGED <<games, born, shownRows, armed, polls, inPlay, busy, deletes, pressed>>

pressAdmin(i) ==
  LET g == adminTable[i].id
  IN /\ i \in DOMAIN adminTable /\ busy # g
     /\ IF inPlay = g
        THEN Sent("admin", g, "table") /\ busy' = g /\ Pressed("admin", g) /\ UNCHANGED inPlay
        ELSE /\ inPlay' = g /\ UNCHANGED <<deletes, busy>>
             /\ pressed' = [pressed EXCEPT !["admin"] = [h \in Game |-> IF h = g THEN 1 ELSE 0]]
     /\ UNCHANGED <<games, born, shownRows, armed, polls, adminTable>>

DisarmAdmin ==
  /\ inPlay # NoGame /\ inPlay' = NoGame
  /\ pressed' = Unpressed("admin", Game)
  /\ UNCHANGED <<games, born, shownRows, armed, polls, adminTable, busy, deletes>>

remove(d) ==
  /\ d.page = "admin" /\ d.said # "none"
  /\ deletes' = deletes \ {d} /\ inPlay' = NoGame /\ busy' = NoGame
  /\ adminTable' = IF d.said = "deleted" THEN ListWithout(adminTable, d.id) ELSE adminTable
  /\ pressed' = Unpressed("admin", Game)
  /\ UNCHANGED <<games, born, shownRows, armed, polls>>

ListInit ==
  /\ games = <<>> /\ born = {} /\ shownRows = <<>> /\ armed = {} /\ polls = {}
  /\ adminTable = <<>> /\ inPlay = NoGame /\ busy = NoGame /\ deletes = {}
  /\ pressed = [page \in {"list", "admin"} |-> [g \in Game |-> 0]]

ListNext ==
  \/ \E g \in Game : createGame(g) \/ StartGame(g)
  \/ handleListGames \/ OpenAdmin \/ DisarmAdmin
  \/ \E list \in polls : Polled(list)
  \/ \E i \in 1..Cardinality(Game) : press(i) \/ pressAdmin(i)
  \/ \E a \in armed : Disarm(a)
  \/ \E d \in deletes : handleAdminDeleteGame(d) \/ deleteGame(d) \/ remove(d)

ListSpec == ListInit /\ [][ListNext]_listVars

(***************************************************************************)
(* Properties.                                                             *)
(***************************************************************************)
\* GamesPage.DeleteGame and AdminPage.GameTable: a game is only thrown away by
\* two presses on its own row while the first one stands, however the list
\* moved under the finger and whatever was armed or answered in between.
PressedTwice == \A d \in deletes : d.presses >= 2
================================================================================
