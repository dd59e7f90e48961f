------------------------------ MODULE TableBoard -------------------------------
(***************************************************************************)
(* The real board, and the guide that says what to do to its pieces        *)
(* (web/src/referee.ts, components/RefereeGuide.tsx).  Each phase resolves *)
(* in the engine; the page turns the public record of it into acts, and a  *)
(* piece pusher does them in any order, ticking each.                      *)
(*                                                                         *)
(* A piece is its power: pieces of one power on one province are told      *)
(* apart by nobody, and one that is sent for and is not there comes from   *)
(* the box.  The engine (godip) is external: any outcome the rules could   *)
(* give is given, and a dislodged unit waits for the retreat phase, with   *)
(* somewhere to go or without.                                             *)
(***************************************************************************)
EXTENDS Integers, FiniteSets

CONSTANTS Province, Player,
          Nobody,        \* no piece
          Start,         \* the opening positions
          MaxTurns       \* phases resolved

ASSUME TableAssumption ==
  /\ IsFiniteSet(Province) /\ Nobody \notin Player
  /\ Start \subseteq [Province -> Player \cup {Nobody}]
  /\ MaxTurns \in Nat

VARIABLES position,    \* the game's units, by province
          dislodged,   \* the game's units waiting to retreat, by province
          turn,        \* phases resolved so far
          record,      \* previousPhase: the phase that resolved last
          table,       \* the pieces standing on the real board
          aside,       \* the pieces stood beside their province
          acted,       \* the acts of this guide the pusher has done
          done,        \* the acts ticked on the page
          astray       \* history: the pieces no guide had a true word for

tableVars == <<position, dislodged, turn, record, table, aside, acted, done, astray>>

NoUnits == [p \in Province |-> Nobody]
TableUnits(of) == {p \in Province : of[p] # Nobody}
NoPieces == [p \in Province |-> [w \in Player |-> 0]]
Pieces(of) == [p \in Province |-> [w \in Player |-> IF of[p] = w THEN 1 ELSE 0]]

(***************************************************************************)
(* The record of a resolved phase, as the server publishes it: the orders  *)
(* given ("Move" with its target, "Disband", "Build", "Other"), which came *)
(* off, who was dislodged by it, and the powers that a force found without *)
(* their orders in.  `ruled', which is not published, has the units that   *)
(* the rules took off the board and nobody had ordered off it.             *)
(***************************************************************************)
NoRecord == [kind |-> "none", parts |-> <<>>, powers |-> <<>>, failed |-> {},
             dislodged |-> NoUnits, nmr |-> {}, ruled |-> NoUnits]
Move(to) == [type |-> "Move", to |-> to]
Plain(type) == [type |-> type, to |-> Nobody]

(***************************************************************************)
(* The acts of a guide.  A province's order gives at most one, a dislodged *)
(* unit one more, and a power that sent nothing a note, which has no tick. *)
(***************************************************************************)
Act(id, group, doing, from, to, power) ==
  [id |-> id, group |-> group, doing |-> doing, from |-> from, to |-> to, power |-> power]

FailedMatters(r, p) == p \in r.failed

OrderActs(r) ==
  UNION {LET o == r.parts[p]
             w == r.powers[p]
         IN IF r.kind = "adjustment"
            THEN IF o.type = "Build" THEN {Act(<<"order", p>>, "placements", "place", p, p, w)}
                 ELSE IF o.type = "Disband"
                 THEN {Act(<<"order", p>>, "removals", "remove", p, p, w)}
                 ELSE {}
            ELSE IF r.kind = "retreat"
            THEN IF o.type = "Move" /\ ~FailedMatters(r, p)
                 THEN {Act(<<"order", p>>, "moves", "retreat", p, o.to, w)}
                 ELSE {Act(<<"order", p>>, "removals", "take", p, p, w)}
            ELSE IF o.type = "Move" /\ ~FailedMatters(r, p)
                 THEN {Act(<<"order", p>>, "moves", "move", p, o.to, w)}
                 ELSE {} : p \in DOMAIN r.parts}

StandActs(r) ==
  {Act(<<"dislodged", p>>, "removals", "stand", p, p, r.dislodged[p]) :
     p \in TableUnits(r.dislodged)}

NoteActs(r) == {Act(<<"nmr", w>>, "stays", "note", Nobody, Nobody, w) : w \in r.nmr}

\* Mutant of refereeGuide: a unit thrown out of its province is left standing.
DislodgedForgotten(r) == OrderActs(r) \cup NoteActs(r)
refereeGuide(r) == OrderActs(r) \cup StandActs(r) \cup NoteActs(r)

Ticked(r) == {a.id : a \in {b \in refereeGuide(r) : b.group # "stays"}}

(***************************************************************************)
(* The engine.                                                             *)
(***************************************************************************)
\* A unit the rules took from a power that is no NMR has no line and no note,
\* and an adjustment order that failed has the line of one that did not.
Untold(r) ==
  {<<p, r.ruled[p]>> : p \in {q \in TableUnits(r.ruled) : r.ruled[q] \notin r.nmr}}
    \cup {<<p, r.powers[p]>> : p \in {q \in r.failed : r.kind = "adjustment"}}

\* The table plays on when the pusher has done what the guide says.
PlayedOn == turn < MaxTurns /\ {a.id : a \in refereeGuide(record)} \subseteq acted

Resolved(kind, parts, powers, failed, out, nmr, ruled, next) ==
  /\ turn' = turn + 1
  /\ record' = [kind |-> kind, parts |-> parts, powers |-> powers, failed |-> failed,
                dislodged |-> out, nmr |-> nmr, ruled |-> ruled]
  /\ position' = next
  /\ dislodged' = out
  /\ acted' = {}
  /\ astray' = astray \cup Untold(record')
  /\ UNCHANGED <<table, aside>>

Owners(of, given) == [p \in given |-> of[p]]
Owing(of) == {of[p] : p \in TableUnits(of)}

\* Who may be an NMR: a power whose seat a force finds unrevealed loses its
\* drafts with it.  One that revealed an empty list is none.
Silent(asked, powers) == asked \ {powers[p] : p \in DOMAIN powers}

(***************************************************************************)
(* New ticks for a new guide: the page starts over when the title changes, *)
(* and every phase has a title of its own.                                 *)
(***************************************************************************)
GuideOver == done' = {}

\* A movement phase: the moves of `ok' come off, and a standing unit of
\* another power in the way is dislodged.
ResolveMovement ==
  /\ PlayedOn /\ TableUnits(dislodged) = {} /\ record.kind # "retreat"
  /\ \E given \in SUBSET TableUnits(position) :
     \E aim \in [given -> Province] :
     \E ok \in SUBSET {p \in given : aim[p] # p} :
     \E cut \in SUBSET {p \in given : aim[p] = p} :
     \E nmr \in SUBSET Silent(Owing(position), Owners(position, given)) :
       LET target == {aim[p] : p \in ok}
           out == [p \in Province |->
                     IF p \in target /\ p \notin ok THEN position[p] ELSE Nobody]
           parts == [p \in given |-> IF aim[p] = p THEN Plain("Other") ELSE Move(aim[p])]
           next == [p \in Province |->
                      IF p \in target THEN position[CHOOSE q \in ok : aim[q] = p]
                      ELSE IF p \in ok THEN Nobody ELSE position[p]]
       IN /\ Cardinality(target) = Cardinality(ok)
          /\ \A q \in ok : out[aim[q]] # position[q]
          /\ cut \subseteq TableUnits(out)
          /\ Resolved("movement", parts, Owners(position, given),
                      ({p \in given : aim[p] # p} \ ok) \cup cut, out, nmr, NoUnits, next)
  /\ GuideOver

\* A retreat phase: each dislodged unit leaves the board, for want of an order
\* too, or goes to an empty province; two for one province both go.
ResolveRetreat ==
  /\ PlayedOn /\ TableUnits(dislodged) # {}
  /\ \E given \in SUBSET TableUnits(dislodged) :
     \E aim \in [given -> Province \cup {Nobody}] :
     \E nmr \in SUBSET Silent(Owing(dislodged), Owners(dislodged, given)) :
       LET moving == {p \in given : aim[p] # Nobody}
           alone == {p \in moving : \A q \in moving : aim[q] = aim[p] => q = p}
       IN \E ok \in SUBSET {p \in alone : position[aim[p]] = Nobody} :
            Resolved("retreat",
                     [p \in given |-> IF p \in moving THEN Move(aim[p]) ELSE Plain("Disband")],
                     Owners(dislodged, given), moving \ ok, NoUnits, nmr,
                     [p \in Province |-> IF p \in given THEN Nobody ELSE dislodged[p]],
                     [p \in Province |->
                        IF \E q \in ok : aim[q] = p
                        THEN dislodged[CHOOSE q \in ok : aim[q] = p] ELSE position[p]])
  /\ GuideOver

\* An adjustment: a power builds on empty provinces, or names units that go,
\* and the rules take what it owes beyond them.  Of the orders that the rules
\* never allowed nothing comes, and they stay in the record with their failure.
ResolveAdjustment ==
  /\ PlayedOn /\ TableUnits(dislodged) = {} /\ record.kind # "adjustment" /\ turn > 0
  /\ \E by \in [Province -> Player \cup {Nobody}] :
     \E bad \in SUBSET TableUnits(by) :
     \E built \in SUBSET {p \in TableUnits(by) : p \in bad \/ position[p] = Nobody} :
     \E taken \in SUBSET (TableUnits(position) \ TableUnits(by)) :
     \E nmr \in SUBSET Silent(Player, Owners(by, TableUnits(by))) :
       LET given == TableUnits(by)
           lost == taken \cup {p \in given \ bad : p \notin built}
       IN /\ \A p \in given : position[p] \in {Nobody, by[p]}
          /\ \A p \in given \ bad : p \in built <=> position[p] = Nobody
          /\ \A p \in built \ bad, q \in lost : position[q] # by[p]
          /\ Resolved("adjustment",
                      [p \in given |-> IF p \in built THEN Plain("Build") ELSE Plain("Disband")],
                      Owners(by, given), bad, NoUnits, nmr,
                      [p \in Province |-> IF p \in taken THEN position[p] ELSE Nobody],
                      [p \in Province |-> IF p \in built \ bad THEN by[p]
                                          ELSE IF p \in lost THEN Nobody ELSE position[p]])
  /\ GuideOver

(***************************************************************************)
(* The hands.  An act is done once, whatever the ticks say, and ticked.    *)
(***************************************************************************)
Shift(of, p, w, n) == [of EXCEPT ![p][w] = IF @ + n < 0 THEN 0 ELSE @ + n]

ActDone(a) ==
  CASE a.doing = "move" -> /\ table' = Shift(Shift(table, a.from, a.power, -1), a.to, a.power, 1)
                           /\ UNCHANGED aside
    [] a.doing = "retreat" -> /\ aside' = Shift(aside, a.from, a.power, -1)
                              /\ table' = Shift(table, a.to, a.power, 1)
    [] a.doing = "take" -> aside' = Shift(aside, a.from, a.power, -1) /\ UNCHANGED table
    [] a.doing = "stand" -> /\ table' = Shift(table, a.from, a.power, -1)
                            /\ aside' = Shift(aside, a.from, a.power, 1)
    [] a.doing = "place" -> table' = Shift(table, a.from, a.power, 1) /\ UNCHANGED aside
    [] a.doing = "remove" -> table' = Shift(table, a.from, a.power, -1) /\ UNCHANGED aside
    \* "any dislodged units without a retreat are removed", "apply the normal
    \* adjustment rules": the pusher does what the rules did to that power.
    [] a.doing = "note" ->
         /\ aside' = [p \in Province |->
                        IF record.kind = "retreat" THEN [aside[p] EXCEPT ![a.power] = 0]
                        ELSE aside[p]]
         /\ table' = [p \in Province |->
                        IF record.kind = "adjustment" /\ record.ruled[p] = a.power
                        THEN [table[p] EXCEPT ![a.power] = 0] ELSE table[p]]

Push(a) ==
  /\ a.id \notin acted
  /\ ActDone(a)
  /\ acted' = acted \cup {a.id}
  /\ done' = IF a.group = "stays" THEN done ELSE done \cup {a.id}
  /\ UNCHANGED <<position, dislodged, turn, record, astray>>

\* A tick put on or taken off by hand.
toggle(id) ==
  /\ id \in acted
  /\ done' = IF id \in done THEN done \ {id} ELSE done \cup {id}
  /\ UNCHANGED <<position, dislodged, turn, record, table, aside, acted, astray>>

\* Closing the guide unmounts it, and its ticks go with it.
CloseGuide == done # {} /\ done' = {}
              /\ UNCHANGED <<position, dislodged, turn, record, table, aside, acted, astray>>

TableInit ==
  /\ position \in Start /\ dislodged = NoUnits /\ turn = 0 /\ record = NoRecord
  /\ table = Pieces(position) /\ aside = NoPieces
  /\ acted = {} /\ done = {} /\ astray = {}

TableNext ==
  \/ ResolveMovement \/ ResolveRetreat \/ ResolveAdjustment
  \/ \E a \in refereeGuide(record) : Push(a)
  \/ \E id \in Ticked(record) : toggle(id)
  \/ CloseGuide

TableSpec == TableInit /\ [][TableNext]_tableVars

(***************************************************************************)
(* Properties.                                                             *)
(***************************************************************************)
\* The whole of the guide is done: every line that has a tick is ticked, and
\* the notes, which have none, are followed.
Followed ==
  /\ Ticked(record) \subseteq done
  /\ {a.id : a \in NoteActs(record)} \subseteq acted

\* referee.ts, "what to do to the pieces on the real board": when a guide is
\* followed, in whatever order and with however many interruptions, the real
\* board shows the game's position, and the pieces that wait to retreat stand
\* beside their provinces, but for the pieces that some guide had no true word
\* for: every other piece has had its line, and had it once.
OnlyTheUntoldAstray ==
  Followed =>
    \A p \in Province, w \in Player :
      <<p, w>> \notin astray => /\ table[p][w] = Pieces(position)[p][w]
                               /\ aside[p][w] = Pieces(dislodged)[p][w]
================================================================================
