------------------------------ MODULE SealedGame ------------------------------
(***************************************************************************)
(* One sealed game (ADR-004, ADR-009, ADR-011) from its start to its end,  *)
(* as internal/server keeps it under the game's mutex: the seats' locks    *)
(* and envelopes, the reveal window, the orders on the board, the clock    *)
(* as far as it arms anything, and the adjudication that resolves a phase  *)
(* and settles the next one.                                               *)
(*                                                                         *)
(* Every seat of a started game is claimed: handleGMStart refuses a table  *)
(* with a free seat the game master does not take, and nothing unclaims a  *)
(* seat.  So "claimed" is not a variable here.                             *)
(*                                                                         *)
(* External: godip, which decides from the orders what the next position   *)
(* asks of whom, and whether somebody has won; both are left open here.    *)
(***************************************************************************)
EXTENDS Integers

CONSTANTS
  Power,          \* the variant's powers, one seat each
  Province,       \* provinces a power may order, in sorted order
  Order,          \* orders setOrder stores (valid, or kept as a misorder)
  Refused,        \* an entry setOrder or ownsProvince refuses
  NoOrder,        \* a province without an order
  Lists,          \* order lists the phones of this instance may seal
  NoEnvelope,     \* seat.sealed = ""
  Unplayed,       \* a phase with no watch snapshot yet
  EndPhase,       \* the phase whose beginning is past settings.EndYear
  maxAutoPhases   \* how far enterPhase may cascade

ASSUME PowerAssumption == Power # {}
ASSUME ProvinceAssumption == Province \subseteq Nat
ASSUME OrderAssumption == Refused \notin Order \cup {NoOrder} /\ NoOrder \notin Order
ASSUME ListsAssumption ==
  /\ Lists \subseteq [Province -> Order \cup {Refused, NoOrder}]
  /\ NoEnvelope \notin [Province -> Order \cup {Refused, NoOrder}]
ASSUME EndPhaseAssumption == EndPhase \in Nat \ {0}
ASSUME maxAutoPhasesAssumption == maxAutoPhases \in Nat \ {0}

VARIABLES
  started,      \* flow.started
  over,         \* flow.result # nil
  clock,        \* deadlineAt against the time and settings.GraceMinutes
  timed,        \* settings.DeadlineMinutes > 0
  phaseIndex,   \* flow.phaseIndex
  idle,         \* powers the position offers no order (godip)
  locked,       \* seat.locked
  autoLocked,   \* seat.autoLocked
  sealed,       \* seat.sealed: the order list inside, or NoEnvelope
  openable,     \* the phone holding the seat has the key to that envelope
  revealed,     \* seat.revealed
  parts,        \* game.parts, per owner
  commitments,  \* flow.commitments[phaseIndex]
  watch         \* game.watch, the record of every resolved phase

seatVars == <<locked, autoLocked, sealed, openable, revealed>>
boardVars == <<phaseIndex, idle, parts, commitments, watch>>
tableVars == <<started, over, clock, timed>>
vars == <<seatVars, boardVars, tableVars>>

-------------------------------------------------------------------------------

(***************************************************************************)
(* "none": no deadline.  "grace": the deadline has passed and the grace    *)
(* period has not.  "passed": graceEndsAt is behind us.                    *)
(***************************************************************************)
Clock == {"none", "running", "grace", "passed"}

Draft == [Province -> Order \cup {NoOrder}]
NoDraft == [v \in Province |-> NoOrder]

Snapshot == [orders      : [Power -> Draft],
             nmr         : SUBSET Power,
             commitments : [Power -> Lists \cup {NoEnvelope}]]

NoSnapshot == [orders      |-> [p \in Power |-> NoDraft],
               nmr         |-> {},
               commitments |-> [p \in Power |-> NoEnvelope]]

ASSUME UnplayedAssumption == Unplayed \notin Snapshot

\* The values the game's state can take.
TypeOK ==
  /\ started \in BOOLEAN
  /\ over \in BOOLEAN
  /\ clock \in Clock
  /\ timed \in BOOLEAN
  /\ phaseIndex \in 0..EndPhase
  /\ idle \in SUBSET Power
  /\ locked \in [Power -> BOOLEAN]
  /\ autoLocked \in [Power -> BOOLEAN]
  /\ sealed \in [Power -> Lists \cup {NoEnvelope}]
  /\ openable \in [Power -> BOOLEAN]
  /\ revealed \in [Power -> BOOLEAN]
  /\ parts \in [Power -> Draft]
  /\ commitments \in [Power -> Lists \cup {NoEnvelope}]
  /\ watch \in [0..(EndPhase - 1) -> Snapshot \cup {Unplayed}]

-------------------------------------------------------------------------------

\* Mutant: the idle seats are asked too.
AskedEverySeat == Power

\* The seats this phase asks for an order.
Asked == {p \in Power : ~autoLocked[p]}

Committed == {p \in Asked : sealed[p] # NoEnvelope}

\* The two ways in of ADR-009.
revealOpen ==
  /\ started
  /\ ~over
  /\ Committed # {}
  /\ \/ Committed = Asked
     \/ clock = "passed"

\* Mutants: only the seats that committed are waited for, or every seat is.
AwaitingCommitted(done) == {p \in Committed : ~done[p]}
AwaitingEverySeat(done) == {p \in Power : ~done[p]}

\* The seats the open window waits for, once the seats in done have revealed.
Awaiting(done) == {p \in Asked : ~done[p]}

awaitingReveal == IF revealOpen THEN Awaiting(revealed) ELSE {}

\* Mutant: a window no phone answers does not arm the game master.
canForceOnClock ==
  started /\ ~over /\ clock = "passed" /\ \E p \in Power : ~locked[p]

canForce ==
  /\ started
  /\ ~over
  /\ \/ awaitingReveal # {}
     \/ clock = "passed" /\ \E p \in Power : ~locked[p]

\* Where resetDeadline leaves the clock.
ResetDeadline(minutes) == IF minutes THEN "running" ELSE "none"

-------------------------------------------------------------------------------

(***************************************************************************)
(* The loop of handleSeatReveal over a list in province order: it stops at *)
(* the first entry that is refused, and an entry without an order leaves   *)
(* what the province had.                                                  *)
(***************************************************************************)
\* Mutant: a refused entry is skipped instead of ending the reveal.
OpensAnyway(list) == TRUE

Opens(list) == \A v \in Province : list[v] # Refused

Reached(list) == {v \in Province : \A u \in Province : u <= v => list[u] # Refused}

\* Mutant: what follows a refused entry is stored, and so is the entry.
AppliedPastRefusal(draft, list) ==
  [v \in Province |-> IF list[v] # NoOrder THEN list[v] ELSE draft[v]]

Applied(draft, list) ==
  [v \in Province |-> IF v \in Reached(list) /\ list[v] # NoOrder THEN list[v]
                      ELSE draft[v]]

-------------------------------------------------------------------------------

\* Mutant: a lock counts as an answer although its orders were never seen.
MissingUnlocked(opened) == {p \in Power : ~locked[p]}

\* The powers a forced phase records as NMR: not held by a lock that counts.
Missing(opened) ==
  {p \in Power : IF autoLocked[p] THEN ~locked[p] ELSE ~opened[p]}

NMR(dropUnlocked, opened) == IF dropUnlocked THEN Missing(opened) ELSE {}

\* The phase as the history files it: an NMR power's orders are dropped first.
Review(dropUnlocked, board, opened, made) ==
  [orders      |-> [p \in Power |-> IF p \in NMR(dropUnlocked, opened) THEN NoDraft
                                    ELSE board[p]],
   nmr         |-> NMR(dropUnlocked, opened),
   commitments |-> made]

\* The phase on the board once the running one and the cascade have resolved.
After(cascaded) == phaseIndex + 1 + cascaded

\* checkEnd: somebody has won, or the last year has been played.
Ends(cascaded, solo) == solo \/ After(cascaded) = EndPhase

(***************************************************************************)
(* advance, once for the phase filed as review and once for each of the    *)
(* cascaded phases, then enterPhase on the phase that offers the powers    *)
(* next no order: it locks them, unless the game has ended or it has given *)
(* up after maxAutoPhases, more than a year in which nobody had an order.  *)
(* Nothing has moved in it, so the phase it leaves asks nobody either.     *)
(***************************************************************************)
Resolve(review, cascaded, next, solo) ==
  /\ After(cascaded) <= EndPhase
  /\ ~Ends(cascaded, solo) => (next = Power <=> cascaded = maxAutoPhases)
  /\ phaseIndex' = After(cascaded)
  /\ idle' = next
  /\ over' = Ends(cascaded, solo)
  /\ clock' = IF Ends(cascaded, solo) THEN "none" ELSE ResetDeadline(timed)
  /\ autoLocked' = [p \in Power |-> /\ ~Ends(cascaded, solo)
                                    /\ cascaded < maxAutoPhases
                                    /\ p \in next]
  /\ locked' = autoLocked'
  /\ sealed' = [p \in Power |-> NoEnvelope]
  /\ openable' = [p \in Power |-> FALSE]
  /\ revealed' = [p \in Power |-> FALSE]
  /\ parts' = [p \in Power |-> NoDraft]
  /\ commitments' = [p \in Power |-> NoEnvelope]
  /\ watch' = [n \in 0..(EndPhase - 1) |->
                 IF n = phaseIndex THEN review
                 ELSE IF n \in phaseIndex..(After(cascaded) - 1) THEN NoSnapshot
                 ELSE watch[n]]
  /\ UNCHANGED <<started, timed>>

\* adjudicate, on the board, reveals and commitment record the phase ends with.
Adjudicate(dropUnlocked, board, opened, made) ==
  \E cascaded \in 0..maxAutoPhases, next \in SUBSET Power, solo \in BOOLEAN :
    Resolve(Review(dropUnlocked, board, opened, made), cascaded, next, solo)

-------------------------------------------------------------------------------

Init ==
  /\ started = FALSE
  /\ over = FALSE
  /\ clock = "none"
  /\ timed \in BOOLEAN
  /\ phaseIndex = 0
  /\ idle \in (SUBSET Power) \ {Power}
  /\ locked = [p \in Power |-> FALSE]
  /\ autoLocked = [p \in Power |-> FALSE]
  /\ sealed = [p \in Power |-> NoEnvelope]
  /\ openable = [p \in Power |-> FALSE]
  /\ revealed = [p \in Power |-> FALSE]
  /\ parts = [p \in Power |-> NoDraft]
  /\ commitments = [p \in Power |-> NoEnvelope]
  /\ watch = [n \in 0..(EndPhase - 1) |-> Unplayed]

\* handleGMStart.  Every variant's first position asks somebody, so enterPhase
\* locks the idle seats and does not cascade.
Start ==
  /\ ~started
  /\ started' = TRUE
  /\ clock' = ResetDeadline(timed)
  /\ autoLocked' = [p \in Power |-> p \in idle]
  /\ locked' = autoLocked'
  /\ UNCHANGED <<over, timed, sealed, openable, revealed, boardVars>>

\* Mutant: envelopes stay replaceable while the others reveal.
MayCommitInWindow(p) == started /\ ~over /\ ~autoLocked[p]

\* The guards handleSeatCommit and handleSeatUncommit share.
MayCommit(p) ==
  /\ started
  /\ ~over
  /\ ~revealOpen
  /\ ~autoLocked[p]

(***************************************************************************)
(* handleSeatCommit: the envelope replaces the seat's earlier one.  The    *)
(* request does not say which phase it was sealed for, so one that comes   *)
(* in after the phase has resolved is taken too, and no key opens it       *)
(* (fresh = FALSE).                                                        *)
(***************************************************************************)
Commit(p, list, fresh) ==
  /\ MayCommit(p)
  /\ fresh \/ phaseIndex > 0
  /\ sealed' = [sealed EXCEPT ![p] = list]
  /\ openable' = [openable EXCEPT ![p] = fresh]
  /\ revealed' = [revealed EXCEPT ![p] = FALSE]
  /\ locked' = [locked EXCEPT ![p] = TRUE]
  /\ UNCHANGED <<autoLocked, boardVars, tableVars>>

\* handleSeatUncommit.
Uncommit(p) ==
  /\ MayCommit(p)
  /\ sealed' = [sealed EXCEPT ![p] = NoEnvelope]
  /\ openable' = [openable EXCEPT ![p] = FALSE]
  /\ revealed' = [revealed EXCEPT ![p] = FALSE]
  /\ locked' = [locked EXCEPT ![p] = FALSE]
  /\ UNCHANGED <<autoLocked, boardVars, tableVars>>

\* The guards of handleSeatReveal, up to a key that opens the envelope.
MayReveal(p) ==
  /\ revealOpen
  /\ sealed[p] # NoEnvelope
  /\ ~revealed[p]
  /\ openable[p]

\* The board, the reveals and the commitment record with this envelope opened.
Laid(p) == [parts EXCEPT ![p] = Applied(@, sealed[p])]
Opened(p) == [revealed EXCEPT ![p] = TRUE]
Made(p) == [commitments EXCEPT ![p] = sealed[p]]

\* handleSeatReveal on a list with an entry the server refuses: what came
\* before the entry is on the board, the seat is not revealed, nothing is said.
RevealRefused(p) ==
  /\ MayReveal(p)
  /\ ~Opens(sealed[p])
  /\ parts' = Laid(p)
  /\ UNCHANGED <<seatVars, phaseIndex, idle, commitments, watch, tableVars>>

\* handleSeatReveal while other seats are still awaited.
Reveal(p) ==
  /\ MayReveal(p)
  /\ Opens(sealed[p])
  /\ Awaiting(Opened(p)) # {}
  /\ parts' = Laid(p)
  /\ revealed' = Opened(p)
  /\ commitments' = Made(p)
  /\ UNCHANGED <<locked, autoLocked, sealed, openable, phaseIndex, idle, watch, tableVars>>

\* handleSeatReveal of the last awaited seat: it adjudicates.
RevealLast(p) ==
  /\ MayReveal(p)
  /\ Opens(sealed[p])
  /\ Awaiting(Opened(p)) = {}
  /\ Adjudicate(FALSE, Laid(p), Opened(p), Made(p))

\* handleGMForce.
GMForce == canForce /\ Adjudicate(TRUE, parts, revealed, commitments)

\* handleGMExtend: from the deadline or from now, whichever is later.
GMExtend ==
  /\ ~over
  /\ clock' = "running"
  /\ UNCHANGED <<started, over, timed, seatVars, boardVars>>

\* handleGMSettings on the clock: it takes effect on the phase now running.
ChangeClock(minutes) ==
  /\ timed' = minutes
  /\ clock' = IF started /\ ~over THEN ResetDeadline(minutes) ELSE clock
  /\ UNCHANGED <<started, over, seatVars, boardVars>>

\* handleGMSettings on graceMinutes, read live by graceEndsAt.
ChangeGrace ==
  /\ clock \in {"grace", "passed"}
  /\ clock' \in {"grace", "passed"}
  /\ UNCHANGED <<started, over, timed, seatVars, boardVars>>

\* The hands-off end of a game: handleGMDraw or the last consent to a draw.
EndByDraw ==
  /\ started
  /\ ~over
  /\ over' = TRUE
  /\ clock' = "none"
  /\ UNCHANGED <<started, timed, seatVars, boardVars>>

TimePasses ==
  /\ \/ clock = "running" /\ clock' = "grace"
     \/ clock = "grace" /\ clock' = "passed"
  /\ UNCHANGED <<started, over, timed, seatVars, boardVars>>

\* The phone is lost with its key, or the seat moves to one without it.
LoseKey(p) ==
  /\ openable[p]
  /\ openable' = [openable EXCEPT ![p] = FALSE]
  /\ UNCHANGED <<locked, autoLocked, sealed, revealed, boardVars, tableVars>>

MoveClock == GMExtend \/ (\E minutes \in BOOLEAN : ChangeClock(minutes)) \/ ChangeGrace

SeatStep(p) ==
  \/ \E list \in Lists, fresh \in BOOLEAN : Commit(p, list, fresh)
  \/ Uncommit(p)
  \/ RevealRefused(p)
  \/ Reveal(p)
  \/ RevealLast(p)
  \/ LoseKey(p)

Next ==
  \/ Start
  \/ \E p \in Power : SeatStep(p)
  \/ GMForce
  \/ MoveClock
  \/ EndByDraw
  \/ TimePasses

Spec == Init /\ [][Next]_vars

(***************************************************************************)
(* The same game under a game master who leaves the clock and its settings *)
(* alone while a reveal window is open.                                    *)
(***************************************************************************)
SteadyNext ==
  \/ Start
  \/ \E p \in Power : SeatStep(p)
  \/ GMForce
  \/ ~revealOpen /\ MoveClock
  \/ EndByDraw
  \/ TimePasses

SteadySpec == Init /\ [][SteadyNext]_vars

\* SeatPage sends the key by itself once it sees the window open (ADR-009); the
\* request is taken to arrive.
PhonesReveal == \A p \in Power : WF_vars(Reveal(p) \/ RevealLast(p))

LiveSpec == Spec /\ PhonesReveal

-------------------------------------------------------------------------------
(* Properties *)

Playing == started /\ ~over

\* What the orders on the board say of every province the list orders.
Honours(draft, list) == \A v \in Province : list[v] # NoOrder => draft[v] = list[v]

\* Exactly the orders of the list, or none at all for NoEnvelope.
OrdersOf(list) ==
  IF list = NoEnvelope THEN NoDraft ELSE [v \in Province |-> list[v]]

\* A running phase is never one nobody can move: some seat may still lock in,
\* or the game master may force (enterPhase: no "screen with no button that
\* does anything").  It rests on the last reveal adjudicating by itself and on
\* enterPhase resolving a phase that asks nobody.
SomeoneCanAct ==
  Playing => canForce \/ (~revealOpen /\ \E p \in Power : ~locked[p])

\* ADR-010, deadlines arm the game master: whatever the seats have locked,
\* withdrawn or revealed, a deadline with its grace behind it means canForce.
DeadlineArmsGM == Playing /\ clock = "passed" => canForce

\* A seat counted as revealed has every order of its envelope on the board,
\* whatever earlier reveal, refusal or replacement the phase has seen.
RevealedOrdersStand ==
  \A p \in Power :
    revealed[p] => /\ sealed[p] # NoEnvelope
                   /\ Honours(parts[p], sealed[p])
                   /\ commitments[p] = sealed[p]

\* ADR-058: no order of a power is on the public record of a resolved phase
\* without a commitment of that power beside it.
OrdersHaveCommitments ==
  \A n \in 0..(phaseIndex - 1), p \in Power :
    watch[n].orders[p] # NoDraft => watch[n].commitments[p] # NoEnvelope

\* ADR-008 and ADR-010, the only two ways a phase resolves: every asked seat
\* is in and its envelope is what was played, or the game master was armed and
\* exactly the asked seats that had not revealed are NMR.
TwoPaths ==
  [][phaseIndex' # phaseIndex =>
       LET played == watch'[phaseIndex]
       IN \/ /\ played.nmr = {}
             /\ \A p \in Asked : /\ sealed[p] # NoEnvelope
                                 /\ Honours(played.orders[p], sealed[p])
          \/ /\ canForce
             /\ played.nmr = Awaiting(revealed)]_vars

\* "Once the window is open the envelopes stop being replaceable": from the
\* first reveal of a phase on, the window stays open until the phase resolves.
\* Holds under SteadySpec only.
WindowStaysOpen ==
  Playing /\ (\E p \in Power : revealed[p] \/ parts[p] # NoDraft) => revealOpen

\* ADR-058, "the key that seat released opens that envelope onto exactly the
\* orders on the page": what a resolved phase shows for a power is what its
\* recorded envelope holds, and nothing where no envelope is recorded.
\* Holds under SteadySpec only.
RecordIsWhatWasCommitted ==
  \A n \in 0..(phaseIndex - 1), p \in Power :
    watch[n].orders[p] = OrdersOf(watch[n].commitments[p])

\* ADR-008: once every asked seat has locked in an envelope its phone can open,
\* the phase resolves without the game master, unless a phone loses its key.
EveryoneIn ==
  /\ Playing
  /\ Committed = Asked
  /\ \A p \in Asked : Opens(sealed[p]) /\ (openable[p] \/ revealed[p])

KeyLost == \E p \in Asked : ~openable[p] /\ ~revealed[p]

ResolvesByItself ==
  \A n \in 0..(EndPhase - 1) :
    EveryoneIn /\ phaseIndex = n ~> phaseIndex # n \/ over \/ KeyLost
===============================================================================
