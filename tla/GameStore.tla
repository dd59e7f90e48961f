------------------------------- MODULE GameStore -------------------------------
(***************************************************************************)
(* The same game with its database (store.go, save.go, load.go): what each *)
(* handler writes and when, and a server that may be killed at any moment  *)
(* and started again.  A restart rebuilds the game from the rows: seats    *)
(* and counters are read back, the board and the public history are        *)
(* replayed from the order rows, and autoLock runs once.                   *)
(*                                                                         *)
(* A kill inside a handler is one step here: the writes the handler got to *)
(* before it, and the restart.  The deadline is an absolute time written   *)
(* with the row, so clock needs no copy; the keys are on the phones, so    *)
(* openable survives.                                                      *)
(***************************************************************************)
EXTENDS SealedGameRefines

VARIABLES
  rows,       \* the game row and its seat rows, as last committed
  orderRows,  \* game_order, per phase and owner
  nmrRows,    \* phase_nmr
  commitRows  \* phase_commitment

storeVars == <<rows, orderRows, nmrRows, commitRows>>
allVars == <<vars, storeVars>>

\* What persist writes of the game and its seats.
GameRows == [started    |-> started,
             over       |-> over,
             timed      |-> timed,
             phaseIndex |-> phaseIndex,
             locked     |-> locked,
             sealed     |-> sealed,
             revealed   |-> revealed]

StoreTypeOK ==
  /\ TypeOK
  /\ rows \in [started    : BOOLEAN,
               over       : BOOLEAN,
               timed      : BOOLEAN,
               phaseIndex : 0..EndPhase,
               locked     : [Power -> BOOLEAN],
               sealed     : [Power -> Lists \cup {NoEnvelope}],
               revealed   : [Power -> BOOLEAN]]
  /\ orderRows \in [0..EndPhase -> [Power -> Draft]]
  /\ nmrRows \in [0..EndPhase -> SUBSET Power]
  /\ commitRows \in [0..EndPhase -> [Power -> Lists \cup {NoEnvelope}]]

NoOrders == [p \in Power |-> NoDraft]

-------------------------------------------------------------------------------

\* Mutants: the rows are not rewritten as the phase is applied, or not before.
OrdersUnfrozen(before, after) ==
  [n \in 0..EndPhase |-> IF n = after THEN parts' ELSE orderRows[n]]

OrdersWhenResolved(before, after) ==
  [n \in 0..EndPhase |-> IF n \in before..(after - 1) THEN watch'[n].orders ELSE orderRows[n]]

\* The order rows once the phases before..after-1 have resolved: each as it was
\* applied, and the running phase's rewritten wholesale.
OrdersWritten(before, after) ==
  [n \in 0..EndPhase |-> IF n \in before..(after - 1) THEN watch'[n].orders
                         ELSE IF n = after THEN parts'
                         ELSE orderRows[n]]

\* Mutant: a reveal keeps its envelope in memory only.
CommitmentsWhenResolved(before, after) ==
  [n \in 0..EndPhase |-> IF n \in before..(after - 1) THEN watch'[n].commitments
                         ELSE commitRows[n]]

\* recordCommitment writes its row at the reveal, beside the map it fills.
CommitmentsWritten(before, after) ==
  [n \in 0..EndPhase |-> IF n \in before..(after - 1) THEN watch'[n].commitments
                         ELSE IF n = after THEN commitments'
                         ELSE commitRows[n]]

\* persistNMR only ever adds.
NMRWritten(before, after) ==
  [n \in 0..EndPhase |-> IF n \in before..(after - 1) THEN nmrRows[n] \cup watch'[n].nmr
                         ELSE nmrRows[n]]

\* A handler that ran to its end has persisted the game it leaves.
Persist ==
  /\ rows' = GameRows'
  /\ orderRows' = OrdersWritten(phaseIndex, phaseIndex')
  /\ nmrRows' = NMRWritten(phaseIndex, phaseIndex')
  /\ commitRows' = CommitmentsWritten(phaseIndex, phaseIndex')

-------------------------------------------------------------------------------

(***************************************************************************)
(* loadAll and restore, from the rows as they are after the step, onto a   *)
(* position that offers the powers next no order.  The game is not settled *)
(* by enterPhase; autoLock alone runs, whether or not the game is over.    *)
(***************************************************************************)
Restore(next) ==
  /\ started' = rows'.started
  /\ over' = rows'.over
  /\ timed' = rows'.timed
  /\ phaseIndex' = rows'.phaseIndex
  /\ idle' = next
  /\ autoLocked' = [p \in Power |-> p \in next]
  /\ locked' = [p \in Power |-> rows'.locked[p] \/ p \in next]
  /\ sealed' = rows'.sealed
  /\ revealed' = rows'.revealed
  /\ parts' = orderRows'[rows'.phaseIndex]
  /\ commitments' = commitRows'[rows'.phaseIndex]
  /\ watch' = [n \in 0..(EndPhase - 1) |->
                 IF n < rows'.phaseIndex
                 THEN [orders      |-> orderRows'[n],
                       nmr         |-> nmrRows'[n],
                       commitments |-> commitRows'[n]]
                 ELSE Unplayed]

\* A kill between two handlers.
Restart ==
  /\ UNCHANGED storeVars
  /\ Restore(idle)
  /\ UNCHANGED <<clock, openable>>

\* A kill in handleSeatReveal between recordCommitment and the first persist.
KillAfterRecord(p) ==
  /\ MayReveal(p)
  /\ Opens(sealed[p])
  /\ commitRows' = [commitRows EXCEPT ![phaseIndex] = Made(p)]
  /\ UNCHANGED <<rows, orderRows, nmrRows>>
  /\ Restore(idle)
  /\ UNCHANGED <<clock, openable>>

(***************************************************************************)
(* A kill in advance after its first persist: the phase's orders are       *)
(* frozen as they would have been applied, some of its NMR rows may be     *)
(* written, and the phase has not resolved.                                *)
(***************************************************************************)
KillInAdvance(review, opened) ==
  \E filed \in SUBSET review.nmr :
    /\ rows' = [GameRows EXCEPT !.revealed = opened]
    /\ orderRows' = [orderRows EXCEPT ![phaseIndex] = review.orders]
    /\ nmrRows' = [nmrRows EXCEPT ![phaseIndex] = @ \cup filed]
    /\ commitRows' = [commitRows EXCEPT ![phaseIndex] = review.commitments]
    /\ Restore(idle)
    /\ UNCHANGED <<clock, openable>>

(***************************************************************************)
(* A kill after the second persist of advance, before enterPhase has       *)
(* settled the phase it left, with cascaded phases resolved so far.        *)
(***************************************************************************)
KillBeforeEnterPhase(review) ==
  \E cascaded \in 0..(maxAutoPhases - 1), next \in SUBSET Power, solo \in BOOLEAN :
    LET None == [p \in Power |-> FALSE]
    IN /\ After(cascaded) <= EndPhase
       /\ rows' = [started    |-> TRUE,
                   over       |-> Ends(cascaded, solo),
                   timed      |-> timed,
                   phaseIndex |-> After(cascaded),
                   locked     |-> None,
                   sealed     |-> [p \in Power |-> NoEnvelope],
                   revealed   |-> None]
       /\ orderRows' = [n \in 0..EndPhase |-> IF n = phaseIndex THEN review.orders
                                              ELSE orderRows[n]]
       /\ nmrRows' = [n \in 0..EndPhase |-> IF n = phaseIndex THEN nmrRows[n] \cup review.nmr
                                            ELSE nmrRows[n]]
       /\ commitRows' = [n \in 0..EndPhase |-> IF n = phaseIndex THEN review.commitments
                                               ELSE commitRows[n]]
       /\ Restore(next)
       /\ clock' = IF Ends(cascaded, solo) THEN "none" ELSE ResetDeadline(timed)
       /\ openable' = None

\* A kill in adjudicate, on the board, reveals and record it resolves.
KillInAdjudicate(dropUnlocked, board, opened, made) ==
  LET review == Review(dropUnlocked, board, opened, made)
  IN KillInAdvance(review, opened) \/ KillBeforeEnterPhase(review)

KillInRevealLast(p) ==
  /\ MayReveal(p)
  /\ Opens(sealed[p])
  /\ Awaiting(Opened(p)) = {}
  /\ KillInAdjudicate(FALSE, Laid(p), Opened(p), Made(p))

KillInForce == canForce /\ KillInAdjudicate(TRUE, parts, revealed, commitments)

-------------------------------------------------------------------------------

StoreInit ==
  /\ Init
  /\ rows = GameRows
  /\ orderRows = [n \in 0..EndPhase |-> NoOrders]
  /\ nmrRows = [n \in 0..EndPhase |-> {}]
  /\ commitRows = [n \in 0..EndPhase |-> [p \in Power |-> NoEnvelope]]

\* The handlers that persist, those on the clock apart.
Saved ==
  \/ Start
  \/ \E p \in Power :
       \/ \E list \in Lists, fresh \in BOOLEAN : Commit(p, list, fresh)
       \/ Uncommit(p)
       \/ Reveal(p)
       \/ RevealLast(p)
  \/ GMForce
  \/ EndByDraw

\* What runs to its end without persisting.
Unsaved == TimePasses \/ \E p \in Power : RevealRefused(p) \/ LoseKey(p)

Kill == Restart \/ KillInForce \/ \E p \in Power : KillAfterRecord(p) \/ KillInRevealLast(p)

StoreNext ==
  \/ (Saved \/ MoveClock) /\ Persist
  \/ Unsaved /\ UNCHANGED storeVars
  \/ Kill

StoreSpec == StoreInit /\ [][StoreNext]_allVars

\* Under a game master who leaves the clock alone while a window is open.
StoreSteadyNext ==
  \/ (Saved \/ (~revealOpen /\ MoveClock)) /\ Persist
  \/ Unsaved /\ UNCHANGED storeVars
  \/ Kill

StoreSteadySpec == StoreInit /\ [][StoreSteadyNext]_allVars

-------------------------------------------------------------------------------
(* Properties *)

\* store.go, "a crash loses nothing that was answered": whatever a phone has been
\* told of its envelope, its reveal and its orders is in the rows.
AnswersAreStored ==
  /\ rows.started = started
  /\ rows.over = over
  /\ rows.phaseIndex = phaseIndex
  /\ rows.sealed = sealed
  /\ rows.revealed = revealed
  /\ commitRows[phaseIndex] = commitments
  /\ \A p \in Power : revealed[p] => Honours(orderRows[phaseIndex][p], sealed[p])

\* ADR-013: the orders and the commitments the history shows for a resolved
\* phase never change, through every kill and restart.
PlayedOrdersStand ==
  [][\A n \in 0..(phaseIndex - 1) : /\ watch'[n].orders = watch[n].orders
                                    /\ watch'[n].commitments = watch[n].commitments]_allVars

\* The same of the whole page, with the powers recorded as NMR.
HistoryStands == [][\A n \in 0..(phaseIndex - 1) : watch'[n] = watch[n]]_allVars

===============================================================================
