---------------------------- MODULE GameStoreProofs ----------------------------
(***************************************************************************)
(* For every table: what a phone was told is in the rows, and the history  *)
(* of resolved phases stands, through every kill of the server the model   *)
(* knows and every restart after it.                                       *)
(***************************************************************************)
EXTENDS GameStore, SealedGameProofs

\* A seat the server has locked holds that lock until the phase is over.
AutoLocksHold == \A p \in Power : autoLocked[p] => locked[p]

\* The page of a resolved phase is what its rows say.
RecordIsStored ==
  \A n \in 0..(phaseIndex - 1) : /\ watch[n].orders = orderRows[n]
                                 /\ watch[n].commitments = commitRows[n]

\* What every step keeps: a restart puts the rows in place of the game, so the
\* rows must say of the running phase what RevealedOrdersStand says of the
\* board, and of the phases behind it what the history shows.
StoreInv ==
  /\ StoreTypeOK
  /\ RevealedOrdersStand
  /\ AutoLocksHold
  /\ AnswersAreStored
  /\ RecordIsStored

\* What a handler leaves in memory before it persists: a sound game, whose
\* newly resolved phases are filed and whose earlier pages are as they were.
SavedGame ==
  /\ TypeOK'
  /\ RevealedOrdersStand'
  /\ AutoLocksHold'
  /\ phaseIndex <= phaseIndex'
  /\ \A n \in phaseIndex..(phaseIndex' - 1) : watch'[n] \in Snapshot
  /\ \A n \in 0..(phaseIndex - 1) : watch'[n] = watch[n]

-------------------------------------------------------------------------------
(* The handlers, in memory *)

\* The phases before one are numbered below it.
LEMMA PhasesBefore ==
  ASSUME NEW a \in Int, NEW b \in Int, a <= b
  PROVE  /\ b \notin a..(b - 1)
         /\ \A n \in 0..(b - 1) : n # b /\ (n \notin a..(b - 1) => n \in 0..(a - 1))
         /\ \A n \in 0..(a - 1) : n \in 0..(b - 1) /\ n \in 0..b
OBVIOUS

\* A step that stays in its phase files nothing.
LEMMA SamePhase ==
  ASSUME TypeOK, phaseIndex' = phaseIndex, watch' = watch
  PROVE  /\ phaseIndex <= phaseIndex'
         /\ \A n \in phaseIndex..(phaseIndex' - 1) : watch'[n] \in Snapshot
         /\ \A n \in 0..(phaseIndex - 1) : watch'[n] = watch[n]
<1>1. phaseIndex \in Int
  BY EndPhaseAssumption DEF TypeOK
<1> QED BY <1>1

\* Adjudicating files the phase that was running and whatever cascaded after it.
LEMMA AdjudicateSaves ==
  ASSUME StoreInv,
         NEW dropUnlocked \in BOOLEAN,
         NEW board \in [Power -> Draft],
         NEW opened,
         NEW made \in [Power -> Lists \cup {NoEnvelope}],
         Adjudicate(dropUnlocked, board, opened, made)
  PROVE  SavedGame
<1> DEFINE review == Review(dropUnlocked, board, opened, made)
<1>1. PICK cascaded \in 0..maxAutoPhases, next \in SUBSET Power, solo \in BOOLEAN :
        Resolve(review, cascaded, next, solo)
  BY DEF Adjudicate
<1>2. review \in Snapshot
  BY ReviewType
<1> HIDE DEF review
<1>3. TypeOK'
  BY AdjudicateType DEF StoreInv, StoreTypeOK
<1>4. RevealedOrdersStand' /\ AutoLocksHold'
  BY <1>1 DEF Resolve, RevealedOrdersStand, AutoLocksHold
<1>5. /\ phaseIndex \in 0..EndPhase
      /\ phaseIndex' = phaseIndex + 1 + cascaded
      /\ phaseIndex' <= EndPhase
      /\ cascaded \in Nat
      /\ EndPhase \in Nat
  BY <1>1, EndPhaseAssumption, maxAutoPhasesAssumption
     DEF StoreInv, StoreTypeOK, TypeOK, Resolve, After
<1>6. ASSUME NEW n \in phaseIndex..(phaseIndex' - 1) PROVE watch'[n] \in Snapshot
  <2>1. n \in 0..(EndPhase - 1) /\ n \in phaseIndex..(After(cascaded) - 1)
    BY <1>5, <1>6 DEF After
  <2>2. watch'[n] = IF n = phaseIndex THEN review ELSE NoSnapshot
    BY <1>1, <2>1 DEF Resolve
  <2> QED BY <1>2, <2>2, NoSnapshotType
<1>7. ASSUME NEW n \in 0..(phaseIndex - 1) PROVE watch'[n] = watch[n]
  <2>1. n \in 0..(EndPhase - 1) /\ n # phaseIndex /\ n \notin phaseIndex..(After(cascaded) - 1)
    BY <1>5, <1>7 DEF After
  <2> QED BY <1>1, <2>1 DEF Resolve
<1>8. phaseIndex <= phaseIndex'
  BY <1>5
<1> QED BY <1>3, <1>4, <1>6, <1>7, <1>8 DEF SavedGame

\* Every handler that persists, and every change of the clock.
LEMMA HandlerSaves == ASSUME StoreInv, Saved \/ MoveClock PROVE SavedGame
<1>1. TypeOK /\ RevealedOrdersStand /\ AutoLocksHold
  BY DEF StoreInv, StoreTypeOK
<1>2. ASSUME NEW p \in Power, RevealLast(p) PROVE SavedGame
  <2>1. Adjudicate(FALSE, Laid(p), Opened(p), Made(p)) /\ sealed[p] # NoEnvelope
    BY <1>2 DEF RevealLast, MayReveal
  <2> QED BY <1>1, <2>1, RevealType, AdjudicateSaves
<1>3. CASE GMForce
  BY <1>1, <1>3, AdjudicateSaves DEF GMForce, TypeOK
<1>4. ASSUME phaseIndex' = phaseIndex, watch' = watch, [Next]_vars,
             RevealedOrdersStand', AutoLocksHold'
      PROVE  SavedGame
  <2>1. TypeOK'
    BY <1>1, <1>4, NextType
  <2> QED BY <1>1, <1>4, <2>1, SamePhase DEF SavedGame
<1>5. ASSUME UNCHANGED <<locked, autoLocked, sealed, revealed, boardVars>>, [Next]_vars
      PROVE  SavedGame
  <2>1. RevealedOrdersStand' /\ AutoLocksHold' /\ phaseIndex' = phaseIndex /\ watch' = watch
    BY <1>1, <1>5 DEF RevealedOrdersStand, AutoLocksHold, boardVars
  <2> QED BY <1>4, <1>5, <2>1
<1>6. CASE Start
  <2>1. RevealedOrdersStand' /\ AutoLocksHold' /\ phaseIndex' = phaseIndex /\ watch' = watch
    BY <1>1, <1>6 DEF Start, RevealedOrdersStand, AutoLocksHold, boardVars
  <2> QED BY <1>4, <1>6, <2>1 DEF Next
<1>7. ASSUME NEW p \in Power,
             \/ \E list \in Lists, fresh \in BOOLEAN : Commit(p, list, fresh)
             \/ Uncommit(p)
      PROVE  SavedGame
  <2>1. /\ ~autoLocked[p]
        /\ revealed' = [revealed EXCEPT ![p] = FALSE]
        /\ UNCHANGED <<autoLocked, boardVars>>
        /\ \E list : sealed' = [sealed EXCEPT ![p] = list]
        /\ \E held : locked' = [locked EXCEPT ![p] = held]
    BY <1>7 DEF Commit, Uncommit, MayCommit
  <2>2. RevealedOrdersStand'
    BY <1>1, <2>1 DEF RevealedOrdersStand, TypeOK, boardVars
  <2>3. AutoLocksHold'
    BY <1>1, <2>1 DEF AutoLocksHold, TypeOK
  <2>4. [Next]_vars
    BY <1>7 DEF Next, SeatStep
  <2> QED BY <1>4, <2>1, <2>2, <2>3, <2>4 DEF boardVars
<1>8. ASSUME NEW p \in Power, Reveal(p) PROVE SavedGame
  <2>1. AutoLocksHold' /\ phaseIndex' = phaseIndex /\ watch' = watch
    BY <1>1, <1>8 DEF Reveal, AutoLocksHold
  <2>2. RevealedOrdersStand'
    BY <1>1, <1>8, RevealStands
  <2>3. [Next]_vars
    BY <1>8 DEF Next, SeatStep
  <2> QED BY <1>4, <2>1, <2>2, <2>3
<1>9. CASE EndByDraw
  BY <1>5, <1>9 DEF EndByDraw, seatVars, Next
<1>10. CASE MoveClock
  BY <1>5, <1>10 DEF MoveClock, GMExtend, ChangeClock, ChangeGrace, seatVars, Next
<1> QED BY <1>2, <1>3, <1>6, <1>7, <1>8, <1>9, <1>10 DEF Saved

-------------------------------------------------------------------------------
(* The rows *)

\* Persisting such a game leaves rows that say the same.
LEMMA PersistKeeps == ASSUME StoreInv, SavedGame, Persist PROVE StoreInv'
<1>1. /\ phaseIndex \in 0..EndPhase /\ phaseIndex' \in 0..EndPhase
      /\ EndPhase \in Nat
      /\ phaseIndex <= phaseIndex'
  BY EndPhaseAssumption DEF StoreInv, StoreTypeOK, SavedGame, TypeOK
<1> DEFINE Written == phaseIndex..(phaseIndex' - 1)
<1>2. ASSUME NEW n \in Written PROVE watch'[n] \in Snapshot
  BY <1>2 DEF SavedGame
<1>3. ASSUME NEW n \in 0..EndPhase
      PROVE  /\ orderRows'[n] = IF n \in Written THEN watch'[n].orders
                                ELSE IF n = phaseIndex' THEN parts'
                                ELSE orderRows[n]
             /\ nmrRows'[n] = IF n \in Written THEN nmrRows[n] \cup watch'[n].nmr
                              ELSE nmrRows[n]
             /\ commitRows'[n] = IF n \in Written THEN watch'[n].commitments
                                 ELSE IF n = phaseIndex' THEN commitments'
                                 ELSE commitRows[n]
  BY DEF Persist, OrdersWritten, NMRWritten, CommitmentsWritten
<1>4. phaseIndex \in Int /\ phaseIndex' \in Int /\ EndPhase \in Int /\ phaseIndex' <= EndPhase
  BY <1>1
<1>5. /\ phaseIndex' \notin Written
      /\ \A n \in 0..(phaseIndex' - 1) :
           /\ n \in 0..EndPhase
           /\ n # phaseIndex'
           /\ n \notin Written => n \in 0..(phaseIndex - 1)
  BY <1>1, <1>4, PhasesBefore, Zenon
<1> HIDE DEF Written
<1>6. StoreTypeOK'
  <2>1. TypeOK'
    BY DEF SavedGame
  <2>2. rows' \in [started    : BOOLEAN,
                   over       : BOOLEAN,
                   timed      : BOOLEAN,
                   phaseIndex : 0..EndPhase,
                   locked     : [Power -> BOOLEAN],
                   sealed     : [Power -> Lists \cup {NoEnvelope}],
                   revealed   : [Power -> BOOLEAN]]
    BY <2>1 DEF Persist, GameRows, TypeOK
  <2>3. ASSUME NEW n \in 0..EndPhase
        PROVE  /\ orderRows'[n] \in [Power -> Draft]
               /\ nmrRows'[n] \in SUBSET Power
               /\ commitRows'[n] \in [Power -> Lists \cup {NoEnvelope}]
    <3>1. /\ orderRows[n] \in [Power -> Draft]
          /\ nmrRows[n] \in SUBSET Power
          /\ commitRows[n] \in [Power -> Lists \cup {NoEnvelope}]
      BY DEF StoreInv, StoreTypeOK
    <3>2. /\ parts' \in [Power -> Draft]
          /\ commitments' \in [Power -> Lists \cup {NoEnvelope}]
      BY <2>1 DEF TypeOK
    <3> QED BY <1>2, <1>3, <3>1, <3>2 DEF Snapshot
  <2>4. /\ orderRows' \in [0..EndPhase -> [Power -> Draft]]
        /\ nmrRows' \in [0..EndPhase -> SUBSET Power]
        /\ commitRows' \in [0..EndPhase -> [Power -> Lists \cup {NoEnvelope}]]
    BY <2>3 DEF Persist, OrdersWritten, NMRWritten, CommitmentsWritten
  <2> QED BY <2>1, <2>2, <2>4 DEF StoreTypeOK
<1>7. RevealedOrdersStand' /\ AutoLocksHold'
  BY DEF SavedGame
<1>8. AnswersAreStored'
  <2>1. orderRows'[phaseIndex'] = parts' /\ commitRows'[phaseIndex'] = commitments'
    BY <1>1, <1>3, <1>5
  <2> QED BY <1>7, <2>1 DEF Persist, GameRows, AnswersAreStored, RevealedOrdersStand
<1>9. RecordIsStored'
  <2>1. ASSUME NEW n \in 0..(phaseIndex' - 1)
        PROVE  watch'[n].orders = orderRows'[n] /\ watch'[n].commitments = commitRows'[n]
    <3>1. CASE n \in Written
      BY <1>3, <1>5, <2>1, <3>1
    <3>2. CASE n \notin Written
      <4>1. n \in 0..(phaseIndex - 1)
        BY <1>5, <2>1, <3>2
      <4>2. watch'[n] = watch[n]
        BY <4>1 DEF SavedGame
      <4>3. watch[n].orders = orderRows[n] /\ watch[n].commitments = commitRows[n]
        BY <4>1 DEF StoreInv, RecordIsStored
      <4>4. orderRows'[n] = orderRows[n] /\ commitRows'[n] = commitRows[n]
        BY <1>3, <1>5, <2>1, <3>2
      <4> QED BY <4>2, <4>3, <4>4
    <3> QED BY <3>1, <3>2
  <2> QED BY <2>1 DEF RecordIsStored
<1> QED BY <1>6, <1>7, <1>8, <1>9 DEF StoreInv

\* A restart from well-typed rows that hold what is revealed leaves a game that
\* agrees with them.
LEMMA RestoreKeeps ==
  ASSUME NEW next \in SUBSET Power,
         Restore(next),
         clock' \in Clock,
         openable' \in [Power -> BOOLEAN],
         rows' \in [started    : BOOLEAN,
                    over       : BOOLEAN,
                    timed      : BOOLEAN,
                    phaseIndex : 0..EndPhase,
                    locked     : [Power -> BOOLEAN],
                    sealed     : [Power -> Lists \cup {NoEnvelope}],
                    revealed   : [Power -> BOOLEAN]],
         orderRows' \in [0..EndPhase -> [Power -> Draft]],
         nmrRows' \in [0..EndPhase -> SUBSET Power],
         commitRows' \in [0..EndPhase -> [Power -> Lists \cup {NoEnvelope}]],
         \A p \in Power : rows'.revealed[p] =>
           /\ rows'.sealed[p] # NoEnvelope
           /\ Honours(orderRows'[rows'.phaseIndex][p], rows'.sealed[p])
           /\ commitRows'[rows'.phaseIndex][p] = rows'.sealed[p]
  PROVE  StoreInv'
<1>1. rows'.phaseIndex \in 0..EndPhase /\ phaseIndex' = rows'.phaseIndex /\ EndPhase \in Nat
  BY EndPhaseAssumption DEF Restore
<1>2. ASSUME NEW n \in 0..(EndPhase - 1)
      PROVE  watch'[n] \in Snapshot \cup {Unplayed}
  <2>1. n \in 0..EndPhase
    BY <1>1
  <2>2. [orders |-> orderRows'[n], nmr |-> nmrRows'[n], commitments |-> commitRows'[n]]
          \in Snapshot
    BY <2>1 DEF Snapshot
  <2> QED BY <2>2 DEF Restore
<1>3. watch' \in [0..(EndPhase - 1) -> Snapshot \cup {Unplayed}]
  BY <1>2 DEF Restore
<1>4. /\ started' \in BOOLEAN /\ over' \in BOOLEAN /\ timed' \in BOOLEAN
      /\ idle' \in SUBSET Power
      /\ autoLocked' \in [Power -> BOOLEAN]
      /\ sealed' \in [Power -> Lists \cup {NoEnvelope}]
      /\ revealed' \in [Power -> BOOLEAN]
      /\ parts' \in [Power -> Draft]
      /\ commitments' \in [Power -> Lists \cup {NoEnvelope}]
  BY <1>1 DEF Restore
<1>5. locked' \in [Power -> BOOLEAN]
  BY DEF Restore
<1>6. TypeOK'
  BY <1>1, <1>3, <1>4, <1>5 DEF TypeOK
<1>7. StoreTypeOK'
  BY <1>6 DEF StoreTypeOK
<1>8. RevealedOrdersStand' /\ AutoLocksHold'
  BY DEF Restore, RevealedOrdersStand, AutoLocksHold
<1>9. AnswersAreStored'
  BY DEF Restore, AnswersAreStored
<1>10. RecordIsStored'
  <2>1. ASSUME NEW n \in 0..(phaseIndex' - 1)
        PROVE  watch'[n].orders = orderRows'[n] /\ watch'[n].commitments = commitRows'[n]
    <3>1. n \in 0..(EndPhase - 1) /\ n < rows'.phaseIndex
      BY <1>1, <2>1
    <3> QED BY <3>1 DEF Restore
  <2> QED BY <2>1 DEF RecordIsStored
<1> QED BY <1>7, <1>8, <1>9, <1>10 DEF StoreInv

\* A kill in adjudicate: either every row of the running phase is as it is
\* applied, with those reveals, or the next phase starts with none.
LEMMA KillInAdjudicateKeeps ==
  ASSUME StoreInv,
         NEW dropUnlocked \in BOOLEAN,
         NEW board \in [Power -> Draft],
         NEW opened \in [Power -> BOOLEAN],
         NEW made \in [Power -> Lists \cup {NoEnvelope}],
         \A p \in Power : opened[p] => /\ p \notin NMR(dropUnlocked, opened)
                                       /\ sealed[p] # NoEnvelope
                                       /\ Honours(board[p], sealed[p])
                                       /\ made[p] = sealed[p],
         KillInAdjudicate(dropUnlocked, board, opened, made)
  PROVE  /\ StoreInv'
         /\ \A n \in 0..(phaseIndex - 1) : /\ orderRows'[n] = orderRows[n]
                                           /\ commitRows'[n] = commitRows[n]
         /\ phaseIndex <= phaseIndex'
<1> DEFINE review == Review(dropUnlocked, board, opened, made)
<1>1. review \in Snapshot /\ review.commitments = made
  BY ReviewType DEF Review
<1>2. \A p \in Power : opened[p] => review.orders[p] = board[p]
  BY DEF Review
<1>3. KillInAdvance(review, opened) \/ KillBeforeEnterPhase(review)
  BY DEF KillInAdjudicate
<1> HIDE DEF review
<1>4. /\ review.orders \in [Power -> Draft]
      /\ review.nmr \in SUBSET Power
      /\ review.commitments \in [Power -> Lists \cup {NoEnvelope}]
  BY <1>1 DEF Snapshot
<1>5. StoreTypeOK /\ TypeOK /\ phaseIndex \in 0..EndPhase /\ EndPhase \in Nat
  BY EndPhaseAssumption DEF StoreInv, StoreTypeOK, TypeOK
<1>6. CASE KillInAdvance(review, opened)
  <2>1. PICK filed \in SUBSET review.nmr :
          /\ rows' = [GameRows EXCEPT !.revealed = opened]
          /\ orderRows' = [orderRows EXCEPT ![phaseIndex] = review.orders]
          /\ nmrRows' = [nmrRows EXCEPT ![phaseIndex] = @ \cup filed]
          /\ commitRows' = [commitRows EXCEPT ![phaseIndex] = review.commitments]
          /\ Restore(idle)
          /\ UNCHANGED <<clock, openable>>
    BY <1>6 DEF KillInAdvance
  <2>2. rows' \in [started    : BOOLEAN,
                   over       : BOOLEAN,
                   timed      : BOOLEAN,
                   phaseIndex : 0..EndPhase,
                   locked     : [Power -> BOOLEAN],
                   sealed     : [Power -> Lists \cup {NoEnvelope}],
                   revealed   : [Power -> BOOLEAN]]
    BY <1>5, <2>1 DEF GameRows, TypeOK
  <2>3. rows'.phaseIndex = phaseIndex /\ rows'.revealed = opened /\ rows'.sealed = sealed
    BY <2>1 DEF GameRows
  <2>4. /\ orderRows' \in [0..EndPhase -> [Power -> Draft]]
        /\ orderRows'[phaseIndex] = review.orders
        /\ nmrRows' \in [0..EndPhase -> SUBSET Power]
        /\ commitRows' \in [0..EndPhase -> [Power -> Lists \cup {NoEnvelope}]]
        /\ commitRows'[phaseIndex] = made
    BY <1>1, <1>4, <1>5, <2>1 DEF StoreTypeOK
  <2>5. \A p \in Power : rows'.revealed[p] =>
           /\ rows'.sealed[p] # NoEnvelope
           /\ Honours(orderRows'[rows'.phaseIndex][p], rows'.sealed[p])
           /\ commitRows'[rows'.phaseIndex][p] = rows'.sealed[p]
    BY <1>2, <2>3, <2>4
  <2>6. clock' \in Clock /\ openable' \in [Power -> BOOLEAN] /\ idle \in SUBSET Power
    BY <1>5, <2>1 DEF TypeOK
  <2>7. StoreInv'
    BY <2>1, <2>2, <2>4, <2>5, <2>6, RestoreKeeps
  <2>8. phaseIndex' = phaseIndex
    BY <2>1, <2>3 DEF Restore
  <2>9. ASSUME NEW n \in 0..(phaseIndex - 1)
        PROVE  orderRows'[n] = orderRows[n] /\ commitRows'[n] = commitRows[n]
    BY <1>5, <2>1 DEF StoreTypeOK
  <2> QED BY <1>5, <2>7, <2>8, <2>9
<1>7. CASE KillBeforeEnterPhase(review)
  <2> DEFINE None == [p \in Power |-> FALSE]
  <2>1. PICK cascaded \in 0..(maxAutoPhases - 1), next \in SUBSET Power, solo \in BOOLEAN :
          /\ After(cascaded) <= EndPhase
          /\ rows' = [started    |-> TRUE,
                      over       |-> Ends(cascaded, solo),
                      timed      |-> timed,
                      phaseIndex |-> After(cascaded),
                      locked     |-> None,
                      sealed     |-> [p \in Power |-> NoEnvelope],
                      revealed   |-> None]
          /\ orderRows' = [n \in 0..EndPhase |-> IF n = phaseIndex THEN review.orders
                                                 ELSE orderRows[n]]
          /\ nmrRows' = [n \in 0..EndPhase |-> IF n = phaseIndex THEN nmrRows[n] \cup review.nmr
                                               ELSE nmrRows[n]]
          /\ commitRows' = [n \in 0..EndPhase |-> IF n = phaseIndex THEN review.commitments
                                                  ELSE commitRows[n]]
          /\ Restore(next)
          /\ clock' = IF Ends(cascaded, solo) THEN "none" ELSE ResetDeadline(timed)
          /\ openable' = None
    BY <1>7 DEF KillBeforeEnterPhase
  <2>2. After(cascaded) \in 0..EndPhase /\ phaseIndex <= After(cascaded)
    BY <1>5, <2>1, maxAutoPhasesAssumption DEF After
  <2>3. Ends(cascaded, solo) \in BOOLEAN /\ timed \in BOOLEAN
    BY <1>5 DEF Ends, TypeOK
  <2>4. rows' \in [started    : BOOLEAN,
                   over       : BOOLEAN,
                   timed      : BOOLEAN,
                   phaseIndex : 0..EndPhase,
                   locked     : [Power -> BOOLEAN],
                   sealed     : [Power -> Lists \cup {NoEnvelope}],
                   revealed   : [Power -> BOOLEAN]]
    BY <2>1, <2>2, <2>3
  <2>5. ASSUME NEW n \in 0..EndPhase
        PROVE  /\ orderRows'[n] \in [Power -> Draft]
               /\ nmrRows'[n] \in SUBSET Power
               /\ commitRows'[n] \in [Power -> Lists \cup {NoEnvelope}]
    BY <1>4, <1>5, <2>1 DEF StoreTypeOK
  <2>6. /\ orderRows' \in [0..EndPhase -> [Power -> Draft]]
        /\ nmrRows' \in [0..EndPhase -> SUBSET Power]
        /\ commitRows' \in [0..EndPhase -> [Power -> Lists \cup {NoEnvelope}]]
    BY <2>1, <2>5
  <2>7. \A p \in Power : ~rows'.revealed[p]
    BY <2>1
  <2>8. clock' \in Clock /\ openable' \in [Power -> BOOLEAN]
    BY <2>1, <2>3 DEF Clock, ResetDeadline
  <2>9. StoreInv'
    BY <2>1, <2>4, <2>6, <2>7, <2>8, RestoreKeeps
  <2>10. phaseIndex' = After(cascaded)
    BY <2>1 DEF Restore
  <2>11. ASSUME NEW n \in 0..(phaseIndex - 1)
         PROVE  orderRows'[n] = orderRows[n] /\ commitRows'[n] = commitRows[n]
    <3>1. n \in 0..EndPhase /\ n # phaseIndex
      BY <1>5
    <3> QED BY <2>1, <3>1
  <2> QED BY <2>2, <2>9, <2>10, <2>11
<1> QED BY <1>3, <1>6, <1>7

\* Every kill and the restart after it.
LEMMA KillKeeps ==
  ASSUME StoreInv, Kill
  PROVE  /\ StoreInv'
         /\ \A n \in 0..(phaseIndex - 1) : /\ orderRows'[n] = orderRows[n]
                                           /\ commitRows'[n] = commitRows[n]
         /\ phaseIndex <= phaseIndex'
<1>1. /\ StoreTypeOK /\ TypeOK /\ RevealedOrdersStand /\ AnswersAreStored
      /\ phaseIndex \in 0..EndPhase /\ EndPhase \in Nat
      /\ idle \in SUBSET Power /\ clock \in Clock /\ openable \in [Power -> BOOLEAN]
  BY EndPhaseAssumption DEF StoreInv, StoreTypeOK, TypeOK
<1>2. CASE Restart
  <2>1. UNCHANGED <<rows, orderRows, nmrRows, commitRows, clock, openable>> /\ Restore(idle)
    BY <1>2 DEF Restart, storeVars
  <2>2. \A p \in Power : rows.revealed[p] =>
           /\ rows.sealed[p] # NoEnvelope
           /\ Honours(orderRows[rows.phaseIndex][p], rows.sealed[p])
           /\ commitRows[rows.phaseIndex][p] = rows.sealed[p]
    BY <1>1 DEF AnswersAreStored, RevealedOrdersStand
  <2>3. StoreInv'
    BY <1>1, <2>1, <2>2, RestoreKeeps DEF StoreTypeOK
  <2>4. phaseIndex' = phaseIndex
    BY <1>1, <2>1 DEF Restore, AnswersAreStored
  <2> QED BY <1>1, <2>1, <2>3, <2>4
<1>3. ASSUME NEW p \in Power, KillAfterRecord(p)
      PROVE  /\ StoreInv'
             /\ \A n \in 0..(phaseIndex - 1) : /\ orderRows'[n] = orderRows[n]
                                               /\ commitRows'[n] = commitRows[n]
             /\ phaseIndex <= phaseIndex'
  <2>1. /\ sealed[p] # NoEnvelope /\ ~revealed[p]
        /\ commitRows' = [commitRows EXCEPT ![phaseIndex] = Made(p)]
        /\ UNCHANGED <<rows, orderRows, nmrRows, clock, openable>>
        /\ Restore(idle)
    BY <1>3 DEF KillAfterRecord, MayReveal
  <2>2. Made(p) \in [Power -> Lists \cup {NoEnvelope}]
    BY <1>1, <2>1, RevealType
  <2>3. commitRows' \in [0..EndPhase -> [Power -> Lists \cup {NoEnvelope}]]
        /\ commitRows'[phaseIndex] = Made(p)
    BY <1>1, <2>1, <2>2 DEF StoreTypeOK
  <2>4. ASSUME NEW q \in Power, rows.revealed[q]
        PROVE  /\ rows.sealed[q] # NoEnvelope
               /\ Honours(orderRows[rows.phaseIndex][q], rows.sealed[q])
               /\ commitRows'[rows.phaseIndex][q] = rows.sealed[q]
    <3>1. q # p /\ rows.phaseIndex = phaseIndex /\ rows.sealed = sealed /\ revealed[q]
      BY <1>1, <2>1, <2>4 DEF AnswersAreStored
    <3>2. Made(p)[q] = commitments[q]
      BY <1>1, <3>1 DEF Made, TypeOK
    <3> QED BY <1>1, <2>3, <3>1, <3>2 DEF AnswersAreStored, RevealedOrdersStand
  <2>5. StoreInv'
    BY <1>1, <2>1, <2>3, <2>4, RestoreKeeps DEF StoreTypeOK
  <2>6. phaseIndex' = phaseIndex
    BY <1>1, <2>1 DEF Restore, AnswersAreStored
  <2>7. ASSUME NEW n \in 0..(phaseIndex - 1) PROVE commitRows'[n] = commitRows[n]
    BY <1>1, <2>1 DEF StoreTypeOK
  <2> QED BY <1>1, <2>1, <2>5, <2>6, <2>7
<1>4. ASSUME NEW p \in Power, KillInRevealLast(p)
      PROVE  /\ StoreInv'
             /\ \A n \in 0..(phaseIndex - 1) : /\ orderRows'[n] = orderRows[n]
                                               /\ commitRows'[n] = commitRows[n]
             /\ phaseIndex <= phaseIndex'
  <2>1. /\ sealed[p] # NoEnvelope /\ Opens(sealed[p])
        /\ KillInAdjudicate(FALSE, Laid(p), Opened(p), Made(p))
    BY <1>4 DEF KillInRevealLast, MayReveal
  <2>2. /\ Laid(p) \in [Power -> Draft]
        /\ Made(p) \in [Power -> Lists \cup {NoEnvelope}]
        /\ Opened(p) \in [Power -> BOOLEAN]
    BY <1>1, <2>1, RevealType DEF Opened, TypeOK
  <2>3. ASSUME NEW q \in Power, Opened(p)[q]
        PROVE  /\ q \notin NMR(FALSE, Opened(p))
               /\ sealed[q] # NoEnvelope
               /\ Honours(Laid(p)[q], sealed[q])
               /\ Made(p)[q] = sealed[q]
    <3>1. q \notin NMR(FALSE, Opened(p))
      BY DEF NMR
    <3>2. CASE q = p
      <4>1. Laid(p)[p] = Applied(parts[p], sealed[p]) /\ Made(p)[p] = sealed[p]
        BY <1>1 DEF Laid, Made, TypeOK
      <4> QED BY <2>1, <3>1, <3>2, <4>1, AppliedHonours
    <3>3. CASE q # p
      <4>1. revealed[q] /\ Laid(p)[q] = parts[q] /\ Made(p)[q] = commitments[q]
        BY <1>1, <2>3, <3>3 DEF Opened, Laid, Made, TypeOK
      <4> QED BY <1>1, <3>1, <4>1 DEF RevealedOrdersStand
    <3> QED BY <3>2, <3>3
  <2> QED BY <2>1, <2>2, <2>3, KillInAdjudicateKeeps
<1>5. CASE KillInForce
  <2>1. KillInAdjudicate(TRUE, parts, revealed, commitments)
    BY <1>5 DEF KillInForce
  <2>2. ASSUME NEW q \in Power, revealed[q]
        PROVE  /\ q \notin NMR(TRUE, revealed)
               /\ sealed[q] # NoEnvelope
               /\ Honours(parts[q], sealed[q])
               /\ commitments[q] = sealed[q]
    BY <1>1, <2>2 DEF NMR, Missing, StoreInv, AutoLocksHold, RevealedOrdersStand
  <2>3. /\ parts \in [Power -> Draft]
        /\ revealed \in [Power -> BOOLEAN]
        /\ commitments \in [Power -> Lists \cup {NoEnvelope}]
    BY <1>1 DEF TypeOK
  <2> QED BY <2>1, <2>2, <2>3, KillInAdjudicateKeeps
<1> QED BY <1>2, <1>3, <1>4, <1>5 DEF Kill

\* What runs to its end without persisting tells nobody anything.
LEMMA UnsavedKeeps ==
  ASSUME StoreInv, Unsaved, UNCHANGED storeVars
  PROVE  StoreInv' /\ UNCHANGED <<phaseIndex, watch>>
<1>1. TypeOK /\ RevealedOrdersStand
  BY DEF StoreInv, StoreTypeOK
<1>2. /\ UNCHANGED <<rows, orderRows, nmrRows, commitRows>>
      /\ UNCHANGED <<started, over, phaseIndex, locked, autoLocked, sealed, revealed,
                     commitments, watch>>
  BY DEF Unsaved, TimePasses, RevealRefused, LoseKey, storeVars, seatVars, boardVars, tableVars
<1>3. TypeOK'
  <2>1. [Next]_vars
    BY DEF Unsaved, Next, SeatStep
  <2> QED BY <1>1, <2>1, NextType
<1>4. StoreTypeOK'
  BY <1>2, <1>3 DEF StoreInv, StoreTypeOK
<1>5. RevealedOrdersStand'
  <2>1. ASSUME NEW p \in Power, RevealRefused(p) PROVE RevealedOrdersStand'
    BY <1>1, <2>1, RevealStands
  <2>2. CASE UNCHANGED parts
    BY <1>1, <1>2, <2>2 DEF RevealedOrdersStand
  <2> QED BY <2>1, <2>2 DEF Unsaved, TimePasses, LoseKey, boardVars
<1>6. AutoLocksHold' /\ AnswersAreStored' /\ RecordIsStored'
  BY <1>2 DEF StoreInv, AutoLocksHold, AnswersAreStored, RecordIsStored
<1> QED BY <1>2, <1>4, <1>5, <1>6 DEF StoreInv

-------------------------------------------------------------------------------
(* The specification *)

\* An empty database of a game that has not started.
LEMMA StoreInitInv == StoreInit => StoreInv
<1> SUFFICES ASSUME StoreInit PROVE StoreInv
  OBVIOUS
<1>1. Init /\ TypeOK /\ phaseIndex = 0 /\ EndPhase \in Nat /\ 0 \in 0..EndPhase
  BY InitType, EndPhaseAssumption DEF StoreInit, Init
<1>2. rows \in [started    : BOOLEAN,
                over       : BOOLEAN,
                timed      : BOOLEAN,
                phaseIndex : 0..EndPhase,
                locked     : [Power -> BOOLEAN],
                sealed     : [Power -> Lists \cup {NoEnvelope}],
                revealed   : [Power -> BOOLEAN]]
  BY <1>1 DEF StoreInit, GameRows, TypeOK
<1>3. /\ orderRows \in [0..EndPhase -> [Power -> Draft]]
      /\ nmrRows \in [0..EndPhase -> SUBSET Power]
      /\ commitRows \in [0..EndPhase -> [Power -> Lists \cup {NoEnvelope}]]
  BY NoDraftType DEF StoreInit, NoOrders
<1>4. RevealedOrdersStand /\ AutoLocksHold /\ \A p \in Power : ~revealed[p]
  BY <1>1 DEF Init, RevealedOrdersStand, AutoLocksHold
<1>5. AnswersAreStored
  BY <1>1, <1>4 DEF StoreInit, Init, GameRows, AnswersAreStored
<1>6. RecordIsStored
  <2>1. 0..(phaseIndex - 1) = {}
    BY <1>1
  <2> QED BY <2>1 DEF RecordIsStored
<1> QED BY <1>1, <1>2, <1>3, <1>4, <1>5, <1>6 DEF StoreInv, StoreTypeOK

\* Every step of the server keeps the invariant and the pages of the history.
LEMMA StoreStep ==
  ASSUME StoreInv, [StoreNext]_allVars
  PROVE  /\ StoreInv'
         /\ \A n \in 0..(phaseIndex - 1) : /\ watch'[n].orders = watch[n].orders
                                           /\ watch'[n].commitments = watch[n].commitments
<1>1. CASE (Saved \/ MoveClock) /\ Persist
  <2>1. SavedGame
    BY <1>1, HandlerSaves
  <2> QED BY <1>1, <2>1, PersistKeeps DEF SavedGame
<1>2. CASE Unsaved /\ UNCHANGED storeVars
  BY <1>2, UnsavedKeeps
<1>3. CASE Kill
  <2>1. /\ StoreInv'
        /\ \A n \in 0..(phaseIndex - 1) : /\ orderRows'[n] = orderRows[n]
                                          /\ commitRows'[n] = commitRows[n]
        /\ phaseIndex <= phaseIndex'
    BY <1>3, KillKeeps
  <2>2. phaseIndex \in Int /\ phaseIndex' \in Int /\ phaseIndex <= phaseIndex'
    BY <2>1, EndPhaseAssumption DEF StoreInv, StoreTypeOK, TypeOK
  <2>3. ASSUME NEW n \in 0..(phaseIndex - 1)
        PROVE  /\ watch'[n].orders = watch[n].orders
               /\ watch'[n].commitments = watch[n].commitments
    <3>1. n \in 0..(phaseIndex' - 1)
      BY <2>2, PhasesBefore, Zenon
    <3>2. watch'[n].orders = orderRows'[n] /\ watch'[n].commitments = commitRows'[n]
      BY <2>1, <3>1 DEF StoreInv, RecordIsStored
    <3>3. watch[n].orders = orderRows[n] /\ watch[n].commitments = commitRows[n]
      BY DEF StoreInv, RecordIsStored
    <3> QED BY <2>1, <3>2, <3>3
  <2> QED BY <2>1, <2>3
<1>4. CASE UNCHANGED allVars
  BY <1>4 DEF allVars, storeVars, vars, seatVars, boardVars, tableVars, StoreInv, StoreTypeOK,
              TypeOK, RevealedOrdersStand, AutoLocksHold, AnswersAreStored, RecordIsStored
<1> QED BY <1>1, <1>2, <1>3, <1>4 DEF StoreNext

\* Every reachable database and every game restored from one is well typed.
THEOREM StoreTypeCorrect == StoreSpec => []StoreTypeOK
<1>1. StoreInv => StoreTypeOK
  BY DEF StoreInv
<1>2. StoreInv /\ [StoreNext]_allVars => StoreInv'
  BY StoreStep
<1> QED BY <1>1, <1>2, StoreInitInv, PTL DEF StoreSpec

\* store.go's "a crash loses nothing that was answered": envelopes, reveals and
\* the orders they opened are in the rows whenever no handler is under way.
THEOREM NothingAnsweredIsLost == StoreSpec => []AnswersAreStored
<1>1. StoreInv => AnswersAreStored
  BY DEF StoreInv
<1>2. StoreInv /\ [StoreNext]_allVars => StoreInv'
  BY StoreStep
<1> QED BY <1>1, <1>2, StoreInitInv, PTL DEF StoreSpec

\* A restored game still has every revealed envelope on its board.
THEOREM RevealsSurvive == StoreSpec => []RevealedOrdersStand
<1>1. StoreInv => RevealedOrdersStand
  BY DEF StoreInv
<1>2. StoreInv /\ [StoreNext]_allVars => StoreInv'
  BY StoreStep
<1> QED BY <1>1, <1>2, StoreInitInv, PTL DEF StoreSpec

\* ADR-013, through every kill and restart: the orders and the commitments of a
\* resolved phase are never rewritten.
THEOREM HistorySurvives == StoreSpec => PlayedOrdersStand
<1> DEFINE Kept == \A n \in 0..(phaseIndex - 1) :
                     /\ watch'[n].orders = watch[n].orders
                     /\ watch'[n].commitments = watch[n].commitments
<1>1. StoreInv /\ [StoreNext]_allVars => StoreInv'
  BY StoreStep
<1>2. StoreInv /\ [StoreNext]_allVars => [Kept]_allVars
  BY StoreStep
<1> QED BY <1>1, <1>2, StoreInitInv, PTL DEF StoreSpec, PlayedOrdersStand

-------------------------------------------------------------------------------
(* No orders on the record without a commitment *)

\* The server has locked the seats this position does not ask, or none.
LocksAreIdle ==
  \/ \A p \in Power : autoLocked[p] <=> p \in idle
  \/ \A p \in Power : ~autoLocked[p]

\* A running phase that asks somebody has locked those it does not ask.
IdleAreLocked == Playing /\ idle # Power => \A p \in idle : autoLocked[p]

\* Those have given it nothing, on the board or sealed.
IdleGaveNothing ==
  idle # Power => \A p \in idle : sealed[p] = NoEnvelope /\ parts[p] = NoDraft

\* The same in the rows, which hold no orders of a phase to come either.
IdleRowsEmpty ==
  idle # Power => \A p \in idle : orderRows[phaseIndex][p] = NoDraft

NoRowsAhead == \A n \in (phaseIndex + 1)..EndPhase : orderRows[n] = NoOrders

\* What every step keeps.  It speaks of the seats that are not asked and not, as
\* IInv does, of the locked ones: a restart locks every idle seat, also in a
\* phase the cascade gave up on, which then nobody resolves.
OwnedInv ==
  /\ StoreInv
  /\ LocksAreIdle
  /\ IdleAreLocked
  /\ IdleGaveNothing
  /\ IdleRowsEmpty
  /\ NoRowsAhead
  /\ OrdersHaveCommitments

\* In a phase that waits for somebody, a locked seat has nothing on the board.
LEMMA LockedGaveNothing ==
  ASSUME OwnedInv, NEW p \in Power, autoLocked[p], NEW q \in Power, ~autoLocked[q]
  PROVE  parts[p] = NoDraft /\ sealed[p] = NoEnvelope
<1>1. p \in idle /\ q \notin idle
  BY DEF OwnedInv, LocksAreIdle
<1> QED BY <1>1 DEF OwnedInv, IdleGaveNothing

\* A seat with an envelope is asked, or the phase asks nobody.
LEMMA SealedIsAsked ==
  ASSUME OwnedInv, idle # Power, NEW p \in Power, sealed[p] # NoEnvelope
  PROVE  p \notin idle
BY DEF OwnedInv, IdleGaveNothing

\* A force keeps the orders of seats that have revealed, and of no others.
LEMMA ForceOwns ==
  ASSUME OwnedInv, canForce, NEW q \in Power, parts[q] # NoDraft, q \notin NMR(TRUE, revealed)
  PROVE  commitments[q] # NoEnvelope
<1>1. PICK r \in Power : ~autoLocked[r]
  BY DEF canForce, awaitingReveal, Awaiting, Asked, OwnedInv, StoreInv, AutoLocksHold
<1>2. ~autoLocked[q]
  BY <1>1, LockedGaveNothing
<1>3. revealed[q]
  BY <1>2 DEF NMR, Missing
<1> QED BY <1>3 DEF OwnedInv, StoreInv, RevealedOrdersStand

\* By the last reveal every asked seat has one.
LEMMA RevealOwns ==
  ASSUME OwnedInv, NEW p \in Power, MayReveal(p), Awaiting(Opened(p)) = {},
         NEW q \in Power, Laid(p)[q] # NoDraft
  PROVE  Made(p)[q] # NoEnvelope
<1>1. TypeOK
  BY DEF OwnedInv, StoreInv, StoreTypeOK
<1>2. sealed[p] # NoEnvelope /\ Committed # {}
  BY DEF MayReveal, revealOpen
<1>3. CASE q = p
  BY <1>1, <1>2, <1>3 DEF TypeOK, Made
<1>4. CASE q # p
  <2>1. PICK r \in Power : ~autoLocked[r]
    BY <1>2 DEF Committed, Asked
  <2>2. parts[q] # NoDraft /\ Made(p)[q] = commitments[q] /\ Opened(p)[q] = revealed[q]
    BY <1>1, <1>4 DEF TypeOK, Laid, Made, Opened
  <2>3. ~autoLocked[q]
    BY <2>1, <2>2, LockedGaveNothing
  <2>4. revealed[q]
    BY <2>2, <2>3 DEF Awaiting, Asked
  <2> QED BY <2>2, <2>4 DEF OwnedInv, StoreInv, RevealedOrdersStand
<1> QED BY <1>3, <1>4

\* What a handler leaves in memory, on top of SavedGame.
OwnedGame ==
  /\ LocksAreIdle'
  /\ IdleAreLocked'
  /\ IdleGaveNothing'
  /\ OrdersHaveCommitments'

\* Resolving a phase leaves such a game: it locks the seats the next phase does
\* not ask, unless that asks nobody or the game is over.
LEMMA ResolveOwns ==
  ASSUME OwnedInv,
         NEW review \in Snapshot,
         \A p \in Power : review.orders[p] # NoDraft => review.commitments[p] # NoEnvelope,
         NEW cascaded \in 0..maxAutoPhases,
         NEW next \in SUBSET Power,
         NEW solo \in BOOLEAN,
         Resolve(review, cascaded, next, solo)
  PROVE  OwnedGame
<1>1. /\ autoLocked' = [p \in Power |-> /\ ~Ends(cascaded, solo)
                                        /\ cascaded < maxAutoPhases
                                        /\ p \in next]
      /\ idle' = next
      /\ over' = Ends(cascaded, solo)
      /\ sealed' = [p \in Power |-> NoEnvelope]
      /\ parts' = [p \in Power |-> NoDraft]
      /\ ~Ends(cascaded, solo) => (next = Power <=> cascaded = maxAutoPhases)
  BY DEF Resolve
<1>2. LocksAreIdle' /\ IdleGaveNothing'
  BY <1>1 DEF LocksAreIdle, IdleGaveNothing
<1>3. IdleAreLocked'
  <2>1. SUFFICES ASSUME Playing', idle' # Power, NEW p \in idle' PROVE autoLocked'[p]
    BY DEF IdleAreLocked
  <2>2. ~Ends(cascaded, solo)
    BY <1>1, <2>1 DEF Playing
  <2>3. cascaded # maxAutoPhases
    BY <1>1, <2>1, <2>2
  <2>4. cascaded < maxAutoPhases
    BY <2>3, maxAutoPhasesAssumption
  <2> QED BY <1>1, <2>1, <2>2, <2>4
<1>4. OrdersHaveCommitments'
  <2>1. SUFFICES ASSUME NEW n \in (0..(phaseIndex - 1))', NEW p \in Power,
                        watch'[n].orders[p] # NoDraft
                 PROVE  watch'[n].commitments[p] # NoEnvelope
    BY DEF OrdersHaveCommitments
  <2>2. phaseIndex \in 0..EndPhase
    BY DEF OwnedInv, StoreInv, StoreTypeOK, TypeOK
  <2>3. n \in 0..(After(cascaded) - 1) /\ After(cascaded) <= EndPhase
    BY DEF Resolve
  <2>4. n \in 0..(EndPhase - 1) /\ n < After(cascaded)
    BY <2>2, <2>3, EndPhaseAssumption, maxAutoPhasesAssumption DEF After
  <2>5. CASE n = phaseIndex
    BY <2>1, <2>4, <2>5 DEF Resolve
  <2>6. CASE n > phaseIndex
    <3>1. watch'[n] = NoSnapshot
      BY <2>2, <2>4, <2>6, maxAutoPhasesAssumption DEF Resolve, After
    <3> QED BY <3>1, <2>1 DEF NoSnapshot
  <2>7. CASE n < phaseIndex
    <3>1. watch'[n] = watch[n] /\ n \in 0..(phaseIndex - 1)
      BY <2>2, <2>4, <2>7 DEF Resolve
    <3> QED BY <3>1, <2>1 DEF OwnedInv, OrdersHaveCommitments
  <2> QED BY <2>2, <2>4, <2>5, <2>6, <2>7
<1> QED BY <1>2, <1>3, <1>4 DEF OwnedGame

\* The same of adjudicate, on the board and the record it resolves.
LEMMA AdjudicateOwns ==
  ASSUME OwnedInv,
         NEW dropUnlocked \in BOOLEAN,
         NEW board \in [Power -> Draft],
         NEW opened,
         NEW made \in [Power -> Lists \cup {NoEnvelope}],
         \A p \in Power : board[p] # NoDraft /\ p \notin NMR(dropUnlocked, opened)
                            => made[p] # NoEnvelope,
         Adjudicate(dropUnlocked, board, opened, made)
  PROVE  OwnedGame
<1> DEFINE review == Review(dropUnlocked, board, opened, made)
<1>1. PICK cascaded \in 0..maxAutoPhases, next \in SUBSET Power, solo \in BOOLEAN :
        Resolve(review, cascaded, next, solo)
  BY DEF Adjudicate
<1>2. \A p \in Power : review.orders[p] # NoDraft => review.commitments[p] # NoEnvelope
  BY DEF Review
<1>3. review \in Snapshot
  BY ReviewType
<1> HIDE DEF review
<1> QED BY <1>1, <1>2, <1>3, ResolveOwns

\* A step that moves nothing of a seat but its lock on the board's terms.
LEMMA StillOwned ==
  ASSUME OwnedInv,
         UNCHANGED <<autoLocked, idle, sealed, parts, phaseIndex, watch>>,
         Playing' => Playing
  PROVE  OwnedGame
BY DEF OwnedInv, OwnedGame, LocksAreIdle, IdleAreLocked, IdleGaveNothing, OrdersHaveCommitments

\* Every handler that persists, and every change of the clock.
LEMMA HandlerOwns == ASSUME OwnedInv, Saved \/ MoveClock PROVE OwnedGame
<1>1. StoreInv /\ TypeOK /\ RevealedOrdersStand
  BY DEF OwnedInv, StoreInv, StoreTypeOK
<1>2. ASSUME NEW p \in Power, RevealLast(p) PROVE OwnedGame
  <2>1. /\ MayReveal(p) /\ sealed[p] # NoEnvelope
        /\ Awaiting(Opened(p)) = {}
        /\ Adjudicate(FALSE, Laid(p), Opened(p), Made(p))
    BY <1>2 DEF RevealLast, MayReveal
  <2>2. \A q \in Power : Laid(p)[q] # NoDraft => Made(p)[q] # NoEnvelope
    BY <2>1, RevealOwns
  <2>3. Laid(p) \in [Power -> Draft] /\ Made(p) \in [Power -> Lists \cup {NoEnvelope}]
    BY <1>1, <2>1, RevealType
  <2> QED BY <2>1, <2>2, <2>3, AdjudicateOwns
<1>3. CASE GMForce
  <2>1. canForce /\ Adjudicate(TRUE, parts, revealed, commitments)
    BY <1>3 DEF GMForce
  <2>2. ASSUME NEW q \in Power, parts[q] # NoDraft, q \notin NMR(TRUE, revealed)
        PROVE  commitments[q] # NoEnvelope
    BY <2>1, <2>2, ForceOwns
  <2>3. parts \in [Power -> Draft] /\ commitments \in [Power -> Lists \cup {NoEnvelope}]
    BY <1>1 DEF TypeOK
  <2> QED BY <2>1, <2>2, <2>3, AdjudicateOwns
<1>4. CASE Start
  BY <1>1, <1>4 DEF Start, boardVars, TypeOK, OwnedInv, OwnedGame, LocksAreIdle, IdleAreLocked,
                    IdleGaveNothing, OrdersHaveCommitments
<1>5. ASSUME NEW p \in Power,
             \/ \E list \in Lists, fresh \in BOOLEAN : Commit(p, list, fresh)
             \/ Uncommit(p)
      PROVE  OwnedGame
  <2>1. /\ Playing
        /\ ~autoLocked[p]
        /\ UNCHANGED <<autoLocked, boardVars, tableVars>>
        /\ \E list : sealed' = [sealed EXCEPT ![p] = list]
    BY <1>5 DEF Commit, Uncommit, MayCommit, Playing
  <2>2. IdleGaveNothing'
    <3>1. SUFFICES ASSUME idle # Power, NEW q \in idle
                   PROVE  sealed'[q] = NoEnvelope /\ parts'[q] = NoDraft
      BY <2>1 DEF IdleGaveNothing, boardVars
    <3>2. q # p /\ q \in Power
      BY <1>1, <2>1, <3>1 DEF OwnedInv, IdleAreLocked, TypeOK
    <3> QED BY <1>1, <2>1, <3>1, <3>2 DEF OwnedInv, IdleGaveNothing, TypeOK, boardVars
  <2>3. LocksAreIdle' /\ IdleAreLocked' /\ OrdersHaveCommitments'
    BY <2>1 DEF OwnedInv, LocksAreIdle, IdleAreLocked, OrdersHaveCommitments, Playing,
                boardVars, tableVars
  <2> QED BY <2>2, <2>3 DEF OwnedGame
<1>6. ASSUME NEW p \in Power, Reveal(p) PROVE OwnedGame
  <2>1. /\ sealed[p] # NoEnvelope
        /\ parts' = Laid(p)
        /\ UNCHANGED <<autoLocked, idle, sealed, phaseIndex, watch, tableVars>>
    BY <1>6 DEF Reveal, MayReveal
  <2>2. IdleGaveNothing'
    <3>1. SUFFICES ASSUME idle # Power, NEW q \in idle
                   PROVE  sealed'[q] = NoEnvelope /\ parts'[q] = NoDraft
      BY <2>1 DEF IdleGaveNothing
    <3>2. q # p /\ q \in Power
      BY <1>1, <2>1, <3>1, SealedIsAsked DEF TypeOK
    <3> QED BY <1>1, <2>1, <3>1, <3>2 DEF OwnedInv, IdleGaveNothing, TypeOK, Laid
  <2>3. LocksAreIdle' /\ IdleAreLocked' /\ OrdersHaveCommitments'
    BY <2>1 DEF OwnedInv, LocksAreIdle, IdleAreLocked, OrdersHaveCommitments, Playing, tableVars
  <2> QED BY <2>2, <2>3 DEF OwnedGame
<1>7. CASE EndByDraw
  BY <1>7, StillOwned DEF EndByDraw, Playing, seatVars, boardVars
<1>8. CASE MoveClock
  BY <1>8, StillOwned DEF MoveClock, GMExtend, ChangeClock, ChangeGrace, Playing, seatVars,
                          boardVars
<1> QED BY <1>2, <1>3, <1>4, <1>5, <1>6, <1>7, <1>8 DEF Saved

\* The phases after one are numbered above it.
LEMMA PhasesAfter ==
  ASSUME NEW a \in Nat, NEW b \in Int, NEW c \in Int, a <= b
  PROVE  \A n \in (b + 1)..c : /\ n \in 0..c
                               /\ n \in (a + 1)..c
                               /\ n # b
                               /\ n \notin a..(b - 1)
OBVIOUS

\* Persisting such a game leaves rows that say the same.
LEMMA PersistOwns == ASSUME OwnedInv, SavedGame, OwnedGame, Persist PROVE OwnedInv'
<1>1. StoreInv'
  BY PersistKeeps DEF OwnedInv
<1>2. /\ phaseIndex \in Int /\ phaseIndex' \in Int /\ phaseIndex <= phaseIndex'
      /\ EndPhase \in Int /\ phaseIndex' \in 0..EndPhase
      /\ phaseIndex \in Nat
  BY EndPhaseAssumption DEF SavedGame, TypeOK, OwnedInv, StoreInv, StoreTypeOK
<1>3. orderRows'[phaseIndex'] = parts'
  BY <1>2, PhasesBefore, Zenon DEF Persist, OrdersWritten
<1>4. IdleRowsEmpty'
  BY <1>3 DEF OwnedGame, IdleGaveNothing, IdleRowsEmpty
<1>5. NoRowsAhead'
  <2>1. \A n \in (phaseIndex' + 1)..EndPhase :
          /\ n \in 0..EndPhase
          /\ n \in (phaseIndex + 1)..EndPhase
          /\ n # phaseIndex'
          /\ n \notin phaseIndex..(phaseIndex' - 1)
    BY <1>2, PhasesAfter, Zenon
  <2>2. ASSUME NEW n \in (phaseIndex' + 1)..EndPhase PROVE orderRows'[n] = orderRows[n]
    BY <2>1, Zenon DEF Persist, OrdersWritten
  <2>3. ASSUME NEW n \in (phaseIndex' + 1)..EndPhase PROVE orderRows[n] = NoOrders
    BY <2>1, Zenon DEF OwnedInv, NoRowsAhead
  <2> QED BY <2>2, <2>3, Zenon DEF NoRowsAhead
<1> QED BY <1>1, <1>4, <1>5 DEF OwnedGame, OwnedInv

\* A restart from rows in which idle seats have given nothing, and no past phase
\* has orders without a commitment.
LEMMA RestoreOwns ==
  ASSUME StoreInv',
         NEW next \in SUBSET Power,
         Restore(next),
         next # Power => \A p \in next : /\ rows'.sealed[p] = NoEnvelope
                                         /\ orderRows'[rows'.phaseIndex][p] = NoDraft,
         \A n \in (rows'.phaseIndex + 1)..EndPhase : orderRows'[n] = NoOrders,
         \A n \in 0..(rows'.phaseIndex - 1), p \in Power :
           orderRows'[n][p] # NoDraft => commitRows'[n][p] # NoEnvelope
  PROVE  OwnedInv'
<1>1. /\ phaseIndex' = rows'.phaseIndex
      /\ idle' = next
      /\ sealed' = rows'.sealed
      /\ parts' = orderRows'[rows'.phaseIndex]
      /\ \A p \in Power : autoLocked'[p] <=> p \in next
  BY DEF Restore
<1>2. LocksAreIdle' /\ IdleAreLocked' /\ IdleGaveNothing' /\ IdleRowsEmpty' /\ NoRowsAhead'
  BY <1>1 DEF LocksAreIdle, IdleAreLocked, IdleGaveNothing, IdleRowsEmpty, NoRowsAhead
<1>3. OrdersHaveCommitments'
  BY <1>1 DEF OrdersHaveCommitments, StoreInv, RecordIsStored
<1> QED BY <1>2, <1>3 DEF OwnedInv

\* A kill in adjudicate: the frozen orders are those of seats that own them, and
\* the phases past the one it resolved have none.
LEMMA KillInAdjudicateOwns ==
  ASSUME OwnedInv, StoreInv',
         NEW dropUnlocked \in BOOLEAN,
         NEW board \in [Power -> Draft],
         NEW opened \in [Power -> BOOLEAN],
         NEW made \in [Power -> Lists \cup {NoEnvelope}],
         idle # Power => \A p \in idle : board[p] = NoDraft,
         \A p \in Power : board[p] # NoDraft /\ p \notin NMR(dropUnlocked, opened)
                            => made[p] # NoEnvelope,
         KillInAdjudicate(dropUnlocked, board, opened, made)
  PROVE  OwnedInv'
<1> DEFINE review == Review(dropUnlocked, board, opened, made)
<1>1. /\ \A p \in Power : review.orders[p] # NoDraft => review.commitments[p] # NoEnvelope
      /\ idle # Power => \A p \in Power : p \in idle => review.orders[p] = NoDraft
  BY DEF Review
<1>2. KillInAdvance(review, opened) \/ KillBeforeEnterPhase(review)
  BY DEF KillInAdjudicate
<1> HIDE DEF review
<1>3. /\ phaseIndex \in 0..EndPhase /\ EndPhase \in Nat /\ idle \in SUBSET Power
      /\ orderRows \in [0..EndPhase -> [Power -> Draft]]
      /\ commitRows \in [0..EndPhase -> [Power -> Lists \cup {NoEnvelope}]]
  BY EndPhaseAssumption DEF OwnedInv, StoreInv, StoreTypeOK, TypeOK
<1>4. ASSUME NEW n \in 0..(phaseIndex - 1), NEW p \in Power, orderRows[n][p] # NoDraft
      PROVE  commitRows[n][p] # NoEnvelope
  BY <1>4 DEF OwnedInv, StoreInv, RecordIsStored, OrdersHaveCommitments
<1>5. CASE KillInAdvance(review, opened)
  <2>1. /\ rows' = [GameRows EXCEPT !.revealed = opened]
        /\ orderRows' = [orderRows EXCEPT ![phaseIndex] = review.orders]
        /\ commitRows' = [commitRows EXCEPT ![phaseIndex] = review.commitments]
        /\ Restore(idle)
    BY <1>5 DEF KillInAdvance
  <2>2. rows'.phaseIndex = phaseIndex /\ rows'.sealed = sealed
    BY <2>1 DEF GameRows
  <2>3. idle # Power => \A p \in idle : /\ rows'.sealed[p] = NoEnvelope
                                        /\ orderRows'[rows'.phaseIndex][p] = NoDraft
    BY <1>1, <1>3, <2>1, <2>2 DEF OwnedInv, IdleGaveNothing
  <2>4. ASSUME NEW n \in (rows'.phaseIndex + 1)..EndPhase PROVE orderRows'[n] = NoOrders
    <3>1. n \in (phaseIndex + 1)..EndPhase /\ n # phaseIndex /\ n \in 0..EndPhase
      BY <1>3, <2>2
    <3> QED BY <1>3, <2>1, <3>1 DEF OwnedInv, NoRowsAhead
  <2>5. ASSUME NEW n \in 0..(rows'.phaseIndex - 1), NEW p \in Power, orderRows'[n][p] # NoDraft
        PROVE  commitRows'[n][p] # NoEnvelope
    <3>1. n \in 0..(phaseIndex - 1) /\ n # phaseIndex /\ n \in 0..EndPhase
      BY <1>3, <2>2
    <3>2. orderRows'[n] = orderRows[n] /\ commitRows'[n] = commitRows[n]
      BY <1>3, <2>1, <3>1
    <3> QED BY <1>4, <2>5, <3>1, <3>2
  <2> QED BY <1>3, <2>1, <2>3, <2>4, <2>5, RestoreOwns
<1>6. CASE KillBeforeEnterPhase(review)
  <2>1. PICK cascaded \in 0..(maxAutoPhases - 1), next \in SUBSET Power :
          /\ After(cascaded) <= EndPhase
          /\ rows'.phaseIndex = After(cascaded)
          /\ rows'.sealed = [p \in Power |-> NoEnvelope]
          /\ orderRows' = [n \in 0..EndPhase |-> IF n = phaseIndex THEN review.orders
                                                 ELSE orderRows[n]]
          /\ commitRows' = [n \in 0..EndPhase |-> IF n = phaseIndex THEN review.commitments
                                                  ELSE commitRows[n]]
          /\ Restore(next)
    BY <1>6 DEF KillBeforeEnterPhase
  <2>2. cascaded \in Nat /\ rows'.phaseIndex = phaseIndex + 1 + cascaded
    BY <2>1, maxAutoPhasesAssumption DEF After
  <2>3. ASSUME NEW n \in (phaseIndex + 1)..EndPhase PROVE orderRows'[n] = NoOrders
    <3>1. n \in 0..EndPhase /\ n # phaseIndex
      BY <1>3
    <3> QED BY <2>1, <3>1 DEF OwnedInv, NoRowsAhead
  <2>4. rows'.phaseIndex \in (phaseIndex + 1)..EndPhase
    BY <1>3, <2>1, <2>2
  <2>5. ASSUME NEW p \in next
        PROVE  rows'.sealed[p] = NoEnvelope /\ orderRows'[rows'.phaseIndex][p] = NoDraft
    <3>1. p \in Power /\ orderRows'[rows'.phaseIndex] = NoOrders
      BY <2>3, <2>4
    <3> QED BY <2>1, <3>1 DEF NoOrders
  <2>6. ASSUME NEW n \in (rows'.phaseIndex + 1)..EndPhase PROVE orderRows'[n] = NoOrders
    <3>1. n \in (phaseIndex + 1)..EndPhase
      BY <1>3, <2>2
    <3> QED BY <2>3, <3>1
  <2>7. ASSUME NEW n \in 0..(rows'.phaseIndex - 1), NEW p \in Power, orderRows'[n][p] # NoDraft
        PROVE  commitRows'[n][p] # NoEnvelope
    <3>1. n \in 0..EndPhase
      BY <1>3, <2>1, <2>2, <2>4
    <3>2. CASE n = phaseIndex
      BY <1>1, <2>1, <2>7, <3>1, <3>2
    <3>3. CASE n < phaseIndex
      <4>1. n \in 0..(phaseIndex - 1) /\ n # phaseIndex
        BY <1>3, <3>1, <3>3
      <4> QED BY <1>4, <2>1, <2>7, <3>1, <4>1
    <3>4. CASE n > phaseIndex
      <4>1. n \in (phaseIndex + 1)..EndPhase
        BY <1>3, <3>1, <3>4
      <4>2. orderRows'[n][p] = NoDraft
        BY <2>3, <4>1 DEF NoOrders
      <4> QED BY <2>7, <4>2
    <3> QED BY <1>3, <3>1, <3>2, <3>3, <3>4
  <2> QED BY <2>1, <2>5, <2>6, <2>7, RestoreOwns
<1> QED BY <1>2, <1>5, <1>6

\* Every kill and the restart after it.
LEMMA KillOwns == ASSUME OwnedInv, Kill PROVE OwnedInv'
<1>1. StoreInv /\ TypeOK /\ RevealedOrdersStand /\ AnswersAreStored
  BY DEF OwnedInv, StoreInv, StoreTypeOK
<1>2. StoreInv'
  BY <1>1, KillKeeps
<1>3. /\ phaseIndex \in 0..EndPhase /\ EndPhase \in Nat /\ idle \in SUBSET Power
      /\ commitRows \in [0..EndPhase -> [Power -> Lists \cup {NoEnvelope}]]
      /\ rows.phaseIndex = phaseIndex /\ rows.sealed = sealed
  BY <1>1, EndPhaseAssumption DEF StoreInv, StoreTypeOK, TypeOK, AnswersAreStored
<1>4. idle # Power => \A p \in idle : /\ sealed[p] = NoEnvelope
                                      /\ parts[p] = NoDraft
                                      /\ orderRows[phaseIndex][p] = NoDraft
  BY DEF OwnedInv, IdleGaveNothing, IdleRowsEmpty
<1>5. ASSUME NEW n \in 0..(phaseIndex - 1), NEW p \in Power, orderRows[n][p] # NoDraft
      PROVE  commitRows[n][p] # NoEnvelope
  BY <1>5 DEF OwnedInv, StoreInv, RecordIsStored, OrdersHaveCommitments
<1>6. CASE Restart
  <2>1. UNCHANGED <<rows, orderRows, commitRows>> /\ Restore(idle)
    BY <1>6 DEF Restart, storeVars
  <2> QED BY <1>2, <1>3, <1>4, <1>5, <2>1, RestoreOwns DEF OwnedInv, NoRowsAhead
<1>7. ASSUME NEW p \in Power, KillAfterRecord(p) PROVE OwnedInv'
  <2>1. /\ commitRows' = [commitRows EXCEPT ![phaseIndex] = Made(p)]
        /\ UNCHANGED <<rows, orderRows>>
        /\ Restore(idle)
    BY <1>7 DEF KillAfterRecord
  <2>2. ASSUME NEW n \in 0..(phaseIndex - 1) PROVE commitRows'[n] = commitRows[n]
    <3>1. n \in 0..EndPhase /\ n # phaseIndex
      BY <1>3
    <3> QED BY <1>3, <2>1, <3>1
  <2> QED BY <1>2, <1>3, <1>4, <1>5, <2>1, <2>2, RestoreOwns DEF OwnedInv, NoRowsAhead
<1>8. ASSUME NEW p \in Power, KillInRevealLast(p) PROVE OwnedInv'
  <2>1. /\ MayReveal(p) /\ sealed[p] # NoEnvelope
        /\ Awaiting(Opened(p)) = {}
        /\ KillInAdjudicate(FALSE, Laid(p), Opened(p), Made(p))
    BY <1>8 DEF KillInRevealLast, MayReveal
  <2>2. \A q \in Power : Laid(p)[q] # NoDraft => Made(p)[q] # NoEnvelope
    BY <2>1, RevealOwns
  <2>3. idle # Power => \A q \in idle : Laid(p)[q] = NoDraft
    <3>1. SUFFICES ASSUME idle # Power, NEW q \in idle PROVE Laid(p)[q] = NoDraft
      OBVIOUS
    <3>2. q # p /\ q \in Power
      BY <1>3, <2>1, <3>1, SealedIsAsked
    <3> QED BY <1>1, <1>4, <3>1, <3>2 DEF Laid, TypeOK
  <2>4. /\ Laid(p) \in [Power -> Draft]
        /\ Made(p) \in [Power -> Lists \cup {NoEnvelope}]
        /\ Opened(p) \in [Power -> BOOLEAN]
    BY <1>1, <2>1, RevealType DEF Opened, TypeOK
  <2>5. \A q \in Power : Laid(p)[q] # NoDraft /\ q \notin NMR(FALSE, Opened(p))
                           => Made(p)[q] # NoEnvelope
    BY <2>2
  <2> QED BY <1>2, <2>1, <2>3, <2>4, <2>5, KillInAdjudicateOwns
<1>9. CASE KillInForce
  <2>1. canForce /\ KillInAdjudicate(TRUE, parts, revealed, commitments)
    BY <1>9 DEF KillInForce
  <2>2. ASSUME NEW q \in Power, parts[q] # NoDraft, q \notin NMR(TRUE, revealed)
        PROVE  commitments[q] # NoEnvelope
    BY <2>1, <2>2, ForceOwns
  <2>3. /\ parts \in [Power -> Draft]
        /\ revealed \in [Power -> BOOLEAN]
        /\ commitments \in [Power -> Lists \cup {NoEnvelope}]
    BY <1>1 DEF TypeOK
  <2>4. \A q \in Power : parts[q] # NoDraft /\ q \notin NMR(TRUE, revealed)
                           => commitments[q] # NoEnvelope
    BY <2>2
  <2>5. idle # Power => \A q \in idle : parts[q] = NoDraft
    BY <1>4
  <2> QED BY <1>2, <2>1, <2>3, <2>4, <2>5, KillInAdjudicateOwns
<1> QED BY <1>6, <1>7, <1>8, <1>9 DEF Kill

\* What persists nothing lays orders of an asked seat at most.
LEMMA UnsavedOwns == ASSUME OwnedInv, Unsaved, UNCHANGED storeVars PROVE OwnedInv'
<1>1. StoreInv' /\ UNCHANGED <<phaseIndex, watch>>
  BY UnsavedKeeps DEF OwnedInv
<1>2. UNCHANGED <<autoLocked, idle, sealed, started, over, orderRows>>
  BY DEF Unsaved, TimePasses, RevealRefused, LoseKey, storeVars, seatVars, boardVars, tableVars
<1>3. IdleGaveNothing'
  <2>1. ASSUME NEW p \in Power, RevealRefused(p) PROVE IdleGaveNothing'
    <3>1. SUFFICES ASSUME idle # Power, NEW q \in idle
                   PROVE  sealed'[q] = NoEnvelope /\ parts'[q] = NoDraft
      BY <1>2 DEF IdleGaveNothing
    <3>2. sealed[p] # NoEnvelope /\ parts' = Laid(p)
      BY <2>1 DEF RevealRefused, MayReveal
    <3>3. TypeOK
      BY DEF OwnedInv, StoreInv, StoreTypeOK
    <3>4. q # p /\ q \in Power
      BY <3>1, <3>2, <3>3, SealedIsAsked DEF TypeOK
    <3> QED BY <1>2, <3>1, <3>2, <3>3, <3>4 DEF OwnedInv, IdleGaveNothing, TypeOK, Laid
  <2>2. CASE UNCHANGED parts
    BY <1>2, <2>2 DEF OwnedInv, IdleGaveNothing
  <2> QED BY <2>1, <2>2 DEF Unsaved, TimePasses, LoseKey, boardVars
<1>4. /\ LocksAreIdle' /\ IdleAreLocked' /\ IdleRowsEmpty' /\ NoRowsAhead'
      /\ OrdersHaveCommitments'
  BY <1>1, <1>2 DEF OwnedInv, LocksAreIdle, IdleAreLocked, Playing, IdleRowsEmpty, NoRowsAhead,
                    OrdersHaveCommitments
<1> QED BY <1>1, <1>3, <1>4 DEF OwnedInv

\* Before a game has started nobody has given anything.
LEMMA StoreInitOwned == StoreInit => OwnedInv
<1> SUFFICES ASSUME StoreInit PROVE OwnedInv
  OBVIOUS
<1>1. Init /\ EndPhase \in Nat
  BY EndPhaseAssumption DEF StoreInit
<1>2. phaseIndex = 0 /\ phaseIndex \in 0..EndPhase /\ idle \in SUBSET Power
  BY <1>1 DEF Init
<1>3. LocksAreIdle /\ IdleAreLocked /\ IdleGaveNothing
  BY <1>1, <1>2 DEF Init, LocksAreIdle, IdleAreLocked, IdleGaveNothing, Playing
<1>4. IdleRowsEmpty
  BY <1>2 DEF StoreInit, NoOrders, IdleRowsEmpty
<1>5. NoRowsAhead
  BY <1>2 DEF StoreInit, NoRowsAhead
<1>6. OrdersHaveCommitments
  <2>1. 0..(phaseIndex - 1) = {}
    BY <1>2
  <2> QED BY <2>1 DEF OrdersHaveCommitments
<1> QED BY <1>3, <1>4, <1>5, <1>6, StoreInitInv DEF OwnedInv

\* Every step of the server keeps it.
LEMMA OwnedStep == OwnedInv /\ [StoreNext]_allVars => OwnedInv'
<1> SUFFICES ASSUME OwnedInv, [StoreNext]_allVars PROVE OwnedInv'
  OBVIOUS
<1>1. CASE (Saved \/ MoveClock) /\ Persist
  <2>1. SavedGame
    BY <1>1, HandlerSaves DEF OwnedInv
  <2>2. OwnedGame
    BY <1>1, HandlerOwns
  <2> QED BY <1>1, <2>1, <2>2, PersistOwns
<1>2. CASE Unsaved /\ UNCHANGED storeVars
  BY <1>2, UnsavedOwns
<1>3. CASE Kill
  BY <1>3, KillOwns
<1>4. CASE UNCHANGED allVars
  <2>1. StoreInv'
    BY StoreStep DEF OwnedInv
  <2> QED BY <1>4, <2>1 DEF allVars, storeVars, vars, seatVars, boardVars, tableVars, OwnedInv,
                LocksAreIdle, IdleAreLocked, Playing, IdleGaveNothing, IdleRowsEmpty,
                NoRowsAhead, OrdersHaveCommitments
<1> QED BY <1>1, <1>2, <1>3, <1>4 DEF StoreNext

\* Kills and restarts never put orders on the record that no envelope stands for.
THEOREM OrdersStayOwned == StoreSpec => []OrdersHaveCommitments
<1>1. OwnedInv => OrdersHaveCommitments
  BY DEF OwnedInv
<1> QED BY <1>1, StoreInitOwned, OwnedStep, PTL DEF StoreSpec
===============================================================================
