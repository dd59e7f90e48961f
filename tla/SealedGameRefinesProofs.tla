------------------------ MODULE SealedGameRefinesProofs ------------------------
(***************************************************************************)
(* For every table: under a game master who leaves the clock alone while a *)
(* window is open, the window stays open, the record of every phase is     *)
(* what was committed, and the game implements CommitReveal.               *)
(***************************************************************************)
EXTENDS SealedGameProofs

-------------------------------------------------------------------------------
(* The inductive invariant *)

\* Once a seat has been opened, all the way or up to a refused entry, its
\* envelope is still the one that was opened, and the record holds it.
OpenedAsSealed ==
  \A p \in Power :
    /\ revealed[p] => Opens(sealed[p]) /\ parts[p] = sealed[p]
    /\ ~revealed[p] /\ parts[p] # NoDraft => sealed[p] # NoEnvelope /\ ~Opens(sealed[p])
    /\ commitments[p] = IF revealed[p] THEN sealed[p] ELSE NoEnvelope

SteadyInv ==
  /\ IInv
  /\ WindowStaysOpen
  /\ OpenedAsSealed
  /\ RecordIsWhatWasCommitted

\* What the game master may do in SteadySpec is part of what Spec allows.
LEMMA SteadyIsNext == [SteadyNext]_vars => [Next]_vars
BY DEF SteadyNext, Next

\* The invariant of every game holds under the steadier game master too.
LEMMA SteadyInductive == SteadySpec => []IInv
<1>1. IInv /\ [SteadyNext]_vars => IInv'
  BY NextInv, SteadyIsNext
<1> QED BY <1>1, InitInv, PTL DEF SteadySpec

\* What a sealed list plays is the list.
LEMMA ListItself == ASSUME NEW list \in Lists PROVE OrdersOf(list) = list
<1>1. list \in [Province -> Order \cup {Refused, NoOrder}] /\ list # NoEnvelope
  BY ListsAssumption
<1>2. list = [v \in Province |-> list[v]]
  BY <1>1
<1> QED BY <1>1, <1>2 DEF OrdersOf

\* A phase filed with the committed orders keeps SteadyInv.
LEMMA ResolveSteady ==
  ASSUME SteadyInv, IInv',
         NEW review \in Snapshot,
         \A p \in Power : review.orders[p] = OrdersOf(review.commitments[p]),
         NEW cascaded \in 0..maxAutoPhases,
         NEW next \in SUBSET Power,
         NEW solo \in BOOLEAN,
         Resolve(review, cascaded, next, solo)
  PROVE  SteadyInv'
<1>1. WindowStaysOpen' /\ OpenedAsSealed'
  BY DEF Resolve, WindowStaysOpen, OpenedAsSealed
<1>2. RecordIsWhatWasCommitted'
  <2>1. SUFFICES ASSUME NEW n \in (0..(phaseIndex - 1))', NEW p \in Power
                 PROVE  watch'[n].orders[p] = OrdersOf(watch'[n].commitments[p])
    BY DEF RecordIsWhatWasCommitted
  <2>2. n \in 0..(After(cascaded) - 1) /\ After(cascaded) <= EndPhase
    BY DEF Resolve
  <2>3. phaseIndex \in 0..EndPhase /\ n \in 0..(EndPhase - 1) /\ n < After(cascaded)
    BY <2>2, EndPhaseAssumption, maxAutoPhasesAssumption DEF SteadyInv, IInv, TypeOK, After
  <2>4. CASE n = phaseIndex
    BY <2>3, <2>4 DEF Resolve
  <2>5. CASE n > phaseIndex
    <3>1. watch'[n] = NoSnapshot
      BY <2>3, <2>5, maxAutoPhasesAssumption DEF Resolve, After
    <3> QED BY <3>1 DEF NoSnapshot, OrdersOf
  <2>6. CASE n < phaseIndex
    <3>1. watch'[n] = watch[n] /\ n \in 0..(phaseIndex - 1)
      BY <2>3, <2>6 DEF Resolve
    <3> QED BY <3>1 DEF SteadyInv, RecordIsWhatWasCommitted
  <2> QED BY <2>3, <2>4, <2>5, <2>6
<1> QED BY <1>1, <1>2 DEF SteadyInv

\* The same of adjudicate, however far the cascade runs.
LEMMA AdjudicateSteady ==
  ASSUME SteadyInv, IInv',
         NEW dropUnlocked \in BOOLEAN,
         NEW board \in [Power -> Draft],
         NEW opened,
         NEW made \in [Power -> Lists \cup {NoEnvelope}],
         \A p \in Power : IF p \in NMR(dropUnlocked, opened)
                          THEN made[p] = NoEnvelope
                          ELSE board[p] = OrdersOf(made[p]),
         Adjudicate(dropUnlocked, board, opened, made)
  PROVE  SteadyInv'
<1> DEFINE review == Review(dropUnlocked, board, opened, made)
<1>1. PICK cascaded \in 0..maxAutoPhases, next \in SUBSET Power, solo \in BOOLEAN :
        Resolve(review, cascaded, next, solo)
  BY DEF Adjudicate
<1>2. \A p \in Power : review.orders[p] = OrdersOf(review.commitments[p])
  BY DEF Review, OrdersOf
<1>3. review \in Snapshot
  BY ReviewType
<1> HIDE DEF review
<1> QED BY <1>1, <1>2, <1>3, ResolveSteady

\* While the window is shut, nothing of the phase has been opened.
LEMMA ShutMeansUnopened ==
  ASSUME SteadyInv, Playing, ~revealOpen, NEW p \in Power
  PROVE  ~revealed[p] /\ parts[p] = NoDraft
BY DEF SteadyInv, WindowStaysOpen

\* A commitment comes while nothing of the phase has been opened.
LEMMA CommitSteady ==
  ASSUME SteadyInv, NEW p \in Power,
         \/ \E list \in Lists, fresh \in BOOLEAN : Commit(p, list, fresh)
         \/ Uncommit(p)
  PROVE  SteadyInv'
<1>1. IInv'
  BY CommitKeeps DEF SteadyInv
<1>2. /\ Playing
      /\ ~revealOpen
      /\ \E list \in Lists \cup {NoEnvelope} : sealed' = [sealed EXCEPT ![p] = list]
      /\ revealed' = [revealed EXCEPT ![p] = FALSE]
      /\ UNCHANGED <<parts, commitments, phaseIndex, watch>>
  BY DEF Commit, Uncommit, MayCommit, Playing, boardVars
<1>3. \A q \in Power : ~revealed'[q] /\ parts'[q] = NoDraft
  BY <1>2, ShutMeansUnopened DEF SteadyInv, IInv, TypeOK
<1>4. WindowStaysOpen'
  BY <1>3 DEF WindowStaysOpen
<1>5. OpenedAsSealed'
  BY <1>2, <1>3, ShutMeansUnopened DEF SteadyInv, OpenedAsSealed
<1>6. RecordIsWhatWasCommitted'
  BY <1>2 DEF SteadyInv, RecordIsWhatWasCommitted
<1> QED BY <1>1, <1>4, <1>5, <1>6 DEF SteadyInv

\* A reveal opens an envelope onto the empty draft of its seat.
LEMMA RevealSteady ==
  ASSUME SteadyInv, NEW p \in Power, RevealRefused(p) \/ Reveal(p)
  PROVE  SteadyInv'
<1>1. IInv'
  BY RevealKeeps DEF SteadyInv
<1>2. /\ revealOpen
      /\ sealed[p] \in Lists
      /\ sealed[p] # NoEnvelope
      /\ ~revealed[p]
      /\ parts' = Laid(p)
      /\ UNCHANGED <<autoLocked, sealed, phaseIndex, watch, tableVars>>
  BY DEF RevealRefused, Reveal, MayReveal, seatVars, SteadyInv, IInv, TypeOK
<1>3. revealOpen'
  BY <1>2 DEF revealOpen, Committed, Asked, tableVars
<1>4. WindowStaysOpen'
  BY <1>3 DEF WindowStaysOpen
<1>5. OpenedAsSealed'
  <2>1. CASE RevealRefused(p)
    BY <1>2, <2>1 DEF RevealRefused, seatVars, SteadyInv, IInv, TypeOK, OpenedAsSealed, Laid
  <2>2. CASE Reveal(p)
    <3>1. Opens(sealed[p]) /\ parts[p] = NoDraft
      BY <1>2, <2>2 DEF Reveal, SteadyInv, OpenedAsSealed
    <3>2. parts'[p] = sealed[p]
      BY <1>2, <3>1, AppliedExactly DEF SteadyInv, IInv, TypeOK, Laid
    <3> QED BY <1>2, <2>2, <3>1, <3>2 DEF Reveal, SteadyInv, IInv, TypeOK, OpenedAsSealed, Laid, Opened, Made
  <2> QED BY <2>1, <2>2
<1>6. RecordIsWhatWasCommitted'
  BY <1>2 DEF SteadyInv, RecordIsWhatWasCommitted
<1> QED BY <1>1, <1>4, <1>5, <1>6 DEF SteadyInv

\* The boards of the two ways a phase resolves, against their records.
LEMMA RevealLastBoard ==
  ASSUME SteadyInv, NEW p \in Power, RevealLast(p), NEW q \in Power
  PROVE  Laid(p)[q]
           = OrdersOf(Made(p)[q])
<1>1. CASE q = p
  <2>1. sealed[p] # NoEnvelope /\ ~revealed[p] /\ Opens(sealed[p])
    BY DEF RevealLast, MayReveal
  <2>2. sealed[p] \in Lists
    BY <2>1 DEF SteadyInv, IInv, TypeOK
  <2>3. parts[p] = NoDraft
    BY <2>1 DEF SteadyInv, OpenedAsSealed
  <2>4. Applied(parts[p], sealed[p]) = OrdersOf(sealed[p])
    BY <2>1, <2>2, <2>3, AppliedExactly, ListItself
  <2> QED BY <1>1, <2>4 DEF SteadyInv, IInv, TypeOK, Laid, Made
<1>2. CASE q # p /\ autoLocked[q]
  <2>1. parts[q] = NoDraft /\ commitments[q] = NoEnvelope
    BY <1>2 DEF SteadyInv, IInv, AutoLockedGaveNothing, OpenedAsSealed
  <2> QED BY <1>2, <2>1 DEF SteadyInv, IInv, TypeOK, OrdersOf, Laid, Made
<1>3. CASE q # p /\ ~autoLocked[q]
  <2>1. revealed[q]
    BY <1>3 DEF RevealLast, Awaiting, Asked, SteadyInv, IInv, TypeOK, Opened
  <2>2. parts[q] = sealed[q] /\ commitments[q] = sealed[q] /\ sealed[q] \in Lists
    BY <2>1 DEF SteadyInv, OpenedAsSealed, IInv, RevealedOrdersStand, TypeOK
  <2> QED BY <1>3, <2>2, ListItself DEF SteadyInv, IInv, TypeOK, Laid, Made
<1> QED BY <1>1, <1>2, <1>3

\* What a force files is the envelope of a revealed seat, and nothing else.
LEMMA ForceBoard ==
  ASSUME SteadyInv, NEW q \in Power
  PROVE  IF q \in NMR(TRUE, revealed) THEN commitments[q] = NoEnvelope
         ELSE parts[q] = OrdersOf(commitments[q])
<1>1. CASE autoLocked[q]
  BY <1>1 DEF SteadyInv, IInv, AutoLockedGaveNothing, OpenedAsSealed, OrdersOf, RevealedOrdersStand
<1>2. CASE ~autoLocked[q] /\ revealed[q]
  <2>1. parts[q] = sealed[q] /\ commitments[q] = sealed[q] /\ sealed[q] \in Lists
    BY <1>2 DEF SteadyInv, OpenedAsSealed, IInv, RevealedOrdersStand, TypeOK
  <2> QED BY <1>2, <2>1, ListItself DEF NMR, Missing
<1>3. CASE ~autoLocked[q] /\ ~revealed[q]
  BY <1>3 DEF NMR, Missing, SteadyInv, OpenedAsSealed
<1> QED BY <1>1, <1>2, <1>3

\* The last reveal files every envelope it found.
LEMMA RevealLastSteady ==
  ASSUME SteadyInv, NEW p \in Power, RevealLast(p)
  PROVE  SteadyInv'
<1>1. IInv'
  BY RevealLastKeeps DEF SteadyInv
<1>2. Laid(p) \in [Power -> Draft] /\ Made(p) \in [Power -> Lists \cup {NoEnvelope}]
  BY RevealType DEF RevealLast, MayReveal, SteadyInv, IInv
<1>3. Adjudicate(FALSE, Laid(p), Opened(p), Made(p))
  BY DEF RevealLast
<1>4. \A q \in Power : Laid(p)[q] = OrdersOf(Made(p)[q])
  BY RevealLastBoard
<1>5. NMR(FALSE, Opened(p)) = {}
  BY DEF NMR
<1> QED BY <1>1, <1>2, <1>3, <1>4, <1>5, AdjudicateSteady

\* A force keeps the record true.
LEMMA ForceSteady == ASSUME SteadyInv, GMForce PROVE SteadyInv'
<1> DEFINE dropUnlocked == TRUE
<1>1. IInv'
  BY ForceKeeps DEF SteadyInv
<1>2. parts \in [Power -> Draft] /\ commitments \in [Power -> Lists \cup {NoEnvelope}]
  BY DEF SteadyInv, IInv, TypeOK
<1>3. \A q \in Power : IF q \in NMR(dropUnlocked, revealed) THEN commitments[q] = NoEnvelope
                        ELSE parts[q] = OrdersOf(commitments[q])
  BY ForceBoard
<1>4. dropUnlocked \in BOOLEAN /\ Adjudicate(dropUnlocked, parts, revealed, commitments)
  BY DEF GMForce
<1> HIDE DEF dropUnlocked
<1> QED BY <1>1, <1>2, <1>3, <1>4, AdjudicateSteady

\* What leaves the seats, the board and an open window alone.
LEMMA AsideSteady ==
  ASSUME SteadyInv, IInv',
         UNCHANGED <<sealed, revealed, parts, commitments, phaseIndex, watch>>,
         Playing' => Playing,
         revealOpen => revealOpen' \/ ~Playing'
  PROVE  SteadyInv'
<1>1. WindowStaysOpen'
  BY DEF SteadyInv, WindowStaysOpen
<1>2. OpenedAsSealed' /\ RecordIsWhatWasCommitted'
  BY DEF SteadyInv, OpenedAsSealed, RecordIsWhatWasCommitted
<1> QED BY <1>1, <1>2 DEF SteadyInv

\* Every handler keeps the steady invariant.
LEMMA SteadyStep == SteadyInv /\ [SteadyNext]_vars => SteadyInv'
<1> SUFFICES ASSUME SteadyInv, [SteadyNext]_vars PROVE SteadyInv'
  OBVIOUS
<1>0. IInv'
  BY NextInv, SteadyIsNext DEF SteadyInv
<1>1. CASE Start
  <2>1. \A p \in Power : ~revealed'[p] /\ parts'[p] = NoDraft
    BY <1>1 DEF Start, SteadyInv, IInv, NothingBeforeStart, boardVars
  <2>2. WindowStaysOpen'
    BY <2>1 DEF WindowStaysOpen
  <2>3. OpenedAsSealed' /\ RecordIsWhatWasCommitted'
    BY <1>1, <2>1 DEF Start, SteadyInv, OpenedAsSealed, RecordIsWhatWasCommitted, boardVars
  <2> QED BY <1>0, <2>2, <2>3 DEF SteadyInv
<1>2. ASSUME NEW p \in Power, SeatStep(p) PROVE SteadyInv'
  <2>1. CASE LoseKey(p)
    BY <1>0, <2>1, AsideSteady DEF LoseKey, boardVars, tableVars, Playing, revealOpen,
                                   Committed, Asked
  <2> QED BY <1>2, <2>1, CommitSteady, RevealSteady, RevealLastSteady DEF SeatStep
<1>3. CASE GMForce
  BY <1>3, ForceSteady
<1>4. CASE ~revealOpen /\ MoveClock
  <2>1. Playing' => Playing
    BY <1>4 DEF MoveClock, GMExtend, ChangeClock, ChangeGrace, Playing
  <2>2. UNCHANGED <<sealed, revealed, parts, commitments, phaseIndex, watch>>
    BY <1>4 DEF MoveClock, GMExtend, ChangeClock, ChangeGrace, seatVars, boardVars
  <2> QED BY <1>0, <1>4, <2>1, <2>2, AsideSteady
<1>5. CASE EndByDraw
  BY <1>0, <1>5, AsideSteady DEF EndByDraw, seatVars, boardVars, Playing
<1>6. CASE TimePasses
  BY <1>0, <1>6, AsideSteady DEF TimePasses, seatVars, boardVars, Playing, revealOpen,
                                 Committed, Asked
<1>7. CASE UNCHANGED vars
  BY <1>0, <1>7, AsideSteady DEF vars, seatVars, boardVars, tableVars, Playing, revealOpen,
                                 Committed, Asked
<1> QED BY <1>1, <1>2, <1>3, <1>4, <1>5, <1>6, <1>7 DEF SteadyNext

\* It holds before the start.
LEMMA SteadyInit == Init => SteadyInv
<1> SUFFICES ASSUME Init PROVE SteadyInv
  OBVIOUS
<1>1. 0..(phaseIndex - 1) = {}
  BY DEF Init
<1>2. WindowStaysOpen /\ OpenedAsSealed /\ RecordIsWhatWasCommitted
  BY <1>1 DEF Init, WindowStaysOpen, OpenedAsSealed, RecordIsWhatWasCommitted, Playing
<1> QED BY <1>2, InitInv DEF SteadyInv

\* And in every reachable game.
LEMMA SteadyAlways == SteadySpec => []SteadyInv
BY SteadyInit, SteadyStep, PTL DEF SteadySpec

-------------------------------------------------------------------------------
(* The safety of the reveal window *)

\* From a phase's first reveal to its end the window is open, so no envelope of
\* that phase is replaced or withdrawn.
THEOREM WindowNeverCloses == SteadySpec => []WindowStaysOpen
<1>1. SteadyInv => WindowStaysOpen
  BY DEF SteadyInv
<1> QED BY <1>1, SteadyAlways, PTL

\* Every page of a resolved phase shows, for every power, exactly the orders of
\* the envelope recorded beside it, and none where none is recorded.
THEOREM RecordIsTrue == SteadySpec => []RecordIsWhatWasCommitted
<1>1. SteadyInv => RecordIsWhatWasCommitted
  BY DEF SteadyInv
<1> QED BY <1>1, SteadyAlways, PTL
-------------------------------------------------------------------------------
(* The promise *)

\* The powers that have revealed, which is what the promise calls shown.
Shown == {p \in Power : revealed[p]}

\* Resolving a phase with exactly the envelopes of the powers in finally on the
\* board plays a round.
LEMMA ResolvePlays ==
  ASSUME TypeOK,
         NEW review \in Snapshot,
         NEW finally \in SUBSET Power,
         Shown \subseteq finally,
         \A p \in finally : sealed[p] # NoEnvelope,
         \A p \in Power : review.orders[p] = IF p \in finally THEN sealed[p] ELSE NoDraft,
         NEW cascaded \in 0..maxAutoPhases,
         NEW next \in SUBSET Power,
         NEW solo \in BOOLEAN,
         Resolve(review, cascaded, next, solo)
  PROVE  Promise!Play
<1>1. After(cascaded) \in 1..EndPhase /\ phaseIndex < After(cascaded)
  BY EndPhaseAssumption, maxAutoPhasesAssumption DEF TypeOK, Resolve, After
<1>2. playedOrders' =
        [n \in 0..(EndPhase - 1) |->
           IF n \in phaseIndex..(After(cascaded) - 1)
           THEN [p \in Power |-> IF n = phaseIndex /\ p \in finally THEN sealed[p]
                                 ELSE NoDraft]
           ELSE playedOrders[n]]
  <2>1. ASSUME NEW n \in 0..(EndPhase - 1)
        PROVE  (IF watch'[n] = Unplayed THEN Unplayed ELSE watch'[n].orders)
                 = IF n \in phaseIndex..(After(cascaded) - 1)
                   THEN [p \in Power |-> IF n = phaseIndex /\ p \in finally THEN sealed[p]
                                         ELSE NoDraft]
                   ELSE playedOrders[n]
    <3>1. CASE n = phaseIndex
      <4>1. watch'[n] = review /\ review # Unplayed
        BY <3>1, UnplayedAssumption DEF Resolve
      <4>2. n \in phaseIndex..(After(cascaded) - 1)
        BY <1>1, <3>1 DEF TypeOK, After
      <4>3. review.orders = [p \in Power |-> review.orders[p]]
        BY DEF Snapshot
      <4> QED BY <3>1, <4>1, <4>2, <4>3
    <3>2. CASE n # phaseIndex /\ n \in phaseIndex..(After(cascaded) - 1)
      <4>1. watch'[n] = NoSnapshot /\ NoSnapshot # Unplayed
        BY <3>2, NoSnapshotType, UnplayedAssumption DEF Resolve
      <4> QED BY <3>2, <4>1 DEF NoSnapshot
    <3>3. CASE n \notin phaseIndex..(After(cascaded) - 1)
      <4>1. n # phaseIndex
        BY <1>1, <3>3 DEF TypeOK, After
      <4>2. watch'[n] = watch[n]
        BY <3>3, <4>1 DEF Resolve
      <4> QED BY <3>3, <4>2 DEF playedOrders
    <3> QED BY <3>1, <3>2, <3>3
  <2> QED BY <2>1 DEF playedOrders
<1>3. /\ phaseIndex' = After(cascaded)
      /\ sealed' = [p \in Power |-> NoEnvelope]
      /\ Shown' = {}
  BY DEF Resolve, Shown
<1> QED BY <1>1, <1>2, <1>3 DEF Promise!Play, Shown

\* With the board of a reveal or of a force.
LEMMA AdjudicatePlays ==
  ASSUME TypeOK,
         NEW dropUnlocked \in BOOLEAN,
         NEW board \in [Power -> Draft],
         NEW opened,
         NEW made \in [Power -> Lists \cup {NoEnvelope}],
         NEW finally \in SUBSET Power,
         Shown \subseteq finally,
         \A p \in finally : /\ sealed[p] # NoEnvelope
                            /\ board[p] = sealed[p]
                            /\ p \notin NMR(dropUnlocked, opened),
         \A p \in Power \ finally : board[p] = NoDraft \/ p \in NMR(dropUnlocked, opened),
         Adjudicate(dropUnlocked, board, opened, made)
  PROVE  Promise!Play
<1> DEFINE review == Review(dropUnlocked, board, opened, made)
<1>1. PICK cascaded \in 0..maxAutoPhases, next \in SUBSET Power, solo \in BOOLEAN :
        Resolve(review, cascaded, next, solo)
  BY DEF Adjudicate
<1>2. \A p \in Power : review.orders[p] = IF p \in finally THEN sealed[p] ELSE NoDraft
  BY DEF Review
<1>3. review \in Snapshot
  BY ReviewType
<1>4. \A p \in finally : sealed[p] # NoEnvelope
  OBVIOUS
<1> HIDE DEF review
<1> QED BY <1>1, <1>2, <1>3, <1>4, ResolvePlays

\* The last reveal plays the round with every sheet shown.
LEMMA RevealLastPlays == ASSUME SteadyInv, NEW p \in Power, RevealLast(p) PROVE Promise!Play
<1> DEFINE dropUnlocked == FALSE
           finally == Shown \cup {p}
<1>1. TypeOK /\ dropUnlocked \in BOOLEAN /\ Adjudicate(dropUnlocked, Laid(p), Opened(p), Made(p))
  BY DEF SteadyInv, IInv, RevealLast
<1>2. Laid(p) \in [Power -> Draft] /\ Made(p) \in [Power -> Lists \cup {NoEnvelope}]
  BY RevealType DEF RevealLast, MayReveal, SteadyInv, IInv
<1>3. finally \in SUBSET Power /\ Shown \subseteq finally
  BY DEF Shown
<1>4. ASSUME NEW q \in finally PROVE sealed[q] # NoEnvelope /\ Laid(p)[q] = sealed[q]
  <2>1. CASE q = p
    <3>1. Laid(p)[p] = OrdersOf(sealed[p])
      BY RevealLastBoard DEF SteadyInv, IInv, TypeOK, Made
    <3>2. sealed[p] # NoEnvelope /\ sealed[p] \in Lists
      BY DEF RevealLast, MayReveal, SteadyInv, IInv, TypeOK
    <3> QED BY <2>1, <3>1, <3>2, ListItself
  <2>2. CASE q # p
    <3>1. q \in Power /\ revealed[q]
      BY <2>2 DEF Shown
    <3> QED BY <2>2, <3>1 DEF SteadyInv, OpenedAsSealed, IInv, RevealedOrdersStand, TypeOK, Laid
  <2> QED BY <2>1, <2>2
<1>5. ASSUME NEW q \in Power \ finally PROVE Laid(p)[q] = NoDraft
  <2>1. q # p /\ ~revealed[q]
    BY DEF Shown
  <2>2. autoLocked[q]
    BY <2>1 DEF RevealLast, Awaiting, Asked, SteadyInv, IInv, TypeOK, Opened
  <2> QED BY <2>1, <2>2 DEF SteadyInv, IInv, AutoLockedGaveNothing, TypeOK, Laid
<1>6. NMR(dropUnlocked, Opened(p)) = {}
  BY DEF NMR
<1>7. /\ \A q \in finally : /\ sealed[q] # NoEnvelope
                              /\ Laid(p)[q] = sealed[q]
                              /\ q \notin NMR(dropUnlocked, Opened(p))
      /\ \A q \in Power \ finally : Laid(p)[q] = NoDraft \/ q \in NMR(dropUnlocked, Opened(p))
  BY <1>4, <1>5, <1>6
<1> HIDE DEF dropUnlocked, finally
<1> QED BY <1>1, <1>2, <1>3, <1>7, AdjudicatePlays

\* A force plays the round with the sheets shown so far.
LEMMA ForcePlays == ASSUME SteadyInv, GMForce PROVE Promise!Play
<1> DEFINE dropUnlocked == TRUE
           finally == Shown
<1>1. TypeOK /\ dropUnlocked \in BOOLEAN /\ Adjudicate(dropUnlocked, parts, revealed, commitments)
  BY DEF SteadyInv, IInv, GMForce
<1>2. parts \in [Power -> Draft] /\ commitments \in [Power -> Lists \cup {NoEnvelope}]
  BY DEF SteadyInv, IInv, TypeOK
<1>3. finally \in SUBSET Power /\ Shown \subseteq finally
  BY DEF Shown
<1>4. ASSUME NEW q \in finally
      PROVE  /\ sealed[q] # NoEnvelope
             /\ parts[q] = sealed[q]
             /\ q \notin NMR(dropUnlocked, revealed)
  <2>1. q \in Power /\ revealed[q]
    BY DEF Shown
  <2>2. sealed[q] # NoEnvelope /\ parts[q] = sealed[q]
    BY <2>1 DEF SteadyInv, OpenedAsSealed, IInv, RevealedOrdersStand
  <2>3. ~autoLocked[q]
    BY <2>1, <2>2 DEF SteadyInv, IInv, AutoLockedGaveNothing
  <2> QED BY <2>1, <2>2, <2>3 DEF NMR, Missing
<1>5. ASSUME NEW q \in Power \ finally
      PROVE  parts[q] = NoDraft \/ q \in NMR(dropUnlocked, revealed)
  BY DEF Shown, NMR, Missing, SteadyInv, IInv, AutoLockedGaveNothing
<1> HIDE DEF dropUnlocked, finally
<1> QED BY <1>1, <1>2, <1>3, <1>4, <1>5, AdjudicatePlays

\* A commitment or its withdrawal finds nobody's sheet shown.
LEMMA CommitChooses ==
  ASSUME SteadyInv, NEW p \in Power,
         \/ \E list \in Lists, fresh \in BOOLEAN : Commit(p, list, fresh)
         \/ Uncommit(p)
  PROVE  Promise!Choose(p)
<1>1. /\ Playing
      /\ ~revealOpen
      /\ \E list \in Lists \cup {NoEnvelope} : sealed' = [sealed EXCEPT ![p] = list]
      /\ revealed' = [revealed EXCEPT ![p] = FALSE]
      /\ UNCHANGED <<phaseIndex, watch>>
  BY DEF Commit, Uncommit, MayCommit, Playing, boardVars
<1>2. Shown = {}
  BY <1>1, ShutMeansUnopened DEF Shown
<1>3. Shown' = {}
  BY <1>1, ShutMeansUnopened DEF Shown, SteadyInv, IInv, TypeOK
<1>4. UNCHANGED playedOrders
  BY <1>1 DEF playedOrders
<1> QED BY <1>1, <1>2, <1>3, <1>4 DEF Promise!Choose, Shown

\* A reveal that resolves nothing shows one sheet.
LEMMA RevealShows == ASSUME SteadyInv, NEW p \in Power, Reveal(p) PROVE Promise!Show(p)
<1>1. sealed[p] # NoEnvelope /\ revealed' = Opened(p)
      /\ UNCHANGED <<sealed, phaseIndex, watch>>
  BY DEF Reveal, MayReveal
<1>2. Shown' = Shown \cup {p}
  BY <1>1 DEF Shown, SteadyInv, IInv, TypeOK, Opened
<1>3. UNCHANGED playedOrders
  BY <1>1 DEF playedOrders
<1> QED BY <1>1, <1>2, <1>3 DEF Promise!Show, Shown

\* What leaves seats, board and record alone stutters.
LEMMA Stutters ==
  ASSUME UNCHANGED <<sealed, revealed, phaseIndex, watch>>
  PROVE  UNCHANGED Promise!abstractVars
<1>1. UNCHANGED playedOrders
  BY DEF playedOrders
<1> QED BY <1>1 DEF Promise!abstractVars

\* Every handler is a step of the promise or none at all.
LEMMA StepKeepsPromise ==
  ASSUME SteadyInv, [SteadyNext]_vars PROVE [Promise!Next]_(Promise!abstractVars)
<1>1. ASSUME NEW p \in Power, SeatStep(p) PROVE [Promise!Next]_(Promise!abstractVars)
  <2>1. CASE (\E list \in Lists, fresh \in BOOLEAN : Commit(p, list, fresh)) \/ Uncommit(p)
    BY <2>1, CommitChooses DEF Promise!Next
  <2>2. CASE Reveal(p)
    BY <2>2, RevealShows DEF Promise!Next
  <2>3. CASE RevealLast(p)
    BY <2>3, RevealLastPlays DEF Promise!Next
  <2>4. CASE RevealRefused(p) \/ LoseKey(p)
    BY <2>4, Stutters DEF RevealRefused, LoseKey, seatVars, boardVars
  <2> QED BY <1>1, <2>1, <2>2, <2>3, <2>4 DEF SeatStep
<1>2. CASE GMForce
  BY <1>2, ForcePlays DEF Promise!Next
<1>3. CASE Start
  <2>1. UNCHANGED <<sealed, revealed, phaseIndex, watch>>
    BY <1>3 DEF Start, boardVars
  <2> QED BY <2>1, Stutters
<1>4. CASE MoveClock \/ EndByDraw \/ TimePasses \/ UNCHANGED vars
  <2>1. UNCHANGED <<sealed, revealed, phaseIndex, watch>>
    BY <1>4 DEF MoveClock, GMExtend, ChangeClock, ChangeGrace, EndByDraw, TimePasses,
                vars, seatVars, boardVars
  <2> QED BY <2>1, Stutters
<1> QED BY <1>1, <1>2, <1>3, <1>4 DEF SteadyNext

\* ADR-004's promise, at every table: sheets change only while none is shown,
\* and a round plays exactly the sheets that were shown in it.
THEOREM PromiseKept == SteadySpec => KeepsPromise
<1>1. Init => Promise!Init
  BY DEF Init, Promise!Init, playedOrders
<1>2. SteadyInv /\ [SteadyNext]_vars => [Promise!Next]_(Promise!abstractVars)
  BY StepKeepsPromise
<1> QED BY <1>1, <1>2, SteadyAlways, PTL DEF SteadySpec, KeepsPromise, Promise!Spec

===============================================================================
