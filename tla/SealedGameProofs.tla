--------------------------- MODULE SealedGameProofs ---------------------------
(***************************************************************************)
(* For every table, every set of order lists and every length of game: the *)
(* type invariant of SealedGame, the invariants its runs check and the two *)
(* ways a phase resolves, whatever the game master does with the clock.    *)
(***************************************************************************)
EXTENDS SealedGameRefines, TLAPS

-------------------------------------------------------------------------------
(* The operators the handlers are built from *)

\* Opening a list over a draft leaves a draft.
LEMMA AppliedType ==
  ASSUME NEW draft \in Draft, NEW list \in Lists
  PROVE  Applied(draft, list) \in Draft
<1>1. ASSUME NEW v \in Province
      PROVE  (IF v \in Reached(list) /\ list[v] # NoOrder THEN list[v] ELSE draft[v])
               \in Order \cup {NoOrder}
  <2>1. CASE v \in Reached(list)
    <3>1. v <= v
      BY ProvinceAssumption
    <3>2. list[v] # Refused
      BY <2>1, <3>1 DEF Reached
    <3> QED BY <3>2, ListsAssumption DEF Draft
  <2>2. CASE v \notin Reached(list)
    BY <2>2 DEF Draft
  <2> QED BY <2>1, <2>2
<1> QED BY <1>1 DEF Applied, Draft

\* A list with no refused entry is honoured by the board it was opened on.
LEMMA AppliedHonours ==
  ASSUME NEW draft, NEW list, Opens(list)
  PROVE  Honours(Applied(draft, list), list)
BY DEF Opens, Honours, Applied, Reached

\* Opened on an empty board, such a list is exactly what stands there.
LEMMA AppliedExactly ==
  ASSUME NEW list \in Lists, Opens(list)
  PROVE  Applied(NoDraft, list) = list
<1>1. \A v \in Province : Applied(NoDraft, list)[v] = list[v]
  BY DEF Opens, Applied, Reached, NoDraft
<1>2. list \in [Province -> Order \cup {Refused, NoOrder}]
  BY ListsAssumption
<1>3. Applied(NoDraft, list) = [v \in Province |-> Applied(NoDraft, list)[v]]
  BY DEF Applied
<1> QED BY <1>1, <1>2, <1>3

\* A province nobody ordered is an ordinary draft entry.
LEMMA NoDraftType == NoDraft \in Draft
BY DEF NoDraft, Draft

\* A cascaded phase is filed as a snapshot like any other.
LEMMA NoSnapshotType == NoSnapshot \in Snapshot
BY NoDraftType DEF NoSnapshot, Snapshot

\* What a phase is filed as is a snapshot, whatever board it resolves.
LEMMA ReviewType ==
  ASSUME NEW dropUnlocked \in BOOLEAN,
         NEW board \in [Power -> Draft],
         NEW opened,
         NEW made \in [Power -> Lists \cup {NoEnvelope}]
  PROVE  Review(dropUnlocked, board, opened, made) \in Snapshot
BY NoDraftType DEF Review, Snapshot, NMR, Missing

-------------------------------------------------------------------------------
(* Type correctness *)

\* Resolving a phase leaves a well-typed game.
LEMMA ResolveType ==
  ASSUME TypeOK,
         NEW review \in Snapshot,
         NEW cascaded \in 0..maxAutoPhases,
         NEW next \in SUBSET Power,
         NEW solo \in BOOLEAN,
         Resolve(review, cascaded, next, solo)
  PROVE  TypeOK'
<1>1. phaseIndex' \in 0..EndPhase
  BY EndPhaseAssumption, maxAutoPhasesAssumption DEF TypeOK, Resolve, After
<1>2. watch' \in [0..(EndPhase - 1) -> Snapshot \cup {Unplayed}]
  <2>1. ASSUME NEW n \in 0..(EndPhase - 1)
        PROVE  (IF n = phaseIndex THEN review
                ELSE IF n \in phaseIndex..(After(cascaded) - 1) THEN NoSnapshot
                ELSE watch[n]) \in Snapshot \cup {Unplayed}
    BY NoSnapshotType DEF TypeOK
  <2> QED BY <2>1 DEF Resolve
<1>3. /\ started' \in BOOLEAN
      /\ over' \in BOOLEAN
      /\ clock' \in Clock
      /\ timed' \in BOOLEAN
      /\ idle' \in SUBSET Power
  BY DEF TypeOK, Resolve, Ends, ResetDeadline, Clock
<1>4. /\ locked' \in [Power -> BOOLEAN]
      /\ autoLocked' \in [Power -> BOOLEAN]
      /\ openable' \in [Power -> BOOLEAN]
      /\ revealed' \in [Power -> BOOLEAN]
  BY DEF Resolve, Ends
<1>5. /\ sealed' \in [Power -> Lists \cup {NoEnvelope}]
      /\ parts' \in [Power -> Draft]
      /\ commitments' \in [Power -> Lists \cup {NoEnvelope}]
  BY NoDraftType DEF Resolve
<1> QED BY <1>1, <1>2, <1>3, <1>4, <1>5 DEF TypeOK

\* The same, however far the cascade runs and whoever is idle after it.
LEMMA AdjudicateType ==
  ASSUME TypeOK,
         NEW dropUnlocked \in BOOLEAN,
         NEW board \in [Power -> Draft],
         NEW opened,
         NEW made \in [Power -> Lists \cup {NoEnvelope}],
         Adjudicate(dropUnlocked, board, opened, made)
  PROVE  TypeOK'
<1>1. PICK cascaded \in 0..maxAutoPhases, next \in SUBSET Power, solo \in BOOLEAN :
        Resolve(Review(dropUnlocked, board, opened, made), cascaded, next, solo)
  BY DEF Adjudicate
<1> QED BY <1>1, ReviewType, ResolveType

\* The board a reveal leaves is one of drafts.
LEMMA RevealType ==
  ASSUME TypeOK, NEW p \in Power, sealed[p] # NoEnvelope
  PROVE  /\ sealed[p] \in Lists
         /\ Laid(p) \in [Power -> Draft]
         /\ Made(p) \in [Power -> Lists \cup {NoEnvelope}]
<1>1. sealed[p] \in Lists /\ parts[p] \in Draft
  BY DEF TypeOK
<1>2. Applied(parts[p], sealed[p]) \in Draft
  BY <1>1, AppliedType
<1> QED BY <1>1, <1>2 DEF TypeOK, Laid, Made

\* A game that has not started is well typed.
LEMMA InitType == Init => TypeOK
<1> SUFFICES ASSUME Init PROVE TypeOK
  OBVIOUS
<1>1. phaseIndex \in 0..EndPhase
  BY EndPhaseAssumption DEF Init
<1>2. parts \in [Power -> Draft]
  BY NoDraftType DEF Init
<1> QED BY <1>1, <1>2 DEF Init, TypeOK, Clock

\* Every handler keeps the game well typed.
LEMMA NextType == TypeOK /\ [Next]_vars => TypeOK'
<1> SUFFICES ASSUME TypeOK, [Next]_vars PROVE TypeOK'
  OBVIOUS
<1>1. CASE Start
  BY <1>1 DEF Start, TypeOK, boardVars, ResetDeadline, Clock
<1>2. ASSUME NEW p \in Power, SeatStep(p) PROVE TypeOK'
  <2>1. ASSUME NEW list \in Lists, NEW fresh \in BOOLEAN, Commit(p, list, fresh)
        PROVE  TypeOK'
    BY <2>1 DEF Commit, TypeOK, boardVars, tableVars
  <2>2. CASE Uncommit(p)
    BY <2>2 DEF Uncommit, TypeOK, boardVars, tableVars
  <2>3. CASE RevealRefused(p)
    BY <2>3, RevealType DEF RevealRefused, MayReveal, TypeOK, seatVars, tableVars
  <2>4. CASE Reveal(p)
    BY <2>4, RevealType DEF Reveal, MayReveal, TypeOK, tableVars, Opened
  <2>5. CASE RevealLast(p)
    BY <2>5, RevealType, AdjudicateType DEF RevealLast, MayReveal
  <2>6. CASE LoseKey(p)
    BY <2>6 DEF LoseKey, TypeOK, boardVars, tableVars
  <2> QED BY <1>2, <2>1, <2>2, <2>3, <2>4, <2>5, <2>6 DEF SeatStep
<1>3. CASE GMForce
  BY <1>3, AdjudicateType DEF GMForce, TypeOK
<1>4. CASE MoveClock
  <2>1. CASE GMExtend
    BY <2>1 DEF GMExtend, TypeOK, seatVars, boardVars, Clock
  <2>2. ASSUME NEW minutes \in BOOLEAN, ChangeClock(minutes) PROVE TypeOK'
    BY <2>2 DEF ChangeClock, TypeOK, seatVars, boardVars, ResetDeadline, Clock
  <2>3. CASE ChangeGrace
    BY <2>3 DEF ChangeGrace, TypeOK, seatVars, boardVars, Clock
  <2> QED BY <1>4, <2>1, <2>2, <2>3 DEF MoveClock
<1>5. CASE EndByDraw
  BY <1>5 DEF EndByDraw, TypeOK, seatVars, boardVars, Clock
<1>6. CASE TimePasses
  BY <1>6 DEF TimePasses, TypeOK, seatVars, boardVars, Clock
<1>7. CASE UNCHANGED vars
  BY <1>7 DEF TypeOK, vars, seatVars, boardVars, tableVars
<1> QED BY <1>1, <1>2, <1>3, <1>4, <1>5, <1>6, <1>7 DEF Next

\* Every reachable game is well typed; in particular no cascade of phases runs
\* past the end of the game, and no refused entry is ever on the board.
THEOREM TypeCorrect == Spec => []TypeOK
BY InitType, NextType, PTL DEF Spec

-------------------------------------------------------------------------------
(* The inductive invariant *)

\* A seat is locked because its power was not asked or because it committed.
LocksAgree ==
  \A p \in Power : locked[p] <=> autoLocked[p] \/ sealed[p] # NoEnvelope

\* A seat the server locked has given this phase nothing.
AutoLockedGaveNothing ==
  \A p \in Power : autoLocked[p] => /\ sealed[p] = NoEnvelope
                                    /\ parts[p] = NoDraft

NothingBeforeStart ==
  ~started => \A p \in Power : /\ ~locked[p]
                               /\ ~autoLocked[p]
                               /\ ~revealed[p]
                               /\ sealed[p] = NoEnvelope
                               /\ parts[p] = NoDraft

BeforeStart == ~started => /\ phaseIndex = 0
                           /\ idle # Power

\* A running phase has asked some seat that has not revealed.
SomeoneAwaited == Playing => Awaiting(revealed) # {}

\* What every step keeps, and what the theorems below follow from.
IInv ==
  /\ TypeOK
  /\ LocksAgree
  /\ AutoLockedGaveNothing
  /\ NothingBeforeStart
  /\ BeforeStart
  /\ SomeoneAwaited
  /\ RevealedOrdersStand
  /\ OrdersHaveCommitments

\* A phase filed with orders only where there is a commitment keeps IInv.
LEMMA ResolveKeeps ==
  ASSUME IInv, started,
         NEW review \in Snapshot,
         \A p \in Power : review.orders[p] # NoDraft => review.commitments[p] # NoEnvelope,
         NEW cascaded \in 0..maxAutoPhases,
         NEW next \in SUBSET Power,
         NEW solo \in BOOLEAN,
         Resolve(review, cascaded, next, solo)
  PROVE  IInv'
<1>1. TypeOK'
  BY ResolveType DEF IInv
<1>2. LocksAgree' /\ AutoLockedGaveNothing' /\ RevealedOrdersStand'
  BY DEF Resolve, LocksAgree, AutoLockedGaveNothing, RevealedOrdersStand
<1>3. NothingBeforeStart' /\ BeforeStart'
  BY DEF Resolve, NothingBeforeStart, BeforeStart
<1>4. SomeoneAwaited'
  <2>1. SUFFICES ASSUME Playing' PROVE Awaiting(revealed)' # {}
    BY DEF SomeoneAwaited
  <2>2. ~Ends(cascaded, solo)
    BY <2>1 DEF Playing, Resolve
  <2>3. CASE cascaded < maxAutoPhases
    <3>a. cascaded # maxAutoPhases
      BY <2>3, maxAutoPhasesAssumption
    <3>b. next # Power
      BY <3>a, <2>2 DEF Resolve
    <3>1. PICK p \in Power : p \notin next
      BY <3>b
    <3>2. ~autoLocked'[p] /\ ~revealed'[p]
      BY <3>1 DEF Resolve
    <3> QED BY <3>2 DEF Awaiting, Asked
  <2>4. CASE ~(cascaded < maxAutoPhases)
    <3>1. PICK p \in Power : TRUE
      BY PowerAssumption
    <3>2. ~autoLocked'[p] /\ ~revealed'[p]
      BY <2>4 DEF Resolve
    <3> QED BY <3>2 DEF Awaiting, Asked
  <2> QED BY <2>3, <2>4
<1>5. OrdersHaveCommitments'
  <2>1. SUFFICES ASSUME NEW n \in (0..(phaseIndex - 1))', NEW p \in Power,
                        watch'[n].orders[p] # NoDraft
                 PROVE  watch'[n].commitments[p] # NoEnvelope
    BY DEF OrdersHaveCommitments
  <2>0. n \in 0..(After(cascaded) - 1) /\ After(cascaded) <= EndPhase
    BY DEF Resolve
  <2>2. phaseIndex \in 0..EndPhase /\ n \in 0..(EndPhase - 1) /\ n < After(cascaded)
    BY <2>0, EndPhaseAssumption, maxAutoPhasesAssumption DEF IInv, TypeOK, After
  <2>3. CASE n = phaseIndex
    BY <2>1, <2>2, <2>3 DEF Resolve
  <2>4. CASE n > phaseIndex
    <3>1. watch'[n] = NoSnapshot
      BY <2>2, <2>4, maxAutoPhasesAssumption DEF Resolve, After
    <3> QED BY <3>1, <2>1 DEF NoSnapshot
  <2>5. CASE n < phaseIndex
    <3>1. watch'[n] = watch[n] /\ n \in 0..(phaseIndex - 1)
      BY <2>2, <2>5 DEF Resolve
    <3> QED BY <3>1, <2>1 DEF IInv, OrdersHaveCommitments
  <2> QED BY <2>2, <2>3, <2>4, <2>5
<1> QED BY <1>1, <1>2, <1>3, <1>4, <1>5 DEF IInv

\* The same of adjudicate, on the board and the record of a force or a reveal.
LEMMA AdjudicateKeeps ==
  ASSUME IInv, started,
         NEW dropUnlocked \in BOOLEAN,
         NEW board \in [Power -> Draft],
         NEW opened,
         NEW made \in [Power -> Lists \cup {NoEnvelope}],
         \A p \in Power : board[p] # NoDraft /\ p \notin NMR(dropUnlocked, opened)
                            => made[p] # NoEnvelope,
         Adjudicate(dropUnlocked, board, opened, made)
  PROVE  IInv'
<1> DEFINE review == Review(dropUnlocked, board, opened, made)
<1>1. PICK cascaded \in 0..maxAutoPhases, next \in SUBSET Power, solo \in BOOLEAN :
        Resolve(review, cascaded, next, solo)
  BY DEF Adjudicate
<1>2. \A p \in Power : review.orders[p] # NoDraft => review.commitments[p] # NoEnvelope
  BY DEF Review
<1>3. review \in Snapshot
  BY ReviewType
<1> HIDE DEF review
<1> QED BY <1>1, <1>2, <1>3, ResolveKeeps

\* A game that has not started satisfies the strengthened invariant.
LEMMA InitInv == Init => IInv
<1> SUFFICES ASSUME Init PROVE IInv
  OBVIOUS
<1>1. TypeOK
  BY InitType
<1>2. LocksAgree /\ AutoLockedGaveNothing /\ RevealedOrdersStand
  BY DEF Init, LocksAgree, AutoLockedGaveNothing, RevealedOrdersStand
<1>3. NothingBeforeStart /\ BeforeStart /\ SomeoneAwaited
  BY DEF Init, NothingBeforeStart, BeforeStart, SomeoneAwaited, Playing
<1>4. 0..(phaseIndex - 1) = {}
  BY DEF Init
<1>5. OrdersHaveCommitments
  BY <1>4 DEF OrdersHaveCommitments
<1> QED BY <1>1, <1>2, <1>3, <1>5 DEF IInv

\* Starting the game asks the seats that are not idle; nobody has revealed.
LEMMA StartKeeps == ASSUME IInv, Start PROVE IInv'
<1>1. TypeOK'
  BY NextType DEF IInv, Next
<1>2. LocksAgree' /\ AutoLockedGaveNothing'
  BY DEF Start, IInv, LocksAgree, AutoLockedGaveNothing, NothingBeforeStart, boardVars
<1>3. NothingBeforeStart' /\ BeforeStart'
  BY DEF Start, NothingBeforeStart, BeforeStart
<1>4. SomeoneAwaited'
  <2>1. PICK p \in Power : p \notin idle
    BY DEF Start, IInv, BeforeStart, TypeOK
  <2>2. ~autoLocked'[p] /\ ~revealed'[p]
    BY <2>1 DEF Start, IInv, NothingBeforeStart
  <2> QED BY <2>2 DEF SomeoneAwaited, Awaiting, Asked
<1>5. RevealedOrdersStand' /\ OrdersHaveCommitments'
  BY DEF Start, IInv, RevealedOrdersStand, OrdersHaveCommitments, boardVars
<1> QED BY <1>1, <1>2, <1>3, <1>4, <1>5 DEF IInv

\* Committing or withdrawing leaves the seat unrevealed, and so awaited.
LEMMA CommitKeeps ==
  ASSUME IInv, NEW p \in Power,
         \/ \E list \in Lists, fresh \in BOOLEAN : Commit(p, list, fresh)
         \/ Uncommit(p)
  PROVE  IInv'
<1>1. TypeOK'
  BY NextType DEF IInv, Next, SeatStep
<1>2. /\ started
      /\ ~autoLocked[p]
      /\ revealed' = [revealed EXCEPT ![p] = FALSE]
      /\ UNCHANGED <<autoLocked, boardVars, tableVars>>
      /\ \E list \in Lists \cup {NoEnvelope} :
           /\ sealed' = [sealed EXCEPT ![p] = list]
           /\ locked' = [locked EXCEPT ![p] = list # NoEnvelope]
  <2>1. ASSUME NEW list \in Lists PROVE list # NoEnvelope
    BY ListsAssumption
  <2> QED BY <2>1 DEF Commit, Uncommit, MayCommit
<1>3. LocksAgree' /\ AutoLockedGaveNothing'
  BY <1>2 DEF IInv, TypeOK, LocksAgree, AutoLockedGaveNothing, boardVars
<1>4. NothingBeforeStart' /\ BeforeStart'
  BY <1>2 DEF NothingBeforeStart, BeforeStart, tableVars
<1>5. SomeoneAwaited'
  BY <1>2 DEF IInv, TypeOK, SomeoneAwaited, Awaiting, Asked, Playing, tableVars
<1>6. RevealedOrdersStand' /\ OrdersHaveCommitments'
  BY <1>2 DEF IInv, TypeOK, RevealedOrdersStand, OrdersHaveCommitments, boardVars
<1> QED BY <1>1, <1>3, <1>4, <1>5, <1>6 DEF IInv

\* A reveal that resolves nothing lays its whole envelope on the board and
\* records it, or counts for nothing.
LEMMA RevealStands ==
  ASSUME TypeOK, RevealedOrdersStand, NEW p \in Power, RevealRefused(p) \/ Reveal(p)
  PROVE  RevealedOrdersStand'
<1>1. /\ sealed[p] # NoEnvelope
      /\ ~revealed[p]
      /\ parts' = Laid(p)
      /\ sealed' = sealed
  BY DEF RevealRefused, Reveal, MayReveal, seatVars
<1> SUFFICES ASSUME NEW q \in Power, revealed'[q]
             PROVE  /\ sealed'[q] # NoEnvelope
                    /\ Honours(parts'[q], sealed'[q])
                    /\ commitments'[q] = sealed'[q]
  BY DEF RevealedOrdersStand
<1>2. CASE q # p
  BY <1>1, <1>2 DEF RevealRefused, Reveal, seatVars, TypeOK, RevealedOrdersStand, Laid, Opened,
                    Made
<1>3. CASE q = p
  <2>1. /\ Opens(sealed[p])
        /\ commitments' = Made(p)
    BY <1>1, <1>3 DEF RevealRefused, Reveal, seatVars
  <2>2. parts'[p] = Applied(parts[p], sealed[p])
    BY <1>1 DEF TypeOK, Laid
  <2>3. Honours(parts'[p], sealed[p])
    BY <2>1, <2>2, AppliedHonours
  <2> QED BY <1>1, <1>3, <2>1, <2>3 DEF TypeOK, Made
<1> QED BY <1>2, <1>3

\* A reveal that resolves nothing, refused or not, of a seat not revealed yet.
LEMMA RevealKeeps ==
  ASSUME IInv, NEW p \in Power, RevealRefused(p) \/ Reveal(p)
  PROVE  IInv'
<1>1. TypeOK'
  BY NextType DEF IInv, Next, SeatStep
<1>2. /\ started
      /\ sealed[p] # NoEnvelope
      /\ ~revealed[p]
      /\ ~autoLocked[p]
      /\ parts' = Laid(p)
      /\ UNCHANGED <<locked, autoLocked, sealed, phaseIndex, idle, watch, tableVars>>
  BY DEF RevealRefused, Reveal, MayReveal, revealOpen, seatVars, IInv, AutoLockedGaveNothing
<1>3. LocksAgree' /\ AutoLockedGaveNothing'
  BY <1>2 DEF IInv, TypeOK, LocksAgree, AutoLockedGaveNothing, Laid
<1>4. NothingBeforeStart' /\ BeforeStart'
  BY <1>2 DEF NothingBeforeStart, BeforeStart, tableVars
<1>5. SomeoneAwaited'
  <2>1. CASE RevealRefused(p)
    BY <1>2, <2>1 DEF RevealRefused, seatVars, tableVars, IInv, SomeoneAwaited, Playing,
                      Awaiting, Asked
  <2>2. CASE Reveal(p)
    BY <2>2 DEF Reveal, SomeoneAwaited, Awaiting, Asked
  <2> QED BY <2>1, <2>2
<1>6. RevealedOrdersStand'
  BY RevealStands DEF IInv
<1>7. OrdersHaveCommitments'
  BY <1>2 DEF IInv, OrdersHaveCommitments
<1> QED BY <1>1, <1>3, <1>4, <1>5, <1>6, <1>7 DEF IInv

\* Every asked seat has revealed by then, and a reveal is recorded.
LEMMA RevealLastKeeps == ASSUME IInv, NEW p \in Power, RevealLast(p) PROVE IInv'
<1>1. started /\ sealed[p] # NoEnvelope
  BY DEF RevealLast, MayReveal, revealOpen
<1>2. Laid(p) \in [Power -> Draft] /\ Made(p) \in [Power -> Lists \cup {NoEnvelope}]
  BY <1>1, RevealType DEF IInv
<1>3. Awaiting(Opened(p)) = {} /\ Adjudicate(FALSE, Laid(p), Opened(p), Made(p))
  BY DEF RevealLast
<1>4. ASSUME NEW q \in Power, Laid(p)[q] # NoDraft PROVE Made(p)[q] # NoEnvelope
  <2>1. CASE q = p
    BY <1>1, <2>1 DEF IInv, TypeOK, Made
  <2>2. CASE q # p
    <3>1. ~autoLocked[q]
      BY <1>4, <2>2 DEF IInv, AutoLockedGaveNothing, TypeOK, Laid
    <3>2. revealed[q]
      BY <1>3, <2>2, <3>1 DEF Awaiting, Asked, IInv, TypeOK, Opened
    <3> QED BY <2>2, <3>2 DEF IInv, RevealedOrdersStand, TypeOK, Made
  <2> QED BY <2>1, <2>2
<1> QED BY <1>1, <1>2, <1>3, <1>4, AdjudicateKeeps

\* A force drops every order of a seat that has not revealed.
LEMMA ForceKeeps == ASSUME IInv, GMForce PROVE IInv'
<1>1. started /\ Adjudicate(TRUE, parts, revealed, commitments)
  BY DEF GMForce, canForce
<1>2. ASSUME NEW q \in Power, parts[q] # NoDraft, q \notin NMR(TRUE, revealed)
      PROVE  commitments[q] # NoEnvelope
  <2>1. ~autoLocked[q]
    BY <1>2 DEF IInv, AutoLockedGaveNothing
  <2>2. revealed[q]
    BY <1>2, <2>1 DEF NMR, Missing
  <2> QED BY <2>2 DEF IInv, RevealedOrdersStand
<1>3. parts \in [Power -> Draft] /\ commitments \in [Power -> Lists \cup {NoEnvelope}]
  BY DEF IInv, TypeOK
<1> QED BY <1>1, <1>2, <1>3, AdjudicateKeeps

\* What moves the clock, the settings, a key or the end of the game moves no seat.
LEMMA AsideKeeps ==
  ASSUME IInv, [Next]_vars,
         UNCHANGED <<started, locked, autoLocked, sealed, revealed, boardVars>>,
         over => over'
  PROVE  IInv'
<1>1. TypeOK'
  BY NextType DEF IInv
<1>2. /\ LocksAgree'
      /\ AutoLockedGaveNothing'
      /\ NothingBeforeStart'
      /\ BeforeStart'
      /\ RevealedOrdersStand'
      /\ OrdersHaveCommitments'
  BY DEF IInv, LocksAgree, AutoLockedGaveNothing, NothingBeforeStart, BeforeStart,
         RevealedOrdersStand, OrdersHaveCommitments, boardVars
<1>3. SomeoneAwaited'
  BY DEF IInv, SomeoneAwaited, Playing, Awaiting, Asked
<1> QED BY <1>1, <1>2, <1>3 DEF IInv

\* Every handler keeps the strengthened invariant.
LEMMA NextInv == IInv /\ [Next]_vars => IInv'
<1> SUFFICES ASSUME IInv, [Next]_vars PROVE IInv'
  OBVIOUS
<1>1. CASE Start
  BY <1>1, StartKeeps
<1>2. ASSUME NEW p \in Power, SeatStep(p) PROVE IInv'
  <2>1. CASE LoseKey(p)
    BY <2>1, AsideKeeps DEF LoseKey, tableVars
  <2> QED BY <1>2, <2>1, CommitKeeps, RevealKeeps, RevealLastKeeps DEF SeatStep
<1>3. CASE GMForce
  BY <1>3, ForceKeeps
<1>4. CASE MoveClock
  BY <1>4, AsideKeeps DEF MoveClock, GMExtend, ChangeClock, ChangeGrace, seatVars
<1>5. CASE EndByDraw
  BY <1>5, AsideKeeps DEF EndByDraw, seatVars
<1>6. CASE TimePasses
  BY <1>6, AsideKeeps DEF TimePasses, seatVars
<1>7. CASE UNCHANGED vars
  BY <1>7, AsideKeeps DEF vars, seatVars, tableVars
<1> QED BY <1>1, <1>2, <1>3, <1>4, <1>5, <1>6, <1>7 DEF Next

\* It holds in every reachable game.
LEMMA Inductive == Spec => []IInv
BY InitInv, NextInv, PTL DEF Spec
-------------------------------------------------------------------------------
(* The safety of every game *)

\* Where no seat but a locked one is left, the window is open on somebody.
LEMMA Unlocked ==
  ASSUME IInv, Playing
  PROVE  awaitingReveal # {} \/ (~revealOpen /\ \E p \in Power : ~locked[p])
<1>1. Awaiting(revealed) # {}
  BY DEF IInv, SomeoneAwaited
<1>2. CASE revealOpen
  BY <1>1, <1>2 DEF awaitingReveal
<1>3. CASE ~revealOpen
  <2>1. Committed # Asked
    BY <1>1, <1>3 DEF revealOpen, Playing, Awaiting
  <2>2. PICK p \in Power : ~autoLocked[p] /\ sealed[p] = NoEnvelope
    BY <2>1 DEF Committed, Asked
  <2>3. ~locked[p]
    BY <2>2 DEF IInv, LocksAgree
  <2> QED BY <1>3, <2>3
<1> QED BY <1>2, <1>3

\* At every table, in every phase, some seat may lock in or the game master may
\* force: nobody is left with a screen on which no button does anything.
THEOREM NeverStuck == Spec => []SomeoneCanAct
<1>1. IInv => SomeoneCanAct
  BY Unlocked DEF SomeoneCanAct, canForce, Playing
<1> QED BY <1>1, Inductive, PTL

\* However the seats behave, a deadline with its grace behind it arms the game
\* master: canForce is true for as long as the phase lasts.
THEOREM DeadlineAlwaysArms == Spec => []DeadlineArmsGM
<1>1. IInv => DeadlineArmsGM
  BY Unlocked DEF DeadlineArmsGM, canForce, Playing
<1> QED BY <1>1, Inductive, PTL

\* A revealed seat's orders stand on the board whole, under every sequence of
\* refused reveals, replaced envelopes and re-opened windows.
THEOREM RevealsStand == Spec => []RevealedOrdersStand
<1>1. IInv => RevealedOrdersStand
  BY DEF IInv
<1> QED BY <1>1, Inductive, PTL

\* No power's orders are ever on the record of a phase without a commitment.
THEOREM NoOrdersWithoutCommitment == Spec => []OrdersHaveCommitments
<1>1. IInv => OrdersHaveCommitments
  BY DEF IInv
<1> QED BY <1>1, Inductive, PTL

\* What the running phase is filed as when a review resolves it.
LEMMA FiledAs ==
  ASSUME TypeOK,
         NEW dropUnlocked, NEW board, NEW opened, NEW made,
         Adjudicate(dropUnlocked, board, opened, made)
  PROVE  watch'[phaseIndex] = Review(dropUnlocked, board, opened, made)
<1> DEFINE review == Review(dropUnlocked, board, opened, made)
<1>1. PICK cascaded \in 0..maxAutoPhases, next \in SUBSET Power, solo \in BOOLEAN :
        Resolve(review, cascaded, next, solo)
  BY DEF Adjudicate
<1>2. phaseIndex \in 0..(EndPhase - 1)
  BY <1>1, EndPhaseAssumption, maxAutoPhasesAssumption DEF TypeOK, Resolve, After
<1> HIDE DEF review
<1>3. watch'[phaseIndex] = review
  BY <1>1, <1>2 DEF Resolve
<1> QED BY <1>3 DEF review

\* ADR-008 and ADR-010 are the only ways a phase resolves: with every asked
\* seat's envelope on the board, or by a force the code armed, which makes an
\* NMR of exactly the asked seats that have not revealed.
THEOREM OnlyTwoPaths == Spec => TwoPaths
<1> DEFINE played == watch'[phaseIndex]
           Path == phaseIndex' # phaseIndex =>
                     \/ /\ played.nmr = {}
                        /\ \A p \in Asked : /\ sealed[p] # NoEnvelope
                                            /\ Honours(played.orders[p], sealed[p])
                     \/ /\ canForce
                        /\ played.nmr = Awaiting(revealed)
<1>1. ASSUME IInv, [Next]_vars PROVE Path
  <2> SUFFICES ASSUME phaseIndex' # phaseIndex PROVE Path
    OBVIOUS
  <2> USE <1>1
  <2>2. CASE GMForce
    <3>1. played = Review(TRUE, parts, revealed, commitments)
      BY <2>2, FiledAs DEF GMForce, IInv
    <3>2. played.nmr = Missing(revealed)
      BY <3>1 DEF Review, NMR
    <3>3. Missing(revealed) = Awaiting(revealed)
      BY DEF Missing, Awaiting, Asked, IInv, LocksAgree
    <3> QED BY <2>2, <3>2, <3>3 DEF GMForce
  <2>3. ASSUME NEW p \in Power, RevealLast(p) PROVE Path
    <3>1. played = Review(FALSE, Laid(p), Opened(p), Made(p))
      BY <2>3, FiledAs DEF RevealLast, IInv
    <3>2. played.nmr = {} /\ \A q \in Power : played.orders[q] = Laid(p)[q]
      BY <3>1 DEF Review, NMR
    <3>3. ASSUME NEW q \in Asked
          PROVE  sealed[q] # NoEnvelope /\ Honours(Laid(p)[q], sealed[q])
      <4>1. CASE q = p
        BY <2>3, <4>1, AppliedHonours DEF RevealLast, MayReveal, IInv, TypeOK, Laid
      <4>2. CASE q # p
        <5>1. revealed[q]
          BY <2>3, <4>2 DEF RevealLast, Awaiting, Asked, IInv, TypeOK, Opened
        <5> QED BY <4>2, <5>1 DEF Asked, IInv, RevealedOrdersStand, TypeOK, Laid
      <4> QED BY <4>1, <4>2
    <3>4. \A q \in Asked : played.orders[q] = Laid(p)[q]
      BY <3>2 DEF Asked
    <3> QED BY <3>2, <3>3, <3>4
  <2>4. GMForce \/ \E p \in Power : RevealLast(p)
    BY DEF Next, Start, SeatStep, Commit, Uncommit, RevealRefused, Reveal, LoseKey,
                      MoveClock, GMExtend, ChangeClock, ChangeGrace, EndByDraw, TimePasses,
                      vars, boardVars
  <2> QED BY <2>2, <2>3, <2>4
<1>2. IInv /\ [Next]_vars => [Path]_vars
  BY <1>1
<1>3. [][Path]_vars => TwoPaths
  BY PTL DEF TwoPaths
<1> QED BY <1>2, <1>3, Inductive, PTL DEF Spec

===============================================================================
