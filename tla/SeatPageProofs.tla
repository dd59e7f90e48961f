---------------------------- MODULE SeatPageProofs -----------------------------
(***************************************************************************)
(* For every number of phases, extensions, losses, overtaken answers and   *)
(* reloads: the page and its line are well typed, and no key reaches the   *)
(* server before its window is open, as long as no deadline is moved.      *)
(***************************************************************************)
EXTENDS SeatPage, SequenceTheorems, TLAPS

\* Every key the phone works with is for the phase it is filed under, and so is
\* that of every envelope.
KeysFit ==
  /\ state # None => draftPhase = state.phaseIndex
  /\ draftPhase # -1 => draft \in Key /\ draft.phase = draftPhase
  /\ \A n \in Phase : stored[n] # None => stored[n].phase = n
  /\ envelope # None => envelope.key.phase = envelope.phase
  /\ \A m \in asked : m.kind = "lock" => m.envelope.key.phase = m.envelope.phase

\* What was said of phase n is true of a server in phase now, or behind it.
Past(n, shows, now, isOpen) == n <= now /\ (shows /\ n = now => isOpen)

ScreensArePast ==
  /\ state # None => Past(state.phaseIndex, state.revealOpen, phaseIndex, open)
  /\ \A n \in DOMAIN answers :
       Past(answers[n].state.phaseIndex, answers[n].state.revealOpen, phaseIndex, open)

KeysArePast ==
  /\ \A m \in asked : m.kind = "reveal" => Past(m.key.phase, TRUE, phaseIndex, open)
  /\ \A k \in received : Past(k.phase, TRUE, phaseIndex, open)

\* What every step keeps.  A page acts on what it was once told, so the whole of
\* what it was told, and not only the newest, must say no more than the server.
PageInv ==
  /\ PageTypeOK
  /\ KeysFit
  /\ deadline = 0 => ScreensArePast /\ KeysArePast

\* Without a deadline moved a window shuts only as its phase ends.
NeverReshut ==
  /\ deadline' = deadline
  /\ \/ phaseIndex' = phaseIndex + 1
     \/ phaseIndex' = phaseIndex /\ (open => open')

-------------------------------------------------------------------------------
(* The operators the steps are built from *)

\* A key that is made or read from storage is for its phase.
LEMMA ReadDraftFits ==
  ASSUME NEW kept \in [Phase -> Key \cup {None}], NEW n \in Phase,
         kept[n] # None => kept[n].phase = n,
         NEW key \in ReadDraft(kept, n)
  PROVE  key \in Key /\ key.phase = n
<1>1. \A k \in Makes(n) : k \in Key /\ k.phase = n
  BY DEF Makes, Key
<1> QED BY <1>1 DEF ReadDraft

\* A request whose answer is not waited for is the same request.
LEMMA MutedRequest ==
  ASSUME NEW m \in Requests
  PROVE  LET muted == [m EXCEPT !.awaited = FALSE]
         IN /\ muted \in Requests
            /\ muted.kind = m.kind
            /\ m.kind = "reveal" => muted.key = m.key /\ m.key \in Key
            /\ m.kind = "lock" => /\ muted.envelope = m.envelope
                                  /\ m.envelope \in Envelopes
BY DEF Requests

\* Cancelling answers leaves what they say.
LEMMA UnheardSays ==
  ASSUME NEW list \in Seq(Answers)
  PROVE  /\ Unheard(list) \in Seq(Answers)
         /\ DOMAIN Unheard(list) = DOMAIN list
         /\ \A n \in DOMAIN list : Unheard(list)[n].state = list[n].state
<1>1. \A a \in Answers : LET b == [a EXCEPT !.kind = "cancelled"]
                         IN b \in Answers /\ b.state = a.state
  BY DEF Answers
<1>2. \A n \in DOMAIN list : Unheard(list)[n] \in Answers /\ Unheard(list)[n].state = list[n].state
  BY <1>1 DEF Unheard
<1>3. DOMAIN Unheard(list) = DOMAIN list /\ DOMAIN list = 1..Len(list) /\ Len(list) \in Nat
  BY DEF Unheard
<1>4. Unheard(list) \in [1..Len(list) -> Answers]
  BY <1>2, <1>3 DEF Unheard
<1> QED BY <1>2, <1>3, <1>4

\* What was past stays past, in the phase it was past in and in the next.
LEMMA PastStays ==
  ASSUME NEW n \in Int, NEW shows \in BOOLEAN, NEW now \in Int,
         NEW wasOpen \in BOOLEAN, NEW isOpen \in BOOLEAN,
         Past(n, shows, now, wasOpen)
  PROVE  /\ Past(n, shows, now + 1, isOpen)
         /\ (wasOpen => isOpen) => Past(n, shows, now, isOpen)
BY DEF Past

\* What an answer shows is a screen.
LEMMA AnswerShows ==
  ASSUME NEW list \in Seq(Answers), NEW n \in DOMAIN list
  PROVE  list[n] \in Answers /\ list[n].state \in Screens
<1>1. list[n] \in Answers
  OBVIOUS
<1> HIDE DEF Screens
<1> QED BY <1>1 DEF Answers

\* The types the steps rest on.
LEMMA Typed ==
  ASSUME PageTypeOK
  PROVE  /\ MaxMoves \in Nat /\ MaxTrouble \in Nat /\ -1 \notin Phase
         /\ phaseIndex \in Phase /\ phaseIndex \in Nat /\ deadline \in 0..MaxMoves
         /\ open \in BOOLEAN /\ SeatState \in Screens /\ Summary \in Summaries
<1>1. /\ MaxMoves \in Nat /\ MaxTrouble \in Nat /\ phaseIndex \in 0..MaxMoves
      /\ deadline \in 0..MaxMoves
  BY PageAssumption DEF PageTypeOK, Phase
<1>2. open \in BOOLEAN
  BY DEF open
<1>3. (envelope # None) \in BOOLEAN /\ revealed \in BOOLEAN
  BY DEF PageTypeOK
<1>4. SeatState \in Screens /\ Summary \in Summaries
  BY <1>1, <1>2, <1>3 DEF SeatState, Screens, Summary, Summaries, Phase
<1> QED BY <1>1, <1>2, <1>4 DEF Phase

\* A step that never shuts a window leaves everything past.
LEMMA AllStayPast ==
  ASSUME PageTypeOK, phaseIndex' \in Phase, NeverReshut
  PROVE  /\ \A s \in Screens : Past(s.phaseIndex, s.revealOpen, phaseIndex, open)
                                 => Past(s.phaseIndex, s.revealOpen, phaseIndex', open')
         /\ \A k \in Key : Past(k.phase, TRUE, phaseIndex, open)
                             => Past(k.phase, TRUE, phaseIndex', open')
<1>1. phaseIndex \in Int /\ phaseIndex' \in Int /\ open \in BOOLEAN /\ open' \in BOOLEAN
  BY Typed DEF Phase, open
<1>2. phaseIndex' = phaseIndex + 1 \/ (phaseIndex' = phaseIndex /\ (open => open'))
  BY DEF NeverReshut
<1>3. \A s \in Screens : s.phaseIndex \in Int /\ s.revealOpen \in BOOLEAN
  BY PageAssumption DEF Screens, Phase
<1>4. \A k \in Key : k.phase \in Int /\ TRUE \in BOOLEAN
  BY PageAssumption DEF Key, Phase
<1>5. ASSUME NEW n \in Int, NEW shows \in BOOLEAN, Past(n, shows, phaseIndex, open)
      PROVE  Past(n, shows, phaseIndex', open')
  <2>1. /\ Past(n, shows, phaseIndex + 1, open')
        /\ (open => open') => Past(n, shows, phaseIndex, open')
    BY <1>1, <1>5, PastStays, Zenon
  <2> QED BY <1>2, <2>1, Zenon
<1> HIDE DEF Screens, Key
<1> QED BY <1>3, <1>4, <1>5

\* What the server would say now is past.
LEMMA NowIsPast ==
  ASSUME NEW now \in Int, NEW isOpen \in BOOLEAN
  PROVE  Past(now, isOpen, now, isOpen)
BY DEF Past

-------------------------------------------------------------------------------
(* The steps *)

\* What the server does by itself touches nothing of the phone but a frame.
LEMMA ServerKeeps ==
  ASSUME PageInv, OthersCommit \/ DeadlinePasses \/ Extend \/ OthersResolve
  PROVE  PageInv'
<1>1. PageTypeOK
  BY DEF PageInv
<1>2. UNCHANGED <<received, screenVars, fingerprint, live, armed, netVars>> /\ told' \in BOOLEAN
  BY <1>1 DEF OthersCommit, DeadlinePasses, Extend, OthersResolve, linkVars, PageTypeOK
<1>3. /\ phaseIndex' \in Phase
      /\ window' \in {"shut", "committed", "deadline"}
      /\ deadline' \in 0..MaxMoves
      /\ passed' \in BOOLEAN
      /\ envelope' \in {envelope, None}
      /\ revealed' \in BOOLEAN
  <2>1. CASE OthersCommit
    <3>1. window' \in {"committed", "deadline"}
      BY <2>1 DEF OthersCommit
    <3> QED BY <1>1, <2>1, <3>1 DEF OthersCommit, PageTypeOK
  <2>2. CASE DeadlinePasses
    BY <1>1, <2>2 DEF DeadlinePasses, PageTypeOK
  <2>3. CASE Extend
    <3>1. deadline + 1 \in 0..MaxMoves
      BY <1>1, <2>3, Typed DEF Extend, MayMove, Phase
    <3>2. window' \in {"shut", window}
      BY <2>3 DEF Extend
    <3> QED BY <1>1, <2>3, <3>1, <3>2 DEF Extend, PageTypeOK
  <2>4. CASE OthersResolve
    BY <1>1, <2>4, Typed DEF OthersResolve, Advance, MayMove, PageTypeOK, Phase
  <2> QED BY <2>1, <2>2, <2>3, <2>4
<1>4. PageTypeOK'
  BY <1>1, <1>2, <1>3 DEF PageTypeOK, screenVars, netVars
<1>5. KeysFit'
  BY <1>2, <1>3 DEF PageInv, KeysFit, screenVars, netVars
<1>6. ASSUME deadline' = 0 PROVE ScreensArePast' /\ KeysArePast'
  <2>1. ~Extend
    BY <1>1, <1>6, Typed DEF Extend
  <2>2. deadline = 0 /\ NeverReshut
    <3>1. CASE OthersCommit
      BY <1>6, <3>1 DEF OthersCommit, NeverReshut, open
    <3>2. CASE DeadlinePasses
      BY <1>6, <3>2 DEF DeadlinePasses, NeverReshut, open
    <3>3. CASE OthersResolve
      BY <1>6, <3>3 DEF OthersResolve, Advance, NeverReshut
    <3> QED BY <2>1, <3>1, <3>2, <3>3
  <2>3. \A n \in DOMAIN answers : answers[n].state \in Screens
    BY <1>1, AnswerShows DEF PageTypeOK
  <2>7. ScreensArePast /\ state \in Screens \cup {None} /\ UNCHANGED <<state, answers>>
    BY <1>1, <1>2, <2>2 DEF PageInv, PageTypeOK, screenVars, netVars
  <2>8. \A s \in Screens : Past(s.phaseIndex, s.revealOpen, phaseIndex, open)
                           => Past(s.phaseIndex, s.revealOpen, phaseIndex', open')
    BY <1>1, <1>3, <2>2, AllStayPast
  <2>4. ScreensArePast'
    BY <2>3, <2>7, <2>8 DEF ScreensArePast
  <2>5. \A m \in asked : m.kind = "reveal" => m.key \in Key
    BY <1>1 DEF PageTypeOK, Requests
  <2>6. KeysArePast'
    BY <1>1, <1>2, <1>3, <2>2, <2>5, AllStayPast DEF PageInv, PageTypeOK, KeysArePast, netVars
  <2> QED BY <2>4, <2>6
<1> QED BY <1>4, <1>5, <1>6 DEF PageInv

\* Serving a request says what is so, and takes in a key the phone had sent.
LEMMA ServeKeeps ==
  ASSUME PageInv, NEW request \in asked,
         ServeLock(request) \/ ServeUnlock(request) \/ ServeReveal(request),
         UNCHANGED <<screenVars, fingerprint, live, armed, trouble>>
  PROVE  PageInv'
<1>1. PageTypeOK /\ KeysFit /\ request \in Requests
  BY DEF PageInv, PageTypeOK
<1>2. /\ asked' = asked \ {request}
      /\ \/ answers' = answers
         \/ answers' = Append(answers, [kind |-> request.kind, state |-> SeatState'])
      /\ told' \in BOOLEAN
  BY <1>1 DEF ServeLock, ServeUnlock, ServeReveal, Served, Refused, Answered, PageTypeOK
<1>3. /\ request.kind \in {"lock", "unlock", "reveal"}
      /\ request.kind = "lock" => /\ request.envelope \in Envelopes
                                  /\ request.envelope.key.phase = request.envelope.phase
      /\ request.kind = "reveal" => request.key \in Key
  BY <1>1 DEF Requests, KeysFit
<1>4. /\ phaseIndex' \in Phase
      /\ window' \in {"shut", "committed", "deadline"}
      /\ deadline' = deadline
      /\ passed' \in BOOLEAN
      /\ envelope' \in {envelope, None} \cup
           {e \in Envelopes : request.kind = "lock" /\ e = request.envelope}
      /\ revealed' \in BOOLEAN
      /\ \/ received' = received
         \/ request.kind = "reveal" /\ received' = received \cup {request.key}
      /\ NeverReshut
  <2>1. CASE ServeLock(request)
    BY <1>1, <1>3, <2>1 DEF ServeLock, Served, Refused, PageTypeOK, NeverReshut, open
  <2>2. CASE ServeUnlock(request)
    BY <1>1, <2>2 DEF ServeUnlock, Served, Refused, PageTypeOK, NeverReshut, open
  <2>3. CASE ServeReveal(request)
    <3>1. /\ request.kind = "reveal" /\ deadline' = deadline
          /\ received' = received \cup {request.key}
          /\ \/ UNCHANGED <<phaseIndex, window, passed, envelope, revealed>>
             \/ revealed' = TRUE /\ UNCHANGED <<phaseIndex, window, passed, envelope>>
             \/ MayMove /\ Advance
      BY <2>3 DEF ServeReveal
    <3>2. CASE MayMove /\ Advance
      BY <1>1, <3>1, <3>2, Typed DEF MayMove, Advance, PageTypeOK, Phase, NeverReshut
    <3>3. CASE UNCHANGED <<phaseIndex, window, passed, envelope>> /\ revealed' \in BOOLEAN
      BY <1>1, <3>1, <3>3 DEF PageTypeOK, NeverReshut, open
    <3> QED BY <1>1, <3>1, <3>2, <3>3 DEF PageTypeOK
  <2> QED BY <2>1, <2>2, <2>3
<1>5. SeatState' \in Screens
  <2>1. open' \in BOOLEAN /\ (envelope' # None) \in BOOLEAN /\ deadline' \in 0..MaxMoves
    BY <1>1, <1>4 DEF open, PageTypeOK
  <2> QED BY <1>4, <2>1 DEF SeatState, Screens
<1>6. answers' \in Seq(Answers)
  <2>1. [kind |-> request.kind, state |-> SeatState'] \in Answers
    BY <1>3, <1>5 DEF Answers
  <2> QED BY <1>1, <1>2, <2>1 DEF PageTypeOK
<1>7. PageTypeOK'
  BY <1>1, <1>2, <1>3, <1>4, <1>6 DEF PageTypeOK, screenVars
<1>8. KeysFit'
  BY <1>1, <1>2, <1>3, <1>4 DEF KeysFit, screenVars
<1>9. ASSUME deadline' = 0 PROVE ScreensArePast' /\ KeysArePast'
  <2>1. ScreensArePast /\ KeysArePast
    BY <1>4, <1>9 DEF PageInv
  <2>8. \A s \in Screens : Past(s.phaseIndex, s.revealOpen, phaseIndex, open)
                           => Past(s.phaseIndex, s.revealOpen, phaseIndex', open')
    BY <1>1, <1>4, AllStayPast
  <2>2. Past(SeatState'.phaseIndex, SeatState'.revealOpen, phaseIndex', open')
    <3>1. phaseIndex' \in Int /\ open' \in BOOLEAN
      BY <1>1, <1>4, Typed DEF Phase, open
    <3>2. SeatState'.phaseIndex = phaseIndex' /\ SeatState'.revealOpen = open'
      BY DEF SeatState
    <3> QED BY <3>1, <3>2, NowIsPast
  <2>3. ASSUME NEW n \in DOMAIN answers'
        PROVE  Past(answers'[n].state.phaseIndex, answers'[n].state.revealOpen, phaseIndex', open')
    <3>1. CASE answers' = answers
      <4>1. answers[n].state \in Screens
        BY <1>1, <2>3, <3>1, AnswerShows DEF PageTypeOK
      <4> QED BY <2>1, <2>3, <2>8, <3>1, <4>1 DEF ScreensArePast
    <3>2. CASE answers' = Append(answers, [kind |-> request.kind, state |-> SeatState'])
      <4>1. answers \in Seq(Answers)
        BY <1>1 DEF PageTypeOK
      <4>2. CASE n = Len(answers) + 1
        BY <2>2, <3>2, <4>1, <4>2
      <4>3. CASE n \in DOMAIN answers /\ answers'[n] = answers[n]
        <5>1. answers[n].state \in Screens
          BY <4>1, <4>3, AnswerShows
        <5> QED BY <2>1, <2>8, <4>3, <5>1 DEF ScreensArePast
      <4> QED BY <2>3, <3>2, <4>1, <4>2, <4>3
    <3> QED BY <1>2, <3>1, <3>2
  <2>4. ScreensArePast'
    <3>1. UNCHANGED state
      BY DEF screenVars
    <3>2. state # None => Past(state.phaseIndex, state.revealOpen, phaseIndex', open')
      BY <1>1, <1>4, <2>1, AllStayPast DEF ScreensArePast, PageTypeOK
    <3> QED BY <2>3, <3>1, <3>2 DEF ScreensArePast
  <2>5. \A m \in asked : m.kind = "reveal" => m.key \in Key
    BY <1>1 DEF PageTypeOK, Requests
  <2>6. \A m \in asked : m.kind = "reveal" => Past(m.key.phase, TRUE, phaseIndex', open')
    BY <1>1, <1>4, <2>1, <2>5, AllStayPast DEF KeysArePast
  <2>7. \A k \in received : Past(k.phase, TRUE, phaseIndex', open')
    BY <1>1, <1>4, <2>1, AllStayPast DEF KeysArePast, PageTypeOK
  <2> QED BY <1>2, <1>4, <2>4, <2>6, <2>7 DEF KeysArePast
<1> QED BY <1>7, <1>8, <1>9 DEF PageInv

\* A request of the phone, or one of those whose answer is not waited for.
LEMMA CancelledFits ==
  ASSUME PageInv, NEW m \in Cancelled \cup {[q EXCEPT !.awaited = FALSE] : q \in asked}
  PROVE  /\ m \in Requests
         /\ m.kind = "lock" => m.envelope.key.phase = m.envelope.phase
         /\ deadline = 0 /\ m.kind = "reveal" => Past(m.key.phase, TRUE, phaseIndex, open)
<1>1. PICK q \in asked : m = q \/ m = [q EXCEPT !.awaited = FALSE]
  BY DEF Cancelled
<1>2. q \in Requests
  BY DEF PageInv, PageTypeOK
<1>3. /\ m \in Requests /\ m.kind = q.kind
      /\ q.kind = "lock" => m.envelope = q.envelope
      /\ q.kind = "reveal" => m.key = q.key
  BY <1>1, <1>2, MutedRequest
<1> QED BY <1>3 DEF PageInv, KeysFit, KeysArePast

\* An answer taken off the line.
LEMMA TailSays ==
  ASSUME NEW list \in Seq(Answers), list # <<>>
  PROVE  /\ Head(list) \in Answers /\ Head(list) = list[1] /\ 1 \in DOMAIN list
         /\ Tail(list) \in Seq(Answers)
         /\ \A n \in DOMAIN Tail(list) : n + 1 \in DOMAIN list /\ Tail(list)[n] = list[n + 1]
OBVIOUS

\* A page that takes a state sends a key only if that state shows it is wanted.
LEMMA ReceiveKeeps == ASSUME PageInv, Receive PROVE PageInv'
<1> DEFINE next == Head(answers).state
           rest == Tail(answers)
<1>1. PageTypeOK /\ KeysFit /\ answers # <<>> /\ answers \in Seq(Answers)
  BY DEF PageInv, PageTypeOK, Receive
<1>2. /\ next \in Screens /\ next = answers[1].state /\ 1 \in DOMAIN answers
      /\ rest \in Seq(Answers)
      /\ \A n \in DOMAIN rest : n + 1 \in DOMAIN answers /\ rest[n] = answers[n + 1]
  BY <1>1, TailSays, AnswerShows
<1>3. /\ UNCHANGED <<serverVars, fingerprint, live, told, trouble>>
      /\ armed' \in BOOLEAN
      /\ TakeState(next, rest)
  BY <1>1 DEF Receive
<1> HIDE DEF next, rest
<1>4. PICK key \in (IF draftPhase = next.phaseIndex THEN {draft}
                    ELSE ReadDraft(stored, next.phaseIndex)) :
        draft' = key /\ Effect(next, key, rest)
  BY <1>3 DEF TakeState
<1>5. /\ state' = next /\ draftPhase' = next.phaseIndex
      /\ stored' = IF draftPhase = next.phaseIndex THEN stored
                   ELSE forgetOldDrafts(stored, next.phaseIndex)
  BY <1>3 DEF TakeState
<1>6. next.phaseIndex \in Phase /\ next.phaseIndex # -1 /\ next.revealOpen \in BOOLEAN
      /\ next.youRevealed \in BOOLEAN
  BY <1>1, <1>2, Typed DEF Screens
<1>7. key \in Key /\ key.phase = next.phaseIndex
  <2>1. CASE draftPhase = next.phaseIndex
    BY <1>1, <1>4, <1>6, <2>1 DEF KeysFit
  <2>2. CASE draftPhase # next.phaseIndex
    <3>1. stored \in [Phase -> Key \cup {None}]
      BY <1>1 DEF PageTypeOK
    <3>2. stored[next.phaseIndex] # None => stored[next.phaseIndex].phase = next.phaseIndex
      BY <1>1, <1>6 DEF KeysFit
    <3>3. key \in ReadDraft(stored, next.phaseIndex)
      BY <1>4, <2>2
    <3> QED BY <1>6, <3>1, <3>2, <3>3, ReadDraftFits
  <2> QED BY <2>1, <2>2
<1>8. /\ stored' \in [Phase -> Key \cup {None}]
      /\ \A n \in Phase : stored'[n] # None => stored'[n].phase = n
  <2>1. /\ stored \in [Phase -> Key \cup {None}]
        /\ \A n \in Phase : stored[n] # None => stored[n].phase = n
    BY <1>1 DEF PageTypeOK, KeysFit
  <2> QED BY <1>5, <2>1 DEF forgetOldDrafts
<1>9. /\ answers' \in Seq(Answers) /\ DOMAIN answers' = DOMAIN rest
      /\ \A n \in DOMAIN rest : answers'[n].state = rest[n].state
  BY <1>2, <1>4, UnheardSays DEF Effect
<1>10. \A m \in asked' : \/ m \in asked
                         \/ m \in Cancelled
                         \/ /\ m = [kind |-> "reveal", key |-> key, awaited |-> TRUE]
                            /\ next.revealOpen
  BY <1>4 DEF Effect, Asks
<1>11. ran' \in (BOOLEAN \X BOOLEAN) \cup {None}
  BY <1>1, <1>4, <1>6 DEF Effect, PageTypeOK
<1>12. ASSUME NEW m \in asked'
       PROVE  /\ m \in Requests
              /\ m.kind = "lock" => m.envelope.key.phase = m.envelope.phase
  <2>1. CASE m \in asked
    BY <1>1, <2>1 DEF PageTypeOK, KeysFit
  <2>2. CASE m \in Cancelled
    BY <2>2, CancelledFits
  <2>3. CASE m = [kind |-> "reveal", key |-> key, awaited |-> TRUE]
    BY <1>7, <2>3 DEF Requests
  <2> QED BY <1>10, <2>1, <2>2, <2>3
<1>13. PageTypeOK'
  BY <1>1, <1>2, <1>3, <1>4, <1>5, <1>6, <1>7, <1>8, <1>9, <1>11, <1>12
     DEF PageTypeOK, serverVars
<1>14. KeysFit'
  BY <1>1, <1>3, <1>4, <1>5, <1>7, <1>8, <1>12 DEF KeysFit, serverVars
<1>15. ASSUME deadline' = 0 PROVE ScreensArePast' /\ KeysArePast'
  <2>1. ScreensArePast /\ KeysArePast /\ deadline = 0 /\ phaseIndex' = phaseIndex
        /\ open' = open /\ received' = received
    BY <1>3, <1>15 DEF PageInv, serverVars, open
  <2>2. Past(next.phaseIndex, next.revealOpen, phaseIndex, open)
    BY <1>2, <2>1 DEF ScreensArePast
  <2>3. ASSUME NEW n \in DOMAIN rest
        PROVE  Past(rest[n].state.phaseIndex, rest[n].state.revealOpen, phaseIndex, open)
    BY <1>2, <2>1 DEF ScreensArePast
  <2>4. ScreensArePast'
    BY <1>5, <1>9, <2>1, <2>2, <2>3 DEF ScreensArePast
  <2>5. ASSUME NEW m \in asked', m.kind = "reveal"
        PROVE  Past(m.key.phase, TRUE, phaseIndex, open)
    <3>1. CASE m \in asked
      BY <2>1, <2>5, <3>1 DEF KeysArePast
    <3>2. CASE m \in Cancelled
      BY <2>1, <2>5, <3>2, CancelledFits
    <3>3. CASE m = [kind |-> "reveal", key |-> key, awaited |-> TRUE] /\ next.revealOpen
      BY <1>7, <2>2, <3>3 DEF Past
    <3> QED BY <1>10, <3>1, <3>2, <3>3
  <2> QED BY <2>1, <2>4, <2>5 DEF KeysArePast
<1> QED BY <1>13, <1>14, <1>15 DEF PageInv

\* A page that only drops, adds or reorders what is on its line.
LEMMA LineKeeps ==
  ASSUME PageInv,
         UNCHANGED <<serverVars, state, ran, draftPhase, draft>>,
         stored' \in [Phase -> Key \cup {None}],
         \A n \in Phase : stored'[n] # None => stored'[n].phase = n,
         fingerprint' \in Summaries \cup {None},
         {live', told', armed'} \subseteq BOOLEAN,
         trouble' \in 0..MaxTrouble,
         answers' \in Seq(Answers),
         \A n \in DOMAIN answers' :
           \/ answers'[n].state = SeatState
           \/ \E k \in DOMAIN answers : answers'[n] = answers[k],
         \A m \in asked' :
           /\ m \in Requests
           /\ m.kind = "lock" => m.envelope.key.phase = m.envelope.phase
           /\ deadline = 0 /\ m.kind = "reveal" => Past(m.key.phase, TRUE, phaseIndex, open)
  PROVE  PageInv'
<1>1. PageTypeOK /\ KeysFit
  BY DEF PageInv
<1>2. PageTypeOK'
  BY <1>1 DEF PageTypeOK, serverVars
<1>3. KeysFit'
  BY <1>1 DEF KeysFit, serverVars
<1>4. ASSUME deadline' = 0 PROVE ScreensArePast' /\ KeysArePast'
  <2>1. /\ ScreensArePast /\ KeysArePast /\ deadline = 0
        /\ UNCHANGED <<phaseIndex, received, state>> /\ open' = open
    BY <1>4 DEF PageInv, serverVars, open
  <2>2. Past(SeatState.phaseIndex, SeatState.revealOpen, phaseIndex, open)
    <3>1. phaseIndex \in Int /\ open \in BOOLEAN
      BY <1>1, Typed DEF Phase
    <3>2. SeatState.phaseIndex = phaseIndex /\ SeatState.revealOpen = open
      BY DEF SeatState
    <3> QED BY <3>1, <3>2, NowIsPast
  <2>3. ScreensArePast'
    BY <2>1, <2>2 DEF ScreensArePast
  <2>4. KeysArePast'
    BY <2>1 DEF KeysArePast
  <2> QED BY <2>3, <2>4
<1> QED BY <1>2, <1>3, <1>4 DEF PageInv

\* What stays of storage and requests where a step does not touch them.
LEMMA AtRest ==
  ASSUME PageInv
  PROVE  /\ PageTypeOK /\ answers \in Seq(Answers) /\ fingerprint \in Summaries \cup {None}
         /\ {live, told, armed} \subseteq BOOLEAN /\ trouble \in 0..MaxTrouble
         /\ stored \in [Phase -> Key \cup {None}]
         /\ \A n \in Phase : stored[n] # None => stored[n].phase = n
         /\ \A m \in asked :
              /\ m \in Requests
              /\ m.kind = "lock" => m.envelope.key.phase = m.envelope.phase
              /\ deadline = 0 /\ m.kind = "reveal" => Past(m.key.phase, TRUE, phaseIndex, open)
BY DEF PageInv, PageTypeOK, KeysFit, KeysArePast

\* The reads, what the socket says, the drafts and the button.
LEMMA PageKeeps ==
  ASSUME PageInv,
         Ignore \/ Poll \/ ReadOnFrame \/ TimerFires \/ Connect \/ ToggleLock \/ WriteOrder
  PROVE  PageInv'
<1>1. /\ PageTypeOK /\ KeysFit /\ answers \in Seq(Answers)
      /\ SeatState \in Screens /\ Summary \in Summaries
  BY Typed, AtRest DEF PageInv
<1>2. CASE Ignore
  <2>1. /\ answers' \in Seq(Answers)
        /\ \A n \in DOMAIN answers' : \E k \in DOMAIN answers : answers'[n] = answers[k]
    BY <1>1, <1>2, TailSays DEF Ignore
  <2> QED BY <1>2, <2>1, AtRest, LineKeeps DEF Ignore, screenVars, linkVars
<1>3. ASSUME NEW kind \in {"poll", "frame", "timer"}, Read(kind)
      PROVE  /\ answers' \in Seq(Answers)
             /\ \A n \in DOMAIN answers' :
                  \/ answers'[n].state = SeatState
                  \/ \E k \in DOMAIN answers : answers'[n] = answers[k]
  <2> DEFINE answer == [kind |-> kind, state |-> SeatState]
  <2>1. answer \in Answers /\ answer.state = SeatState
    BY <1>1 DEF Answers
  <2>2. answers' = Append(answers, answer)
    BY <1>3 DEF Read
  <2> HIDE DEF answer
  <2> QED BY <1>1, <2>1, <2>2
<1>4. CASE Poll
  <2>1. Read("poll") /\ fingerprint' = Summary
        /\ UNCHANGED <<serverVars, screenVars, live, told, armed, asked, trouble>>
    BY <1>4 DEF Poll
  <2> QED BY <1>1, <1>3, <2>1, AtRest, LineKeeps DEF screenVars
<1>5. CASE ReadOnFrame
  <2>1. Read("frame") /\ told' = FALSE
        /\ UNCHANGED <<serverVars, screenVars, fingerprint, live, armed, asked, trouble>>
    BY <1>5 DEF ReadOnFrame
  <2>2. {live', told', armed'} \subseteq BOOLEAN
    BY <2>1, AtRest
  <2> QED BY <1>3, <2>1, <2>2, AtRest, LineKeeps DEF screenVars
<1>6. CASE TimerFires
  <2>1. Read("timer") /\ armed' = FALSE
        /\ UNCHANGED <<serverVars, screenVars, fingerprint, live, told, asked, trouble>>
    BY <1>6 DEF TimerFires
  <2>2. {live', told', armed'} \subseteq BOOLEAN
    BY <2>1, AtRest
  <2> QED BY <1>3, <2>1, <2>2, AtRest, LineKeeps DEF screenVars
<1>7. CASE Connect
  <2>1. {live', told', armed'} \subseteq BOOLEAN
    BY <1>7 DEF Connect
  <2> QED BY <1>7, <2>1, AtRest, LineKeeps DEF Connect, screenVars, netVars
<1>8. CASE ToggleLock
  <2>1. state # None /\ UNCHANGED <<serverVars, screenVars, linkVars, answers, trouble>>
    BY <1>8 DEF ToggleLock
  <2>2. draftPhase \in Phase /\ draft \in Key /\ draft.phase = draftPhase
    BY <1>1, <2>1, Typed DEF PageTypeOK, KeysFit, Screens
  <2>3. ASSUME NEW m \in asked'
        PROVE  /\ m \in Requests
               /\ m.kind = "lock" => m.envelope.key.phase = m.envelope.phase
               /\ m \notin asked => m.kind # "reveal"
    <3>1. CASE m \in asked
      BY <3>1, AtRest
    <3>2. CASE m = [kind |-> "unlock", awaited |-> TRUE]
      BY <3>2 DEF Requests
    <3>3. CASE m = [kind |-> "lock", awaited |-> TRUE,
                    envelope |-> [phase |-> draftPhase, key |-> draft]]
      <4>1. [phase |-> draftPhase, key |-> draft] \in Envelopes
        BY <2>2 DEF Envelopes
      <4> HIDE DEF Envelopes
      <4> QED BY <2>2, <3>3, <4>1 DEF Requests
    <3> QED BY <1>8, <3>1, <3>2, <3>3 DEF ToggleLock
  <2> QED BY <2>1, <2>3, AtRest, LineKeeps DEF screenVars, linkVars
<1>9. CASE WriteOrder
  <2>1. state # None /\ stored' = [stored EXCEPT ![draftPhase] = draft]
        /\ UNCHANGED <<serverVars, state, ran, draftPhase, draft, linkVars, netVars>>
    BY <1>9 DEF WriteOrder
  <2>2. draftPhase \in Phase /\ draft \in Key /\ draft.phase = draftPhase
    BY <1>1, <2>1, Typed DEF PageTypeOK, KeysFit, Screens
  <2>3. /\ stored' \in [Phase -> Key \cup {None}]
        /\ \A n \in Phase : stored'[n] # None => stored'[n].phase = n
    BY <2>1, <2>2, AtRest
  <2> QED BY <2>1, <2>3, AtRest, LineKeeps DEF linkVars, netVars
<1> QED BY <1>2, <1>4, <1>5, <1>6, <1>7, <1>8, <1>9

\* What is lost or overtaken was on the line, and what a page forgets on being
\* loaded again is forgotten whole.
LEMMA TroubleKeeps == ASSUME PageInv, Trouble PROVE PageInv'
<1>1. trouble' \in 0..MaxTrouble
  <2>1. trouble \in 0..MaxTrouble /\ MaxTrouble \in Nat
    BY AtRest, PageAssumption
  <2>2. trouble + 1 \in 0..MaxTrouble
    BY <2>1 DEF Trouble
  <2> QED BY <2>2 DEF Trouble
<1>2. PageTypeOK /\ answers \in Seq(Answers)
  BY AtRest
<1>3. CASE LoseRequest
  BY <1>1, <1>3, AtRest, LineKeeps DEF LoseRequest, screenVars, linkVars
<1>4. CASE LoseAnswer
  <2>1. PICK n \in DOMAIN answers : answers' = RemoveAt(answers, n)
    BY <1>4 DEF LoseAnswer
  <2>2. /\ answers' \in Seq(Answers)
        /\ \A i \in DOMAIN answers' : \E k \in DOMAIN answers : answers'[i] = answers[k]
    <3>1. answers' \in Seq(Answers) /\ Len(answers') = Len(answers) - 1
      BY <1>2, <2>1 DEF RemoveAt
    <3>2. ASSUME NEW i \in DOMAIN answers'
          PROVE  \E k \in DOMAIN answers : answers'[i] = answers[k]
      <4>1. CASE i < n
        <5>1. answers'[i] = answers[i] /\ i \in DOMAIN answers
          BY <1>2, <2>1, <3>1, <3>2, <4>1 DEF RemoveAt
        <5> QED BY <5>1
      <4>2. CASE ~(i < n)
        <5>1. n \in 1..Len(answers) /\ i \in 1..(Len(answers) - 1) /\ i >= n
          BY <1>2, <2>1, <3>1, <3>2, <4>2
        <5>2. answers' = SubSeq(answers, 1, n - 1) \o SubSeq(answers, n + 1, Len(answers))
          BY <2>1 DEF RemoveAt
        <5> DEFINE before == SubSeq(answers, 1, n - 1)
                   after == SubSeq(answers, n + 1, Len(answers))
        <5>3. before \in Seq(Answers) /\ Len(before) = n - 1
          BY <1>2, <5>1
        <5>4. after \in Seq(Answers) /\ Len(after) = Len(answers) - n
              /\ \A j \in 1..(Len(answers) - n) : after[j] = answers[n + j]
          BY <1>2, <5>1
        <5> HIDE DEF before, after
        <5>5. i - (n - 1) \in 1..(Len(answers) - n) /\ i \notin 1..(n - 1)
              /\ n + (i - (n - 1)) = i + 1 /\ i + 1 \in 1..Len(answers)
          BY <1>2, <5>1
        <5>6. (before \o after)[i] = after[i - (n - 1)]
          <6>1. /\ i \in 1..(Len(before) + Len(after)) /\ ~(i <= Len(before))
                /\ i - Len(before) = i - (n - 1)
            BY <5>1, <5>3, <5>4
          <6> QED BY <5>3, <5>4, <6>1, ConcatProperties
        <5>7. answers'[i] = answers[i + 1] /\ i + 1 \in DOMAIN answers
          <6>1. answers' = before \o after
            BY <5>2 DEF before, after
          <6> QED BY <1>2, <5>4, <5>5, <5>6, <6>1
        <5> QED BY <5>7
      <4> QED BY <4>1, <4>2
    <3> QED BY <3>1, <3>2
  <2>3. {live', told', armed'} \subseteq BOOLEAN
    BY <1>4, AtRest DEF LoseAnswer, Down
  <2> QED BY <1>1, <1>4, <2>2, <2>3, AtRest, LineKeeps DEF LoseAnswer, screenVars
<1>5. CASE Overtake
  <2>1. Len(answers) > 1
        /\ answers' = <<answers[2], answers[1]>> \o SubSeq(answers, 3, Len(answers))
    BY <1>5 DEF Overtake
  <2>2. /\ answers' \in Seq(Answers)
        /\ \A i \in DOMAIN answers' : \E k \in DOMAIN answers : answers'[i] = answers[k]
    BY <1>2, <2>1
  <2> QED BY <1>1, <1>5, <2>2, AtRest, LineKeeps DEF Overtake, screenVars, linkVars
<1>6. CASE Disconnect
  <2>1. {live', told', armed'} \subseteq BOOLEAN
    BY <1>6 DEF Disconnect, Down
  <2> QED BY <1>1, <1>6, <2>1, AtRest, LineKeeps DEF Disconnect, screenVars
<1>7. CASE Reload
  <2>1. \A m \in asked' : m \in Cancelled \cup {[q EXCEPT !.awaited = FALSE] : q \in asked}
    BY <1>7 DEF Reload
  <2>2. \A m \in asked' :
          /\ m \in Requests
          /\ m.kind = "lock" => m.envelope.key.phase = m.envelope.phase
          /\ deadline = 0 /\ m.kind = "reveal" => Past(m.key.phase, TRUE, phaseIndex, open)
    BY <2>1, CancelledFits
  <2>3. /\ UNCHANGED <<serverVars, stored>>
        /\ state' = None /\ ran' = None /\ draftPhase' = -1 /\ draft' = None
        /\ fingerprint' = None /\ {live', told', armed'} \subseteq BOOLEAN
        /\ answers' = <<>>
    BY <1>7 DEF Reload, Down
  <2>4. PageTypeOK'
    <3>1. asked' \subseteq Requests
      BY <2>2
    <3>2. answers' \in Seq(Answers)
      BY <2>3
    <3> HIDE DEF Requests, Answers
    <3> QED BY <1>1, <1>2, <2>3, <3>1, <3>2 DEF PageTypeOK, serverVars
  <2>5. KeysFit'
    BY <2>2, <2>3 DEF PageInv, KeysFit, serverVars
  <2>6. ASSUME deadline' = 0 PROVE ScreensArePast' /\ KeysArePast'
    <3>1. ScreensArePast'
      BY <2>3 DEF ScreensArePast
    <3>2. KeysArePast'
      BY <2>2, <2>3, <2>6 DEF PageInv, KeysArePast, serverVars, open
    <3> QED BY <3>1, <3>2
  <2> QED BY <2>4, <2>5, <2>6 DEF PageInv
<1> QED BY <1>3, <1>4, <1>5, <1>6, <1>7 DEF Trouble

-------------------------------------------------------------------------------
(* The specification *)

\* A page not loaded yet, a server that has heard nothing.
LEMMA InitKeeps == Init => PageInv
<1> SUFFICES ASSUME Init PROVE PageInv
  OBVIOUS
<1>1. PageTypeOK
  BY PageAssumption DEF Init, PageTypeOK, Phase
<1>2. KeysFit
  BY DEF Init, KeysFit
<1>3. ScreensArePast /\ KeysArePast
  BY DEF Init, ScreensArePast, KeysArePast
<1> QED BY <1>1, <1>2, <1>3 DEF PageInv

\* Every step of the server, the page and the line.
LEMMA StepKeeps == PageInv /\ [Next]_pageVars => PageInv'
<1> SUFFICES ASSUME PageInv, [Next]_pageVars PROVE PageInv'
  OBVIOUS
<1>1. ASSUME NEW kind \in RequestKinds, Serve(kind) PROVE PageInv'
  BY <1>1, ServeKeeps DEF Serve
<1>2. CASE UNCHANGED pageVars
  BY <1>2 DEF pageVars, serverVars, screenVars, linkVars, netVars, PageInv, PageTypeOK, KeysFit,
              ScreensArePast, KeysArePast, open
<1> QED BY <1>1, <1>2, ServerKeeps, ReceiveKeeps, PageKeeps, TroubleKeeps DEF Next

\* The page, its server and the line between them are well typed: no draft, key
\* or envelope is ever of a phase the game does not have.
THEOREM PageTypeCorrect == Spec => []PageTypeOK
<1>1. PageInv => PageTypeOK
  BY DEF PageInv
<1> QED BY <1>1, InitKeeps, StepKeeps, PTL DEF Spec

\* flow.go, "it holds no key to it": while a window is shut, no key to an
\* envelope of the running phase has reached the server, whatever was lost,
\* late, overtaken or sent by a page that was loaded again since.
THEOREM NoKeyEarly == Spec => []NoKeyHeld
<1>1. PageInv => NoKeyHeld
  <2> SUFFICES ASSUME PageInv, deadline = 0, envelope # None, ~open,
                      envelope.phase = phaseIndex, envelope.key \in received
               PROVE  FALSE
    BY DEF NoKeyHeld, NoKeyBeforehand
  <2>1. Past(envelope.key.phase, TRUE, phaseIndex, open)
    BY DEF PageInv, KeysArePast
  <2>2. envelope.key.phase = phaseIndex
    BY DEF PageInv, KeysFit
  <2> QED BY <2>1, <2>2 DEF Past
<1> QED BY <1>1, InitKeeps, StepKeeps, PTL DEF Spec
===============================================================================
