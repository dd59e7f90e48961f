------------------------------- MODULE SeatPage -------------------------------
(***************************************************************************)
(* One phone at a sealed table (SeatPage.tsx, sealed.ts, hooks.ts) and the *)
(* server as far as that phone can tell: the phone drafts, locks in an     *)
(* envelope, learns that the window is open from a read of the state and   *)
(* releases the key.  Requests and answers may be slow, overtake each      *)
(* other or get lost; the page may be reloaded.                            *)
(*                                                                         *)
(* The other seats and the game master are what the server does by itself; *)
(* what they do that this seat cannot tell is left out, with its frames.   *)
(* An envelope is the phase and the key it is sealed under: associated     *)
(* data and tag make those two the only things that open it.  What the     *)
(* orders in it say is left out.                                           *)
(***************************************************************************)
EXTENDS Integers, SequencesExt

CONSTANTS
  Keyed,       \* the seat holds a seed (ADR-049), not a token
  MaxMoves,    \* bound on phases resolved and deadlines moved, together
  MaxTrouble,  \* bound on messages lost or overtaken, sockets, reloads
  MaxAnswers,  \* bound on answers on their way at once
  None         \* no envelope, no key, no draft, nothing read yet

ASSUME PageAssumption == MaxMoves \in Nat /\ MaxTrouble \in Nat

VARIABLES
  \* The server, as this seat sees it.
  phaseIndex,
  window,       \* "shut", or what opened it: "committed" or "deadline"
  deadline,     \* flow.deadlineAt, counted by extensions
  passed,       \* graceEndsAt is behind us
  envelope,     \* seat.sealed
  revealed,     \* seat.revealed
  received,     \* the keys that have ever reached the server
  \* The page.
  state,        \* what the screen shows
  ran,          \* what the releasing effect last ran on
  draftPhase,
  draft,        \* draft.current
  stored,       \* the drafts in this device's storage, by phase
  fingerprint,  \* the public summary the last poll acted on
  live,         \* the socket is up
  told,         \* a frame has come that has not been acted on
  armed,        \* the timer of useRefreshAt is set
  \* Between them.
  asked,        \* requests on their way
  answers,      \* answers on their way, the oldest first
  trouble       \* how much has gone wrong so far

serverVars == <<phaseIndex, window, deadline, passed, envelope, revealed, received>>
screenVars == <<state, ran, draftPhase, draft, stored>>
linkVars == <<fingerprint, live, told, armed>>
netVars == <<asked, answers, trouble>>
pageVars == <<serverVars, screenVars, linkVars, netVars>>

-------------------------------------------------------------------------------

Phase == 0..MaxMoves

MayMove == phaseIndex + deadline < MaxMoves

\* A key is for one phase, and from the seat's seed or from one of the two
\* throws of the dice that are told apart here.
Key == [phase : Phase, from : {"seed", "dice", "otherDice"}]

\* Mutant of Makes: the key of the phase to come.
MakesNextKey(n) == {[phase |-> n + 1, from |-> "seed"]}

\* makeKey.
Makes(n) ==
  IF Keyed THEN {[phase |-> n, from |-> "seed"]}
  ELSE {[phase |-> n, from |-> "dice"], [phase |-> n, from |-> "otherDice"]}

\* readDraft: the key in storage, or a new one that is not stored yet.
ReadDraft(kept, n) == IF kept[n] # None THEN {kept[n]} ELSE Makes(n)

forgetOldDrafts(kept, n) == [m \in Phase |-> IF m < n THEN None ELSE kept[m]]

open == window # "shut"

\* What seatState tells this seat.
SeatState == [phaseIndex  |-> phaseIndex,
              graceUntil  |-> deadline,
              revealOpen  |-> open,
              youRevealed |-> revealed,
              youLocked   |-> envelope # None]

\* Mutant of Summary: the window left out of the fingerprint.
SummaryWithoutWindow == [phaseIndex |-> phaseIndex, revealOpen |-> FALSE,
                         deadline   |-> deadline,   locked     |-> envelope # None]

\* The part of the public summary the page takes a fingerprint of.
Summary == [phaseIndex |-> phaseIndex,
            revealOpen |-> open,
            deadline   |-> deadline,
            locked     |-> envelope # None]

Screens == [phaseIndex  : Phase,
            graceUntil  : 0..MaxMoves,
            revealOpen  : BOOLEAN,
            youRevealed : BOOLEAN,
            youLocked   : BOOLEAN]

Summaries == [phaseIndex : Phase,
              revealOpen : BOOLEAN,
              deadline   : 0..MaxMoves,
              locked     : BOOLEAN]

Envelopes == [phase : Phase, key : Key]

Requests ==
  [kind : {"unlock"}, awaited : BOOLEAN]
    \cup [kind : {"lock"}, envelope : Envelopes, awaited : BOOLEAN]
    \cup [kind : {"reveal"}, key : Key, awaited : BOOLEAN]

Answers == [kind : {"poll", "frame", "timer", "lock", "unlock", "reveal", "cancelled"},
            state : Screens]

\* The values a page, its server and the line between them can take.
PageTypeOK ==
  /\ phaseIndex \in Phase
  /\ window \in {"shut", "committed", "deadline"}
  /\ deadline \in 0..MaxMoves
  /\ passed \in BOOLEAN
  /\ envelope \in Envelopes \cup {None}
  /\ revealed \in BOOLEAN
  /\ received \subseteq Key
  /\ state \in Screens \cup {None}
  /\ ran \in (BOOLEAN \X BOOLEAN) \cup {None}
  /\ draftPhase \in Phase \cup {-1}
  /\ draft \in Key \cup {None}
  /\ stored \in [Phase -> Key \cup {None}]
  /\ fingerprint \in Summaries \cup {None}
  /\ {live, told, armed} \subseteq BOOLEAN
  /\ asked \subseteq Requests
  /\ answers \in Seq(Answers)
  /\ trouble \in 0..MaxTrouble

-------------------------------------------------------------------------------

Init ==
  /\ phaseIndex = 0
  /\ window = "shut"
  /\ deadline = 0
  /\ passed = FALSE
  /\ revealed = FALSE
  /\ received = {}
  /\ envelope = None
  /\ stored = [n \in Phase |-> None]
  /\ state = None
  /\ ran = None
  /\ draftPhase = -1
  /\ draft = None
  /\ fingerprint = None
  /\ live = FALSE
  /\ told = FALSE
  /\ armed = FALSE
  /\ asked = {}
  /\ answers = <<>>
  /\ trouble = 0

-------------------------------------------------------------------------------
(* What the server does by itself.  persist publishes a frame. *)

\* Another seat locks in, which opens the window if it was the last or if the
\* deadline has passed.
OthersCommit ==
  /\ ~open
  /\ IF passed THEN window' = "deadline"
     ELSE envelope # None /\ window' = "committed"
  /\ told' = live
  /\ UNCHANGED <<phaseIndex, deadline, passed, envelope, revealed, received, screenVars,
                 fingerprint, live, armed, netVars>>

\* The deadline and its grace run out, with somebody locked in or nobody.
\* Nothing is written, so no frame: the page has set a timer.
DeadlinePasses ==
  /\ ~passed
  /\ passed' = TRUE
  /\ \/ window' = IF open THEN window ELSE "deadline"
     \/ envelope = None /\ UNCHANGED window
  /\ UNCHANGED <<phaseIndex, deadline, envelope, revealed, received, screenVars,
                 linkVars, netVars>>

\* handleGMExtend: a window the deadline opened is shut again.
Extend ==
  /\ MayMove
  /\ deadline' = deadline + 1
  /\ passed' = FALSE
  /\ window' = IF window = "deadline" THEN "shut" ELSE window
  /\ told' = live
  /\ UNCHANGED <<phaseIndex, envelope, revealed, received, screenVars,
                 fingerprint, live, armed, netVars>>

\* advance, as this seat finds it.
Advance ==
  /\ phaseIndex' = phaseIndex + 1
  /\ window' = "shut"
  /\ passed' = FALSE
  /\ envelope' = None
  /\ revealed' = FALSE

\* The last other reveal, or a force.
OthersResolve ==
  /\ MayMove
  /\ open \/ passed
  /\ Advance
  /\ told' = live
  /\ UNCHANGED <<deadline, received, screenVars, fingerprint, live, armed, netVars>>

-------------------------------------------------------------------------------
(* What the server does with a request of this phone. *)

Answered(request) ==
  /\ asked' = asked \ {request}
  /\ answers' = IF request.awaited
                THEN Append(answers, [kind |-> request.kind, state |-> SeatState'])
                ELSE answers

Served(request) == Answered(request) /\ told' = live

Refused(request) ==
  /\ asked' = asked \ {request}
  /\ UNCHANGED <<answers, told>>

\* handleSeatCommit.  This may be the lock the others were waiting for.
ServeLock(request) ==
  /\ request.kind = "lock"
  /\ UNCHANGED <<phaseIndex, deadline, passed, received>>
  /\ IF open
     THEN Refused(request) /\ UNCHANGED <<window, envelope, revealed>>
     ELSE /\ envelope' = request.envelope
          /\ revealed' = FALSE
          /\ window' \in IF passed THEN {"deadline"} ELSE {"shut", "committed"}
          /\ Served(request)

\* handleSeatUncommit.
ServeUnlock(request) ==
  /\ request.kind = "unlock"
  /\ UNCHANGED <<phaseIndex, window, deadline, passed, received>>
  /\ IF open
     THEN Refused(request) /\ UNCHANGED <<envelope, revealed>>
     ELSE /\ envelope' = None
          /\ revealed' = FALSE
          /\ Served(request)

\* handleSeatReveal.  This may be the reveal the others were waiting for.
ServeReveal(request) ==
  LET opens == envelope = [phase |-> phaseIndex, key |-> request.key]
  IN /\ request.kind = "reveal"
     /\ UNCHANGED deadline
     /\ received' = received \cup {request.key}
     /\ \/ /\ ~open \/ envelope = None \/ (~revealed /\ ~opens)
           /\ Refused(request)
           /\ UNCHANGED <<phaseIndex, window, passed, envelope, revealed>>
        \/ /\ open /\ envelope # None /\ revealed
           /\ UNCHANGED <<phaseIndex, window, passed, envelope, revealed, told>>
           /\ Answered(request)
        \/ /\ open /\ ~revealed /\ opens
           /\ revealed' = TRUE
           /\ UNCHANGED <<phaseIndex, window, passed, envelope>>
           /\ Served(request)
        \/ /\ open /\ ~revealed /\ opens
           /\ MayMove
           /\ Advance
           /\ Served(request)

Room == Len(answers) < MaxAnswers

Serve(kind) ==
  /\ Room
  /\ \E request \in asked :
       /\ request.kind = kind
       /\ \/ ServeLock(request)
          \/ ServeUnlock(request)
          \/ ServeReveal(request)
  /\ UNCHANGED <<screenVars, fingerprint, live, armed, trouble>>

-------------------------------------------------------------------------------
(* The page. *)

\* The effect's cleanup: no answer to the key it sent will be looked at.
Cancelled ==
  {IF m.kind = "reveal" THEN [m EXCEPT !.awaited = FALSE] ELSE m : m \in asked}

\* The answers to the keys it sent before come for nothing.
Unheard(list) ==
  [n \in DOMAIN list |-> IF list[n].kind = "reveal" THEN [list[n] EXCEPT !.kind = "cancelled"]
                         ELSE list[n]]

\* Mutant of Asks: the effect does not look whether the window is open.
AsksEarly(next, key) ==
  IF next.youRevealed THEN {} ELSE {[kind |-> "reveal", key |-> key, awaited |-> TRUE]}

\* The key goes up when the screen shows an open window and no reveal of ours.
Asks(next, key) ==
  IF next.revealOpen /\ ~next.youRevealed
  THEN {[kind |-> "reveal", key |-> key, awaited |-> TRUE]}
  ELSE {}

\* Mutant of Effect: nothing is sent on the first render.
EffectSkipsFirst(next, key, rest) ==
  LET deps == <<next.revealOpen, next.youRevealed>>
  IN /\ ran' = deps
     /\ IF ran \in {None, deps}
        THEN answers' = rest /\ UNCHANGED asked
        ELSE answers' = Unheard(rest) /\ asked' = Cancelled \cup Asks(next, key)

(***************************************************************************)
(* The effect that releases the key.  It depends on revealOpen and         *)
(* youRevealed alone, so a render that changes neither does not run it.    *)
(***************************************************************************)
Effect(next, key, rest) ==
  LET deps == <<next.revealOpen, next.youRevealed>>
  IN IF ran = deps
     THEN /\ answers' = rest
          /\ UNCHANGED <<ran, asked>>
     ELSE /\ ran' = deps
          /\ answers' = Unheard(rest)
          /\ asked' = Cancelled \cup Asks(next, key)

\* takeState and the render after it.
TakeState(next, rest) ==
  /\ \E key \in IF draftPhase = next.phaseIndex THEN {draft}
                 ELSE ReadDraft(stored, next.phaseIndex) :
       /\ draft' = key
       /\ Effect(next, key, rest)
  /\ state' = next
  /\ draftPhase' = next.phaseIndex
  /\ stored' = IF draftPhase = next.phaseIndex THEN stored
               ELSE forgetOldDrafts(stored, next.phaseIndex)

\* useRefreshAt sets its timer anew when the screen shows another moment.
Rearms(next) ==
  \/ state = None
  \/ <<state.phaseIndex, state.graceUntil>> # <<next.phaseIndex, next.graceUntil>>

Receive ==
  /\ answers # <<>>
  /\ Head(answers).kind # "cancelled"
  /\ TakeState(Head(answers).state, Tail(answers))
  /\ armed' = (armed \/ (live /\ Rearms(Head(answers).state)))
  /\ UNCHANGED <<serverVars, fingerprint, live, told, trouble>>

\* An answer that nobody waits for any more.
Ignore ==
  /\ answers # <<>>
  /\ Head(answers).kind = "cancelled"
  /\ answers' = Tail(answers)
  /\ UNCHANGED <<serverVars, screenVars, linkVars, asked, trouble>>

Read(kind) == Room /\ answers' = Append(answers, [kind |-> kind, state |-> SeatState])

\* usePoll: the summary first, and the state only when its fingerprint moved.
\* The read of a page just loaded is the first of these.
Poll ==
  /\ ~live
  /\ Summary # fingerprint
  /\ fingerprint' = Summary
  /\ Read("poll")
  /\ UNCHANGED <<serverVars, screenVars, live, told, armed, asked, trouble>>

\* useGameEvents: one read at a time, once more for frames that came meanwhile.
ReadOnFrame ==
  /\ live
  /\ told
  /\ told' = FALSE
  /\ \A n \in DOMAIN answers : answers[n].kind # "frame"
  /\ Read("frame")
  /\ UNCHANGED <<serverVars, screenVars, fingerprint, live, armed, asked, trouble>>

\* useRefreshAt: one read, when the moment the screen shows has come.
TimerFires ==
  /\ armed
  /\ passed \/ Rearms(SeatState)
  /\ armed' = FALSE
  /\ Read("timer")
  /\ UNCHANGED <<serverVars, screenVars, fingerprint, live, told, asked, trouble>>

\* The socket comes up, or up again; the server's first frame is a resync.
Connect ==
  /\ ~live
  /\ live' = TRUE
  /\ told' = TRUE
  /\ armed' = (state # None)
  /\ UNCHANGED <<serverVars, screenVars, fingerprint, netVars>>

\* The lock button, one tap at a time: it is off while the window is open.
ToggleLock ==
  /\ state # None
  /\ ~state.revealOpen
  /\ \A m \in asked \cup ToSet(answers) : m.kind \notin {"lock", "unlock"}
  /\ asked' = asked \cup
       {IF state.youLocked
        THEN [kind |-> "unlock", awaited |-> TRUE]
        ELSE [kind |-> "lock", awaited |-> TRUE,
              envelope |-> [phase |-> draftPhase, key |-> draft]]}
  /\ UNCHANGED <<serverVars, screenVars, linkVars, answers, trouble>>

\* writeOrder: the first order of a phase puts its draft in storage.
WriteOrder ==
  /\ state # None
  /\ stored[draftPhase] # draft
  /\ stored' = [stored EXCEPT ![draftPhase] = draft]
  /\ UNCHANGED <<serverVars, state, ran, draftPhase, draft, linkVars, netVars>>

-------------------------------------------------------------------------------
(* Trouble. *)

LoseRequest ==
  /\ \E request \in asked : asked' = asked \ {request}
  /\ UNCHANGED <<serverVars, screenVars, linkVars, answers>>

\* The socket is down, or given up after reads that failed.
Down == live' = FALSE /\ told' = FALSE /\ armed' = FALSE

\* An answer that does not arrive.  The read a frame asked for is tried again,
\* or the socket is given up; no other request is repeated.
LoseAnswer ==
  /\ \E n \in DOMAIN answers :
       /\ answers' = RemoveAt(answers, n)
       /\ IF answers[n].kind # "frame" \/ ~live THEN UNCHANGED <<live, told, armed>>
          ELSE (told' = TRUE /\ UNCHANGED <<live, armed>>) \/ Down
  /\ UNCHANGED <<serverVars, screenVars, fingerprint, asked>>

\* An answer is overtaken by the one after it.
Overtake ==
  /\ Len(answers) > 1
  /\ answers' = <<answers[2], answers[1]>> \o SubSeq(answers, 3, Len(answers))
  /\ UNCHANGED <<serverVars, screenVars, linkVars, asked>>

Disconnect ==
  /\ live
  /\ Down
  /\ UNCHANGED <<serverVars, screenVars, fingerprint, asked, answers>>

\* The page is loaded again; what the old one sent may still reach the server.
Reload ==
  /\ state' = None
  /\ ran' = None
  /\ draftPhase' = -1
  /\ draft' = None
  /\ fingerprint' = None
  /\ Down
  /\ asked' = {[m EXCEPT !.awaited = FALSE] : m \in asked}
  /\ answers' = <<>>
  /\ UNCHANGED <<serverVars, stored>>

Trouble ==
  /\ trouble < MaxTrouble
  /\ trouble' = trouble + 1
  /\ LoseRequest \/ LoseAnswer \/ Overtake \/ Disconnect \/ Reload

-------------------------------------------------------------------------------

RequestKinds == {"lock", "unlock", "reveal"}

Next ==
  \/ OthersCommit
  \/ DeadlinePasses
  \/ Extend
  \/ OthersResolve
  \/ \E kind \in RequestKinds : Serve(kind)
  \/ Receive
  \/ Ignore
  \/ Poll
  \/ ReadOnFrame
  \/ TimerFires
  \/ Connect
  \/ ToggleLock
  \/ WriteOrder
  \/ Trouble

Spec == Init /\ [][Next]_pageVars

\* The page keeps its timers and the network delivers what trouble spares.
Fairness ==
  /\ WF_pageVars(Poll)
  /\ WF_pageVars(ReadOnFrame)
  /\ WF_pageVars(TimerFires)
  /\ \A kind \in RequestKinds : WF_pageVars(Serve(kind))
  /\ WF_pageVars(Receive)
  /\ WF_pageVars(Ignore)

LiveSpec == Spec /\ Fairness

-------------------------------------------------------------------------------
(* Properties *)

\* The keys a page on the running phase works with, or would after a reload.
Held == IF draftPhase = phaseIndex THEN {draft} ELSE ReadDraft(stored, phaseIndex)

\* The window waits for a key this phone has.
Owes ==
  /\ open
  /\ ~revealed
  /\ envelope # None
  /\ \A key \in Held : envelope = [phase |-> phaseIndex, key |-> key]

\* flow.go, "the only thing the server holds about a power's orders until the
\* reveal, and it holds no key to it": while the window is shut, no key to an
\* envelope of the running phase has ever reached the server.
NoKeyBeforehand ==
  envelope # None /\ ~open /\ envelope.phase = phaseIndex => envelope.key \notin received

\* The same as long as the game master moves no deadline: a page never releases
\* a key early, whatever it reads, in whatever order, after whatever reload.
NoKeyHeld == deadline = 0 => NoKeyBeforehand

\* ADR-009, no player presses anything: as long as nothing is lost and no deadline
\* is moved, a phone that holds the key releases it once the window is open.  (A
\* moved deadline shuts the window, and if it is open again before the page has
\* read it shut, the effect sees no change.)
Undisturbed == trouble = 0 /\ deadline = 0

ReleasesByItself ==
  Owes /\ Undisturbed ~> ~Owes \/ ~Undisturbed

\* A reload is enough to unstick a phone, however it got stuck.
ReloadUnsticks ==
  Owes /\ state = None /\ trouble = MaxTrouble ~> ~Owes

\* sealed.ts, a key that cannot be derived is kept beside the draft: while the
\* phone's envelope of the running phase is at the server, the phone has its key.
KeyIsKept ==
  envelope # None /\ envelope.phase = phaseIndex => \A key \in Held : key = envelope.key

\* ADR-009, waking the phone or a socket that reconnects is enough: once the
\* network is back, a phone that is owed for releases.
WakingUnsticks ==
  Owes /\ trouble = MaxTrouble ~> ~Owes
===============================================================================
