------------------------------ MODULE PhaseClock ------------------------------
(***************************************************************************)
(* The deadline (internal/server/deadline.go and its callers in            *)
(* adjudicate.go, gm.go, result.go) and the countdown on a screen          *)
(* (web/src/clock.ts, components/Clock.tsx, the clock card and the clock   *)
(* fields of pages/GmPage.tsx).  Time is in whole minutes.                 *)
(*                                                                         *)
(* The server's clock is the one that counts.  A screen measures its       *)
(* countdown against its own clock corrected by the last answer, and that  *)
(* clock may be wrong, and may be set while the page is open.              *)
(***************************************************************************)
EXTENDS Integers, FiniteSets

CONSTANTS Entered,      \* the clock fields as they may be typed
          Extensions,   \* the minutes as the master may type them
          Skews,        \* how far off the device's own clock may be
          MaxTime,      \* bound: the time
          MaxLent,      \* bound: the minutes added since the last reset
          MaxClockReads \* bound: state reads on their way

ASSUME ClockAssumption ==
  /\ Entered # {} /\ Entered \subseteq [minutes : Int, percent : Int, grace : Int, extra : Int]
  /\ Extensions \subseteq Int /\ Skews \subseteq Int
  /\ MaxTime \in Nat /\ MaxLent \in Nat /\ MaxClockReads \in Nat

VARIABLES now,       \* the server's time
          phase,     \* the phase on the board: [first, kind, rules, deadline, started, over]
          began,     \* history: when the clock was last reset, and the minutes added since
          device,    \* the device's clock against the server's; set since the last answer
          screen,    \* what the page knows: [offset, known, deadline]
          clockReads \* state reads on their way

clockVars == <<now, phase, began, device, screen, clockReads>>

NoClock == -1
Least(a, b) == IF a < b THEN a ELSE b
Most(a, b) == IF a > b THEN a ELSE b

(***************************************************************************)
(* The fields, as the page posts them and the server takes them.           *)
(***************************************************************************)
Posted(form) ==
  [minutes |-> Most(0, form.minutes), percent |-> Most(1, Least(100, form.percent)),
   grace |-> Most(0, form.grace), extra |-> Most(0, form.extra)]
ClockRules == {Posted(form) : form \in Entered}

phaseMinutes(p) ==
  IF p.rules.minutes = 0 THEN 0
  ELSE LET base == IF p.kind = "Movement" THEN p.rules.minutes
                   ELSE Most(1, (p.rules.minutes * p.rules.percent + 99) \div 100)
       IN base + (IF p.first /\ p.kind = "Movement" THEN p.rules.extra ELSE 0)

\* Mutant of Length: what was left is all the next phase gets.
CarryAlone(period, carry) == IF carry > 0 THEN carry ELSE period
\* Anti-rush: a phase that resolved early shortens nobody's next turn.
Length(period, carry) ==
  IF carry > 0 /\ carry < period THEN carry + period ELSE IF carry > 0 THEN carry ELSE period

resetDeadline(p, carry) ==
  /\ phase' = [p EXCEPT !.deadline = IF phaseMinutes(p) = 0 THEN NoClock
                                     ELSE now + Length(phaseMinutes(p), carry)]
  /\ began' = [at |-> now, lent |-> IF carry > 0 THEN began.lent ELSE 0]

remaining == IF phase.deadline = NoClock THEN 0 ELSE Most(0, phase.deadline - now)

graceEndsAt == IF phase.deadline = NoClock THEN NoClock ELSE phase.deadline + phase.rules.grace

(***************************************************************************)
(* The server.                                                             *)
(***************************************************************************)
Running == phase.started /\ ~phase.over

StartClock == ~phase.started /\ resetDeadline([phase EXCEPT !.started = TRUE], 0)

\* The phase resolves, and the next is on the board.  A cascade of phases in
\* which nobody has an order to give is this step again, at the same time.
advance(forced) ==
  /\ Running
  /\ \/ \E kind \in {"Movement", "Retreat"} :     \* an adjustment's clock is a retreat's
          resetDeadline([phase EXCEPT !.first = FALSE, !.kind = kind],
                        IF forced THEN 0 ELSE remaining)
     \/ /\ phase' = [phase EXCEPT !.over = TRUE, !.deadline = NoClock]     \* endGame
        /\ UNCHANGED began

\* A force waits for the grace, or for nothing where a reveal is awaited.
handleGMForce(revealing) ==
  /\ revealing \/ (phase.deadline # NoClock /\ now > graceEndsAt)
  /\ advance(TRUE)

handleGMExtend(minutes) ==
  /\ ~phase.over /\ minutes >= 1 /\ began.lent + minutes <= MaxLent
  /\ phase' = [phase EXCEPT !.deadline = Most(now, @) + minutes]
  /\ began' = [began EXCEPT !.lent = @ + minutes]
\* The page never asks for less than a minute.
onExtend(typed) == handleGMExtend(Most(1, typed))

\* A change of the clock takes effect on the phase now running; one of the
\* grace does too, and moves no deadline.
ClockSettings(rules) ==
  /\ rules # phase.rules
  /\ IF Running /\ [rules EXCEPT !.grace = 0] # [phase.rules EXCEPT !.grace = 0]
     THEN resetDeadline([phase EXCEPT !.rules = rules], 0)
     ELSE phase' = [phase EXCEPT !.rules = rules] /\ UNCHANGED began

Server == /\ \/ StartClock \/ advance(FALSE) \/ \E typed \in Extensions : onExtend(typed)
             \/ \E revealing \in BOOLEAN : handleGMForce(revealing)
             \/ \E rules \in ClockRules : ClockSettings(rules)
          /\ UNCHANGED <<now, device, screen, clockReads>>

Minute == now < MaxTime /\ now' = now + 1 /\ UNCHANGED <<phase, began, device, screen, clockReads>>

(***************************************************************************)
(* The screen.                                                             *)
(***************************************************************************)
DateNow == now + device.skew
serverNow == DateNow + screen.offset
msLeft == screen.deadline - serverNow
clockTone == IF screen.deadline = NoClock THEN "calm" ELSE IF msLeft <= 0 THEN "over" ELSE "low"

ReadClock ==
  /\ Cardinality(clockReads) < MaxClockReads
  /\ clockReads' = clockReads \cup {[said |-> now, deadline |-> phase.deadline]}
  /\ UNCHANGED <<now, phase, began, device, screen>>

\* Mutant of noteServerTime: the first answer sets the clock once and for all.
FirstAnswerOnly(at) == IF screen.known THEN screen.offset ELSE at - DateNow
noteServerTime(at) == at - DateNow

TakeClock(answer) ==
  /\ clockReads' = clockReads \ {answer}
  /\ screen' = [offset |-> noteServerTime(answer.said), known |-> TRUE,
                deadline |-> answer.deadline]
  /\ device' = [device EXCEPT !.set = FALSE]
  /\ UNCHANGED <<now, phase, began>>

\* The device's clock is put right, or wrong, while the page is open.
SetClock ==
  /\ \E s \in Skews \ {device.skew} : device' = [skew |-> s, set |-> TRUE]
  /\ UNCHANGED <<now, phase, began, screen, clockReads>>

ClockInit ==
  /\ now = 0
  /\ \E rules \in ClockRules :
       phase = [first |-> TRUE, kind |-> "Movement", rules |-> rules, deadline |-> NoClock,
                started |-> FALSE, over |-> FALSE]
  /\ began = [at |-> 0, lent |-> 0]
  /\ \E s \in Skews : device = [skew |-> s, set |-> FALSE]
  /\ screen = [offset |-> 0, known |-> FALSE, deadline |-> NoClock]
  /\ clockReads = {}

ClockNext ==
  \/ Server \/ Minute \/ ReadClock \/ SetClock
  \/ \E answer \in clockReads : TakeClock(answer)

ClockSpec == ClockInit /\ [][ClockNext]_clockVars

(***************************************************************************)
(* Properties.                                                             *)
(***************************************************************************)
\* resetDeadline's "both are at least T": whatever resolved early, was forced
\* or had its clock changed before it, the phase on the board has its whole
\* period from where its clock was reset; and however many phases resolved
\* early in a row, what they carry on stays under two of the longest periods,
\* beside what the game master has added.
EveryTurnItsClock ==
  Running /\ phaseMinutes(phase) > 0 =>
    /\ phase.deadline >= began.at + phaseMinutes(phase)
    /\ \E longest \in ClockRules :
         phase.deadline - now < began.lent + 2 * (longest.minutes + longest.extra)

\* clock.ts, Clock.tsx: a screen says that the deadline it knows has passed
\* only when it has on the server, however slow its answers were and in
\* whatever order they came, and whatever its own clock says; a clock set
\* while the page is open misleads it until the next answer and no longer.
NobodyIsToldEarly ==
  ~device.set /\ clockTone = "over" => now >= screen.deadline
================================================================================
