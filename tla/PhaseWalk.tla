------------------------------- MODULE PhaseWalk -------------------------------
(***************************************************************************)
(* The spectator's page: one phase of one game, walked by buttons, arrow   *)
(* keys and the browser's history (web/src/pages/WatchPage.tsx;            *)
(* internal/server/watch.go).                                              *)
(*                                                                         *)
(* The address is the state.  Reads are not ordered: whatever is answered  *)
(* last is what the page holds, so the count it walks by may be older than *)
(* the one it had.                                                         *)
(***************************************************************************)
EXTENDS Integers, FiniteSets

CONSTANTS Unread,      \* no answer of the feed yet
          LastPhase,   \* bound: the phases a game reaches
          MaxAsks      \* bound: reads on their way

ASSUME WalkAssumption == LastPhase \in Nat /\ MaxAsks \in Nat

Live == -1             \* the address without a phase

VARIABLES live,       \* the server's phase index
          at,         \* the phase the address names
          asked,      \* the address last read for
          watch,      \* WatchPage.watch: which phase it is, and the count then
          missing,    \* feedMissing: the page speaks from the public summary
          reading,    \* reads on their way
          trail,      \* addresses in the tab's history
          blind       \* history: a step was taken with no count in hand

walkVars == <<live, at, asked, watch, missing, reading, trail, blind>>

(***************************************************************************)
(* The server: the phase that is played, or one that was.                  *)
(***************************************************************************)
advanceWatch == live < LastPhase /\ live' = live + 1
                /\ UNCHANGED <<at, asked, watch, missing, reading, trail, blind>>

watchState(want) ==
  LET of == IF want = Live THEN live ELSE want
  IN IF of > live THEN {} ELSE {[of |-> of, count |-> live + 1, current |-> of = live]}

\* A feed that is not served, or a phase that does not exist yet, is refused.
handleWatch(r) ==
  /\ r.said = Unread
  /\ \E served \in BOOLEAN :
       LET said == IF served THEN watchState(r.want) ELSE {}
       IN reading' = (reading \ {r}) \cup
            {[r EXCEPT !.said = IF said = {} THEN [of |-> Live] ELSE CHOOSE w \in said : TRUE]}
  /\ UNCHANGED <<live, at, asked, watch, missing, trail, blind>>

(***************************************************************************)
(* The page's reads.                                                       *)
(***************************************************************************)
Read(want) ==
  /\ Cardinality(reading) < MaxAsks
  /\ reading' = reading \cup {[want |-> want, said |-> Unread]}

\* Only the live phase moves under the viewer.
poll == at = Live /\ Read(at) /\ UNCHANGED <<live, at, asked, watch, missing, trail, blind>>

\* Any refusal falls back to the public summary, which carries no count; a
\* summary that fails too leaves an error.
read(r) ==
  /\ r.said # Unread /\ reading' = reading \ {r}
  /\ IF r.said.of # Live THEN watch' = r.said /\ missing' = FALSE
     ELSE missing' \in {missing, TRUE} /\ UNCHANGED watch
  /\ UNCHANGED <<live, at, asked, trail, blind>>

(***************************************************************************)
(* Walking.                                                                *)
(***************************************************************************)
liveIndex == IF watch = Unread THEN Live ELSE watch.count - 1

\* The address changed: it is read for, once.
Stand(next) ==
  /\ at' = next /\ asked' = next
  /\ IF asked = next THEN UNCHANGED reading ELSE Read(next)

go(next) == Stand(next) /\ trail' = trail \cup {next} /\ blind' = (blind \/ watch = Unread)
            /\ UNCHANGED <<live, watch, missing>>
onPop == \E next \in trail : Stand(next) /\ UNCHANGED <<live, watch, missing, trail, blind>>

\* The phases to step back to, none at the first.
prevTo ==
  IF at = Live THEN {i \in 0..LastPhase : liveIndex # Live /\ i = liveIndex - 1}
  ELSE {i \in 0..LastPhase : i = at - 1}

\* Mutant of nextTo: the count taken for the index of the live phase.
PastTheCount(i) == IF liveIndex # Live /\ i + 1 > liveIndex THEN Live ELSE i + 1
\* Stepping past the last resolved phase returns to Live.
nextTo(i) == IF liveIndex # Live /\ i + 1 >= liveIndex THEN Live ELSE i + 1

Earlier == \E i \in prevTo : go(i)
Later == at # Live /\ at <= LastPhase /\ go(nextTo(at))   \* the bound on a walk without a count

\* What the page draws: a phase that was played with its orders, read through
\* the review's plan; the live one with none.
historical == at # Live
Drawn == IF watch = Unread THEN "blank"
         ELSE IF historical /\ ~watch.current THEN "orders" ELSE "position"

\* A link, opened on the live phase or on one that was played; on the live
\* one it is the feed's own beat that reads first.
WalkInit ==
  /\ live \in 0..LastPhase
  /\ at \in {Live} \cup 0..(live - 1) /\ asked = at
  /\ reading = IF at = Live THEN {} ELSE {[want |-> at, said |-> Unread]}
  /\ watch = Unread /\ missing = FALSE /\ trail = {at} /\ blind = FALSE

WalkNext ==
  \/ advanceWatch \/ poll \/ Earlier \/ Later \/ onPop
  \/ \E r \in reading : handleWatch(r) \/ read(r)

WalkSpec == WalkInit /\ [][WalkNext]_walkVars

(***************************************************************************)
(* Properties.                                                             *)
(***************************************************************************)
\* WatchPage.tsx prevTo and nextTo: stepping forward past the last phase that
\* was played returns to Live rather than asking for the live phase by number,
\* whichever answer the page holds and however far the game has gone since;
\* only a step taken before any answer may.  And whatever is drawn with its
\* orders is a phase that has been played.
WalkStaysBehind ==
  /\ ~blind => at = Live \/ at < live
  /\ Drawn = "orders" => watch.of < live
================================================================================
