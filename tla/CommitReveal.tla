----------------------------- MODULE CommitReveal -----------------------------
(***************************************************************************)
(* What ADR-004 promises the table, with no server, clock or lock in it:   *)
(* a player's sheet may be written, replaced or torn up only while nobody  *)
(* has shown theirs, and what a round plays for a player is the sheet the  *)
(* player had then, whole and unaltered, or nothing.                       *)
(***************************************************************************)
EXTENDS Integers

CONSTANTS
  Player,
  Sheet,      \* what a player may commit to
  NoSheet,    \* no commitment
  Nothing,    \* what is played for a player who did not show
  Unplayed,
  Rounds      \* how many rounds a game has at most

VARIABLES
  sheet,      \* the commitment of each player this round
  shown,      \* the players who have shown theirs
  round,
  played      \* what every past round played

abstractVars == <<sheet, shown, round, played>>

Init ==
  /\ sheet = [p \in Player |-> NoSheet]
  /\ shown = {}
  /\ round = 0
  /\ played = [n \in 0..(Rounds - 1) |-> Unplayed]

Choose(p) ==
  /\ shown = {}
  /\ \E s \in Sheet \cup {NoSheet} : sheet' = [sheet EXCEPT ![p] = s]
  /\ UNCHANGED <<shown, round, played>>

Show(p) ==
  /\ sheet[p] # NoSheet
  /\ shown' = shown \cup {p}
  /\ UNCHANGED <<sheet, round, played>>

\* The last sheets may be shown as the round is played.  Rounds that ask
\* nobody for a sheet may pass with it.
Play ==
  \E finally \in SUBSET Player, next \in 1..Rounds :
    /\ shown \subseteq finally
    /\ \A p \in finally : sheet[p] # NoSheet
    /\ round < next
    /\ round' = next
    /\ played' = [n \in 0..(Rounds - 1) |->
                  IF n \in round..(next - 1)
                  THEN [p \in Player |-> IF n = round /\ p \in finally THEN sheet[p]
                                         ELSE Nothing]
                  ELSE played[n]]
    /\ sheet' = [p \in Player |-> NoSheet]
    /\ shown' = {}

Next == Play \/ \E p \in Player : Choose(p) \/ Show(p)

Spec == Init /\ [][Next]_abstractVars
===============================================================================
