--------------------------- MODULE SealedGameRefines ---------------------------
(***************************************************************************)
(* SealedGame, under a game master who leaves the clock alone while a      *)
(* window is open, implements CommitReveal: an envelope is the sheet, a    *)
(* reveal shows it, and the watch history is what was played.              *)
(***************************************************************************)
EXTENDS SealedGame

playedOrders ==
  [n \in 0..(EndPhase - 1) |-> IF watch[n] = Unplayed THEN Unplayed ELSE watch[n].orders]

Promise ==
  INSTANCE CommitReveal WITH
    Player <- Power,
    Sheet <- Lists,
    NoSheet <- NoEnvelope,
    Nothing <- NoDraft,
    Rounds <- EndPhase,
    sheet <- sealed,
    shown <- {p \in Power : revealed[p]},
    round <- phaseIndex,
    played <- playedOrders

\* The commit-reveal protocol of handleSeatCommit, handleSeatReveal and advance
\* keeps ADR-004's promise: no sheet changes once one is shown, and every phase
\* plays exactly the sheets that were shown in it.  Holds under SteadySpec only.
KeepsPromise == Promise!Spec
===============================================================================
