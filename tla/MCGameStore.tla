------------------------------ MODULE MCGameStore ------------------------------
(***************************************************************************)
(* A small table and its database for TLC.                                 *)
(***************************************************************************)
EXTENDS GameStore, TLC

CONSTANTS hold

MCLists == {(1 :> hold @@ 2 :> NoOrder), (1 :> hold @@ 2 :> Refused)}

\* One province, for the run in which a cascade gives up on a running phase.
MCShortLists == {(1 :> hold), (1 :> Refused)}

Seats == Permutations(Power)
===============================================================================
