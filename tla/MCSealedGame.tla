----------------------------- MODULE MCSealedGame -----------------------------
(***************************************************************************)
(* A small table for TLC: each power may order two provinces, one order    *)
(* for each, and seals one of three lists.                                 *)
(***************************************************************************)
EXTENDS SealedGameRefines, TLC

CONSTANTS hold

MCLists == {(1 :> hold @@ 2 :> NoOrder),
            (1 :> NoOrder @@ 2 :> hold),
            (1 :> hold @@ 2 :> Refused)}

\* One province and two lists, for the run that checks liveness.
MCShortLists == {(1 :> hold), (1 :> Refused)}

Seats == Permutations(Power)
===============================================================================
