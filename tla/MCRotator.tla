----------------------------- MODULE MCRotator -----------------------------
(* Small instances of Rotator for TLC.                                     *)
EXTENDS Rotator, TLC

CONSTANTS a, b, c

\* a and b have the same names: a pod and its successor, or a stale entry.
MCRank == (a :> 1) @@ (b :> 1) @@ (c :> 2)
=============================================================================
