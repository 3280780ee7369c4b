---------------------------- MODULE MCStateStore ----------------------------
(* Small instances of StateStore for TLC.                                  *)
EXTENDS StateStore, TLC

CONSTANTS p1, p2, t1, t2, t3, k1, k2, k3

\* The first process has two workers, the second one.
MCProcOf == (t1 :> p1) @@ (t2 :> p1) @@ (t3 :> p2)

\* Keys are alike, and so are the two workers of the first process.
MCSymmetry == Permutations(Keys) \cup Permutations({t1, t2})
=============================================================================
