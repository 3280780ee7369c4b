------------------------------- MODULE Dedup -------------------------------
(***************************************************************************)
(* What kl-scan promises about dedup keys across the lifetimes of all      *)
(* the processes that share one state file, without saying how.            *)
(*                                                                         *)
(* A key <podUID>|<detector>|<ruleID>|<sha256(value)> is first recorded,   *)
(* then reported, and it is reported at most once.  A record of a finding  *)
(* that nobody has reported yet may be forgotten (the machine loses its    *)
(* power before the fsync); a record of a reported finding may not.        *)
(***************************************************************************)
EXTENDS Naturals

CONSTANT Keys

VARIABLES
  recorded,     \* the keys a process that starts now would know
  reports       \* how often each key has been handed to the sink

vars == <<recorded, reports>>

Init == /\ recorded = {}
        /\ reports = [k \in Keys |-> 0]

Record(k) == /\ k \notin recorded
             /\ recorded' = recorded \cup {k}
             /\ UNCHANGED reports

\* Only records of findings that were never reported can be lost.
Forget == /\ recorded' \in SUBSET recorded
          /\ \A k \in recorded \ recorded' : reports[k] = 0
          /\ UNCHANGED reports

Report(k) == /\ k \in recorded
             /\ reports[k] = 0
             /\ reports' = [reports EXCEPT ![k] = 1]
             /\ UNCHANGED recorded

Next == \/ \E k \in Keys : Record(k) \/ Report(k)
        \/ Forget

Spec == Init /\ [][Next]_vars
=============================================================================
