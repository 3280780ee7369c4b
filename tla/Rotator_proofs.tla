--------------------------- MODULE Rotator_proofs ---------------------------
(***************************************************************************)
(* Proofs about the rotation, for any number of targets, any batch size    *)
(* and any limit of failures, with the index changing at any time and the  *)
(* writes of failCounts racing as they do.                                 *)
(***************************************************************************)
EXTENDS Rotator, TLAPS

(* Streams run only inside a batch (a crash freezes them), for targets     *)
(* that are not covered.                                                   *)
Quiet == pc \notin {"batch", "crashed"} => \A t \in Targets : strm[t] = "off"
Apart == \A t \in Targets : strm[t] # "off" => t \notin covered

(* A target that was streamed in this cycle is being streamed or covered,  *)
(* and one that is being streamed was counted once.                        *)
Counted ==
  \A t \in Targets : /\ visits[t] > 0 => t \in covered \/ strm[t] # "off"
                     /\ strm[t] # "off" => visits[t] = 1

RotInv == /\ TypeOK /\ Quiet /\ Apart /\ Counted
          /\ CoveredWasServed /\ OncePerCycle

Rest == Quiet /\ Apart /\ Counted /\ CoveredWasServed /\ OncePerCycle

LEMMA RotInit == Init => RotInv
<1> SUFFICES ASSUME Init PROVE RotInv
  OBVIOUS
<1>1. TypeOK
  <2>1. 0 \in 0 .. MaxBatchFailures
    BY RotatorAssumption
  <2> QED BY <2>1 DEF Init, TypeOK, StreamStates
<1>2. Quiet /\ Apart /\ Counted /\ CoveredWasServed /\ OncePerCycle
  BY DEF Init, Quiet, Apart, Counted, CoveredWasServed, OncePerCycle
<1> QED BY <1>1, <1>2 DEF RotInv

LEMMA TypeStep ==
  ASSUME TypeOK, [Next]_vars
  PROVE  TypeOK'
<1> USE RotatorAssumption DEF TypeOK, envVars, mapVars, hisVars, StreamStates
<1>1. ASSUME RunStep PROVE TypeOK'
  <2>1. CASE Stop \/ NoTargets \/ Wake \/ SleepCancelled
    BY <2>1 DEF Stop, NoTargets, Wake, SleepCancelled
  <2>2. CASE CycleComplete
    BY <2>2 DEF CycleComplete, Sleep
  <2>3. CASE Launch
    <3>1. PICK B \in Batches :
            /\ strm' = [t \in Targets |-> IF t \in B THEN "open" ELSE "off"]
            /\ visits' = [t \in Targets |-> (IF t \in index THEN visits[t] ELSE 0)
                                            + (IF t \in B THEN 1 ELSE 0)]
      BY <2>3 DEF Launch
    <3>2. \A t \in Targets : (IF t \in index THEN visits[t] ELSE 0)
                              + (IF t \in B THEN 1 ELSE 0) \in Nat
      OBVIOUS
    <3>3. visits' \in [Targets -> Nat] /\ strm' \in [Targets -> StreamStates]
      BY <3>1, <3>2
    <3>4. covered' \subseteq Targets
      BY <2>3 DEF Launch, Pruned, TooManyFailures
    <3> QED BY <2>3, <3>3, <3>4 DEF Launch
  <2>4. CASE BatchDone
    BY <2>4 DEF BatchDone, Sleep
  <2> QED BY <1>1, <2>1, <2>2, <2>3, <2>4 DEF RunStep
<1>2. ASSUME Expire \/ Crash \/ Cancel PROVE TypeOK'
  BY <1>2 DEF Expire, Crash, Cancel
<1>3. ASSUME NEW t \in Targets, StreamCut(t) \/ StreamEof(t) PROVE TypeOK'
  BY <1>3 DEF StreamCut, StreamEof
<1>4. ASSUME NEW t \in Targets, StreamFails(t) PROVE TypeOK'
  <2>1. consec[t] # MaxBatchFailures => consec[t] + 1 \in 0 .. MaxBatchFailures
    OBVIOUS
  <2>2. consec' \in [Targets -> 0 .. MaxBatchFailures]
    BY <1>4, <2>1 DEF StreamFails
  <2> QED BY <1>4, <2>2 DEF StreamFails
<1>5. ASSUME NEW t \in Targets, BumpBegin(t) PROVE TypeOK'
  BY <1>5 DEF BumpBegin, EnterMap
<1>6. ASSUME NEW t \in Targets, Clear(t) PROVE TypeOK'
  <2>1. 0 \in 0 .. MaxBatchFailures
    OBVIOUS
  <2>2. /\ consec' = [consec EXCEPT ![t] = 0] /\ visits' = visits
        /\ strm' = [strm EXCEPT ![t] = "done"] \/ strm' = [strm EXCEPT ![t] = "clearing"]
        /\ clash' \in BOOLEAN /\ failCounts' = failCounts
        /\ UNCHANGED <<envVars, pc, covered, expired>>
    BY <1>6 DEF Clear, EnterMap
  <2> QED BY <2>1, <2>2
<1>7. ASSUME NEW t \in Targets, BumpEnd(t) PROVE TypeOK'
  BY <1>7 DEF BumpEnd, LeaveMap
<1>8. ASSUME NEW t \in Targets, ClearEnd(t) PROVE TypeOK'
  BY <1>8 DEF ClearEnd, LeaveMap
<1>9. ASSUME NEW t \in Targets, Appear(t) \/ Vanish(t) PROVE TypeOK'
  BY <1>9 DEF Appear, Vanish
<1>10. ASSUME UNCHANGED vars PROVE TypeOK'
  BY <1>10 DEF vars
<1> QED
  BY <1>1, <1>2, <1>3, <1>4, <1>5, <1>6, <1>7, <1>8, <1>9, <1>10
  DEF Next, GoStep

(* A step that only moves a running goroutine inside its batch, and writes *)
(* at most the counter of that goroutine's target.                         *)
LEMMA GoroutineStep ==
  ASSUME RotInv, NEW t \in Targets, strm[t] # "off", pc = "batch",
         NEW s \in StreamStates, s # "off",
         strm' = [strm EXCEPT ![t] = s],
         \A u \in Targets : u # t => failCounts'[u] = failCounts[u],
         UNCHANGED <<pc, covered, visits>>
  PROVE  Rest'
<1> USE DEF RotInv, TypeOK
<1>1. \A u \in Targets : (strm'[u] = "off") <=> (strm[u] = "off")
  OBVIOUS
<1>2. Quiet' /\ Apart' /\ Counted' /\ OncePerCycle'
  BY <1>1 DEF Quiet, Apart, Counted, OncePerCycle
<1>3. CoveredWasServed'
  BY DEF CoveredWasServed, Apart
<1> QED BY <1>2, <1>3 DEF Rest

LEMMA RestStep ==
  ASSUME RotInv, [Next]_vars
  PROVE  Rest'
<1> USE RotatorAssumption DEF envVars, mapVars, hisVars
<1>r. TypeOK /\ Rest
  BY DEF RotInv, Rest
<1>1. ASSUME Stop \/ NoTargets \/ Wake \/ SleepCancelled PROVE Rest'
  BY <1>r, <1>1 DEF Stop, NoTargets, Wake, SleepCancelled, Rest, Quiet, Apart,
     Counted, CoveredWasServed, OncePerCycle
<1>2. ASSUME CycleComplete PROVE Rest'
  <2>1. pc \notin {"batch", "crashed"}
    BY <1>2 DEF CycleComplete
  <2> QED BY <1>r, <1>2, <2>1 DEF CycleComplete, Sleep, TypeOK, Rest, Quiet,
          Apart, Counted, CoveredWasServed, OncePerCycle
<1>3. ASSUME Launch PROVE Rest'
  <2>1. PICK B \in Batches :
          /\ strm' = [t \in Targets |-> IF t \in B THEN "open" ELSE "off"]
          /\ visits' = [t \in Targets |-> (IF t \in index THEN visits[t] ELSE 0)
                                          + (IF t \in B THEN 1 ELSE 0)]
    BY <1>3 DEF Launch
  <2>2. B \subseteq index /\ B \cap Pruned = {} /\ B \cap TooManyFailures = {}
    BY DEF Batches, Uncovered
  <2>3. \A t \in Targets : strm[t] = "off"
    BY <1>r, <1>3 DEF Launch, Rest, Quiet
  <2>4. covered' = Pruned \cup TooManyFailures /\ pc' = "batch"
        /\ failCounts' = failCounts
    BY <1>3 DEF Launch
  <2>5. \A t \in index : visits[t] > 0 => t \in Pruned
    BY <1>r, <2>3 DEF TypeOK, Rest, Counted, Pruned
  <2>6. \A t \in B : visits[t] = 0 /\ visits'[t] = 1
    BY <1>r, <2>1, <2>2, <2>5 DEF TypeOK
  <2>7. \A t \in Targets \ B :
          visits'[t] = IF t \in index THEN visits[t] ELSE 0
    BY <1>r, <2>1 DEF TypeOK
  <2>8. Quiet' /\ Apart'
    BY <1>r, <2>1, <2>2, <2>4 DEF TypeOK, Quiet, Apart
  <2>9. Counted'
    BY <1>r, <2>1, <2>4, <2>5, <2>6, <2>7 DEF TypeOK, Counted
  <2>10. CoveredWasServed'
    <3>1. ASSUME NEW t \in covered'
          PROVE  visits'[t] > 0 \/ failCounts'[t] >= MaxBatchFailures
      <4>1. CASE t \in Pruned
        <5>1. t \in covered /\ t \in index /\ t \in Targets /\ t \notin B
          BY <1>r, <2>2, <4>1 DEF Pruned, TypeOK
        <5> QED BY <1>r, <2>4, <2>7, <5>1 DEF Rest, CoveredWasServed
      <4>2. CASE t \in TooManyFailures
        BY <2>4, <4>2 DEF TooManyFailures
      <4> QED BY <2>4, <3>1, <4>1, <4>2
    <3> QED BY <3>1 DEF CoveredWasServed
  <2>11. OncePerCycle'
    <3>1. \A t \in Targets : visits'[t] = 1 \/ visits'[t] = visits[t] \/ visits'[t] = 0
      BY <2>6, <2>7
    <3>2. \A t \in Targets : visits[t] <= 1
      BY <1>r DEF Rest, OncePerCycle
    <3>3. \A t \in Targets : visits'[t] <= 1
      BY <3>1, <3>2
    <3> QED BY <3>3 DEF OncePerCycle
  <2> QED BY <2>8, <2>9, <2>10, <2>11 DEF Rest
<1>4. ASSUME BatchDone PROVE Rest'
  <2>1. /\ covered' = covered \cup {t \in Targets : strm[t] = "done"}
        /\ strm' = [t \in Targets |-> "off"]
        /\ \A t \in Targets : strm[t] \in {"off", "done"}
        /\ visits' = visits /\ failCounts' = failCounts
    BY <1>4 DEF BatchDone
  <2>2. Quiet' /\ Apart' /\ OncePerCycle'
    BY <1>r, <2>1 DEF Rest, Quiet, Apart, OncePerCycle
  <2>3. Counted'
    BY <1>r, <2>1 DEF TypeOK, Rest, Counted
  <2>4. CoveredWasServed'
    BY <1>r, <2>1 DEF TypeOK, Rest, Counted, CoveredWasServed
  <2> QED BY <2>2, <2>3, <2>4 DEF Rest
<1>5. ASSUME Expire \/ Cancel PROVE Rest'
  BY <1>r, <1>5 DEF Expire, Cancel, Rest, Quiet, Apart, Counted,
     CoveredWasServed, OncePerCycle
<1>6. ASSUME Crash PROVE Rest'
  BY <1>r, <1>6 DEF Crash, Rest, Quiet, Apart, Counted, CoveredWasServed,
     OncePerCycle
<1>7. ASSUME NEW t \in Targets, Appear(t) \/ Vanish(t) PROVE Rest'
  BY <1>r, <1>7 DEF Appear, Vanish, Rest, Quiet, Apart, Counted,
     CoveredWasServed, OncePerCycle
<1>8. ASSUME NEW t \in Targets, StreamCut(t) \/ StreamEof(t) PROVE Rest'
  BY <1>8, GoroutineStep DEF StreamCut, StreamEof, StreamStates
<1>9. ASSUME NEW t \in Targets, StreamFails(t) PROVE Rest'
  BY <1>9, GoroutineStep DEF StreamFails, StreamStates
<1>10. ASSUME NEW t \in Targets, BumpBegin(t) PROVE Rest'
  BY <1>10, GoroutineStep DEF BumpBegin, EnterMap, StreamStates
<1>11. ASSUME NEW t \in Targets, Clear(t) PROVE Rest'
  BY <1>11, GoroutineStep DEF Clear, EnterMap, StreamStates
<1>12. ASSUME NEW t \in Targets, NEW n \in Nat, pc = "batch", strm[t] # "off",
              LeaveMap(t, n)
       PROVE  Rest'
  <2>1. \A u \in Targets : u # t => failCounts'[u] = failCounts[u]
    BY <1>r, <1>12 DEF TypeOK, LeaveMap
  <2>2. "done" \in StreamStates /\ strm' = [strm EXCEPT ![t] = "done"]
        /\ UNCHANGED <<pc, covered, visits>>
    BY <1>12 DEF LeaveMap, StreamStates
  <2> QED BY <1>12, <2>1, <2>2, GoroutineStep
<1>13. ASSUME NEW t \in Targets, BumpEnd(t) \/ ClearEnd(t) PROVE Rest'
  <2>1. failCounts[t] + 1 \in Nat /\ 0 \in Nat
    BY <1>r DEF TypeOK
  <2> QED BY <1>12, <1>13, <2>1 DEF BumpEnd, ClearEnd
<1>14. ASSUME UNCHANGED vars PROVE Rest'
  BY <1>r, <1>14 DEF vars, Rest, Quiet, Apart, Counted, CoveredWasServed,
     OncePerCycle
<1> QED
  BY <1>1, <1>2, <1>3, <1>4, <1>5, <1>6, <1>7, <1>8, <1>9, <1>10, <1>11,
     <1>13, <1>14 DEF Next, RunStep, GoStep

LEMMA RotStep == RotInv /\ [Next]_vars => RotInv'
  BY TypeStep, RestStep DEF RotInv, Rest

(* Every reachable state has the declared types.                           *)
THEOREM TypeCorrect == Spec => []TypeOK
<1>1. RotInv => TypeOK
  BY DEF RotInv
<1> QED BY RotInit, RotStep, <1>1, PTL DEF Spec

(* Coverage means service: whatever the index does, a covered target was   *)
(* streamed in this cycle or has reached the limit of failures.            *)
THEOREM CoverageIsService == Spec => []CoveredWasServed
<1>1. RotInv => CoveredWasServed
  BY DEF RotInv
<1> QED BY RotInit, RotStep, <1>1, PTL DEF Spec

(* No target gets two windows in one cycle.                                *)
THEOREM OneWindowPerCycle == Spec => []OncePerCycle
<1>1. RotInv => OncePerCycle
  BY DEF RotInv
<1> QED BY RotInit, RotStep, <1>1, PTL DEF Spec

(* A cycle never ends with a live target that was neither streamed nor     *)
(* skipped for its failures.                                               *)
THEOREM CyclesCoverAll == Spec => CycleCoversAll
<1>1. ASSUME RotInv, CycleComplete, NEW t \in index
      PROVE  visits[t] = 1 \/ failCounts[t] >= MaxBatchFailures
  <2>1. t \in covered \/ failCounts[t] >= MaxBatchFailures
    BY <1>1 DEF CycleComplete, Uncovered, Pruned, TooManyFailures
  <2>2. visits[t] \in Nat /\ visits[t] <= 1
    BY <1>1 DEF RotInv, TypeOK, OncePerCycle
  <2> QED BY <1>1, <2>1, <2>2 DEF RotInv, CoveredWasServed
<1>2. RotInv /\ [Next]_vars =>
        [CycleComplete => \A t \in index : \/ visits[t] = 1
                                           \/ failCounts[t] >= MaxBatchFailures]_vars
  BY <1>1
<1> QED BY RotInit, RotStep, <1>2, PTL DEF Spec, CycleCoversAll
=============================================================================
