------------------------------ MODULE Rotator ------------------------------
(***************************************************************************)
(* The rotational watch loop (internal/kube/rotator.go): Rotator.Run picks *)
(* batches of uncovered targets from the live index until every live       *)
(* target is covered, then starts the next cycle; runBatch follows the     *)
(* logs of a batch, one goroutine per target, for one window.              *)
(*                                                                         *)
(* The index is the environment: targets appear and vanish at any time,    *)
(* the rotator sees them when it takes a snapshot.  What a stream reads is *)
(* in FollowStream; here it ends cleanly, fails, or is cut by the context. *)
(*                                                                         *)
(* The goroutines of a batch write the map failCounts without a lock.  A   *)
(* write is two steps here, and two writes that overlap are undefined: the *)
(* Go runtime may stop the process (fatal error: concurrent map writes),   *)
(* and a write may get lost.                                               *)
(***************************************************************************)
EXTENDS Naturals, FiniteSets

CONSTANTS
  Targets,          \* TargetKeys
  Rank,             \* position in the order (namespace, pod name, container)
  BatchSize,        \* RotatorConfig.BatchSize
  MaxBatchFailures, \* RotatorConfig.MaxBatchFailures
  Pauses            \* RotatorConfig.CyclePause > 0

ASSUME RotatorAssumption ==
  /\ IsFiniteSet(Targets)
  /\ Rank \in [Targets -> Nat]
  /\ BatchSize \in Nat \ {0}
  /\ MaxBatchFailures \in Nat \ {0}
  /\ Pauses \in BOOLEAN

VARIABLES
  index,        \* the targets TargetIndex.Snapshot would return
  cancelled,    \* ctx of Run is done
  pc,           \* Run: top, batch, sleep, returned; or the process crashed
  covered,      \* Rotator.covered
  failCounts,   \* Rotator.failCounts, 0 for a key that is not in the map
  strm,         \* the goroutine of each target of the batch
  expired,      \* the window of the batch is over
  clash,        \* writes of failCounts have overlapped
  visits,       \* streams of a target in this cycle (history)
  consec        \* batch failures of a target in a row (history)

envVars == <<index, cancelled>>
mapVars == <<failCounts, clash>>
hisVars == <<visits, consec>>
vars == <<envVars, pc, covered, mapVars, strm, expired, hisVars>>

StreamStates == {"off",       \* no goroutine
                 "open",      \* inside StreamOneFollow
                 "err",       \* it returned an error
                 "nil",       \* it returned nil
                 "bumping",   \* inside failCounts[key]++
                 "clearing",  \* inside delete(failCounts, key)
                 "done"}      \* wg.Done

Init ==
  /\ index \in SUBSET Targets
  /\ cancelled = FALSE
  /\ pc = "top"
  /\ covered = {}
  /\ failCounts = [t \in Targets |-> 0]
  /\ strm = [t \in Targets |-> "off"]
  /\ expired = FALSE
  /\ clash = FALSE
  /\ visits = [t \in Targets |-> 0]
  /\ consec = [t \in Targets |-> 0]

-----------------------------------------------------------------------------
(* The environment.                                                        *)

Appear(t) ==
  /\ t \notin index
  /\ index' = index \cup {t}
  /\ UNCHANGED <<cancelled, pc, covered, mapVars, strm, expired, hisVars>>

Vanish(t) ==
  /\ t \in index
  /\ index' = index \ {t}
  /\ UNCHANGED <<cancelled, pc, covered, mapVars, strm, expired, hisVars>>

\* SIGINT or SIGTERM.
Cancel ==
  /\ ~cancelled
  /\ cancelled' = TRUE
  /\ UNCHANGED <<index, pc, covered, mapVars, strm, expired, hisVars>>

-----------------------------------------------------------------------------
(* Rotator.Run.                                                            *)

\* Coverage without the targets that have disappeared.
Pruned == covered \cap index

\* Targets that failed too often: covered without being streamed.
TooManyFailures == {t \in index \ Pruned : failCounts[t] >= MaxBatchFailures}

Uncovered == index \ (Pruned \cup TooManyFailures)

\* The first BatchSize of the uncovered targets; sort.Slice may put targets
\* with the same names in any order.
Batches ==
  {B \in SUBSET Uncovered :
     /\ Cardinality(B) = IF BatchSize > Cardinality(Uncovered)
                         THEN Cardinality(Uncovered) ELSE BatchSize
     /\ \A b \in B, u \in Uncovered \ B : Rank[b] <= Rank[u]}

Sleep == pc' = IF Pauses THEN "sleep" ELSE "top"

\* Mutant of Stop: the context is looked at between two cycles only.
StopBetweenCycles ==
  /\ pc = "top"
  /\ cancelled
  /\ Uncovered = {}
  /\ pc' = "returned"
  /\ UNCHANGED <<envVars, covered, mapVars, strm, expired, hisVars>>

\* ctx.Err() != nil at the top of the loop.
Stop ==
  /\ pc = "top"
  /\ cancelled
  /\ pc' = "returned"
  /\ UNCHANGED <<envVars, covered, mapVars, strm, expired, hisVars>>

\* No live targets: sleep for two seconds, the coverage is not pruned.
NoTargets ==
  /\ pc = "top"
  /\ ~cancelled
  /\ index = {}
  /\ pc' = "sleep"
  /\ UNCHANGED <<envVars, covered, mapVars, strm, expired, hisVars>>

\* Mutant of CycleComplete: the first batch ends the cycle.
CycleTooEarly ==
  /\ pc = "top"
  /\ ~cancelled
  /\ index # {}
  /\ Pruned # {}
  /\ covered' = {}
  /\ failCounts' = [t \in Targets |-> 0]
  /\ clash' = FALSE
  /\ Sleep
  /\ visits' = [t \in Targets |-> 0]
  /\ UNCHANGED <<envVars, strm, expired, consec>>

\* Every live target is covered: start the next cycle.
CycleComplete ==
  /\ pc = "top"
  /\ ~cancelled
  /\ index # {}
  /\ Uncovered = {}
  /\ covered' = {}
  /\ failCounts' = [t \in Targets |-> 0]
  /\ clash' = FALSE
  /\ Sleep
  /\ visits' = [t \in Targets |-> 0]
  /\ UNCHANGED <<envVars, strm, expired, consec>>

\* Pick a batch and start its goroutines under a fresh window.
Launch ==
  /\ pc = "top"
  /\ ~cancelled
  /\ Uncovered # {}
  /\ covered' = Pruned \cup TooManyFailures
  /\ \E B \in Batches :
       /\ strm' = [t \in Targets |-> IF t \in B THEN "open" ELSE "off"]
       /\ visits' = [t \in Targets |-> (IF t \in index THEN visits[t] ELSE 0)
                                       + (IF t \in B THEN 1 ELSE 0)]
  /\ expired' = FALSE
  /\ pc' = "batch"
  /\ UNCHANGED <<envVars, mapVars, consec>>

\* Mutants of BatchDone: the batch is not covered; everything is.
BatchNotCovered ==
  /\ pc = "batch"
  /\ \A t \in Targets : strm[t] \in {"off", "done"}
  /\ strm' = [t \in Targets |-> "off"]
  /\ Sleep
  /\ UNCHANGED <<envVars, covered, mapVars, expired, hisVars>>

BatchCoversAll ==
  /\ pc = "batch"
  /\ \A t \in Targets : strm[t] \in {"off", "done"}
  /\ covered' = covered \cup index
  /\ strm' = [t \in Targets |-> "off"]
  /\ Sleep
  /\ UNCHANGED <<envVars, mapVars, expired, hisVars>>

\* wg.Wait returns; the batch is covered whether or not its streams failed.
BatchDone ==
  /\ pc = "batch"
  /\ \A t \in Targets : strm[t] \in {"off", "done"}
  /\ covered' = covered \cup {t \in Targets : strm[t] = "done"}
  /\ strm' = [t \in Targets |-> "off"]
  /\ Sleep
  /\ UNCHANGED <<envVars, mapVars, expired, hisVars>>

\* sleep: the timer fires, or ctx is done; when both are ready either may win.
Wake ==
  /\ pc = "sleep"
  /\ pc' = "top"
  /\ UNCHANGED <<envVars, covered, mapVars, strm, expired, hisVars>>

SleepCancelled ==
  /\ pc = "sleep"
  /\ cancelled
  /\ pc' = "returned"
  /\ UNCHANGED <<envVars, covered, mapVars, strm, expired, hisVars>>

-----------------------------------------------------------------------------
(* The goroutines of runBatch.                                             *)

BatchCtxDone == expired \/ cancelled

Expire ==
  /\ pc = "batch"
  /\ ~expired
  /\ expired' = TRUE
  /\ UNCHANGED <<envVars, pc, covered, mapVars, strm, hisVars>>

\* StreamOneFollow returns nil: the container's log ended.
StreamEof(t) ==
  /\ pc = "batch"
  /\ strm[t] = "open"
  /\ ~BatchCtxDone
  /\ strm' = [strm EXCEPT ![t] = "nil"]
  /\ UNCHANGED <<envVars, pc, covered, mapVars, expired, hisVars>>

\* StreamOneFollow returns nil: batchCtx is done.
StreamCut(t) ==
  /\ pc = "batch"
  /\ strm[t] = "open"
  /\ BatchCtxDone
  /\ strm' = [strm EXCEPT ![t] = "nil"]
  /\ UNCHANGED <<envVars, pc, covered, mapVars, expired, hisVars>>

\* StreamOneFollow returns an error: the open or the scan failed.
StreamFails(t) ==
  /\ pc = "batch"
  /\ strm[t] = "open"
  /\ ~BatchCtxDone
  /\ strm' = [strm EXCEPT ![t] = "err"]
  /\ consec' = [consec EXCEPT ![t] =
                  IF @ = MaxBatchFailures THEN @ ELSE @ + 1]
  /\ UNCHANGED <<envVars, pc, covered, mapVars, expired, visits>>

Writers == {t \in Targets : strm[t] \in {"bumping", "clearing"}}

\* A goroutine enters a write of failCounts.
EnterMap(t, inside) ==
  /\ strm' = [strm EXCEPT ![t] = inside]
  /\ clash' = (clash \/ Writers # {})
  /\ UNCHANGED <<envVars, pc, covered, failCounts, expired>>

\* It leaves it; a write that overlapped another one may be lost.
LeaveMap(t, count) ==
  /\ strm' = [strm EXCEPT ![t] = "done"]
  /\ \/ failCounts' = [failCounts EXCEPT ![t] = count]
     \/ clash /\ UNCHANGED failCounts
  /\ clash' = (clash /\ Writers # {t})
  /\ UNCHANGED <<envVars, pc, covered, expired, hisVars>>

\* failCounts[key]++
BumpBegin(t) ==
  /\ pc = "batch"
  /\ strm[t] = "err"
  /\ EnterMap(t, "bumping")
  /\ UNCHANGED hisVars

BumpEnd(t) ==
  /\ pc = "batch"
  /\ strm[t] = "bumping"
  /\ LeaveMap(t, failCounts[t] + 1)

\* delete(failCounts, key): the runtime writes nothing into an empty map.
Clear(t) ==
  /\ pc = "batch"
  /\ strm[t] = "nil"
  /\ consec' = [consec EXCEPT ![t] = 0]
  /\ IF \A u \in Targets : failCounts[u] = 0
     THEN /\ strm' = [strm EXCEPT ![t] = "done"]
          /\ UNCHANGED <<envVars, pc, covered, mapVars, expired, visits>>
     ELSE EnterMap(t, "clearing") /\ UNCHANGED visits

\* Mutant of ClearEnd: the failure count is lowered instead of removed.
ClearLowers(t) ==
  /\ pc = "batch"
  /\ strm[t] = "clearing"
  /\ LeaveMap(t, failCounts[t] - 1)

ClearEnd(t) ==
  /\ pc = "batch"
  /\ strm[t] = "clearing"
  /\ LeaveMap(t, 0)

\* The runtime notices that two goroutines write the map: the process ends.
Crash ==
  /\ pc = "batch"
  /\ clash
  /\ pc' = "crashed"
  /\ UNCHANGED <<envVars, covered, mapVars, strm, expired, hisVars>>

-----------------------------------------------------------------------------
RunStep == \/ Stop \/ NoTargets \/ CycleComplete \/ Launch \/ BatchDone
           \/ Wake \/ SleepCancelled

GoStep(t) == StreamCut(t) \/ BumpBegin(t) \/ BumpEnd(t) \/ Clear(t) \/ ClearEnd(t)

Next ==
  \/ RunStep \/ Expire \/ Crash \/ Cancel
  \/ \E t \in Targets : \/ GoStep(t) \/ StreamEof(t) \/ StreamFails(t)
                        \/ Appear(t) \/ Vanish(t)

Spec == Init /\ [][Next]_vars

\* The scheduler runs Run and the goroutines, timers fire, and a stream under
\* a context that is done returns.  Nothing forces an end of the log, an
\* error, a change of the index, a signal or a crash.
FairSpec ==
  /\ Spec
  /\ WF_vars(RunStep)
  /\ WF_vars(Expire)
  /\ \A t \in Targets : WF_vars(GoStep(t))

-----------------------------------------------------------------------------
TypeOK ==
  /\ index \subseteq Targets
  /\ cancelled \in BOOLEAN
  /\ pc \in {"top", "batch", "sleep", "returned", "crashed"}
  /\ covered \subseteq Targets
  /\ failCounts \in [Targets -> Nat]
  /\ strm \in [Targets -> StreamStates]
  /\ expired \in BOOLEAN
  /\ clash \in BOOLEAN
  /\ visits \in [Targets -> Nat]
  /\ consec \in [Targets -> 0 .. MaxBatchFailures]

(* A target stays covered only if it has been streamed in this cycle, or   *)
(* its failures have reached the limit.                                    *)
CoveredWasServed ==
  \A t \in covered : visits[t] > 0 \/ failCounts[t] >= MaxBatchFailures

(* "Per-target observation per cycle is fixed at one --watch-window": no   *)
(* target is streamed twice in a cycle, as long as the rotator did not see *)
(* it missing in between.                                                  *)
OncePerCycle == \A t \in Targets : visits[t] <= 1

(* A cycle ends only when every target that is live at that moment has     *)
(* been streamed in it or was skipped for its failures.                    *)
CycleCoversAll ==
  [][CycleComplete => \A t \in index : \/ visits[t] = 1
                                       \/ failCounts[t] >= MaxBatchFailures]_vars

Ended == pc \in {"returned", "crashed"}
Stays(t) == <>[](t \in index)

(* "A recurring leak is caught within at most one cycle": a target that    *)
(* stays in the index is followed again and again, however often it fails, *)
(* if from some moment on no target appears, whatever vanishes and         *)
(* whichever streams fail or end.  If only those behind it in the order    *)
(* appear they do not keep it from its turn: it is streamed, or skipped    *)
(* for its failures, and at most the next cycle does not come.  Those in   *)
(* front of it may fill every batch.  All this until the program is        *)
(* stopped, or the unsynchronised map kills it.                            *)
TurnComes ==
  \A t \in Targets : Stays(t) =>
    /\ <>[][index' \subseteq index]_index =>
         []<>(strm[t] = "open") \/ <>Ended
    /\ <>[][\A u \in index' \ index : Rank[u] > Rank[t]]_index =>
         []<>(t \in covered \/ strm[t] = "open") \/ <>Ended

(* Run returns after the signal, from wherever it is.                      *)
CancelEndsRun == cancelled ~> Ended

(* "Watch mode exits only on signal."                                      *)
NeverCrashes == pc # "crashed"

(* "After this many consecutive batch failures for a single target, skip   *)
(* it for one cycle": no stream is opened to such a target.                *)
ConsecutiveFailuresSkipped ==
  [][\A t \in Targets :
       strm[t] = "off" /\ strm'[t] = "open" => consec[t] < MaxBatchFailures]_vars
=============================================================================
