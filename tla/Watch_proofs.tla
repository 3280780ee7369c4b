---------------------------- MODULE Watch_proofs ----------------------------
(***************************************************************************)
(* Proofs about the life of a watch process, for any pods, capacity of the *)
(* channel and number of lines and findings, with and without a sweep and  *)
(* a heartbeat.                                                            *)
(***************************************************************************)
EXTENDS Watch, TLAPS

USE WatchAssumption

\* The phases in which no line has been read yet, those in which no stream and
\* those in which no worker is left.
Early == {"setup", "open", "index", "sync", "wait"}
NoStreams == {"swept", "closing", "draining", "informer", "final", "exit"}
NoWorkers == {"swept", "informer", "final", "exit"}

\* What main has waited for in each phase.
PhaseInv ==
  /\ main \in Early => sender = "off" /\ pipe = "off" /\ total = 0
  /\ main \in NoStreams => sender # "on"
  /\ main \in NoWorkers => pipe # "on"
  /\ main \in NoStreams \ {"swept", "exit"} => sender = "gone"
  /\ main \in {"informer", "final"} => pipe = "gone"
  /\ main \notin {"setup", "open", "exit"} => storeOpen
  /\ shown # NoCode => main \in {"final", "exit"} /\ pipe = "gone" /\ shown = total
  /\ exit # NoCode => main = "exit"

\* What the phases ensure.
WatchInv == /\ TypeOK /\ NoSendOnClosed /\ PhaseInv /\ FinalSummaryIsComplete

(* Before set-up nothing runs.                                             *)
LEMMA WatchInit == Init => WatchInv
<1> USE DEF Init, NoCode, ExitClean, ExitFindings, ExitError, ExitPartial
<1>1. Init => TypeOK
  BY DEF TypeOK, MainStates
<1>2. Init => PhaseInv
  BY DEF PhaseInv, Early, NoStreams, NoWorkers
<1>3. Init => NoSendOnClosed /\ FinalSummaryIsComplete
  BY DEF NoSendOnClosed, FinalSummaryIsComplete
<1> QED BY <1>1, <1>2, <1>3 DEF WatchInv

(* The steps of the goroutines beside main.                                *)
LEMMA OthersKeep ==
  ASSUME WatchInv, OthersStep \/ Signal
  PROVE  WatchInv'
<1> USE DEF WatchInv, TypeOK, NoSendOnClosed, PhaseInv, FinalSummaryIsComplete,
            Early, NoStreams, NoWorkers, MainStates,
            NoCode, ExitClean, ExitFindings, ExitError, ExitPartial,
            indexVars, flowVars, heartVars
<1>1. CASE Signal
  BY <1>1 DEF Signal
<1>2. CASE Synced
  BY <1>2 DEF Synced
<1>3. CASE InformerReturns
  BY <1>3 DEF InformerReturns
<1>4. CASE SendLine
  BY <1>4 DEF SendLine
<1>5. CASE StreamError
  BY <1>5 DEF StreamError
<1>6. CASE SenderReturns
  BY <1>6 DEF SenderReturns
<1>7. CASE Inspect
  <2>1. /\ pipe = "on" /\ chan > 0
        /\ chan' = chan - 1
        /\ UNCHANGED <<main, storeOpen, index, sender, closed, pipe, sentLines,
                       heart, beat, interim, shown, exit>>
    BY <1>7 DEF Inspect
  <2>2. PICK n \in 0 .. MaxNew : total' = total + n
    BY <1>7 DEF Inspect
  <2>3. /\ chan \in 0 .. Cap /\ Cap \in Nat /\ total \in Nat /\ n \in Nat
        /\ beat \in Nat /\ beat <= total
    BY <2>2
  <2>4. chan' \in 0 .. Cap /\ total' \in Nat /\ beat \in 0 .. total'
    BY <2>1, <2>2, <2>3
  <2>5. shown = NoCode /\ main \notin Early /\ main \notin NoWorkers
    BY <2>1
  <2> QED BY <2>1, <2>4, <2>5
<1>8. CASE PipelineReturns
  BY <1>8 DEF PipelineReturns
<1>9. CASE Tick
  BY <1>9 DEF Tick
<1>10. CASE Interim
  BY <1>10 DEF Interim
<1>11. CASE HeartStops
  BY <1>11 DEF HeartStops
<1>12. ASSUME NEW p \in Pods, Indexed(p) PROVE WatchInv'
  BY <1>12 DEF Indexed
<1> QED BY <1>1, <1>2, <1>3, <1>4, <1>5, <1>6, <1>7, <1>8, <1>9, <1>10, <1>11, <1>12
        DEF OthersStep

(* The steps of main: each phase starts when the one before has ended.     *)
LEMMA MainKeeps ==
  ASSUME WatchInv, MainStep
  PROVE  WatchInv'
<1> USE DEF WatchInv, TypeOK, NoSendOnClosed, PhaseInv, FinalSummaryIsComplete,
            Early, NoStreams, NoWorkers, MainStates,
            NoCode, ExitClean, ExitFindings, ExitError, ExitPartial,
            mainRest, indexVars, flowVars, heartVars
<1>1. CASE SetupFails \/ SignalWhileWaiting \/ SyncTimeout
  <2>1. /\ main \in Early /\ shown = NoCode
        /\ main' = "exit" /\ storeOpen' = FALSE /\ exit' \in {ExitClean, ExitError}
        /\ UNCHANGED <<mainRest, indexVars>>
    BY <1>1 DEF SetupFails, SignalWhileWaiting, SyncTimeout, Return
  <2> QED BY <2>1
<1>2. CASE Setup \/ OpenStore \/ StartInformer
  BY <1>2 DEF Setup, OpenStore, StartInformer
<1>3. CASE TakeInitial \/ GiveUpWaiting
  BY <1>3 DEF TakeInitial, GiveUpWaiting
<1>4. CASE SweepStarts
  BY <1>4 DEF SweepStarts
<1>5. CASE SweepCloses \/ SweepEnds
  BY <1>5 DEF SweepCloses, SweepEnds
<1>6. CASE Rotate
  BY <1>6 DEF Rotate
<1>7. CASE Stop \/ RotatorStopped
  BY <1>7 DEF Stop, RotatorStopped
<1>8. CASE CloseLines \/ PipelineStopped \/ InformerStopped
  BY <1>8 DEF CloseLines, PipelineStopped, InformerStopped
<1>9. CASE FinalSummary
  BY <1>9 DEF FinalSummary
<1>10. CASE Exit
  <2>1. /\ main = "final" /\ shown = total /\ shown # NoCode
        /\ main' = "exit" /\ storeOpen' = FALSE
        /\ exit' \in {ExitClean, ExitFindings, ExitPartial}
        /\ exit' # ExitPartial => ((exit' = ExitFindings) <=> (shown > 0))
        /\ UNCHANGED <<mainRest, indexVars>>
    BY <1>10 DEF Exit, Return
  <2> QED BY <2>1
<1> QED BY <1>1, <1>2, <1>3, <1>4, <1>5, <1>6, <1>7, <1>8, <1>9, <1>10 DEF MainStep

(* Stuttering changes nothing.                                             *)
LEMMA WatchStep == WatchInv /\ [Next]_vars => WatchInv'
<1> SUFFICES ASSUME WatchInv, [Next]_vars PROVE WatchInv'
  OBVIOUS
<1>1. CASE MainStep
  BY <1>1, MainKeeps
<1>2. CASE OthersStep \/ Signal
  BY <1>2, OthersKeep
<1>3. CASE UNCHANGED vars
  BY <1>3 DEF vars, indexVars, flowVars, heartVars, WatchInv, TypeOK, NoSendOnClosed,
              PhaseInv, FinalSummaryIsComplete
<1> QED BY <1>1, <1>2, <1>3 DEF Next

(* In every state main has waited for what its phase needs.                *)
THEOREM WatchInvariant == Spec => []WatchInv
  BY WatchInit, WatchStep, PTL DEF Spec

(* The variables keep their types.                                         *)
THEOREM TypeCorrect == Spec => []TypeOK
<1>1. WatchInv => TypeOK
  BY DEF WatchInv
<1> QED BY <1>1, WatchInvariant, PTL

(* Neither the sweep nor the shutdown closes a channel under its streams.  *)
THEOREM ClosedBehindSenders == Spec => []NoSendOnClosed
<1>1. WatchInv => NoSendOnClosed
  BY DEF WatchInv
<1> QED BY <1>1, WatchInvariant, PTL

(* The final summary and the exit code count every finding, and no interim *)
(* summary shows more.                                                     *)
THEOREM SummaryIsComplete == Spec => []FinalSummaryIsComplete
<1>1. WatchInv => FinalSummaryIsComplete
  BY DEF WatchInv
<1> QED BY <1>1, WatchInvariant, PTL

(* A finding is counted only while a worker runs, and workers run only     *)
(* between the opening of the state file and the return of runWatch.       *)
THEOREM CountedUnderLock == Spec => FoundUnderLock
<1>1. WatchInv /\ WatchInv' /\ [Next]_vars => [total' # total => storeOpen /\ storeOpen']_vars
  <2> SUFFICES ASSUME WatchInv, WatchInv', Next, total' # total
               PROVE  storeOpen /\ storeOpen'
    OBVIOUS
  <2>1. Inspect
    BY DEF Next, MainStep, OthersStep, Signal, Synced, InformerReturns, SendLine,
           StreamError, SenderReturns, PipelineReturns, Tick, Interim, HeartStops,
           Indexed, SetupFails, SignalWhileWaiting, SyncTimeout, Setup, OpenStore,
           StartInformer, TakeInitial, GiveUpWaiting, SweepStarts, SweepCloses,
           SweepEnds, Rotate, Stop, RotatorStopped, CloseLines, PipelineStopped,
           InformerStopped, FinalSummary, Exit, mainRest, flowVars
  <2>2. pipe = "on" /\ main' = main /\ storeOpen' = storeOpen
    BY <2>1 DEF Inspect
  <2> QED BY <2>2 DEF WatchInv, PhaseInv, Early, NoWorkers
<1> QED BY <1>1, WatchInvariant, PTL DEF Spec, FoundUnderLock
=============================================================================
