------------------------------- MODULE Watch -------------------------------
(***************************************************************************)
(* The life of a watch process (runScan and runWatch in                    *)
(* cmd/kl-scan/main.go): set-up, the state file, the informer, the initial *)
(* snapshot and sweep, the rotation with its heartbeat, and the shutdown,  *)
(* by a signal at any moment or by an error.                               *)
(* Main starts the other goroutines and waits for them; what they do       *)
(* inside is in StateStore, TargetIndex, FollowStream, Rotator and         *)
(* Pipeline.  Here a line is a unit that may hold some new findings.       *)
(***************************************************************************)
EXTENDS Integers, FiniteSets

CONSTANTS
  Pods,         \* the targets that are running when the process starts
  Sweeps,       \* --watch-init-since > 0
  Beats,        \* --summary-interval > 0
  Cap,          \* capacity of a channel of lines
  MaxLines,     \* lines that are sent (bound)
  MaxNew        \* new findings in a line (bound)

ASSUME WatchAssumption ==
  /\ IsFiniteSet(Pods)
  /\ Sweeps \in BOOLEAN /\ Beats \in BOOLEAN
  /\ Cap \in Nat \ {0}
  /\ MaxLines \in Nat
  /\ MaxNew \in Nat

VARIABLES
  signalled,    \* ctx is done
  main,         \* where runWatch is
  storeOpen,    \* the state file is open and locked
  synced,       \* the channel of TargetIndex.Synced is closed
  informer,     \* the informer goroutine: off, on, gone
  index,        \* TargetIndex.targets
  sender,       \* StreamAll or Rotator.Run, whichever is active: off, on, gone
  chan,         \* lines in the channel
  closed,       \* the channel is closed
  pipe,         \* Pipeline.Run: off, on, gone
  sentLines,    \* lines sent so far (bounds the model)
  total,        \* findings of the pipeline
  rotErrs,      \* Rotator.streamErrors
  heart,        \* the heartbeat goroutine: off, on, read, gone
  beat,         \* the total it has read
  interim,      \* the total of the last interim summary, NoCode before it
  shown,        \* total of the final summary, NoCode before it
  exit          \* the exit code, NoCode while the process runs

indexVars == <<synced, informer, index>>
flowVars  == <<sender, chan, closed, pipe, sentLines, total>>
heartVars == <<heart, beat, interim>>
vars == <<signalled, main, storeOpen, indexVars, flowVars, rotErrs, heartVars,
          shown, exit>>

NoCode == -1
ExitClean == 0
ExitFindings == 1
ExitError == 2
ExitPartial == 3

MainStates == {"setup", "open", "index", "sync", "wait", "sweep", "swept",
               "rotate", "stopping", "closing", "draining", "informer", "final", "exit"}

Init ==
  /\ signalled = FALSE
  /\ main = "setup"
  /\ storeOpen = FALSE
  /\ synced = FALSE /\ informer = "off" /\ index = {}
  /\ sender = "off" /\ chan = 0 /\ closed = FALSE /\ pipe = "off"
  /\ sentLines = 0 /\ total = 0
  /\ rotErrs = 0
  /\ heart = "off" /\ beat = 0 /\ interim = NoCode
  /\ shown = NoCode
  /\ exit = NoCode

-----------------------------------------------------------------------------
(* The environment and the other goroutines.                               *)

Signal ==
  /\ exit = NoCode
  /\ ~signalled
  /\ signalled' = TRUE
  /\ UNCHANGED <<main, storeOpen, indexVars, flowVars, rotErrs, heartVars, shown, exit>>

\* The caches have synced: the informer's store is full, its handlers may
\* still be behind.
Synced ==
  /\ exit = NoCode
  /\ informer = "on" /\ ~synced /\ ~signalled
  /\ synced' = TRUE
  /\ UNCHANGED <<signalled, main, storeOpen, informer, index, flowVars, rotErrs,
                 heartVars, shown, exit>>

\* A handler adds the containers of a pod.
Indexed(p) ==
  /\ exit = NoCode
  /\ informer = "on"
  /\ p \notin index
  /\ index' = index \cup {p}
  /\ UNCHANGED <<signalled, main, storeOpen, synced, informer, flowVars, rotErrs,
                 heartVars, shown, exit>>

\* TargetIndex.Run returns: ctx is done, or waiting for the caches failed.
InformerReturns ==
  /\ exit = NoCode
  /\ informer = "on"
  /\ signalled
  /\ informer' = "gone"
  /\ UNCHANGED <<signalled, main, storeOpen, synced, index, flowVars, rotErrs,
                 heartVars, shown, exit>>

\* A stream of the sweep or of a batch sends a line.
SendLine ==
  /\ sender = "on"
  /\ chan < Cap
  /\ sentLines < MaxLines
  /\ chan' = chan + 1
  /\ sentLines' = sentLines + 1
  /\ UNCHANGED <<signalled, main, storeOpen, indexVars, sender,
                 closed, pipe, total, rotErrs, heartVars, shown, exit>>

\* A stream of the rotator fails.  Those of the sweep are printed and not kept.
StreamError ==
  /\ sender = "on"
  /\ main # "sweep"
  /\ rotErrs = 0
  /\ rotErrs' = 1
  /\ UNCHANGED <<signalled, main, storeOpen, indexVars, flowVars, heartVars,
                 shown, exit>>

\* Mutant of SenderReturns: the rotator does not look at ctx.
OnlySweepReturns ==
  /\ sender = "on"
  /\ main = "sweep"
  /\ sender' = "gone"
  /\ UNCHANGED <<signalled, main, storeOpen, indexVars, chan, closed,
                 pipe, sentLines, total, rotErrs, heartVars, shown, exit>>

\* All streams of the sweep have ended; Rotator.Run ends by a signal only.
SenderReturns ==
  /\ sender = "on"
  /\ main = "sweep" \/ signalled
  /\ sender' = "gone"
  /\ UNCHANGED <<signalled, main, storeOpen, indexVars, chan, closed,
                 pipe, sentLines, total, rotErrs, heartVars, shown, exit>>

\* A worker takes a line; its new findings are counted.
Inspect ==
  /\ pipe = "on"
  /\ chan > 0
  /\ chan' = chan - 1
  /\ \E n \in 0 .. MaxNew : total' = total + n
  /\ UNCHANGED <<signalled, main, storeOpen, indexVars, sender,
                 closed, pipe, sentLines, rotErrs, heartVars, shown, exit>>

\* Pipeline.Run returns.
PipelineReturns ==
  /\ pipe = "on"
  /\ signalled \/ (closed /\ chan = 0)
  /\ pipe' = "gone"
  /\ UNCHANGED <<signalled, main, storeOpen, indexVars, sender, chan,
                 closed, sentLines, total, rotErrs, heartVars, shown, exit>>

\* The ticker fires, also when hbCtx is done: the heartbeat reads the counters.
Tick ==
  /\ exit = NoCode
  /\ heart = "on"
  /\ heart' = "read"
  /\ beat' = total
  /\ UNCHANGED <<signalled, main, storeOpen, indexVars, flowVars, rotErrs,
                 interim, shown, exit>>

\* Mutant of Interim: the counters are read again for the output.
InterimRereads ==
  /\ exit = NoCode
  /\ heart = "read"
  /\ heart' = "on"
  /\ interim' = total
  /\ UNCHANGED <<signalled, main, storeOpen, indexVars, flowVars, rotErrs, beat,
                 shown, exit>>

\* It writes them as an interim summary.
Interim ==
  /\ exit = NoCode
  /\ heart = "read"
  /\ heart' = "on"
  /\ interim' = beat
  /\ UNCHANGED <<signalled, main, storeOpen, indexVars, flowVars, rotErrs, beat,
                 shown, exit>>

\* hbCtx is done with ctx.  Nobody waits for this.
HeartStops ==
  /\ exit = NoCode
  /\ heart = "on"
  /\ signalled
  /\ heart' = "gone"
  /\ UNCHANGED <<signalled, main, storeOpen, indexVars, flowVars, rotErrs,
                 beat, interim, shown, exit>>

-----------------------------------------------------------------------------
(* runWatch.                                                               *)

mainRest == <<signalled, flowVars, rotErrs, heartVars, shown>>

\* runWatch returns: the deferred store.Close runs, the process ends.
Return(code) ==
  /\ main' = "exit"
  /\ exit' = code
  /\ storeOpen' = FALSE

\* -A with -n, an unknown format or detector, no cluster, no output file; or
\* the state file cannot be opened or is locked; or the selectors are wrong.
SetupFails ==
  /\ main \in {"setup", "open", "index"}
  /\ Return(ExitError)
  /\ UNCHANGED <<mainRest, indexVars>>

\* setup.
Setup ==
  /\ main = "setup"
  /\ main' = "open"
  /\ UNCHANGED <<mainRest, storeOpen, indexVars, exit>>

\* state.Open.
OpenStore ==
  /\ main = "open"
  /\ storeOpen' = TRUE
  /\ main' = "index"
  /\ UNCHANGED <<mainRest, indexVars, exit>>

\* NewTargetIndex; the informer starts.
StartInformer ==
  /\ main = "index"
  /\ informer' = "on"
  /\ main' = "sync"
  /\ UNCHANGED <<mainRest, storeOpen, synced, index, exit>>

\* The caches are synced: the first snapshot.
TakeInitial ==
  /\ main \in {"sync", "wait"}
  /\ main = "sync" => synced
  /\ main' = IF index = {} THEN "wait" ELSE IF Sweeps THEN "sweep" ELSE "swept"
  /\ UNCHANGED <<mainRest, storeOpen, indexVars, exit>>

\* Thirty seconds without a target: rotate all the same, without a sweep.
GiveUpWaiting ==
  /\ main = "wait"
  /\ main' = "swept"
  /\ UNCHANGED <<mainRest, storeOpen, indexVars, exit>>

\* A signal while waiting: runWatch returns nil.
SignalWhileWaiting ==
  /\ main \in {"sync", "wait"}
  /\ signalled
  /\ Return(ExitClean)
  /\ UNCHANGED <<mainRest, indexVars>>

\* Sixty seconds without a sync.
SyncTimeout ==
  /\ main = "sync"
  /\ Return(ExitError)
  /\ UNCHANGED <<mainRest, indexVars>>

\* The sweep's channel, pipeline and streams.
SweepStarts ==
  /\ main = "sweep" /\ sender = "off"
  /\ sender' = "on"
  /\ pipe' = "on"
  /\ UNCHANGED <<signalled, main, storeOpen, indexVars, chan, closed,
                 sentLines, total, rotErrs, heartVars, shown, exit>>

\* StreamAllWithWatermarks has returned: close(sweepLineCh).
SweepCloses ==
  /\ main = "sweep" /\ sender = "gone" /\ ~closed
  /\ closed' = TRUE
  /\ UNCHANGED <<signalled, main, storeOpen, indexVars, sender, chan,
                 pipe, sentLines, total, rotErrs, heartVars, shown, exit>>

\* <-sweepDone.
SweepEnds ==
  /\ main = "sweep" /\ closed /\ pipe = "gone"
  /\ main' = "swept"
  /\ UNCHANGED <<signalled, storeOpen, indexVars, flowVars, rotErrs, heartVars,
                 shown, exit>>

\* A new channel, the rotator, the pipeline and the heartbeat.
Rotate ==
  /\ main = "swept"
  /\ chan' = 0
  /\ closed' = FALSE
  /\ sender' = "on"
  /\ pipe' = "on"
  /\ heart' = IF Beats THEN "on" ELSE "off"
  /\ main' = "rotate"
  /\ UNCHANGED <<signalled, storeOpen, indexVars, sentLines, total,
                 rotErrs, beat, interim, shown, exit>>

\* Mutant of Stop: the state file is released before the drain.
StopUnlocks ==
  /\ main = "rotate"
  /\ signalled
  /\ main' = "stopping"
  /\ storeOpen' = FALSE
  /\ UNCHANGED <<mainRest, indexVars, exit>>

\* <-ctx.Done()
Stop ==
  /\ main = "rotate"
  /\ signalled
  /\ main' = "stopping"
  /\ UNCHANGED <<mainRest, storeOpen, indexVars, exit>>

\* Mutant of RotatorStopped: the channel is closed under the streams.
RotatorIgnored ==
  /\ main = "stopping"
  /\ main' = "closing"
  /\ UNCHANGED <<mainRest, storeOpen, indexVars, exit>>

\* <-rotatorDone
RotatorStopped ==
  /\ main = "stopping"
  /\ sender = "gone"
  /\ main' = "closing"
  /\ UNCHANGED <<mainRest, storeOpen, indexVars, exit>>

\* close(lineCh)
CloseLines ==
  /\ main = "closing"
  /\ closed' = TRUE
  /\ main' = "draining"
  /\ UNCHANGED <<signalled, storeOpen, indexVars, sender, chan, pipe,
                 sentLines, total, rotErrs, heartVars, shown, exit>>

\* Mutant of PipelineStopped: the summary does not wait for the workers.
PipelineIgnored ==
  /\ main = "draining"
  /\ main' = "informer"
  /\ UNCHANGED <<mainRest, storeOpen, indexVars, exit>>

\* <-pipelineDone
PipelineStopped ==
  /\ main = "draining"
  /\ pipe = "gone"
  /\ main' = "informer"
  /\ UNCHANGED <<mainRest, storeOpen, indexVars, exit>>

\* <-informerDone
InformerStopped ==
  /\ main = "informer"
  /\ informer = "gone"
  /\ main' = "final"
  /\ UNCHANGED <<mainRest, storeOpen, indexVars, exit>>

FinalSummary ==
  /\ main = "final"
  /\ shown = NoCode
  /\ shown' = total
  /\ UNCHANGED <<signalled, main, storeOpen, indexVars, flowVars,
                 rotErrs, heartVars, exit>>

\* os.Exit: no deferred call runs, the kernel drops the lock.
Exit ==
  /\ main = "final"
  /\ shown # NoCode
  /\ Return(IF rotErrs > 0 THEN ExitPartial
            ELSE IF shown > 0 THEN ExitFindings ELSE ExitClean)
  /\ UNCHANGED <<mainRest, indexVars>>

-----------------------------------------------------------------------------
MainStep ==
  \/ SetupFails \/ Setup \/ OpenStore \/ StartInformer
  \/ TakeInitial \/ GiveUpWaiting \/ SignalWhileWaiting \/ SyncTimeout
  \/ SweepStarts \/ SweepCloses \/ SweepEnds \/ Rotate \/ Stop
  \/ RotatorStopped \/ CloseLines \/ PipelineStopped \/ InformerStopped
  \/ FinalSummary \/ Exit

OthersStep ==
  \/ Synced \/ InformerReturns \/ SendLine \/ StreamError \/ SenderReturns
  \/ Inspect \/ PipelineReturns \/ Tick \/ Interim \/ HeartStops
  \/ \E p \in Pods : Indexed(p)

Next == MainStep \/ Signal \/ OthersStep

Spec == Init /\ [][Next]_vars

\* Goroutines and timers run; that the rotator returns is CancelEndsRun, that
\* StreamAll and Run return is ScanEnds and RunReturns.
FairSpec == /\ Spec
            /\ WF_vars(MainStep)
            /\ WF_vars(SenderReturns)
            /\ WF_vars(Inspect)
            /\ WF_vars(PipelineReturns)
            /\ WF_vars(InformerReturns)

-----------------------------------------------------------------------------
TypeOK ==
  /\ main \in MainStates
  /\ index \subseteq Pods
  /\ sender \in {"off", "on", "gone"} /\ pipe \in {"off", "on", "gone"}
  /\ chan \in 0 .. Cap
  /\ total \in Nat
  /\ heart \in {"off", "on", "read", "gone"}
  /\ beat \in 0 .. total /\ interim \in NoCode .. beat
  /\ exit \in {NoCode, ExitClean, ExitFindings, ExitError, ExitPartial}

(* No stream is left to send on a channel main has closed: that would be a *)
(* panic, in the sweep or in the shutdown.                                 *)
NoSendOnClosed == closed => sender = "gone"

(* The final summary and the exit code are those of all the findings that  *)
(* were printed: nothing is found behind them; and an interim summary,     *)
(* which may even be printed behind the final one, never shows more.       *)
FinalSummaryIsComplete ==
  /\ shown # NoCode => pipe = "gone" /\ shown = total /\ interim <= shown
  /\ exit \in {ExitClean, ExitFindings} /\ shown # NoCode
       => (exit = ExitFindings <=> total > 0)

(* A finding is never counted without the lock on the state file: another  *)
(* process could report it too.                                            *)
FoundUnderLock == [][total' # total => storeOpen /\ storeOpen']_vars

(* A signal ends the process, in whichever phase it arrives.               *)
SignalEndsProcess == signalled ~> (exit # NoCode)
=============================================================================
