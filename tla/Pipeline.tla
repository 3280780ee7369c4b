------------------------------ MODULE Pipeline ------------------------------
(***************************************************************************)
(* The detection pipeline of one process (internal/detect/pipeline.go) and *)
(* the channel in front of it: streams send lines, a pool of workers takes *)
(* them, inspects them with each detector, and for each match asks the     *)
(* dedup set, counts the finding and hands it to the sink.                 *)
(*                                                                         *)
(* Pipeline.Run is called once by a one-shot scan and twice by a watch (the*)
(* initial sweep, the rotation), with a channel of its own each time and   *)
(* the same dedup set and counters.  The caller closes the channel when    *)
(* the streams are done.  How the dedup set is kept on disk is StateStore; *)
(* here MarkSeen and sync.Map.LoadOrStore are one atomic step.             *)
(***************************************************************************)
EXTENDS Naturals, Sequences, FiniteSets

CONSTANTS
  Workers,      \* the worker goroutines of a Run
  Streams,      \* the goroutines that send lines
  Input,        \* Input[r][s]: the lines stream s sends in Run r
  Cap,          \* capacity of the channel
  Known         \* dedup keys replayed from the state file

\* What the properties tell apart in a LogLine; matches are the results of
\* all the detectors, in their order.
Match   == [detector : STRING, rule : STRING, value : STRING]
LogLine == [uid : STRING, container : STRING, matches : Seq(Match)]
Rounds  == DOMAIN Input

ASSUME PipelineAssumption ==
  /\ Workers # {} /\ IsFiniteSet(Workers)
  /\ Cap \in Nat \ {0}
  /\ Input \in Seq([Streams -> Seq(LogLine)]) \ {<<>>}
  /\ Known \subseteq STRING \X STRING \X STRING \X STRING

VARIABLES
  round,        \* which call of Run this is
  left,         \* the lines each stream has not sent yet
  chan,         \* the channel
  closed,       \* it is closed
  cancelled,    \* ctx is done
  worker,       \* each worker: idle, match, stats, emit or gone
  line,         \* the line it works on
  idx,          \* the match of it that is next
  dedupe,       \* keys seen by MarkSeen or LoadOrStore
  total,        \* totalFindings
  emitted,      \* what the sink received, in its order
  taken,        \* lines that entered the channel of this Run (history)
  done          \* lines that have been processed in this Run (history)

runVars  == <<round, left, chan, closed, cancelled>>
workVars == <<worker, line, idx>>
outVars  == <<dedupe, total, emitted>>
hisVars  == <<taken, done>>
vars == <<runVars, workVars, outVars, hisVars>>

\* sha256 has no collisions here.
HashValue(v) == v
DedupeKey(l, m) == <<l.uid, m.detector, m.rule, HashValue(m.value)>>

NoLine == [uid |-> "", container |-> "", matches |-> <<>>]

Init ==
  /\ round = 1
  /\ left = Input[1]
  /\ chan = <<>>
  /\ closed = FALSE
  /\ cancelled = FALSE
  /\ worker = [w \in Workers |-> "idle"]
  /\ line = [w \in Workers |-> NoLine]
  /\ idx = [w \in Workers |-> 1]
  /\ dedupe = Known
  /\ total = 0
  /\ emitted = <<>>
  /\ taken = {}
  /\ done = {}

-----------------------------------------------------------------------------
(* The streams and the caller of Run.                                      *)

\* sendLine: the channel has room.
Send(s) ==
  /\ left[s] # <<>>
  /\ Len(chan) < Cap
  /\ chan' = Append(chan, Head(left[s]))
  /\ left' = [left EXCEPT ![s] = Tail(@)]
  /\ taken' = taken \cup {Head(left[s])}
  /\ UNCHANGED <<round, closed, cancelled, workVars, outVars, done>>

\* Mutant of SendCancelled: a stream that waits for room does not see ctx.
SendBlocks(s) ==
  /\ left[s] # <<>>
  /\ cancelled
  /\ Len(chan) < Cap
  /\ left' = [left EXCEPT ![s] = <<>>]
  /\ UNCHANGED <<round, chan, closed, cancelled, workVars, outVars, hisVars>>

\* sendLine: ctx is done, the stream returns.
SendCancelled(s) ==
  /\ left[s] # <<>>
  /\ cancelled
  /\ left' = [left EXCEPT ![s] = <<>>]
  /\ UNCHANGED <<round, chan, closed, cancelled, workVars, outVars, hisVars>>

\* The stream ends for another reason: an error, or its window is over.
StreamEnds(s) ==
  /\ left[s] # <<>>
  /\ left' = [left EXCEPT ![s] = <<>>]
  /\ UNCHANGED <<round, chan, closed, cancelled, workVars, outVars, hisVars>>

\* StreamAll or Rotator.Run has returned: close(lineCh).
Close ==
  /\ ~closed
  /\ \A s \in Streams : left[s] = <<>>
  /\ closed' = TRUE
  /\ UNCHANGED <<round, left, chan, cancelled, workVars, outVars, hisVars>>

\* SIGINT or SIGTERM.
Cancel ==
  /\ ~cancelled
  /\ cancelled' = TRUE
  /\ UNCHANGED <<round, left, chan, closed, workVars, outVars, hisVars>>

\* wg.Wait has returned and the channel is closed.
RunEnds == closed /\ \A w \in Workers : worker[w] = "gone"

\* The next call of Run, on a channel of its own.
RunAgain ==
  /\ RunEnds
  /\ round + 1 \in Rounds
  /\ round' = round + 1
  /\ left' = Input[round + 1]
  /\ chan' = <<>>
  /\ closed' = FALSE
  /\ worker' = [w \in Workers |-> "idle"]
  /\ taken' = {}
  /\ done' = {}
  /\ UNCHANGED <<cancelled, line, idx, outVars>>

-----------------------------------------------------------------------------
(* A worker.                                                               *)

\* The select takes a line, whether or not ctx is done.
Take(w) ==
  /\ worker[w] = "idle"
  /\ chan # <<>>
  /\ chan' = Tail(chan)
  /\ line' = [line EXCEPT ![w] = Head(chan)]
  /\ idx' = [idx EXCEPT ![w] = 1]
  /\ worker' = [worker EXCEPT ![w] = "match"]
  /\ UNCHANGED <<round, left, closed, cancelled, outVars, hisVars>>

\* Mutant of Leave: what the closed channel still holds is dropped.
LeaveOnClose(w) ==
  /\ worker[w] = "idle"
  /\ cancelled \/ closed
  /\ worker' = [worker EXCEPT ![w] = "gone"]
  /\ UNCHANGED <<runVars, line, idx, outVars, hisVars>>

\* The select takes ctx.Done, or finds the channel closed and empty.
Leave(w) ==
  /\ worker[w] = "idle"
  /\ cancelled \/ (closed /\ chan = <<>>)
  /\ worker' = [worker EXCEPT ![w] = "gone"]
  /\ UNCHANGED <<runVars, line, idx, outVars, hisVars>>

Current(w) == line[w].matches[idx[w]]
Key(w)     == DedupeKey(line[w], Current(w))
\* Mutant of NextMatch: a match is skipped.
NextButOne(w) == idx' = [idx EXCEPT ![w] = @ + 2]

NextMatch(w) == idx' = [idx EXCEPT ![w] = @ + 1]

\* markSeen returns false: continue with the next match.
Duplicate(w) ==
  /\ worker[w] = "match"
  /\ idx[w] <= Len(line[w].matches)
  /\ Key(w) \in dedupe
  /\ NextMatch(w)
  /\ UNCHANGED <<runVars, worker, line, outVars, hisVars>>

\* Mutant of MarkNew: the look-up and the insertion are not one step.
MarkNewForgets(w) ==
  /\ worker[w] = "match"
  /\ idx[w] <= Len(line[w].matches)
  /\ Key(w) \notin dedupe
  /\ worker' = [worker EXCEPT ![w] = "stats"]
  /\ UNCHANGED <<runVars, line, idx, outVars, hisVars>>

\* markSeen returns true.
MarkNew(w) ==
  /\ worker[w] = "match"
  /\ idx[w] <= Len(line[w].matches)
  /\ Key(w) \notin dedupe
  /\ dedupe' = dedupe \cup {Key(w)}
  /\ worker' = [worker EXCEPT ![w] = "stats"]
  /\ UNCHANGED <<runVars, line, idx, total, emitted, hisVars>>

\* Mutant of recordStats: without statsMu an increment may get lost.
recordStatsUnlocked(w) ==
  /\ worker[w] = "stats"
  /\ total' \in {total, total + 1}
  /\ worker' = [worker EXCEPT ![w] = "emit"]
  /\ UNCHANGED <<runVars, line, idx, dedupe, emitted, hisVars>>

\* recordStats; the severities are counted with the total.
recordStats(w) ==
  /\ worker[w] = "stats"
  /\ total' = total + 1
  /\ worker' = [worker EXCEPT ![w] = "emit"]
  /\ UNCHANGED <<runVars, line, idx, dedupe, emitted, hisVars>>

\* sink.Emit.
Emit(w) ==
  /\ worker[w] = "emit"
  /\ emitted' = Append(emitted, [key |-> Key(w), container |-> line[w].container])
  /\ worker' = [worker EXCEPT ![w] = "match"]
  /\ NextMatch(w)
  /\ UNCHANGED <<runVars, line, dedupe, total, hisVars>>

\* processLine returns.
LineDone(w) ==
  /\ worker[w] = "match"
  /\ idx[w] > Len(line[w].matches)
  /\ done' = done \cup {line[w]}
  /\ worker' = [worker EXCEPT ![w] = "idle"]
  /\ UNCHANGED <<runVars, line, idx, outVars, taken>>

WorkerStep(w) == \/ Take(w) \/ Leave(w) \/ Duplicate(w) \/ MarkNew(w)
                 \/ recordStats(w) \/ Emit(w) \/ LineDone(w)

StreamStep(s) == Send(s) \/ SendCancelled(s)

Next == \/ \E w \in Workers : WorkerStep(w)
        \/ \E s \in Streams : StreamStep(s) \/ StreamEnds(s)
        \/ Close \/ Cancel \/ RunAgain

Spec == Init /\ [][Next]_vars

\* Goroutines run when they can; nothing forces a signal or an early end.
FairSpec == /\ Spec
            /\ \A w \in Workers : WF_vars(WorkerStep(w))
            /\ \A s \in Streams : WF_vars(StreamStep(s))
            /\ WF_vars(Close)
            /\ WF_vars(RunAgain)

-----------------------------------------------------------------------------
Keys(l) == {DedupeKey(l, l.matches[i]) : i \in DOMAIN l.matches}
Reported == {emitted[i].key : i \in DOMAIN emitted}
Counting == {w \in Workers : worker[w] = "emit"}

DedupeKeys == STRING \X STRING \X STRING \X STRING
Finding == [key : DedupeKeys, container : STRING]

TypeOK ==
  /\ round \in Rounds
  /\ left \in [Streams -> Seq(LogLine)]
  /\ chan \in Seq(LogLine)
  /\ Len(chan) <= Cap
  /\ closed \in BOOLEAN
  /\ cancelled \in BOOLEAN
  /\ worker \in [Workers -> {"idle", "match", "stats", "emit", "gone"}]
  /\ line \in [Workers -> LogLine \cup {NoLine}]
  /\ idx \in [Workers -> Nat]
  /\ \A w \in Workers : idx[w] \in 1 .. Len(line[w].matches) + 1
  /\ dedupe \subseteq DedupeKeys
  /\ total \in Nat
  /\ emitted \in Seq(Finding)
  /\ taken \subseteq LogLine
  /\ done \subseteq LogLine

(* A key reaches the sink at most once in the life of the process, and not *)
(* at all when the state file had it: raw and joined views of a line,      *)
(* several workers, the sweep and the rotation all bring it again.         *)
EmittedOnce ==
  /\ \A i, j \in DOMAIN emitted : emitted[i].key = emitted[j].key => i = j
  /\ Reported \cap Known = {}

(* A heartbeat taken at any moment is ahead of the sink by the findings    *)
(* that are just being written, and never behind it; when Run has ended    *)
(* the counters, hence the exit code, are those of the findings printed.   *)
TotalIsEmitted == total = Len(emitted) + Cardinality(Counting)

(* When Run ends without a signal, every line sent has been inspected and  *)
(* every key in it is reported, by this process or an earlier one.         *)
CompleteWithoutSignal ==
  RunEnds /\ ~cancelled =>
    /\ done = taken
    /\ \A l \in taken : Keys(l) \subseteq Reported \cup Known

(* The scan comes to an end: the streams run dry or are cancelled, and no  *)
(* worker and no stream waits for the other for ever.                      *)
RunReturns == <>[]RunEnds

=============================================================================
