# A TLA+ model of kl-scan

kl-scan reads the logs of all running pods of a Kubernetes cluster and reports
the secrets it finds in them, once (`one-shot` mode) or for ever (`--watch`).
These modules model what is read, lost and read again, what is found in it, what
is reported once, twice or never and how it is written, and how the program starts
and ends. TLC checks them on small instances; TLAPS proves the invariants of the
state store, the rotator, the target index, the line window, the log of a target,
what is found in it and how it is redacted, the pipeline with its sink, and the two
modes for every instance.

## The system

| Part | Source | State it keeps | Operations | Hard because |
|---|---|---|---|---|
| state store | `internal/state/store.go` | the file, the flock, the `seen` map, the encoder's error | `Open`, `MarkSeen`, `Close` | crashes between write, fsync and report; several processes; torn records |
| rotator | `internal/kube/rotator.go` | `covered`, `failCounts`, `watermarks` | `Run`, `runBatch`, `SeedWatermarks` | the index changes during a batch; goroutines share maps |
| target index | `internal/kube/informer.go` | `targets`, behind client-go's cache | `onAdd`, `onUpdate`, `onDelete`, `Snapshot` | handlers run behind the cache; a broken watch is healed by a list |
| line window | `internal/kube/window.go` | the last lines of one stream | `push`, `joined` | two eviction loops, clamped caps |
| log streams | `internal/kube/streamer.go` | position, window, watermark callback | `StreamOneFollow`, `streamOne`, `streamAll` | cut anywhere; resumed by a timestamp |
| pipeline | `internal/detect/pipeline.go` | dedup set, counters | `Run`, `processLine` | a pool of workers, a bounded channel, a signal |
| detectors | `internal/detect/betterleaks`, `internal/detect/trufflehog` | none | `Inspect` | one fails, another decodes; raw and joined views |
| findings and sinks | `internal/report`, `teeSink` in `main.go` | what is on stdout and in the file, the encoder's error | `Finding`, `Mask`, `RedactSpan`, `Emit` | several writers, several calls of `Write`, a full disk |
| one-shot mode | `cmd/kl-scan/main.go`, `internal/kube/discovery.go` | phase, exit code | `runOnce`, `DiscoverTargets` | limit, failures, close of the channel |
| watch mode | `cmd/kl-scan/main.go` | phase, goroutines it waits for | `runWatch` | a signal in any phase; heartbeat beside the shutdown |

How they interact: main starts the index's informer, the rotator, the pipeline
and the heartbeat. The rotator takes snapshots of the index, and for each batch
one goroutine per target follows a log and pushes lines (the raw line, then the
joined view of the window) into a channel of 4096. The pipeline's workers take
them, run the detectors and ask the store (`MarkSeen`) or the in-memory set
whether the key `<podUID>|<detector>|<rule>|<sha256>` is new; if so they count
the finding and write it to the sink. A signal cancels one context that all of
them watch.

What makes each part correct: the store never forgets what was reported and
never reports twice; the rotator serves every live target once per cycle, and each
gets its turn as long as no others come in front of it; the index holds exactly the running containers; a stream leaves no
gap to the next one; a secret is found in the line or pair of lines that has it,
and is not shown when it is to be redacted; the pipeline reports every key of
every line once; records are not mixed on any output and a failed write costs no
other record; both modes end, with a true exit code, and never close a channel
somebody sends on.

## The modules

`Dedup` is the abstract promise of the store. **`StateStore`** models the store
and the part of the pipeline that uses it, for several processes on one file.
Its file is a sequence of chunks, one for each `Encode`, that are whole lines,
lines without a newline, or parts; `Readable` and `Parsed` are what
`bufio.Scanner` and `json.Unmarshal` make of them. `MarkSeen` is `Suppress`, or
`Insert`, then `Append1` or `AppendFails`, then `Sync`, under the mutex `mu`;
`Emit` or `EmitFails` follows outside it: an output of the sink takes the finding, or
none does and the error is dropped. With `--output json` (`JsonProcs`) the encoder of
the sink keeps its first error (`sinkErr`). `Kill`, `PowerLoss` and the I/O faults in
`Faults` can come between any two of them. `StateStore` implements `Dedup` with
`recorded <- Parsed(file)`.

**`Rotator`** has the loop of `Run` (`Stop`, `NoTargets`, `CycleComplete`,
`Launch`, `BatchDone`, `Wake`, `SleepCancelled`) and the goroutines of
`runBatch`. The index is its environment, and nothing bounds how often it
changes. A write of `failCounts` takes two
steps; two that overlap set `clash`, and then the write may be lost or the
process may crash, which is what the Go runtime can do.

**`TargetIndex`** has the handlers behind a model of client-go: `store` is the
informer's cache keyed by name, `queue` the notifications on their way. While
the watch is up each change is one notification (`Note`); a `List` after a `Break`
sends the `Difference` of the cache and the list only, in any order, so a pod that
was replaced in between is one update.
(The role in the repository's README grants `get` and `list` but not `watch`,
so under it the list is the usual way a change arrives.)

**`LineWindow`** holds the window's operators and **`Detection`** those behind
it: the two adapters over engines that recognise a fixed secret wherever it
stands, trufflehog's decoded passes, its choice among the fields of a result and
its detectors that fail, and the masking. **`Views`** composes them: a line and the
joined view behind it are sent, several workers inspect views out of order, the
dedup set keeps one finding for each secret. Its texts are sequences of
characters (`Chars`), because the masking and the joining are about them. Its
specification has names of its own (`ViewsInit`, `ViewsNext`, `ViewsSpec`, `window`),
so that its proofs can stand beside those of `FollowStream`, which is about the same
window. `Mask` returns the ends of a secret and three characters that no secret of the
model has (`MaskChars`): the word, the ellipsis and the length in parentheses, of which
only the place counts. `DetectionAssumption` says that secrets are not empty and have
none of them.

**`FollowStream`** follows one target through the initial sweep and all its
windows: `Attach` begins where the watermark, rounded to seconds, or the look-back
says; `Read` moves the watermark and hands the line to `SendRaw` and `SendJoined`,
each of which the end of the window may cancel. Lines have a length and a timestamp in
ticks, `TPS` of them in a second; a tick is what a nanosecond is in the code. The
request for the next stream is a tick behind the watermark, in whole seconds
(`SinceTime`), so behind the last tick of a second it is the next second.

**`Pipeline`** has the channel, the streams that send, the workers and the
calls of `Run`, one for a one-shot scan and two for a watch; its `Emit` is one
step. **`Sink`** extends it with what that step does: each call of `Write` is
an action (`WritePart`, `WriteFails`), under the mutex of its console writer or of
the encoder, and `EmitReturns` is the step of `Pipeline`. A record that is being
written has `part[w] > 1`; `content` is what the outputs hold, in pieces that may
be incomplete.

**`OneShot`** composes `Pipeline` (`P == INSTANCE Pipeline`) with the set-up, the
choice of the namespaces (`resolveNamespaces`), discovery, the life of each stream
in `streamOne`, the limit and the exit code, and is shown to implement it.
**`Watch`** is the life of `runScan` and `runWatch` from the set-up to the exit
code; its streams and pipeline are reduced to what main can see of them, a line with up to
`MaxNew` new findings. The
heartbeat is a goroutine of its own that reads the counters in one step and
prints them in another (`Tick`, `Interim`), and nobody waits for it.

Some definitions are named as mutants: each is the definition behind it with a
plausible mistake, and each property of a passing run fails with one of them in
place (`PROJECT.json`, `mutants`).

## The runs

| Run | Checks | Instance |
|---|---|---|
| `store_crash` | `TypeOK`, `AtMostOnceReported`, implements `Dedup` | 2 processes (2 and 1 workers, the first with json), 3 keys, 4 opens; kill, power loss, failed replay, failing outputs |
| `store_faults` | `NoStaleSeen`, `RecordedOnce`, `HiddenByKillOrSink` | 2 keys, 3 opens; these and torn and short writes and failing fsyncs |
| `rotator` | `TypeOK`, `OncePerCycle`, `CycleCoversAll`, `TurnComes`, `CancelEndsRun` | 3 targets, two of them with equal names, batches of 2, a limit of 1 failure, any changes of the index |
| `index` | `TypeOK`, `NoneMissing`, `StaleIsReplaced`, `RunningIsIndexed`, `GoneIsDropped` | 2 names, 2 pods per name, 2 notifications behind, any number of broken watches |
| `window` | `HoldsLongestEnd`, `SecretsAreFound`, `NoSecretLeft` | 6 pairs of caps, 4 lines of 10 texts, 2 rules, 5 detectors, 2 decoders, 2 workers, 4 views on their way |
| `follow` | `TypeOK`, `NoGap`, `LostPairWasCut`, `EveryLineIsSent` | 3 lines of 3 lengths (short, at the limit, over it; two at the limit are over the byte cap), 4 instants in 2 seconds, sweep, broken connections |
| `pipeline` | `SinkTypeOK`, `EmittedOnce`, `TotalIsEmitted`, `CompleteWithoutSignal`, `RecordsAreWhole`, `FailureIsContained`, `RunReturns` | console and json, with and without a file; 2 workers, 2 streams, 2 calls of Run, a seeded key, 1 place, findings of 2 parts, 1 failure |
| `oneshot` | `TypeOK`, `NoSendOnClosed`, `ExitCodeIsTrue`, implements `Pipeline`, `ScanEnds` | 4 combinations of flags, 3 targets in 2 namespaces, running or not, 2 at a time, 2 workers, 1 place |
| `watch` | `TypeOK`, `NoSendOnClosed`, `FinalSummaryIsComplete`, `FoundUnderLock`, `SignalEndsProcess` | 2 pods, 3 lines with up to 2 findings each, 2 places, sweep and heartbeat |

What the properties about hazards say in short: `HiddenByKillOrSink`, that a finding
is suppressed unseen only when its process was killed between the record and the
report or when no output of the sink took it, and by no exit and no error of the
state file; `TurnComes`, that a target is followed again and again when no others appear, and that
those behind it in the order do not keep it from its turn; `NoGap`, that no line is lost between two streams but at the end of a second; `SecretsAreFound`, that each rule that knows a
secret reports it whichever other rule fails, for a line at which the secret was
in the window; `FailureIsContained`, that a failed write on the console costs
that record on that output and nothing else, and that the json outputs stop at
the same record; `ExitCodeIsTrue`, that codes 0 and 1 stand for a scan of exactly
the running containers the flags ask for, and 1 for exactly those that reported a finding.

The bounds are the least with which the interesting cases happen. Two opens
are a process and its successor after a crash, three and four their successors; two workers
in one process meet in the mutex and the third is in another process. Three
targets in batches of two make a cycle of two batches, and a target may vanish and
come back in each of them; with a limit of one failure it can fail, come back and be
skipped. Two pods of one name
are a pod and its successor. Three lines in two seconds share a tick, share a second,
cross one and are at the end of one. They fill the
window of `FollowStream` by their number, and with a byte cap of 3 those of length 2 do not
fit in it together. One or two places fill
the channel, which the real one does with 4096. Four lines evict from a window of
three, caps of 0 and 1 are clamped, 3 bytes hold less than a secret of 7; the
texts split a secret over two lines, repeat one in a line, encode one once and
twice, and one secret ends as it begins, so that its occurrences may overlap and its
mask begins as it ends. A finding of two parts can be interrupted, and one failure meets
successes on the other output, before and behind it.

### What the code does and the documentation says otherwise

Three runs check one property each that a document or comment states, and
TLC finds it violated; `PROJECT.json` quotes the lines.

| Run | Property | What happens |
|---|---|---|
| `rotator_crash` | `NeverCrashes` | two goroutines write `failCounts` at once; the runtime may end the process |
| `rotator_skip` | `ConsecutiveFailuresSkipped` | the failure counters are emptied with each cycle and do not reach the limit |
| `follow_long` | `LinesBehindLongAreSent` | a line over the limit stops every stream at the same place |

Other differences met while modelling. The actions have them (where it says
so), no run is devoted to them:

- A power loss that tears the last record (`Faults` with `"torn"`) leaves a line
  without a newline. The next record lands on that line, is not read back by the
  next replay, and its finding is reported again, although it was synced. A write that
  fails (`"short"`) ends in the same: the encoder keeps its error, nothing is recorded any
  more, findings are still reported, and the next process reports them again.
  `AtMostOnceReported` fails with either.
- The record is written before the report, and sinks drop the errors of their writes
  (`EmitFails`). A finding that no output takes is suppressed from then on, although the
  repository's README says that it is reported once. So is one whose process is
  killed between the record and the report (`Kill` between `Sync` and `Emit`).
  `HiddenByKillOrSink` says that nothing else does this.
- An fsync that fails (`Faults` with `"sync"`) is ignored: a power loss behind it lets a
  finding be reported again.
- `onUpdate` ignores the old object, so a pod replaced under its name while the
  watch is down leaves the targets of its old UID in the index for ever
  (`StaleIsReplaced` says no other entry outlives its pod).
- A line cut inside its timestamp counts as seen now, and the watermark jumps
  over lines that were never read (`ReadTorn("stamp")`; the run has
  `Tears = {"payload"}` because `NoGap` fails with it).
- "Resume just after the last seen line" (`rotator.go:235`) is the next second when the
  watermark is the last nanosecond of one. A line of that time whose send was
  cancelled, or one that follows it with the same time, is not asked for again
  (`SecondEnds`, the exception in `NoGap`, `LostPairWasCut` and `EveryLineIsSent`).
- A recurring leak is said to be "caught within at most one cycle" (`README.md:124` of
  the repository). A cycle ends when no target is uncovered, and batches are the first of
  those in the order of names, so new targets that come in each window make a cycle endless,
  and when they are in front in the order and fill a batch, a target behind them is
  never streamed. `TurnComes` says when this cannot happen.
- The repository's README calls kl-scan line-oriented and says that multi-line secrets
  "will not reassemble across lines" (`README.md:261`). `emitWithWindow` sends the
  joined lines of the window as well, and a secret split over up to three lines is
  found in them (`SecretsAreFound`, which is about lines and adjacent pairs).
- As long as a target has no watermark, each attach looks back `--watch-since`,
  not the first alone (`base` moves with each of them).
- The request keeps whole seconds, so lines of the watermark's second come
  again unless the watermark is its last nanosecond; the dedup set absorbs their findings.
- Two adjacent lines that are over the byte cap of the window together are not joined,
  which `--max-line-bytes` above 64 KiB allows (`TooWide`).
- After a signal the workers leave, whatever the channel holds (`Leave`), though a
  comment in main speaks of a drain.
- The dedup key has no container: the same secret of two containers of a pod is
  reported for one of them (`MCOneShot` has such a pair).
- Stream errors of the initial sweep are printed and do not reach the exit code,
  though the repository's README gives `--watch` the codes of a one-shot scan
  (`StreamError` of `Watch`). The initial snapshot is taken when the caches have
  synced, when the handlers may still be filling the index.
- The heartbeat is not waited for: an interim summary may be printed behind the
  final one (`Interim`). It never shows more findings (`FinalSummaryIsComplete`).
- In json mode the encoder keeps its first error: after one failed write
  nothing more is written to stdout or the file, though findings are still
  counted and recorded in the state file (`EncoderRefuses`, `EmitFails`).
- A comment of `scanBytes` says that the context of a trufflehog match is the
  original line; the code sets it to the value and leaves `original` unused
  (`MatchesOf`).
- `window.go` says that a value found raw and joined has one key. That holds for
  equal values; a greedy rule may match more in the joined view and give two. The
  rules of `Detection` recognise fixed secrets.
- With several workers a secret that is repeated or split may be reported for a
  later line than the one that completes it (`processLine` of `Views` takes views
  out of order); `SecretsAreFound` says which lines are possible.
- With `--redacted` a finding's context hides its own value only: another secret
  on the line stays (`RedactSpan`).
- `RedactSpan` hides a value for certain only when the value shares no character with
  the fixed part of its mask: `abR` in the text `ababR` becomes `abREDACTED (3)`.
  `DetectionAssumption` leaves such values out, and `NoSecretLeft` is about the others.
- The comment of `StreamAll` says that it closes the channel; its callers do
  (`CloseLines`). `--out` truncates the file in the set-up, before discovery can
  fail. `podsWithFindings` counts names, not UIDs. The interim summaries of json
  mode go to stderr in pieces without a mutex.
- A namespace given twice lists its pods twice and streams them twice; the
  `TargetIndex` and `OneShot` have sets.

### Deadlock and fairness

Processes, scans and bounded inputs end, so every configuration says
`CHECK_DEADLOCK FALSE`;
that nothing is stuck before the end is what the liveness properties say. Weak
fairness is assumed of goroutines that can proceed and of timers and requests,
which the Go scheduler, the runtime and the apiserver give. Nothing is assumed of
signals, faults, matches, the ends of logs or changes of the cluster.
`TurnComes` states its premises: from some moment on no target appears, or none in front
of the one it is about. `EveryLineIsSent` has the
premise that a stream reads whatever it can (`CaughtUp`) again and again: a window that is
always too short for one second's lines would begin at the same second for ever. `Watch` assumes that
the rotator, the sweep and the pipeline return, which is `CancelEndsRun`,
`ScanEnds` and `RunReturns`. In `Sink` a worker in a writer goes on, and a write
that fails is never owed (`FairSinkSpec`). The store's and the window's
properties are safety properties and assume no fairness.

## The proofs

`StateStore_proofs` proves, for any finite or infinite sets of processes,
workers and keys, any number of opens and every fault: `TypeCorrect`,
`NeverStale`, `NeverRewritten` and `OnlyKillsAndSinksHide`. `NoStaleSeen` is not inductive: a process in
its replay must be alone with the file. The invariant adds that only the holder
of the flock is up, that a worker has a stage only while its process runs, that
the mutex is held exactly in the stages write and sync, by one worker, and that a key being written
is in `seen` and not yet in the file. `RecordedOnce` follows because a key is
appended only when it is not in `seen`, hence not in the file. For
`OnlyKillsAndSinksHide` the invariant says of every chunk of the file, readable or not,
that its key was reported, is in the hands of a worker that will report it, was
in the hands of one that was killed, or was dropped by the sink: a later record may make a chunk readable.
`ReportedAtMostOnce` and `StoreImplementsDedup` assume `Benign`
(`Faults \subseteq {"kill", "power", "sink", "read"}`) and add that every chunk is a
whole line, that a key in stage emit is among the durable chunks, that a
reported key is too, and that a key being written or emitted has not been
reported and has one worker. The refinement goes step by step: `Append1` is
`Record`, `Emit` is `Report`, `PowerLoss` is `Forget`, all others stutter.
A torn or short record breaks both (see the differences above), and so does an fsync
that fails, hence `Benign`.

`Rotator_proofs` proves `TypeCorrect`, `CoverageIsService`, `OneWindowPerCycle`
and `CyclesCoverAll` for any finite set of targets. The invariant relates the
coverage to the history: an uncovered target of the index that is not in the
batch has no visit in this cycle, one in the batch has one, and a visited one is
covered or in the batch. The prune is why a target that was seen missing may be
visited again.

`Pipeline_proofs` proves `TypeCorrect`, `KeysAreEmittedOnce`, `CountersAreTrue`
and `NothingIsLeftOut` for any finite pool of workers, any streams, input and
capacity and any number of calls of `Run`. Three invariants carry them. A worker
that found a key new *claims* it until it has written it; `OnceInv`: a claimed key
is in the dedup set, not yet reported, and claimed by that worker only.
`LineInv`: a line that was sent is in the channel, with a worker or done, and
without a signal a worker leaves only when the channel is closed and empty.
`DedupInv`: a key in the dedup set is known, reported or claimed, and a worker has
passed over no key that is not in it. The last one is what makes "duplicate, skip"
safe: the worker that skips relies on another that has not written yet, and `Run`
waits for both.

In its first call of `Run`, `NothingIsMadeUp`: every key reported is that of a
line which was sent.

`Sink_proofs` proves `SinkImplementsPipeline`: a write is no step of the pipeline
and `EmitReturns` is its `Emit`, for any outputs, parts and failures. So the
theorems above hold with the real writers (`PipelineHoldsWithSink`).
`RecordsStayWhole` rests on three invariants: `PenInv`, a worker that is midway in
a record holds the mutex of its output; `EndInv`, the last piece of that output is
its last part; `RecInv`, all other pieces are followed by their continuation or
belong to a record with a failed write. For `FailuresAreContained`, `SettledInv`
says that a worker has settled its record on every output behind it, and
`LockstepInv` that the file of json mode lacks at most the record whose writer
holds the encoder's mutex.

`Watch_proofs` proves `TypeCorrect`, `ClosedBehindSenders`, `SummaryIsComplete`
and `CountedUnderLock` for any pods, lines and capacity. The invariant lists, for
each phase of main, the goroutines it has waited for.

`OneShot_proofs` proves `ScanIsOneRun` (the scan implements `Pipeline`),
`ScanTypeCorrect`, `ClosedBehindStreams` and `ExitCodeTellsTheTruth` for any
targets, flags, limit and workers. The invariant has five parts: which states of
streams a stage allows; that every line of a listed container is still to be sent
or was taken, unless its stream failed or a signal came; that exactly the running
containers in scope are listed; that the exit code was computed from the final
state; and that the errors are counted. With the theorems of the pipeline, through
`ScanIsOneRun`, the exit code follows. Two hypotheses are explicit: `NamedContext`
(the flags or the kubeconfig's context name a namespace; without either the code
falls back on `POD_NAMESPACE` and `default`, which `--help` does not mention), and
the assumption of `Pipeline` about the constants of the instance, which
`OneShotAssumption` and `LinesAssumption` spell out.

`TargetIndex_proofs` proves `IndexTypeCorrect`, `NothingIsMissing` (`NoneMissing`)
and `OnlyReplacedPodsStay` (`StaleIsReplaced`) for any finite set of names, any
number of pods of one name, any length of the queue and any number of broken
watches. Both properties speak of a moment when the queue is empty, and neither is
inductive. `IndexInv` follows a change from the cluster to the index instead. `CacheInv`:
a cache entry is of the newest pod of its name or an older one, and while the watch
is up it shows the cluster. `OrderInv`: what is told of one name is told in the order
in which its pods were created, and the index is behind the queue and the queue behind the cache.
`NewestInv`: the last notification for a name tells what the cache holds now.
`AppliedInv`: when no notification for a name is on its way, the index agrees with
the cache about it. `OrderInv` is needed because pods of one name have different keys in
the index: only an *older* pod may be left behind. Every step but `Deliver` keeps the
invariant through one lemma about what it tells (`Tells`: one notification for each name
whose cache entry changes, and it is current); `DeliverKeeps...` are about the
handlers. The assumption `IndexAssumption` says that there are finitely many names and that
no pod is the absence of one.

`FollowStream_proofs` is about the window, about what one target's log loses, and about
what is found in it and shown of it.
`PushKeepsLongestEnd` and `WindowIsLongestEnd` say for all caps and all lengths of
lines that after any number of lines the window holds the longest end of the stream
that is within both caps, or the last line alone. The loops of `push` are folds; `EvictLinesStops` and `EvictBytesStops`
show that a loop stops at the first window within its limit, by induction on the
rounds (`SetInduction`).

`FollowTypeCorrect` holds wherever connections break, with `WinInv`: the window of
a stream holds the last lines that were sent, in order. `NothingIsLost` (`NoGap`) and
`NoPairIsLost` (`LostPairWasCut`) hold for any log, lengths of lines, byte cap, clock,
look-back, number of streams and place where they are cut, under the hypothesis `"stamp" \notin Tears`. It is
needed: a line cut inside its timestamp moves the watermark to now, and `NoGap` fails
(see the differences above). The invariant is `LossInv`. `MarkInv`: the watermark is the
time of some line *m*; all lines in front of *m* were sent; the pairs up to *m* were
joined or cut apart, unless *m* is the line the stream has in hand. This is why the
watermark may move before the line is sent: the next stream begins at or in front of *m*,
or *m* and all it skips from there are of the last tick of a second (`ResumesBehind`), so
*m* itself is read again, or excepted, whatever becomes of its send. `StreamInv` says what was sent and joined at each stage of the goroutine,
and that the first line of a stream, which has no line in front of it in the window, was
joined already or begins what was asked for. A pair that the byte cap keeps apart is
`Wide`: that any other is in the window together is `NextLine`, from `WindowAgrees` and
`NextLength`, which let the lemmas about `push` speak of the lines of the log. `LogInv` (lines are stamped in order)
and `ModeInv` (there is no watermark before the sweep is over) complete it.

The three properties of `Views` are proved for any lines, caps, rules, detectors,
decoders, number of workers and order in which they inspect the views.

- `ViewsWindow` (`HoldsLongestEnd`): `WindowInv` says that the window is that of
  `WindowIsLongestEnd` for the lengths of the stream's lines. It needs what joining
  does: `Joined` is a fold, and `JoinedNext`, `JoinedCut` and `JoinedStays` say how
  joined lines grow, where they can be cut, and that a longer stream changes none;
  so the length of joined lines is a difference of two lengths (`LensAre`).
- `ViewsRedaction` (`NoSecretLeft`) stands on `RedactSpanHides`: a value does not occur
  in what `RedactSpan` makes of any text. The induction runs over the text from its end
  and needs a stronger statement (`Hides`): what is returned for the rest of a text
  either goes on as the text does, up to an occurrence that was there, or shows a
  character of the mask first, so no occurrence can begin in kept text, in a mask, or
  in one and end in the other. That a mask ends with its length is needed: without it
  the end of one mask and the text behind it may be a new occurrence (the mutant
  `MaskOpenEnd`).
- `ViewsFindings` (`SecretsAreFound`) has three invariants. `ViewsOK`: a view on its way
  is of lines that were together in the window. `Reports`: so is the line of each finding,
  and those lines have its secret (`MatchIs`). `Pending`: what can be found in a line, or
  in two that fit, is found, or will be in a view that is on its way. A pair that fits is
  the end of what the window holds (`PairIsInView`), and what is found in the end of a
  text, in plain or decoded, is found in the text (`FoundInEnd`); a worker that takes the
  view leaves the key in the dedup set (`PendingWhenTaken`), although another may have
  put it there for an earlier or a later line.

They are here and not in a module of their own because they stand on the lemmas about
`push`.

Only model-checked are the liveness properties, which with `ENABLED` are out of the
prover's reach: `TurnComes`, `CancelEndsRun`, `RunningIsIndexed`,
`GoneIsDropped`, `EveryLineIsSent`, `RunReturns`, `ScanEnds` and `SignalEndsProcess`. The
library's induction theorems take an operator as a parameter and cannot be used here;
`SetInduction` is induction in the form of a set, from the well-foundedness of the order
on the naturals. What a fold or a recursive function computes is proved through the
function that holds its values so far (`Joins`, `Redacts`): that there is one goes by
`SetInduction`, and that it is what the operator returns is unfolding.

## Not modelled

- The engines behind the two adapters (betterleaks' rules, trufflehog's detectors
  and decoders) are third-party code. `Detection` has rules that recognise a fixed
  secret; verification, severities and the entropy filter are data.
- The kubeconfig, the clientset and its transport, the registry of detectors, the
  parsing of flags (cobra) and the logger read or write nothing that the rest of the
  program depends on; where they can fail the set-up fails (`SetupFails`).
- Layout: colours, columns, wording, the json field names, the severities of the
  summary, the coverage prediction of `--watch` and the arithmetic of `clampBatch`,
  whose result is `BatchSize`.
- `watermarks` never loses the entry of a pod that is gone. The map is bounded by
  nothing the program controls; a model with finitely many pods cannot say so.
- `--cycle-pause 0` makes a rotator whose streams all fail spin. Actions take no
  time here, so a loop without a pause looks like one with a pause.
- Log rotation by the kubelet and the restart of a container under the same pod
  UID: `FollowStream` has a log that only grows.
- Timestamps finer than a tick: `FollowStream` is checked with 2 ticks in a second, the proofs
  have any number. A look-back below a second becomes 0 and asks for the whole log, in the
  model as in the code.

## Plan

Done are the core (`StateStore`, `Rotator`, `TargetIndex`, `LineWindow`,
`FollowStream`, `Pipeline`, `OneShot`, `Watch`), the writers (`Sink`), the detectors
(`Detection`, `Views`) and the proofs listed above. Left, most useful first:

1. `FollowStream` with a log that is rotated or begins anew with the container.
2. The rotator composed with `FollowStream`: every line of a target that stays is
   sent, whatever else the cycle serves.
3. `Watch` over two calls of `Pipeline` instead of its reduced sweep, and the store
   as the dedup set of the pipeline.
