----------------------------- MODULE StateStore -----------------------------
(***************************************************************************)
(* The persistent dedup store of watch mode (internal/state/store.go) and  *)
(* the part of the pipeline that uses it: several kl-scan processes that   *)
(* share one state file, the worker goroutines of each calling MarkSeen,   *)
(* the flock, the replay on Open, the in-memory set, the append, the fsync *)
(* and the report that follows them, with the crashes that may fall        *)
(* between any two of these steps.                                         *)
(*                                                                         *)
(* The file is a sequence of chunks, one for each call of Encode that put  *)
(* at least one byte into it.  A chunk is                                  *)
(*    "line"  a whole record and its newline,                              *)
(*    "bare"  a whole record whose newline is missing,                     *)
(*    "part"  a record cut before its end.                                 *)
(* A chunk written behind one that has no newline belongs to the same line *)
(* of the file, and json.Unmarshal rejects that line.                      *)
(***************************************************************************)
EXTENDS Naturals, Sequences

CONSTANTS
  Procs,        \* kl-scan processes started with the same --state-file
  Threads,      \* the detector workers of all the processes
  ProcOf,       \* the process a worker belongs to
  JsonProcs,    \* the processes with --output json
  Keys,         \* dedup keys
  Faults,       \* the faults of the environment that may happen
  MaxOpens,     \* how many times the state file is opened (bound)
  NoProc, NoThread, NoKey

FaultKinds == {"kill",    \* SIGKILL, panic or OOM kill of one process
               "power",   \* the machine stops: unsynced data may be lost
               "torn",    \* the power loss cuts a record in the middle
               "short",   \* write(2) fails or is short (disk full)
               "sync",    \* fsync fails
               "sink",    \* a write to stdout or to the file of --out fails
               "read"}    \* reading the file back fails

ASSUME StoreAssumption ==
  /\ ProcOf \in [Threads -> Procs]
  /\ JsonProcs \subseteq Procs
  /\ Faults \subseteq FaultKinds
  /\ MaxOpens \in Nat
  /\ NoProc \notin Procs
  /\ NoThread \notin Threads
  /\ NoKey \notin Keys

VARIABLES
  file,         \* the contents of the state file, in chunks
  durable,      \* how many chunks are certain to survive a power loss
  holder,       \* the process that holds the flock
  pc,           \* what each process does: down, replay or running
  seen,         \* Store.seen of each process
  encErr,       \* the json.Encoder of the process keeps its first error
  sinkErr,      \* so does the one of its sink, with --output json
  mu,           \* Store.mu: the worker that holds it
  stage,        \* where each worker is inside processLine and MarkSeen
  arg,          \* the key it works on
  reports,      \* how often each key was handed to the sink (history)
  lost,         \* keys MarkSeen had taken when their process was killed (history)
  dropped,      \* keys whose finding no output of the sink took (history)
  opens         \* how often the file was opened (bounds the model)

diskVars == <<file, durable>>
procVars == <<holder, pc, seen, encErr, sinkErr, mu, opens>>
workVars == <<stage, arg>>
hisVars  == <<reports, lost, dropped>>
vars == <<diskVars, procVars, workVars, hisVars>>

Forms  == {"line", "bare", "part"}
Chunk  == [key : Keys, form : Forms]
Stages == {"idle", "call", "write", "sync", "emit"}

-----------------------------------------------------------------------------
(* What bufio.Scanner and json.Unmarshal make of a file.                   *)

\* Chunk i is a line of its own: it starts a line, and it is a whole record.
Readable(f, i) ==
  /\ i > 1 => f[i-1].form = "line"
  /\ \/ f[i].form = "line"
     \/ f[i].form = "bare" /\ i = Len(f)

\* The keys a replay of f puts into the seen map.
Parsed(f) == {f[i].key : i \in {j \in DOMAIN f : Readable(f, j)}}

\* The keys in the first n chunks of f.
KeysUpTo(f, n) == {f[i].key : i \in {j \in DOMAIN f : j <= n}}

-----------------------------------------------------------------------------
Init ==
  /\ file = <<>>
  /\ durable = 0
  /\ holder = NoProc
  /\ pc = [p \in Procs |-> "down"]
  /\ seen = [p \in Procs |-> {}]
  /\ encErr = [p \in Procs |-> FALSE]
  /\ sinkErr = [p \in Procs |-> FALSE]
  /\ mu = [p \in Procs |-> NoThread]
  /\ stage = [t \in Threads |-> "idle"]
  /\ arg = [t \in Threads |-> NoKey]
  /\ reports = [k \in Keys |-> 0]
  /\ lost = {}
  /\ dropped = {}
  /\ opens = 0

\* Mutant of FlockFree: the file is opened without taking the lock.
FlockMissing == TRUE

\* Open, up to the flock.  A second process gets EWOULDBLOCK and leaves with
\* ErrAlreadyRunning: its state does not change.
FlockFree == holder = NoProc

Acquire(p) ==
  /\ pc[p] = "down"
  /\ opens < MaxOpens
  /\ FlockFree
  /\ holder' = p
  /\ pc' = [pc EXCEPT ![p] = "replay"]
  /\ opens' = opens + 1
  /\ UNCHANGED <<diskVars, seen, encErr, sinkErr, mu, workVars, hisVars>>

\* Mutant of Replayed: the last record is not read back.
ReplayStopsEarly == IF file = <<>> THEN {} ELSE Parsed(SubSeq(file, 1, Len(file) - 1))

\* The keys Open puts into the seen map before it returns.
Replayed == Parsed(file)

\* Open, from the replay to its return; the store's encoder is a new one.
Replay(p) ==
  /\ pc[p] = "replay"
  /\ pc' = [pc EXCEPT ![p] = "running"]
  /\ seen' = [seen EXCEPT ![p] = Replayed]
  /\ encErr' = [encErr EXCEPT ![p] = FALSE]
  /\ UNCHANGED <<diskVars, holder, sinkErr, mu, opens, workVars, hisVars>>

\* Mutant of Down: a worker survives its process.
DownKeepsStage(p) ==
  /\ pc' = [pc EXCEPT ![p] = "down"]
  /\ seen' = [seen EXCEPT ![p] = {}]
  /\ encErr' = [encErr EXCEPT ![p] = FALSE]
  /\ sinkErr' = [sinkErr EXCEPT ![p] = FALSE]
  /\ mu' = [mu EXCEPT ![p] = NoThread]
  /\ holder' = IF holder = p THEN NoProc ELSE holder
  /\ arg' = [t \in Threads |-> IF ProcOf[t] = p THEN NoKey ELSE arg[t]]
  /\ UNCHANGED <<opens, reports, dropped, stage>>

\* Everything the process held in memory goes, the kernel drops its flock.
Down(p) ==
  /\ pc' = [pc EXCEPT ![p] = "down"]
  /\ seen' = [seen EXCEPT ![p] = {}]
  /\ encErr' = [encErr EXCEPT ![p] = FALSE]
  /\ sinkErr' = [sinkErr EXCEPT ![p] = FALSE]
  /\ mu' = [mu EXCEPT ![p] = NoThread]
  /\ holder' = IF holder = p THEN NoProc ELSE holder
  /\ stage' = [t \in Threads |-> IF ProcOf[t] = p THEN "idle" ELSE stage[t]]
  /\ arg' = [t \in Threads |-> IF ProcOf[t] = p THEN NoKey ELSE arg[t]]
  /\ UNCHANGED <<opens, reports, dropped>>

\* Open fails while it reads or positions the file: it unlocks and closes.
ReplayFails(p) ==
  /\ "read" \in Faults
  /\ pc[p] = "replay"
  /\ Down(p)
  /\ UNCHANGED <<diskVars, lost>>

-----------------------------------------------------------------------------
(* One worker of a running process.                                        *)

\* A detector returns a match whose dedup key is k.
Detect(t, k) ==
  /\ pc[ProcOf[t]] = "running"
  /\ stage[t] = "idle"
  /\ stage' = [stage EXCEPT ![t] = "call"]
  /\ arg' = [arg EXCEPT ![t] = k]
  /\ UNCHANGED <<diskVars, procVars, hisVars>>

\* MarkSeen takes the mutex and finds the key: false, nothing to report.
Suppress(t) ==
  /\ stage[t] = "call"
  /\ mu[ProcOf[t]] = NoThread
  /\ arg[t] \in seen[ProcOf[t]]
  /\ stage' = [stage EXCEPT ![t] = "idle"]
  /\ arg' = [arg EXCEPT ![t] = NoKey]
  /\ UNCHANGED <<diskVars, procVars, hisVars>>

\* MarkSeen takes the mutex and does not find the key: it is remembered
\* before the record is written.
Insert(t) ==
  LET p == ProcOf[t] IN
  /\ stage[t] = "call"
  /\ mu[p] = NoThread
  /\ arg[t] \notin seen[p]
  /\ seen' = [seen EXCEPT ![p] = @ \cup {arg[t]}]
  /\ mu' = [mu EXCEPT ![p] = t]
  /\ stage' = [stage EXCEPT ![t] = "write"]
  /\ UNCHANGED <<diskVars, holder, pc, encErr, sinkErr, opens, arg, hisVars>>

\* Mutant of Append1: no fsync before the finding is reported.
AppendWithoutSync(t) ==
  /\ stage[t] = "write"
  /\ ~encErr[ProcOf[t]]
  /\ file' = Append(file, [key |-> arg[t], form |-> "line"])
  /\ mu' = [mu EXCEPT ![ProcOf[t]] = NoThread]
  /\ stage' = [stage EXCEPT ![t] = "emit"]
  /\ UNCHANGED <<durable, holder, pc, seen, encErr, sinkErr, opens, arg, hisVars>>

\* Encode puts the record and its newline behind whatever the file holds.
Append1(t) ==
  /\ stage[t] = "write"
  /\ ~encErr[ProcOf[t]]
  /\ file' = Append(file, [key |-> arg[t], form |-> "line"])
  /\ stage' = [stage EXCEPT ![t] = "sync"]
  /\ UNCHANGED <<durable, procVars, arg, hisVars>>

\* Encode returns an error, the one it kept or one of this write.  MarkSeen
\* returns true all the same and the caller ignores the error.
AppendFails(t) ==
  LET p == ProcOf[t] IN
  /\ stage[t] = "write"
  /\ \/ /\ encErr[p]
        /\ UNCHANGED file
     \/ /\ ~encErr[p]
        /\ "short" \in Faults
        /\ \/ UNCHANGED file
           \/ \E form \in {"bare", "part"} :
                file' = Append(file, [key |-> arg[t], form |-> form])
  /\ encErr' = [encErr EXCEPT ![p] = TRUE]
  /\ mu' = [mu EXCEPT ![p] = NoThread]
  /\ stage' = [stage EXCEPT ![t] = "emit"]
  /\ UNCHANGED <<durable, holder, pc, seen, sinkErr, opens, arg, hisVars>>

\* f.Sync(), whose error is ignored; MarkSeen unlocks and returns true.
Sync(t) ==
  /\ stage[t] = "sync"
  /\ \/ durable' = Len(file)
     \/ "sync" \in Faults /\ UNCHANGED durable
  /\ mu' = [mu EXCEPT ![ProcOf[t]] = NoThread]
  /\ stage' = [stage EXCEPT ![t] = "emit"]
  /\ UNCHANGED <<file, holder, pc, seen, encErr, sinkErr, opens, arg, hisVars>>

\* recordStats and sink.Emit, which returns; the next line.
Done(t) ==
  /\ stage[t] = "emit"
  /\ stage' = [stage EXCEPT ![t] = "idle"]
  /\ arg' = [arg EXCEPT ![t] = NoKey]
  /\ UNCHANGED <<diskVars, holder, pc, seen, encErr, mu, opens, lost>>

\* The json encoder of the sink keeps an error of any of its outputs, the
\* console writers keep none.
SinkFails(p) ==
  /\ "sink" \in Faults
  /\ sinkErr' = [sinkErr EXCEPT ![p] = p \in JsonProcs]

\* An output takes the finding, whatever becomes of the other one.
Emit(t) ==
  LET p == ProcOf[t] IN
  /\ Done(t)
  /\ ~sinkErr[p]
  /\ UNCHANGED sinkErr \/ SinkFails(p)
  /\ reports' = [reports EXCEPT ![arg[t]] = @ + 1]
  /\ UNCHANGED dropped

\* No output takes it: the encoder refuses, or the writes fail.  Emit drops
\* the error, and the key stays recorded.
EmitFails(t) ==
  LET p == ProcOf[t] IN
  /\ Done(t)
  /\ \/ sinkErr[p] /\ UNCHANGED sinkErr
     \/ ~sinkErr[p] /\ SinkFails(p)
  /\ dropped' = dropped \cup {arg[t]}
  /\ UNCHANGED reports

-----------------------------------------------------------------------------
(* The ends of a process.                                                  *)

\* Mutant of Exit: the pipeline is not waited for.
ExitAtOnce(p) ==
  /\ pc[p] = "running"
  /\ Down(p)
  /\ UNCHANGED <<diskVars, lost>>

\* SIGINT or SIGTERM: runWatch waits for the pipeline, so each worker has
\* finished its line, and leaves; the flock goes with the process or Close.
Exit(p) ==
  /\ pc[p] = "running"
  /\ \A t \in Threads : ProcOf[t] = p => stage[t] = "idle"
  /\ Down(p)
  /\ UNCHANGED <<diskVars, lost>>

\* The keys MarkSeen has taken and nobody has reported yet, of these workers.
InHand(ts) == {arg[t] : t \in {t \in ts : stage[t] \in {"write", "sync", "emit"}}}

\* The process disappears between two steps; what it wrote stays in the
\* page cache.
Kill(p) ==
  /\ "kill" \in Faults
  /\ pc[p] # "down"
  /\ Down(p)
  /\ lost' = lost \cup InHand({t \in Threads : ProcOf[t] = p})
  /\ UNCHANGED diskVars

\* What a chunk that was being written out may look like afterwards.
Remains(c) ==
  IF c.form = "part" THEN {c}
  ELSE {[key |-> c.key, form |-> form] : form \in {"bare", "part"}}

\* The machine stops.  The synced chunks survive, the others up to a point.
PowerLoss ==
  /\ "power" \in Faults
  /\ \E n \in durable .. Len(file) :
       \/ file' = SubSeq(file, 1, n)
       \/ /\ "torn" \in Faults
          /\ n < Len(file)
          /\ \E c \in Remains(file[n+1]) : file' = Append(SubSeq(file, 1, n), c)
  /\ durable' = Len(file')
  /\ holder' = NoProc
  /\ pc' = [p \in Procs |-> "down"]
  /\ seen' = [p \in Procs |-> {}]
  /\ encErr' = [p \in Procs |-> FALSE]
  /\ sinkErr' = [p \in Procs |-> FALSE]
  /\ mu' = [p \in Procs |-> NoThread]
  /\ stage' = [t \in Threads |-> "idle"]
  /\ arg' = [t \in Threads |-> NoKey]
  /\ lost' = lost \cup InHand(Threads)
  /\ UNCHANGED <<opens, reports, dropped>>

-----------------------------------------------------------------------------
\* The steps of a worker that has been handed a match.
WorkerStep(t) ==
  \/ Suppress(t) \/ Insert(t) \/ Append1(t) \/ AppendFails(t) \/ Sync(t)
  \/ Emit(t) \/ EmitFails(t)

Next ==
  \/ \E p \in Procs : Acquire(p) \/ Replay(p) \/ ReplayFails(p)
                      \/ Exit(p) \/ Kill(p)
  \/ \E t \in Threads : WorkerStep(t) \/ \E k \in Keys : Detect(t, k)
  \/ PowerLoss

Spec == Init /\ [][Next]_vars

-----------------------------------------------------------------------------
TypeOK ==
  /\ file \in Seq(Chunk)
  /\ durable \in 0 .. Len(file)
  /\ holder \in Procs \cup {NoProc}
  /\ pc \in [Procs -> {"down", "replay", "running"}]
  /\ seen \in [Procs -> SUBSET Keys]
  /\ encErr \in [Procs -> BOOLEAN]
  /\ sinkErr \in [Procs -> BOOLEAN]
  /\ mu \in [Procs -> Threads \cup {NoThread}]
  /\ stage \in [Threads -> Stages]
  /\ arg \in [Threads -> Keys \cup {NoKey}]
  /\ \A t \in Threads : stage[t] # "idle" => arg[t] \in Keys
  /\ reports \in [Keys -> Nat]
  /\ lost \subseteq Keys
  /\ dropped \subseteq Keys
  /\ opens \in 0 .. MaxOpens

(* A running process knows every key that can be read back from the file,  *)
(* whatever has crashed before: MarkSeen decides from its map alone, so a  *)
(* key it lacks would be appended and reported a second time.  This is     *)
(* what the flock, the replay and the mutex are for.                       *)
NoStaleSeen ==
  \A p \in Procs : pc[p] = "running" => Parsed(file) \subseteq seen[p]

(* "Already-seen keys are never rewritten": no key has two records that    *)
(* can be read back, under any of the faults.                              *)
RecordedOnce ==
  \A i, j \in DOMAIN file :
    Readable(file, i) /\ Readable(file, j) /\ file[i].key = file[j].key => i = j

(* No finding is reported twice, not even by a process that starts after   *)
(* a crash of the machine.  Holds as long as no write of a record is torn  *)
(* or short and no fsync fails.                                            *)
AtMostOnceReported == \A k \in Keys : reports[k] <= 1

(* A finding is hidden from the user by a kill or by its own sink, and by  *)
(* nothing else: each key that a process suppresses now, or that one that  *)
(* starts would, was reported, is on its way to the sink, was so when its  *)
(* process was killed or the machine stopped, or was refused by every      *)
(* output.  No exit, no error of the state file and no torn record does it.*)
HiddenByKillOrSink ==
  \A k \in Parsed(file) \cup UNION {seen[p] : p \in Procs} :
    reports[k] > 0 \/ k \in InHand(Threads) \/ k \in lost \/ k \in dropped

(* The store implements the abstract promise: recorded before reported,    *)
(* reported at most once, only unreported records are ever forgotten.      *)
D == INSTANCE Dedup WITH recorded <- Parsed(file)
ImplementsDedup == D!Spec
=============================================================================
