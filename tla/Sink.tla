-------------------------------- MODULE Sink --------------------------------
(***************************************************************************)
(* What sink.Emit of Pipeline does: the writers of internal/report and the *)
(* sinks of cmd/kl-scan/main.go that put them together.  The console       *)
(* writes a record in several calls of Write under one mutex per output,   *)
(* first to the terminal, then to the file of --out.  The json encoder has *)
(* one mutex, writes each record with one call to a MultiWriter of both,   *)
(* and keeps its first error.  Emit drops every error.                     *)
(***************************************************************************)
EXTENDS Pipeline

CONSTANTS
  Settings,     \* pairs of --output and whether --out is given
  NoWriter,
  FindingParts, \* calls of Write for a finding on the console
  MaxFailures   \* records with a write that fails: a full disk (bound)

ASSUME SinkAssumption ==
  /\ Settings \subseteq {"console", "json"} \X BOOLEAN
  /\ NoWriter \notin Workers
  /\ FindingParts \in Nat \ {0}
  /\ MaxFailures \in Nat

VARIABLES
  format,       \* --output
  toFile,       \* --out is given
  content,      \* what each output holds: parts of records, in its order
  mu,           \* the worker that holds each mutex
  out,          \* the output each worker is at
  part,         \* the part of the record it writes next
  encErr,       \* the json encoder has met an error
  failed        \* records with a failed write, for each output (history)

setVars  == <<format, toFile>>
penVars  == <<mu, out, part>>
sinkVars == <<setVars, content, penVars, encErr, failed>>
allVars  == <<vars, sinkVars>>

Outputs == {"stdout", "file"}
Mutexes == Outputs \cup {"encoder"}

\* The outputs of the sink, in the order in which a record goes to them.
Outs == IF toFile THEN <<"stdout", "file">> ELSE <<"stdout">>

\* How many calls of Write make a record: header, match, context if there is
\* one and a blank line on the console, one for json.
Parts == IF format = "json" THEN 1 ELSE FindingParts

SinkInit ==
  /\ Init
  /\ \E s \in Settings : format = s[1] /\ toFile = s[2]
  /\ content = [o \in Outputs |-> <<>>]
  /\ mu = [m \in Mutexes |-> NoWriter]
  /\ out = [w \in Workers |-> 1]
  /\ part = [w \in Workers |-> 1]
  /\ encErr = FALSE
  /\ failed = [o \in Outputs |-> {}]

\* The mutex under which worker w writes.
Mutex(w) == IF format = "json" THEN "encoder" ELSE Outs[out[w]]

\* Mutant of Holds: no mutex.
HoldsNothing(w) == TRUE

\* w holds the mutex or gets it now.
Holds(w) == mu[Mutex(w)] \in {w, NoWriter}

Writing(w) == worker[w] = "emit" /\ out[w] <= Len(Outs)
MayWrite(w) == Writing(w) /\ Holds(w) /\ ~encErr

\* What a call of Write leaves of the part w is at.
Piece(w, whole) == [rec |-> Key(w), part |-> part[w], whole |-> whole]
Put(w, whole) ==
  content' = [content EXCEPT ![Outs[out[w]]] = Append(@, Piece(w, whole))]

-----------------------------------------------------------------------------
\* The next part; the mutex stays with w.
NextPart(w) ==
  /\ part[w] < Parts
  /\ part' = [part EXCEPT ![w] = @ + 1]
  /\ mu' = [mu EXCEPT ![Mutex(w)] = w]
  /\ UNCHANGED out

\* The record is through with this output; the encoder keeps its mutex until
\* the MultiWriter is through with the last one.
NextOutput(w) ==
  /\ out' = [out EXCEPT ![w] = @ + 1]
  /\ part' = [part EXCEPT ![w] = 1]
  /\ mu' = [mu EXCEPT ![Mutex(w)] =
              IF format = "json" /\ out[w] < Len(Outs) THEN w ELSE NoWriter]

\* No further output.
Abandon(w) ==
  /\ out' = [out EXCEPT ![w] = Len(Outs) + 1]
  /\ part' = [part EXCEPT ![w] = 1]
  /\ mu' = [mu EXCEPT ![Mutex(w)] = NoWriter]

\* A call of Write that succeeds.
WritePart(w) ==
  /\ MayWrite(w)
  /\ Put(w, TRUE)
  /\ NextPart(w) \/ (part[w] = Parts /\ NextOutput(w))
  /\ UNCHANGED <<vars, setVars, encErr, failed>>

\* Mutant of GiveUp: an error at the terminal ends Emit.
GiveUpAll(w) ==
  /\ Abandon(w)
  /\ encErr' = (format = "json")

\* After an error the console goes on with the next output; the MultiWriter
\* and the encoder do not, and the encoder keeps the error.
GiveUp(w) == /\ IF format = "json" THEN Abandon(w) ELSE NextOutput(w)
             /\ encErr' = (format = "json")

\* A call of Write that fails, after nothing or after a piece of the part.
WriteFails(w) ==
  /\ MayWrite(w)
  /\ Cardinality(failed["stdout"]) + Cardinality(failed["file"]) < MaxFailures
  /\ Put(w, FALSE) \/ UNCHANGED content
  /\ failed' = [failed EXCEPT ![Outs[out[w]]] = @ \cup {Key(w)}]
  /\ GiveUp(w)
  /\ UNCHANGED <<vars, setVars>>

\* Encode returns the error it kept.
EncoderRefuses(w) ==
  /\ Writing(w)
  /\ Holds(w)
  /\ encErr
  /\ Abandon(w)
  /\ UNCHANGED <<vars, setVars, content, encErr, failed>>

\* Emit returns, whatever became of the record.
EmitReturns(w) ==
  /\ out[w] > Len(Outs)
  /\ Emit(w)
  /\ out' = [out EXCEPT ![w] = 1]
  /\ UNCHANGED <<setVars, content, mu, part, encErr, failed>>

-----------------------------------------------------------------------------
\* The steps of a worker other than Emit.
Elsewhere(w) ==
  /\ Take(w) \/ Leave(w) \/ Duplicate(w) \/ MarkNew(w) \/ recordStats(w) \/ LineDone(w)
  /\ UNCHANGED sinkVars

SinkWorkerStep(w) ==
  Elsewhere(w) \/ WritePart(w) \/ EncoderRefuses(w) \/ EmitReturns(w)

Around ==
  /\ \/ \E s \in Streams : StreamStep(s) \/ StreamEnds(s)
     \/ Close \/ Cancel \/ RunAgain
  /\ UNCHANGED sinkVars

SinkNext ==
  \/ \E w \in Workers : SinkWorkerStep(w) \/ WriteFails(w)
  \/ Around

SinkSpec == SinkInit /\ [][SinkNext]_allVars

\* As FairSpec of Pipeline; a worker in a writer goes on as well.
FairSinkSpec ==
  /\ SinkSpec
  /\ \A w \in Workers : WF_allVars(SinkWorkerStep(w))
  /\ \A s \in Streams : WF_allVars(StreamStep(s) /\ UNCHANGED sinkVars)
  /\ WF_allVars(Close /\ UNCHANGED sinkVars)
  /\ WF_allVars(RunAgain /\ UNCHANGED sinkVars)

-----------------------------------------------------------------------------
Pieces == [rec : DedupeKeys, part : Nat, whole : BOOLEAN]

SinkTypeOK ==
  /\ TypeOK
  /\ format \in {"console", "json"} /\ toFile \in BOOLEAN
  /\ content \in [Outputs -> Seq(Pieces)]
  /\ mu \in [Mutexes -> Workers \cup {NoWriter}]
  /\ out \in [Workers -> Nat \ {0}]
  /\ \A w \in Workers : out[w] <= Len(Outs) + 1
  /\ part \in [Workers -> Nat \ {0}]
  /\ \A w \in Workers : part[w] <= Parts
  /\ encErr \in BOOLEAN
  /\ failed \in [Outputs -> SUBSET DedupeKeys]

\* Piece d is the part behind piece c of the same record.
Continues(c, d) == c.whole /\ d.rec = c.rec /\ d.part = c.part + 1

\* Nothing is missing behind this piece of content[o]: it is the end of a
\* record, the record goes on, its write failed or a worker is at it.
Accounted(o, i) ==
  LET c == content[o] IN
  \/ c[i].whole /\ c[i].part = Parts
  \/ i < Len(c) /\ Continues(c[i], c[i+1])
  \/ c[i].rec \in failed[o]
  \/ i = Len(c) /\ \E w \in Workers : Writing(w) /\ Key(w) = c[i].rec

(* Records are never mixed, on any output: a part comes right behind the   *)
(* one before it, and a record ends early only when a write of it failed   *)
(* or it is the last and a worker is still at it.                          *)
RecordsAreWhole ==
  \A o \in Outputs : \A i \in DOMAIN content[o] :
    /\ content[o][i].part > 1 => i > 1 /\ Continues(content[o][i-1], content[o][i])
    /\ Accounted(o, i)

\* The records that are on output o to their last part.
Complete(o) == {c.rec : c \in {content[o][i] : i \in DOMAIN content[o]}
                                 \cap [rec : DedupeKeys, part : {Parts}, whole : {TRUE}]}

(* A failed write costs no more than it must.  On the console it costs     *)
(* this record on this output: the other output and the records behind it  *)
(* have all that Emit was given.  The json encoder writes nothing more on  *)
(* either; until then all is on both, the file in the order of stdout.     *)
FailureIsContained ==
  /\ \A k \in Reported, i \in DOMAIN Outs :
       k \in Complete(Outs[i]) \cup failed[Outs[i]] \/ encErr
  /\ encErr => \E o \in Outputs : failed[o] # {}
  /\ format = "json" =>
       \A i \in DOMAIN content["file"] :
         content["file"][i].whole => /\ i \in DOMAIN content["stdout"]
                                     /\ content["stdout"][i] = content["file"][i]
=============================================================================
