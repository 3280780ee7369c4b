----------------------------- MODULE Sink_proofs -----------------------------
(***************************************************************************)
(* Proofs about the sink behind the pipeline, for any settings, workers,   *)
(* streams and input, any number of parts of a finding and of failures.    *)
(***************************************************************************)
EXTENDS Sink, Pipeline_proofs

USE SinkAssumption

(* A step of the writers is no step of the pipeline until Emit returns.    *)
LEMMA StepRefines == [SinkNext]_allVars => [Next]_vars
<1>1. ASSUME NEW w \in Workers, SinkWorkerStep(w) \/ WriteFails(w) PROVE [Next]_vars
  BY <1>1 DEF SinkWorkerStep, WriteFails, Elsewhere, WritePart, EncoderRefuses,
              EmitReturns, Next, WorkerStep
<1>2. ASSUME Around PROVE [Next]_vars
  BY <1>2 DEF Around, Next
<1> QED BY <1>1, <1>2 DEF SinkNext, allVars

(* The pipeline with its sink is the pipeline: whatever is proved of the   *)
(* pipeline holds with writers that are slow, take turns and fail.         *)
THEOREM SinkImplementsPipeline == SinkSpec => Spec
<1>1. SinkInit => Init
  BY DEF SinkInit
<1> QED BY <1>1, StepRefines, PTL DEF SinkSpec, Spec

(* So a key reaches the sink once, the counters are true, and without a    *)
(* signal nothing is left out.                                             *)
THEOREM PipelineHoldsWithSink ==
  SinkSpec => [](EmittedOnce /\ TotalIsEmitted /\ CompleteWithoutSignal)
BY SinkImplementsPipeline, KeysAreEmittedOnce, CountersAreTrue, NothingIsLeftOut, PTL

-----------------------------------------------------------------------------
\* The output worker w is at, while it writes.
Where(w) == Outs[out[w]]

(* The settings never change, and there are one or two outputs.            *)
LEMMA OutsFacts ==
  ASSUME SinkTypeOK
  PROVE  /\ Len(Outs) \in {1, 2} /\ Parts \in Nat \ {0}
         /\ \A w \in Workers : Writing(w) => /\ Where(w) \in Outputs
                                           /\ Mutex(w) \in Mutexes
         /\ \A v, w \in Workers : Where(v) = Where(w) => Mutex(v) = Mutex(w)
<1>1. Len(Outs) \in {1, 2} /\ Parts \in Nat \ {0}
  BY DEF Outs, Parts, SinkTypeOK
<1>2. ASSUME NEW w \in Workers, Writing(w) PROVE Where(w) \in Outputs
  BY <1>2 DEF Writing, Where, Outs, Outputs, SinkTypeOK
<1>3. ASSUME NEW w \in Workers, Writing(w) PROVE Mutex(w) \in Mutexes
  BY <1>2, <1>3 DEF Mutex, Mutexes, Where
<1> QED BY <1>1, <1>2, <1>3 DEF Mutex, Where

(* What a step of a writer does with its pen: it goes on in its record or  *)
(* gives the mutex back, unless it goes to the encoder's next output.      *)
LEMMA PenStep ==
  ASSUME SinkTypeOK, NEW w \in Workers,
         WritePart(w) \/ WriteFails(w) \/ EncoderRefuses(w)
  PROVE  /\ UNCHANGED <<vars, setVars>>
         /\ Writing(w) /\ Holds(w)
         /\ \E o \in 1 .. Len(Outs) + 1, p \in 1 .. Parts, m \in {w, NoWriter} :
              /\ out' = [out EXCEPT ![w] = o]
              /\ part' = [part EXCEPT ![w] = p]
              /\ mu' = [mu EXCEPT ![Mutex(w)] = m]
              /\ p > 1 => o = out[w] /\ p = part[w] + 1 /\ m = w
              /\ m = w => o <= Len(Outs) /\ (o = out[w] \/ format = "json")
<1>1. /\ UNCHANGED <<vars, setVars>>
      /\ Writing(w) /\ Holds(w)
      /\ NextPart(w) \/ NextOutput(w) \/ Abandon(w)
  BY DEF WritePart, WriteFails, EncoderRefuses, MayWrite, GiveUp
<1>2. /\ out[w] \in Nat \ {0} /\ out[w] <= Len(Outs) /\ Len(Outs) \in Nat
      /\ part[w] \in Nat \ {0} /\ Parts \in Nat \ {0}
  BY <1>1, OutsFacts DEF Writing, SinkTypeOK
<1> DEFINE Moves(o, p, m) ==
      /\ out' = [out EXCEPT ![w] = o]
      /\ part' = [part EXCEPT ![w] = p]
      /\ mu' = [mu EXCEPT ![Mutex(w)] = m]
      /\ p > 1 => o = out[w] /\ p = part[w] + 1 /\ m = w
      /\ m = w => o <= Len(Outs) /\ (o = out[w] \/ format = "json")
<1> SUFFICES \E o \in 1 .. Len(Outs) + 1, p \in 1 .. Parts, m \in {w, NoWriter} :
               Moves(o, p, m)
  BY <1>1
<1>3. CASE NextPart(w)
  <2>1. out' = [out EXCEPT ![w] = out[w]]
    BY <1>3 DEF NextPart, SinkTypeOK
  <2>2. out[w] \in 1 .. Len(Outs) + 1 /\ part[w] + 1 \in 1 .. Parts
    BY <1>2, <1>3 DEF NextPart
  <2>3. part' = [part EXCEPT ![w] = part[w] + 1] /\ mu' = [mu EXCEPT ![Mutex(w)] = w]
    BY <1>3 DEF NextPart
  <2>4. Moves(out[w], part[w] + 1, w)
    BY <1>2, <2>1, <2>3
  <2> HIDE DEF Moves
  <2> QED BY <2>2, <2>4
<1>4. CASE NextOutput(w)
  <2>1. out[w] + 1 \in 1 .. Len(Outs) + 1 /\ 1 \in 1 .. Parts /\ ~(1 > 1)
    BY <1>2
  <2>2. CASE format = "json" /\ out[w] < Len(Outs)
    <3>1. Moves(out[w] + 1, 1, w)
      BY <1>2, <1>4, <2>2 DEF NextOutput
    <3> HIDE DEF Moves
    <3> QED BY <2>1, <3>1
  <2>3. CASE ~(format = "json" /\ out[w] < Len(Outs))
    <3>1. mu' = [mu EXCEPT ![Mutex(w)] = NoWriter] /\ NoWriter # w
      BY <1>4, <2>3 DEF NextOutput
    <3>2. Moves(out[w] + 1, 1, NoWriter)
      BY <1>4, <2>1, <3>1 DEF NextOutput
    <3> HIDE DEF Moves
    <3> QED BY <2>1, <3>2
  <2> QED BY <2>2, <2>3
<1>5. CASE Abandon(w)
  <2>1. /\ Moves(Len(Outs) + 1, 1, NoWriter)
        /\ Len(Outs) + 1 \in 1 .. Len(Outs) + 1 /\ 1 \in 1 .. Parts
    BY <1>2, <1>5 DEF Abandon
  <2> HIDE DEF Moves
  <2> QED BY <2>1
<1> QED BY <1>1, <1>3, <1>4, <1>5

(* What it does to the outputs.                                            *)
LEMMA ContentStep ==
  ASSUME SinkTypeOK, ClaimType, NEW w \in Workers,
         WritePart(w) \/ WriteFails(w) \/ EncoderRefuses(w)
  PROVE  /\ Key(w) \in DedupeKeys
         /\ \A b \in BOOLEAN : Piece(w, b) \in Pieces
         /\ \/ content' = content
            \/ \E b \in BOOLEAN : Put(w, b)
         /\ \/ failed' = failed
            \/ failed' = [failed EXCEPT ![Where(w)] = @ \cup {Key(w)}]
<1>1. Writing(w)
  BY PenStep
<1>2. Key(w) \in DedupeKeys
  BY <1>1, KeyType DEF Writing, ClaimType, Claims, Key, Current
<1>3. \A b \in BOOLEAN : Piece(w, b) \in Pieces
  BY <1>2 DEF Piece, Pieces, SinkTypeOK
<1> QED BY <1>2, <1>3 DEF WritePart, WriteFails, EncoderRefuses, Where

(* The steps in which no writer moves its pen.                             *)
LEMMA OtherStep ==
  ASSUME SinkTypeOK, [SinkNext]_allVars,
         ~\E w \in Workers : WritePart(w) \/ WriteFails(w) \/ EncoderRefuses(w)
  PROVE  /\ UNCHANGED <<setVars, content, mu, part, encErr, failed>>
         /\ \/ UNCHANGED out
            \/ \E w \in Workers : EmitReturns(w)
BY DEF SinkNext, SinkWorkerStep, Elsewhere, Around, EmitReturns, allVars, sinkVars,
       penVars

(* Every step keeps the types.                                             *)
LEMMA SinkTypeStep ==
  ASSUME SinkTypeOK, ClaimType, [SinkNext]_allVars
  PROVE  SinkTypeOK' /\ ClaimType'
<1>1. TypeOK' /\ ClaimType'
  BY StepRefines, TypeStep DEF SinkTypeOK
<1>2. ASSUME NEW w \in Workers, WritePart(w) \/ WriteFails(w) \/ EncoderRefuses(w)
      PROVE  SinkTypeOK'
  <2>1. /\ Outs' = Outs /\ Parts' = Parts /\ UNCHANGED setVars
    BY <1>2, PenStep DEF setVars, Outs, Parts
  <2>2. content' \in [Outputs -> Seq(Pieces)]
    <3>1. Where(w) \in Outputs
      BY <1>2, PenStep, OutsFacts
    <3>2. content[Where(w)] \in Seq(Pieces)
      BY <3>1 DEF SinkTypeOK
    <3>3. \A b \in BOOLEAN : Append(content[Where(w)], Piece(w, b)) \in Seq(Pieces)
      BY <1>2, <3>2, ContentStep
    <3>4. \/ content' = content
          \/ \E b \in BOOLEAN :
               content' = [content EXCEPT ![Where(w)] =
                             Append(content[Where(w)], Piece(w, b))]
      BY <1>2, ContentStep DEF Put, Where
    <3> QED BY <3>1, <3>3, <3>4 DEF SinkTypeOK
  <2>3. /\ mu' \in [Mutexes -> Workers \cup {NoWriter}]
        /\ out' \in [Workers -> Nat \ {0}]
        /\ \A v \in Workers : out'[v] <= Len(Outs) + 1
        /\ part' \in [Workers -> Nat \ {0}]
        /\ \A v \in Workers : part'[v] <= Parts
    <3>1. PICK o \in 1 .. Len(Outs) + 1, p \in 1 .. Parts, m \in {w, NoWriter} :
            /\ out' = [out EXCEPT ![w] = o]
            /\ part' = [part EXCEPT ![w] = p]
            /\ mu' = [mu EXCEPT ![Mutex(w)] = m]
      BY <1>2, PenStep
    <3>2. Mutex(w) \in Mutexes /\ Len(Outs) \in Nat /\ Parts \in Nat
      BY <1>2, PenStep, OutsFacts
    <3>3. mu' \in [Mutexes -> Workers \cup {NoWriter}]
      BY <3>1 DEF SinkTypeOK
    <3>4. /\ out' \in [Workers -> Nat \ {0}]
          /\ \A v \in Workers : out'[v] <= Len(Outs) + 1
      BY <3>1, <3>2 DEF SinkTypeOK
    <3>5. /\ part' \in [Workers -> Nat \ {0}]
          /\ \A v \in Workers : part'[v] <= Parts
      BY <3>1, <3>2 DEF SinkTypeOK
    <3> QED BY <3>3, <3>4, <3>5
  <2>4. encErr' \in BOOLEAN
    BY <1>2 DEF WritePart, WriteFails, EncoderRefuses, GiveUp, SinkTypeOK
  <2>5. failed' \in [Outputs -> SUBSET DedupeKeys]
    <3>1. Key(w) \in DedupeKeys /\ failed \in [Outputs -> SUBSET DedupeKeys]
      BY <1>2, ContentStep DEF SinkTypeOK
    <3>2. \/ failed' = failed
          \/ failed' = [failed EXCEPT ![Where(w)] = @ \cup {Key(w)}]
      BY <1>2, ContentStep
    <3> QED BY <3>1, <3>2
  <2> QED BY <1>1, <2>1, <2>2, <2>3, <2>4, <2>5 DEF SinkTypeOK, setVars
<1>3. CASE ~\E w \in Workers : WritePart(w) \/ WriteFails(w) \/ EncoderRefuses(w)
  <2>1. /\ UNCHANGED <<setVars, content, mu, part, encErr, failed>>
        /\ \/ UNCHANGED out
           \/ \E w \in Workers : EmitReturns(w)
    BY <1>3, OtherStep
  <2>2. Outs' = Outs /\ Parts' = Parts
    BY <2>1 DEF setVars, Outs, Parts
  <2>3. /\ out' \in [Workers -> Nat \ {0}]
        /\ \A v \in Workers : out'[v] <= Len(Outs) + 1
    <3>1. \/ out' = out
          \/ \E w \in Workers : out' = [out EXCEPT ![w] = 1]
      BY <2>1 DEF EmitReturns
    <3>2. /\ out \in [Workers -> Nat \ {0}] /\ Len(Outs) \in Nat
          /\ \A v \in Workers : out[v] <= Len(Outs) + 1
      BY OutsFacts DEF SinkTypeOK
    <3> QED BY <3>1, <3>2
  <2> QED BY <1>1, <2>1, <2>2, <2>3 DEF SinkTypeOK, setVars
<1> QED BY <1>1, <1>2, <1>3

(* At the start nothing is written.                                        *)
LEMMA SinkTypeInit == SinkInit => SinkTypeOK /\ ClaimType
<1> SUFFICES ASSUME SinkInit PROVE SinkTypeOK /\ ClaimType
  OBVIOUS
<1>1. TypeOK /\ ClaimType
  BY TypeInit DEF SinkInit
<1>2. format \in {"console", "json"} /\ toFile \in BOOLEAN
  BY DEF SinkInit
<1>3. Len(Outs) \in Nat /\ Parts \in Nat \ {0}
  BY DEF Outs, Parts
<1>4. <<>> \in Seq(Pieces)
  OBVIOUS
<1>5. content \in [Outputs -> Seq(Pieces)] /\ failed \in [Outputs -> SUBSET DedupeKeys]
  BY <1>4 DEF SinkInit
<1>6. /\ out \in [Workers -> Nat \ {0}] /\ \A w \in Workers : out[w] <= Len(Outs) + 1
      /\ part \in [Workers -> Nat \ {0}] /\ \A w \in Workers : part[w] <= Parts
  <2>1. out = [w \in Workers |-> 1] /\ part = [w \in Workers |-> 1]
    BY DEF SinkInit
  <2> QED BY <1>3, <2>1
<1>7. mu \in [Mutexes -> Workers \cup {NoWriter}] /\ encErr \in BOOLEAN
  BY DEF SinkInit
<1> QED BY <1>1, <1>2, <1>5, <1>6, <1>7 DEF SinkTypeOK

(* The variables of the sink keep their types.                             *)
THEOREM SinkTypeCorrect == SinkSpec => []SinkTypeOK
<1>1. SinkTypeOK /\ ClaimType /\ [SinkNext]_allVars => (SinkTypeOK /\ ClaimType)'
  BY SinkTypeStep
<1> QED BY <1>1, SinkTypeInit, PTL DEF SinkSpec

-----------------------------------------------------------------------------
\* Who holds a mutex, and what the pens say of it.
PenInv ==
  /\ encErr => format = "json"
  /\ \A w \in Workers : worker[w] # "emit" => out[w] = 1
  /\ \A w \in Workers : part[w] > 1 => Writing(w) /\ mu[Mutex(w)] = w
  /\ \A w \in Workers, m \in Mutexes : mu[m] = w => Writing(w) /\ m = Mutex(w)

(* A step without a pen leaves the workers in Emit where they are, but for *)
(* the one that returns from it.                                           *)
LEMMA EmittersStay ==
  ASSUME SinkTypeOK, [SinkNext]_allVars,
         ~\E w \in Workers : WritePart(w) \/ WriteFails(w) \/ EncoderRefuses(w)
  PROVE  \A v \in Workers : worker[v] = "emit" /\ ~EmitReturns(v) =>
           /\ worker'[v] = "emit" /\ out'[v] = out[v] /\ Key(v)' = Key(v)
<1> SUFFICES ASSUME NEW v \in Workers, worker[v] = "emit", ~EmitReturns(v)
             PROVE  /\ worker'[v] = "emit" /\ out'[v] = out[v]
                    /\ line'[v] = line[v] /\ idx'[v] = idx[v]
  BY DEF Key, Current
<1>1. ASSUME NEW w \in Workers, EmitReturns(w)
      PROVE  /\ worker'[v] = "emit" /\ out'[v] = out[v]
             /\ line'[v] = line[v] /\ idx'[v] = idx[v]
  <2>1. v # w
    BY <1>1
  <2> QED BY <1>1, <2>1 DEF EmitReturns, Emit, NextMatch, SinkTypeOK, TypeOK
<1>2. ASSUME NEW w \in Workers, Elsewhere(w)
      PROVE  /\ worker'[v] = "emit" /\ out'[v] = out[v]
             /\ line'[v] = line[v] /\ idx'[v] = idx[v]
  <2>1. v # w
    BY <1>2 DEF Elsewhere, Take, Leave, Duplicate, MarkNew, recordStats, LineDone
  <2>2. out' = out
    BY <1>2 DEF Elsewhere, sinkVars, penVars
  <2> QED BY <1>2, <2>1, <2>2
          DEF Elsewhere, Take, Leave, Duplicate, MarkNew, recordStats, LineDone,
              NextMatch, workVars, SinkTypeOK, TypeOK
<1>3. ASSUME Around
      PROVE  /\ worker'[v] = "emit" /\ out'[v] = out[v]
             /\ line'[v] = line[v] /\ idx'[v] = idx[v]
  BY <1>3 DEF Around, StreamStep, Send, SendCancelled, StreamEnds, Close, Cancel,
              RunAgain, RunEnds, workVars, sinkVars, penVars
<1>4. ASSUME UNCHANGED allVars
      PROVE  /\ worker'[v] = "emit" /\ out'[v] = out[v]
             /\ line'[v] = line[v] /\ idx'[v] = idx[v]
  BY <1>4 DEF allVars, sinkVars, penVars, vars, workVars
<1> QED BY <1>1, <1>2, <1>3, <1>4 DEF SinkNext, SinkWorkerStep

(* A step without a pen leaves the writers where they are.                 *)
LEMMA WritersStay ==
  ASSUME SinkTypeOK, [SinkNext]_allVars,
         ~\E w \in Workers : WritePart(w) \/ WriteFails(w) \/ EncoderRefuses(w)
  PROVE  \A v \in Workers : Writing(v) => /\ Writing(v)' /\ Key(v)' = Key(v)
                                          /\ out'[v] = out[v]
                                          /\ Where(v)' = Where(v) /\ Mutex(v)' = Mutex(v)
<1>1. Outs' = Outs /\ format' = format
  BY OtherStep DEF setVars, Outs
<1>2. \A v \in Workers : Writing(v) => worker[v] = "emit" /\ ~EmitReturns(v)
  BY OutsFacts DEF Writing, EmitReturns, SinkTypeOK
<1> QED BY <1>1, <1>2, EmittersStay DEF Writing, Where, Mutex

(* A worker that is not in Emit is in front of the first output.           *)
LEMMA PenRests ==
  ASSUME SinkTypeOK, PenInv, [SinkNext]_allVars,
         ~\E w \in Workers : WritePart(w) \/ WriteFails(w) \/ EncoderRefuses(w)
  PROVE  \A v \in Workers : worker'[v] # "emit" => out'[v] = 1
<1> SUFFICES ASSUME NEW v \in Workers, worker'[v] # "emit" PROVE out'[v] = 1
  OBVIOUS
<1>0. worker[v] # "emit" => out[v] = 1
  BY DEF PenInv
<1>1. ASSUME NEW w \in Workers, EmitReturns(w) PROVE out'[v] = 1
  BY <1>0, <1>1 DEF EmitReturns, Emit, SinkTypeOK, TypeOK
<1>2. ASSUME NEW w \in Workers, Elsewhere(w) PROVE out'[v] = 1
  <2>1. out' = out
    BY <1>2 DEF Elsewhere, sinkVars, penVars
  <2>2. worker[v] # "emit"
    BY <1>2 DEF Elsewhere, Take, Leave, Duplicate, MarkNew, recordStats, LineDone,
                SinkTypeOK, TypeOK
  <2> QED BY <1>0, <2>1, <2>2
<1>3. ASSUME Around PROVE out'[v] = 1
  BY <1>0, <1>3 DEF Around, StreamStep, Send, SendCancelled, StreamEnds, Close, Cancel,
                    RunAgain, RunEnds, workVars, sinkVars, penVars
<1>4. ASSUME UNCHANGED allVars PROVE out'[v] = 1
  BY <1>0, <1>4 DEF allVars, sinkVars, penVars, vars, workVars
<1> QED BY <1>1, <1>2, <1>3, <1>4 DEF SinkNext, SinkWorkerStep

(* Two workers do not write under one mutex.                               *)
LEMMA OneWriter ==
  ASSUME SinkTypeOK, PenInv, NEW v \in Workers, NEW w \in Workers, v # w,
         part[v] > 1, Writing(w), Holds(w)
  PROVE  Mutex(v) # Mutex(w) /\ Where(v) # Where(w)
<1>1. mu[Mutex(v)] = v /\ mu[Mutex(w)] \in {w, NoWriter} /\ v # NoWriter
  BY DEF PenInv, Holds
<1> QED BY <1>1, OutsFacts

(* Every step keeps the mutexes with the writers.                          *)
LEMMA PenKeeps ==
  ASSUME SinkTypeOK, PenInv, [SinkNext]_allVars
  PROVE  PenInv'
<1>1. ASSUME NEW w \in Workers, WritePart(w) \/ WriteFails(w) \/ EncoderRefuses(w)
      PROVE  PenInv'
  <2>1. PICK o \in 1 .. Len(Outs) + 1, p \in 1 .. Parts, m \in {w, NoWriter} :
          /\ out' = [out EXCEPT ![w] = o]
          /\ part' = [part EXCEPT ![w] = p]
          /\ mu' = [mu EXCEPT ![Mutex(w)] = m]
          /\ p > 1 => o = out[w] /\ p = part[w] + 1 /\ m = w
          /\ m = w => o <= Len(Outs) /\ (o = out[w] \/ format = "json")
    BY <1>1, PenStep
  <2>2. /\ Writing(w) /\ Holds(w) /\ Mutex(w) \in Mutexes /\ NoWriter \notin Workers
        /\ worker' = worker /\ format' = format /\ Outs' = Outs
    BY <1>1, PenStep, OutsFacts DEF setVars, vars, workVars, Outs
  <2>3. /\ out'[w] = o /\ part'[w] = p
        /\ \A v \in Workers \ {w} : out'[v] = out[v] /\ part'[v] = part[v]
        /\ mu'[Mutex(w)] = m
        /\ \A k \in Mutexes \ {Mutex(w)} : mu'[k] = mu[k]
    BY <2>1, <2>2 DEF SinkTypeOK
  <2>4. \A v \in Workers \ {w} : (Writing(v)' <=> Writing(v)) /\ Mutex(v)' = Mutex(v)
    BY <2>2, <2>3 DEF Writing, Mutex
  <2>5. m = w => Writing(w)' /\ Mutex(w)' = Mutex(w)
    BY <2>1, <2>2, <2>3 DEF Writing, Mutex
  <2>6. encErr' => format' = "json"
    BY <1>1, <2>2 DEF WritePart, WriteFails, EncoderRefuses, GiveUp, PenInv
  <2>7. \A v \in Workers : worker'[v] # "emit" => out'[v] = 1
    BY <2>2, <2>3 DEF PenInv, Writing
  <2>8. ASSUME NEW v \in Workers, part'[v] > 1 PROVE Writing(v)' /\ mu'[Mutex(v)'] = v
    <3>1. CASE v = w
      BY <2>1, <2>3, <2>5, <2>8, <3>1
    <3>2. CASE v # w
      <4>1. Writing(v) /\ mu[Mutex(v)] = v /\ Mutex(v) # Mutex(w)
        BY <2>2, <2>3, <2>8, <3>2, OneWriter DEF PenInv
      <4>2. Mutex(v) \in Mutexes
        BY <4>1, OutsFacts
      <4> QED BY <2>3, <2>4, <3>2, <4>1, <4>2
    <3> QED BY <3>1, <3>2
  <2>9. ASSUME NEW v \in Workers, NEW k \in Mutexes, mu'[k] = v
        PROVE  Writing(v)' /\ k = Mutex(v)'
    <3>1. CASE k = Mutex(w)
      BY <2>2, <2>3, <2>5, <2>9, <3>1
    <3>2. CASE k # Mutex(w)
      BY <2>3, <2>4, <2>9, <3>2 DEF PenInv
    <3> QED BY <3>1, <3>2
  <2> QED BY <2>6, <2>7, <2>8, <2>9 DEF PenInv
<1>2. CASE ~\E w \in Workers : WritePart(w) \/ WriteFails(w) \/ EncoderRefuses(w)
  <2>1. UNCHANGED <<format, encErr, mu, part>>
    BY <1>2, OtherStep DEF setVars
  <2>2. \A v \in Workers : Writing(v) => Writing(v)' /\ Mutex(v)' = Mutex(v)
    BY <1>2, WritersStay
  <2>3. \A v \in Workers : worker'[v] # "emit" => out'[v] = 1
    BY <1>2, PenRests
  <2> QED BY <2>1, <2>2, <2>3 DEF PenInv
<1> QED BY <1>1, <1>2

-----------------------------------------------------------------------------
\* The last piece on the output of a worker in the midst of a record is the
\* part it wrote before.
EndInv ==
  \A w \in Workers : part[w] > 1 =>
    LET c == content[Where(w)] IN
    Len(c) > 0 /\ c[Len(c)] = [rec |-> Key(w), part |-> part[w] - 1, whole |-> TRUE]

\* The records that workers are in the midst of on output o.
Unfinished(o) == {Key(w) : w \in {w \in Workers : part[w] > 1 /\ Where(w) = o}}

\* RecordsAreWhole for one output.
Whole(c, failures, busy) ==
  \A i \in DOMAIN c :
    /\ c[i].part > 1 => i > 1 /\ Continues(c[i-1], c[i])
    /\ \/ c[i].whole /\ c[i].part = Parts
       \/ i < Len(c) /\ Continues(c[i], c[i+1])
       \/ c[i].rec \in failures
       \/ i = Len(c) /\ c[i].rec \in busy

RecInv == \A o \in Outputs : Whole(content[o], failed[o], Unfinished(o))

(* What becomes of a record in a step of its writer: a part is whole, and  *)
(* the last one or not; or its write fails; or the encoder had failed.     *)
LEMMA WriterCases ==
  ASSUME SinkTypeOK, ClaimType, PenInv, NEW w \in Workers,
         WritePart(w) \/ WriteFails(w) \/ EncoderRefuses(w)
  PROVE  /\ \A o \in Outputs : failed[o] \subseteq failed'[o]
         /\ \/ /\ Put(w, TRUE)
               /\ \/ part'[w] = part[w] + 1 /\ out'[w] = out[w]
                  \/ part[w] = Parts /\ part'[w] = 1
            \/ /\ content' = content \/ Put(w, FALSE)
               /\ Key(w) \in failed'[Where(w)] /\ part'[w] = 1
            \/ content' = content /\ part[w] = 1 /\ part'[w] = 1
<1>1. /\ out[w] \in Nat \ {0} /\ part[w] \in Nat \ {0} /\ part[w] <= Parts
      /\ Where(w) \in Outputs /\ failed \in [Outputs -> SUBSET DedupeKeys]
  BY PenStep, OutsFacts DEF SinkTypeOK
<1>2. \A o \in Outputs : failed[o] \subseteq failed'[o]
  BY <1>1, ContentStep
<1>3. CASE WritePart(w)
  <2>1. /\ Put(w, TRUE)
        /\ \/ part' = [part EXCEPT ![w] = @ + 1] /\ out' = out
           \/ part[w] = Parts /\ part' = [part EXCEPT ![w] = 1]
    BY <1>3 DEF WritePart, NextPart, NextOutput
  <2> QED BY <1>2, <2>1 DEF SinkTypeOK
<1>4. CASE WriteFails(w)
  <2>1. /\ content' = content \/ Put(w, FALSE)
        /\ failed' = [failed EXCEPT ![Where(w)] = @ \cup {Key(w)}]
        /\ part' = [part EXCEPT ![w] = 1]
    BY <1>4 DEF WriteFails, GiveUp, NextOutput, Abandon, Where
  <2>2. Key(w) \in failed'[Where(w)] /\ part'[w] = 1
    BY <1>1, <2>1 DEF SinkTypeOK
  <2> QED BY <1>2, <2>1, <2>2
<1>5. CASE EncoderRefuses(w)
  <2>1. content' = content /\ part' = [part EXCEPT ![w] = 1] /\ format = "json"
    BY <1>5 DEF EncoderRefuses, Abandon, PenInv
  <2>2. part[w] = 1
    BY <1>1, <2>1 DEF Parts
  <2> QED BY <1>2, <2>1, <2>2 DEF SinkTypeOK
<1> QED BY <1>3, <1>4, <1>5

(* A part is put behind the parts that are there.                          *)
LEMMA PutFacts ==
  ASSUME SinkTypeOK, ClaimType, NEW w \in Workers, NEW b \in BOOLEAN, Put(w, b),
         WritePart(w) \/ WriteFails(w) \/ EncoderRefuses(w)
  PROVE  LET c == content[Where(w)]
             d == content'[Where(w)]
         IN  /\ Len(c) \in Nat /\ DOMAIN c = 1 .. Len(c)
             /\ Len(d) = Len(c) + 1 /\ DOMAIN d = 1 .. Len(c) + 1
             /\ \A i \in 1 .. Len(c) : d[i] = c[i]
             /\ d[Len(c) + 1] = Piece(w, b)
             /\ \A o \in Outputs \ {Where(w)} : content'[o] = content[o]
<1>1. Where(w) \in Outputs /\ Piece(w, b) \in Pieces
  BY PenStep, OutsFacts, ContentStep
<1>2. content[Where(w)] \in Seq(Pieces)
  BY <1>1 DEF SinkTypeOK
<1>3. content' = [content EXCEPT ![Where(w)] = Append(content[Where(w)], Piece(w, b))]
  BY DEF Put, Where
<1>4. /\ content'[Where(w)] = Append(content[Where(w)], Piece(w, b))
      /\ \A o \in Outputs \ {Where(w)} : content'[o] = content[o]
  BY <1>1, <1>3 DEF SinkTypeOK
<1> HIDE DEF Where, Piece
<1> QED BY <1>1, <1>2, <1>4

(* The other workers do not notice it.                                     *)
LEMMA OthersUnmoved ==
  ASSUME SinkTypeOK, NEW w \in Workers,
         WritePart(w) \/ WriteFails(w) \/ EncoderRefuses(w)
  PROVE  /\ Outs' = Outs /\ Parts' = Parts
         /\ \A v \in Workers : Key(v)' = Key(v)
         /\ out'[w] = out[w] => Where(w)' = Where(w)
         /\ \A v \in Workers \ {w} : part'[v] = part[v] /\ Where(v)' = Where(v)
<1>1. UNCHANGED <<vars, setVars>>
  BY PenStep
<1>2. Outs' = Outs /\ Parts' = Parts /\ (\A v \in Workers : Key(v)' = Key(v))
  BY <1>1 DEF vars, setVars, workVars, Outs, Parts, Key, Current
<1>3. \A v \in Workers \ {w} : part'[v] = part[v] /\ out'[v] = out[v]
  BY PenStep DEF SinkTypeOK
<1> QED BY <1>2, <1>3 DEF Where

(* Every step keeps the last piece of each output with its writer.         *)
LEMMA EndKeeps ==
  ASSUME SinkTypeOK, ClaimType, PenInv, EndInv, [SinkNext]_allVars
  PROVE  EndInv'
<1>1. ASSUME NEW w \in Workers, WritePart(w) \/ WriteFails(w) \/ EncoderRefuses(w)
      PROVE  EndInv'
  <2>1. /\ Writing(w) /\ Holds(w) /\ part[w] \in Nat \ {0}
        /\ \A v \in Workers : Key(v)' = Key(v)
    BY <1>1, PenStep, OthersUnmoved DEF SinkTypeOK
  <2>2. ASSUME NEW v \in Workers \ {w}, part'[v] > 1
        PROVE  /\ Len(content'[Where(v)']) > 0
               /\ content'[Where(v)'][Len(content'[Where(v)'])]
                    = [rec |-> Key(v)', part |-> part'[v] - 1, whole |-> TRUE]
    <3>1. /\ part'[v] = part[v] /\ Where(v)' = Where(v) /\ Key(v)' = Key(v)
      BY <1>1, OthersUnmoved
    <3>2. Writing(v) /\ Where(v) # Where(w)
      BY <2>1, <2>2, <3>1, OneWriter DEF PenInv
    <3>3. content'[Where(v)] = content[Where(v)]
      BY <1>1, <3>2, ContentStep, PutFacts, OutsFacts
    <3> QED BY <2>2, <3>1, <3>3 DEF EndInv
  <2>3. ASSUME part'[w] > 1
        PROVE  /\ Len(content'[Where(w)']) > 0
               /\ content'[Where(w)'][Len(content'[Where(w)'])]
                    = [rec |-> Key(w)', part |-> part'[w] - 1, whole |-> TRUE]
    <3>0. part'[w] # 1
      BY <2>3
    <3>1. Put(w, TRUE) /\ part'[w] = part[w] + 1 /\ out'[w] = out[w]
      BY <1>1, <3>0, WriterCases
    <3>2. Where(w)' = Where(w) /\ Key(w)' = Key(w)
      BY <1>1, <3>1, OthersUnmoved
    <3>3. /\ Len(content'[Where(w)]) = Len(content[Where(w)]) + 1
          /\ Len(content[Where(w)]) \in Nat
          /\ content'[Where(w)][Len(content'[Where(w)])] = Piece(w, TRUE)
      BY <1>1, <3>1, PutFacts
    <3>4. part'[w] - 1 = part[w]
      BY <2>1, <3>1
    <3>5. Piece(w, TRUE) = [rec |-> Key(w)', part |-> part'[w] - 1, whole |-> TRUE]
      BY <3>2, <3>4 DEF Piece
    <3>6. Len(content'[Where(w)]) > 0
      BY <3>3
    <3>7. content'[Where(w)'] = content'[Where(w)]
      BY <3>2
    <3> QED BY <3>3, <3>5, <3>6, <3>7, Zenon
  <2> QED BY <2>2, <2>3 DEF EndInv
<1>2. CASE ~\E w \in Workers : WritePart(w) \/ WriteFails(w) \/ EncoderRefuses(w)
  <2>1. content' = content /\ part' = part
    BY <1>2, OtherStep
  <2>2. \A v \in Workers : part[v] > 1 => Key(v)' = Key(v) /\ Where(v)' = Where(v)
    BY <1>2, WritersStay DEF PenInv
  <2> QED BY <2>1, <2>2 DEF EndInv
<1> QED BY <1>1, <1>2

(* A worker that is in the midst of a record continues its last piece.     *)
LEMMA PieceContinues ==
  ASSUME SinkTypeOK, EndInv, NEW w \in Workers, part[w] > 1, NEW b \in BOOLEAN
  PROVE  LET c == content[Where(w)]
         IN  Len(c) > 0 /\ c[Len(c)].rec = Key(w) /\ Continues(c[Len(c)], Piece(w, b))
<1>1. /\ Len(content[Where(w)]) > 0
      /\ content[Where(w)][Len(content[Where(w)])]
           = [rec |-> Key(w), part |-> part[w] - 1, whole |-> TRUE]
  BY DEF EndInv
<1>2. part[w] = (part[w] - 1) + 1
  BY DEF SinkTypeOK
<1> QED BY <1>1, <1>2 DEF Continues, Piece

(* More failures, and the last record still accounted for.                 *)
LEMMA SameWhole ==
  ASSUME NEW c \in Seq(Pieces), NEW F, NEW G, NEW B, NEW C, F \subseteq G, Whole(c, F, B),
         Len(c) > 0 /\ c[Len(c)].rec \in B => c[Len(c)].rec \in G \cup C
  PROVE  Whole(c, G, C)
BY DEF Whole

(* A piece that continues the last one or begins a record.                 *)
LEMMA AppendWhole ==
  ASSUME NEW c \in Seq(Pieces), NEW p \in Pieces, NEW F, NEW G, NEW B, NEW C,
         F \subseteq G, Whole(c, F, B),
         p.part > 1 => Len(c) > 0 /\ Continues(c[Len(c)], p),
         (p.whole /\ p.part = Parts) \/ p.rec \in G \cup C,
         Len(c) > 0 /\ c[Len(c)].rec \in B
           => Continues(c[Len(c)], p) \/ c[Len(c)].rec \in G
  PROVE  Whole(Append(c, p), G, C)
<1> DEFINE d == Append(c, p)
<1>1. /\ Len(c) \in Nat /\ DOMAIN c = 1 .. Len(c)
      /\ Len(d) = Len(c) + 1 /\ DOMAIN d = 1 .. Len(c) + 1
      /\ \A i \in 1 .. Len(c) : d[i] = c[i]
      /\ d[Len(c) + 1] = p
  OBVIOUS
<1> HIDE DEF d
<1>2. ASSUME NEW i \in 1 .. Len(c)
      PROVE  /\ d[i].part > 1 => i > 1 /\ Continues(d[i-1], d[i])
             /\ \/ d[i].whole /\ d[i].part = Parts
                \/ i < Len(d) /\ Continues(d[i], d[i+1])
                \/ d[i].rec \in G
  <2>1. /\ d[i] = c[i] /\ (i > 1 => d[i-1] = c[i-1]) /\ i < Len(d)
        /\ (i < Len(c) => d[i+1] = c[i+1]) /\ (i = Len(c) => d[i+1] = p)
    BY <1>1
  <2>2. /\ c[i].part > 1 => i > 1 /\ Continues(c[i-1], c[i])
        /\ \/ c[i].whole /\ c[i].part = Parts
           \/ i < Len(c) /\ Continues(c[i], c[i+1])
           \/ c[i].rec \in F
           \/ i = Len(c) /\ c[i].rec \in B
    BY <1>1 DEF Whole
  <2>3. i = Len(c) => Len(c) > 0
    BY <1>1
  <2> QED BY <2>1, <2>2, <2>3
<1>3. /\ p.part > 1 => Len(c) + 1 > 1 /\ Continues(d[Len(c) + 1 - 1], p)
      /\ (p.whole /\ p.part = Parts) \/ p.rec \in G \/ p.rec \in C
  BY <1>1
<1>4. Whole(d, G, C)
  BY <1>1, <1>2, <1>3 DEF Whole
<1> QED BY <1>4 DEF d

(* A step of a writer keeps the records whole on its own output.           *)
LEMMA RecOwnOutput ==
  ASSUME SinkTypeOK, ClaimType, PenInv, EndInv, RecInv, NEW w \in Workers,
         WritePart(w) \/ WriteFails(w) \/ EncoderRefuses(w),
         NEW o \in Outputs, o = Where(w)
  PROVE  Whole(content'[o], failed'[o], Unfinished(o)')
<1> DEFINE c == content[o]
<1>1. /\ Writing(w) /\ Holds(w) /\ o \in Outputs /\ part[w] \in Nat \ {0}
      /\ c \in Seq(Pieces) /\ failed[o] \subseteq failed'[o]
      /\ Whole(c, failed[o], Unfinished(o))
      /\ \A b \in BOOLEAN : Piece(w, b) \in Pieces
  BY PenStep, OutsFacts, WriterCases, ContentStep DEF SinkTypeOK, RecInv
<1>2. \A k \in Unfinished(o) : k = Key(w) /\ part[w] > 1
  BY <1>1, OneWriter DEF Unfinished
<1>3. \A b \in BOOLEAN :
        /\ Piece(w, b).part > 1 => Len(c) > 0 /\ Continues(c[Len(c)], Piece(w, b))
        /\ Len(c) > 0 /\ c[Len(c)].rec \in Unfinished(o) => Continues(c[Len(c)], Piece(w, b))
  BY <1>2, PieceContinues DEF Piece
<1>4. \A b \in BOOLEAN : Put(w, b) => content'[o] = Append(c, Piece(w, b))
  BY <1>1 DEF Put, Where, SinkTypeOK
<1>5. CASE Put(w, TRUE) /\ (\/ part'[w] = part[w] + 1 /\ out'[w] = out[w]
                            \/ part[w] = Parts /\ part'[w] = 1)
  <2>1. \/ Piece(w, TRUE).whole /\ Piece(w, TRUE).part = Parts
        \/ Piece(w, TRUE).rec \in failed'[o] \cup Unfinished(o)'
    <3>1. CASE part[w] = Parts
      BY <3>1 DEF Piece
    <3>2. CASE part'[w] = part[w] + 1 /\ out'[w] = out[w]
      <4>1. part'[w] > 1 /\ Where(w)' = o /\ Key(w)' = Key(w)
        BY <1>1, <3>2, OthersUnmoved
      <4>2. Key(w) \in Unfinished(o)'
        BY <4>1 DEF Unfinished
      <4> QED BY <4>2 DEF Piece
    <3> QED BY <1>5, <3>1, <3>2
  <2> DEFINE p == Piece(w, TRUE)
  <2>2. /\ p \in Pieces /\ content'[o] = Append(c, p)
        /\ p.part > 1 => Len(c) > 0 /\ Continues(c[Len(c)], p)
        /\ Len(c) > 0 /\ c[Len(c)].rec \in Unfinished(o)
             => Continues(c[Len(c)], p) \/ c[Len(c)].rec \in failed'[o]
    BY <1>1, <1>3, <1>4, <1>5
  <2> HIDE DEF c, p
  <2>3. Whole(Append(c, p), failed'[o], Unfinished(o)')
    BY <1>1, <2>1, <2>2, AppendWhole DEF p
  <2> QED BY <2>2, <2>3
<1>6. CASE /\ content' = content \/ Put(w, FALSE)
           /\ Key(w) \in failed'[Where(w)]
  <2>1. Piece(w, FALSE).rec \in failed'[o] \cup Unfinished(o)'
    BY <1>6 DEF Piece
  <2>2. \A k \in Unfinished(o) : k \in failed'[o]
    BY <1>2, <1>6
  <2> HIDE DEF c
  <2>3. CASE content' = content
    BY <1>1, <2>2, <2>3, SameWhole DEF c
  <2>4. CASE Put(w, FALSE)
    <3> DEFINE p == Piece(w, FALSE)
    <3>1. /\ p \in Pieces /\ content'[o] = Append(c, p)
          /\ p.part > 1 => Len(c) > 0 /\ Continues(c[Len(c)], p)
          /\ Len(c) > 0 /\ c[Len(c)].rec \in Unfinished(o)
               => Continues(c[Len(c)], p) \/ c[Len(c)].rec \in failed'[o]
      BY <1>1, <1>3, <1>4, <2>4
    <3>2. p.rec \in failed'[o] \cup Unfinished(o)'
      BY <2>1
    <3> HIDE DEF p
    <3>3. Whole(Append(c, p), failed'[o], Unfinished(o)')
      BY <1>1, <3>1, <3>2, AppendWhole
    <3> QED BY <3>1, <3>3
  <2> QED BY <1>6, <2>3, <2>4
<1>7. CASE content' = content /\ part[w] = 1
  <2>1. \A k : k \notin Unfinished(o)
    BY <1>2, <1>7
  <2> HIDE DEF c
  <2> QED BY <1>1, <1>7, <2>1, SameWhole DEF c
<1> QED BY <1>5, <1>6, <1>7, WriterCases

(* Every step keeps the records of every output whole.                     *)
LEMMA RecKeeps ==
  ASSUME SinkTypeOK, ClaimType, PenInv, EndInv, RecInv, [SinkNext]_allVars
  PROVE  RecInv'
<1>1. Parts' = Parts
  BY OthersUnmoved, OtherStep DEF setVars, Parts
<1> SUFFICES ASSUME NEW o \in Outputs
             PROVE  Whole(content'[o], failed'[o], Unfinished(o)')
  BY <1>1 DEF RecInv, Whole
<1>2. ASSUME NEW w \in Workers, WritePart(w) \/ WriteFails(w) \/ EncoderRefuses(w)
      PROVE  Whole(content'[o], failed'[o], Unfinished(o)')
  <2>1. CASE o = Where(w)
    BY <1>2, <2>1, RecOwnOutput
  <2>2. CASE o # Where(w)
    <3>1. content'[o] = content[o] /\ failed[o] \subseteq failed'[o]
      BY <1>2, <2>2, ContentStep, PutFacts, WriterCases
    <3>2. Unfinished(o) \subseteq Unfinished(o)'
      BY <1>2, <2>2, OthersUnmoved DEF Unfinished
    <3>3. content[o] \in Seq(Pieces) /\ Whole(content[o], failed[o], Unfinished(o))
      BY DEF RecInv, SinkTypeOK
    <3> HIDE DEF Unfinished
    <3> QED BY <3>1, <3>2, <3>3, SameWhole
  <2> QED BY <2>1, <2>2
<1>3. CASE ~\E w \in Workers : WritePart(w) \/ WriteFails(w) \/ EncoderRefuses(w)
  <2>1. content' = content /\ failed' = failed /\ part' = part
    BY <1>3, OtherStep
  <2>2. \A v \in Workers : part[v] > 1 => Key(v)' = Key(v) /\ Where(v)' = Where(v)
    BY <1>3, WritersStay DEF PenInv
  <2>3. Unfinished(o) \subseteq Unfinished(o)'
    BY <2>1, <2>2 DEF Unfinished
  <2>4. content[o] \in Seq(Pieces) /\ Whole(content[o], failed[o], Unfinished(o))
    BY DEF RecInv, SinkTypeOK
  <2> QED BY <2>1, <2>3, <2>4, SameWhole
<1> QED BY <1>2, <1>3

(* At the start nobody writes and nothing is written.                      *)
LEMMA RecInit == SinkInit => PenInv /\ EndInv /\ RecInv
<1> SUFFICES ASSUME SinkInit PROVE PenInv /\ EndInv /\ RecInv
  OBVIOUS
<1>1. \A w \in Workers : out[w] = 1 /\ ~(part[w] > 1) /\ w # NoWriter
  BY DEF SinkInit
<1>2. ~encErr /\ (\A m \in Mutexes : mu[m] = NoWriter)
  BY DEF SinkInit
<1>3. \A o \in Outputs : content[o] = <<>>
  BY DEF SinkInit
<1> QED BY <1>1, <1>2, <1>3 DEF PenInv, EndInv, RecInv, Whole

(* On every output records are whole and apart, but for the one a worker   *)
(* is at and those with a failed write, however workers take turns.        *)
THEOREM RecordsStayWhole == SinkSpec => []RecordsAreWhole
<1>1. /\ SinkTypeOK /\ ClaimType /\ PenInv /\ EndInv /\ RecInv /\ [SinkNext]_allVars
      => (SinkTypeOK /\ ClaimType /\ PenInv /\ EndInv /\ RecInv)'
  BY SinkTypeStep, PenKeeps, EndKeeps, RecKeeps
<1>2. PenInv /\ RecInv => RecordsAreWhole
  BY DEF PenInv, RecInv, Whole, Unfinished, RecordsAreWhole, Accounted
<1> QED BY <1>1, <1>2, SinkTypeInit, RecInit, PTL DEF SinkSpec

-----------------------------------------------------------------------------
\* Record k is on output o, or its write there failed, or the encoder has.
Settled(k, o) == k \in Complete(o) \cup failed[o] \/ encErr

\* What Emit has left behind it is settled, and so is what it was given.
SettledInv ==
  /\ encErr => \E o \in Outputs : failed[o] # {}
  /\ \A w \in Workers : worker[w] = "emit" =>
       \A i \in DOMAIN Outs : i < out[w] => Settled(Key(w), Outs[i])
  /\ \A k \in Reported, i \in DOMAIN Outs : Settled(k, Outs[i])

(* Pieces stay where they are.                                             *)
LEMMA PiecesStay ==
  ASSUME SinkTypeOK, ClaimType, NEW w \in Workers,
         WritePart(w) \/ WriteFails(w) \/ EncoderRefuses(w)
  PROVE  \A o \in Outputs : \A i \in DOMAIN content[o] :
           i \in DOMAIN content'[o] /\ content'[o][i] = content[o][i]
<1>1. CASE content' = content
  BY <1>1
<1>2. CASE \E b \in BOOLEAN : Put(w, b)
  BY <1>2, PutFacts
<1> QED BY <1>1, <1>2, ContentStep

(* Records on an output stay there, and a last part completes one.         *)
LEMMA CompleteGrows ==
  ASSUME SinkTypeOK, ClaimType, PenInv, NEW w \in Workers,
         WritePart(w) \/ WriteFails(w) \/ EncoderRefuses(w)
  PROVE  /\ \A o \in Outputs : Complete(o) \subseteq Complete(o)'
         /\ Put(w, TRUE) /\ part[w] = Parts => \A o : o = Where(w) => Key(w) \in Complete(o)'
<1>1. Parts' = Parts /\ Where(w) \in Outputs /\ Key(w) \in DedupeKeys
  BY PenStep, OutsFacts, OthersUnmoved, ContentStep
<1>2. ASSUME NEW o \in Outputs, NEW k \in Complete(o) PROVE k \in Complete(o)'
  <2>1. PICK i \in DOMAIN content[o] :
          content[o][i] \in [rec : DedupeKeys, part : {Parts}, whole : {TRUE}]
          /\ k = content[o][i].rec
    BY <1>2 DEF Complete
  <2>2. i \in DOMAIN content'[o] /\ content'[o][i] = content[o][i]
    BY <2>1, PiecesStay
  <2> QED BY <1>1, <2>1, <2>2 DEF Complete
<1>3. ASSUME Put(w, TRUE), part[w] = Parts, NEW o, o = Where(w) PROVE Key(w) \in Complete(o)'
  <2>1. PICK i \in DOMAIN content'[o] : content'[o][i] = Piece(w, TRUE)
    <3>1. TRUE \in BOOLEAN
      OBVIOUS
    <3>2. LET d == content'[Where(w)]
              n == Len(content[Where(w)])
          IN  n \in Nat /\ DOMAIN d = 1 .. n + 1 /\ d[n + 1] = Piece(w, TRUE)
      BY <1>3, <3>1, PutFacts
    <3>3. /\ Len(content[o]) + 1 \in DOMAIN content'[o]
          /\ content'[o][Len(content[o]) + 1] = Piece(w, TRUE)
      BY <1>3, <3>2
    <3> QED BY <3>3
  <2> DEFINE r == [rec |-> Key(w), part |-> Parts, whole |-> TRUE]
  <2>2. Piece(w, TRUE) = r
    BY <1>3 DEF Piece
  <2>3. r \in [rec : DedupeKeys, part : {Parts'}, whole : {TRUE}] /\ r.rec = Key(w)
    BY <1>1
  <2> HIDE DEF r
  <2> QED BY <2>1, <2>2, <2>3 DEF Complete
<1> QED BY <1>2, <1>3

(* A writer settles its record on every output it leaves.                  *)
LEMMA WriterSettles ==
  ASSUME SinkTypeOK, ClaimType, PenInv, SettledInv, NEW w \in Workers,
         WritePart(w) \/ WriteFails(w) \/ EncoderRefuses(w)
  PROVE  SettledInv'
<1>1. /\ UNCHANGED <<vars, setVars>> /\ Writing(w) /\ Where(w) \in Outputs
      /\ Len(Outs) \in {1, 2} /\ out[w] \in Nat \ {0} /\ out[w] <= Len(Outs)
  BY PenStep, OutsFacts DEF Writing, SinkTypeOK
<1>2. /\ Outs' = Outs /\ Reported' = Reported /\ worker' = worker
      /\ \A v \in Workers : Key(v)' = Key(v)
      /\ \A v \in Workers \ {w} : out'[v] = out[v]
  <2>1. \A v \in Workers \ {w} : out'[v] = out[v]
    BY PenStep DEF SinkTypeOK
  <2> QED BY <1>1, <2>1, OthersUnmoved DEF vars, workVars, outVars, Reported
<1>3. \A i \in DOMAIN Outs : Outs[i] \in Outputs
  BY DEF Outs, Outputs
<1>4. encErr => encErr'
  BY DEF WritePart, WriteFails, EncoderRefuses, GiveUp, PenInv
<1>5. \A o \in Outputs : failed[o] \subseteq failed'[o]
  BY WriterCases
<1>6. ASSUME NEW o \in Outputs, NEW k, Settled(k, o) PROVE Settled(k, o)'
  BY <1>4, <1>5, <1>6, CompleteGrows DEF Settled
<1>7. encErr' => \E o \in Outputs : failed'[o] # {}
  <2>1. CASE WriteFails(w)
    <3>1. failed'[Where(w)] = failed[Where(w)] \cup {Key(w)}
      BY <1>1, <2>1 DEF WriteFails, Where, SinkTypeOK
    <3> QED BY <1>1, <3>1
  <2>2. CASE WritePart(w) \/ EncoderRefuses(w)
    BY <1>5, <2>2 DEF WritePart, EncoderRefuses, SettledInv
  <2> QED BY <2>1, <2>2
<1>8. ASSUME NEW i \in DOMAIN Outs, i < out'[w], NEW o \in Outputs, o = Outs[i],
             NEW k, k = Key(w)
      PROVE  Settled(k, o)'
  <2>1. CASE i < out[w]
    BY <1>1, <1>6, <1>8, <2>1 DEF SettledInv, Writing
  <2>2. CASE ~(i < out[w])
    <3>1. i \in Nat /\ i >= out[w]
      BY <1>1, <2>2
    <3>2. CASE WritePart(w)
      <4>1. part[w] = Parts /\ Put(w, TRUE) /\ out' = [out EXCEPT ![w] = out[w] + 1]
        BY <1>8, <2>2, <3>2 DEF WritePart, NextPart, NextOutput
      <4>2. i = out[w]
        BY <1>1, <1>8, <3>1, <4>1 DEF SinkTypeOK
      <4> QED BY <1>8, <4>1, <4>2, CompleteGrows DEF Settled, Where
    <3>3. CASE WriteFails(w)
      <4>1. CASE format = "json"
        BY <3>3, <4>1 DEF WriteFails, GiveUp, Settled
      <4>2. CASE format # "json"
        <5>1. out' = [out EXCEPT ![w] = out[w] + 1]
          BY <3>3, <4>2 DEF WriteFails, GiveUp, NextOutput
        <5>2. i = out[w]
          BY <1>1, <1>8, <3>1, <5>1 DEF SinkTypeOK
        <5>3. Key(w) \in failed'[o]
          BY <1>8, <3>3, <5>2 DEF WriteFails, SinkTypeOK
        <5> QED BY <1>8, <5>3 DEF Settled
      <4> QED BY <4>1, <4>2
    <3>4. CASE EncoderRefuses(w)
      BY <3>4 DEF EncoderRefuses, Settled
    <3> QED BY <3>2, <3>3, <3>4
  <2> QED BY <2>1, <2>2
<1>9. ASSUME NEW v \in Workers, worker'[v] = "emit", NEW i \in DOMAIN Outs, i < out'[v],
             NEW o \in Outputs, o = Outs[i], NEW k, k = Key(v)
      PROVE  Settled(k, o)'
  <2>1. CASE v = w
    BY <1>8, <1>9, <2>1
  <2>2. CASE v # w
    BY <1>2, <1>6, <1>9, <2>2 DEF SettledInv
  <2> QED BY <2>1, <2>2
<1>10. ASSUME NEW k \in Reported, NEW i \in DOMAIN Outs, NEW o \in Outputs, o = Outs[i]
       PROVE  Settled(k, o)'
  BY <1>6, <1>10 DEF SettledInv
<1> QED BY <1>2, <1>3, <1>7, <1>9, <1>10 DEF SettledInv, Settled

(* A step without a pen brings a worker no further: to the first output at *)
(* most, when it returns from Emit.                                        *)
LEMMA OutRests ==
  ASSUME SinkTypeOK, PenInv, [SinkNext]_allVars,
         ~\E w \in Workers : WritePart(w) \/ WriteFails(w) \/ EncoderRefuses(w)
  PROVE  \A v \in Workers : out'[v] > 1 =>
           /\ out'[v] = out[v] /\ worker[v] = "emit"
           /\ worker'[v] = "emit" /\ Key(v)' = Key(v)
<1> SUFFICES ASSUME NEW v \in Workers, out'[v] > 1
             PROVE  /\ out'[v] = out[v] /\ worker[v] = "emit"
                    /\ worker'[v] = "emit" /\ Key(v)' = Key(v)
  OBVIOUS
<1>1. out \in [Workers -> Nat \ {0}]
  BY DEF SinkTypeOK
<1>2. ~EmitReturns(v)
  BY <1>1 DEF EmitReturns
<1>3. out'[v] = out[v]
  BY <1>1, <1>2, OtherStep DEF EmitReturns
<1>4. worker[v] = "emit"
  BY <1>3 DEF PenInv
<1> QED BY <1>2, <1>3, <1>4, EmittersStay

(* What is new to the sink is settled when Emit returns.                   *)
LEMMA RestSettles ==
  ASSUME SinkTypeOK, ClaimType, PenInv, SettledInv, [SinkNext]_allVars,
         ~\E w \in Workers : WritePart(w) \/ WriteFails(w) \/ EncoderRefuses(w)
  PROVE  SettledInv'
<1>1. /\ UNCHANGED <<content, encErr, failed>> /\ Outs' = Outs /\ Parts' = Parts
      /\ Len(Outs) \in {1, 2} /\ DOMAIN Outs = 1 .. Len(Outs)
  <2>1. /\ UNCHANGED <<content, encErr, failed>> /\ Outs' = Outs /\ Parts' = Parts
    BY OtherStep DEF setVars, Outs, Parts
  <2>2. DOMAIN Outs = 1 .. Len(Outs)
    <3>1. CASE toFile
      <4>1. Outs = <<"stdout", "file">>
        BY <3>1 DEF Outs
      <4> QED BY <4>1
    <3>2. CASE ~toFile
      <4>1. Outs = <<"stdout">>
        BY <3>2 DEF Outs
      <4> QED BY <4>1
    <3> QED BY <3>1, <3>2
  <2> QED BY <2>1, <2>2, OutsFacts
<1>2. \A i \in DOMAIN Outs : Outs[i] \in Outputs
  BY DEF Outs, Outputs
<1>3. ASSUME NEW k, NEW o \in Outputs, Settled(k, o) PROVE Settled(k, o)'
  <2>1. Complete(o)' = Complete(o)
    BY <1>1 DEF Complete
  <2> QED BY <1>1, <1>3, <2>1 DEF Settled
<1>4. ASSUME NEW v \in Workers, worker'[v] = "emit", NEW i \in DOMAIN Outs, i < out'[v],
             NEW o \in Outputs, o = Outs[i], NEW k, k = Key(v)'
      PROVE  Settled(k, o)'
  <2>1. out'[v] \in Nat \ {0}
    BY SinkTypeStep, <1>4 DEF SinkTypeOK
  <2>2. out'[v] > 1
    BY <1>1, <1>4, <2>1
  <2>3. out'[v] = out[v] /\ worker[v] = "emit" /\ k = Key(v)
    BY <1>4, <2>2, OutRests
  <2>4. Settled(k, o)
    BY <1>4, <2>3 DEF SettledInv
  <2> QED BY <1>3, <2>4
<1>5. ASSUME NEW k \in Reported', NEW i \in DOMAIN Outs, NEW o \in Outputs, o = Outs[i]
      PROVE  Settled(k, o)'
  <2>1. CASE k \in Reported
    BY <1>3, <1>5, <2>1 DEF SettledInv
  <2>2. CASE k \notin Reported
    <3>1. PICK w \in Workers : EmitReturns(w)
      <4>1. emitted' # emitted
        BY <1>5, <2>2 DEF Reported
      <4> QED BY <4>1 DEF SinkNext, SinkWorkerStep, Elsewhere, Take, Leave, Duplicate, MarkNew,
                          recordStats, LineDone, Around, StreamStep, Send, SendCancelled,
                          StreamEnds, Close, Cancel, RunAgain, outVars, allVars, vars
    <3>2. k = Key(w) /\ worker[w] = "emit" /\ out[w] > Len(Outs)
      <4>1. Emit(w) /\ out[w] > Len(Outs) /\ TypeOK
        BY <3>1 DEF EmitReturns, SinkTypeOK
      <4>2. Reported' = Reported \cup {Key(w)}
        BY <4>1, EmitReports
      <4> QED BY <1>5, <2>2, <4>1, <4>2 DEF Emit
    <3>3. i < out[w]
      <4>1. out[w] \in Nat
        BY DEF SinkTypeOK
      <4> QED BY <1>1, <3>2, <4>1
    <3>4. Settled(k, o)
      BY <1>5, <3>2, <3>3 DEF SettledInv
    <3> QED BY <1>3, <3>4
  <2> QED BY <2>1, <2>2
<1>6. encErr' => \E o \in Outputs : failed'[o] # {}
  BY <1>1 DEF SettledInv
<1> QED BY <1>1, <1>2, <1>4, <1>5, <1>6 DEF SettledInv, Settled

\* Worker w has the record that stdout has and the file has not.
Ahead(w) == Writing(w) /\ out[w] > 1

\* The json outputs go in lockstep.
LockstepInv ==
  format = "json" =>
    /\ \A w \in Workers : Ahead(w) => mu["encoder"] = w
    /\ \A i \in DOMAIN content["file"] :
         content["file"][i].whole => /\ i \in DOMAIN content["stdout"]
                                     /\ content["stdout"][i] = content["file"][i]
    /\ ~encErr /\ toFile =>
         /\ \A w \in Workers : Ahead(w) =>
              /\ Len(content["stdout"]) = Len(content["file"]) + 1
              /\ content["stdout"][Len(content["stdout"])] = Piece(w, TRUE)
         /\ (\A w \in Workers : ~Ahead(w)) =>
              Len(content["stdout"]) = Len(content["file"])

(* A step without a pen does not disturb it.                               *)
LEMMA LockstepRests ==
  ASSUME SinkTypeOK, PenInv, LockstepInv, [SinkNext]_allVars,
         ~\E w \in Workers : WritePart(w) \/ WriteFails(w) \/ EncoderRefuses(w)
  PROVE  LockstepInv'
<1>1. /\ UNCHANGED <<format, toFile, content, mu, part, encErr>> /\ Outs' = Outs
  BY OtherStep DEF setVars, Outs
<1>2. \A v \in Workers : Ahead(v) => Ahead(v)' /\ Key(v)' = Key(v)
  BY WritersStay DEF Ahead
<1>3. \A v \in Workers : Ahead(v)' => Ahead(v) /\ Key(v)' = Key(v)
  BY <1>1, OutRests DEF Ahead, Writing
<1>4. \A v \in Workers : Ahead(v)' => Piece(v, TRUE)' = Piece(v, TRUE)
  BY <1>1, <1>3 DEF Piece
<1> HIDE DEF Ahead, Piece
<1> QED BY <1>1, <1>2, <1>3, <1>4 DEF LockstepInv

(* A record goes to stdout, then to the file, while its writer has the     *)
(* encoder's mutex; a failure stops both.                                  *)
LEMMA LockstepKeeps ==
  ASSUME SinkTypeOK, ClaimType, PenInv, LockstepInv, NEW w \in Workers,
         WritePart(w) \/ WriteFails(w) \/ EncoderRefuses(w)
  PROVE  LockstepInv'
<1>1. /\ UNCHANGED <<vars, setVars>> /\ Writing(w) /\ Holds(w) /\ NoWriter \notin Workers
      /\ out[w] \in Nat \ {0} /\ Outs' = Outs /\ Key(w)' = Key(w)
  BY PenStep, OthersUnmoved DEF SinkTypeOK
<1> SUFFICES ASSUME format = "json" PROVE LockstepInv'
  BY <1>1 DEF LockstepInv, setVars
<1>2. /\ Mutex(w) = "encoder" /\ part[w] = 1 /\ Parts = 1 /\ worker' = worker
      /\ format' = "json" /\ toFile' = toFile
      /\ toFile => Outs = <<"stdout", "file">> /\ Len(Outs) = 2
      /\ ~toFile => Outs = <<"stdout">> /\ Len(Outs) = 1
  BY <1>1 DEF Mutex, Parts, SinkTypeOK, setVars, vars, workVars, Outs
<1>0. /\ out \in [Workers -> Nat \ {0}] /\ out[w] <= Len(Outs) /\ Len(Outs') = Len(Outs)
      /\ worker[w] = "emit" /\ worker'[w] = "emit"
      /\ IF toFile THEN Len(Outs) = 2 ELSE Len(Outs) = 1
  BY <1>1, <1>2 DEF Writing, SinkTypeOK
<1>3. \A v \in Workers \ {w} : ~Ahead(v) /\ ~Ahead(v)'
  <2>1. \A v \in Workers \ {w} : ~Ahead(v)
    BY <1>1, <1>2 DEF LockstepInv, Holds
  <2>2. \A v \in Workers \ {w} : out'[v] = out[v]
    BY PenStep DEF SinkTypeOK
  <2> QED BY <1>1, <1>2, <2>1, <2>2 DEF Ahead, Writing
<1>4. ASSUME NEW i \in DOMAIN content["file"], content["file"][i].whole
      PROVE  /\ i \in DOMAIN content'["stdout"] /\ i \in DOMAIN content'["file"]
             /\ content'["stdout"][i] = content["file"][i]
             /\ content'["file"][i] = content["file"][i]
  <2>1. i \in DOMAIN content["stdout"] /\ content["stdout"][i] = content["file"][i]
    BY <1>4 DEF LockstepInv
  <2>2. "stdout" \in Outputs /\ "file" \in Outputs
    BY DEF Outputs
  <2> QED BY <1>4, <2>1, <2>2, PiecesStay
<1>5. CASE WritePart(w)
  <2>1. /\ ~encErr /\ ~encErr' /\ Put(w, TRUE) /\ NextOutput(w)
    <3>1. ~encErr /\ encErr' = encErr /\ Put(w, TRUE) /\ (NextPart(w) \/ NextOutput(w))
      BY <1>5 DEF WritePart, MayWrite
    <3>2. ~NextPart(w)
      BY <1>2 DEF NextPart
    <3> QED BY <3>1, <3>2
  <2>2. /\ out' = [out EXCEPT ![w] = out[w] + 1] /\ part' = [part EXCEPT ![w] = 1]
        /\ mu' = [mu EXCEPT !["encoder"] = IF out[w] < Len(Outs) THEN w ELSE NoWriter]
    BY <1>2, <2>1 DEF NextOutput
  <2>3. Piece(w, TRUE)' = Piece(w, TRUE)
    BY <1>1, <1>2, <2>2 DEF Piece, SinkTypeOK
  <2>4. "encoder" \in Mutexes
    BY DEF Mutexes
  <2>5. LET c == content[Where(w)]
            d == content'[Where(w)]
        IN  /\ Len(c) \in Nat /\ DOMAIN c = 1 .. Len(c)
            /\ Len(d) = Len(c) + 1 /\ DOMAIN d = 1 .. Len(c) + 1
            /\ d[Len(c) + 1] = Piece(w, TRUE)
            /\ \A o \in Outputs \ {Where(w)} : content'[o] = content[o]
    <3>1. TRUE \in BOOLEAN
      OBVIOUS
    <3> QED BY <2>1, <3>1, PutFacts
  <2>6. CASE out[w] = 1
    <3>1. Where(w) = "stdout" /\ "file" \in Outputs
      BY <1>2, <2>6 DEF Where, Outputs
    <3>2. /\ content'["file"] = content["file"]
          /\ Len(content'["stdout"]) = Len(content["stdout"]) + 1
          /\ content'["stdout"][Len(content["stdout"]) + 1] = Piece(w, TRUE)
          /\ Len(content["stdout"]) \in Nat
      BY <2>5, <3>1
    <3>3. ~Ahead(w)
      BY <2>6 DEF Ahead
    <3>4. toFile => Ahead(w)' /\ mu'["encoder"] = w
      <4>1. toFile => Ahead(w)'
        BY <1>0, <2>2, <2>6 DEF Ahead, Writing
      <4>2. toFile => mu'["encoder"] = w
        BY <1>0, <2>2, <2>4, <2>6 DEF SinkTypeOK
      <4> QED BY <4>1, <4>2
    <3>5. ~toFile => ~Ahead(w)'
      BY <1>0, <2>2, <2>6 DEF Ahead, Writing
    <3>6. toFile => Len(content["stdout"]) = Len(content["file"])
      BY <1>3, <2>1, <3>3 DEF LockstepInv
    <3> HIDE DEF Ahead, Piece
    <3> QED BY <1>2, <1>3, <1>4, <2>1, <2>3, <3>2, <3>3, <3>4, <3>5, <3>6 DEF LockstepInv
  <2>7. CASE out[w] # 1
    <3>1. toFile /\ out[w] = 2
      BY <1>0, <2>7
    <3>2. Where(w) = "file" /\ "stdout" \in Outputs
      BY <1>2, <3>1 DEF Where, Outputs
    <3>3. /\ content'["stdout"] = content["stdout"]
          /\ Len(content'["file"]) = Len(content["file"]) + 1
          /\ DOMAIN content'["file"] = 1 .. Len(content["file"]) + 1
          /\ DOMAIN content["file"] = 1 .. Len(content["file"])
          /\ content'["file"][Len(content["file"]) + 1] = Piece(w, TRUE)
          /\ Len(content["file"]) \in Nat
      BY <2>5, <3>2
    <3>4. Ahead(w) /\ ~Ahead(w)'
      BY <1>0, <2>2, <3>1 DEF Ahead, Writing
    <3>5. /\ Len(content["stdout"]) = Len(content["file"]) + 1
          /\ content["stdout"][Len(content["stdout"])] = Piece(w, TRUE)
      BY <2>1, <3>1, <3>4 DEF LockstepInv
    <3>6. Len(content["stdout"]) \in DOMAIN content["stdout"]
      <4>1. content["stdout"] \in Seq(Pieces)
        BY <3>2 DEF SinkTypeOK
      <4> QED BY <3>3, <3>5, <4>1
    <3>7. ASSUME NEW i \in DOMAIN content'["file"], content'["file"][i].whole
          PROVE  /\ i \in DOMAIN content'["stdout"]
                 /\ content'["stdout"][i] = content'["file"][i]
      <4>1. CASE i \in DOMAIN content["file"]
        BY <1>4, <3>7, <4>1, PiecesStay DEF Outputs
      <4>2. CASE i = Len(content["file"]) + 1
        BY <3>3, <3>5, <3>6, <4>2
      <4> QED BY <3>3, <3>7, <4>1, <4>2
    <3> HIDE DEF Ahead, Piece
    <3> QED BY <1>2, <1>3, <2>1, <3>3, <3>4, <3>5, <3>7 DEF LockstepInv
  <2> QED BY <2>6, <2>7
<1>6. CASE WriteFails(w)
  <2>1. /\ encErr' /\ out' = [out EXCEPT ![w] = Len(Outs) + 1]
        /\ Put(w, FALSE) \/ UNCHANGED content
    BY <1>6 DEF WriteFails, GiveUp, Abandon
  <2>2. ~Ahead(w)'
    BY <1>1, <1>2, <2>1 DEF Ahead, Writing, SinkTypeOK
  <2>3. ASSUME NEW i \in DOMAIN content'["file"], content'["file"][i].whole
        PROVE  i \in DOMAIN content["file"] /\ content["file"][i].whole
    <3>1. CASE content' = content
      BY <2>3, <3>1
    <3>2. CASE Put(w, FALSE)
      <4>1. FALSE \in BOOLEAN /\ "file" \in Outputs /\ ~Piece(w, FALSE).whole
        BY DEF Outputs, Piece
      <4>2. LET c == content[Where(w)]
                d == content'[Where(w)]
            IN  /\ Len(c) \in Nat /\ DOMAIN c = 1 .. Len(c)
                /\ DOMAIN d = 1 .. Len(c) + 1
                /\ \A j \in 1 .. Len(c) : d[j] = c[j]
                /\ d[Len(c) + 1] = Piece(w, FALSE)
                /\ \A o \in Outputs \ {Where(w)} : content'[o] = content[o]
        BY <3>2, <4>1, PutFacts
      <4> HIDE DEF Piece
      <4>3. CASE Where(w) = "file"
        <5>1. i # Len(content["file"]) + 1
          BY <2>3, <4>1, <4>2, <4>3
        <5> QED BY <2>3, <4>2, <4>3, <5>1
      <4>4. CASE Where(w) # "file"
        BY <2>3, <4>1, <4>2, <4>4
      <4> QED BY <4>3, <4>4
    <3> QED BY <2>1, <3>1, <3>2
  <2> HIDE DEF Ahead, Piece
  <2>4. ASSUME NEW i \in DOMAIN content'["file"], content'["file"][i].whole
        PROVE  /\ i \in DOMAIN content'["stdout"]
               /\ content'["stdout"][i] = content'["file"][i]
    BY <1>4, <2>3, <2>4
  <2> QED BY <1>2, <1>3, <2>1, <2>2, <2>4 DEF LockstepInv
<1>7. CASE EncoderRefuses(w)
  <2>1. content' = content /\ encErr' /\ out' = [out EXCEPT ![w] = Len(Outs) + 1]
    BY <1>7 DEF EncoderRefuses, Abandon
  <2>2. ~Ahead(w)'
    BY <1>1, <1>2, <2>1 DEF Ahead, Writing, SinkTypeOK
  <2> HIDE DEF Ahead, Piece
  <2> QED BY <1>2, <1>3, <2>1, <2>2 DEF LockstepInv
<1> QED BY <1>5, <1>6, <1>7

(* At the start nothing was given to the sink, and nothing is written.     *)
LEMMA SettledInit == SinkInit => SettledInv /\ LockstepInv
<1> SUFFICES ASSUME SinkInit PROVE SettledInv /\ LockstepInv
  OBVIOUS
<1>1. /\ ~encErr /\ \A w \in Workers : worker[w] = "idle" /\ out[w] = 1
      /\ \A o \in Outputs : content[o] = <<>>
  BY DEF SinkInit, Init
<1>2. Reported = {}
  BY DEF SinkInit, Init, Reported
<1>3. \A w \in Workers : ~Ahead(w)
  BY <1>1 DEF Ahead
<1>4. content["stdout"] = <<>> /\ content["file"] = <<>>
  BY <1>1 DEF Outputs
<1>5. SettledInv
  BY <1>1, <1>2 DEF SettledInv
<1> HIDE DEF Ahead
<1>6. LockstepInv
  BY <1>3, <1>4 DEF LockstepInv
<1> QED BY <1>5, <1>6

(* A failed write costs its record on its output; behind an error of the   *)
(* json encoder both outputs stop, the file no further than stdout.        *)
THEOREM FailuresAreContained == SinkSpec => []FailureIsContained
<1> DEFINE Inv == /\ SinkTypeOK /\ ClaimType /\ PenInv
                  /\ SettledInv /\ LockstepInv
<1>1. SinkInit => Inv
  BY SinkTypeInit, RecInit, SettledInit
<1>2. Inv /\ [SinkNext]_allVars => Inv'
  <2> SUFFICES ASSUME Inv, [SinkNext]_allVars PROVE Inv'
    OBVIOUS
  <2>1. (SinkTypeOK /\ ClaimType /\ PenInv)'
    BY SinkTypeStep, PenKeeps
  <2>2. CASE \E w \in Workers : WritePart(w) \/ WriteFails(w) \/ EncoderRefuses(w)
    BY <2>1, <2>2, WriterSettles, LockstepKeeps
  <2>3. CASE ~\E w \in Workers : WritePart(w) \/ WriteFails(w) \/ EncoderRefuses(w)
    BY <2>1, <2>3, RestSettles, LockstepRests
  <2> QED BY <2>2, <2>3
<1>3. Inv => FailureIsContained
  BY DEF SettledInv, Settled, LockstepInv, FailureIsContained
<1> QED BY <1>1, <1>2, <1>3, PTL DEF SinkSpec
=============================================================================
