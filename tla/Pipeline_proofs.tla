--------------------------- MODULE Pipeline_proofs ---------------------------
(***************************************************************************)
(* Proofs about the detection pipeline, for any workers, streams, input    *)
(* and capacity.                                                           *)
(***************************************************************************)
EXTENDS Pipeline, FiniteSetTheorems, TLAPS

USE PipelineAssumption

(* The key of a match of a line is a dedup key.                            *)
LEMMA KeyType ==
  ASSUME NEW l \in LogLine, NEW i \in DOMAIN l.matches
  PROVE  DedupeKey(l, l.matches[i]) \in DedupeKeys
<1>1. l.matches[i] \in Match
  BY DEF LogLine
<1> QED BY <1>1 DEF LogLine, Match, DedupeKey, HashValue, DedupeKeys

(* A finding put behind a log of findings leaves the earlier ones in place.*)
LEMMA AppendFinding ==
  ASSUME NEW f \in Seq(Finding), NEW x \in Finding
  PROVE  /\ Append(f, x) \in Seq(Finding)
         /\ Len(Append(f, x)) = Len(f) + 1
         /\ DOMAIN Append(f, x) = 1 .. Len(f) + 1
         /\ DOMAIN f = 1 .. Len(f)
         /\ \A i \in 1 .. Len(f) : Append(f, x)[i] = f[i]
         /\ Append(f, x)[Len(f) + 1] = x
  OBVIOUS

-----------------------------------------------------------------------------
(* A worker that has found a key to be new and has not reported it yet.    *)
Claims(w) == worker[w] \in {"stats", "emit"}

(* It stands at a match of its line; a worker that is busy has a line.     *)
ClaimType ==
  \A w \in Workers :
    /\ Claims(w) => idx[w] \in DOMAIN line[w].matches
    /\ Claims(w) \/ worker[w] = "match" => line[w] \in LogLine

(* The workers start idle and without a line.                              *)
LEMMA TypeInit == Init => TypeOK /\ ClaimType
<1> SUFFICES ASSUME Init PROVE TypeOK /\ ClaimType
  OBVIOUS
<1>1. 1 \in DOMAIN Input /\ Input[1] \in [Streams -> Seq(LogLine)]
  OBVIOUS
<1>2. Len(NoLine.matches) = 0
  BY DEF NoLine
<1>3. <<>> \in Seq(LogLine) /\ <<>> \in Seq(Finding) /\ Len(<<>>) <= Cap
  OBVIOUS
<1>4. /\ idx \in [Workers -> Nat]
      /\ \A w \in Workers : idx[w] \in 1 .. Len(line[w].matches) + 1
  BY <1>2 DEF Init
<1>5. TypeOK
  BY <1>1, <1>2, <1>3, <1>4 DEF Init, TypeOK, Rounds, DedupeKeys
<1>6. ClaimType
  BY DEF Init, ClaimType, Claims
<1> QED BY <1>5, <1>6

(* The line of a worker that has had none: it has no matches.              *)
LEMMA NoLineType ==
  /\ NoLine.matches \in Seq(Match)
  /\ Len(NoLine.matches) = 0
  /\ DOMAIN NoLine.matches = {}
  BY DEF NoLine

(* The steps of the streams and of the caller.                             *)
LEMMA TypeRun ==
  ASSUME TypeOK, ClaimType,
         \/ \E s \in Streams : StreamStep(s) \/ StreamEnds(s)
         \/ Close \/ Cancel \/ RunAgain
  PROVE  TypeOK' /\ ClaimType'
<1>1. ASSUME NEW s \in Streams, Send(s) PROVE TypeOK' /\ ClaimType'
  <2>1. /\ left[s] \in Seq(LogLine) /\ left[s] # <<>>
        /\ Head(left[s]) \in LogLine /\ Tail(left[s]) \in Seq(LogLine)
    <3>1. left[s] \in Seq(LogLine) /\ left[s] # <<>>
      BY <1>1 DEF Send, TypeOK
    <3> QED BY <3>1
  <2>2. left' \in [Streams -> Seq(LogLine)]
    BY <1>1, <2>1 DEF Send, TypeOK
  <2>3. chan' \in Seq(LogLine) /\ Len(chan') <= Cap
    BY <1>1, <2>1 DEF Send, TypeOK
  <2>4. taken' \subseteq LogLine
    BY <1>1, <2>1 DEF Send, TypeOK
  <2> QED BY <1>1, <2>2, <2>3, <2>4
          DEF Send, TypeOK, ClaimType, Claims, workVars, outVars
<1>2. ASSUME NEW s \in Streams, SendCancelled(s) \/ StreamEnds(s)
      PROVE  TypeOK' /\ ClaimType'
  <2>1. left' \in [Streams -> Seq(LogLine)]
    <3>1. <<>> \in Seq(LogLine)
      OBVIOUS
    <3>2. left' = [left EXCEPT ![s] = <<>>]
      BY <1>2 DEF SendCancelled, StreamEnds
    <3> QED BY <3>1, <3>2 DEF TypeOK
  <2>2. UNCHANGED <<round, chan, closed, cancelled, workVars, outVars, hisVars>>
    BY <1>2 DEF SendCancelled, StreamEnds
  <2> QED BY <2>1, <2>2 DEF TypeOK, ClaimType, Claims, workVars, outVars, hisVars
<1>3. ASSUME Close \/ Cancel PROVE TypeOK' /\ ClaimType'
  BY <1>3 DEF Close, Cancel, TypeOK, ClaimType, Claims, workVars, outVars, hisVars
<1>4. ASSUME RunAgain PROVE TypeOK' /\ ClaimType'
  <2>1. Input[round + 1] \in [Streams -> Seq(LogLine)]
    BY <1>4 DEF RunAgain, Rounds
  <2>2. <<>> \in Seq(LogLine) /\ Len(<<>>) <= Cap
    OBVIOUS
  <2>3. /\ round' \in Rounds /\ left' \in [Streams -> Seq(LogLine)]
        /\ chan' \in Seq(LogLine) /\ Len(chan') <= Cap
        /\ worker' = [v \in Workers |-> "idle"] /\ closed' \in BOOLEAN
        /\ taken' \subseteq LogLine /\ done' \subseteq LogLine
    BY <1>4, <2>1, <2>2 DEF RunAgain
  <2>4. UNCHANGED <<cancelled, line, idx, outVars>>
    BY <1>4 DEF RunAgain
  <2> QED BY <2>3, <2>4 DEF TypeOK, ClaimType, Claims, outVars
<1> QED BY <1>1, <1>2, <1>3, <1>4 DEF StreamStep

(* The steps of a worker.                                                  *)
LEMMA TypeWorker ==
  ASSUME TypeOK, ClaimType, NEW w \in Workers, WorkerStep(w)
  PROVE  TypeOK' /\ ClaimType'
<1> USE DEF runVars, outVars, hisVars
<1>0. /\ idx[w] \in Nat
      /\ line[w].matches \in Seq(Match) /\ Len(line[w].matches) \in Nat
      /\ DOMAIN line[w].matches = 1 .. Len(line[w].matches)
      /\ Claims(w) \/ worker[w] = "match" => line[w] \in LogLine
  BY NoLineType DEF TypeOK, ClaimType, LogLine
<1>1. CASE Take(w)
  <2>1. Head(chan) \in LogLine /\ Tail(chan) \in Seq(LogLine) /\ Len(Tail(chan)) <= Cap
    BY <1>1 DEF Take, TypeOK
  <2>2. Len(Head(chan).matches) \in Nat
    BY <2>1 DEF LogLine
  <2>3. \A v \in Workers : idx'[v] \in 1 .. Len(line'[v].matches) + 1
    BY <1>1, <2>1, <2>2 DEF Take, TypeOK
  <2> QED BY <1>1, <2>1, <2>3 DEF Take, TypeOK, ClaimType, Claims
<1>2. CASE Leave(w)
  BY <1>2 DEF Leave, TypeOK, ClaimType, Claims
<1>3. CASE Duplicate(w)
  BY <1>0, <1>3 DEF Duplicate, NextMatch, TypeOK, ClaimType, Claims
<1>4. CASE MarkNew(w)
  <2>1. idx[w] \in DOMAIN line[w].matches
    BY <1>0, <1>4 DEF MarkNew, TypeOK
  <2>2. Key(w) \in DedupeKeys
    BY <1>0, <1>4, <2>1, KeyType DEF Key, Current, MarkNew
  <2> QED BY <1>0, <1>4, <2>1, <2>2 DEF MarkNew, TypeOK, ClaimType, Claims
<1>5. CASE recordStats(w)
  BY <1>5 DEF recordStats, TypeOK, ClaimType, Claims
<1>6. CASE Emit(w)
  <2>1. idx[w] \in DOMAIN line[w].matches
    BY <1>6 DEF Emit, ClaimType, Claims
  <2>2. [key |-> Key(w), container |-> line[w].container] \in Finding
    BY <1>0, <1>6, <2>1, KeyType DEF Key, Current, Finding, LogLine, Emit, Claims
  <2>3. emitted' \in Seq(Finding)
    BY <1>6, <2>2, AppendFinding DEF Emit, TypeOK
  <2>4. /\ idx' \in [Workers -> Nat]
        /\ \A v \in Workers : idx'[v] \in 1 .. Len(line'[v].matches) + 1
    BY <1>0, <1>6, <2>1 DEF Emit, NextMatch, TypeOK
  <2>5. TypeOK'
    BY <1>6, <2>3, <2>4 DEF Emit, TypeOK
  <2>6. ClaimType'
    BY <1>6 DEF Emit, NextMatch, ClaimType, Claims, TypeOK
  <2> QED BY <2>5, <2>6
<1>7. CASE LineDone(w)
  <2>1. line[w] \in LogLine
    BY <1>7 DEF LineDone, ClaimType
  <2> QED BY <1>7, <2>1 DEF LineDone, TypeOK, ClaimType, Claims
<1> QED BY <1>1, <1>2, <1>3, <1>4, <1>5, <1>6, <1>7 DEF WorkerStep

(* Every step keeps the types and where the claims stand.                  *)
LEMMA TypeStep ==
  ASSUME TypeOK, ClaimType, [Next]_vars
  PROVE  TypeOK' /\ ClaimType'
<1>1. CASE Next
  BY <1>1, TypeRun, TypeWorker DEF Next
<1>2. CASE UNCHANGED vars
  BY <1>2 DEF vars, runVars, workVars, outVars, hisVars, TypeOK, ClaimType, Claims
<1> QED BY <1>1, <1>2

(* The variables of the pipeline keep their types.                         *)
THEOREM TypeCorrect == Spec => []TypeOK
<1>1. TypeOK /\ ClaimType /\ [Next]_vars => (TypeOK /\ ClaimType)'
  BY TypeStep
<1> QED BY <1>1, TypeInit, PTL DEF Spec

-----------------------------------------------------------------------------
(* What makes EmittedOnce inductive: a claimed key is in the dedup set,    *)
(* has not been reported, and is claimed by one worker.                    *)
OnceInv ==
  /\ Known \subseteq dedupe
  /\ Reported \subseteq dedupe \ Known
  /\ \A w \in Workers : Claims(w) => Key(w) \in dedupe \ (Known \cup Reported)
  /\ \A v, w \in Workers : Claims(v) /\ Claims(w) /\ Key(v) = Key(w) => v = w
  /\ EmittedOnce

(* At the start nothing is claimed or reported.                            *)
LEMMA OnceInit == Init => OnceInv
<1> SUFFICES ASSUME Init PROVE OnceInv
  OBVIOUS
<1>1. Reported = {}
  BY DEF Init, Reported
<1> QED BY <1>1 DEF Init, OnceInv, EmittedOnce, Claims

(* A step that touches neither the dedup set nor the sink, and leaves each *)
(* claim as it is or drops it.                                             *)
LEMMA OnceFrame ==
  ASSUME OnceInv, UNCHANGED <<dedupe, emitted>>,
         \A w \in Workers : Claims(w)' => Claims(w) /\ Key(w)' = Key(w)
  PROVE  OnceInv'
<1>1. Reported' = Reported
  BY DEF Reported
<1>2. EmittedOnce'
  BY <1>1 DEF OnceInv, EmittedOnce
<1> QED BY <1>1, <1>2 DEF OnceInv

(* What the sink has reported grows by the key of the worker.              *)
LEMMA EmitReports ==
  ASSUME TypeOK, ClaimType, NEW w \in Workers, Emit(w)
  PROVE  Reported' = Reported \cup {Key(w)}
<1> DEFINE x == [key |-> Key(w), container |-> line[w].container]
<1>1. idx[w] \in DOMAIN line[w].matches /\ line[w] \in LogLine
  BY DEF Emit, Claims, ClaimType
<1>2. x \in Finding /\ x.key = Key(w)
  BY <1>1, KeyType DEF Key, Current, Finding, LogLine
<1>3. emitted' = Append(emitted, x)
  BY DEF Emit
<1> HIDE DEF x
<1>4. /\ DOMAIN emitted' = 1 .. Len(emitted) + 1 /\ DOMAIN emitted = 1 .. Len(emitted)
      /\ \A i \in 1 .. Len(emitted) : emitted'[i] = emitted[i]
      /\ emitted'[Len(emitted) + 1] = x
      /\ Len(emitted) \in Nat
  BY <1>2, <1>3, AppendFinding DEF TypeOK
<1> QED BY <1>2, <1>4 DEF Reported

(* Every step keeps a claimed key unreported and with one worker.          *)
LEMMA OnceStep ==
  ASSUME TypeOK, ClaimType, OnceInv, [Next]_vars
  PROVE  OnceInv'
<1> USE DEF runVars, workVars, outVars, hisVars
<1>1. ASSUME NEW s \in Streams, StreamStep(s) \/ StreamEnds(s) PROVE OnceInv'
  BY <1>1, OnceFrame DEF StreamStep, Send, SendCancelled, StreamEnds,
                         Claims, Key, Current
<1>2. ASSUME Close \/ Cancel \/ UNCHANGED vars PROVE OnceInv'
  BY <1>2, OnceFrame DEF Close, Cancel, vars, Claims, Key, Current
<1>3. ASSUME RunAgain PROVE OnceInv'
  <2>1. \A w \in Workers : ~Claims(w)'
    BY <1>3 DEF RunAgain, Claims
  <2> QED BY <1>3, <2>1, OnceFrame DEF RunAgain
<1>4. ASSUME NEW w \in Workers, Take(w) \/ Leave(w) \/ Duplicate(w) \/ LineDone(w)
      PROVE  OnceInv'
  <2>1. ~Claims(w)'
    BY <1>4 DEF Take, Leave, Duplicate, LineDone, Claims, TypeOK
  <2>2. \A v \in Workers \ {w} : /\ worker'[v] = worker[v]
                               /\ line'[v] = line[v] /\ idx'[v] = idx[v]
    BY <1>4 DEF Take, Leave, Duplicate, LineDone, NextMatch, TypeOK
  <2>3. \A v \in Workers : Claims(v)' => Claims(v) /\ Key(v)' = Key(v)
    BY <2>1, <2>2 DEF Claims, Key, Current
  <2>4. UNCHANGED <<dedupe, emitted>>
    BY <1>4 DEF Take, Leave, Duplicate, LineDone
  <2> QED BY <2>3, <2>4, OnceFrame
<1>5. ASSUME NEW w \in Workers, recordStats(w) PROVE OnceInv'
  <2>1. \A v \in Workers : Claims(v)' => Claims(v) /\ Key(v)' = Key(v)
    BY <1>5 DEF recordStats, Claims, Key, Current, TypeOK
  <2> QED BY <1>5, <2>1, OnceFrame DEF recordStats
<1>6. ASSUME NEW w \in Workers, MarkNew(w) PROVE OnceInv'
  <2>1. /\ \A v \in Workers : Key(v)' = Key(v)
        /\ \A v \in Workers \ {w} : Claims(v)' => Claims(v)
        /\ dedupe' = dedupe \cup {Key(w)} /\ Key(w) \notin dedupe
        /\ Reported' = Reported /\ emitted' = emitted
    BY <1>6 DEF MarkNew, Claims, Key, Current, Reported, TypeOK
  <2>2. EmittedOnce'
    BY <2>1 DEF OnceInv, EmittedOnce
  <2> HIDE DEF Claims, Key, Reported
  <2>3. \A v \in Workers : Claims(v)' => (Key(v) \in dedupe' \ (Known \cup Reported))
    BY <2>1 DEF OnceInv
  <2>4. \A v \in Workers \ {w} : Claims(v)' => Key(v) # Key(w)
    BY <2>1 DEF OnceInv
  <2> QED BY <2>1, <2>2, <2>3, <2>4 DEF OnceInv
<1>7. ASSUME NEW w \in Workers, Emit(w) PROVE OnceInv'
  <2> DEFINE x == [key |-> Key(w), container |-> line[w].container]
  <2>1. Claims(w) /\ idx[w] \in DOMAIN line[w].matches /\ line[w] \in LogLine
    BY <1>7 DEF Emit, Claims, ClaimType
  <2>2. x \in Finding /\ x.key = Key(w)
    BY <2>1, KeyType DEF Key, Current, Finding, LogLine
  <2>3. emitted' = Append(emitted, x)
    BY <1>7 DEF Emit
  <2> HIDE DEF x
  <2>4. /\ DOMAIN emitted' = 1 .. Len(emitted) + 1 /\ DOMAIN emitted = 1 .. Len(emitted)
        /\ \A i \in 1 .. Len(emitted) : emitted'[i] = emitted[i]
        /\ emitted'[Len(emitted) + 1] = x
        /\ Len(emitted) \in Nat
    BY <2>2, <2>3, AppendFinding DEF TypeOK
  <2>5. Reported' = Reported \cup {Key(w)}
    BY <1>7, EmitReports
  <2>6. Key(w) \in dedupe \ (Known \cup Reported)
    BY <2>1 DEF OnceInv
  <2>7. /\ ~Claims(w)' /\ dedupe' = dedupe
        /\ \A v \in Workers \ {w} : (Claims(v)' <=> Claims(v)) /\ Key(v)' = Key(v)
    BY <1>7 DEF Emit, NextMatch, Claims, Key, Current, TypeOK
  <2>8. \A i \in DOMAIN emitted : emitted[i].key # Key(w)
    BY <2>6 DEF Reported
  <2>9. EmittedOnce'
    <3>1. \A i, j \in DOMAIN emitted' : emitted'[i].key = emitted'[j].key => i = j
      BY <2>2, <2>4, <2>8 DEF OnceInv, EmittedOnce
    <3>2. Reported' \cap Known = {}
      BY <2>5, <2>6 DEF OnceInv
    <3> QED BY <3>1, <3>2 DEF EmittedOnce
  <2> HIDE DEF Claims, Key, Reported
  <2>10. \A v \in Workers \ {w} : Claims(v) => Key(v) # Key(w)
    BY <2>1 DEF OnceInv
  <2> QED BY <2>5, <2>6, <2>7, <2>9, <2>10 DEF OnceInv
<1> QED BY <1>1, <1>2, <1>3, <1>4, <1>5, <1>6, <1>7 DEF Next, WorkerStep

(* A key reaches the sink at most once, for any workers and lines.         *)
THEOREM KeysAreEmittedOnce == Spec => []EmittedOnce
<1> DEFINE Inv == TypeOK /\ ClaimType /\ OnceInv
<1>1. Init => Inv
  BY TypeInit, OnceInit
<1>2. Inv /\ [Next]_vars => Inv'
  <2> SUFFICES ASSUME Inv, [Next]_vars PROVE Inv'
    OBVIOUS
  <2>1. TypeOK' /\ ClaimType'
    BY TypeStep
  <2>2. OnceInv'
    BY OnceStep
  <2> QED BY <2>1, <2>2
<1>3. Inv => EmittedOnce
  BY DEF OnceInv
<1> QED BY <1>1, <1>2, <1>3, PTL DEF Spec

-----------------------------------------------------------------------------
(* The counters and the sink.                                              *)

(* At the start both sides are zero.                                       *)
LEMMA CountInit == Init => TotalIsEmitted
<1> SUFFICES ASSUME Init PROVE TotalIsEmitted
  OBVIOUS
<1>1. Counting = {} /\ Len(emitted) = 0 /\ total = 0
  BY DEF Init, Counting
<1> QED BY <1>1, FS_EmptySet DEF TotalIsEmitted

(* Each of the two steps of a finding moves one side of the equation and   *)
(* the set of workers between them; all others leave both alone.           *)
LEMMA CountStep ==
  ASSUME TypeOK, ClaimType, TotalIsEmitted, [Next]_vars
  PROVE  TotalIsEmitted'
<1> USE DEF runVars, workVars, outVars, hisVars
<1>0. /\ Counting \subseteq Workers /\ IsFiniteSet(Counting)
      /\ Cardinality(Counting) \in Nat /\ Len(emitted) \in Nat /\ total \in Nat
  <2>1. Counting \in SUBSET Workers
    BY DEF Counting
  <2>2. IsFiniteSet(Counting)
    BY <2>1, FS_Subset
  <2> QED BY <2>1, <2>2, FS_CardinalityType DEF TypeOK
<1>1. ASSUME Counting' = Counting, UNCHANGED <<total, emitted>> PROVE TotalIsEmitted'
  BY <1>1 DEF TotalIsEmitted
<1>2. ASSUME NEW s \in Streams, StreamStep(s) \/ StreamEnds(s) PROVE TotalIsEmitted'
  BY <1>1, <1>2 DEF StreamStep, Send, SendCancelled, StreamEnds, Counting
<1>3. ASSUME Close \/ Cancel \/ UNCHANGED vars PROVE TotalIsEmitted'
  BY <1>1, <1>3 DEF Close, Cancel, vars, Counting
<1>4. ASSUME RunAgain PROVE TotalIsEmitted'
  <2>1. Counting = {} /\ Counting' = {}
    BY <1>4 DEF RunAgain, RunEnds, Counting
  <2> QED BY <1>1, <1>4, <2>1 DEF RunAgain
<1>5. ASSUME NEW w \in Workers,
             Take(w) \/ Leave(w) \/ Duplicate(w) \/ MarkNew(w) \/ LineDone(w)
      PROVE  TotalIsEmitted'
  <2>1. UNCHANGED <<total, emitted>>
    BY <1>5 DEF Take, Leave, Duplicate, MarkNew, LineDone
  <2>2. \A v \in Workers : worker'[v] = "emit" <=> worker[v] = "emit"
    BY <1>5 DEF Take, Leave, Duplicate, MarkNew, LineDone, TypeOK
  <2>3. Counting' = Counting
    BY <2>2 DEF Counting
  <2> QED BY <1>1, <2>1, <2>3
<1>6. ASSUME NEW w \in Workers, recordStats(w) PROVE TotalIsEmitted'
  <2>1. /\ w \notin Counting /\ Counting' = Counting \cup {w}
        /\ total' = total + 1 /\ emitted' = emitted
    BY <1>6 DEF recordStats, Counting, TypeOK
  <2>2. Cardinality(Counting') = Cardinality(Counting) + 1
    BY <1>0, <2>1, FS_AddElement
  <2> QED BY <1>0, <2>1, <2>2 DEF TotalIsEmitted
<1>7. ASSUME NEW w \in Workers, Emit(w) PROVE TotalIsEmitted'
  <2>1. w \in Counting /\ Counting' = Counting \ {w} /\ total' = total
    BY <1>7 DEF Emit, Counting, TypeOK
  <2>2. Cardinality(Counting') = Cardinality(Counting) - 1
    BY <1>0, <2>1, FS_RemoveElement
  <2>3. Len(emitted') = Len(emitted) + 1
    BY <1>7 DEF Emit, TypeOK
  <2> QED BY <1>0, <2>1, <2>2, <2>3 DEF TotalIsEmitted
<1> QED BY <1>2, <1>3, <1>4, <1>5, <1>6, <1>7 DEF Next, WorkerStep

(* At every moment the counters are ahead of the sink by exactly the       *)
(* findings that are being written.                                        *)
THEOREM CountersAreTrue == Spec => []TotalIsEmitted
<1> DEFINE Inv == TypeOK /\ ClaimType /\ TotalIsEmitted
<1>1. Init => Inv
  BY TypeInit, CountInit
<1>2. Inv /\ [Next]_vars => Inv'
  BY TypeStep, CountStep
<1> QED BY <1>1, <1>2, PTL DEF Spec

-----------------------------------------------------------------------------
(* Nothing is left out.  A line that was sent is in the channel, with a    *)
(* worker, or done; as long as there is no signal a worker leaves only     *)
(* when the channel is closed and empty.                                   *)
Busy(w) == Claims(w) \/ worker[w] = "match"
InChan == {chan[i] : i \in DOMAIN chan}

LineInv ==
  /\ closed => \A s \in Streams : left[s] = <<>>
  /\ InChan \subseteq taken
  /\ done \subseteq taken
  /\ \A w \in Workers : Busy(w) => line[w] \in taken
  /\ ~cancelled =>
       /\ \A l \in taken : l \in done \/ l \in InChan
                             \/ \E w \in Workers : Busy(w) /\ line[w] = l
       /\ \A w \in Workers : worker[w] = "gone" => closed /\ chan = <<>>

(* What is in the channel before a worker takes its head.                  *)
LEMMA ChanTail ==
  ASSUME NEW c \in Seq(LogLine), c # <<>>
  PROVE  {c[i] : i \in DOMAIN c} = {Tail(c)[i] : i \in DOMAIN Tail(c)} \cup {Head(c)}
<1>1. /\ DOMAIN c = 1 .. Len(c) /\ Len(c) \in Nat \ {0}
      /\ DOMAIN Tail(c) = 1 .. Len(c) - 1
      /\ Head(c) = c[1]
      /\ \A i \in 1 .. Len(c) - 1 : Tail(c)[i] = c[i + 1]
  OBVIOUS
<1>2. ASSUME NEW i \in DOMAIN c
      PROVE  c[i] \in {Tail(c)[j] : j \in DOMAIN Tail(c)} \cup {Head(c)}
  <2>1. CASE i = 1
    BY <1>1, <2>1
  <2>2. CASE i # 1
    <3>1. i - 1 \in DOMAIN Tail(c) /\ Tail(c)[i - 1] = c[i]
      BY <1>1, <2>2
    <3> QED BY <3>1
  <2> QED BY <2>1, <2>2
<1>3. ASSUME NEW i \in DOMAIN Tail(c) PROVE Tail(c)[i] \in {c[j] : j \in DOMAIN c}
  BY <1>1
<1> QED BY <1>1, <1>2, <1>3

(* At the start nothing has been sent.                                     *)
LEMMA LineInit == Init => LineInv
  BY DEF Init, LineInv, InChan, Busy, Claims

(* No step loses a line between the channel and done.                      *)
LEMMA LineStep ==
  ASSUME TypeOK, ClaimType, LineInv, [Next]_vars
  PROVE  LineInv'
<1> USE DEF runVars, workVars, outVars, hisVars
<1>1. ASSUME NEW s \in Streams, Send(s) PROVE LineInv'
  <2>1. /\ left[s] # <<>> /\ Head(left[s]) \in LogLine
        /\ taken' = taken \cup {Head(left[s])}
        /\ UNCHANGED <<closed, cancelled, worker, line, done>>
        /\ chan' = Append(chan, Head(left[s]))
    <3>1. left[s] \in Seq(LogLine) /\ left[s] # <<>>
      BY <1>1 DEF Send, TypeOK
    <3> QED BY <1>1, <3>1 DEF Send
  <2>2. InChan' = InChan \cup {Head(left[s])}
    <3>1. chan \in Seq(LogLine)
      BY DEF TypeOK
    <3>2. {chan'[i] : i \in DOMAIN chan'} =
            {chan[i] : i \in DOMAIN chan} \cup {Head(left[s])}
      <4>1. /\ DOMAIN chan' = DOMAIN chan \cup {Len(chan) + 1}
            /\ chan'[Len(chan) + 1] = Head(left[s])
            /\ \A i \in DOMAIN chan : chan'[i] = chan[i]
        BY <2>1, <3>1
      <4> QED BY <4>1
    <3> QED BY <3>2 DEF InChan
  <2>3. ~closed
    BY <2>1 DEF LineInv
  <2>4. \A w \in Workers : (Busy(w)' <=> Busy(w))
    BY <2>1 DEF Busy, Claims
  <2> HIDE DEF Busy, InChan
  <2> QED BY <2>1, <2>2, <2>3, <2>4 DEF LineInv
<1>2. ASSUME NEW s \in Streams, SendCancelled(s) \/ StreamEnds(s) PROVE LineInv'
  <2>1. /\ left' = [left EXCEPT ![s] = <<>>]
        /\ UNCHANGED <<chan, closed, cancelled, worker, line, done, taken>>
    BY <1>2 DEF SendCancelled, StreamEnds
  <2> QED BY <2>1 DEF LineInv, InChan, Busy, Claims, TypeOK
<1>3. ASSUME Close \/ Cancel \/ UNCHANGED vars PROVE LineInv'
  BY <1>3 DEF Close, Cancel, vars, LineInv, InChan, Busy, Claims
<1>4. ASSUME RunAgain PROVE LineInv'
  BY <1>4 DEF RunAgain, LineInv, InChan, Busy, Claims
<1>5. ASSUME NEW w \in Workers, Take(w) PROVE LineInv'
  <2>1. /\ worker[w] = "idle" /\ chan # <<>>
        /\ chan' = Tail(chan) /\ line' = [line EXCEPT ![w] = Head(chan)]
        /\ worker' = [worker EXCEPT ![w] = "match"]
        /\ UNCHANGED <<left, closed, cancelled, taken, done>>
    BY <1>5 DEF Take
  <2>2. InChan = InChan' \cup {Head(chan)}
    BY <2>1, ChanTail DEF InChan, TypeOK
  <2>3. /\ Busy(w)' /\ ~Busy(w) /\ line'[w] = Head(chan)
        /\ \A v \in Workers \ {w} : (Busy(v)' <=> Busy(v)) /\ line'[v] = line[v]
    BY <2>1 DEF Busy, Claims, TypeOK
  <2>4. ~cancelled => \A v \in Workers : worker'[v] # "gone"
    BY <2>1 DEF LineInv, TypeOK
  <2> HIDE DEF Busy, InChan
  <2>5. InChan' \subseteq taken /\ Head(chan) \in taken
    BY <2>2 DEF LineInv
  <2>6. \A v \in Workers : Busy(v)' => line'[v] \in taken
    BY <2>3, <2>5 DEF LineInv
  <2>7. ASSUME ~cancelled, NEW l \in taken
        PROVE  l \in done \/ l \in InChan' \/ \E v \in Workers : Busy(v)' /\ line'[v] = l
    <3>1. l \in done \/ l \in InChan \/ \E v \in Workers : Busy(v) /\ line[v] = l
      BY <2>7 DEF LineInv
    <3>2. CASE l \in InChan
      BY <2>2, <2>3, <3>2
    <3>3. CASE \E v \in Workers : Busy(v) /\ line[v] = l
      BY <2>3, <3>3
    <3> QED BY <3>1, <3>2, <3>3
  <2> QED BY <2>1, <2>4, <2>5, <2>6, <2>7 DEF LineInv
<1>6. ASSUME NEW w \in Workers, Leave(w) PROVE LineInv'
  <2>1. /\ worker[w] = "idle"
        /\ cancelled \/ (closed /\ chan = <<>>)
        /\ worker' = [worker EXCEPT ![w] = "gone"]
        /\ UNCHANGED <<left, chan, closed, cancelled, line, taken, done>>
    BY <1>6 DEF Leave
  <2>2. \A v \in Workers : (Busy(v)' <=> Busy(v))
    BY <2>1 DEF Busy, Claims, TypeOK
  <2>3. InChan' = InChan
    BY <2>1 DEF InChan
  <2>4. ~cancelled' => \A v \in Workers : worker'[v] = "gone" => closed' /\ chan' = <<>>
    BY <2>1 DEF LineInv, TypeOK
  <2> HIDE DEF Busy, InChan
  <2> QED BY <2>1, <2>2, <2>3, <2>4 DEF LineInv
<1>7. ASSUME NEW w \in Workers,
             Duplicate(w) \/ MarkNew(w) \/ recordStats(w) \/ Emit(w)
      PROVE  LineInv'
  <2>1. UNCHANGED <<left, chan, closed, cancelled, line, taken, done>>
    BY <1>7 DEF Duplicate, MarkNew, recordStats, Emit
  <2>2. \A v \in Workers : (Busy(v)' <=> Busy(v)) /\ (worker'[v] = "gone" => worker[v] = "gone")
    BY <1>7 DEF Duplicate, MarkNew, recordStats, Emit, Busy, Claims, TypeOK
  <2>3. InChan' = InChan
    BY <2>1 DEF InChan
  <2> HIDE DEF Busy, InChan
  <2> QED BY <2>1, <2>2, <2>3 DEF LineInv
<1>8. ASSUME NEW w \in Workers, LineDone(w) PROVE LineInv'
  <2>1. /\ worker[w] = "match" /\ done' = done \cup {line[w]}
        /\ worker' = [worker EXCEPT ![w] = "idle"]
        /\ UNCHANGED <<left, chan, closed, cancelled, line, taken>>
    BY <1>8 DEF LineDone
  <2>2. /\ Busy(w) /\ ~Busy(w)'
        /\ \A v \in Workers \ {w} : (Busy(v)' <=> Busy(v))
        /\ \A v \in Workers : worker'[v] = "gone" => worker[v] = "gone"
    BY <2>1 DEF Busy, Claims, TypeOK
  <2>3. InChan' = InChan
    BY <2>1 DEF InChan
  <2> HIDE DEF Busy, InChan
  <2> QED BY <2>1, <2>2, <2>3 DEF LineInv
<1> QED BY <1>1, <1>2, <1>3, <1>4, <1>5, <1>6, <1>7, <1>8
        DEF Next, WorkerStep, StreamStep

(* A key that is in the dedup set is known, reported, or claimed by a      *)
(* worker, and the keys of the matches a line has behind it are in it: a   *)
(* worker may pass a match over because another one has it in hand.        *)
DedupInv ==
  /\ \A k \in dedupe : k \in Known \cup Reported
                        \/ \E w \in Workers : Claims(w) /\ Key(w) = k
  /\ \A l \in done : Keys(l) \subseteq dedupe
  /\ \A w \in Workers : Busy(w) =>
       \A i \in DOMAIN line[w].matches :
         i < idx[w] => DedupeKey(line[w], line[w].matches[i]) \in dedupe

(* At the start the dedup set holds what the state file had.               *)
LEMMA DedupInit == Init => DedupInv
  BY DEF Init, DedupInv, Busy, Claims

(* No step leaves a key in the dedup set that nobody reports.              *)
LEMMA DedupStep ==
  ASSUME TypeOK, ClaimType, OnceInv, DedupInv, [Next]_vars
  PROVE  DedupInv'
<1> USE DEF runVars, workVars, outVars, hisVars
<1>0. \A w \in Workers : /\ idx[w] \in Nat
                         /\ DOMAIN line[w].matches = 1 .. Len(line[w].matches)
                         /\ Len(line[w].matches) \in Nat
  BY NoLineType DEF TypeOK, LogLine
<1>1. ASSUME NEW s \in Streams, StreamStep(s) \/ StreamEnds(s) PROVE DedupInv'
  BY <1>1 DEF StreamStep, Send, SendCancelled, StreamEnds, DedupInv, Busy,
              Claims, Key, Current, Reported
<1>2. ASSUME Close \/ Cancel \/ UNCHANGED vars PROVE DedupInv'
  BY <1>2 DEF Close, Cancel, vars, DedupInv, Busy, Claims, Key, Current, Reported
<1>3. ASSUME RunAgain PROVE DedupInv'
  <2>1. \A w \in Workers : ~Claims(w) /\ ~Busy(w)'
    BY <1>3 DEF RunAgain, RunEnds, Claims, Busy
  <2>2. UNCHANGED <<dedupe, emitted>> /\ done' = {} /\ Reported' = Reported
    BY <1>3 DEF RunAgain, Reported
  <2> HIDE DEF Claims, Busy, Reported
  <2> QED BY <2>1, <2>2 DEF DedupInv
<1>4. ASSUME NEW w \in Workers, Take(w) \/ Leave(w) PROVE DedupInv'
  <2>1. /\ ~Claims(w) /\ ~Claims(w)'
        /\ \A v \in Workers \ {w} :
             /\ (Claims(v)' <=> Claims(v))
             /\ (Busy(v)' <=> Busy(v))
             /\ line'[v] = line[v] /\ idx'[v] = idx[v] /\ Key(v)' = Key(v)
    BY <1>4 DEF Take, Leave, Claims, Busy, Key, Current, TypeOK
  <2>2. Busy(w)' => idx'[w] = 1
    BY <1>4 DEF Take, Leave, Claims, Busy, TypeOK
  <2>3. UNCHANGED <<dedupe, emitted, done>> /\ Reported' = Reported
    BY <1>4 DEF Take, Leave, Reported
  <2>4. Busy(w)' => line'[w].matches \in Seq(Match)
    <3>1. CASE Take(w)
      <4>1. Head(chan) \in LogLine /\ line'[w] = Head(chan)
        BY <3>1 DEF Take, TypeOK
      <4> QED BY <4>1 DEF LogLine
    <3>2. CASE Leave(w)
      BY <3>2 DEF Leave, Claims, Busy, TypeOK
    <3> QED BY <1>4, <3>1, <3>2
  <2> HIDE DEF Claims, Busy, Reported, Key
  <2>5. Busy(w)' => \A i \in DOMAIN line'[w].matches : ~(i < idx'[w])
    BY <2>2, <2>4
  <2>6. \A k \in dedupe : k \in Known \cup Reported
                          \/ \E v \in Workers : Claims(v)' /\ Key(v)' = k
    BY <2>1 DEF DedupInv
  <2> QED BY <2>1, <2>3, <2>5, <2>6 DEF DedupInv
<1>5. ASSUME NEW w \in Workers, recordStats(w) PROVE DedupInv'
  <2>1. \A v \in Workers : /\ (Claims(v)' <=> Claims(v))
                          /\ (Busy(v)' <=> Busy(v))
                          /\ Key(v)' = Key(v)
    BY <1>5 DEF recordStats, Claims, Busy, Key, Current, TypeOK
  <2>2. UNCHANGED <<dedupe, emitted, done, line, idx>> /\ Reported' = Reported
    BY <1>5 DEF recordStats, Reported
  <2> HIDE DEF Claims, Busy, Reported, Key
  <2>3. \A k \in dedupe' : k \in Known \cup Reported'
                           \/ \E v \in Workers : Claims(v)' /\ Key(v)' = k
    BY <2>1, <2>2 DEF DedupInv
  <2>4. \A v \in Workers : Busy(v)' =>
          \A i \in DOMAIN line'[v].matches :
            i < idx'[v] => DedupeKey(line'[v], line'[v].matches[i]) \in dedupe'
    BY <2>1, <2>2 DEF DedupInv
  <2>5. \A l \in done' : Keys(l) \subseteq dedupe'
    BY <2>2 DEF DedupInv
  <2> QED BY <2>3, <2>4, <2>5 DEF DedupInv
<1>6. ASSUME NEW w \in Workers, MarkNew(w) PROVE DedupInv'
  <2>1. /\ Claims(w)' /\ Busy(w)
        /\ \A v \in Workers : /\ Claims(v) => Claims(v)'
                              /\ (Busy(v)' <=> Busy(v))
                              /\ Key(v)' = Key(v)
    BY <1>6 DEF MarkNew, Claims, Busy, Key, Current, TypeOK
  <2>2. /\ UNCHANGED <<emitted, done, line, idx>> /\ Reported' = Reported
        /\ dedupe' = dedupe \cup {Key(w)}
    BY <1>6 DEF MarkNew, Reported
  <2> HIDE DEF Claims, Busy, Reported, Key
  <2>3. \A k \in dedupe' : k \in Known \cup Reported'
                           \/ \E v \in Workers : Claims(v)' /\ Key(v)' = k
    BY <2>1, <2>2 DEF DedupInv
  <2>4. \A l \in done' : Keys(l)' \subseteq dedupe'
    BY <2>2 DEF DedupInv, Keys
  <2> QED BY <2>1, <2>2, <2>3, <2>4 DEF DedupInv
<1>7. ASSUME NEW w \in Workers, Duplicate(w) \/ Emit(w) PROVE DedupInv'
  <2>1. /\ idx[w] \in DOMAIN line[w].matches
        /\ Busy(w) /\ ~Claims(w)'
        /\ idx'[w] = idx[w] + 1
        /\ UNCHANGED <<dedupe, done, line>>
        /\ \A v \in Workers \ {w} : /\ (Claims(v)' <=> Claims(v))
                                   /\ (Busy(v)' <=> Busy(v))
                                   /\ idx'[v] = idx[v]
                                   /\ Key(v)' = Key(v)
    <3>1. CASE Duplicate(w)
      BY <1>0, <3>1 DEF Duplicate, NextMatch, Claims, Busy, Key, Current, TypeOK
    <3>2. CASE Emit(w)
      BY <1>0, <3>2 DEF Emit, NextMatch, Claims, Busy, Key, Current, TypeOK, ClaimType
    <3> QED BY <1>7, <3>1, <3>2
  <2>2. Key(w) \in dedupe
    BY <1>7 DEF Duplicate, Emit, OnceInv, Claims
  <2>3. \A i \in DOMAIN line'[w].matches :
          i < idx'[w] => DedupeKey(line'[w], line'[w].matches[i]) \in dedupe
    <3> SUFFICES ASSUME NEW i \in DOMAIN line[w].matches, i < idx[w] + 1
                 PROVE  DedupeKey(line[w], line[w].matches[i]) \in dedupe
      BY <2>1
    <3>1. CASE i = idx[w]
      BY <2>2, <3>1 DEF Key, Current
    <3>2. CASE i # idx[w]
      BY <1>0, <2>1, <3>2 DEF DedupInv
    <3> QED BY <3>1, <3>2
  <2>4. \A k \in dedupe : k \in Known \cup Reported'
                          \/ \E v \in Workers : Claims(v)' /\ Key(v)' = k
    <3>1. CASE Duplicate(w)
      <4>1. ~Claims(w) /\ Reported' = Reported
        BY <3>1 DEF Duplicate, Claims, Reported
      <4> HIDE DEF Claims, Reported, Key
      <4> SUFFICES ASSUME NEW k \in dedupe, k \notin Known \cup Reported
                   PROVE  \E v \in Workers : Claims(v)' /\ Key(v)' = k
        BY <4>1
      <4>2. PICK v \in Workers : Claims(v) /\ Key(v) = k
        BY DEF DedupInv
      <4>3. v # w
        BY <4>1, <4>2
      <4>4. Claims(v)' /\ Key(v)' = k
        BY <2>1, <4>2, <4>3
      <4> QED BY <4>4
    <3>2. CASE Emit(w)
      <4>1. Reported' = Reported \cup {Key(w)}
        BY <3>2, EmitReports
      <4> HIDE DEF Claims, Reported, Key
      <4> SUFFICES ASSUME NEW k \in dedupe, k \notin Known \cup Reported'
                   PROVE  \E v \in Workers : Claims(v)' /\ Key(v)' = k
        OBVIOUS
      <4>2. PICK v \in Workers : Claims(v) /\ Key(v) = k
        BY <4>1 DEF DedupInv
      <4>3. v # w
        BY <4>1, <4>2
      <4>4. Claims(v)' /\ Key(v)' = k
        BY <2>1, <4>2, <4>3
      <4> QED BY <4>4
    <3> QED BY <1>7, <3>1, <3>2
  <2>5. \A l \in done' : Keys(l) \subseteq dedupe'
    BY <2>1 DEF DedupInv
  <2> HIDE DEF Claims, Busy, Reported, Key
  <2>6. \A v \in Workers : Busy(v)' =>
          \A i \in DOMAIN line'[v].matches :
            i < idx'[v] => DedupeKey(line'[v], line'[v].matches[i]) \in dedupe'
    <3> SUFFICES ASSUME NEW v \in Workers, v # w, Busy(v)'
                 PROVE  \A i \in DOMAIN line'[v].matches :
                          i < idx'[v] => DedupeKey(line'[v], line'[v].matches[i]) \in dedupe'
      BY <2>1, <2>3
    <3>1. Busy(v) /\ idx'[v] = idx[v] /\ line' = line /\ dedupe' = dedupe
      BY <2>1
    <3> QED BY <3>1 DEF DedupInv
  <2> QED BY <2>1, <2>4, <2>5, <2>6 DEF DedupInv
<1>8. ASSUME NEW w \in Workers, LineDone(w) PROVE DedupInv'
  <2>1. /\ Busy(w) /\ ~Busy(w)' /\ idx[w] > Len(line[w].matches)
        /\ UNCHANGED <<dedupe, line, idx, emitted>> /\ done' = done \cup {line[w]}
        /\ \A v \in Workers \ {w} : (Busy(v)' <=> Busy(v))
        /\ \A v \in Workers : /\ (Claims(v)' <=> Claims(v))
                              /\ Key(v)' = Key(v)
    BY <1>8 DEF LineDone, Claims, Busy, Key, Current, TypeOK
  <2>2. Reported' = Reported
    BY <2>1 DEF Reported
  <2>3. Keys(line[w]) \subseteq dedupe
    BY <1>0, <2>1 DEF DedupInv, Keys
  <2> HIDE DEF Claims, Busy, Reported, Key
  <2> QED BY <2>1, <2>2, <2>3 DEF DedupInv
<1> QED BY <1>1, <1>2, <1>3, <1>4, <1>5, <1>6, <1>7, <1>8 DEF Next, WorkerStep

(* When Run ends without a signal, every line that was sent is done, and   *)
(* every key in it is reported, now or earlier, whichever worker had it.   *)
THEOREM NothingIsLeftOut == Spec => []CompleteWithoutSignal
<1> DEFINE Inv == TypeOK /\ ClaimType /\ OnceInv /\ LineInv /\ DedupInv
<1>1. Init => Inv
  BY TypeInit, OnceInit, LineInit, DedupInit
<1>2. Inv /\ [Next]_vars => Inv'
  <2> SUFFICES ASSUME Inv, [Next]_vars PROVE Inv'
    OBVIOUS
  <2>1. TypeOK' /\ ClaimType' /\ OnceInv'
    BY TypeStep, OnceStep
  <2>2. LineInv' /\ DedupInv'
    BY LineStep, DedupStep
  <2> QED BY <2>1, <2>2
<1>3. Inv => CompleteWithoutSignal
  <2> SUFFICES ASSUME Inv, RunEnds, ~cancelled
               PROVE  /\ done = taken
                      /\ \A l \in taken : Keys(l) \subseteq Reported \cup Known
    BY DEF CompleteWithoutSignal
  <2>1. \A w \in Workers : ~Busy(w) /\ ~Claims(w)
    BY DEF RunEnds, Busy, Claims
  <2>2. InChan = {}
    <3>1. PICK w \in Workers : worker[w] = "gone"
      BY DEF RunEnds
    <3> QED BY <3>1 DEF LineInv, InChan
  <2>3. done = taken
    BY <2>1, <2>2 DEF LineInv
  <2>4. dedupe \subseteq Known \cup Reported
    BY <2>1 DEF DedupInv
  <2> QED BY <2>3, <2>4 DEF DedupInv
<1> QED BY <1>1, <1>2, <1>3, PTL DEF Spec

-----------------------------------------------------------------------------
\* In the first Run what is reported stands in a line that was sent.
ReportsAreSent ==
  round = 1 => \A k \in Reported : \E l \in taken : k \in Keys(l)

(* No step reports a key of another line.                                  *)
LEMMA ReportsStep ==
  ASSUME TypeOK, ClaimType, LineInv, ReportsAreSent, [Next]_vars
  PROVE  ReportsAreSent'
<1>1. ASSUME NEW w \in Workers, Emit(w) PROVE ReportsAreSent'
  <2>1. Reported' = Reported \cup {Key(w)} /\ round' = round /\ taken' = taken
    BY <1>1, EmitReports DEF Emit, runVars, hisVars
  <2>2. line[w] \in taken /\ idx[w] \in DOMAIN line[w].matches
    BY <1>1 DEF Emit, LineInv, Busy, Claims, ClaimType
  <2>3. Key(w) \in Keys(line[w])
    BY <2>2 DEF Key, Keys, Current
  <2>4. ASSUME round = 1, NEW k \in Reported' PROVE \E l \in taken : k \in Keys(l)
    BY <2>1, <2>2, <2>3, <2>4 DEF ReportsAreSent
  <2> QED BY <2>1, <2>4 DEF ReportsAreSent, Keys, DedupeKey, HashValue
<1>2. ASSUME RunAgain PROVE ReportsAreSent'
  <2>1. round \in Nat \ {0} /\ round' = round + 1
    BY <1>2 DEF RunAgain, TypeOK, Rounds
  <2> QED BY <2>1 DEF ReportsAreSent
<1>3. ASSUME UNCHANGED <<round, emitted>>, taken \subseteq taken' PROVE ReportsAreSent'
  BY <1>3 DEF ReportsAreSent, Reported, Keys, DedupeKey, HashValue
<1>4. ASSUME NEW s \in Streams, StreamStep(s) \/ StreamEnds(s) PROVE ReportsAreSent'
  BY <1>3, <1>4 DEF StreamStep, Send, SendCancelled, StreamEnds, outVars, hisVars
<1>5. ASSUME Close \/ Cancel \/ UNCHANGED vars PROVE ReportsAreSent'
  BY <1>3, <1>5 DEF Close, Cancel, vars, runVars, outVars, hisVars
<1>6. ASSUME NEW w \in Workers, WorkerStep(w), ~Emit(w) PROVE ReportsAreSent'
  BY <1>3, <1>6 DEF WorkerStep, Take, Leave, Duplicate, MarkNew, recordStats, LineDone,
                    runVars, outVars, hisVars
<1> QED BY <1>1, <1>2, <1>4, <1>5, <1>6 DEF Next

(* Nothing is reported that no line of the scan has.                       *)
THEOREM NothingIsMadeUp == Spec => []ReportsAreSent
<1> DEFINE Inv == TypeOK /\ ClaimType /\ LineInv /\ ReportsAreSent
<1>1. Init => Inv
  BY TypeInit, LineInit DEF Init, ReportsAreSent, Reported
<1>2. Inv /\ [Next]_vars => Inv'
  BY TypeStep, LineStep, ReportsStep
<1> QED BY <1>1, <1>2, PTL DEF Spec
=============================================================================
