--------------------------- MODULE OneShot_proofs ---------------------------
(***************************************************************************)
(* Proofs about the one-shot scan, for any targets, namespaces, flags,     *)
(* limit of streams, workers and capacity of the channel.                  *)
(***************************************************************************)
EXTENDS OneShot, FiniteSetTheorems, TLAPS

USE OneShotAssumption, LinesAssumption

(* The steps of a stream and of discovery are steps of the pipeline's      *)
(* environment or none of its steps.                                       *)
LEMMA StreamRefines ==
  ASSUME NEW t \in Targets, StreamStep(t) \/ ScanFails(t)
  PROVE  [P!Next]_(P!vars)
<1>1. CASE Find(t) \/ Launch(t) \/ Open(t)
  BY <1>1 DEF Find, Launch, Open, pipeVars, P!vars, P!runVars, P!workVars, P!outVars, P!hisVars
<1>2. CASE Skip(t) \/ OpenFails(t) \/ ScanFails(t)
  BY <1>2 DEF Skip, OpenFails, ScanFails, Dropped, P!Next,
              pipeVars, P!vars, P!runVars, P!workVars, P!outVars, P!hisVars
<1>3. CASE StreamLine(t) \/ StreamDone(t)
  BY <1>3 DEF StreamLine, StreamDone, P!Next, P!StreamStep,
              pipeVars, P!vars, P!runVars, P!workVars, P!outVars, P!hisVars
<1> QED BY <1>1, <1>2, <1>3 DEF StreamStep

(* Every step of the scan is a step of the pipeline or none of its steps.  *)
LEMMA ScanRefines == [Next]_vars => [P!Next]_(P!vars)
<1> SUFFICES ASSUME [Next]_vars PROVE [P!Next]_(P!vars)
  OBVIOUS
<1> USE DEF pipeVars, P!vars, P!runVars, P!workVars, P!outVars, P!hisVars
<1>1. CASE SetUp \/ SetupFails \/ Listed \/ Finish \/ DiscoveryFails
  BY <1>1 DEF SetUp, SetupFails, Listed, Finish, DiscoveryFails
<1>2. CASE CloseLines \/ Signal
  BY <1>2 DEF CloseLines, Signal, P!Next
<1>3. ASSUME NEW t \in Targets, StreamStep(t) \/ ScanFails(t) PROVE [P!Next]_(P!vars)
  BY <1>3, StreamRefines
<1>4. ASSUME NEW w \in Workers, Work(w) PROVE [P!Next]_(P!vars)
  BY <1>4 DEF Work, P!Next
<1>5. CASE UNCHANGED vars
  BY <1>5 DEF vars
<1> QED BY <1>1, <1>2, <1>3, <1>4, <1>5 DEF Next, MainStep

(* A one-shot scan is one Run of the pipeline, whatever the limit of       *)
(* streams, the failures and the moment of a signal.                       *)
THEOREM ScanIsOneRun == Spec => ImplementsPipeline
<1>1. Init => P!Init
  BY DEF Init
<1> QED BY <1>1, ScanRefines, PTL DEF Spec, ImplementsPipeline, P!Spec

-----------------------------------------------------------------------------
\* The lines of a sequence of lines.
LinesIn(s) == {s[i] : i \in DOMAIN s}

\* A channel is closed only in a scan, when all containers have been listed
\* and none of their streams is still to come.
StageInv ==
  /\ strm \in [Targets -> {"unlisted", "skipped", "wait", "opening", "open", "nil", "err"}]
  /\ stage \in {"setup", "start", "scan", "exit"}
  /\ stage = "scan" => \A t \in Targets : strm[t] # "unlisted"
  /\ stage \in {"setup", "start"} =>
       ~closed /\ \A t \in Targets : strm[t] \in {"unlisted", "skipped", "wait"}
  /\ NoSendOnClosed

\* What a container's stream has not sent is still in left, unless it failed
\* or a signal came; and nothing comes from elsewhere.
FlowInv ==
  /\ left \in [Targets -> Seq(P!LogLine)]
  /\ \A t \in Targets : LinesIn(left[t]) \subseteq LinesIn(LinesOf[t])
  /\ \A t \in Targets : strm[t] \in {"skipped", "nil", "err"} => left[t] = <<>>
  /\ \A l \in taken : \E t \in targets : l \in LinesIn(LinesOf[t])
  /\ ~cancelled => \A t \in Targets : strm[t] \notin {"skipped", "err"} =>
                     LinesIn(LinesOf[t]) \subseteq taken \cup LinesIn(left[t])

\* Every container that is listed is wanted, and the others are not; nothing
\* is read before the scan.
ScopeInv ==
  /\ stage \in {"start", "scan"} => ~Contradictory
  /\ \A t \in targets : InScope(t) /\ t \in running
  /\ \A t \in Targets : strm[t] = "skipped" => ~(InScope(t) /\ t \in running)
  /\ stage \in {"setup", "start"} => taken = {} /\ done = {} /\ emitted = <<>>

\* The exit code was computed from the final state.
ExitInv ==
  stage = "exit" /\ exit # ExitError =>
    /\ ~Contradictory
    /\ \A t \in Targets : strm[t] # "unlisted"
    /\ \/ targets = {} /\ exit = ExitClean /\ taken = {} /\ done = {} /\ emitted = <<>>
       \/ /\ closed /\ P!RunEnds
          /\ exit = IF errCnt > 0 THEN ExitPartial
                    ELSE IF total > 0 THEN ExitFindings ELSE ExitClean

\* The errors are counted.
ErrInv == errCnt = Cardinality({t \in Targets : strm[t] = "err"})

ScanInv == StageInv /\ FlowInv /\ ScopeInv /\ ExitInv /\ ErrInv

(* At the start nothing is listed.                                         *)
LEMMA ScanInit == Init => ScanInv
<1> SUFFICES ASSUME Init PROVE ScanInv
  OBVIOUS
<1>1. /\ left = LinesOf /\ ~closed /\ taken = {} /\ done = {} /\ emitted = <<>>
      /\ stage = "setup" /\ strm = [t \in Targets |-> "unlisted"] /\ errCnt = 0
  BY DEF Init, P!Init
<1>2. targets = {} /\ {t \in Targets : strm[t] = "err"} = {}
  BY <1>1 DEF targets
<1>3. ErrInv
  BY <1>1, <1>2, FS_EmptySet DEF ErrInv
<1> QED BY <1>1, <1>2, <1>3
        DEF ScanInv, StageInv, FlowInv, ScopeInv, ExitInv, NoSendOnClosed

(* A worker's step touches neither the streams nor the channel's end.      *)
LEMMA WorkFrame ==
  ASSUME NEW w \in Workers, Work(w)
  PROVE  /\ stage = "scan"
         /\ UNCHANGED <<left, closed, cancelled, taken, stage, strm, errCnt, exit>>
BY DEF Work, P!WorkerStep, P!Take, P!Leave, P!Duplicate, P!MarkNew, P!recordStats,
       P!Emit, P!LineDone, P!runVars, P!workVars, P!outVars, P!hisVars

(* One more stream that failed.                                            *)
LEMMA OneMoreError ==
  ASSUME StageInv, ErrInv, NEW t \in Targets, strm[t] \notin {"err"}, Fails(t)
  PROVE  ErrInv'
<1> DEFINE E == {u \in Targets : strm[u] = "err"}
<1>1. IsFiniteSet(E) /\ Cardinality(E) \in Nat
  BY FS_Subset, FS_CardinalityType
<1>2. t \notin E /\ {u \in Targets : strm'[u] = "err"} = E \cup {t}
  BY DEF Fails, StageInv
<1>3. Cardinality(E \cup {t}) = Cardinality(E) + 1
  BY <1>1, <1>2, FS_AddElement
<1> QED BY <1>2, <1>3 DEF ErrInv, Fails

(* What the step of a stream does to its container, and that it is no step *)
(* of an exit that an error did not force.                                 *)
LEMMA StreamEffect ==
  ASSUME ScanInv, NEW t \in Targets, StreamStep(t) \/ ScanFails(t)
  PROVE  /\ UNCHANGED <<closed, cancelled, stage, exit, done, emitted, total, worker>>
         /\ ~closed /\ (stage = "exit" => exit = ExitError)
         /\ \E x \in {"skipped", "wait", "opening", "open", "nil", "err"} :
              /\ strm' = [strm EXCEPT ![t] = x]
              /\ \/ x = "wait" /\ strm[t] = "unlisted" /\ InScope(t) /\ t \in running
                 \/ x = "skipped" /\ strm[t] = "unlisted" /\ ~(InScope(t) /\ t \in running)
                 \/ x = "opening" /\ strm[t] = "wait" /\ stage = "scan"
                 \/ x \in {"open", "nil", "err"} /\ strm[t] \in {"opening", "open"}
              /\ stage \in {"setup", "start"} => x \in {"skipped", "wait"}
              /\ x \in {"skipped", "wait"} => stage = "start"
              /\ IF x = "err" THEN errCnt' = errCnt + 1 ELSE errCnt' = errCnt
              /\ \/ x \notin {"skipped", "nil", "err"} /\ UNCHANGED <<left, taken>>
                 \/ /\ x \in {"skipped", "err"} \/ (x = "nil" /\ (cancelled \/ left[t] = <<>>))
                    /\ left' = [left EXCEPT ![t] = <<>>] /\ taken' = taken
                 \/ /\ x = "open" /\ left[t] # <<>>
                    /\ left' = [left EXCEPT ![t] = Tail(@)]
                    /\ taken' = taken \cup {Head(left[t])}
<1> USE DEF P!runVars, P!workVars, P!outVars, P!hisVars, pipeVars
<1>0. /\ strm \in [Targets -> {"unlisted", "skipped", "wait", "opening", "open", "nil", "err"}]
      /\ left \in [Targets -> Seq(P!LogLine)]
      /\ stage \in {"setup", "start", "scan", "exit"}
  BY DEF ScanInv, StageInv, FlowInv
<1>1. /\ strm[t] \notin {"skipped", "nil", "err"}
      /\ stage = "scan" => strm[t] # "unlisted"
      /\ stage \in {"setup", "start"} => strm[t] \in {"unlisted", "skipped", "wait"}
  BY <1>0 DEF ScanInv, StageInv, StreamStep, ScanFails, Find, Skip, Launch, Open, OpenFails,
              StreamLine, StreamDone
<1>2. ~closed /\ (stage = "exit" => exit = ExitError)
  <2>1. ~closed
    BY <1>1 DEF ScanInv, StageInv, NoSendOnClosed
  <2>2. ASSUME stage = "exit", exit # ExitError PROVE FALSE
    <3>1. strm[t] # "unlisted" /\ targets = {}
      BY <2>1, <2>2 DEF ScanInv, ExitInv
    <3> QED BY <1>1, <3>1 DEF targets
  <2> QED BY <2>1, <2>2
<1>3. ASSUME Dropped(t) \/ P!SendCancelled(t)
      PROVE  /\ left' = [left EXCEPT ![t] = <<>>]
             /\ UNCHANGED <<taken, closed, cancelled, done, emitted, total, worker>>
  BY <1>0, <1>3 DEF Dropped, P!StreamEnds, P!SendCancelled
<1> DEFINE Pipe == /\ UNCHANGED <<closed, cancelled, stage, exit, done, emitted, total, worker>>
           Goes(x) ==
             /\ strm' = [strm EXCEPT ![t] = x]
             /\ \/ x = "wait" /\ strm[t] = "unlisted" /\ InScope(t) /\ t \in running
                \/ x = "skipped" /\ strm[t] = "unlisted" /\ ~(InScope(t) /\ t \in running)
                \/ x = "opening" /\ strm[t] = "wait" /\ stage = "scan"
                \/ x \in {"open", "nil", "err"} /\ strm[t] \in {"opening", "open"}
             /\ stage \in {"setup", "start"} => x \in {"skipped", "wait"}
             /\ x \in {"skipped", "wait"} => stage = "start"
             /\ IF x = "err" THEN errCnt' = errCnt + 1 ELSE errCnt' = errCnt
             /\ \/ x \notin {"skipped", "nil", "err"} /\ UNCHANGED <<left, taken>>
                \/ /\ x \in {"skipped", "err"} \/ (x = "nil" /\ (cancelled \/ left[t] = <<>>))
                   /\ left' = [left EXCEPT ![t] = <<>>] /\ taken' = taken
                \/ /\ x = "open" /\ left[t] # <<>>
                   /\ left' = [left EXCEPT ![t] = Tail(@)]
                   /\ taken' = taken \cup {Head(left[t])}
<1> SUFFICES Pipe /\ \E x \in {"skipped", "wait", "opening", "open", "nil", "err"} : Goes(x)
  BY <1>2
<1>4. CASE Find(t)
  <2>1. Pipe /\ Goes("wait")
    BY <1>4 DEF Find
  <2> HIDE DEF Pipe, Goes
  <2> QED BY <2>1
<1>5. CASE Skip(t)
  <2>1. Pipe /\ Goes("skipped")
    BY <1>3, <1>5 DEF Skip
  <2> HIDE DEF Pipe, Goes
  <2> QED BY <2>1
<1>6. CASE Launch(t)
  <2>1. Pipe /\ Goes("opening")
    BY <1>6 DEF Launch
  <2> HIDE DEF Pipe, Goes
  <2> QED BY <2>1
<1>7. CASE Open(t)
  <2>1. Pipe /\ Goes("open")
    BY <1>1, <1>7 DEF Open
  <2> HIDE DEF Pipe, Goes
  <2> QED BY <2>1
<1>8. CASE OpenFails(t) \/ ScanFails(t)
  <2>1. Pipe /\ Goes("err")
    BY <1>1, <1>3, <1>8 DEF OpenFails, ScanFails, Fails
  <2> HIDE DEF Pipe, Goes
  <2> QED BY <2>1
<1>9. CASE StreamLine(t)
  <2>1. strm' = [strm EXCEPT ![t] = "open"]
    BY <1>0, <1>9 DEF StreamLine
  <2>2. Pipe /\ Goes("open")
    BY <1>1, <1>9, <2>1 DEF StreamLine, P!Send
  <2> HIDE DEF Pipe, Goes
  <2> QED BY <2>2
<1>10. CASE StreamDone(t)
  <2>1. /\ left' = [left EXCEPT ![t] = <<>>] /\ (cancelled \/ left[t] = <<>>)
        /\ UNCHANGED <<taken, closed, cancelled, done, emitted, total, worker>>
    BY <1>0, <1>3, <1>10 DEF StreamDone, P!SendCancelled
  <2>2. Pipe /\ Goes("nil")
    BY <1>1, <1>10, <2>1 DEF StreamDone
  <2> HIDE DEF Pipe, Goes
  <2> QED BY <2>2
<1> QED BY <1>4, <1>5, <1>6, <1>7, <1>8, <1>9, <1>10 DEF StreamStep

(* What taking the first line of a sequence leaves.                        *)
LEMMA LinesOfTail ==
  ASSUME NEW s \in Seq(P!LogLine), s # <<>>
  PROVE  LinesIn(s) = {Head(s)} \cup LinesIn(Tail(s))
<1>1. /\ Len(s) \in Nat /\ Len(s) > 0 /\ Head(s) = s[1] /\ Len(Tail(s)) = Len(s) - 1
      /\ DOMAIN s = 1 .. Len(s) /\ DOMAIN Tail(s) = 1 .. (Len(s) - 1)
      /\ \A i \in 1 .. (Len(s) - 1) : Tail(s)[i] = s[i + 1]
  OBVIOUS
<1>2. ASSUME NEW l \in LinesIn(s) PROVE l \in {Head(s)} \cup LinesIn(Tail(s))
  <2>1. PICK i \in 1 .. Len(s) : l = s[i]
    BY <1>1, <1>2 DEF LinesIn
  <2>2. CASE i = 1
    BY <1>1, <2>1, <2>2
  <2>3. CASE i # 1
    <3>1. i - 1 \in 1 .. (Len(s) - 1) /\ (i - 1) + 1 = i
      BY <1>1, <2>1, <2>3
    <3>2. l = Tail(s)[i - 1]
      BY <1>1, <2>1, <3>1
    <3> QED BY <1>1, <3>1, <3>2 DEF LinesIn
  <2> QED BY <2>2, <2>3
<1>3. Head(s) \in LinesIn(s)
  BY <1>1 DEF LinesIn
<1>4. ASSUME NEW l \in LinesIn(Tail(s)) PROVE l \in LinesIn(s)
  <2>1. PICK i \in 1 .. (Len(s) - 1) : l = Tail(s)[i]
    BY <1>1, <1>4 DEF LinesIn
  <2>2. i + 1 \in 1 .. Len(s) /\ l = s[i + 1]
    BY <1>1, <2>1
  <2> QED BY <1>1, <2>2 DEF LinesIn
<1> QED BY <1>2, <1>3, <1>4

(* The stream of a container, and the errors, keep the invariant.          *)
LEMMA StreamKeeps ==
  ASSUME ScanInv, NEW t \in Targets, StreamStep(t) \/ ScanFails(t), UNCHANGED world
  PROVE  ScanInv'
<1>1. PICK x \in {"skipped", "wait", "opening", "open", "nil", "err"} :
        /\ strm' = [strm EXCEPT ![t] = x]
        /\ \/ x = "wait" /\ strm[t] = "unlisted" /\ InScope(t) /\ t \in running
           \/ x = "skipped" /\ strm[t] = "unlisted" /\ ~(InScope(t) /\ t \in running)
           \/ x = "opening" /\ strm[t] = "wait" /\ stage = "scan"
           \/ x \in {"open", "nil", "err"} /\ strm[t] \in {"opening", "open"}
        /\ stage \in {"setup", "start"} => x \in {"skipped", "wait"}
        /\ x \in {"skipped", "wait"} => stage = "start"
        /\ IF x = "err" THEN errCnt' = errCnt + 1 ELSE errCnt' = errCnt
        /\ \/ x \notin {"skipped", "nil", "err"} /\ UNCHANGED <<left, taken>>
           \/ /\ x \in {"skipped", "err"} \/ (x = "nil" /\ (cancelled \/ left[t] = <<>>))
              /\ left' = [left EXCEPT ![t] = <<>>] /\ taken' = taken
           \/ /\ x = "open" /\ left[t] # <<>>
              /\ left' = [left EXCEPT ![t] = Tail(@)]
              /\ taken' = taken \cup {Head(left[t])}
  BY StreamEffect
<1>2. /\ UNCHANGED <<closed, cancelled, stage, exit, done, emitted, total, worker, running, flags>>
      /\ ~closed /\ (stage = "exit" => exit = ExitError)
  BY StreamEffect DEF world
<1>3. /\ strm \in [Targets -> {"unlisted", "skipped", "wait", "opening", "open", "nil", "err"}]
      /\ left \in [Targets -> Seq(P!LogLine)]
      /\ stage \in {"setup", "start", "scan", "exit"}
  BY DEF ScanInv, StageInv, FlowInv
<1>4. StageInv'
  BY <1>1, <1>2, <1>3 DEF ScanInv, StageInv, NoSendOnClosed
<1>5. /\ targets \subseteq targets'
      /\ x \in {"wait", "opening", "open", "nil", "err"} => t \in targets'
      /\ targets' \subseteq targets \cup {t}
      /\ t \in targets' => x # "skipped"
  BY <1>1, <1>3 DEF targets
<1>6. FlowInv'
  <2>1. left' \in [Targets -> Seq(P!LogLine)]
    <3>1. left[t] # <<>> => Tail(left[t]) \in Seq(P!LogLine)
      BY <1>3
    <3>2. \E y \in Seq(P!LogLine) : left' = [left EXCEPT ![t] = y] \/ left' = left
      <4>1. <<>> \in Seq(P!LogLine)
        OBVIOUS
      <4> QED BY <1>1, <1>3, <3>1, <4>1
    <3> QED BY <1>3, <3>2
  <2>2. /\ LinesIn(left'[t]) \subseteq LinesIn(left[t])
        /\ taken' \subseteq taken \cup LinesIn(left[t]) /\ taken \subseteq taken'
        /\ x \notin {"skipped", "err"} /\ ~cancelled =>
             LinesIn(left[t]) \subseteq taken' \cup LinesIn(left'[t])
        /\ x \in {"skipped", "nil", "err"} => left'[t] = <<>>
        /\ x = "skipped" => taken' = taken
    <3>1. LinesIn(<<>>) = {}
      BY DEF LinesIn
    <3>2. left[t] # <<>> => LinesIn(left[t]) = {Head(left[t])} \cup LinesIn(Tail(left[t]))
      BY <1>3, LinesOfTail
    <3> QED BY <1>1, <1>3, <3>1, <3>2
  <2>3. \A u \in Targets : u # t => left'[u] = left[u] /\ strm'[u] = strm[u]
    BY <1>1, <1>3
  <2>4. strm'[t] = x
    BY <1>1, <1>3
  <2>5. ASSUME NEW u \in Targets PROVE LinesIn(left'[u]) \subseteq LinesIn(LinesOf[u])
    BY <2>2, <2>3 DEF ScanInv, FlowInv
  <2>6. ASSUME NEW l \in taken' PROVE \E u \in targets' : l \in LinesIn(LinesOf[u])
    <3>1. CASE l \in taken
      BY <1>5, <3>1 DEF ScanInv, FlowInv
    <3>2. CASE l \notin taken
      <4>1. l \in LinesIn(LinesOf[t]) /\ x # "skipped"
        BY <2>2, <2>6, <3>2 DEF ScanInv, FlowInv
      <4> QED BY <1>5, <4>1
    <3> QED BY <3>1, <3>2
  <2>7. ASSUME ~cancelled, NEW u \in Targets, strm'[u] \notin {"skipped", "err"}
        PROVE  LinesIn(LinesOf[u]) \subseteq taken' \cup LinesIn(left'[u])
    <3>1. CASE u = t
      <4>1. strm[t] \notin {"skipped", "err"}
        BY <1>1, <2>4, <2>7, <3>1
      <4>2. LinesIn(LinesOf[t]) \subseteq taken \cup LinesIn(left[t])
        BY <2>7, <4>1 DEF ScanInv, FlowInv
      <4> QED BY <2>2, <2>4, <2>7, <3>1, <4>2
    <3>2. CASE u # t
      BY <2>2, <2>3, <2>7, <3>2 DEF ScanInv, FlowInv
    <3> QED BY <3>1, <3>2
  <2>8. \A u \in Targets : strm'[u] \in {"skipped", "nil", "err"} => left'[u] = <<>>
    BY <2>2, <2>3, <2>4 DEF ScanInv, FlowInv
  <2>9. \A u \in Targets : LinesIn(left[u])' = LinesIn(left'[u])
    BY DEF LinesIn
  <2> QED BY <1>2, <2>1, <2>5, <2>6, <2>7, <2>8, <2>9 DEF FlowInv, LinesIn
<1>7. ScopeInv'
  <2>1. \A u \in Targets : InScope(u)' = InScope(u)
    BY <1>2 DEF InScope, resolveNamespaces
  <2>2. Contradictory' = Contradictory
    BY <1>2 DEF Contradictory
  <2>3. ASSUME NEW u \in targets' PROVE InScope(u) /\ u \in running
    BY <1>1, <1>3, <1>5, <2>3 DEF ScanInv, ScopeInv, targets
  <2>4. ASSUME NEW u \in Targets, strm'[u] = "skipped" PROVE ~(InScope(u) /\ u \in running)
    BY <1>1, <1>3, <2>4 DEF ScanInv, ScopeInv
  <2>5. stage \in {"setup", "start"} => taken' = {} /\ done' = {} /\ emitted' = <<>>
    BY <1>1, <1>2 DEF ScanInv, ScopeInv
  <2> QED BY <1>2, <2>1, <2>2, <2>3, <2>4, <2>5 DEF ScanInv, ScopeInv, targets
<1>8. ExitInv'
  BY <1>2 DEF ExitInv
<1>9. ErrInv'
  <2>1. CASE x = "err"
    BY <1>1, <1>2, <2>1, OneMoreError DEF ScanInv, Fails
  <2>2. CASE x # "err"
    <3>1. {u \in Targets : strm'[u] = "err"} = {u \in Targets : strm[u] = "err"}
      BY <1>1, <1>3, <2>2
    <3> QED BY <1>1, <2>2, <3>1 DEF ScanInv, ErrInv
  <2> QED BY <2>1, <2>2
<1> QED BY <1>4, <1>6, <1>7, <1>8, <1>9 DEF ScanInv

(* Every step of the scan keeps the invariant.                             *)
LEMMA ScanStep == ScanInv /\ [Next]_vars => ScanInv'
<1> SUFFICES ASSUME ScanInv, [Next]_vars PROVE ScanInv'
  OBVIOUS
<1> USE DEF pipeVars, world, P!runVars, P!workVars, P!outVars, P!hisVars
<1>1. ASSUME UNCHANGED <<left, taken, strm, running, flags>>
      PROVE  /\ targets' = targets /\ (Contradictory' <=> Contradictory)
             /\ \A t \in Targets : InScope(t)' <=> InScope(t)
             /\ \A t \in targets : t \in Targets
             /\ (cancelled => cancelled') => FlowInv'
  <2>1. targets' = targets /\ (Contradictory' <=> Contradictory)
    BY <1>1 DEF targets, Contradictory
  <2>2. \A t \in Targets : InScope(t)' <=> InScope(t)
    BY <1>1 DEF InScope, resolveNamespaces
  <2>3. (cancelled => cancelled') => FlowInv'
    <3>1. \A u \in Targets : LinesIn(left[u])' = LinesIn(left[u])
      BY <1>1 DEF LinesIn
    <3> QED BY <1>1, <2>1, <3>1 DEF ScanInv, FlowInv
  <2>4. \A t \in targets : t \in Targets
    BY DEF targets
  <2> QED BY <2>1, <2>2, <2>3, <2>4
<1>2. CASE SetUp /\ UNCHANGED world
  <2>1. stage = "setup" /\ stage' = "start" /\ ~Contradictory
        /\ UNCHANGED <<pipeVars, strm, errCnt, exit, running, flags>>
    BY <1>2 DEF SetUp
  <2>2. StageInv' /\ ErrInv' /\ ExitInv'
    BY <2>1 DEF ScanInv, StageInv, ErrInv, ExitInv, NoSendOnClosed
  <2>3. ScopeInv'
    BY <1>1, <2>1 DEF ScanInv, ScopeInv
  <2> QED BY <1>1, <2>1, <2>2, <2>3 DEF ScanInv
<1>3. CASE (SetupFails \/ DiscoveryFails) /\ UNCHANGED world
  <2>1. stage' = "exit" /\ exit' = ExitError
        /\ UNCHANGED <<pipeVars, strm, errCnt, running, flags>>
    BY <1>3 DEF SetupFails, DiscoveryFails, Leave
  <2>2. StageInv' /\ ErrInv' /\ ExitInv'
    BY <2>1 DEF ScanInv, StageInv, ErrInv, ExitInv, NoSendOnClosed
  <2>3. ScopeInv'
    BY <1>1, <2>1 DEF ScanInv, ScopeInv
  <2> QED BY <1>1, <2>1, <2>2, <2>3 DEF ScanInv
<1>4. CASE Listed /\ UNCHANGED world
  <2>1. /\ stage = "start" /\ \A t \in Targets : strm[t] # "unlisted"
        /\ \/ targets = {} /\ stage' = "exit" /\ exit' = ExitClean
           \/ targets # {} /\ stage' = "scan" /\ exit' = exit
        /\ UNCHANGED <<pipeVars, strm, errCnt, running, flags>>
    BY <1>4 DEF Listed, Leave
  <2>2. StageInv' /\ ErrInv'
    BY <2>1 DEF ScanInv, StageInv, ErrInv, NoSendOnClosed
  <2>3. ScopeInv'
    BY <1>1, <2>1 DEF ScanInv, ScopeInv
  <2>4. ExitInv'
    BY <1>1, <2>1 DEF ScanInv, ScopeInv, ExitInv
  <2> QED BY <1>1, <2>1, <2>2, <2>3, <2>4 DEF ScanInv
<1>5. CASE CloseLines /\ UNCHANGED world
  <2>1. /\ stage = "scan" /\ closed' = TRUE
        /\ UNCHANGED <<left, taken, cancelled, stage, strm, errCnt, exit, running, flags>>
    BY <1>5 DEF CloseLines, P!Close
  <2>2. \A t \in Targets : strm[t] \in {"skipped", "nil", "err"}
    BY <1>5, <2>1 DEF CloseLines, AllReturned, targets, ScanInv, StageInv
  <2>3. StageInv' /\ ErrInv' /\ ExitInv'
    BY <2>1, <2>2 DEF ScanInv, StageInv, ErrInv, ExitInv, NoSendOnClosed
  <2>4. ScopeInv'
    BY <1>1, <2>1 DEF ScanInv, ScopeInv
  <2> QED BY <1>1, <2>1, <2>3, <2>4 DEF ScanInv
<1>6. CASE Finish /\ UNCHANGED world
  <2>1. /\ stage = "scan" /\ stage' = "exit" /\ P!RunEnds
        /\ exit' = IF errCnt > 0 THEN ExitPartial
                   ELSE IF total > 0 THEN ExitFindings ELSE ExitClean
        /\ UNCHANGED <<pipeVars, strm, errCnt, running, flags>>
    BY <1>6 DEF Finish, Leave
  <2>2. StageInv' /\ ErrInv'
    BY <2>1 DEF ScanInv, StageInv, ErrInv, NoSendOnClosed
  <2>3. ScopeInv'
    BY <1>1, <2>1 DEF ScanInv, ScopeInv
  <2>4. closed' /\ P!RunEnds'
    BY <2>1 DEF P!RunEnds
  <2>5. ExitInv'
    BY <1>1, <2>1, <2>4 DEF ScanInv, StageInv, ScopeInv, ExitInv
  <2> QED BY <1>1, <2>1, <2>2, <2>3, <2>5 DEF ScanInv
<1>7. CASE Signal /\ UNCHANGED world
  <2>1. /\ cancelled' = TRUE /\ stage # "exit"
        /\ UNCHANGED <<left, closed, worker, taken, done, emitted, total, stage, strm,
                       errCnt, exit, running, flags>>
    BY <1>7 DEF Signal, P!Cancel
  <2>2. StageInv' /\ ErrInv' /\ ExitInv'
    BY <2>1 DEF ScanInv, StageInv, ErrInv, ExitInv, NoSendOnClosed
  <2>3. ScopeInv'
    BY <1>1, <2>1 DEF ScanInv, ScopeInv
  <2> QED BY <1>1, <2>1, <2>2, <2>3 DEF ScanInv
<1>8. ASSUME NEW t \in Targets, StreamStep(t) \/ ScanFails(t), UNCHANGED world
      PROVE  ScanInv'
  BY <1>8, StreamKeeps
<1>9. ASSUME NEW w \in Workers, Work(w), UNCHANGED world PROVE ScanInv'
  <2>1. /\ stage = "scan"
        /\ UNCHANGED <<left, closed, cancelled, taken, stage, strm, errCnt, exit>>
    BY <1>9, WorkFrame
  <2>2. StageInv' /\ ErrInv' /\ ExitInv'
    BY <2>1 DEF ScanInv, StageInv, ErrInv, ExitInv, NoSendOnClosed
  <2>3. ScopeInv'
    BY <1>1, <1>9, <2>1 DEF ScanInv, ScopeInv
  <2> QED BY <1>1, <1>9, <2>1, <2>2, <2>3 DEF ScanInv
<1>10. CASE UNCHANGED vars
  <2>1. UNCHANGED <<pipeVars, strm, stage, errCnt, exit, running, flags>>
    BY <1>10 DEF vars
  <2>2. StageInv' /\ ErrInv'
    BY <2>1 DEF ScanInv, StageInv, ErrInv, NoSendOnClosed
  <2>3. ScopeInv'
    BY <1>1, <2>1 DEF ScanInv, ScopeInv
  <2>4. P!RunEnds' <=> P!RunEnds
    BY <2>1 DEF P!RunEnds
  <2>5. ExitInv'
    BY <1>1, <2>1, <2>4 DEF ScanInv, ExitInv
  <2> QED BY <1>1, <2>1, <2>2, <2>3, <2>5 DEF ScanInv
<1> QED BY <1>2, <1>3, <1>4, <1>5, <1>6, <1>7, <1>8, <1>9, <1>10 DEF Next, MainStep

(* What the stages of a scan know of its streams, its channel and its      *)
(* errors holds in every state.                                            *)
THEOREM ScanInvariant == Spec => []ScanInv
BY ScanInit, ScanStep, PTL DEF Spec

(* No stream, not even one that waits for the limit, sends on the closed   *)
(* channel, whatever --max-streams, the failures and the signal.           *)
THEOREM ClosedBehindStreams == Spec => []NoSendOnClosed
<1>1. ScanInv => NoSendOnClosed
  BY DEF ScanInv, StageInv
<1> QED BY <1>1, ScanInvariant, PTL

-----------------------------------------------------------------------------
(* What is proved of the pipeline holds of this Run of it.                 *)
PP == INSTANCE Pipeline_proofs
        WITH Streams <- Targets, Input <- <<LinesOf>>, Known <- {}

\* The user says which namespaces, or the kubeconfig's context does.
NamedContext ==
  \A f \in FlagSets : f.all \/ f.namespaces # {} \/ f.context # ""

(* Both instances start alike.                                             *)
LEMMA SameInit == P!Init => PP!Init
BY DEF P!Init, PP!Init, P!NoLine, PP!NoLine

(* Both instances take the same steps.                                     *)
LEMMA SameNext == [P!Next]_(P!vars) => [PP!Next]_(PP!vars)
BY DEF P!Next, PP!Next, P!vars, PP!vars, P!runVars, PP!runVars, P!workVars, PP!workVars,
       P!outVars, PP!outVars, P!hisVars, PP!hisVars,
       P!StreamStep, PP!StreamStep, P!Send, PP!Send, P!SendCancelled, PP!SendCancelled,
       P!StreamEnds, PP!StreamEnds, P!Close, PP!Close, P!Cancel, PP!Cancel,
       P!RunAgain, PP!RunAgain, P!RunEnds, PP!RunEnds, P!Rounds, PP!Rounds,
       P!WorkerStep, PP!WorkerStep, P!Take, PP!Take, P!Leave, PP!Leave,
       P!Duplicate, PP!Duplicate, P!MarkNew, PP!MarkNew, P!recordStats, PP!recordStats,
       P!Emit, PP!Emit, P!LineDone, PP!LineDone, P!NextMatch, PP!NextMatch,
       P!Current, PP!Current, P!Key, PP!Key, P!DedupeKey, PP!DedupeKey,
       P!HashValue, PP!HashValue

(* The scan is a Run of the pipeline that Pipeline_proofs is about.        *)
LEMMA SameRun == Spec => PP!Spec
<1>1. Init => PP!Init
  BY SameInit DEF Init
<1>2. [Next]_vars => [PP!Next]_(PP!vars)
  BY ScanRefines, SameNext
<1> QED BY <1>1, <1>2, PTL DEF Spec, PP!Spec

(* The world does not change under the scan.                               *)
LEMMA WorldStays == Spec => [](flags \in FlagSets /\ running \subseteq Targets)
<1> DEFINE Inv == flags \in FlagSets /\ running \subseteq Targets
<1>1. Init => Inv
  BY DEF Init
<1>2. Inv /\ [Next]_vars => Inv'
  BY DEF Next, vars, world
<1> QED BY <1>1, <1>2, PTL DEF Spec

(* Flags that do not contradict each other ask for the namespaces listed.  *)
LEMMA ScopeIsWanted ==
  ASSUME NamedContext, flags \in FlagSets, ~Contradictory, NEW t
  PROVE  Wanted(t) <=> InScope(t)
<1>1. flags.all \/ flags.namespaces # {} \/ flags.context # ""
  BY DEF NamedContext
<1>2. CASE flags.all
  BY <1>2 DEF Wanted, InScope, resolveNamespaces
<1>3. CASE ~flags.all /\ flags.namespaces # {}
  BY <1>3 DEF Wanted, InScope, resolveNamespaces
<1>4. CASE ~flags.all /\ flags.namespaces = {} /\ flags.context # ""
  BY <1>4 DEF Wanted, InScope, resolveNamespaces
<1> QED BY <1>1, <1>2, <1>3, <1>4

\* The lines the user asked to have inspected.
LinesWanted ==
  UNION {{LinesOf[t][i] : i \in DOMAIN LinesOf[t]} : t \in {t \in running : Wanted(t)}}

(* What has entered the channel of a scan that no error and no signal      *)
(* disturbed is what was wanted.                                           *)
LEMMA TakenIsWanted ==
  ASSUME ScanInv, NamedContext, flags \in FlagSets, running \subseteq Targets,
         ~Contradictory, ~cancelled,
         \A t \in Targets : strm[t] # "unlisted" /\ strm[t] # "err",
         closed \/ (targets = {} /\ taken = {})
  PROVE  taken = LinesWanted
<1>1. \A t \in Targets : Wanted(t) <=> InScope(t)
  BY ScopeIsWanted
<1>2. ASSUME NEW l \in taken PROVE l \in LinesWanted
  <2>1. PICK t \in targets : l \in LinesIn(LinesOf[t])
    BY DEF ScanInv, FlowInv
  <2>2. t \in Targets /\ InScope(t) /\ t \in running
    BY <2>1 DEF ScanInv, ScopeInv, targets
  <2> QED BY <1>1, <2>1, <2>2 DEF LinesWanted, LinesIn
<1>3. ASSUME NEW l \in LinesWanted PROVE l \in taken
  <2>1. PICK t \in running : Wanted(t) /\ l \in LinesIn(LinesOf[t])
    BY <1>3 DEF LinesWanted, LinesIn
  <2>2. t \in Targets /\ strm[t] # "skipped"
    BY <1>1, <2>1 DEF ScanInv, ScopeInv
  <2>3. t \in targets
    BY <2>2 DEF targets
  <2>4. strm[t] = "nil" /\ left[t] = <<>>
    BY <2>2, <2>3 DEF ScanInv, StageInv, FlowInv, NoSendOnClosed
  <2>5. LinesIn(left[t]) = {}
    BY <2>4 DEF LinesIn
  <2> QED BY <2>1, <2>2, <2>4, <2>5 DEF ScanInv, FlowInv
<1> QED BY <1>2, <1>3

(* The exit code of a scan that no signal interrupts is true: 0 and 1 say  *)
(* that all that was asked for was read, 1 that the sink was given a       *)
(* finding and 0 that it was given none, 3 that a stream failed.           *)
(* PP!PipelineAssumption is the assumption of Pipeline about these         *)
(* constants; OneShotAssumption and LinesAssumption say the same of them,  *)
(* which tlapm cannot see through the instance.                            *)
THEOREM ExitCodeTellsTheTruth ==
  ASSUME NamedContext, PP!PipelineAssumption
  PROVE  Spec => []ExitCodeIsTrue
<1>1. Spec => [](PP!TypeOK /\ PP!TotalIsEmitted /\ PP!CompleteWithoutSignal /\ PP!ReportsAreSent)
  BY SameRun, PP!TypeCorrect, PP!CountersAreTrue, PP!NothingIsLeftOut, PP!NothingIsMadeUp, PTL
<1>2. ASSUME ScanInv, flags \in FlagSets, running \subseteq Targets,
             PP!TypeOK, PP!TotalIsEmitted, PP!CompleteWithoutSignal, PP!ReportsAreSent,
             stage = "exit", exit # ExitError, ~cancelled
      PROVE  /\ exit = ExitPartial <=> \E t \in targets : strm[t] = "err"
             /\ exit # ExitPartial =>
                  /\ done = LinesWanted
                  /\ UNION {P!Keys(l) : l \in LinesWanted} = P!Reported
                  /\ exit = ExitFindings <=> emitted # <<>>
  <2> DEFINE E == {t \in Targets : strm[t] = "err"}
  <2>1. /\ ~Contradictory /\ \A t \in Targets : strm[t] # "unlisted"
        /\ \/ targets = {} /\ exit = ExitClean /\ taken = {} /\ done = {} /\ emitted = <<>>
           \/ /\ closed /\ P!RunEnds
              /\ exit = IF errCnt > 0 THEN ExitPartial
                        ELSE IF total > 0 THEN ExitFindings ELSE ExitClean
    BY <1>2 DEF ScanInv, ExitInv
  <2>2. errCnt \in Nat /\ (errCnt > 0 <=> \E t \in Targets : strm[t] = "err")
    <3>1. IsFiniteSet(E) /\ Cardinality(E) \in Nat /\ (Cardinality(E) = 0 <=> E = {})
      BY FS_Subset, FS_CardinalityType, FS_EmptySet
    <3> QED BY <1>2, <3>1 DEF ScanInv, ErrInv
  <2>3. \A t \in Targets : strm[t] = "err" => t \in targets
    BY DEF targets
  <2>4. exit = ExitPartial <=> \E t \in targets : strm[t] = "err"
    <3>1. \A t \in targets : t \in Targets
      BY DEF targets
    <3> QED BY <2>1, <2>2, <2>3, <3>1 DEF ExitPartial, ExitClean, ExitFindings
  <2>5. ASSUME exit # ExitPartial PROVE taken = LinesWanted
    <3>1. \A t \in Targets : strm[t] # "err"
      BY <2>3, <2>4, <2>5
    <3>2. closed \/ (targets = {} /\ taken = {})
      BY <2>1
    <3> QED BY <1>2, <2>1, <3>1, <3>2, TakenIsWanted
  <2>6. done = taken /\ \A l \in taken : P!Keys(l) \subseteq P!Reported
    <3>1. CASE targets = {} /\ taken = {} /\ done = {}
      BY <3>1
    <3>2. CASE closed /\ P!RunEnds
      <4>1. PP!RunEnds
        BY <3>2 DEF P!RunEnds, PP!RunEnds
      <4>2. \A l : P!Keys(l) = PP!Keys(l)
        BY DEF P!Keys, PP!Keys, P!DedupeKey, PP!DedupeKey, P!HashValue, PP!HashValue
      <4>3. P!Reported = PP!Reported
        BY DEF P!Reported, PP!Reported
      <4>4. done = taken /\ \A l \in taken : PP!Keys(l) \subseteq PP!Reported
        BY <1>2, <4>1 DEF PP!CompleteWithoutSignal
      <4> QED BY <4>2, <4>3, <4>4
    <3> QED BY <2>1, <3>1, <3>2
  <2>7. \A k \in P!Reported : \E l \in taken : k \in P!Keys(l)
    <3>1. round = 1
      BY <1>2 DEF PP!TypeOK, PP!Rounds
    <3> QED BY <1>2, <3>1 DEF PP!ReportsAreSent, P!Reported, PP!Reported, P!Keys, PP!Keys,
                              P!DedupeKey, PP!DedupeKey, P!HashValue, PP!HashValue
  <2>8. ASSUME exit # ExitPartial
        PROVE  done = LinesWanted /\ UNION {P!Keys(l) : l \in LinesWanted} = P!Reported
    BY <2>5, <2>6, <2>7, <2>8
  <2>9. ASSUME exit # ExitPartial PROVE exit = ExitFindings <=> emitted # <<>>
    <3>1. CASE targets = {} /\ exit = ExitClean /\ emitted = <<>>
      BY <3>1 DEF ExitFindings, ExitClean
    <3>2. CASE closed /\ P!RunEnds /\ exit = IF total > 0 THEN ExitFindings ELSE ExitClean
      <4>1. PP!Counting = {}
        BY <3>2 DEF P!RunEnds, PP!Counting
      <4>2. total = Len(emitted) + 0
        BY <1>2, <4>1, PP!FS_EmptySet DEF PP!TotalIsEmitted
      <4>3. total > 0 <=> emitted # <<>>
        BY <1>2, <4>2 DEF PP!TypeOK
      <4> QED BY <3>2, <4>3 DEF ExitFindings, ExitClean
    <3>3. ~(errCnt > 0) \/ (targets = {} /\ exit = ExitClean /\ emitted = <<>>)
      BY <2>1, <2>9 DEF ExitPartial, ExitClean
    <3> QED BY <2>1, <3>1, <3>2, <3>3
  <2> QED BY <2>4, <2>8, <2>9
<1>3. /\ ScanInv /\ flags \in FlagSets /\ running \subseteq Targets
      /\ PP!TypeOK /\ PP!TotalIsEmitted /\ PP!CompleteWithoutSignal /\ PP!ReportsAreSent
      => ExitCodeIsTrue
  BY <1>2 DEF ExitCodeIsTrue, LinesWanted
<1> QED BY <1>1, <1>3, ScanInvariant, WorldStays, PTL

(* The exit code is one of those main knows.                               *)
LEMMA ExitCodes ==
  Spec => [](exit \in {NoCode, ExitClean, ExitFindings, ExitError, ExitPartial})
<1> DEFINE Inv == exit \in {NoCode, ExitClean, ExitFindings, ExitError, ExitPartial}
<1>1. Init => Inv
  BY DEF Init
<1>2. ASSUME Inv, [Next]_vars PROVE Inv'
  <2>1. ASSUME NEW t \in Targets, StreamStep(t) \/ ScanFails(t) PROVE Inv'
    BY <1>2, <2>1 DEF StreamStep, Find, Skip, Launch, Open, OpenFails, StreamLine, StreamDone,
                      ScanFails, Fails
  <2>2. ASSUME NEW w \in Workers, Work(w) PROVE Inv'
    BY <1>2, <2>2 DEF Work
  <2>3. CASE MainStep \/ DiscoveryFails \/ Signal
    BY <1>2, <2>3 DEF MainStep, SetUp, SetupFails, Listed, CloseLines, Finish, DiscoveryFails,
                      Signal, Leave
  <2> QED BY <1>2, <2>1, <2>2, <2>3 DEF Next, vars
<1> QED BY <1>1, <1>2, PTL DEF Spec

(* The scan's state has its types, and the errors are counted.             *)
THEOREM ScanTypeCorrect ==
  ASSUME PP!PipelineAssumption
  PROVE  Spec => []TypeOK
<1>1. Spec => []PP!TypeOK
  BY SameRun, PP!TypeCorrect, PTL
<1>2. PP!TypeOK => P!TypeOK
  BY DEF PP!TypeOK, P!TypeOK, PP!LogLine, P!LogLine, PP!Match, P!Match, PP!Rounds, P!Rounds,
         PP!NoLine, P!NoLine, PP!Finding, P!Finding, PP!DedupeKeys, P!DedupeKeys
<1>3. /\ ScanInv /\ P!TypeOK
      /\ exit \in {NoCode, ExitClean, ExitFindings, ExitError, ExitPartial}
      => TypeOK
  BY DEF ScanInv, StageInv, ErrInv, TypeOK
<1> QED BY <1>1, <1>2, <1>3, ScanInvariant, ExitCodes, PTL
=============================================================================
