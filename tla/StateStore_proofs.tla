-------------------------- MODULE StateStore_proofs --------------------------
(***************************************************************************)
(* Proofs about the dedup store, for any number of processes, workers and  *)
(* keys, any faults (unless stated) and any length of the file.            *)
(***************************************************************************)
EXTENDS StateStore, TLAPS

-----------------------------------------------------------------------------
(* The file as a sequence of chunks.                                       *)

(* A chunk put behind a file leaves the earlier chunks where they are.     *)
LEMMA AppendChunk ==
  ASSUME NEW f \in Seq(Chunk), NEW c \in Chunk
  PROVE  /\ Append(f, c) \in Seq(Chunk)
         /\ Len(Append(f, c)) = Len(f) + 1
         /\ \A i \in 1 .. Len(f) : Append(f, c)[i] = f[i]
         /\ Append(f, c)[Len(f) + 1] = c
  OBVIOUS

(* The first n chunks of a file are a file.                                *)
LEMMA PrefixChunks ==
  ASSUME NEW f \in Seq(Chunk), NEW n \in 0 .. Len(f)
  PROVE  /\ SubSeq(f, 1, n) \in Seq(Chunk)
         /\ Len(SubSeq(f, 1, n)) = n
         /\ \A i \in 1 .. n : SubSeq(f, 1, n)[i] = f[i]
  OBVIOUS

(* What a replay of f reads are keys of f.                                 *)
LEMMA ParsedType ==
  ASSUME NEW f \in Seq(Chunk)
  PROVE  Parsed(f) \subseteq Keys
<1>1. \A i \in DOMAIN f : f[i] \in Chunk
  OBVIOUS
<1> QED BY <1>1 DEF Parsed, Chunk

(* Appending a chunk makes at most its own key readable (it may make the   *)
(* one before it unreadable).                                              *)
LEMMA ParsedAppend ==
  ASSUME NEW f \in Seq(Chunk), NEW c \in Chunk
  PROVE  Parsed(Append(f, c)) \subseteq Parsed(f) \cup {c.key}
<1> DEFINE g == Append(f, c)
<1>1. /\ Len(g) = Len(f) + 1
      /\ \A i \in 1 .. Len(f) : g[i] = f[i]
      /\ g[Len(f) + 1] = c
      /\ Len(f) \in Nat
      /\ g \in Seq(Chunk)
  BY AppendChunk
<1>2. ASSUME NEW i \in DOMAIN g, Readable(g, i)
      PROVE  g[i].key \in Parsed(f) \cup {c.key}
  <2>1. CASE i = Len(f) + 1
    BY <2>1, <1>1
  <2>2. CASE i \in 1 .. Len(f)
    <3> HIDE DEF g
    <3>1. i \in Nat /\ i > 1 => i - 1 \in 1 .. Len(f)
      BY <2>2, <1>1
    <3>2. g[i] = f[i] /\ (i > 1 => g[i-1] = f[i-1])
      BY <2>2, <1>1, <3>1
    <3>3. f[i].form = "line"
      BY <1>2, <2>2, <1>1, <3>2 DEF Readable
    <3>4. Readable(f, i)
      BY <1>2, <3>2, <3>3 DEF Readable
    <3> QED BY <3>2, <3>4, <2>2 DEF Parsed
  <2> QED BY <2>1, <2>2, <1>1
<1> QED BY <1>2 DEF Parsed

-----------------------------------------------------------------------------
(* Type correctness.                                                       *)

LEMMA DownType ==
  ASSUME TypeOK, NEW p \in Procs, Down(p), UNCHANGED diskVars,
         lost' \subseteq Keys
  PROVE  TypeOK'
  BY DEF TypeOK, Down, diskVars, Stages

(* What workers hold are keys.                                             *)
LEMMA InHandType ==
  ASSUME TypeOK, NEW ts \in SUBSET Threads
  PROVE  InHand(ts) \subseteq Keys
  BY DEF TypeOK, InHand

(* Every reachable state has the types the Go declarations give it.        *)
LEMMA TypeStep ==
  ASSUME TypeOK, [Next]_vars
  PROVE  TypeOK'
<1> USE StoreAssumption DEF hisVars
<1>1. ASSUME NEW p \in Procs, Acquire(p) PROVE TypeOK'
  BY <1>1 DEF TypeOK, Acquire, diskVars, workVars
<1>2. ASSUME NEW p \in Procs, Replay(p) PROVE TypeOK'
  BY <1>2, ParsedType DEF TypeOK, Replay, Replayed, diskVars, workVars
<1>3. ASSUME NEW p \in Procs, ReplayFails(p) PROVE TypeOK'
  BY <1>3, DownType DEF ReplayFails, TypeOK
<1>4. ASSUME NEW p \in Procs, Exit(p) PROVE TypeOK'
  BY <1>4, DownType DEF Exit, TypeOK
<1>5. ASSUME NEW p \in Procs, Kill(p) PROVE TypeOK'
  <2>1. lost' \subseteq Keys
    BY <1>5, InHandType DEF Kill, TypeOK
  <2> QED BY <1>5, <2>1, DownType DEF Kill
<1>6. ASSUME NEW t \in Threads, NEW k \in Keys, Detect(t, k) PROVE TypeOK'
  BY <1>6 DEF TypeOK, Detect, diskVars, procVars, Stages
<1>7. ASSUME NEW t \in Threads, Suppress(t) PROVE TypeOK'
  BY <1>7 DEF TypeOK, Suppress, diskVars, procVars, Stages
<1>8. ASSUME NEW t \in Threads, Insert(t) PROVE TypeOK'
  BY <1>8 DEF TypeOK, Insert, diskVars, Stages
<1>9. ASSUME NEW t \in Threads, Append1(t) PROVE TypeOK'
  <2>1. [key |-> arg[t], form |-> "line"] \in Chunk
    BY <1>9 DEF Append1, TypeOK, Chunk, Forms
  <2>2. file' \in Seq(Chunk) /\ Len(file') = Len(file) + 1
    BY <1>9, <2>1, AppendChunk DEF Append1, TypeOK
  <2>3. durable' \in 0 .. Len(file')
    BY <1>9, <2>2 DEF Append1, TypeOK
  <2> QED BY <1>9, <2>2, <2>3 DEF Append1, TypeOK, procVars, Stages
<1>10. ASSUME NEW t \in Threads, AppendFails(t) PROVE TypeOK'
  <2>1. \A form \in {"bare", "part"} : [key |-> arg[t], form |-> form] \in Chunk
    BY <1>10 DEF AppendFails, TypeOK, Chunk, Forms
  <2>2. \/ file' = file
        \/ \E form \in {"bare", "part"} :
             file' = Append(file, [key |-> arg[t], form |-> form])
    BY <1>10 DEF AppendFails
  <2>3. file' \in Seq(Chunk) /\ Len(file') \in Nat /\ Len(file') >= Len(file)
    <3>1. file \in Seq(Chunk) /\ Len(file) \in Nat
      BY DEF TypeOK
    <3>2. CASE file' = file
      BY <3>1, <3>2
    <3>3. ASSUME NEW form \in {"bare", "part"},
                 file' = Append(file, [key |-> arg[t], form |-> form])
          PROVE  file' \in Seq(Chunk) /\ Len(file') = Len(file) + 1
      BY <2>1, <3>1, <3>3, AppendChunk
    <3> QED BY <2>2, <3>1, <3>2, <3>3
  <2>4. file' \in Seq(Chunk) /\ durable' \in 0 .. Len(file')
    BY <1>10, <2>3 DEF AppendFails, TypeOK
  <2> QED BY <1>10, <2>4 DEF AppendFails, TypeOK, Stages
<1>11. ASSUME NEW t \in Threads, Sync(t) PROVE TypeOK'
  BY <1>11 DEF TypeOK, Sync, Stages
<1>12. ASSUME NEW t \in Threads, Emit(t) \/ EmitFails(t) PROVE TypeOK'
  <2>1. Done(t) /\ stage[t] = "emit" /\ arg[t] \in Keys /\ stage'[t] = "idle"
    BY <1>12 DEF Emit, EmitFails, Done, TypeOK
  <2>2. sinkErr' \in [Procs -> BOOLEAN]
    <3>1. UNCHANGED sinkErr \/ SinkFails(ProcOf[t])
      BY <1>12 DEF Emit, EmitFails
    <3>2. ASSUME SinkFails(ProcOf[t]) PROVE sinkErr' \in [Procs -> BOOLEAN]
      <4>1. (ProcOf[t] \in JsonProcs) \in BOOLEAN
        OBVIOUS
      <4> QED BY <3>2, <4>1, Zenon DEF SinkFails, TypeOK
    <3> QED BY <3>1, <3>2 DEF TypeOK
  <2>3. reports' \in [Keys -> Nat] /\ dropped' \subseteq Keys
    <3>1. CASE Emit(t)
      <4>1. reports' = [reports EXCEPT ![arg[t]] = @ + 1] /\ dropped' = dropped
        BY <3>1 DEF Emit
      <4> QED BY <2>1, <4>1 DEF TypeOK
    <3>2. CASE EmitFails(t)
      <4>1. reports' = reports /\ dropped' = dropped \cup {arg[t]}
        BY <3>2 DEF EmitFails
      <4> QED BY <2>1, <4>1 DEF TypeOK
    <3> QED BY <1>12, <3>1, <3>2
  <2> QED BY <2>1, <2>2, <2>3 DEF TypeOK, Done, diskVars, Stages
<1>13. ASSUME PowerLoss PROVE TypeOK'
  <2>1. file' \in Seq(Chunk)
    <3>1. PICK n \in durable .. Len(file) :
             \/ file' = SubSeq(file, 1, n)
             \/ /\ n < Len(file)
                /\ \E c \in Remains(file[n+1]) :
                     file' = Append(SubSeq(file, 1, n), c)
      BY <1>13 DEF PowerLoss
    <3>2. n \in 0 .. Len(file) /\ SubSeq(file, 1, n) \in Seq(Chunk)
      BY <3>1, PrefixChunks DEF TypeOK
    <3>3. ASSUME n < Len(file) PROVE Remains(file[n+1]) \subseteq Chunk
      <4>1. n + 1 \in 1 .. Len(file)
        BY <3>2, <3>3 DEF TypeOK
      <4>2. file[n+1] \in Chunk
        BY <4>1 DEF TypeOK
      <4> QED BY <4>2 DEF Remains, Chunk, Forms
    <3> QED BY <3>1, <3>2, <3>3, AppendChunk
  <2>2. durable' = Len(file') /\ Len(file') \in Nat
    BY <1>13, <2>1 DEF PowerLoss
  <2>3. lost' \subseteq Keys
    BY <1>13, InHandType DEF PowerLoss, TypeOK
  <2> QED BY <1>13, <2>1, <2>2, <2>3 DEF PowerLoss, TypeOK, Stages
<1>14. ASSUME UNCHANGED vars PROVE TypeOK'
  BY <1>14 DEF TypeOK, vars, diskVars, procVars, workVars
<1> QED
  BY <1>1, <1>2, <1>3, <1>4, <1>5, <1>6, <1>7, <1>8, <1>9, <1>10, <1>11,
     <1>12, <1>13, <1>14 DEF Next, WorkerStep

(* Every variable keeps its type in every reachable state.                 *)
THEOREM TypeCorrect == Spec => []TypeOK
<1>1. Init => TypeOK
  BY StoreAssumption DEF Init, TypeOK, Stages
<1>2. TypeOK /\ [Next]_vars => TypeOK'
  BY TypeStep
<1> QED BY <1>1, <1>2, PTL DEF Spec

-----------------------------------------------------------------------------
(* A running process knows every readable key.                             *)

(* Only the holder of the flock is between Open and its end; a worker      *)
(* exists only in a running process; the worker that writes has entered    *)
(* its key in the map of its process.                                      *)
Excl == \A p \in Procs : pc[p] # "down" => holder = p
Alive == \A t \in Threads : stage[t] # "idle" => pc[ProcOf[t]] = "running"
Knows == \A t \in Threads :
           stage[t] \in {"write", "sync", "emit"} => arg[t] \in seen[ProcOf[t]]

KnowInv == TypeOK /\ Excl /\ Alive /\ Knows /\ NoStaleSeen

LEMMA DownKnow ==
  ASSUME KnowInv, NEW p \in Procs, Down(p), UNCHANGED diskVars
  PROVE  Excl' /\ Alive' /\ Knows' /\ NoStaleSeen'
<1> USE StoreAssumption DEF hisVars, KnowInv, TypeOK
<1>1. Excl'
  BY DEF Excl, Down
<1>2. Alive'
  BY DEF Alive, Down
<1>3. Knows'
  BY DEF Knows, Down
<1>4. NoStaleSeen'
  BY DEF NoStaleSeen, Down, diskVars
<1> QED BY <1>1, <1>2, <1>3, <1>4

(* The chunk a worker writes is known to its process, and no other process *)
(* is running.                                                             *)
LEMMA WriteKnow ==
  ASSUME KnowInv, NEW t \in Threads, stage[t] = "write",
         NEW form \in Forms,
         file' = Append(file, [key |-> arg[t], form |-> form]),
         pc' = pc, seen' = seen
  PROVE  NoStaleSeen'
<1> USE StoreAssumption DEF hisVars, KnowInv, TypeOK
<1>1. [key |-> arg[t], form |-> form] \in Chunk
  BY DEF Chunk
<1>2. Parsed(file') \subseteq Parsed(file) \cup {arg[t]}
  BY <1>1, ParsedAppend
<1>3. ASSUME NEW p \in Procs, pc[p] = "running" PROVE Parsed(file') \subseteq seen[p]
  <2>1. p = ProcOf[t]
    BY <1>3 DEF Excl, Alive
  <2>2. arg[t] \in seen[p]
    BY <2>1 DEF Knows
  <2>3. Parsed(file) \subseteq seen[p]
    BY <1>3 DEF NoStaleSeen
  <2> QED BY <1>2, <2>2, <2>3
<1> QED BY <1>3 DEF NoStaleSeen

LEMMA KnowStep ==
  ASSUME KnowInv, [Next]_vars
  PROVE  KnowInv'
<1> USE StoreAssumption DEF hisVars
<1>0. TypeOK /\ TypeOK'
  BY TypeStep DEF KnowInv
<1> DEFINE Rest == Excl /\ Alive /\ Knows /\ NoStaleSeen
<1>r. Rest
  BY DEF KnowInv
<1>1. ASSUME NEW p \in Procs, Acquire(p) PROVE Rest'
  BY <1>0, <1>r, <1>1 DEF TypeOK, Excl, Alive, Knows, NoStaleSeen, Acquire,
     FlockFree, diskVars, workVars
<1>2. ASSUME NEW p \in Procs, Replay(p) PROVE Rest'
  BY <1>0, <1>r, <1>2 DEF TypeOK, Excl, Alive, Knows, NoStaleSeen, Replay,
     Replayed, diskVars, workVars
<1>3. ASSUME NEW p \in Procs, ReplayFails(p) PROVE Rest'
  BY <1>3, DownKnow DEF ReplayFails
<1>4. ASSUME NEW p \in Procs, Exit(p) PROVE Rest'
  BY <1>4, DownKnow DEF Exit
<1>5. ASSUME NEW p \in Procs, Kill(p) PROVE Rest'
  BY <1>5, DownKnow DEF Kill
<1>6. ASSUME NEW t \in Threads, NEW k \in Keys, Detect(t, k) PROVE Rest'
  BY <1>0, <1>r, <1>6 DEF TypeOK, Excl, Alive, Knows, NoStaleSeen, Detect,
     diskVars, procVars
<1>7. ASSUME NEW t \in Threads, Suppress(t) PROVE Rest'
  BY <1>0, <1>r, <1>7 DEF TypeOK, Excl, Alive, Knows, NoStaleSeen, Suppress,
     diskVars, procVars
<1>8. ASSUME NEW t \in Threads, Insert(t) PROVE Rest'
  BY <1>0, <1>r, <1>8 DEF TypeOK, Excl, Alive, Knows, NoStaleSeen, Insert,
     diskVars
<1>9. ASSUME NEW t \in Threads, Append1(t) PROVE Rest'
  <2>1. Excl' /\ Alive' /\ Knows'
    BY <1>0, <1>r, <1>9 DEF TypeOK, Excl, Alive, Knows, Append1, procVars
  <2>2. NoStaleSeen'
    BY <1>9, WriteKnow DEF Append1, procVars, Forms
  <2> QED BY <2>1, <2>2
<1>10. ASSUME NEW t \in Threads, AppendFails(t) PROVE Rest'
  <2>1. Excl' /\ Alive' /\ Knows'
    BY <1>0, <1>r, <1>10 DEF TypeOK, Excl, Alive, Knows, AppendFails
  <2>2. NoStaleSeen'
    <3>1. CASE UNCHANGED file
      BY <1>r, <1>10, <3>1 DEF AppendFails, NoStaleSeen
    <3>2. ASSUME NEW form \in {"bare", "part"},
                 file' = Append(file, [key |-> arg[t], form |-> form])
          PROVE  NoStaleSeen'
      BY <1>10, <3>2, WriteKnow DEF AppendFails, Forms
    <3> QED BY <1>10, <3>1, <3>2 DEF AppendFails
  <2> QED BY <2>1, <2>2
<1>11. ASSUME NEW t \in Threads, Sync(t) PROVE Rest'
  BY <1>0, <1>r, <1>11 DEF TypeOK, Excl, Alive, Knows, NoStaleSeen, Sync
<1>12. ASSUME NEW t \in Threads, Done(t) PROVE Rest'
  BY <1>0, <1>r, <1>12 DEF TypeOK, Excl, Alive, Knows, NoStaleSeen, Done,
     diskVars
<1>13. ASSUME PowerLoss PROVE Rest'
  BY <1>13 DEF PowerLoss, Excl, Alive, Knows, NoStaleSeen
<1>14. ASSUME UNCHANGED vars PROVE Rest'
  BY <1>r, <1>14 DEF Excl, Alive, Knows, NoStaleSeen, vars, diskVars, procVars,
     workVars
<1>15. Rest'
  BY <1>1, <1>2, <1>3, <1>4, <1>5, <1>6, <1>7, <1>8, <1>9, <1>10, <1>11,
     <1>12, <1>13, <1>14 DEF Next, WorkerStep, Emit, EmitFails
<1> QED BY <1>0, <1>15 DEF KnowInv

LEMMA KnowInit == Init => KnowInv
  BY StoreAssumption
  DEF Init, KnowInv, TypeOK, Excl, Alive, Knows, NoStaleSeen, Stages

(* Whatever crashes, tears, short writes and failed fsyncs happen, a       *)
(* running process never lacks a key that can be read from the file.       *)
THEOREM NeverStale == Spec => []NoStaleSeen
<1>1. KnowInv /\ [Next]_vars => KnowInv'
  BY KnowStep
<1>2. KnowInv => NoStaleSeen
  BY DEF KnowInv
<1> QED BY <1>1, <1>2, KnowInit, PTL DEF Spec

-----------------------------------------------------------------------------
(* No key has two readable records.                                        *)

(* Chunk i is a whole line on its own, whatever follows it.                *)
Lasting(f, i) == f[i].form = "line" /\ (i > 1 => f[i-1].form = "line")

(* No chunk was written for a key that an earlier lasting line records.    *)
WrittenOnce(f) ==
  \A i, j \in 1 .. Len(f) :
    j < i /\ Lasting(f, j) => f[i].key # f[j].key

(* The worker that writes holds the mutex of its process, and its key is   *)
(* not in the file yet.                                                    *)
Locked == \A t \in Threads :
            stage[t] \in {"write", "sync"} => mu[ProcOf[t]] = t
Fresh == \A t \in Threads :
           stage[t] = "write" => arg[t] \notin Parsed(file)

OnceInv == KnowInv /\ Locked /\ Fresh /\ WrittenOnce(file)

LEMMA WrittenOnceRecordedOnce ==
  ASSUME NEW f \in Seq(Chunk), WrittenOnce(f),
         NEW i \in DOMAIN f, NEW j \in DOMAIN f,
         Readable(f, i), Readable(f, j), f[i].key = f[j].key
  PROVE  i = j
<1>1. \A a \in DOMAIN f : a < Len(f) /\ Readable(f, a) => Lasting(f, a)
  BY DEF Readable, Lasting
<1>2. DOMAIN f = 1 .. Len(f) /\ Len(f) \in Nat
  OBVIOUS
<1>3. ASSUME NEW a \in DOMAIN f, NEW b \in DOMAIN f, Readable(f, b),
             f[a].key = f[b].key, b < a
      PROVE  FALSE
  BY <1>1, <1>2, <1>3 DEF WrittenOnce
<1>4. ~(j < i) /\ ~(i < j)
  BY <1>3
<1> QED BY <1>2, <1>4

LEMMA AppendWrittenOnce ==
  ASSUME NEW f \in Seq(Chunk), NEW c \in Chunk, WrittenOnce(f),
         c.key \notin Parsed(f)
  PROVE  WrittenOnce(Append(f, c))
<1> DEFINE g == Append(f, c)
<1>1. /\ Len(g) = Len(f) + 1
      /\ \A i \in 1 .. Len(f) : g[i] = f[i]
      /\ g[Len(f) + 1] = c
      /\ Len(f) \in Nat
  BY AppendChunk
<1> HIDE DEF g
<1>2. ASSUME NEW i \in 1 .. Len(g), NEW j \in 1 .. Len(g), j < i, Lasting(g, j)
      PROVE  g[i].key # g[j].key
  <2>1. j \in 1 .. Len(f) /\ (j > 1 => j - 1 \in 1 .. Len(f))
    BY <1>1, <1>2
  <2>2. Lasting(f, j) /\ g[j] = f[j]
    BY <1>1, <1>2, <2>1 DEF Lasting
  <2>3. CASE i \in 1 .. Len(f)
    BY <1>1, <1>2, <2>1, <2>2, <2>3 DEF WrittenOnce
  <2>4. CASE i = Len(f) + 1
    <3>1. f[j].key \in Parsed(f)
      BY <2>1, <2>2 DEF Lasting, Parsed, Readable
    <3> QED BY <1>1, <2>2, <2>4, <3>1
  <2> QED BY <1>1, <1>2, <2>3, <2>4
<1> QED BY <1>2 DEF WrittenOnce, g

LEMMA PrefixWrittenOnce ==
  ASSUME NEW f \in Seq(Chunk), NEW n \in 0 .. Len(f), WrittenOnce(f)
  PROVE  WrittenOnce(SubSeq(f, 1, n))
<1> DEFINE g == SubSeq(f, 1, n)
<1>1. Len(g) = n /\ (\A i \in 1 .. n : g[i] = f[i]) /\ n \in Nat /\ n <= Len(f)
  BY PrefixChunks
<1> HIDE DEF g
<1>2. ASSUME NEW i \in 1 .. Len(g), NEW j \in 1 .. Len(g), j < i, Lasting(g, j)
      PROVE  g[i].key # g[j].key
  <2>1. j \in 1 .. n /\ i \in 1 .. n /\ (j > 1 => j - 1 \in 1 .. n)
    BY <1>1, <1>2
  <2>2. Lasting(f, j) /\ g[j] = f[j] /\ g[i] = f[i]
    BY <1>1, <1>2, <2>1 DEF Lasting
  <2>3. i \in 1 .. Len(f) /\ j \in 1 .. Len(f)
    BY <1>1, <2>1
  <2> QED BY <1>2, <2>2, <2>3 DEF WrittenOnce
<1> QED BY <1>2 DEF WrittenOnce, g

(* A torn chunk n+1 has the key of the chunk it is what remains of.        *)
LEMMA TornWrittenOnce ==
  ASSUME NEW f \in Seq(Chunk), NEW n \in 0 .. Len(f), n < Len(f),
         WrittenOnce(f), NEW c \in Chunk, c.key = f[n+1].key
  PROVE  WrittenOnce(Append(SubSeq(f, 1, n), c))
<1> DEFINE s == SubSeq(f, 1, n)
           g == Append(s, c)
<1>1. /\ s \in Seq(Chunk) /\ Len(s) = n
      /\ \A i \in 1 .. n : s[i] = f[i]
      /\ n \in Nat /\ Len(f) \in Nat
  BY PrefixChunks
<1> HIDE DEF s
<1>2. /\ Len(g) = n + 1
      /\ \A i \in 1 .. n : g[i] = f[i]
      /\ g[n + 1] = c
  BY <1>1, AppendChunk
<1> HIDE DEF g
<1>3. ASSUME NEW i \in 1 .. Len(g), NEW j \in 1 .. Len(g), j < i, Lasting(g, j)
      PROVE  g[i].key # g[j].key
  <2>1. j \in 1 .. n /\ (j > 1 => j - 1 \in 1 .. n)
    BY <1>1, <1>2, <1>3
  <2>2. Lasting(f, j) /\ g[j] = f[j]
    BY <1>2, <1>3, <2>1 DEF Lasting
  <2>3. g[i].key = f[i].key /\ i \in 1 .. Len(f)
    BY <1>1, <1>2, <1>3
  <2> QED BY <1>1, <1>3, <2>1, <2>2, <2>3 DEF WrittenOnce
<1> QED BY <1>3 DEF WrittenOnce, g, s

LEMMA OnceStep ==
  ASSUME OnceInv, [Next]_vars
  PROVE  OnceInv'
<1> USE StoreAssumption DEF hisVars
<1>0. TypeOK /\ TypeOK' /\ KnowInv /\ KnowInv'
  BY KnowStep DEF OnceInv, KnowInv
<1> DEFINE Rest == Locked /\ Fresh /\ WrittenOnce(file)
<1>r. Rest
  BY DEF OnceInv
<1>d. ASSUME NEW p \in Procs, Down(p), UNCHANGED diskVars PROVE Rest'
  BY <1>0, <1>r, <1>d DEF TypeOK, Locked, Fresh, Down, diskVars
<1>1. ASSUME NEW p \in Procs, Acquire(p) PROVE Rest'
  BY <1>0, <1>r, <1>1 DEF TypeOK, Locked, Fresh, Acquire, diskVars, workVars
<1>2. ASSUME NEW p \in Procs, Replay(p) PROVE Rest'
  BY <1>0, <1>r, <1>2 DEF TypeOK, Locked, Fresh, Replay, diskVars, workVars
<1>3. ASSUME NEW p \in Procs, ReplayFails(p) PROVE Rest'
  BY <1>3, <1>d DEF ReplayFails
<1>4. ASSUME NEW p \in Procs, Exit(p) PROVE Rest'
  BY <1>4, <1>d DEF Exit
<1>5. ASSUME NEW p \in Procs, Kill(p) PROVE Rest'
  BY <1>5, <1>d DEF Kill
<1>6. ASSUME NEW t \in Threads, NEW k \in Keys, Detect(t, k) PROVE Rest'
  BY <1>0, <1>r, <1>6 DEF TypeOK, Locked, Fresh, Detect, diskVars, procVars
<1>7. ASSUME NEW t \in Threads, Suppress(t) PROVE Rest'
  BY <1>0, <1>r, <1>7 DEF TypeOK, Locked, Fresh, Suppress, diskVars, procVars
<1>8. ASSUME NEW t \in Threads, Insert(t) PROVE Rest'
  <2>1. Locked' /\ WrittenOnce(file)'
    BY <1>0, <1>r, <1>8 DEF TypeOK, Locked, Insert, diskVars
  <2>2. arg[t] \notin Parsed(file)
    BY <1>0, <1>8 DEF TypeOK, KnowInv, Alive, NoStaleSeen, Insert
  <2>3. Fresh'
    BY <1>0, <1>r, <1>8, <2>2 DEF TypeOK, Fresh, Insert, diskVars
  <2> QED BY <2>1, <2>3
<1>w. ASSUME NEW t \in Threads, stage[t] = "write", NEW form \in Forms,
             file' = Append(file, [key |-> arg[t], form |-> form])
      PROVE  WrittenOnce(file)'
  <2>1. [key |-> arg[t], form |-> form] \in Chunk
    BY <1>0, <1>w DEF TypeOK, Chunk
  <2>2. arg[t] \notin Parsed(file)
    BY <1>r, <1>w DEF Fresh
  <2> QED BY <1>0, <1>r, <1>w, <2>1, <2>2, AppendWrittenOnce DEF TypeOK
<1>x. ASSUME NEW t \in Threads, stage[t] = "write", stage'[t] # "write",
             \A u \in Threads : u # t => stage'[u] = stage[u]
      PROVE  Fresh'
  \* Nobody else is writing: the others' processes are down, and the
  \* other workers of this process do not hold the mutex.
  <2>1. ASSUME NEW u \in Threads, stage'[u] = "write" PROVE FALSE
    <3>1. u # t /\ stage[u] = "write"
      BY <1>x, <2>1
    <3>2. pc[ProcOf[u]] = "running" /\ pc[ProcOf[t]] = "running"
      BY <1>0, <1>x, <3>1 DEF KnowInv, Alive
    <3>3. ProcOf[u] = ProcOf[t]
      BY <1>0, <3>2 DEF KnowInv, Excl
    <3> QED BY <1>r, <1>x, <3>1, <3>3 DEF Locked
  <2> QED BY <2>1 DEF Fresh
<1>9. ASSUME NEW t \in Threads, Append1(t) PROVE Rest'
  <2>1. Locked'
    BY <1>0, <1>r, <1>9 DEF TypeOK, Locked, Append1, procVars
  <2>2. WrittenOnce(file)'
    BY <1>9, <1>w DEF Append1, Forms
  <2>3. Fresh'
    BY <1>0, <1>9, <1>x DEF TypeOK, Append1
  <2> QED BY <2>1, <2>2, <2>3
<1>10. ASSUME NEW t \in Threads, AppendFails(t) PROVE Rest'
  <2>1. Locked'
    BY <1>0, <1>r, <1>10 DEF TypeOK, Locked, AppendFails
  <2>2. WrittenOnce(file)'
    <3>1. CASE UNCHANGED file
      BY <1>r, <3>1
    <3>2. ASSUME NEW form \in {"bare", "part"},
                 file' = Append(file, [key |-> arg[t], form |-> form])
          PROVE  WrittenOnce(file)'
      BY <1>10, <3>2, <1>w DEF AppendFails, Forms
    <3> QED BY <1>10, <3>1, <3>2 DEF AppendFails
  <2>3. Fresh'
    BY <1>0, <1>10, <1>x DEF TypeOK, AppendFails
  <2> QED BY <2>1, <2>2, <2>3
<1>11. ASSUME NEW t \in Threads, Sync(t) PROVE Rest'
  <2>1. \A u \in Threads : u # t /\ stage[u] \in {"write", "sync"}
           => ProcOf[u] # ProcOf[t]
    BY <1>r, <1>11 DEF Locked, Sync
  <2> QED BY <1>0, <1>r, <1>11, <2>1 DEF TypeOK, Locked, Fresh, Sync
<1>12. ASSUME NEW t \in Threads, Done(t) PROVE Rest'
  BY <1>0, <1>r, <1>12 DEF TypeOK, Locked, Fresh, Done, diskVars
<1>13. ASSUME PowerLoss PROVE Rest'
  <2>1. Locked' /\ Fresh'
    BY <1>13 DEF PowerLoss, Locked, Fresh
  <2>2. PICK n \in durable .. Len(file) :
           \/ file' = SubSeq(file, 1, n)
           \/ /\ n < Len(file)
              /\ \E c \in Remains(file[n+1]) :
                   file' = Append(SubSeq(file, 1, n), c)
    BY <1>13 DEF PowerLoss
  <2>3. n \in 0 .. Len(file)
    BY <1>0, <2>2 DEF TypeOK
  <2>4. CASE file' = SubSeq(file, 1, n)
    BY <1>0, <1>r, <2>1, <2>3, <2>4, PrefixWrittenOnce DEF TypeOK
  <2>5. ASSUME n < Len(file), NEW c \in Remains(file[n+1]),
               file' = Append(SubSeq(file, 1, n), c)
        PROVE  WrittenOnce(file')
    <3>1. file[n+1] \in Chunk
      BY <1>0, <2>3, <2>5 DEF TypeOK
    <3>2. c \in Chunk /\ c.key = file[n+1].key
      BY <2>5, <3>1 DEF Remains, Chunk, Forms
    <3> QED BY <1>0, <1>r, <2>3, <2>5, <3>2, TornWrittenOnce DEF TypeOK
  <2> QED BY <2>1, <2>2, <2>4, <2>5
<1>14. ASSUME UNCHANGED vars PROVE Rest'
  BY <1>r, <1>14 DEF Locked, Fresh, vars, diskVars, procVars, workVars
<1>15. Rest'
  BY <1>1, <1>2, <1>3, <1>4, <1>5, <1>6, <1>7, <1>8, <1>9, <1>10, <1>11,
     <1>12, <1>13, <1>14 DEF Next, WorkerStep, Emit, EmitFails
<1> QED BY <1>0, <1>15 DEF OnceInv

LEMMA OnceInit == Init => OnceInv
<1>1. Init => KnowInv
  BY KnowInit
<1>2. Init => Locked /\ Fresh /\ WrittenOnce(file)
  BY DEF Init, Locked, Fresh, WrittenOnce
<1> QED BY <1>1, <1>2 DEF OnceInv

LEMMA OnceRecorded == OnceInv => RecordedOnce
  BY WrittenOnceRecordedOnce DEF OnceInv, KnowInv, TypeOK, RecordedOnce

(* The README's "already-seen keys are never rewritten": under every fault *)
(* no key ever has two records that can be read back.                      *)
THEOREM NeverRewritten == Spec => []RecordedOnce
<1> QED BY OnceInit, OnceStep, OnceRecorded, PTL DEF Spec

-----------------------------------------------------------------------------
(* At most one report, when no write is torn or short and fsync works.     *)

Benign == Faults \subseteq {"kill", "power", "sink", "read"}

Active == {"write", "sync", "emit"}

Whole == \A i \in 1 .. Len(file) : file[i].form = "line"
NoErr == \A p \in Procs : ~encErr[p]

(* A reported key is in the part of the file that a power loss spares.     *)
Kept == \A k \in Keys : reports[k] > 0 => k \in KeysUpTo(file, durable)

(* A worker between the map and the report works on a key nobody has       *)
(* reported and no other worker has; its record is where it should be.     *)
NotYet == \A t \in Threads : stage[t] \in Active => reports[arg[t]] = 0
Alone == \A t, u \in Threads :
           stage[t] \in Active /\ stage[u] \in Active /\ arg[t] = arg[u] => t = u
Stored == \A t \in Threads :
            /\ stage[t] = "sync" => arg[t] \in KeysUpTo(file, Len(file))
            /\ stage[t] = "emit" => arg[t] \in KeysUpTo(file, durable)

SafeInv == /\ OnceInv
           /\ Whole /\ NoErr /\ Kept /\ NotYet /\ Alone /\ Stored
           /\ AtMostOnceReported

LEMMA KeysAppend ==
  ASSUME NEW f \in Seq(Chunk), NEW c \in Chunk, NEW n \in 0 .. Len(f)
  PROVE  /\ KeysUpTo(f, n) \subseteq KeysUpTo(Append(f, c), n)
         /\ c.key \in KeysUpTo(Append(f, c), Len(Append(f, c)))
<1> DEFINE g == Append(f, c)
<1>1. /\ g \in Seq(Chunk) /\ Len(g) = Len(f) + 1
      /\ \A i \in 1 .. Len(f) : g[i] = f[i]
      /\ g[Len(f) + 1] = c
      /\ Len(f) \in Nat
  BY AppendChunk
<1> HIDE DEF g
<1>2. DOMAIN g = 1 .. Len(f) + 1 /\ DOMAIN f = 1 .. Len(f)
  BY <1>1
<1>3. KeysUpTo(f, n) \subseteq KeysUpTo(g, n)
  BY <1>1, <1>2 DEF KeysUpTo
<1>4. c.key \in KeysUpTo(g, Len(g))
  BY <1>1, <1>2 DEF KeysUpTo
<1> QED BY <1>3, <1>4 DEF g

LEMMA KeysPrefix ==
  ASSUME NEW f \in Seq(Chunk), NEW n \in 0 .. Len(f), NEW d \in 0 .. n
  PROVE  KeysUpTo(f, d) \subseteq KeysUpTo(SubSeq(f, 1, n), n)
<1> DEFINE g == SubSeq(f, 1, n)
<1>1. /\ g \in Seq(Chunk) /\ Len(g) = n /\ n \in Nat /\ d \in Nat /\ d <= n
      /\ \A i \in 1 .. n : g[i] = f[i]
  BY PrefixChunks
<1> HIDE DEF g
<1>2. DOMAIN g = 1 .. n /\ DOMAIN f = 1 .. Len(f)
  BY <1>1
<1>3. KeysUpTo(f, d) \subseteq KeysUpTo(g, n)
  BY <1>1, <1>2 DEF KeysUpTo
<1> QED BY <1>3 DEF g

LEMMA KeysMono ==
  ASSUME NEW f \in Seq(Chunk), NEW n \in 0 .. Len(f)
  PROVE  KeysUpTo(f, n) \subseteq KeysUpTo(f, Len(f))
  BY DEF KeysUpTo

(* In a file of whole lines every chunk is read back.                      *)
LEMMA KeysParsed ==
  ASSUME NEW f \in Seq(Chunk), \A i \in 1 .. Len(f) : f[i].form = "line"
  PROVE  Parsed(f) = KeysUpTo(f, Len(f))
<1>1. DOMAIN f = 1 .. Len(f) /\ Len(f) \in Nat
  OBVIOUS
<1>2. \A i \in DOMAIN f : Readable(f, i) /\ i <= Len(f)
  BY <1>1 DEF Readable
<1> QED BY <1>2 DEF Parsed, KeysUpTo

LEMMA SafeStep ==
  ASSUME Benign, SafeInv, [Next]_vars
  PROVE  SafeInv'
<1> USE StoreAssumption DEF hisVars
<1>0. TypeOK /\ TypeOK' /\ KnowInv /\ OnceInv /\ OnceInv'
  BY OnceStep DEF SafeInv, OnceInv, KnowInv
<1> DEFINE Rest == Whole /\ NoErr /\ Kept /\ NotYet /\ Alone /\ Stored
                   /\ AtMostOnceReported
<1>r. Rest
  BY DEF SafeInv
<1>d. ASSUME NEW p \in Procs, Down(p), UNCHANGED diskVars PROVE Rest'
  <2>1. Whole' /\ AtMostOnceReported'
    BY <1>r, <1>d DEF Whole, AtMostOnceReported, Down, diskVars
  <2>2. NoErr' /\ Kept'
    BY <1>0, <1>r, <1>d DEF TypeOK, NoErr, Kept, Down, diskVars
  <2>3. NotYet' /\ Alone' /\ Stored'
    BY <1>0, <1>r, <1>d DEF TypeOK, NotYet, Alone, Stored, Down, diskVars, Active
  <2> QED BY <2>1, <2>2, <2>3
<1>1. ASSUME NEW p \in Procs, Acquire(p) PROVE Rest'
  BY <1>0, <1>r, <1>1 DEF TypeOK, Whole, NoErr, Kept, NotYet, Alone, Stored,
     AtMostOnceReported, Acquire, diskVars, workVars
<1>2. ASSUME NEW p \in Procs, Replay(p) PROVE Rest'
  BY <1>0, <1>r, <1>2 DEF TypeOK, Whole, NoErr, Kept, NotYet, Alone, Stored,
     AtMostOnceReported, Replay, diskVars, workVars
<1>3. ASSUME NEW p \in Procs, ReplayFails(p) PROVE Rest'
  BY <1>3, <1>d DEF ReplayFails
<1>4. ASSUME NEW p \in Procs, Exit(p) PROVE Rest'
  BY <1>4, <1>d DEF Exit
<1>5. ASSUME NEW p \in Procs, Kill(p) PROVE Rest'
  BY <1>5, <1>d DEF Kill
<1>6. ASSUME NEW t \in Threads, NEW k \in Keys, Detect(t, k) PROVE Rest'
  BY <1>0, <1>r, <1>6 DEF TypeOK, Whole, NoErr, Kept, NotYet, Alone, Stored,
     AtMostOnceReported, Detect, diskVars, procVars, Active
<1>7. ASSUME NEW t \in Threads, Suppress(t) PROVE Rest'
  BY <1>0, <1>r, <1>7 DEF TypeOK, Whole, NoErr, Kept, NotYet, Alone, Stored,
     AtMostOnceReported, Suppress, diskVars, procVars, Active
<1>8. ASSUME NEW t \in Threads, Insert(t) PROVE Rest'
  <2> DEFINE p == ProcOf[t]
  <2>1. Whole' /\ NoErr' /\ Kept' /\ AtMostOnceReported'
    BY <1>0, <1>r, <1>8 DEF TypeOK, Whole, NoErr, Kept, AtMostOnceReported,
       Insert, diskVars
  <2>2. arg[t] \notin Parsed(file) /\ arg[t] \in Keys /\ pc[p] = "running"
    BY <1>0, <1>8 DEF TypeOK, KnowInv, Alive, NoStaleSeen, Insert
  <2>3. KeysUpTo(file, durable) \subseteq Parsed(file)
    <3>1. file \in Seq(Chunk) /\ durable \in 0 .. Len(file)
      BY <1>0 DEF TypeOK
    <3>2. Parsed(file) = KeysUpTo(file, Len(file))
      BY <1>r, <3>1, KeysParsed DEF Whole
    <3> QED BY <3>1, <3>2, KeysMono
  <2>4. reports[arg[t]] = 0
    BY <1>0, <1>r, <2>2, <2>3 DEF TypeOK, Kept
  <2>5. NotYet'
    BY <1>0, <1>r, <1>8, <2>4 DEF TypeOK, NotYet, Insert, Active
  \* The map of the only running process lacks the key, so nobody has it.
  <2>6. ASSUME NEW u \in Threads, stage[u] \in Active PROVE arg[u] # arg[t]
    <3>1. ProcOf[u] = p
      BY <1>0, <2>2, <2>6 DEF KnowInv, Alive, Excl, Active
    <3>2. arg[u] \in seen[p]
      BY <1>0, <2>6, <3>1 DEF KnowInv, Knows, Active
    <3> QED BY <1>8, <3>2 DEF Insert
  <2>7. Alone'
    BY <1>0, <1>r, <1>8, <2>6 DEF TypeOK, Alone, Insert, Active
  <2>8. Stored'
    BY <1>0, <1>r, <1>8 DEF TypeOK, Stored, Insert, diskVars
  <2> QED BY <2>1, <2>5, <2>7, <2>8
<1>9. ASSUME NEW t \in Threads, Append1(t) PROVE Rest'
  <2> DEFINE c == [key |-> arg[t], form |-> "line"]
  <2>1. c \in Chunk /\ c.key = arg[t] /\ c.form = "line"
    BY <1>0, <1>9 DEF TypeOK, Append1, Chunk, Forms
  <2>2. file' = Append(file, c) /\ file \in Seq(Chunk)
    BY <1>0, <1>9 DEF TypeOK, Append1
  <2> HIDE DEF c
  <2>3. Whole'
    BY <1>r, <2>1, <2>2, AppendChunk DEF Whole
  <2>4. KeysUpTo(file, durable) \subseteq KeysUpTo(file', durable)
        /\ KeysUpTo(file, Len(file)) \subseteq KeysUpTo(file', Len(file'))
        /\ arg[t] \in KeysUpTo(file', Len(file'))
    <3>1. durable \in 0 .. Len(file) /\ Len(file) \in 0 .. Len(file)
      BY <1>0, <2>2 DEF TypeOK
    <3>2. KeysUpTo(file', Len(file)) \subseteq KeysUpTo(file', Len(file'))
      <4>1. file' \in Seq(Chunk) /\ Len(file) \in 0 .. Len(file')
        BY <2>1, <2>2, <3>1, AppendChunk
      <4> QED BY <4>1, KeysMono
    <3> QED BY <2>1, <2>2, <3>1, <3>2, KeysAppend
  <2>5. durable' = durable /\ reports' = reports /\ arg' = arg
        /\ stage' = [stage EXCEPT ![t] = "sync"] /\ stage[t] = "write"
        /\ encErr' = encErr
    BY <1>9 DEF Append1, procVars
  <2>6. NoErr' /\ Kept' /\ AtMostOnceReported'
    BY <1>r, <2>4, <2>5 DEF NoErr, Kept, AtMostOnceReported
  <2>7. NotYet' /\ Alone'
    BY <1>0, <1>r, <2>5 DEF TypeOK, NotYet, Alone, Active
  <2>8. Stored'
    BY <1>0, <1>r, <2>4, <2>5 DEF TypeOK, Stored
  <2> QED BY <2>3, <2>6, <2>7, <2>8
<1>10. ASSUME NEW t \in Threads, AppendFails(t) PROVE FALSE
  BY <1>0, <1>r, <1>10 DEF TypeOK, AppendFails, Benign, NoErr
<1>11. ASSUME NEW t \in Threads, Sync(t) PROVE Rest'
  <2>1. durable' = Len(file) /\ file' = file
    BY <1>11 DEF Sync, Benign
  <2>2. KeysUpTo(file, durable) \subseteq KeysUpTo(file, Len(file))
    BY <1>0, KeysMono DEF TypeOK
  <2>3. reports' = reports /\ arg' = arg /\ encErr' = encErr
        /\ stage' = [stage EXCEPT ![t] = "emit"] /\ stage[t] = "sync"
    BY <1>11 DEF Sync
  <2>4. Whole' /\ NoErr' /\ Kept' /\ AtMostOnceReported'
    BY <1>r, <2>1, <2>2, <2>3 DEF Whole, NoErr, Kept, AtMostOnceReported
  <2>5. NotYet' /\ Alone'
    BY <1>0, <1>r, <2>3 DEF TypeOK, NotYet, Alone, Active
  <2>6. Stored'
    BY <1>0, <1>r, <2>1, <2>2, <2>3 DEF TypeOK, Stored
  <2> QED BY <2>4, <2>5, <2>6
<1>12. ASSUME NEW t \in Threads, Emit(t) PROVE Rest'
  <2>1. /\ stage[t] = "emit" /\ arg[t] \in Keys
        /\ reports' = [reports EXCEPT ![arg[t]] = @ + 1]
        /\ stage' = [stage EXCEPT ![t] = "idle"]
        /\ arg' = [arg EXCEPT ![t] = NoKey]
        /\ file' = file /\ durable' = durable /\ encErr' = encErr
    BY <1>0, <1>12 DEF TypeOK, Emit, Done, diskVars
  <2>2. reports[arg[t]] = 0 /\ arg[t] \in KeysUpTo(file, durable)
    BY <1>r, <2>1 DEF NotYet, Stored, Active
  <2>3. Whole' /\ NoErr'
    BY <1>r, <2>1 DEF Whole, NoErr
  <2>4. Kept' /\ AtMostOnceReported'
    BY <1>0, <1>r, <2>1, <2>2 DEF TypeOK, Kept, AtMostOnceReported
  <2>5. \A u \in Threads : stage'[u] \in Active =>
          u # t /\ stage[u] \in Active /\ arg'[u] = arg[u] /\ arg[u] # arg[t]
    BY <1>0, <1>r, <2>1 DEF TypeOK, Alone, Active
  <2>6. NotYet' /\ Alone'
    BY <1>0, <1>r, <2>1, <2>5 DEF TypeOK, NotYet, Alone, Active
  <2>7. Stored'
    BY <1>0, <1>r, <2>1 DEF TypeOK, Stored
  <2> QED BY <2>3, <2>4, <2>6, <2>7
<1>16. ASSUME NEW t \in Threads, EmitFails(t) PROVE Rest'
  <2>1. /\ stage[t] = "emit" /\ reports' = reports
        /\ stage' = [stage EXCEPT ![t] = "idle"]
        /\ arg' = [arg EXCEPT ![t] = NoKey]
        /\ file' = file /\ durable' = durable /\ encErr' = encErr
    BY <1>16 DEF EmitFails, Done, diskVars
  <2>2. Whole' /\ NoErr' /\ Kept' /\ AtMostOnceReported'
    BY <1>r, <2>1 DEF Whole, NoErr, Kept, AtMostOnceReported
  <2>3. NotYet' /\ Alone' /\ Stored'
    BY <1>0, <1>r, <2>1 DEF TypeOK, NotYet, Alone, Stored, Active
  <2> QED BY <2>2, <2>3
<1>13. ASSUME PowerLoss PROVE Rest'
  <2>1. PICK n \in durable .. Len(file) : file' = SubSeq(file, 1, n)
    BY <1>13 DEF PowerLoss, Benign
  <2>2. /\ n \in 0 .. Len(file) /\ durable \in 0 .. n /\ file \in Seq(Chunk)
        /\ Len(file') = n /\ durable' = n
        /\ \A i \in 1 .. n : file'[i] = file[i]
    BY <1>0, <1>13, <2>1, PrefixChunks DEF TypeOK, PowerLoss
  <2>3. Whole'
    BY <1>r, <2>2 DEF Whole
  <2>4. KeysUpTo(file, durable) \subseteq KeysUpTo(file', durable')
    BY <2>1, <2>2, KeysPrefix
  <2>5. NoErr' /\ Kept' /\ AtMostOnceReported'
    BY <1>r, <1>13, <2>4 DEF PowerLoss, NoErr, Kept, AtMostOnceReported
  <2>6. NotYet' /\ Alone' /\ Stored'
    BY <1>13 DEF PowerLoss, NotYet, Alone, Stored, Active
  <2> QED BY <2>3, <2>5, <2>6
<1>14. ASSUME UNCHANGED vars PROVE Rest'
  BY <1>r, <1>14 DEF Whole, NoErr, Kept, NotYet, Alone, Stored,
     AtMostOnceReported, vars, diskVars, procVars, workVars
<1>15. Rest'
  BY <1>1, <1>2, <1>3, <1>4, <1>5, <1>6, <1>7, <1>8, <1>9, <1>10, <1>11,
     <1>12, <1>13, <1>14, <1>16 DEF Next, WorkerStep
<1> QED BY <1>0, <1>15 DEF SafeInv

LEMMA SafeInit == Init => SafeInv
<1>1. Init => OnceInv
  BY OnceInit
<1>2. Init => Whole /\ NoErr /\ Kept /\ AtMostOnceReported
  BY DEF Init, Whole, NoErr, Kept, AtMostOnceReported
<1>3. Init => NotYet /\ Alone /\ Stored
  BY DEF Init, NotYet, Alone, Stored, Active
<1> QED BY <1>1, <1>2, <1>3 DEF SafeInv

(* Through kills and power losses no finding is ever reported twice, as    *)
(* long as fsync works and a record is written whole or not at all.        *)
THEOREM ReportedAtMostOnce ==
  ASSUME Benign
  PROVE  Spec => []AtMostOnceReported
<1>1. SafeInv /\ [Next]_vars => SafeInv'
  BY SafeStep
<1>2. SafeInv => AtMostOnceReported
  BY DEF SafeInv
<1> QED BY <1>1, <1>2, SafeInit, PTL DEF Spec

-----------------------------------------------------------------------------
(* The store implements Dedup.                                             *)

(* Appending a whole record to a file of whole records adds its key.       *)
LEMMA ParsedAppendWhole ==
  ASSUME NEW f \in Seq(Chunk), \A i \in 1 .. Len(f) : f[i].form = "line",
         NEW c \in Chunk, c.form = "line"
  PROVE  Parsed(Append(f, c)) = Parsed(f) \cup {c.key}
<1> DEFINE g == Append(f, c)
<1>1. /\ g \in Seq(Chunk) /\ Len(g) = Len(f) + 1
      /\ \A i \in 1 .. Len(f) : g[i] = f[i]
      /\ g[Len(f) + 1] = c
      /\ Len(f) \in Nat
  BY AppendChunk
<1>a. Parsed(g) \subseteq Parsed(f) \cup {c.key}
  BY ParsedAppend
<1> HIDE DEF g
<1>2. \A i \in 1 .. Len(g) : g[i].form = "line"
  BY <1>1
<1>3. Parsed(g) = KeysUpTo(g, Len(g)) /\ Parsed(f) = KeysUpTo(f, Len(f))
  BY <1>1, <1>2, KeysParsed
<1>4. DOMAIN g = 1 .. Len(f) + 1 /\ DOMAIN f = 1 .. Len(f)
  BY <1>1
<1>5. KeysUpTo(f, Len(f)) \subseteq KeysUpTo(g, Len(g))
  BY <1>1, <1>4 DEF KeysUpTo
<1>6. c.key \in KeysUpTo(g, Len(g))
  BY <1>1, <1>4 DEF KeysUpTo
<1> QED BY <1>a, <1>3, <1>5, <1>6 DEF g

LEMMA DedupStep ==
  ASSUME Benign, SafeInv, [Next]_vars
  PROVE  [D!Next]_(D!vars)
<1> USE StoreAssumption DEF hisVars
<1>0. TypeOK /\ KnowInv /\ OnceInv /\ SafeInv'
  BY SafeStep DEF SafeInv, OnceInv, KnowInv
<1>u. ASSUME file' = file, reports' = reports PROVE UNCHANGED D!vars
  BY <1>u DEF D!vars
<1>1. ASSUME NEW p \in Procs,
             Acquire(p) \/ Replay(p) \/ ReplayFails(p) \/ Exit(p) \/ Kill(p)
      PROVE  UNCHANGED D!vars
  BY <1>1, <1>u DEF Acquire, Replay, ReplayFails, Exit, Kill, Down, diskVars
<1>2. ASSUME NEW t \in Threads, NEW k \in Keys, Detect(t, k)
      PROVE  UNCHANGED D!vars
  BY <1>2, <1>u DEF Detect, diskVars
<1>3. ASSUME NEW t \in Threads, Suppress(t) \/ Insert(t) \/ Sync(t) \/ EmitFails(t)
      PROVE  UNCHANGED D!vars
  BY <1>3, <1>u DEF Suppress, Insert, Sync, EmitFails, Done, diskVars, hisVars
<1>4. ASSUME NEW t \in Threads, Append1(t) PROVE \E k \in Keys : D!Record(k)
  <2> DEFINE c == [key |-> arg[t], form |-> "line"]
  <2>1. c \in Chunk /\ c.key = arg[t] /\ c.form = "line" /\ arg[t] \in Keys
    BY <1>0, <1>4 DEF TypeOK, Append1, Chunk, Forms
  <2>2. file' = Append(file, c) /\ file \in Seq(Chunk) /\ reports' = reports
    BY <1>0, <1>4 DEF TypeOK, Append1
  <2> HIDE DEF c
  <2>3. Parsed(file') = Parsed(file) \cup {arg[t]}
    BY <2>1, <2>2, ParsedAppendWhole DEF SafeInv, Whole
  <2>4. arg[t] \notin Parsed(file)
    BY <1>0, <1>4 DEF OnceInv, Fresh, Append1
  <2> QED BY <2>1, <2>2, <2>3, <2>4 DEF D!Record
<1>5. ASSUME NEW t \in Threads, AppendFails(t) PROVE FALSE
  BY <1>0, <1>5 DEF TypeOK, AppendFails, Benign, SafeInv, NoErr
<1>6. ASSUME NEW t \in Threads, Emit(t) PROVE \E k \in Keys : D!Report(k)
  <2>1. arg[t] \in Keys /\ reports[arg[t]] = 0 /\ file' = file
        /\ reports' = [reports EXCEPT ![arg[t]] = @ + 1]
    BY <1>0, <1>6 DEF TypeOK, Emit, Done, SafeInv, NotYet, Active, diskVars
  <2>2. reports' = [reports EXCEPT ![arg[t]] = 1]
    BY <1>0, <2>1 DEF TypeOK
  <2>3. arg[t] \in Parsed(file)
    <3>1. file \in Seq(Chunk) /\ durable \in 0 .. Len(file)
      BY <1>0 DEF TypeOK
    <3>2. Parsed(file) = KeysUpTo(file, Len(file))
      BY <3>1, KeysParsed DEF SafeInv, Whole
    <3>3. arg[t] \in KeysUpTo(file, durable)
      BY <1>6 DEF SafeInv, Stored, Emit, Done
    <3> QED BY <3>1, <3>2, <3>3, KeysMono
  <2> QED BY <2>1, <2>2, <2>3 DEF D!Report
<1>7. ASSUME PowerLoss PROVE D!Forget
  <2>1. PICK n \in durable .. Len(file) : file' = SubSeq(file, 1, n)
    BY <1>7 DEF PowerLoss, Benign
  <2>2. /\ file \in Seq(Chunk) /\ Len(file) \in Nat
        /\ n \in 0 .. Len(file) /\ durable \in 0 .. n
        /\ file' \in Seq(Chunk) /\ Len(file') = n
        /\ \A i \in 1 .. n : file'[i] = file[i]
    BY <1>0, <2>1, PrefixChunks DEF TypeOK
  <2>3. Parsed(file) = KeysUpTo(file, Len(file))
        /\ Parsed(file') = KeysUpTo(file', Len(file'))
    BY <1>0, <2>2, KeysParsed DEF SafeInv, Whole
  <2>4. Parsed(file') \subseteq Parsed(file)
    <3>1. DOMAIN file = 1 .. Len(file) /\ DOMAIN file' = 1 .. n
      BY <2>2
    <3> QED BY <2>2, <2>3, <3>1 DEF KeysUpTo
  <2>5. KeysUpTo(file, durable) \subseteq Parsed(file')
    BY <2>1, <2>2, <2>3, KeysPrefix
  <2>6. Parsed(file) \subseteq Keys
    BY <2>2, ParsedType
  <2>7. \A k \in Parsed(file) \ Parsed(file') : reports[k] = 0
    BY <1>0, <2>5, <2>6 DEF TypeOK, SafeInv, Kept
  <2>8. reports' = reports
    BY <1>7 DEF PowerLoss
  <2> QED BY <2>4, <2>7, <2>8 DEF D!Forget
<1>8. ASSUME UNCHANGED vars PROVE UNCHANGED D!vars
  BY <1>8, <1>u DEF vars, diskVars
<1> QED
  BY <1>1, <1>2, <1>3, <1>4, <1>5, <1>6, <1>7, <1>8
  DEF Next, WorkerStep, D!Next

(* The store keeps the abstract promise: a finding is recorded before it   *)
(* is reported, reported at most once, and no record of a reported finding *)
(* is ever lost.                                                           *)
THEOREM StoreImplementsDedup ==
  ASSUME Benign
  PROVE  Spec => ImplementsDedup
<1>1. Init => D!Init
  BY DEF Init, D!Init, Parsed
<1>2. SafeInv /\ [Next]_vars => SafeInv'
  BY SafeStep
<1>3. SafeInv /\ [Next]_vars => [D!Next]_(D!vars)
  BY DedupStep
<1> QED BY <1>1, <1>2, <1>3, SafeInit, PTL DEF Spec, D!Spec, ImplementsDedup

-----------------------------------------------------------------------------
(* What is suppressed was reported, or lost with a kill or in the sink.    *)

(* Every chunk counts, readable or not: a record without its newline is    *)
(* readable again when a power loss takes what was written behind it.      *)
Written(f) == KeysUpTo(f, Len(f))
Answered(k) == reports[k] > 0 \/ k \in InHand(Threads) \/ k \in lost \/ k \in dropped
NoneHidden ==
  /\ \A k \in Written(file) : Answered(k)
  /\ \A p \in Procs : \A k \in seen[p] : Answered(k)

HiddenInv == TypeOK /\ Alive /\ NoneHidden

LEMMA ParsedWritten ==
  ASSUME NEW f \in Seq(Chunk)
  PROVE  Parsed(f) \subseteq Written(f)
  BY DEF Parsed, Written, KeysUpTo

(* What is in hand stays so when only idle workers are disturbed.          *)
LEMMA DownHidden ==
  ASSUME HiddenInv, NEW p \in Procs, Down(p), UNCHANGED diskVars,
         \A t \in Threads : ProcOf[t] = p =>
            arg[t] \in lost' \/ stage[t] \notin {"write", "sync", "emit"},
         lost \subseteq lost'
  PROVE  NoneHidden'
<1> USE StoreAssumption DEF HiddenInv, TypeOK
<1>1. file' = file /\ reports' = reports /\ dropped' = dropped
  BY DEF Down, diskVars
<1>2. \A t \in Threads : ProcOf[t] # p => stage'[t] = stage[t] /\ arg'[t] = arg[t]
  BY DEF Down
<1>3. \A k \in InHand(Threads) : k \in InHand(Threads)' \/ k \in lost'
  BY <1>2 DEF InHand
<1>4. \A k : Answered(k) => Answered(k)'
  BY <1>1, <1>3 DEF Answered
<1>5. \A q \in Procs : seen'[q] \subseteq seen[q]
  BY DEF Down
<1> QED BY <1>1, <1>4, <1>5 DEF NoneHidden

LEMMA HiddenStep ==
  ASSUME HiddenInv, KnowInv, [Next]_vars
  PROVE  NoneHidden'
<1> USE StoreAssumption DEF hisVars
<1>0. TypeOK /\ TypeOK' /\ Alive /\ NoneHidden
  BY TypeStep DEF HiddenInv
<1>k. ASSUME file' = file, seen' = seen, reports' = reports, lost' = lost,
             dropped' = dropped, InHand(Threads) \subseteq InHand(Threads)'
      PROVE  NoneHidden'
  BY <1>0, <1>k DEF NoneHidden, Answered
<1>1. ASSUME NEW p \in Procs, Acquire(p) PROVE NoneHidden'
  BY <1>1, <1>k DEF Acquire, diskVars, workVars, InHand
<1>2. ASSUME NEW p \in Procs, Replay(p) PROVE NoneHidden'
  <2>1. Parsed(file) \subseteq Written(file)
    BY <1>0, ParsedWritten DEF TypeOK
  <2>2. file' = file /\ seen' = [seen EXCEPT ![p] = Parsed(file)]
        /\ \A k : Answered(k) => Answered(k)'
    BY <1>2 DEF Replay, Replayed, diskVars, workVars, Answered, InHand
  <2> QED BY <1>0, <2>1, <2>2 DEF TypeOK, NoneHidden
<1>3. ASSUME NEW p \in Procs, ReplayFails(p) PROVE NoneHidden'
  BY <1>0, <1>3, DownHidden DEF ReplayFails, Alive, TypeOK
<1>4. ASSUME NEW p \in Procs, Exit(p) PROVE NoneHidden'
  BY <1>4, DownHidden DEF Exit
<1>5. ASSUME NEW p \in Procs, Kill(p) PROVE NoneHidden'
  BY <1>5, DownHidden DEF Kill, InHand
<1>6. ASSUME NEW t \in Threads, NEW k \in Keys, Detect(t, k) PROVE NoneHidden'
  <2>1. InHand(Threads) \subseteq InHand(Threads)'
    BY <1>0, <1>6 DEF TypeOK, Detect, InHand
  <2> QED BY <1>6, <1>k, <2>1 DEF Detect, diskVars, procVars
<1>7. ASSUME NEW t \in Threads, Suppress(t) PROVE NoneHidden'
  <2>1. InHand(Threads) \subseteq InHand(Threads)'
    BY <1>0, <1>7 DEF TypeOK, Suppress, InHand
  <2> QED BY <1>7, <1>k, <2>1 DEF Suppress, diskVars, procVars
\* The key is in hand as soon as it is in the map or in the file.
<1>a. ASSUME NEW t \in Threads, stage'[t] \in {"write", "sync", "emit"},
             arg' = arg, reports' = reports, lost' = lost, dropped' = dropped,
             \A u \in Threads : u # t => stage'[u] = stage[u],
             \A k \in Written(file') : k \in Written(file) \/ k = arg[t],
             \A p \in Procs : \A k \in seen'[p] : k \in seen[p] \/ k = arg[t]
      PROVE  NoneHidden'
  <2>1. InHand(Threads) \subseteq InHand(Threads)' /\ arg[t] \in InHand(Threads)'
    BY <1>a DEF InHand
  <2>2. Answered(arg[t])' /\ \A k : Answered(k) => Answered(k)'
    BY <1>a, <2>1 DEF Answered
  <2> QED BY <1>0, <1>a, <2>2 DEF NoneHidden
<1>b. ASSUME NEW t \in Threads, arg[t] \in Keys, NEW form \in Forms,
             file' = Append(file, [key |-> arg[t], form |-> form])
      PROVE  \A k \in Written(file') : k \in Written(file) \/ k = arg[t]
  <2> DEFINE c == [key |-> arg[t], form |-> form]
  <2>1. c \in Chunk /\ c.key = arg[t] /\ file \in Seq(Chunk) /\ file' = Append(file, c)
    BY <1>0, <1>b DEF Chunk, TypeOK
  <2> HIDE DEF c
  <2>2. /\ Len(file') = Len(file) + 1 /\ Len(file) \in Nat
        /\ DOMAIN file' = 1 .. Len(file) + 1 /\ DOMAIN file = 1 .. Len(file)
        /\ \A i \in 1 .. Len(file) : file'[i] = file[i]
        /\ file'[Len(file) + 1] = c
    BY <2>1, AppendChunk
  <2> QED BY <2>1, <2>2 DEF Written, KeysUpTo
<1>8. ASSUME NEW t \in Threads, Insert(t) PROVE NoneHidden'
  <2>1. /\ stage'[t] = "write" /\ arg' = arg /\ UNCHANGED <<reports, lost, dropped>>
        /\ \A u \in Threads : u # t => stage'[u] = stage[u]
        /\ file' = file
        /\ \A p \in Procs : \A k \in seen'[p] : k \in seen[p] \/ k = arg[t]
    BY <1>0, <1>8 DEF TypeOK, Insert, diskVars
  <2> QED BY <2>1, <1>a
<1>9. ASSUME NEW t \in Threads, Append1(t) PROVE NoneHidden'
  <2>1. /\ stage'[t] = "sync" /\ arg' = arg /\ UNCHANGED <<reports, lost, dropped>>
        /\ \A u \in Threads : u # t => stage'[u] = stage[u]
        /\ seen' = seen /\ arg[t] \in Keys
        /\ file' = Append(file, [key |-> arg[t], form |-> "line"])
    BY <1>0, <1>9 DEF TypeOK, Append1, procVars
  <2>2. \A k \in Written(file') : k \in Written(file) \/ k = arg[t]
    BY <2>1, <1>b DEF Forms
  <2> QED BY <2>1, <2>2, <1>a
<1>10. ASSUME NEW t \in Threads, AppendFails(t) PROVE NoneHidden'
  <2>1. /\ stage'[t] = "emit" /\ arg' = arg /\ UNCHANGED <<reports, lost, dropped>>
        /\ \A u \in Threads : u # t => stage'[u] = stage[u]
        /\ seen' = seen /\ arg[t] \in Keys
        /\ \/ file' = file
           \/ \E form \in {"bare", "part"} :
                file' = Append(file, [key |-> arg[t], form |-> form])
    BY <1>0, <1>10 DEF TypeOK, AppendFails
  <2>2. \A k \in Written(file') : k \in Written(file) \/ k = arg[t]
    BY <2>1, <1>b DEF Forms
  <2> QED BY <2>1, <2>2, <1>a
<1>11. ASSUME NEW t \in Threads, Sync(t) PROVE NoneHidden'
  <2>1. InHand(Threads) \subseteq InHand(Threads)'
    BY <1>0, <1>11 DEF TypeOK, Sync, InHand
  <2> QED BY <1>11, <1>k, <2>1 DEF Sync
<1>12. ASSUME NEW t \in Threads, Emit(t) \/ EmitFails(t) PROVE NoneHidden'
  <2>1. /\ stage[t] = "emit" /\ arg[t] \in Keys /\ file' = file /\ seen' = seen
        /\ lost' = lost
        /\ \A u \in Threads : u # t => stage'[u] = stage[u] /\ arg'[u] = arg[u]
    BY <1>0, <1>12 DEF TypeOK, Emit, EmitFails, Done, diskVars
  <2>2. \A k \in InHand(Threads) : k = arg[t] \/ k \in InHand(Threads)'
    BY <2>1 DEF InHand
  \* The key of t is shown or dropped; the histories of the others only grow.
  <2>3. /\ reports'[arg[t]] > 0 \/ arg[t] \in dropped'
        /\ \A k \in Keys : reports[k] > 0 => reports'[k] > 0
        /\ dropped \subseteq dropped'
    <3>1. CASE Emit(t)
      BY <1>0, <2>1, <3>1 DEF TypeOK, Emit
    <3>2. CASE EmitFails(t)
      BY <1>0, <2>1, <3>2 DEF TypeOK, EmitFails
    <3> QED BY <1>12, <3>1, <3>2
  <2>4. \A k \in Keys : Answered(k) => Answered(k)'
    BY <2>1, <2>2, <2>3 DEF Answered
  <2>5. Written(file) \subseteq Keys /\ \A p \in Procs : seen[p] \subseteq Keys
    <3>1. \A i \in DOMAIN file : file[i] \in Chunk
      BY <1>0 DEF TypeOK
    <3>2. \A i \in DOMAIN file : file[i].key \in Keys
      BY <3>1 DEF Chunk
    <3> QED BY <1>0, <3>2 DEF TypeOK, Written, KeysUpTo
  <2> QED BY <1>0, <2>1, <2>4, <2>5 DEF NoneHidden
<1>13. ASSUME PowerLoss PROVE NoneHidden'
  <2>1. PICK n \in durable .. Len(file) :
           \/ file' = SubSeq(file, 1, n)
           \/ /\ n < Len(file)
              /\ \E c \in Remains(file[n+1]) : file' = Append(SubSeq(file, 1, n), c)
    BY <1>13 DEF PowerLoss
  <2> DEFINE g == SubSeq(file, 1, n)
  <2>2. /\ n \in 0 .. Len(file) /\ n \in Nat /\ Len(file) \in Nat /\ file \in Seq(Chunk)
        /\ g \in Seq(Chunk) /\ Len(g) = n
        /\ \A i \in 1 .. n : g[i] = file[i]
    BY <1>0, <2>1, PrefixChunks DEF TypeOK
  <2> HIDE DEF g
  <2>3. \A i \in 1 .. Len(file) : file[i].key \in Written(file) /\ file[i] \in Chunk
    BY <2>2 DEF Written, KeysUpTo
  <2>4. Written(g) \subseteq Written(file)
    <3>1. DOMAIN g = 1 .. n
      BY <2>2
    <3> QED BY <2>2, <2>3, <3>1 DEF Written, KeysUpTo
  <2>5. ASSUME n < Len(file), NEW c \in Remains(file[n+1]), file' = Append(g, c)
        PROVE  Written(file') \subseteq Written(file)
    <3>1. n + 1 \in 1 .. Len(file)
      BY <2>2, <2>5
    <3>2. c.key = file[n+1].key /\ c \in Chunk
      BY <2>3, <2>5, <3>1 DEF Remains, Chunk, Forms
    <3>3. /\ Len(file') = n + 1 /\ DOMAIN file' = 1 .. n + 1
          /\ (\A i \in 1 .. n : file'[i] = g[i]) /\ file'[n+1] = c
      BY <2>2, <2>5, <3>2, AppendChunk
    <3>4. \A i \in 1 .. n + 1 : file'[i].key \in Written(file)
      BY <2>2, <2>3, <3>1, <3>2, <3>3
    <3> QED BY <3>3, <3>4 DEF Written, KeysUpTo
  <2>6. Written(file') \subseteq Written(file)
    BY <2>1, <2>4, <2>5 DEF g
  <2>7. \A k : Answered(k) => Answered(k)'
    BY <1>13 DEF PowerLoss, Answered
  <2>8. \A p \in Procs : seen'[p] = {}
    BY <1>13 DEF PowerLoss
  <2> QED BY <1>0, <2>6, <2>7, <2>8 DEF NoneHidden
<1>14. ASSUME UNCHANGED vars PROVE NoneHidden'
  BY <1>k, <1>14 DEF vars, diskVars, procVars, workVars, InHand
<1> QED
  BY <1>1, <1>2, <1>3, <1>4, <1>5, <1>6, <1>7, <1>8, <1>9, <1>10, <1>11,
     <1>12, <1>13, <1>14 DEF Next, WorkerStep

(* Under every fault, what a process or its successor suppresses was       *)
(* reported, is about to be, was so when its process was killed, or was    *)
(* refused by every output of the sink.                                    *)
THEOREM OnlyKillsAndSinksHide == Spec => []HiddenByKillOrSink
<1>1. Init => KnowInv /\ NoneHidden
  <2>1. Init => NoneHidden
    BY DEF Init, NoneHidden, Written, KeysUpTo
  <2> QED BY <2>1, KnowInit
<1>2. KnowInv /\ NoneHidden /\ [Next]_vars => (KnowInv /\ NoneHidden)'
  BY KnowStep, HiddenStep DEF HiddenInv, KnowInv
<1>3. KnowInv /\ NoneHidden => HiddenByKillOrSink
  <2> SUFFICES ASSUME KnowInv, NoneHidden PROVE HiddenByKillOrSink
    OBVIOUS
  <2>1. Parsed(file) \subseteq Written(file)
    BY ParsedWritten DEF KnowInv, TypeOK
  <2> QED BY <2>1 DEF NoneHidden, Answered, HiddenByKillOrSink
<1> QED BY <1>1, <1>2, <1>3, PTL DEF Spec
=============================================================================
