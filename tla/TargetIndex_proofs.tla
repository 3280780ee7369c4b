------------------------- MODULE TargetIndex_proofs -------------------------
(***************************************************************************)
(* Proofs about the target index: for any pods, containers, bound on the   *)
(* generations and bound on the notifications in flight, the index is      *)
(* complete once the handlers have caught up, and what it holds beyond     *)
(* that belongs to pods that were replaced under their name.               *)
(***************************************************************************)
EXTENDS TargetIndex, FiniteSetTheorems, TLAPS

\* The informer's cache: in step with the cluster while the watch is up, and
\* never ahead of it.
CacheInv ==
  \A n \in Names :
    /\ api[n] # NoPod => api[n].gen = gens[n]
    /\ connected => store[n] = View(n)
    /\ store[n] # NoPod => store[n].gen <= gens[n]

\* Pods of one name are told of in the order in which they were created: the
\* index is never ahead of a notification on its way, and none of both is
\* ahead of the cache.
OrderInv ==
  /\ \A i \in DOMAIN queue : queue[i].pod.gen <= gens[queue[i].name]
  /\ \A i, j \in DOMAIN queue :
       i < j /\ queue[i].name = queue[j].name => queue[i].pod.gen <= queue[j].pod.gen
  /\ \A i \in DOMAIN queue :
       store[queue[i].name] # NoPod => queue[i].pod.gen <= store[queue[i].name].gen
  /\ \A x \in targets :
       /\ x[1][2] <= gens[x[1][1]]
       /\ store[x[1][1]] # NoPod => x[1][2] <= store[x[1][1]].gen
       /\ \A i \in DOMAIN queue : queue[i].name = x[1][1] => x[1][2] <= queue[i].pod.gen

\* Notification i tells what the cache holds now.
Current(note) ==
  IF store[note.name] = NoPod THEN note.kind = "delete"
                              ELSE note.kind # "delete" /\ note.pod = store[note.name]

\* The newest notification for a name, when there is one, is current.
NewestInv ==
  \A i \in DOMAIN queue :
    (\A j \in DOMAIN queue : i < j => queue[j].name # queue[i].name) => Current(queue[i])

\* The index holds of name n what the cache entry of n asks for.
Applied(n) ==
  IF store[n] = NoPod THEN \A x \in targets : x[1][1] = n => x[1][2] < gens[n]
  ELSE IF isPodRunning(store[n]) THEN TargetsOf(n, store[n]) \subseteq targets
                                 ELSE TargetsOf(n, store[n]) \cap targets = {}

\* Nothing on its way for a name: the index agrees with the cache.
AppliedInv ==
  \A n \in Names : (\A i \in DOMAIN queue : queue[i].name # n) => Applied(n)

IndexInv == TypeOK /\ CacheInv /\ OrderInv /\ NewestInv /\ AppliedInv

-----------------------------------------------------------------------------
(* What SetToSeqs returns are sequences in which every element of the set  *)
(* stands, and stands once.                                                *)
LEMMA AnyOrder ==
  ASSUME NEW S, IsFiniteSet(S), NEW f \in SetToSeqs(S)
  PROVE  /\ f \in Seq(S)
         /\ DOMAIN f = 1 .. Len(f)
         /\ \A i, j \in DOMAIN f : i # j => f[i] # f[j]
         /\ \A x \in S : \E i \in DOMAIN f : f[i] = x
<1> DEFINE D == 1 .. Cardinality(S)
<1>1. Cardinality(S) \in Nat
  BY FS_CardinalityType
<1>2. f \in [D -> S] /\ \A i, j \in D : i # j => f[i] # f[j]
  BY DEF SetToSeqs
<1>3. f \in Injection(D, S)
  BY <1>2, Zenon DEF Injection, IsInjective
<1>4. Cardinality(D) = Cardinality(S)
  BY <1>1, FS_Interval
<1>5. f \in Surjection(D, S)
  BY <1>3, <1>4, FS_Injection
<1>6. \A x \in S : \E i \in D : f[i] = x
  BY <1>5, Zenon DEF Surjection
<1>7. f \in Seq(S) /\ Len(f) = Cardinality(S)
  BY <1>1, <1>2
<1> QED BY <1>2, <1>6, <1>7

(* A list makes finitely many notifications, one for each name whose cache *)
(* entry differs from what is there.                                       *)
LEMMA DifferenceIsFinite == IsFiniteSet(Difference)
<1> DEFINE D == {m \in Names : store[m] # View(m)}
           f == [n \in D |-> Note(n, store[n], View(n))]
<1>1. IsFiniteSet(D)
  BY FS_Subset, IndexAssumption
<1>2. f \in Surjection(D, Difference)
  BY Zenon DEF Surjection, Difference
<1> QED BY <1>1, <1>2, FS_Surjection

\* A notification as it is queued.
Notes == [kind : Kinds, name : Names, pod : Pod]

\* What every step but Deliver does for the handlers: it queues notes about
\* all names whose cache entry it changes, at most one for each name.
Tells(notes) ==
  /\ notes \in Seq(Notes)
  /\ queue' = queue \o notes
  /\ targets' = targets
  /\ \A n \in Names :
       /\ gens[n] <= gens'[n]
       /\ store'[n] # store[n] => \E i \in DOMAIN notes : notes[i].name = n
       /\ store'[n] = store[n] \/ store'[n] = NoPod \/ store'[n].gen = gens'[n]
  /\ \A i \in DOMAIN notes :
       /\ Current(notes[i])'
       /\ notes[i].kind = "delete" => /\ store[notes[i].name] # NoPod
                                      /\ notes[i].pod = store[notes[i].name]
       /\ \A j \in DOMAIN notes : i # j => notes[i].name # notes[j].name

(* The elements of the queue behind such a step.                           *)
LEMMA QueueGrows ==
  ASSUME TypeOK, NEW notes, Tells(notes)
  PROVE  /\ queue' \in Seq(Notes)
         /\ DOMAIN queue' = 1 .. Len(queue) + Len(notes)
         /\ \A i \in DOMAIN queue : i \in DOMAIN queue' /\ queue'[i] = queue[i]
         /\ \A i \in DOMAIN notes : /\ Len(queue) + i \in DOMAIN queue'
                                    /\ queue'[Len(queue) + i] = notes[i]
         /\ \A i \in DOMAIN queue' :
              \/ i \in DOMAIN queue
              \/ i - Len(queue) \in DOMAIN notes /\ queue'[i] = notes[i - Len(queue)]
<1> DEFINE S == Notes
<1>1. queue \in Seq(S) /\ notes \in Seq(S) /\ queue' = queue \o notes
  BY DEF TypeOK, Tells, Notes
<1> HIDE DEF S
<1>2. queue' \in Seq(S) /\ Len(queue') = Len(queue) + Len(notes)
  BY <1>1
<1>3. /\ DOMAIN queue' = 1 .. Len(queue) + Len(notes)
      /\ \A i \in DOMAIN queue : i \in DOMAIN queue' /\ queue'[i] = queue[i]
      /\ \A i \in DOMAIN notes : /\ Len(queue) + i \in DOMAIN queue'
                                 /\ queue'[Len(queue) + i] = notes[i]
  BY <1>1, <1>2
<1>4. ASSUME NEW i \in DOMAIN queue', i \notin DOMAIN queue
      PROVE  i - Len(queue) \in DOMAIN notes /\ queue'[i] = notes[i - Len(queue)]
  BY <1>1, <1>2, <1>4
<1> QED BY <1>2, <1>3, <1>4 DEF S

-----------------------------------------------------------------------------
(* Such a step keeps what is known of the notifications.                   *)

(* What the type invariant says of one notification.                       *)
LEMMA QueueElements ==
  ASSUME TypeOK
  PROVE  /\ Len(queue) \in Nat /\ DOMAIN queue = 1 .. Len(queue)
         /\ \A i \in DOMAIN queue :
              /\ queue[i] \in Notes /\ queue[i].kind \in Kinds /\ queue[i].name \in Names
              /\ queue[i].pod \in Pod /\ queue[i].pod.gen \in Nat
<1> DEFINE S == Notes
<1>1. queue \in Seq(S)
  BY DEF TypeOK, Notes
<1>2. \A e \in S : /\ e.kind \in Kinds /\ e.name \in Names
                  /\ e.pod \in Pod /\ e.pod.gen \in Nat
  BY IndexAssumption DEF Notes, Pod
<1> HIDE DEF S
<1>3. Len(queue) \in Nat /\ DOMAIN queue = 1 .. Len(queue) /\ \A i \in DOMAIN queue : queue[i] \in S
  BY <1>1
<1> QED BY <1>2, <1>3 DEF S

(* How new a new note is.                                                  *)
LEMMA NotesAreNewer ==
  ASSUME TypeOK, TypeOK', CacheInv, NEW notes, Tells(notes), NEW i \in DOMAIN notes
  PROVE  LET n == notes[i].name IN
         /\ n \in Names /\ notes[i].pod \in Pod
         /\ notes[i].pod.gen <= gens'[n]
         /\ store[n] # NoPod => store[n].gen <= notes[i].pod.gen
         /\ store[n] = NoPod => notes[i].pod.gen = gens'[n]
         /\ store'[n] # NoPod => notes[i].pod = store'[n]
<1> DEFINE n == notes[i].name
           p == notes[i].pod
<1>1. notes[i] \in Notes
  BY DEF Tells
<1>2. n \in Names /\ p \in Pod
  BY <1>1 DEF Notes
<1>3. /\ gens[n] <= gens'[n]
      /\ store'[n] = store[n] \/ store'[n] = NoPod \/ store'[n].gen = gens'[n]
      /\ IF store'[n] = NoPod THEN notes[i].kind = "delete"
                              ELSE notes[i].kind # "delete" /\ p = store'[n]
      /\ notes[i].kind = "delete" => store[n] # NoPod /\ p = store[n]
  BY <1>2 DEF Tells, Current
<1>4. /\ store[n] # NoPod => store[n] \in Pod /\ store[n].gen <= gens[n]
      /\ gens[n] \in Nat /\ gens'[n] \in Nat /\ p.gen \in Nat
      /\ store'[n] # NoPod => store'[n] \in Pod
  BY <1>2, IndexAssumption DEF CacheInv, TypeOK, Pod
<1>5. CASE store'[n] = NoPod
  BY <1>2, <1>3, <1>4, <1>5
<1>6. CASE store'[n] # NoPod
  <2>1. p = store'[n] /\ p.gen = store'[n].gen
    BY <1>3, <1>6
  <2>2. /\ p.gen <= gens'[n]
        /\ store[n] # NoPod => store[n].gen <= p.gen
        /\ store[n] = NoPod => p.gen = gens'[n]
    <3>1. \A q \in Pod : q.gen \in Nat
      BY IndexAssumption DEF Pod
    <3> QED BY <1>3, <1>4, <1>6, <2>1, <3>1
  <2> QED BY <1>2, <2>1, <2>2
<1> QED BY <1>5, <1>6

(* Later notifications are of no older pods.                               *)
LEMMA TellsKeepsOrder ==
  ASSUME TypeOK, TypeOK', CacheInv, OrderInv, NEW notes, Tells(notes)
  PROVE  OrderInv'
<1> DEFINE old == Len(queue)
<1>1. /\ DOMAIN queue' = 1 .. Len(queue) + Len(notes)
      /\ \A i \in DOMAIN queue : i \in DOMAIN queue' /\ queue'[i] = queue[i]
      /\ \A i \in DOMAIN queue' :
           \/ i \in DOMAIN queue
           \/ i - old \in DOMAIN notes /\ queue'[i] = notes[i - old]
  BY QueueGrows
<1>2. /\ old \in Nat /\ DOMAIN queue = 1 .. old
      /\ \A i \in DOMAIN queue : /\ queue[i].name \in Names /\ queue[i].pod \in Pod
                                 /\ queue[i].pod.gen \in Nat
      /\ \A n \in Names : gens[n] \in Nat /\ gens'[n] \in Nat /\ gens[n] <= gens'[n]
      /\ \A n \in Names : store[n] # NoPod => store[n].gen \in Nat
      /\ \A n \in Names : store'[n] # NoPod => store'[n].gen \in Nat
      /\ \A n \in Names : store'[n] = store[n] \/ store'[n] = NoPod \/ store'[n].gen = gens'[n]
  <2>1. \A p \in Pod : p.gen \in Nat
    BY IndexAssumption DEF Pod
  <2>2. /\ old \in Nat /\ DOMAIN queue = 1 .. old
        /\ \A i \in DOMAIN queue : queue[i].name \in Names /\ queue[i].pod \in Pod
    BY QueueElements
  <2>3. \A n \in Names : /\ gens[n] \in Nat /\ gens'[n] \in Nat
                         /\ store[n] \in Pod \cup {NoPod} /\ store'[n] \in Pod \cup {NoPod}
    BY IndexAssumption DEF TypeOK
  <2>4. \A n \in Names :
           /\ gens[n] <= gens'[n]
           /\ store'[n] = store[n] \/ store'[n] = NoPod \/ store'[n].gen = gens'[n]
    BY DEF Tells
  <2> QED BY <2>1, <2>2, <2>3, <2>4
<1>3. \A i \in DOMAIN notes :
         LET n == notes[i].name IN
         /\ n \in Names /\ notes[i].pod \in Pod
         /\ notes[i].pod.gen <= gens'[n]
         /\ store[n] # NoPod => store[n].gen <= notes[i].pod.gen
         /\ store[n] = NoPod => notes[i].pod.gen = gens'[n]
         /\ store'[n] # NoPod => notes[i].pod = store'[n]
  BY NotesAreNewer
<1>4. \A i \in DOMAIN notes : notes[i].pod.gen \in Nat
  BY <1>3, IndexAssumption DEF Pod
<1>5. \A i \in DOMAIN notes, j \in DOMAIN notes : i # j => notes[i].name # notes[j].name
  BY DEF Tells
<1>6. targets' = targets /\ \A x \in targets : x[1][1] \in Names /\ x[1][2] \in Nat
  BY IndexAssumption DEF Tells, TypeOK, Target, UID
<1>7. \A i \in DOMAIN queue' : queue'[i].pod.gen <= gens'[queue'[i].name]
  BY <1>1, <1>2, <1>3 DEF OrderInv
<1>8. ASSUME NEW i \in DOMAIN queue', NEW j \in DOMAIN queue',
             i < j, queue'[i].name = queue'[j].name
      PROVE  queue'[i].pod.gen <= queue'[j].pod.gen
  <2>1. CASE i \in DOMAIN queue /\ j \in DOMAIN queue
    BY <1>1, <1>8, <2>1 DEF OrderInv
  <2>2. CASE i \in DOMAIN queue /\ j \notin DOMAIN queue
    <3>1. queue'[i] = queue[i] /\ j - old \in DOMAIN notes /\ queue'[j] = notes[j - old]
      BY <1>1, <2>2
    <3> DEFINE n == queue[i].name
    <3>2. /\ queue[i].pod.gen <= gens[n] /\ gens[n] <= gens'[n]
          /\ store[n] # NoPod => queue[i].pod.gen <= store[n].gen
      BY <1>2, <2>2 DEF OrderInv
    <3> QED BY <1>2, <1>3, <1>4, <1>8, <2>2, <3>1, <3>2
  <2>3. CASE i \notin DOMAIN queue
    <3>1. j \notin DOMAIN queue /\ i - old \in DOMAIN notes /\ j - old \in DOMAIN notes
      BY <1>1, <1>2, <1>8, <2>3
    <3>2. notes[i - old].name = notes[j - old].name /\ i - old # j - old
      BY <1>1, <1>2, <1>8, <2>3, <3>1
    <3> QED BY <1>5, <3>1, <3>2
  <2> QED BY <2>1, <2>2, <2>3
<1>9. ASSUME NEW i \in DOMAIN queue', store'[queue'[i].name] # NoPod
      PROVE  queue'[i].pod.gen <= store'[queue'[i].name].gen
  <2>1. CASE i \in DOMAIN queue
    <3> DEFINE n == queue[i].name
    <3>1. /\ queue'[i] = queue[i]
          /\ queue[i].pod.gen <= gens[n] /\ gens[n] <= gens'[n]
          /\ store[n] # NoPod => queue[i].pod.gen <= store[n].gen
      BY <1>1, <1>2, <2>1 DEF OrderInv
    <3> QED BY <1>2, <1>9, <2>1, <3>1
  <2>2. CASE i \notin DOMAIN queue
    BY <1>1, <1>2, <1>3, <1>9, <2>2
  <2> QED BY <2>1, <2>2
<1>10. ASSUME NEW x \in targets'
       PROVE  /\ x[1][2] <= gens'[x[1][1]]
              /\ store'[x[1][1]] # NoPod => x[1][2] <= store'[x[1][1]].gen
              /\ \A i \in DOMAIN queue' :
                   queue'[i].name = x[1][1] => x[1][2] <= queue'[i].pod.gen
  <2> DEFINE n == x[1][1]
  <2>1. /\ n \in Names /\ x[1][2] \in Nat
        /\ x[1][2] <= gens[n] /\ gens[n] <= gens'[n]
        /\ store[n] # NoPod => x[1][2] <= store[n].gen
        /\ \A i \in DOMAIN queue : queue[i].name = n => x[1][2] <= queue[i].pod.gen
    BY <1>2, <1>6 DEF OrderInv
  <2>2. x[1][2] <= gens'[n] /\ (store'[n] # NoPod => x[1][2] <= store'[n].gen)
    BY <1>2, <2>1
  <2>3. ASSUME NEW i \in DOMAIN queue', queue'[i].name = n
        PROVE  x[1][2] <= queue'[i].pod.gen
    <3>1. CASE i \in DOMAIN queue
      BY <1>1, <2>1, <2>3, <3>1
    <3>2. CASE i \notin DOMAIN queue
      <4>1. /\ i - old \in DOMAIN notes /\ queue'[i] = notes[i - old]
            /\ notes[i - old].name = n
        BY <1>1, <2>3, <3>2
      <4>2. /\ store[n] # NoPod => store[n].gen <= queue'[i].pod.gen
            /\ store[n] = NoPod => queue'[i].pod.gen = gens'[n]
            /\ queue'[i].pod.gen \in Nat
        BY <1>3, <1>4, <4>1
      <4> QED BY <1>2, <2>1, <4>2
    <3> QED BY <3>1, <3>2
  <2> QED BY <2>2, <2>3
<1> QED BY <1>7, <1>8, <1>9, <1>10 DEF OrderInv

(* The newest notification for a name stays current.                       *)
LEMMA TellsKeepsNewest ==
  ASSUME TypeOK, NewestInv, NEW notes, Tells(notes)
  PROVE  NewestInv'
<1> DEFINE old == Len(queue)
<1>1. /\ \A i \in DOMAIN queue : i \in DOMAIN queue' /\ queue'[i] = queue[i]
      /\ \A i \in DOMAIN notes : old + i \in DOMAIN queue' /\ queue'[old + i] = notes[i]
      /\ \A i \in DOMAIN queue' :
           \/ i \in DOMAIN queue
           \/ i - old \in DOMAIN notes /\ queue'[i] = notes[i - old]
  BY QueueGrows
<1>2. /\ old \in Nat /\ DOMAIN queue = 1 .. old
      /\ \A i \in DOMAIN queue : queue[i].name \in Names
  BY QueueElements
<1>5. DOMAIN notes = 1 .. Len(notes) /\ Len(notes) \in Nat
  BY DEF Tells
<1> SUFFICES ASSUME NEW i \in DOMAIN queue',
                    \A j \in DOMAIN queue' : i < j => queue'[j].name # queue'[i].name
             PROVE  Current(queue[i])'
  BY DEF NewestInv
<1>3. CASE i \notin DOMAIN queue
  <2>1. i - old \in DOMAIN notes /\ queue'[i] = notes[i - old]
    BY <1>1, <1>3
  <2> QED BY <2>1 DEF Tells, Current
<1>4. CASE i \in DOMAIN queue
  <2> DEFINE n == queue[i].name
  <2>1. queue'[i] = queue[i] /\ n \in Names
    BY <1>1, <1>2, <1>4
  <2>2. ASSUME NEW j \in DOMAIN notes PROVE notes[j].name # n
    <3>1. old + j \in DOMAIN queue' /\ queue'[old + j] = notes[j] /\ i < old + j
      BY <1>1, <1>2, <1>4, <1>5
    <3> QED BY <2>1, <3>1
  <2>3. store'[n] = store[n]
    BY <2>1, <2>2 DEF Tells
  <2>4. Current(queue[i])
    BY <1>1, <1>2, <1>4, <2>1 DEF NewestInv
  <2> QED BY <2>1, <2>3, <2>4 DEF Current
<1> QED BY <1>3, <1>4

(* A name of which nothing new is told keeps its cache entry.              *)
LEMMA TellsKeepsApplied ==
  ASSUME TypeOK, TypeOK', AppliedInv, NEW notes, Tells(notes)
  PROVE  AppliedInv'
<1> SUFFICES ASSUME NEW n \in Names, \A i \in DOMAIN queue' : queue'[i].name # n
             PROVE  Applied(n)'
  BY DEF AppliedInv, Applied
<1>1. \A i \in DOMAIN queue : queue[i].name # n
  BY QueueGrows
<1>2. \A i \in DOMAIN notes : notes[i].name # n
  BY QueueGrows
<1>3. store'[n] = store[n] /\ targets' = targets /\ gens[n] <= gens'[n]
  BY <1>2 DEF Tells
<1>4. Applied(n)
  BY <1>1 DEF AppliedInv
<1>5. /\ gens[n] \in Nat /\ gens'[n] \in Nat
      /\ \A x \in targets : x[1][2] \in Nat
  BY IndexAssumption DEF TypeOK, Target, UID
<1> QED BY <1>3, <1>4, <1>5 DEF Applied

-----------------------------------------------------------------------------
(* The informer's and the cluster's steps are such steps.                  *)

(* A note for a changed entry says what the entry has become.              *)
LEMMA NoteIsCurrent ==
  ASSUME NEW n \in Names, NEW old \in Pod \cup {NoPod}, NEW new \in Pod \cup {NoPod},
         old # new
  PROVE  /\ Note(n, old, new) \in Notes /\ Note(n, old, new).name = n
         /\ new = NoPod => /\ Note(n, old, new).kind = "delete"
                           /\ Note(n, old, new).pod = old /\ old # NoPod
         /\ new # NoPod => /\ Note(n, old, new).kind # "delete"
                           /\ Note(n, old, new).pod = new
BY DEF Note, Notes, Kinds

\* What a step of the cluster changes is one pod.
Edits(n) ==
  /\ connected' = connected /\ targets' = targets
  /\ api' \in [Names -> Pod \cup {NoPod}]
  /\ hidden' \subseteq Names
  /\ gens' \in [Names -> 0 .. MaxGen]
  /\ gens[n] <= gens'[n]
  /\ api'[n] # NoPod => api'[n].gen = gens'[n]
  /\ \A m \in Names \ {n} :
       api'[m] = api[m] /\ gens'[m] = gens[m] /\ (m \in hidden' <=> m \in hidden)

(* The four steps of the cluster.                                          *)
LEMMA ClusterEdits ==
  ASSUME TypeOK, CacheInv, NEW n \in Names,
         CreatePod(n) \/ Advance(n) \/ DeletePod(n) \/ Relabel(n)
  PROVE  Edits(n) /\ Watch(n)
<1> USE IndexAssumption DEF TypeOK, CacheInv, Edits
<1>1. CASE CreatePod(n)
  BY <1>1 DEF CreatePod, Pod, Phases
<1>2. CASE Advance(n)
  <2>1. api[n] \in Pod /\ api[n].gen = gens[n]
    BY <1>2 DEF Advance
  <2>2. /\ Watch(n) /\ UNCHANGED <<hidden, gens, connected, targets>>
        /\ \E ph \in Phases : api' = [api EXCEPT ![n] = [api[n] EXCEPT !.phase = ph]]
    BY <1>2 DEF Advance, Phases
  <2>3. PICK ph \in Phases : api' = [api EXCEPT ![n] = [api[n] EXCEPT !.phase = ph]]
    BY <2>2
  <2> DEFINE new == [api[n] EXCEPT !.phase = ph]
  <2>4. new \in Pod /\ new.gen = gens[n]
    BY <2>1 DEF Pod
  <2> HIDE DEF new
  <2>5. api' = [api EXCEPT ![n] = new]
    BY <2>3 DEF new
  <2>6. /\ api' \in [Names -> Pod \cup {NoPod}] /\ api'[n].gen = gens[n]
        /\ \A m \in Names \ {n} : api'[m] = api[m]
    BY <2>4, <2>5
  <2>7. /\ Watch(n)
        /\ hidden' = hidden /\ gens' = gens /\ connected' = connected /\ targets' = targets
    BY <2>2
  <2>8. gens[n] \in Nat
    OBVIOUS
  <2> QED BY <2>6, <2>7, <2>8
<1>3. CASE DeletePod(n)
  BY <1>3 DEF DeletePod
<1>4. CASE Relabel(n)
  BY <1>4 DEF Relabel
<1> QED BY <1>1, <1>2, <1>3, <1>4

(* The watch tells the handlers of it, when it is up.                      *)
LEMMA WatchTells ==
  ASSUME TypeOK, CacheInv, NEW n \in Names, Edits(n), Watch(n)
  PROVE  TypeOK' /\ CacheInv' /\ \E notes : Tells(notes)
<1>1. /\ \A m \in Names \ {n} : View(m)' = View(m)
      /\ View(n)' \in Pod \cup {NoPod}
      /\ View(n)' # NoPod => View(n)'.gen = gens'[n]
      /\ \A m \in Names : gens[m] \in Nat /\ gens'[m] \in Nat /\ gens[m] <= gens'[m]
      /\ \A m \in Names : store[m] \in Pod \cup {NoPod}
      /\ \A p \in Pod : p.gen \in Nat
  <2>1. \A m \in Names \ {n} : View(m)' = View(m)
    BY DEF Edits, View
  <2>5. api'[n] \in Pod \cup {NoPod} /\ (api'[n] # NoPod => api'[n].gen = gens'[n])
    BY DEF Edits
  <2>6. View(n)' \in Pod \cup {NoPod} /\ (View(n)' # NoPod => View(n)'.gen = gens'[n])
    BY <2>5 DEF View
  <2>7. \A m \in Names : gens[m] \in Nat /\ gens'[m] \in Nat
    BY IndexAssumption DEF Edits, TypeOK
  <2>8. gens[n] <= gens'[n] /\ \A m \in Names \ {n} : gens'[m] = gens[m]
    BY DEF Edits
  <2>2. \A m \in Names : gens[m] \in Nat /\ gens'[m] \in Nat /\ gens[m] <= gens'[m]
    BY <2>7, <2>8
  <2>3. \A m \in Names : store[m] \in Pod \cup {NoPod}
    BY DEF TypeOK
  <2>4. \A p \in Pod : p.gen \in Nat
    BY IndexAssumption DEF Pod
  <2> QED BY <2>1, <2>2, <2>3, <2>4, <2>6
<1>2. /\ \A m \in Names : api'[m] # NoPod => api'[m].gen = gens'[m]
      /\ \A m \in Names : store[m] # NoPod => store[m].gen <= gens[m]
      /\ connected => \A m \in Names : store[m] = View(m)
      /\ connected' = connected /\ targets' = targets
  BY DEF Edits, CacheInv
<1>3. CASE connected /\ View(n)' # View(n)
  <2> PICK new : new = Note(n, store[n], View(n)')
    OBVIOUS
  <2> DEFINE notes == <<new>>
  <2>1. /\ Len(queue) < MaxQueue
        /\ store' = [store EXCEPT ![n] = View(n)']
        /\ queue' = Append(queue, new)
    BY <1>3 DEF Watch
  <2>2. store[n] = View(n) /\ store[n] # View(n)'
    BY <1>2, <1>3
  <2>3. /\ new \in Notes /\ new.name = n
        /\ View(n)' = NoPod => new.kind = "delete" /\ new.pod = store[n] /\ store[n] # NoPod
        /\ View(n)' # NoPod => new.kind # "delete" /\ new.pod = View(n)'
    BY <1>1, <2>2, NoteIsCurrent
  <2>4. store' \in [Names -> Pod \cup {NoPod}] /\ store'[n] = View(n)'
        /\ \A m \in Names \ {n} : store'[m] = store[m]
    BY <1>1, <2>1 DEF TypeOK
  <2>5. queue' \in Seq(Notes) /\ Len(queue') <= MaxQueue
    BY <2>1, <2>3, IndexAssumption DEF TypeOK, Notes
  <2>6. TypeOK'
    BY <1>2, <2>4, <2>5 DEF TypeOK, Edits, Notes
  <2>7. CacheInv'
    BY <1>1, <1>2, <2>2, <2>4 DEF CacheInv
  <2>8. /\ notes \in Seq(Notes) /\ DOMAIN notes = {1} /\ notes[1] = new
        /\ queue' = queue \o notes
    BY <2>1, <2>3 DEF TypeOK, Notes
  <2> HIDE DEF notes
  <2>9. \A m \in Names :
          /\ store'[m] # store[m] => notes[1].name = m
          /\ store'[m] = store[m] \/ store'[m] = NoPod \/ store'[m].gen = gens'[m]
    BY <1>1, <2>3, <2>4, <2>8
  <2>10. /\ IF store'[n] = NoPod THEN new.kind = "delete"
                                 ELSE new.kind # "delete" /\ new.pod = store'[n]
         /\ new.kind = "delete" => store[n] # NoPod /\ new.pod = store[n]
    BY <2>3, <2>4
  <2>11. \A i \in DOMAIN notes : i = 1 /\ Current(notes[i])'
    BY <2>3, <2>8, <2>10 DEF Current
  <2>12. \A m \in Names : store'[m] # store[m] => \E i \in DOMAIN notes : notes[i].name = m
    BY <2>8, <2>9
  <2>13. Tells(notes)
    BY <1>1, <1>2, <2>3, <2>8, <2>9, <2>10, <2>11, <2>12 DEF Tells
  <2> QED BY <2>6, <2>7, <2>13
<1>4. CASE ~(connected /\ View(n)' # View(n))
  <2> DEFINE notes == <<>>
  <2>1. store' = store /\ queue' = queue
    BY <1>4 DEF Watch
  <2>2. TypeOK'
    BY <1>2, <2>1 DEF TypeOK, Edits
  <2>3. CacheInv'
    BY <1>1, <1>2, <1>4, <2>1 DEF CacheInv
  <2>4. notes \in Seq(Notes) /\ DOMAIN notes = {} /\ queue' = queue \o notes
    BY <2>1 DEF TypeOK
  <2>5. Tells(notes)
    BY <1>1, <1>2, <2>1, <2>4 DEF Tells
  <2> QED BY <2>2, <2>3, <2>5
<1> QED BY <1>3, <1>4

(* The list tells them of every difference at once, in any order.          *)
LEMMA ListTells ==
  ASSUME TypeOK, CacheInv, List
  PROVE  TypeOK' /\ CacheInv' /\ \E notes : Tells(notes)
<1>1. PICK notes \in SetToSeqs(Difference) :
         Len(queue) + Len(notes) <= MaxQueue /\ queue' = queue \o notes
  BY DEF List
<1>2. /\ connected' /\ store' = [n \in Names |-> View(n)]
      /\ api' = api /\ hidden' = hidden /\ gens' = gens /\ targets' = targets
  BY DEF List, clusterVars
<1>3. \A n \in Names : /\ View(n)' = View(n) /\ View(n) \in Pod \cup {NoPod}
                       /\ View(n) # NoPod => View(n).gen = gens[n]
                       /\ store[n] \in Pod \cup {NoPod} /\ gens[n] \in Nat
  BY <1>2, IndexAssumption DEF View, TypeOK, CacheInv
<1>4. /\ notes \in Seq(Difference)
      /\ DOMAIN notes = 1 .. Len(notes)
      /\ \A i, j \in DOMAIN notes : i # j => notes[i] # notes[j]
      /\ \A x \in Difference : \E i \in DOMAIN notes : notes[i] = x
  BY AnyOrder, DifferenceIsFinite
<1>5. \A i \in DOMAIN notes :
        \E n \in Names : store[n] # View(n) /\ notes[i] = Note(n, store[n], View(n))
  <2>1. \A i \in DOMAIN notes : notes[i] \in Difference
    BY <1>4
  <2> QED BY <2>1 DEF Difference
<1>6. \A i \in DOMAIN notes :
        LET n == notes[i].name IN
        /\ n \in Names /\ notes[i] \in Notes
        /\ notes[i] = Note(n, store[n], View(n))
        /\ View(n) = NoPod => /\ notes[i].kind = "delete"
                              /\ notes[i].pod = store[n] /\ store[n] # NoPod
        /\ View(n) # NoPod => notes[i].kind # "delete" /\ notes[i].pod = View(n)
  <2> SUFFICES ASSUME NEW i \in DOMAIN notes, NEW n \in Names,
                      store[n] # View(n), notes[i] = Note(n, store[n], View(n))
               PROVE  /\ notes[i].name = n /\ notes[i] \in Notes
                      /\ View(n) = NoPod => /\ notes[i].kind = "delete"
                                            /\ notes[i].pod = store[n] /\ store[n] # NoPod
                      /\ View(n) # NoPod => notes[i].kind # "delete" /\ notes[i].pod = View(n)
    BY <1>5
  <2> QED BY <1>3, NoteIsCurrent
<1>7. /\ notes \in Seq(Notes)
      /\ queue' \in Seq(Notes) /\ Len(queue') <= MaxQueue
  <2> DEFINE S == Notes
  <2>1. queue \in Seq(S) /\ \A i \in DOMAIN notes : notes[i] \in S
    BY <1>6 DEF TypeOK, Notes
  <2>2. notes \in Seq(Difference)
    BY <1>4
  <2> HIDE DEF S
  <2>3. notes \in Seq(S)
    BY <2>1, <2>2
  <2>4. queue \o notes \in Seq(S) /\ Len(queue \o notes) = Len(queue) + Len(notes)
    BY <2>1, <2>3
  <2> QED BY <1>1, <2>3, <2>4 DEF S
<1>8. /\ store' \in [Names -> Pod \cup {NoPod}]
      /\ \A n \in Names : store'[n] = View(n)
  BY <1>2, <1>3
<1>9. TypeOK'
  BY <1>2, <1>7, <1>8 DEF TypeOK, Notes
<1>10. CacheInv'
  BY <1>2, <1>3, <1>8 DEF CacheInv
<1>11. ASSUME NEW n \in Names, store'[n] # store[n]
       PROVE  \E i \in DOMAIN notes : notes[i].name = n
  <2>1. Note(n, store[n], View(n)) \in Difference
    BY <1>8, <1>11 DEF Difference
  <2>2. PICK i \in DOMAIN notes : notes[i] = Note(n, store[n], View(n))
    BY <1>4, <2>1
  <2> QED BY <2>2 DEF Note
<1>12. \A i, j \in DOMAIN notes : i # j => notes[i].name # notes[j].name
  BY <1>4, <1>6
<1>13. \A i \in DOMAIN notes : Current(notes[i])'
  BY <1>6, <1>8 DEF Current
<1>14. Tells(notes)
  BY <1>1, <1>2, <1>3, <1>6, <1>7, <1>8, <1>11, <1>12, <1>13 DEF Tells
<1> QED BY <1>9, <1>10, <1>14

(* One element more.                                                       *)
LEMMA AppendOne ==
  ASSUME NEW S, NEW q \in Seq(S), NEW e \in S
  PROVE  /\ <<e>> \in Seq(S) /\ DOMAIN <<e>> = {1} /\ <<e>>[1] = e
         /\ Append(q, e) = q \o <<e>>
         /\ Append(q, e) \in Seq(S) /\ Len(Append(q, e)) = Len(q) + 1 /\ Len(q) \in Nat
OBVIOUS

(* A resync tells them of a pod in the cache as it is there.               *)
LEMMA ResyncTells ==
  ASSUME TypeOK, CacheInv, NEW n \in Names, Resync(n)
  PROVE  TypeOK' /\ CacheInv' /\ \E notes : Tells(notes)
<1> PICK new : new = [kind |-> "update", name |-> n, pod |-> store[n]]
  OBVIOUS
<1> DEFINE notes == <<new>>
<1>1. /\ store[n] # NoPod /\ Len(queue) < MaxQueue /\ queue' = Append(queue, new)
      /\ api' = api /\ hidden' = hidden /\ gens' = gens
      /\ connected' = connected /\ store' = store /\ targets' = targets
  BY DEF Resync, clusterVars
<1>2. /\ new \in Notes /\ new.name = n /\ new.kind # "delete" /\ new.pod = store[n]
      /\ \A m \in Names : gens[m] \in Nat
  BY <1>1 DEF TypeOK, Notes, Kinds
<1>3. queue \in Seq(Notes) /\ Len(queue) <= MaxQueue
  BY DEF TypeOK, Notes
<1> DEFINE S == Notes
<1>4. queue \in Seq(S) /\ new \in S
  BY <1>2, <1>3
<1> HIDE DEF S
<1>5. /\ notes \in Seq(S) /\ DOMAIN notes = {1} /\ notes[1] = new
      /\ queue' = queue \o notes
      /\ queue' \in Seq(S) /\ Len(queue') = Len(queue) + 1 /\ Len(queue) \in Nat
  <2>1. /\ notes \in Seq(S) /\ DOMAIN notes = {1} /\ notes[1] = new
        /\ Append(queue, new) = queue \o notes /\ Append(queue, new) \in Seq(S)
        /\ Len(Append(queue, new)) = Len(queue) + 1 /\ Len(queue) \in Nat
    BY <1>4, AppendOne
  <2>2. queue' = Append(queue, new)
    BY <1>1
  <2> QED BY <2>1, <2>2, Zenon
<1> HIDE DEF notes
<1>6. TypeOK'
  BY <1>1, <1>5, IndexAssumption DEF TypeOK, Notes, S
<1>7. CacheInv'
  BY <1>1 DEF CacheInv, View
<1>8. \A i \in DOMAIN notes : i = 1 /\ notes[i].kind # "delete" /\ Current(notes[i])'
  BY <1>1, <1>2, <1>5 DEF Current
<1>9. Tells(notes)
  BY <1>1, <1>2, <1>5, <1>8 DEF Tells, S
<1> QED BY <1>6, <1>7, <1>9

(* Every step but the handlers'.                                           *)
LEMMA OthersTell ==
  ASSUME TypeOK, CacheInv,
         \/ List \/ Break
         \/ \E n \in Names : \/ Resync(n) \/ CreatePod(n) \/ Advance(n)
                             \/ DeletePod(n) \/ Relabel(n)
  PROVE  TypeOK' /\ CacheInv' /\ \E notes : Tells(notes)
<1>1. CASE List
  BY <1>1, ListTells
<1>2. CASE Break
  <2>1. /\ ~connected'
        /\ api' = api /\ hidden' = hidden /\ gens' = gens
        /\ store' = store /\ queue' = queue /\ targets' = targets
    BY <1>2 DEF Break, clusterVars
  <2>2. connected' \in BOOLEAN
    BY <1>2 DEF Break
  <2>6. TypeOK'
    BY <2>1, <2>2 DEF TypeOK
  <2>7. CacheInv'
    BY <2>1 DEF CacheInv
  <2>3. \A n \in Names : gens[n] <= gens'[n]
    BY <2>1, IndexAssumption DEF TypeOK
  <2> PICK notes : notes = <<>>
    OBVIOUS
  <2>4. notes \in Seq(Notes) /\ DOMAIN notes = {} /\ queue' = queue \o notes
    <3>1. queue \in Seq(Notes)
      BY DEF TypeOK, Notes
    <3>2. queue \o <<>> = queue
      BY <3>1
    <3> QED BY <2>1, <3>2
  <2>5. Tells(notes)
    <3>1. \A n \in Names : store'[n] = store[n]
      BY <2>1
    <3>2. \A i \in DOMAIN notes : FALSE
      BY <2>4
    <3> QED BY <2>1, <2>3, <2>4, <3>1, <3>2, Zenon DEF Tells
  <2> QED BY <2>5, <2>6, <2>7
<1>3. ASSUME NEW n \in Names,
             Resync(n) \/ CreatePod(n) \/ Advance(n) \/ DeletePod(n) \/ Relabel(n)
      PROVE  TypeOK' /\ CacheInv' /\ \E notes : Tells(notes)
  BY <1>3, ResyncTells, ClusterEdits, WatchTells
<1> QED BY <1>1, <1>2, <1>3

-----------------------------------------------------------------------------
(* The handlers.                                                           *)

(* What a delivered notification does to the index: targets of other pods  *)
(* stay, those of its pod are there afterwards exactly when it is running  *)
(* and not deleted.                                                        *)
LEMMA Handled ==
  ASSUME TypeOK, Deliver
  PROVE  LET note == Head(queue)
             its == TargetsOf(note.name, note.pod) IN
         /\ queue # <<>> /\ queue' = Tail(queue)
         /\ api' = api /\ hidden' = hidden /\ gens' = gens
         /\ connected' = connected /\ store' = store
         /\ targets' = IF note.kind # "delete" /\ isPodRunning(note.pod)
                       THEN targets \cup its ELSE targets \ its
BY Zenon DEF Deliver, onAdd, onUpdate, onDelete, applyPod, removePod, clusterVars

(* The queue behind a delivery.                                            *)
LEMMA QueueShrinks ==
  ASSUME TypeOK, Deliver
  PROVE  /\ 1 \in DOMAIN queue /\ Head(queue) = queue[1]
         /\ queue' \in Seq(Notes) /\ Len(queue') <= MaxQueue
         /\ \A i \in DOMAIN queue' :
              i + 1 \in DOMAIN queue /\ 1 < i + 1 /\ queue'[i] = queue[i + 1]
         /\ \A i \in DOMAIN queue : i = 1 \/ i - 1 \in DOMAIN queue'
<1> DEFINE S == Notes
<1>1. queue \in Seq(S) /\ Len(queue) <= MaxQueue /\ queue # <<>> /\ queue' = Tail(queue)
  BY DEF TypeOK, Notes, Deliver
<1> HIDE DEF S
<1>2. /\ 1 \in DOMAIN queue /\ Head(queue) = queue[1]
      /\ queue' \in Seq(S) /\ Len(queue') = Len(queue) - 1 /\ Len(queue) \in Nat \ {0}
      /\ DOMAIN queue = 1 .. Len(queue) /\ DOMAIN queue' = 1 .. Len(queue) - 1
      /\ \A i \in 1 .. Len(queue) - 1 : queue'[i] = queue[i + 1]
  BY <1>1
<1>3. Len(queue') <= MaxQueue
  BY <1>1, <1>2, IndexAssumption
<1>4. /\ \A i \in DOMAIN queue' :
           i + 1 \in DOMAIN queue /\ 1 < i + 1 /\ queue'[i] = queue[i + 1]
      /\ \A i \in DOMAIN queue : i = 1 \/ i - 1 \in DOMAIN queue'
  BY <1>2
<1> QED BY <1>2, <1>3, <1>4 DEF S

(* A handler keeps the types, and the index stays behind the queue.        *)
LEMMA DeliverKeepsType ==
  ASSUME TypeOK, Deliver
  PROVE  TypeOK'
<1> DEFINE note == Head(queue)
<1>1. note.name \in Names /\ note.pod \in Pod
  BY QueueElements, QueueShrinks
<1>2. TargetsOf(note.name, note.pod) \subseteq Target
  BY <1>1 DEF TargetsOf, Target, UID, Pod
<1>3. targets' \subseteq Target
  BY <1>2, Handled DEF TypeOK
<1> QED BY <1>3, Handled, QueueShrinks DEF TypeOK, Notes

LEMMA DeliverKeepsOrder ==
  ASSUME TypeOK, OrderInv, Deliver
  PROVE  OrderInv'
<1> DEFINE note == Head(queue)
           its == TargetsOf(note.name, note.pod)
<1>1. gens' = gens /\ store' = store
  BY Handled
<1>2. /\ 1 \in DOMAIN queue /\ note = queue[1]
      /\ \A i \in DOMAIN queue' :
           i + 1 \in DOMAIN queue /\ 1 < i + 1 /\ queue'[i] = queue[i + 1]
  BY QueueShrinks
<1>3. DOMAIN queue \subseteq Nat /\ DOMAIN queue' \subseteq Nat
  BY QueueElements, QueueShrinks
<1>4. \A i \in DOMAIN queue' : queue'[i].pod.gen <= gens'[queue'[i].name]
  BY <1>1, <1>2 DEF OrderInv
<1>5. \A i, j \in DOMAIN queue' :
         i < j /\ queue'[i].name = queue'[j].name => queue'[i].pod.gen <= queue'[j].pod.gen
  BY <1>2, <1>3 DEF OrderInv
<1>6. \A i \in DOMAIN queue' :
         store'[queue'[i].name] # NoPod => queue'[i].pod.gen <= store'[queue'[i].name].gen
  BY <1>1, <1>2 DEF OrderInv
<1>7. ASSUME NEW x \in targets'
      PROVE  /\ x[1][2] <= gens'[x[1][1]]
             /\ store'[x[1][1]] # NoPod => x[1][2] <= store'[x[1][1]].gen
             /\ \A i \in DOMAIN queue' :
                  queue'[i].name = x[1][1] => x[1][2] <= queue'[i].pod.gen
  <2>1. CASE x \in targets
    BY <1>1, <1>2, <2>1 DEF OrderInv
  <2>2. CASE x \notin targets
    <3>1. x \in its
      BY <2>2, Handled
    <3>2. x[1][1] = note.name /\ x[1][2] = note.pod.gen
      BY <3>1 DEF TargetsOf
    <3> QED BY <1>1, <1>2, <3>2 DEF OrderInv
  <2> QED BY <2>1, <2>2
<1> QED BY <1>4, <1>5, <1>6, <1>7 DEF OrderInv

(* What a handler was told last of a name, the cache still holds.          *)
LEMMA DeliverKeepsNewest ==
  ASSUME TypeOK, NewestInv, Deliver
  PROVE  NewestInv'
<1>1. store' = store
  BY Handled
<1>2. /\ \A i \in DOMAIN queue' :
           i + 1 \in DOMAIN queue /\ 1 < i + 1 /\ queue'[i] = queue[i + 1]
      /\ \A i \in DOMAIN queue : i = 1 \/ i - 1 \in DOMAIN queue'
      /\ DOMAIN queue \subseteq Nat /\ DOMAIN queue' \subseteq Nat
  BY QueueElements, QueueShrinks
<1> SUFFICES ASSUME NEW i \in DOMAIN queue',
                    \A j \in DOMAIN queue' : i < j => queue'[j].name # queue'[i].name
             PROVE  Current(queue[i])'
  BY DEF NewestInv
<1>3. ASSUME NEW j \in DOMAIN queue, i + 1 < j
      PROVE  queue[j].name # queue[i + 1].name
  <2>1. j - 1 \in DOMAIN queue' /\ i < j - 1
    BY <1>2, <1>3
  <2>2. queue'[j - 1] = queue[(j - 1) + 1] /\ queue'[i] = queue[i + 1]
    BY <1>2, <2>1
  <2>3. queue'[j - 1] = queue[j]
    BY <1>2, <2>2
  <2> QED BY <2>1, <2>2, <2>3
<1>4. Current(queue[i + 1])
  BY <1>2, <1>3 DEF NewestInv
<1> QED BY <1>1, <1>2, <1>4 DEF Current

(* Behind the newest notification of a name the index holds what the cache *)
(* asks for; names the delivered notification is not about are as before.  *)
LEMMA DeliverKeepsApplied ==
  ASSUME TypeOK, CacheInv, OrderInv, NewestInv, AppliedInv, Deliver
  PROVE  AppliedInv'
<1> DEFINE note == Head(queue)
           its == TargetsOf(note.name, note.pod)
<1> SUFFICES ASSUME NEW n \in Names, \A i \in DOMAIN queue' : queue'[i].name # n
             PROVE  Applied(n)'
  BY DEF AppliedInv
<1>1. /\ gens' = gens /\ store' = store
      /\ targets' = IF note.kind # "delete" /\ isPodRunning(note.pod)
                    THEN targets \cup its ELSE targets \ its
  BY Handled
<1>2. /\ 1 \in DOMAIN queue /\ note = queue[1]
      /\ \A i \in DOMAIN queue : i = 1 \/ i - 1 \in DOMAIN queue'
      /\ DOMAIN queue \subseteq Nat
      /\ note.kind \in Kinds /\ note.name \in Names /\ note.pod \in Pod /\ note.pod.gen \in Nat
  BY QueueElements, QueueShrinks
<1>3. \A i \in DOMAIN queue : i # 1 => queue[i].name # n
  <2> SUFFICES ASSUME NEW i \in DOMAIN queue, i # 1 PROVE queue[i].name # n
    OBVIOUS
  <2>1. i - 1 \in DOMAIN queue' /\ queue'[i - 1] = queue[(i - 1) + 1] /\ i \in Nat
    BY <1>2, QueueShrinks
  <2> QED BY <2>1
<1>4. /\ \A x \in its : x[1][1] = note.name /\ x[1][2] = note.pod.gen
      /\ \A x \in targets : x[1][2] \in Nat
      /\ gens[n] \in Nat
  BY IndexAssumption DEF TargetsOf, TypeOK, Target, UID
<1>5. CASE note.name # n
  <2>1. Applied(n)
    BY <1>2, <1>3, <1>5 DEF AppliedInv
  <2>2. \A x \in TargetsOf(n, store[n]) : x[1][1] = n
    BY DEF TargetsOf
  <2> QED BY <1>1, <1>4, <1>5, <2>1, <2>2 DEF Applied
<1>6. CASE note.name = n
  <2>1. Current(note)
    BY <1>2, <1>3, <1>6 DEF NewestInv
  <2>2. CASE store[n] = NoPod
    <3>1. note.kind = "delete" /\ note.pod.gen <= gens[n]
      BY <1>2, <1>6, <2>1, <2>2 DEF Current, OrderInv
    <3>2. ASSUME NEW x \in targets', x[1][1] = n
          PROVE  x[1][2] < gens[n]
      <4>1. x \in targets /\ x \notin its
        BY <1>1, <3>1, <3>2
      <4>2. x[1][2] <= note.pod.gen
        BY <1>2, <1>6, <3>2, <4>1 DEF OrderInv
      <4>3. x[1][2] # note.pod.gen
        BY <1>2, <1>6, <3>2, <4>1 DEF TargetsOf, TypeOK, Target, UID
      <4> QED BY <1>2, <1>4, <3>1, <4>1, <4>2, <4>3
    <3> QED BY <1>1, <2>2, <3>2 DEF Applied
  <2>3. CASE store[n] # NoPod
    <3>1. note.kind # "delete" /\ note.pod = store[n]
      BY <1>6, <2>1, <2>3 DEF Current
    <3>2. its = TargetsOf(n, store[n])
      BY <1>6, <3>1
    <3> QED BY <1>1, <2>3, <3>1, <3>2 DEF Applied
  <2> QED BY <2>2, <2>3
<1> QED BY <1>5, <1>6

-----------------------------------------------------------------------------
(* The invariant and what follows from it.                                 *)

(* The invariant holds at first and is kept by every step.                 *)
LEMMA IndexInit == Init => IndexInv
<1> SUFFICES ASSUME Init PROVE IndexInv
  OBVIOUS
<1>1. /\ \A n \in Names : /\ api[n] \in Pod \cup {NoPod}
                          /\ api[n] # NoPod => api[n].gen = 1
      /\ gens = [n \in Names |-> IF api[n] = NoPod THEN 0 ELSE 1]
      /\ hidden = {} /\ connected = FALSE /\ store = [n \in Names |-> NoPod]
      /\ queue = <<>> /\ targets = {}
  BY IndexAssumption DEF Init, Pod
<1>2. api \in [Names -> Pod \cup {NoPod}]
  BY <1>1, IndexAssumption DEF Init, Pod
<1>3. queue \in Seq(Notes) /\ Len(queue) = 0 /\ DOMAIN queue = {}
  BY <1>1
<1>4. gens \in [Names -> 0 .. MaxGen]
  BY <1>1, IndexAssumption
<1>5. TypeOK
  <2>1. store \in [Names -> Pod \cup {NoPod}] /\ connected \in BOOLEAN
    BY <1>1
  <2>2. hidden \subseteq Names /\ targets \subseteq Target /\ Len(queue) <= MaxQueue
    BY <1>1, <1>3, IndexAssumption
  <2> QED BY <1>2, <1>3, <1>4, <2>1, <2>2 DEF TypeOK, Notes
<1>6. CacheInv
  BY <1>1 DEF CacheInv
<1>7. OrderInv /\ NewestInv
  BY <1>1, <1>3 DEF OrderInv, NewestInv
<1>8. AppliedInv
  BY <1>1 DEF AppliedInv, Applied
<1> QED BY <1>5, <1>6, <1>7, <1>8 DEF IndexInv

LEMMA IndexStep == IndexInv /\ [Next]_vars => IndexInv'
<1> SUFFICES ASSUME IndexInv, [Next]_vars PROVE IndexInv'
  OBVIOUS
<1> USE DEF IndexInv
<1>1. CASE Deliver
  <2>1. TypeOK'
    BY <1>1, DeliverKeepsType
  <2>2. CacheInv'
    BY <1>1, Handled DEF CacheInv, View
  <2> QED BY <1>1, <2>1, <2>2, DeliverKeepsOrder, DeliverKeepsNewest, DeliverKeepsApplied
<1>2. CASE \/ List \/ Break
           \/ \E n \in Names : \/ Resync(n) \/ CreatePod(n) \/ Advance(n)
                               \/ DeletePod(n) \/ Relabel(n)
  <2>1. TypeOK' /\ CacheInv' /\ \E notes : Tells(notes)
    BY <1>2, OthersTell
  <2>2. PICK notes : Tells(notes)
    BY <2>1
  <2>3. OrderInv'
    BY <2>1, <2>2, TellsKeepsOrder
  <2>4. NewestInv'
    BY <2>2, TellsKeepsNewest
  <2>5. AppliedInv'
    BY <2>1, <2>2, TellsKeepsApplied
  <2> QED BY <2>1, <2>3, <2>4, <2>5
<1>3. CASE UNCHANGED vars
  <2>1. /\ api' = api /\ hidden' = hidden /\ gens' = gens /\ connected' = connected
        /\ store' = store /\ queue' = queue /\ targets' = targets
    BY <1>3 DEF vars, clusterVars
  <2>2. TypeOK' /\ CacheInv'
    BY <2>1 DEF TypeOK, CacheInv, View
  <2>3. OrderInv' /\ NewestInv'
    BY <2>1 DEF OrderInv, NewestInv, Current
  <2>4. AppliedInv'
    BY <2>1 DEF AppliedInv, Applied
  <2> QED BY <2>2, <2>3, <2>4
<1> QED BY <1>1, <1>2, <1>3 DEF Next

(* In every reachable state the cache is behind the cluster, the queue     *)
(* behind the cache and the index behind the queue, name by name.          *)
THEOREM IndexInvariance == Spec => []IndexInv
<1> QED BY IndexInit, IndexStep, PTL DEF Spec

(* The state of cluster, cache, queue and index has its type in every      *)
(* reachable state: no handler is given a delete without a pod.            *)
THEOREM IndexTypeCorrect == Spec => []TypeOK
<1>1. IndexInv => TypeOK
  BY DEF IndexInv
<1> QED BY <1>1, IndexInvariance, PTL

(* Once the handlers have caught up with a watch that is up, the index     *)
(* agrees with the cluster about every name.                               *)
LEMMA QuietIsApplied ==
  ASSUME IndexInv, Quiet, NEW n \in Names
  PROVE  store[n] = View(n) /\ Applied(n)
<1>1. DOMAIN queue = {}
  BY DEF Quiet
<1> QED BY <1>1 DEF IndexInv, CacheInv, AppliedInv, Quiet

(* When the handlers have caught up, no container of a selected running    *)
(* pod is missing from the index, whatever the watch lost and however pods *)
(* were recreated, relabelled and resynced.                                *)
THEOREM NothingIsMissing == Spec => []NoneMissing
<1>1. IndexInv => NoneMissing
  <2> SUFFICES ASSUME IndexInv, Quiet, NEW x \in Live PROVE x \in targets
    BY DEF NoneMissing
  <2>1. PICK n \in Names : View(n) # NoPod /\ isPodRunning(View(n)) /\ x \in TargetsOf(n, View(n))
    BY DEF Live
  <2> QED BY <2>1, QuietIsApplied DEF Applied
<1> QED BY <1>1, IndexInvariance, PTL

(* When the handlers have caught up, an entry without a running pod in the *)
(* selection belongs to an earlier pod of that name.                       *)
THEOREM OnlyReplacedPodsStay == Spec => []StaleIsReplaced
<1>1. IndexInv => StaleIsReplaced
  <2> SUFFICES ASSUME IndexInv, Quiet, NEW x \in targets, x \notin Live
               PROVE  x[1][2] < gens[x[1][1]]
    BY DEF StaleIsReplaced
  <2> DEFINE n == x[1][1]
  <2>1. /\ x \in Target /\ n \in Names /\ x[1][2] \in Nat /\ gens[n] \in Nat
        /\ x[1][2] <= gens[n]
    BY IndexAssumption DEF IndexInv, TypeOK, OrderInv, Target, UID
  <2>2. store[n] = View(n) /\ Applied(n)
    BY <2>1, QuietIsApplied
  <2>3. CASE View(n) = NoPod
    BY <2>2, <2>3 DEF Applied
  <2>4. CASE View(n) # NoPod
    <3>1. View(n).gen = gens[n]
      BY <2>1, <2>4 DEF IndexInv, CacheInv, View
    <3>2. ASSUME x[1][2] = gens[n] PROVE FALSE
      <4>1. x \in TargetsOf(n, View(n))
        BY <2>1, <3>1, <3>2 DEF TargetsOf, Target, UID
      <4>2. isPodRunning(View(n))
        BY <2>2, <2>4, <4>1 DEF Applied
      <4> QED BY <2>1, <2>4, <4>1, <4>2 DEF Live
    <3> QED BY <2>1, <3>2
  <2> QED BY <2>3, <2>4
<1> QED BY <1>1, IndexInvariance, PTL
=============================================================================
