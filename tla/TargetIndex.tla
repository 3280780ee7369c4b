---------------------------- MODULE TargetIndex ----------------------------
(***************************************************************************)
(* The live view of the running pod containers (internal/kube/informer.go):*)
(* the apiserver's pods, a SharedInformer that lists and watches them, and *)
(* the handlers onAdd, onUpdate and onDelete that keep TargetIndex.targets.*)
(*                                                                         *)
(* The informer is client-go's.  It matters here that its cache is keyed   *)
(* by namespace/name while TargetKey holds the pod's UID, that handlers    *)
(* run behind the cache, in order, from a queue, and that after a watch    *)
(* has broken the informer lists again and tells the handlers only the     *)
(* difference between two lists.                                           *)
(***************************************************************************)
EXTENDS Naturals, FiniteSets, SequencesExt

CONSTANTS
  Names,        \* namespace/name of the pods
  Containers,   \* the containers of every pod
  MaxGen,       \* how often a pod of one name is created (bound)
  MaxQueue,     \* notifications the handlers may be behind (bound)
  NoPod

Phases == {"Pending", "Running", "Done"}
Pod == [gen : 1 .. MaxGen, phase : Phases]

ASSUME IndexAssumption ==
  /\ IsFiniteSet(Names)
  /\ MaxGen \in Nat \ {0}
  /\ MaxQueue \in Nat \ {0}
  /\ NoPod \notin Pod

UID == Names \X (1 .. MaxGen)
Target == UID \X Containers
Kinds == {"add", "update", "delete"}

VARIABLES
  api,          \* the pods of the cluster, by name
  hidden,       \* pods that do not match the selectors
  gens,         \* how many pods of each name there have been
  connected,    \* the watch is up
  store,        \* the informer's cache
  queue,        \* notifications on their way to the handlers
  targets       \* TargetIndex.targets

clusterVars == <<api, hidden, gens>>
vars == <<clusterVars, connected, store, queue, targets>>

\* What a list under the selectors returns.
View(n) == IF n \in hidden THEN NoPod ELSE api[n]

TargetsOf(n, p) == {<<<<n, p.gen>>, c>> : c \in Containers}

isPodRunning(p) == p.phase = "Running"

Init ==
  /\ api \in [Names -> {NoPod} \cup [gen : {1}, phase : Phases]]
  /\ hidden = {}
  /\ gens = [n \in Names |-> IF api[n] = NoPod THEN 0 ELSE 1]
  /\ connected = FALSE
  /\ store = [n \in Names |-> NoPod]
  /\ queue = <<>>
  /\ targets = {}

-----------------------------------------------------------------------------
(* The informer.                                                           *)

\* Mutant of Note: a delete carries no state.
NoteWithoutState(n, old, new) ==
  [kind |-> IF old = NoPod THEN "add" ELSE IF new = NoPod THEN "delete" ELSE "update",
   name |-> n, pod |-> new]

\* What the handlers are told when the cache entry of n goes from old to new.
\* A delete carries the last state that was known.
Note(n, old, new) ==
  [kind |-> IF old = NoPod THEN "add" ELSE IF new = NoPod THEN "delete" ELSE "update",
   name |-> n, pod |-> IF new = NoPod THEN old ELSE new]

\* A change of pod n: the watch, when it is up, carries it into the cache.
Watch(n) ==
  IF connected /\ View(n)' # View(n)
  THEN /\ Len(queue) < MaxQueue
       /\ store' = [store EXCEPT ![n] = View(n)']
       /\ queue' = Append(queue, Note(n, store[n], View(n)'))
  ELSE UNCHANGED <<store, queue>>

\* What a list finds out about the names whose cache entry is not what is there.
Difference == {Note(n, store[n], View(n)) : n \in {m \in Names : store[m] # View(m)}}

\* A list, the first one or one after a broken watch: the cache becomes what
\* is there now, the handlers get the difference, in any order of names.
List ==
  /\ ~connected
  /\ connected' = TRUE
  /\ store' = [n \in Names |-> View(n)]
  /\ \E notes \in SetToSeqs(Difference) :
       /\ Len(queue) + Len(notes) <= MaxQueue
       /\ queue' = queue \o notes
  /\ UNCHANGED <<clusterVars, targets>>

\* The watch ends in an error: its connection is lost or its version expired.
Break ==
  /\ connected
  /\ connected' = FALSE
  /\ UNCHANGED <<clusterVars, store, queue, targets>>

\* The resync timer: the handlers get an update for every pod in the cache.
Resync(n) ==
  /\ connected
  /\ store[n] # NoPod
  /\ Len(queue) < MaxQueue
  /\ queue' = Append(queue, [kind |-> "update", name |-> n, pod |-> store[n]])
  /\ UNCHANGED <<clusterVars, connected, store, targets>>

-----------------------------------------------------------------------------
(* The handlers.                                                           *)

\* Mutant of removePod: entries are kept.
removePodNever(n, p) == targets' = targets

removePod(n, p) == targets' = targets \ TargetsOf(n, p)

applyPod(n, p) ==
  IF isPodRunning(p) THEN targets' = targets \cup TargetsOf(n, p)
                     ELSE removePod(n, p)

onAdd(note) == note.kind = "add" /\ applyPod(note.name, note.pod)

\* Mutant of onUpdate: a pod counts only when it is added.
onUpdateIgnored(note) == note.kind = "update" /\ UNCHANGED targets

\* The old object is ignored.
onUpdate(note) == note.kind = "update" /\ applyPod(note.name, note.pod)

\* Also for a DeletedFinalStateUnknown, whose Obj is the last known state.
onDelete(note) == note.kind = "delete" /\ removePod(note.name, note.pod)

Deliver ==
  /\ queue # <<>>
  /\ onAdd(Head(queue)) \/ onUpdate(Head(queue)) \/ onDelete(Head(queue))
  /\ queue' = Tail(queue)
  /\ UNCHANGED <<clusterVars, connected, store>>

-----------------------------------------------------------------------------
(* The cluster.                                                            *)

CreatePod(n) ==
  /\ api[n] = NoPod
  /\ gens[n] < MaxGen
  /\ gens' = [gens EXCEPT ![n] = @ + 1]
  /\ api' = [api EXCEPT ![n] = [gen |-> gens'[n], phase |-> "Pending"]]
  /\ UNCHANGED <<hidden, connected, targets>>
  /\ Watch(n)

Advance(n) ==
  /\ api[n] # NoPod
  /\ \/ api[n].phase = "Pending" /\ api' = [api EXCEPT ![n].phase = "Running"]
     \/ api[n].phase # "Done" /\ api' = [api EXCEPT ![n].phase = "Done"]
  /\ UNCHANGED <<hidden, gens, connected, targets>>
  /\ Watch(n)

DeletePod(n) ==
  /\ api[n] # NoPod
  /\ api' = [api EXCEPT ![n] = NoPod]
  /\ hidden' = hidden \ {n}
  /\ UNCHANGED <<gens, connected, targets>>
  /\ Watch(n)

\* A label changes: the pod leaves or enters the selection, with its UID.
Relabel(n) ==
  /\ api[n] # NoPod
  /\ hidden' = IF n \in hidden THEN hidden \ {n} ELSE hidden \cup {n}
  /\ UNCHANGED <<api, gens, connected, targets>>
  /\ Watch(n)

Next ==
  \/ List \/ Break \/ Deliver
  \/ \E n \in Names : Resync(n) \/ CreatePod(n) \/ Advance(n) \/ DeletePod(n) \/ Relabel(n)

Spec == Init /\ [][Next]_vars

\* client-go retries a list and runs the handlers; nothing else must happen.
FairSpec == Spec /\ WF_vars(List) /\ WF_vars(Deliver)

-----------------------------------------------------------------------------
TypeOK ==
  /\ api \in [Names -> Pod \cup {NoPod}]
  /\ hidden \subseteq Names
  /\ gens \in [Names -> 0 .. MaxGen]
  /\ connected \in BOOLEAN
  /\ store \in [Names -> Pod \cup {NoPod}]
  /\ queue \in Seq([kind : Kinds, name : Names, pod : Pod])
  /\ Len(queue) <= MaxQueue
  /\ targets \subseteq Target

\* The targets that exist: containers of the selected pods that are running.
Live == UNION {IF View(n) # NoPod /\ isPodRunning(View(n))
               THEN TargetsOf(n, View(n)) ELSE {} : n \in Names}

\* The watch is up and the handlers have caught up.
Quiet == connected /\ queue = <<>>

(* When the handlers have caught up, no container of a selected running    *)
(* pod is missing from the index, through broken watches, recreated pods,  *)
(* relabelling and resyncs.                                                *)
NoneMissing == Quiet => Live \subseteq targets

(* An entry that outlives its pod belongs to an earlier pod of that name:  *)
(* the last pod of a name is always removed when it is gone.               *)
StaleIsReplaced ==
  Quiet => \A x \in targets \ Live : x[1][2] < gens[x[1][1]]

(* A pod that stays selected and running is in the index from some time on.*)
RunningIsIndexed ==
  \A x \in Target : <>[](x \in Live) => <>[](x \in targets)

(* A pod that stays away leaves the index, unless it has a successor under *)
(* its name: then a broken watch may hide its end.                         *)
GoneIsDropped ==
  \A x \in Target :
    <>[](x \notin Live /\ gens[x[1][1]] = x[1][2]) => <>[](x \notin targets)
=============================================================================
