------------------------------ MODULE OneShot ------------------------------
(***************************************************************************)
(* The one-shot scan (runScan and runOnce in cmd/kl-scan/main.go): set-up, *)
(* discovery, the streams of StreamAll under their limit, the pipeline and *)
(* the exit code.  The pipeline and its channel are those of Pipeline,     *)
(* with a single Run; here each stream has the life streamOne gives it.    *)
(***************************************************************************)
EXTENDS Integers, Sequences, FiniteSets

CONSTANTS
  Workers, Cap,
  Targets,      \* the running containers there may be
  NamespaceOf,  \* the namespace each of them is in
  LinesOf,      \* the lines each of them would deliver
  MaxStreams,   \* --max-streams
  FlagSets      \* what a user may ask for: -A, -n, and the namespaces of the
                \* kubeconfig's context and of POD_NAMESPACE, "" when not set

ASSUME OneShotAssumption ==
  /\ Workers # {} /\ IsFiniteSet(Workers)
  /\ Cap \in Nat \ {0}
  /\ IsFiniteSet(Targets)
  /\ NamespaceOf \in [Targets -> STRING]
  /\ MaxStreams \in Int
  /\ FlagSets \subseteq [all : BOOLEAN, namespaces : SUBSET STRING,
                         context : STRING, env : STRING]

VARIABLES
  round, left, chan, closed, cancelled, worker, line, idx,
  dedupe, total, emitted, taken, done,      \* the variables of Pipeline
  flags,        \* what the user asks for
  running,      \* the containers whose pods are Running when they are listed
  stage,        \* setup, start (discovery), scan or exit
  strm,         \* each container: unlisted, skipped, wait, opening, open, nil, err
  errCnt,       \* streams that returned an error
  exit          \* the exit code of the process, NoCode while it runs

P == INSTANCE Pipeline WITH Streams <- Targets, Input <- <<LinesOf>>, Known <- {}

ASSUME LinesAssumption == LinesOf \in [Targets -> Seq(P!LogLine)]

world == <<flags, running>>
pipeVars == <<round, left, chan, closed, cancelled, worker, line, idx,
              dedupe, total, emitted, taken, done>>
vars == <<pipeVars, world, stage, strm, errCnt, exit>>

\* What DiscoverTargets returned.
targets == {t \in Targets : strm[t] \notin {"unlisted", "skipped"}}

NoCode == -1
ExitClean == 0
ExitFindings == 1
ExitError == 2
ExitPartial == 3

Init ==
  /\ P!Init
  /\ flags \in FlagSets
  /\ running \in SUBSET Targets
  /\ stage = "setup"
  /\ strm = [t \in Targets |-> "unlisted"]
  /\ errCnt = 0
  /\ exit = NoCode

Leave(code) == stage' = "exit" /\ exit' = code

-----------------------------------------------------------------------------
(* Set-up and DiscoverTargets.                                             *)

\* The namespaces to list; none means all of them.
resolveNamespaces(f) ==
  IF f.all THEN {}
  ELSE IF f.namespaces # {} THEN f.namespaces
  ELSE {IF f.context # "" THEN f.context ELSE IF f.env # "" THEN f.env ELSE "default"}

InScope(t) == LET ns == resolveNamespaces(flags) IN ns = {} \/ NamespaceOf[t] \in ns

Contradictory == flags.all /\ flags.namespaces # {}

SetUp ==
  /\ stage = "setup"
  /\ ~Contradictory
  /\ stage' = "start"
  /\ UNCHANGED <<pipeVars, strm, errCnt, exit>>

\* -A with -n, an unknown format or detector, no cluster, no output file.
SetupFails ==
  /\ stage = "setup"
  /\ Leave(ExitError)
  /\ UNCHANGED <<pipeVars, strm, errCnt>>

\* Whatever stream t would still have sent is lost.
Dropped(t) == P!StreamEnds(t) \/ (left[t] = <<>> /\ UNCHANGED pipeVars)

\* A container of a running pod in a namespace that is listed.
Find(t) ==
  /\ stage = "start"
  /\ strm[t] = "unlisted"
  /\ InScope(t) /\ t \in running
  /\ strm' = [strm EXCEPT ![t] = "wait"]
  /\ UNCHANGED <<pipeVars, stage, errCnt, exit>>

\* A container of another namespace, or of a pod that is not running.
Skip(t) ==
  /\ stage = "start"
  /\ strm[t] = "unlisted"
  /\ ~InScope(t) \/ t \notin running
  /\ strm' = [strm EXCEPT ![t] = "skipped"]
  /\ Dropped(t)
  /\ UNCHANGED <<stage, errCnt, exit>>

\* A list fails: run returns ExitError.
DiscoveryFails ==
  /\ stage = "start"
  /\ Leave(ExitError)
  /\ UNCHANGED <<pipeVars, strm, errCnt>>

\* All pods are listed; with no target the process leaves at once.
Listed ==
  /\ stage = "start"
  /\ \A t \in Targets : strm[t] # "unlisted"
  /\ IF targets = {} THEN Leave(ExitClean)
                     ELSE stage' = "scan" /\ UNCHANGED exit
  /\ UNCHANGED <<pipeVars, strm, errCnt>>

-----------------------------------------------------------------------------
(* streamAll and its goroutines.                                           *)

\* Mutant of InFlight: a stream that has ended keeps its place.
NeverReleased == {t \in Targets : strm[t] \notin {"unlisted", "skipped", "wait"}}

InFlight == {t \in Targets : strm[t] \in {"opening", "open"}}
Limit == IF MaxStreams < 1 THEN 50 ELSE MaxStreams

\* g.Go: the group has room.
Launch(t) ==
  /\ stage = "scan"
  /\ strm[t] = "wait"
  /\ Cardinality(InFlight) < Limit
  /\ strm' = [strm EXCEPT ![t] = "opening"]
  /\ UNCHANGED <<pipeVars, stage, errCnt, exit>>

\* The request succeeds.
Open(t) ==
  /\ strm[t] = "opening"
  /\ ~cancelled
  /\ strm' = [strm EXCEPT ![t] = "open"]
  /\ UNCHANGED <<pipeVars, stage, errCnt, exit>>

\* Mutant of Fails: the error is not counted.
FailsUncounted(t) == /\ strm' = [strm EXCEPT ![t] = "err"]
                     /\ UNCHANGED <<stage, errCnt, exit>>

\* streamOne returns an error.
Fails(t) == /\ strm' = [strm EXCEPT ![t] = "err"]
            /\ errCnt' = errCnt + 1
            /\ UNCHANGED <<stage, exit>>

\* The request fails, as it always does when ctx is done.
OpenFails(t) ==
  /\ strm[t] = "opening"
  /\ Dropped(t)
  /\ Fails(t)

\* A line goes to the channel.
StreamLine(t) ==
  /\ strm[t] = "open"
  /\ P!Send(t)
  /\ UNCHANGED <<stage, strm, errCnt, exit>>

\* The scanner fails: a broken connection, a line that is too long, or the
\* read of a stream whose context is done.
ScanFails(t) ==
  /\ strm[t] = "open"
  /\ Dropped(t)
  /\ Fails(t)

\* streamOne returns nil: all is read, or it noticed that ctx is done.
StreamDone(t) ==
  /\ strm[t] = "open"
  /\ P!SendCancelled(t) \/ (left[t] = <<>> /\ UNCHANGED pipeVars)
  /\ strm' = [strm EXCEPT ![t] = "nil"]
  /\ UNCHANGED <<stage, errCnt, exit>>

\* Mutant of AllReturned: streams that wait for the limit are forgotten.
NoneInFlight == InFlight = {}

\* g.Wait has returned: StreamAll does too, and the channel is closed.
AllReturned == \A t \in targets : strm[t] \in {"nil", "err"}

\* Mutant of CloseLines: the first error closes the channel.
CloseOnError ==
  /\ stage = "scan"
  /\ errCnt > 0
  /\ ~closed
  /\ closed' = TRUE
  /\ UNCHANGED <<round, left, chan, cancelled, worker, line, idx, dedupe,
                 total, emitted, taken, done, stage, strm, errCnt, exit>>

CloseLines ==
  /\ stage = "scan"
  /\ AllReturned
  /\ P!Close
  /\ UNCHANGED <<stage, strm, errCnt, exit>>

-----------------------------------------------------------------------------
Work(w) == /\ stage = "scan"
           /\ P!WorkerStep(w)
           /\ UNCHANGED <<stage, strm, errCnt, exit>>

Signal == /\ stage # "exit"
          /\ P!Cancel
          /\ UNCHANGED <<stage, strm, errCnt, exit>>

\* Mutant of Finish: findings hide the streams that failed.
FinishFindingsFirst ==
  /\ stage = "scan"
  /\ P!RunEnds
  /\ Leave(IF total > 0 THEN ExitFindings
           ELSE IF errCnt > 0 THEN ExitPartial ELSE ExitClean)
  /\ UNCHANGED <<pipeVars, strm, errCnt>>

\* Mutant of Finish: the count of findings does not reach the exit code.
FinishUncounted ==
  /\ stage = "scan"
  /\ P!RunEnds
  /\ Leave(IF errCnt > 0 THEN ExitPartial ELSE ExitClean)
  /\ UNCHANGED <<pipeVars, strm, errCnt>>

\* Run has returned and the number of errors has arrived.
Finish ==
  /\ stage = "scan"
  /\ P!RunEnds
  /\ Leave(IF errCnt > 0 THEN ExitPartial
           ELSE IF total > 0 THEN ExitFindings ELSE ExitClean)
  /\ UNCHANGED <<pipeVars, strm, errCnt>>

MainStep == SetUp \/ SetupFails \/ Listed \/ CloseLines \/ Finish
StreamStep(t) == \/ Find(t) \/ Skip(t) \/ Launch(t) \/ Open(t) \/ OpenFails(t)
                 \/ StreamLine(t) \/ StreamDone(t)

Next == /\ \/ MainStep \/ DiscoveryFails \/ Signal
           \/ \E t \in Targets : StreamStep(t) \/ ScanFails(t)
           \/ \E w \in Workers : Work(w)
        /\ UNCHANGED world

Spec == Init /\ [][Next]_vars

\* Requests are answered, goroutines run when they can.
FairSpec == /\ Spec
            /\ WF_vars(MainStep /\ UNCHANGED world)
            /\ \A t \in Targets : WF_vars(StreamStep(t) /\ UNCHANGED world)
            /\ \A w \in Workers : WF_vars(Work(w) /\ UNCHANGED world)

-----------------------------------------------------------------------------
TypeOK ==
  /\ P!TypeOK
  /\ stage \in {"setup", "start", "scan", "exit"}
  /\ strm \in [Targets -> {"unlisted", "skipped", "wait", "opening",
                           "open", "nil", "err"}]
  /\ errCnt = Cardinality({t \in Targets : strm[t] = "err"})
  /\ exit \in {NoCode, ExitClean, ExitFindings, ExitError, ExitPartial}

(* The channel is closed when no goroutine can still send on it, which     *)
(* would panic; not even one that waits for its turn under the limit.      *)
NoSendOnClosed ==
  closed => \A t \in Targets : strm[t] \in {"skipped", "nil", "err"}

\* What the flags are documented to ask for.
Wanted(t) ==
  \/ flags.all
  \/ NamespaceOf[t] \in flags.namespaces
  \/ flags.namespaces = {} /\ NamespaceOf[t] = flags.context

(* The exit code is true of a scan that no signal interrupts: 0 and 1 say  *)
(* that every line of every running container asked for was inspected, and *)
(* of no other, 1 that a secret was given to the sink and 0 that none was; *)
(* 3 says that a stream failed.                                            *)
ExitCodeIsTrue ==
  stage = "exit" /\ exit # ExitError /\ ~cancelled =>
    /\ exit = ExitPartial <=> \E t \in targets : strm[t] = "err"
    /\ exit # ExitPartial =>
         LET lines == UNION {{LinesOf[t][i] : i \in DOMAIN LinesOf[t]} :
                               t \in {t \in running : Wanted(t)}}
         IN  /\ done = lines
             /\ UNION {P!Keys(l) : l \in lines} = P!Reported
             /\ exit = ExitFindings <=> emitted # <<>>

(* The scan ends, whatever the limit, the capacity of the channel and the  *)
(* moment of a signal.                                                     *)
ScanEnds == <>(stage = "exit")

(* The scan is one Run of the pipeline.                                    *)
ImplementsPipeline == P!Spec
=============================================================================
