---------------------------- MODULE FollowStream ----------------------------
(***************************************************************************)
(* What one target's log loses and repeats on its way to the pipeline      *)
(* (internal/kube/streamer.go, window.go and the watermark of rotator.go): *)
(* a container appends lines to its log; the initial sweep reads it once,  *)
(* then a stream is opened to it in each cycle, for one window, and is cut *)
(* anywhere.  All that is kept between two streams is the watermark.       *)
(*                                                                         *)
(* Time is counted in ticks, TPS of them in a second; the apiserver is     *)
(* asked for whole seconds (metav1.Time is sent as RFC3339).  A tick is    *)
(* the step between two timestamps, a nanosecond in the code.  A line is   *)
(* its position in the log, its time and its length.  The index and the    *)
(* batches are in Rotator.                                                 *)
(***************************************************************************)
EXTENDS LineWindow

CONSTANTS
  TPS,          \* ticks in a second
  MaxTime,      \* the clock stops here (bound)
  MaxLog,       \* lines the container writes (bound)
  LineLens,     \* lengths of the lines it writes
  MaxLine,      \* --max-line-bytes: the scanner refuses longer lines
  WindowBytes,  \* windowCapBytes
  Tears,        \* where a broken connection may cut a line: "stamp", "payload"
  SweepSince,   \* --watch-init-since in ticks, 0 = no sweep
  WatchSince    \* --watch-since in ticks

ASSUME FollowAssumption ==
  /\ TPS \in Nat \ {0}
  /\ MaxTime \in Nat
  /\ MaxLog \in Nat
  /\ LineLens \subseteq Nat
  /\ MaxLine \in Nat
  /\ WindowBytes \in Nat \ {0}
  /\ Tears \subseteq {"stamp", "payload"}
  /\ SweepSince \in Nat
  /\ WatchSince \in Nat

VARIABLES
  log,          \* the container's log
  now,          \* the clock
  mode,         \* "sweep" until the initial sweep is over, then "watch"
  wm,           \* the target's watermark, NoMark when there is none
  stage,        \* the goroutine: off, scan, raw or joined
  pos,          \* the last line the scanner returned
  win,          \* its lineWindow
  cut,          \* the context of the stream is done
  sent,         \* lines that reached the channel (history)
  pairs,        \* i: lines i and i+1 reached it joined (history)
  cuts,         \* lines a stream ended in front of or amid (history)
  base          \* where the last stream without a watermark began (history)

envVars == <<log, now>>
hisVars == <<sent, pairs, cuts, base>>
vars == <<envVars, mode, wm, stage, pos, win, cut, hisVars>>

NoMark == -1

Init ==
  /\ log = <<>>
  /\ now = 0
  /\ mode = IF SweepSince > 0 THEN "sweep" ELSE "watch"
  /\ wm = NoMark
  /\ stage = "off"
  /\ pos = 0
  /\ win = newLineWindow(3, WindowBytes)
  /\ cut = FALSE
  /\ sent = {}
  /\ pairs = {}
  /\ cuts = {}
  /\ base = 1

-----------------------------------------------------------------------------
(* The container and the clock.                                            *)

Tick == /\ now < MaxTime
        /\ now' = now + 1
        /\ UNCHANGED <<log, mode, wm, stage, pos, win, cut, hisVars>>

Write(len) == /\ Len(log) < MaxLog
              /\ log' = Append(log, [ts |-> now, len |-> len])
              /\ UNCHANGED <<now, mode, wm, stage, pos, win, cut, hisVars>>

-----------------------------------------------------------------------------
(* Where a stream begins.                                                  *)

SinceToSeconds(d) == d \div TPS

\* Mutant of SinceTime: the request keeps the fraction of the second.
SinceTimeExact(mark) == mark + 1

\* The time sent as sinceTime: a tick behind the watermark, of which the
\* request keeps the seconds.
SinceTime(mark) == ((mark + 1) \div TPS) * TPS

\* The time the apiserver derives from sinceSeconds; 0 asks for everything.
SinceLookback(d) ==
  IF SinceToSeconds(d) = 0 THEN 0 ELSE now - SinceToSeconds(d) * TPS

Since == IF mode = "sweep" THEN SinceLookback(SweepSince)
         ELSE IF wm # NoMark THEN SinceTime(wm)
         ELSE SinceLookback(WatchSince)

\* The lines in front of the first one at or after Since: the apiserver
\* does not send them.
Skipped(since) == Cardinality({i \in DOMAIN log : log[i].ts < since})

\* The stream opens, with a new window of lines.
Attach ==
  /\ stage = "off"
  /\ stage' = "scan"
  /\ pos' = Skipped(Since)
  /\ win' = newLineWindow(3, WindowBytes)
  /\ cut' = FALSE
  /\ base' = IF wm = NoMark THEN Skipped(Since) + 1 ELSE base
  /\ UNCHANGED <<envVars, mode, wm, sent, pairs, cuts>>

\* The sweep cannot open its stream; for a rotation nothing changes.
SweepOpenFails ==
  /\ stage = "off"
  /\ mode = "sweep"
  /\ mode' = "watch"
  /\ UNCHANGED <<envVars, wm, stage, pos, win, cut, hisVars>>

-----------------------------------------------------------------------------
(* The scan loop.                                                          *)

\* What the sweep noted becomes the watermark of the rotator.
SeedWatermarks == mode' = "watch"

\* The stream returns, in front of line at.
End(at) ==
  /\ stage' = "off"
  /\ SeedWatermarks
  /\ cuts' = cuts \cup {at}
  /\ UNCHANGED <<envVars, pos, win, cut, sent, pairs, base>>

\* Mutant of onLine: the watermark is the instant to resume at.
onLineNext(ts) == wm' = IF ts > wm THEN ts + 1 ELSE wm

onLine(ts) == wm' = IF ts > wm THEN ts ELSE wm

\* Line i does not fit the buffer of the scanner.
TooLong(i) == log[i].len > MaxLine

\* scanner.Scan returns a line: the watermark moves before it is sent.
Read ==
  /\ stage = "scan"
  /\ ~cut
  /\ pos < Len(log)
  /\ ~ TooLong(pos + 1)
  /\ pos' = pos + 1
  /\ onLine(log[pos + 1].ts)
  /\ stage' = "raw"
  /\ UNCHANGED <<envVars, mode, win, cut, hisVars>>

\* bufio.ErrTooLong: the stream ends in an error.
ReadLong ==
  /\ stage = "scan"
  /\ pos < Len(log)
  /\ TooLong(pos + 1)
  /\ UNCHANGED wm
  /\ End(pos + 1)

\* The connection breaks inside a line: the scanner returns the part it has
\* and then the error.  Without a whole timestamp the line counts as now.
ReadTorn(where) ==
  /\ stage = "scan"
  /\ ~cut
  /\ pos < Len(log)
  /\ onLine(IF where = "stamp" THEN now ELSE log[pos + 1].ts)
  /\ End(pos + 1)

\* The stream ends between two lines: the log or the connection is over, the
\* context is done, or reading failed.
StreamEnds ==
  /\ stage = "scan"
  /\ UNCHANGED wm
  /\ End(pos + 1)

\* The window is over.
Expire ==
  /\ mode = "watch"
  /\ stage # "off"
  /\ ~cut
  /\ cut' = TRUE
  /\ UNCHANGED <<envVars, mode, wm, stage, pos, win, hisVars>>

\* sendLine of the line itself; the select may take it when the context is
\* done as well.
SendRaw ==
  /\ stage = "raw"
  /\ sent' = sent \cup {pos}
  /\ win' = push(win, [lineNo |-> pos, len |-> log[pos].len])
  /\ stage' = IF joinedOk(win') THEN "joined" ELSE "scan"
  /\ UNCHANGED <<envVars, mode, wm, pos, cut, pairs, cuts, base>>

\* sendLine of the joined view.
SendJoined ==
  /\ stage = "joined"
  /\ LET lines == ToSet(joinedLines(win))
     IN pairs' = pairs \cup {i \in lines : i + 1 \in lines}
  /\ stage' = "scan"
  /\ UNCHANGED <<envVars, mode, wm, pos, win, cut, sent, cuts, base>>

\* sendLine returns ctx.Err().
SendCancelled ==
  /\ stage \in {"raw", "joined"}
  /\ cut
  /\ UNCHANGED wm
  /\ End(pos)

StreamStep == Attach \/ Read \/ ReadLong \/ StreamEnds \/ SendRaw \/ SendJoined

Next ==
  \/ Tick \/ StreamStep \/ SweepOpenFails \/ Expire \/ SendCancelled
  \/ \E len \in LineLens : Write(len)
  \/ \E where \in Tears : ReadTorn(where)

Spec == Init /\ [][Next]_vars

\* The rotator opens a stream again and again (TurnComes), the scanner
\* returns what has arrived, workers empty the channel.
FairSpec == Spec /\ WF_vars(StreamStep \/ SendCancelled)

-----------------------------------------------------------------------------
\* What a stream that began now would skip.
Resume == Skipped(Since) + 1

TypeOK ==
  /\ log \in Seq([ts : 0 .. MaxTime, len : LineLens])
  /\ Len(log) <= MaxLog
  /\ now \in 0 .. MaxTime
  /\ mode \in {"sweep", "watch"}
  /\ wm \in {NoMark} \cup 0 .. MaxTime
  /\ stage \in {"off", "scan", "raw", "joined"}
  /\ pos \in 0 .. Len(log)
  /\ win.entries \in Seq([lineNo : DOMAIN log, len : LineLens])
  /\ cut \in BOOLEAN
  /\ sent \subseteq DOMAIN log
  /\ pairs \subseteq DOMAIN log
  /\ cuts \subseteq 1 .. MaxLog + 1
  /\ base \in 1 .. MaxLog + 1

\* The tick is the last of its second: just after it is the next second.
SecondEnds(ts) == (ts + 1) % TPS = 0

\* Lines i and i + 1 are too long to be in the window together.
TooWide(i) == log[i].len + log[i + 1].len > WindowBytes

(* No line is lost between two streams but at the end of a second: one the *)
(* next stream will not ask for again has reached the channel, though the  *)
(* watermark moves before a line is sent and the send may be cancelled.    *)
NoGap ==
  stage = "off" /\ wm # NoMark =>
    \A i \in DOMAIN log :
      base <= i /\ i < Resume => i \in sent \/ SecondEnds(log[i].ts)

(* Two adjacent lines that will not be read again have been joined, unless *)
(* a stream ended between them, or behind the first at the end of its      *)
(* second, or the two are longer than the window.                          *)
LostPairWasCut ==
  stage = "off" /\ wm # NoMark =>
    \A i \in DOMAIN log :
      base <= i /\ i + 1 < Resume =>
        i \in pairs \/ i + 1 \in cuts \/ SecondEnds(log[i].ts) \/ TooWide(i)

\* A stream has read whatever it can: it is at the end of the log, or in
\* front of a line that is too long.
CaughtUp == /\ stage = "scan"
            /\ pos = Len(log) \/ TooLong(pos + 1)

\* Line i is in the log, and no line in front of it is too long.
InReach(i) == i \in DOMAIN log /\ \A j \in 1 .. i : ~ TooLong(j)

(* Every line from the first one asked for on reaches the channel, however *)
(* often its stream is cut in front of it, if it is not the end of its     *)
(* second and windows are not always too short to read what has come.      *)
EveryLineIsSent ==
  []<>CaughtUp =>
    \A i \in 1 .. MaxLog :
      (InReach(i) /\ ~ SecondEnds(log[i].ts) /\ i >= base /\ wm # NoMark) ~> (i \in sent)

(* "Lines longer than this are skipped": the lines behind one are scanned. *)
LinesBehindLongAreSent ==
  []<>CaughtUp =>
    \A i \in 1 .. MaxLog :
      (/\ i \in DOMAIN log /\ ~ TooLong(i) /\ ~ SecondEnds(log[i].ts)
       /\ wm # NoMark /\ i >= base) ~> (i \in sent)
=============================================================================
