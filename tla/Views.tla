------------------------------- MODULE Views -------------------------------
(***************************************************************************)
(* From the lines of one stream to its findings: emitWithWindow sends each *)
(* line and the joined view of the window behind it, the workers take the  *)
(* views and inspect them side by side, the dedup set keeps one finding    *)
(* for each secret.  Sending and the steps of a worker are in FollowStream *)
(* and Pipeline; here a view is inspected in one step, but not in order.   *)
(* The specification has names of its own, so that FollowStream, which is  *)
(* about the same window, may be used beside it.                           *)
(***************************************************************************)
EXTENDS LineWindow, Detection

CONSTANTS
  CapLines, CapBytes,   \* arguments of newLineWindow, clamped or not
  Texts,                \* the lines there may be
  MaxLines,             \* lines in the stream (bound)
  Workers,              \* how many views are being inspected at once
  Cap                   \* views in the channel and with the workers

ASSUME ViewsAssumption ==
  CapLines \subseteq Int /\ CapBytes \subseteq Int /\ Texts \subseteq Seq(Chars)

VARIABLES
  window,       \* the window
  stream,       \* the lines so far
  views,        \* views that are not yet inspected
  found         \* the findings

ViewsInit ==
  /\ \E l \in CapLines, b \in CapBytes : window = newLineWindow(l, b)
  /\ stream = <<>>
  /\ views = <<>>
  /\ found = {}

\* The lines i to n of stream s without a separator.
Joined(s, i, n) == FlattenSeq(SubSeq(s, i, n))

JoinedView(s, win) ==
  LET nos == joinedLines(win) IN
  [lineNo |-> lastLineNo(win), text |-> Joined(s, Head(nos), Last(nos))]

emitWithWindow(text) ==
  LET n == Len(stream) + 1 IN
  /\ n <= MaxLines
  /\ Len(views) + 2 <= Cap
  /\ stream' = Append(stream, text)
  /\ window' = push(window, [lineNo |-> n, len |-> Len(text)])
  /\ views' = views \o <<[lineNo |-> n, text |-> text]>>
                    \o (IF joinedOk(window') THEN <<JoinedView(stream', window')>> ELSE <<>>)
  /\ UNCHANGED found

Keys == {DedupeKey(f) : f \in found}

\* One of the workers is through with its view.
processLine(i) ==
  /\ i <= Workers
  /\ i \in DOMAIN views
  /\ LET fs == {Finding(m, views[i].lineNo) : m \in Inspect(views[i].text)}
     IN  found' = found \cup {f \in fs : DedupeKey(f) \notin Keys}
  /\ views' = RemoveAt(views, i)
  /\ UNCHANGED <<window, stream>>

ViewsNext == \/ \E text \in Texts : emitWithWindow(text)
             \/ \E i \in 1 .. Cap : processLine(i)

ViewsSpec == ViewsInit /\ [][ViewsNext]_<<window, stream, views, found>>

-----------------------------------------------------------------------------
Size(i) == Len(Joined(stream, i, Len(stream)))

\* The lines from i on may be together in the window.
Fits(i) == \/ i = Len(stream)
           \/ Len(stream) - i < window.capLines /\ Size(i) <= window.capBytes

(* The incremental eviction (drop the oldest lines while there are too     *)
(* many, then too many bytes by a running count) keeps exactly the longest *)
(* end of the stream that fits both caps, or the last line when it alone   *)
(* is too long, for all caps.                                              *)
HoldsLongestEnd ==
  stream # <<>> =>
    LET first == CHOOSE i \in DOMAIN stream : Fits(i) /\ \A j \in 1 .. i - 1 : ~Fits(j)
    IN  /\ [i \in DOMAIN window.entries |-> window.entries[i].lineNo]
             = [i \in 1 .. Len(stream) - first + 1 |-> first + i - 1]
        /\ window.bytes = Size(first)

\* What an operator would search for secrets: line n, and lines n - 1 and n
\* when the window has room for both.
Searched(n) ==
  {stream[n]} \cup IF n > 1 /\ Len(stream[n-1]) + Len(stream[n]) <= window.capBytes
                   THEN {Joined(stream, n - 1, n)} ELSE {}

\* Some rule that does not fail knows secret v, plainly or through a decoder.
Known(v, n) ==
  {[detector |-> "betterleaks", rule |-> r.id] :
     r \in {r \in BetterleaksRules :
              r.secret = v /\ \E t \in Searched(n) : Occurs(v, t)}}
  \cup
  {[detector |-> "trufflehog", rule |-> d.type] :
     d \in {d \in TrufflehogDetectors :
              /\ d.secret = v /\ ~d.fails /\ d.field \in ResultFields
              /\ \E t \in Searched(n) :
                   \E p \in {t} \cup {Decoded(c, t) : c \in Decoders} : Occurs(v, p)}}

Secrets == {r.secret : r \in BetterleaksRules} \cup {d.secret : d \in TrufflehogDetectors}

(* A secret in one line or split over two, plain or encoded once, is found *)
(* for each rule that knows it, whichever other rule fails; and although   *)
(* workers overtake each other and a secret that is repeated is found      *)
(* once, the line it is reported for is the last of lines that were        *)
(* together in the window and have it.                                     *)
SecretsAreFound ==
  views = <<>> =>
    \A n \in DOMAIN stream, v \in Secrets : \A k \in Known(v, n) :
      \E f \in found :
        /\ DedupeKey(f) = <<k.detector, k.rule, v>>
        /\ \E j \in 1 .. f.lineNo :
             /\ f.lineNo - j < window.capLines
             /\ \E p \in Passes(Joined(stream, j, f.lineNo)) : Occurs(v, p)

(* With --redacted no finding shows its secret, neither as the match nor   *)
(* anywhere in the context, in which it may stand several times.           *)
NoSecretLeft ==
  \A f \in found : ~Occurs(f.valueSHA256, f.match) /\ ~Occurs(f.valueSHA256, f.context)
=============================================================================
