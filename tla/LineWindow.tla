----------------------------- MODULE LineWindow -----------------------------
(***************************************************************************)
(* The per-stream window of recent lines (internal/kube/window.go) whose   *)
(* concatenation is scanned as well, so that a secret split over adjacent  *)
(* lines is found.  A line is what the window can tell apart: its number   *)
(* in the stream and its length in bytes.                                  *)
(***************************************************************************)
EXTENDS Integers, SequencesExt

newLineWindow(capLines, capBytes) ==
  [capLines |-> IF capLines < 2 THEN 2 ELSE capLines,
   capBytes |-> IF capBytes < 1 THEN 1 ELSE capBytes,
   bytes    |-> 0,
   entries  |-> <<>>]

DropOldest(w) == [w EXCEPT !.bytes = @ - Head(w.entries).len,
                           !.entries = Tail(@)]

\* Mutant of TooManyLines: one line too few is kept.
TooManyLinesByOne(w) == Len(w.entries) >= w.capLines

TooManyLines(w) == Len(w.entries) > w.capLines
TooManyBytes(w) == w.bytes > w.capBytes /\ Len(w.entries) > 1

\* The two loops of push: no more rounds than there are entries.
EvictLines(w) ==
  FoldLeft(LAMBDA v, e : IF TooManyLines(v) THEN DropOldest(v) ELSE v, w, w.entries)
EvictBytes(w) ==
  FoldLeft(LAMBDA v, e : IF TooManyBytes(v) THEN DropOldest(v) ELSE v, w, w.entries)

push(w, e) ==
  EvictBytes(EvictLines([w EXCEPT !.entries = Append(@, e), !.bytes = @ + e.len]))

\* Mutant of joinedOk: two lines are not enough.
joinedOkLate(w) == Len(w.entries) > 2

\* joined(): is there a joined view, which lines does it concatenate, and which
\* of them is it said to be?
joinedOk(w) == Len(w.entries) >= 2
joinedLines(w) == [i \in DOMAIN w.entries |-> w.entries[i].lineNo]
lastLineNo(w) == Last(w.entries).lineNo
=============================================================================
