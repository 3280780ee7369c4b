----------------------------- MODULE Detection -----------------------------
(***************************************************************************)
(* What the detectors make of one text (internal/detect/betterleaks and    *)
(* internal/detect/trufflehog) and what the pipeline makes of a match      *)
(* (processLine, internal/report/redact.go).  The engines behind the       *)
(* adapters are external: a rule recognises one secret wherever it occurs. *)
(* A text is a sequence of characters; those of an encoding are their own. *)
(***************************************************************************)
EXTENDS Integers, Sequences, FiniteSets

CONSTANTS
  Chars,                \* the characters of texts
  BetterleaksRules,     \* [id, secret]
  TrufflehogDetectors,  \* [type, secret, field, fails]: the field of a Result
                        \* that holds the secret; whether FromData fails
  Decoders              \* functions from encoded characters to plain ones

\* What Mask adds to the ends of a secret: the word, the ellipsis, and its
\* length in parentheses, of which it only matters that it stands there.
MaskChars == {"REDACTED", "...", "(n)"}

\* No secret is empty.  One that has the mask's own characters may come to
\* stand in what RedactSpan returns: its mask shows it, or ends as it begins.
ASSUME DetectionAssumption ==
  /\ \A r \in BetterleaksRules : r.secret \in Seq(Chars \ MaskChars) \ {<<>>}
  /\ \A d \in TrufflehogDetectors : d.secret \in Seq(Chars \ MaskChars) \ {<<>>}

IsAt(v, text, i) ==
  i + Len(v) - 1 <= Len(text) /\ \A k \in DOMAIN v : text[i + k - 1] = v[k]

Occurs(v, text) == \E i \in DOMAIN text : IsAt(v, text, i)

-----------------------------------------------------------------------------
(* betterleaks: the context is the span its rule matched, at most the text.*)

BetterleaksInspect(text) ==
  {[detector |-> "betterleaks", rule |-> r.id, value |-> r.secret, context |-> text] :
     r \in {r \in BetterleaksRules : Occurs(r.secret, text)}}

-----------------------------------------------------------------------------
(* trufflehog.                                                             *)

ResultFields == {"Raw", "RawV2", "Redacted"}

\* FromData of detector d on a text with its secret.
Result(d) == [f \in ResultFields |-> IF f = d.field THEN d.secret ELSE <<>>]

preferredSecretValue(r) ==
  IF r.Raw # <<>> THEN r.Raw ELSE IF r.RawV2 # <<>> THEN r.RawV2 ELSE r.Redacted

\* The detectors whose keywords the prefilter finds in data.
Candidates(data) == {d \in TrufflehogDetectors : Occurs(d.secret, data)}

MatchesOf(ds) ==
  {m \in {[detector |-> "trufflehog", rule |-> d.type,
           value |-> preferredSecretValue(Result(d)),
           context |-> preferredSecretValue(Result(d))] : d \in ds} : m.value # <<>>}

\* Mutant of scanBytes: a detector that fails ends the scan.
scanBytesPoisoned(data) ==
  IF \E d \in Candidates(data) : d.fails THEN {} ELSE MatchesOf(Candidates(data))

\* A detector that fails does not disturb the others.
scanBytes(data) == MatchesOf({d \in Candidates(data) : ~d.fails})

\* FromChunk: nothing when no character of the text is encoded this way.
Decoded(dec, text) ==
  IF \E i \in DOMAIN text : text[i] \in DOMAIN dec
  THEN [i \in DOMAIN text |-> IF text[i] \in DOMAIN dec THEN dec[text[i]] ELSE text[i]]
  ELSE <<>>

\* The text as it is, and what each decoder makes of it; no decoder is applied
\* to what another one returned.
Passes(text) == {text} \cup {Decoded(dec, text) : dec \in Decoders}
TrufflehogInspect(text) == UNION {scanBytes(data) : data \in Passes(text)}

-----------------------------------------------------------------------------
(* The pipeline.                                                           *)

Inspect(text) == BetterleaksInspect(text) \cup TrufflehogInspect(text)

\* Mutant of Mask: nothing stands behind the end of the secret.
MaskOpenEnd(v) ==
  IF v = <<>> THEN <<>>
  ELSE IF Len(v) <= 6 THEN <<"REDACTED">>
  ELSE SubSeq(v, 1, 4) \o <<"...">> \o SubSeq(v, Len(v) - 1, Len(v))

Mask(v) ==
  IF v = <<>> THEN <<>>
  ELSE IF Len(v) <= 6 THEN <<"REDACTED", "(n)">>
  ELSE SubSeq(v, 1, 4) \o <<"...">> \o SubSeq(v, Len(v) - 1, Len(v)) \o <<"(n)">>

\* Mutant of RedactSpan: the first occurrence only.
RedactFirst(text, v) ==
  IF v = <<>> \/ ~Occurs(v, text) THEN text
  ELSE LET i == CHOOSE i \in DOMAIN text :
                  IsAt(v, text, i) /\ \A j \in 1 .. i - 1 : ~IsAt(v, text, j)
       IN  SubSeq(text, 1, i - 1) \o Mask(v) \o SubSeq(text, i + Len(v), Len(text))

\* strings.ReplaceAll, from left to right.
RedactSpan(text, v) ==
  LET from[i \in 1 .. Len(text) + 1] ==
        IF i = Len(text) + 1 THEN <<>>
        ELSE IF IsAt(v, text, i) THEN Mask(v) \o from[i + Len(v)]
        ELSE <<text[i]>> \o from[i + 1]
  IN  IF v = <<>> \/ text = <<>> THEN text ELSE from[1]

\* processLine with --redacted.
Finding(m, lineNo) ==
  [detector |-> m.detector, rule |-> m.rule, valueSHA256 |-> m.value,
   lineNo |-> lineNo, match |-> Mask(m.value),
   context |-> RedactSpan(m.context, m.value)]

DedupeKey(f) == <<f.detector, f.rule, f.valueSHA256>>
=============================================================================
