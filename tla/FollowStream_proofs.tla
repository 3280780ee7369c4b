------------------------ MODULE FollowStream_proofs ------------------------
(***************************************************************************)
(* Proofs about one target's log and what is found in it.                  *)
(*   - push keeps the longest end of a stream that fits the window, for    *)
(*     all caps and lengths of lines;                                      *)
(*   - which lines and pairs of lines may be lost between two streams, for *)
(*     any log, clock, lookback and place where streams are cut            *)
(*     (FollowStream);                                                     *)
(*   - the window of Views holds the longest end of its stream that fits;  *)
(*   - no finding shows its secret: RedactSpan leaves no occurrence of it, *)
(*     and the mask is not, and does not complete, one;                    *)
(*   - a secret in one line or over two is found, for any lines, rules,    *)
(*     decoders and order of the workers.                                  *)
(* The last three stand on the lemmas about push and are therefore here.   *)
(***************************************************************************)
EXTENDS FollowStream, Views, FiniteSetTheorems, NaturalsInduction, SequenceTheorems, TLAPS

(* Induction over the natural numbers, for a set instead of a predicate.   *)
LEMMA SetInduction ==
  ASSUME NEW T, T \subseteq Nat, 0 \in T, \A n \in T : n + 1 \in T
  PROVE  T = Nat
<1> DEFINE R == OpToRel(<, Nat)
           D == Nat \ T
<1>1. IsWellFoundedOn(R, Nat)
  BY NatLessThanWellFounded, Zenon
<1>2. \A x, y \in Nat : <<x, y>> \in R <=> x < y
  BY Zenon DEF OpToRel
<1> HIDE DEF R
<1>3. ASSUME D # {} PROVE FALSE
  <2>1. D \subseteq Nat
    OBVIOUS
  <2> HIDE DEF D
  <2>2. PICK x \in D : \A y \in D : ~ (<<y, x>> \in R)
    BY <1>1, <1>3, <2>1, WFMin, Zenon
  <2>3. \A y \in D : ~(y < x)
    BY <1>2, <2>1, <2>2
  <2> QED BY <2>2, <2>3 DEF D
<1> QED BY <1>3

(* The least element of a set of numbers.                                  *)
LEMMA LeastElement ==
  ASSUME NEW S, S \subseteq Nat, S # {}
  PROVE  \E x \in S : \A y \in S : x <= y
<1> DEFINE T == {n \in Nat : \A y \in S : n <= y}
<1>1. 0 \in T
  OBVIOUS
<1>2. T # Nat
  <2>1. PICK y \in S : TRUE
    OBVIOUS
  <2>2. y + 1 \in Nat /\ ~(y + 1 <= y)
    BY <2>1
  <2> QED BY <2>1, <2>2
<1>3. PICK n \in T : n + 1 \notin T
  <2>1. T \subseteq Nat
    OBVIOUS
  <2> HIDE DEF T
  <2> QED BY <1>1, <1>2, <2>1, SetInduction
<1>4. PICK y \in S : ~(n + 1 <= y)
  BY <1>3
<1>5. y = n
  BY <1>4
<1> QED BY <1>3, <1>5

(* The greatest element of a set of indices.                               *)
LEMMA MaxIsIn ==
  ASSUME NEW n \in Nat, NEW s \in SUBSET (1 .. n), s # {}
  PROVE  Max(s) \in s /\ \A y \in s : Max(s) >= y
<1> DEFINE Q == {k \in Nat : \A u \in SUBSET (1 .. k) :
                   u # {} => \E x \in u : \A y \in u : x >= y}
<1>1. 0 \in Q
  <2>1. 1 .. 0 = {}
    OBVIOUS
  <2> QED BY <2>1
<1>2. ASSUME NEW k \in Q PROVE k + 1 \in Q
  <2> SUFFICES ASSUME NEW u \in SUBSET (1 .. k + 1), u # {}
               PROVE  \E x \in u : \A y \in u : x >= y
    OBVIOUS
  <2>1. CASE k + 1 \in u
    BY <2>1
  <2>2. CASE k + 1 \notin u
    <3>1. u \in SUBSET (1 .. k)
      BY <2>2
    <3> QED BY <3>1
  <2> QED BY <2>1, <2>2
<1>3. Q = Nat
  <2>1. Q \subseteq Nat
    OBVIOUS
  <2> HIDE DEF Q
  <2> QED BY <1>1, <1>2, <2>1, SetInduction
<1>4. \E x \in s : \A y \in s : x >= y
  BY <1>3
<1> QED BY <1>4 DEF Max

(* The greatest number up to k, and the others.                            *)
LEMMA MaxOfInterval ==
  ASSUME NEW k \in Nat \ {0}
  PROVE  Max(1 .. k) = k /\ (1 .. k) \ {k} = 1 .. k - 1
<1>1. 1 .. k \in SUBSET (1 .. k) /\ k \in 1 .. k
  OBVIOUS
<1>2. Max(1 .. k) \in 1 .. k /\ \A y \in 1 .. k : Max(1 .. k) >= y
  BY <1>1, MaxIsIn
<1>3. Max(1 .. k) = k
  BY <1>1, <1>2
<1> QED BY <1>3

(* A set of indices without its greatest element.                          *)
LEMMA WithoutMax ==
  ASSUME NEW n \in Nat, NEW s \in SUBSET (1 .. n)
  PROVE  /\ IsFiniteSet(s) /\ Cardinality(s) \in 0 .. n
         /\ Cardinality(s) = 0 <=> s = {}
         /\ s # {} => /\ s \ {Max(s)} \in SUBSET (1 .. n)
                      /\ Cardinality(s \ {Max(s)}) = Cardinality(s) - 1
<1>1. IsFiniteSet(1 .. n) /\ Cardinality(1 .. n) = n
  BY FS_Interval
<1>2. IsFiniteSet(s) /\ Cardinality(s) <= n
  BY <1>1, FS_Subset
<1>3. Cardinality(s) \in Nat
  BY <1>2, FS_CardinalityType
<1>4. Cardinality(s) = 0 <=> s = {}
  BY <1>2, FS_EmptySet
<1>5. s # {} => Cardinality(s \ {Max(s)}) = Cardinality(s) - 1
  <2>1. s # {} => Max(s) \in s
    BY MaxIsIn
  <2> QED BY <1>2, <2>1, FS_RemoveElement, Zenon
<1>6. s \ {Max(s)} \in SUBSET (1 .. n)
  OBVIOUS
<1>7. Cardinality(s) \in 0 .. n
  BY <1>2, <1>3
<1> QED BY <1>2, <1>4, <1>5, <1>6, <1>7, Zenon

-----------------------------------------------------------------------------
(* The loops of push.                                                      *)

(* The first loop of push stops at the first window v[d] that has not too  *)
(* many lines, when v[k + 1] is v[k] without its oldest line.              *)
LEMMA EvictLinesStops ==
  ASSUME NEW n \in Nat, NEW d \in 0 .. n, NEW v, DOMAIN v[0].entries = 1 .. n,
         \A k \in 0 .. d - 1 : TooManyLines(v[k]) /\ v[k + 1] = DropOldest(v[k]),
         ~ TooManyLines(v[d])
  PROVE  EvictLines(v[0]) = v[d]
<1> DEFINE D == SUBSET (1 .. n)
           Loop(u) == IF TooManyLines(u) THEN DropOldest(u) ELSE u
           F(g) == [s \in D |-> IF s = {} THEN v[0] ELSE Loop(g[s \ {Max(s)}])]
           after(k) == v[IF k <= d THEN k ELSE d]
           h == [s \in D |-> after(Cardinality(s))]
<1>1. EvictLines(v[0]) = (CHOOSE g : g = F(g))[1 .. n]
  BY Zenon DEF EvictLines, FoldLeft, MapThenFoldSet
<1>2. \A k \in 1 .. n : Loop(after(k - 1)) = after(k)
  <2> SUFFICES ASSUME NEW k \in 1 .. n PROVE Loop(after(k - 1)) = after(k)
    OBVIOUS
  <2>1. CASE k <= d
    <3>1. k - 1 \in 0 .. d - 1 /\ (k - 1) + 1 = k
      BY <2>1
    <3>2. TooManyLines(v[k - 1]) /\ v[k] = DropOldest(v[k - 1])
      BY <3>1
    <3> QED BY <2>1, <3>1, <3>2
  <2>2. CASE ~(k <= d)
    BY <2>2
  <2> QED BY <2>1, <2>2
<1> HIDE DEF Loop, after
<1>3. h = F(h)
  <2> SUFFICES ASSUME NEW s \in D
               PROVE  after(Cardinality(s)) = IF s = {} THEN v[0] ELSE Loop(h[s \ {Max(s)}])
    OBVIOUS
  <2>1. CASE s = {}
    <3>1. Cardinality(s) = 0
      BY <2>1, WithoutMax
    <3> QED BY <2>1, <3>1 DEF after
  <2>2. CASE s # {}
    <3>1. /\ s \ {Max(s)} \in D /\ Cardinality(s) \in 1 .. n
          /\ Cardinality(s \ {Max(s)}) = Cardinality(s) - 1
      <4>1. /\ s \ {Max(s)} \in D /\ Cardinality(s) \in 0 .. n /\ Cardinality(s) # 0
            /\ Cardinality(s \ {Max(s)}) = Cardinality(s) - 1
        BY <2>2, WithoutMax, Zenon
      <4> QED BY <4>1
    <3>2. h[s \ {Max(s)}] = after(Cardinality(s) - 1)
      BY <3>1
    <3> QED BY <1>2, <2>2, <3>1, <3>2
  <2> QED BY <2>1, <2>2
<1>4. PICK g : g = (CHOOSE f : f = F(f))
  OBVIOUS
<1>5. g = F(g)
  BY <1>3, <1>4, Zenon
<1> DEFINE Q == {k \in Nat : k <= n => g[1 .. k] = after(k)}
<1>6. 0 \in Q
  BY <1>5 DEF after
<1>7. ASSUME NEW k \in Q PROVE k + 1 \in Q
  <2> SUFFICES ASSUME k + 1 <= n PROVE g[1 .. k + 1] = after(k + 1)
    OBVIOUS
  <2>1. g[1 .. k] = after(k) /\ k \in Nat
    OBVIOUS
  <2>2. Max(1 .. k + 1) = k + 1 /\ (1 .. k + 1) \ {k + 1} = 1 .. k
    BY MaxOfInterval
  <2>3. 1 .. k + 1 \in D /\ 1 .. k + 1 # {}
    <3>1. k + 1 \in 1 .. k + 1 /\ \A i \in 1 .. k + 1 : i \in 1 .. n
      BY <2>1
    <3> QED BY <3>1
  <2>4. g[1 .. k + 1] = Loop(g[(1 .. k + 1) \ {Max(1 .. k + 1)}])
    BY <1>5, <2>3
  <2>5. Loop(after(k)) = after(k + 1)
    <3>1. k + 1 \in 1 .. n /\ (k + 1) - 1 = k
      BY <2>1
    <3> QED BY <1>2, <3>1
  <2> QED BY <2>1, <2>2, <2>4, <2>5
<1>8. Q = Nat
  <2>1. Q \subseteq Nat
    OBVIOUS
  <2> HIDE DEF Q
  <2> QED BY <1>6, <1>7, <2>1, SetInduction
<1>9. g[1 .. n] = after(n)
  BY <1>8
<1> QED BY <1>1, <1>4, <1>9 DEF after

(* The second loop likewise.                                               *)
LEMMA EvictBytesStops ==
  ASSUME NEW n \in Nat, NEW d \in 0 .. n, NEW v, DOMAIN v[0].entries = 1 .. n,
         \A k \in 0 .. d - 1 : TooManyBytes(v[k]) /\ v[k + 1] = DropOldest(v[k]),
         ~ TooManyBytes(v[d])
  PROVE  EvictBytes(v[0]) = v[d]
<1> DEFINE D == SUBSET (1 .. n)
           Loop(u) == IF TooManyBytes(u) THEN DropOldest(u) ELSE u
           F(g) == [s \in D |-> IF s = {} THEN v[0] ELSE Loop(g[s \ {Max(s)}])]
           after(k) == v[IF k <= d THEN k ELSE d]
           h == [s \in D |-> after(Cardinality(s))]
<1>1. EvictBytes(v[0]) = (CHOOSE g : g = F(g))[1 .. n]
  BY Zenon DEF EvictBytes, FoldLeft, MapThenFoldSet
<1>2. \A k \in 1 .. n : Loop(after(k - 1)) = after(k)
  <2> SUFFICES ASSUME NEW k \in 1 .. n PROVE Loop(after(k - 1)) = after(k)
    OBVIOUS
  <2>1. CASE k <= d
    <3>1. k - 1 \in 0 .. d - 1 /\ (k - 1) + 1 = k
      BY <2>1
    <3>2. TooManyBytes(v[k - 1]) /\ v[k] = DropOldest(v[k - 1])
      BY <3>1
    <3> QED BY <2>1, <3>1, <3>2
  <2>2. CASE ~(k <= d)
    BY <2>2
  <2> QED BY <2>1, <2>2
<1> HIDE DEF Loop, after
<1>3. h = F(h)
  <2> SUFFICES ASSUME NEW s \in D
               PROVE  after(Cardinality(s)) = IF s = {} THEN v[0] ELSE Loop(h[s \ {Max(s)}])
    OBVIOUS
  <2>1. CASE s = {}
    <3>1. Cardinality(s) = 0
      BY <2>1, WithoutMax
    <3> QED BY <2>1, <3>1 DEF after
  <2>2. CASE s # {}
    <3>1. /\ s \ {Max(s)} \in D /\ Cardinality(s) \in 1 .. n
          /\ Cardinality(s \ {Max(s)}) = Cardinality(s) - 1
      <4>1. /\ s \ {Max(s)} \in D /\ Cardinality(s) \in 0 .. n /\ Cardinality(s) # 0
            /\ Cardinality(s \ {Max(s)}) = Cardinality(s) - 1
        BY <2>2, WithoutMax, Zenon
      <4> QED BY <4>1
    <3>2. h[s \ {Max(s)}] = after(Cardinality(s) - 1)
      BY <3>1
    <3> QED BY <1>2, <2>2, <3>1, <3>2
  <2> QED BY <2>1, <2>2
<1>4. PICK g : g = (CHOOSE f : f = F(f))
  OBVIOUS
<1>5. g = F(g)
  BY <1>3, <1>4, Zenon
<1> DEFINE Q == {k \in Nat : k <= n => g[1 .. k] = after(k)}
<1>6. 0 \in Q
  BY <1>5 DEF after
<1>7. ASSUME NEW k \in Q PROVE k + 1 \in Q
  <2> SUFFICES ASSUME k + 1 <= n PROVE g[1 .. k + 1] = after(k + 1)
    OBVIOUS
  <2>1. g[1 .. k] = after(k) /\ k \in Nat
    OBVIOUS
  <2>2. Max(1 .. k + 1) = k + 1 /\ (1 .. k + 1) \ {k + 1} = 1 .. k
    BY MaxOfInterval
  <2>3. 1 .. k + 1 \in D /\ 1 .. k + 1 # {}
    <3>1. k + 1 \in 1 .. k + 1 /\ \A i \in 1 .. k + 1 : i \in 1 .. n
      BY <2>1
    <3> QED BY <3>1
  <2>4. g[1 .. k + 1] = Loop(g[(1 .. k + 1) \ {Max(1 .. k + 1)}])
    BY <1>5, <2>3
  <2>5. Loop(after(k)) = after(k + 1)
    <3>1. k + 1 \in 1 .. n /\ (k + 1) - 1 = k
      BY <2>1
    <3> QED BY <1>2, <3>1
  <2> QED BY <2>1, <2>2, <2>4, <2>5
<1>8. Q = Nat
  <2>1. Q \subseteq Nat
    OBVIOUS
  <2> HIDE DEF Q
  <2> QED BY <1>6, <1>7, <2>1, SetInduction
<1>9. g[1 .. n] = after(n)
  BY <1>8
<1> QED BY <1>1, <1>4, <1>9 DEF after

\* Of a stream, c[n] is the length of its first n lines together.
Lengths(c) == c \in [Nat -> Nat] /\ \A i, j \in Nat : i <= j => c[i] <= c[j]

\* Line n of a stream whose first n lines are c[n] bytes long.
Line(c, n) == [lineNo |-> n, len |-> c[n] - c[n - 1]]

\* Its lines from f to n, and a window of them.
Entries(c, f, n) == [k \in 1 .. n - f + 1 |-> Line(c, f + k - 1)]
Contents(cl, cb, y, es) == [capLines |-> cl, capBytes |-> cb, bytes |-> y, entries |-> es]
Window(cl, cb, c, f, n) == Contents(cl, cb, c[n] - c[f - 1], Entries(c, f, n))

\* The lines from i to n may be together in the window.
FitsIn(cl, cb, c, i, n) == \/ i = n
                           \/ n - i < cl /\ c[n] - c[i - 1] <= cb

(* The entries of such a window, as a sequence of lines.                   *)
AllLines(c) == {Line(c, i) : i \in Nat}

(* Entries is the sequence of these lines.                                 *)
LEMMA EntriesAre ==
  ASSUME NEW c, NEW m \in Nat, NEW i \in 1 .. m + 1
  PROVE  /\ Entries(c, i, m) \in Seq(AllLines(c)) /\ Len(Entries(c, i, m)) = m - i + 1
         /\ DOMAIN Entries(c, i, m) = 1 .. m - i + 1
         /\ \A k \in 1 .. m - i + 1 : Entries(c, i, m)[k] = Line(c, i + k - 1)
<1>1. \A k \in 1 .. m - i + 1 : i + k - 1 \in Nat
  OBVIOUS
<1>2. m - i + 1 \in Nat /\ \A k \in 1 .. m - i + 1 : Line(c, i + k - 1) \in AllLines(c)
  BY <1>1 DEF AllLines
<1> QED BY <1>2 DEF Entries

(* They without the first, and with the next.                              *)
LEMMA EntriesSteps ==
  ASSUME NEW c, NEW n \in Nat, NEW f \in 1 .. n + 1
  PROVE  /\ DOMAIN Entries(c, f, n) = 1 .. n - f + 1
         /\ Len(Entries(c, f, n)) = n - f + 1
         /\ f <= n => /\ Head(Entries(c, f, n)) = Line(c, f)
                      /\ Tail(Entries(c, f, n)) = Entries(c, f + 1, n)
         /\ Append(Entries(c, f, n), Line(c, n + 1)) = Entries(c, f, n + 1)
<1>0. PICK x, z, S : x = Entries(c, f, n) /\ z = Line(c, n + 1) /\ S = AllLines(c)
  OBVIOUS
<1>1. /\ x \in Seq(S) /\ Len(x) = n - f + 1
      /\ \A k \in 1 .. n - f + 1 : x[k] = Line(c, f + k - 1)
  BY <1>0, EntriesAre
<1>2. ASSUME f <= n PROVE Head(x) = Line(c, f) /\ Tail(x) = Entries(c, f + 1, n)
  <2>1. PICK y : y = Entries(c, f + 1, n)
    OBVIOUS
  <2>2. f + 1 \in 1 .. n + 1 /\ n - (f + 1) + 1 = n - f
        /\ \A k \in 1 .. n - f : (f + 1) + k - 1 = f + k
    BY <1>2
  <2>3. /\ y \in Seq(S) /\ Len(y) = n - f /\ \A k \in 1 .. n - f : y[k] = Line(c, f + k)
    <3>1. PICK i : i = f + 1
      OBVIOUS
    <3>2. i \in 1 .. n + 1 /\ y = Entries(c, i, n)
      BY <2>1, <2>2, <3>1
    <3>3. /\ y \in Seq(S) /\ Len(y) = n - i + 1
          /\ \A k \in 1 .. n - i + 1 : y[k] = Line(c, i + k - 1)
      BY <1>0, <3>2, EntriesAre
    <3> QED BY <2>2, <3>1, <3>3
  <2>4. x[1] = Line(c, f)
    BY <1>1, <1>2
  <2>5. Head(x) = Line(c, f)
    BY <1>1, <1>2, <2>4
  <2>6. /\ Tail(x) \in Seq(S) /\ Len(Tail(x)) = n - f
        /\ \A k \in 1 .. n - f : Tail(x)[k] = x[k + 1]
    BY <1>1, <1>2
  <2>7. \A k \in 1 .. n - f : k + 1 \in 1 .. n - f + 1 /\ f + (k + 1) - 1 = f + k
    OBVIOUS
  <2>8. \A k \in 1 .. n - f : Tail(x)[k] = y[k]
    BY <1>1, <2>3, <2>6, <2>7
  <2>9. Tail(x) = y
    BY <2>3, <2>6, <2>8
  <2> QED BY <2>1, <2>5, <2>9
<1>3. Append(x, z) = Entries(c, f, n + 1)
  <2>1. PICK y : y = Entries(c, f, n + 1)
    OBVIOUS
  <2>2. /\ f \in 1 .. (n + 1) + 1 /\ (n + 1) - f + 1 = n - f + 2 /\ f + (n - f + 2) - 1 = n + 1
        /\ n + 1 \in Nat /\ n - f + 2 \in Nat \ {0}
    OBVIOUS
  <2>3. /\ y \in Seq(S) /\ Len(y) = n - f + 2
        /\ \A k \in 1 .. n - f + 2 : y[k] = Line(c, f + k - 1)
    <3>1. PICK m : m = n + 1
      OBVIOUS
    <3>2. m \in Nat /\ f \in 1 .. m + 1 /\ y = Entries(c, f, m)
      BY <2>1, <2>2, <3>1
    <3>3. /\ y \in Seq(S) /\ Len(y) = m - f + 1
          /\ \A k \in 1 .. m - f + 1 : y[k] = Line(c, f + k - 1)
      BY <1>0, <3>2, EntriesAre
    <3> QED BY <2>2, <3>1, <3>3
  <2>4. z \in S
    BY <1>0, <2>2 DEF AllLines
  <2>5. /\ Append(x, z) \in Seq(S) /\ Len(Append(x, z)) = n - f + 2
        /\ \A k \in 1 .. n - f + 1 : Append(x, z)[k] = x[k]
        /\ Append(x, z)[n - f + 2] = z
    BY <1>1, <2>4
  <2>6. \A k \in 1 .. n - f + 2 : k \in 1 .. n - f + 1 \/ k = n - f + 2
    OBVIOUS
  <2>7. y[n - f + 2] = z
    BY <1>0, <2>2, <2>3
  <2>8. \A k \in 1 .. n - f + 2 : Append(x, z)[k] = y[k]
    BY <1>1, <2>3, <2>5, <2>6, <2>7
  <2>9. Append(x, z) = y
    BY <2>3, <2>5, <2>8
  <2> QED BY <2>1, <2>9
<1>4. DOMAIN x = 1 .. n - f + 1 /\ Len(x) = n - f + 1
  BY <1>0, EntriesAre
<1> QED BY <1>0, <1>2, <1>3, <1>4, Zenon

(* push without its loops, and one round of a loop.                        *)
WithLine(w, e) == [w EXCEPT !.entries = Append(@, e), !.bytes = @ + e.len]

(* What DropOldest leaves.                                                 *)
LEMMA DroppedContents ==
  ASSUME NEW cl, NEW cb, NEW y, NEW es
  PROVE  DropOldest(Contents(cl, cb, y, es)) = Contents(cl, cb, y - Head(es).len, Tail(es))
<1>0. PICK w, y2, es2 : /\ w = Contents(cl, cb, y, es)
                        /\ y2 = y - Head(es).len /\ es2 = Tail(es)
  OBVIOUS
<1>1. w = [capLines |-> cl, capBytes |-> cb, bytes |-> y, entries |-> es]
  BY <1>0 DEF Contents
<1>2. w.bytes = y /\ w.entries = es
  BY <1>1
<1>3. DropOldest(w) = [w EXCEPT !.bytes = y2, !.entries = es2]
  BY <1>0, <1>2, Zenon DEF DropOldest
<1>4. PICK u : u = [w EXCEPT !.bytes = y2]
  OBVIOUS
<1>5. DropOldest(w) = [u EXCEPT !.entries = es2]
  BY <1>3, <1>4, Zenon
<1>6. u = [capLines |-> cl, capBytes |-> cb, bytes |-> y2, entries |-> es]
  BY <1>1, <1>4
<1>7. [u EXCEPT !.entries = es2]
        = [capLines |-> cl, capBytes |-> cb, bytes |-> y2, entries |-> es2]
  BY <1>6
<1> QED BY <1>0, <1>5, <1>7, Zenon DEF Contents

(* What a new line adds.                                                   *)
LEMMA AddedContents ==
  ASSUME NEW cl, NEW cb, NEW y, NEW es, NEW e
  PROVE  WithLine(Contents(cl, cb, y, es), e) = Contents(cl, cb, y + e.len, Append(es, e))
<1>0. PICK w, y2, es2 : /\ w = Contents(cl, cb, y, es)
                        /\ y2 = y + e.len /\ es2 = Append(es, e)
  OBVIOUS
<1>1. w = [capLines |-> cl, capBytes |-> cb, bytes |-> y, entries |-> es]
  BY <1>0 DEF Contents
<1>2. w.bytes = y /\ w.entries = es
  BY <1>1
<1>3. WithLine(w, e) = [w EXCEPT !.entries = es2, !.bytes = y2]
  BY <1>0, <1>2, Zenon DEF WithLine
<1>4. PICK u : u = [w EXCEPT !.entries = es2]
  OBVIOUS
<1>5. WithLine(w, e) = [u EXCEPT !.bytes = y2]
  BY <1>3, <1>4, Zenon
<1>6. u = [capLines |-> cl, capBytes |-> cb, bytes |-> y, entries |-> es2]
  BY <1>1, <1>4
<1>7. [u EXCEPT !.bytes = y2]
        = [capLines |-> cl, capBytes |-> cb, bytes |-> y2, entries |-> es2]
  BY <1>6
<1> QED BY <1>0, <1>5, <1>7, Zenon DEF Contents

(* The limits, told from the parts of a window.                            *)
LEMMA ContentsLimits ==
  ASSUME NEW cl, NEW cb, NEW y, NEW es, NEW w, w = Contents(cl, cb, y, es)
  PROVE  /\ w.entries = es
         /\ (TooManyLines(w) <=> Len(es) > cl)
         /\ (TooManyBytes(w) <=> y > cb /\ Len(es) > 1)
<1>1. w.capLines = cl /\ w.capBytes = cb /\ w.bytes = y /\ w.entries = es
  BY DEF Contents
<1> QED BY <1>1, Zenon DEF TooManyLines, TooManyBytes

(* What the limits, the removal of the oldest line and the new line make   *)
(* of such a window.                                                       *)
LEMMA WindowSteps ==
  ASSUME NEW cl, NEW cb, NEW c, NEW n \in Nat, NEW f \in 1 .. n + 1, NEW w,
         Lengths(c), w = Window(cl, cb, c, f, n)
  PROVE  /\ DOMAIN w.entries = 1 .. n - f + 1
         /\ (TooManyLines(w) <=> n - f + 1 > cl)
         /\ (TooManyBytes(w) <=> c[n] - c[f - 1] > cb /\ n - f + 1 > 1)
         /\ f <= n => DropOldest(w) = Window(cl, cb, c, f + 1, n)
         /\ WithLine(w, Line(c, n + 1)) = Window(cl, cb, c, f, n + 1)
<1>0. PICK es, new, y : /\ es = Entries(c, f, n) /\ new = Line(c, n + 1)
                        /\ y = c[n] - c[f - 1]
  OBVIOUS
<1>1. w = Contents(cl, cb, y, es)
  BY <1>0, Zenon DEF Window
<1>3. /\ DOMAIN es = 1 .. n - f + 1 /\ Len(es) = n - f + 1
      /\ f <= n => Head(es) = Line(c, f) /\ Tail(es) = Entries(c, f + 1, n)
      /\ Append(es, new) = Entries(c, f, n + 1)
  <2>1. DOMAIN Entries(c, f, n) = 1 .. n - f + 1 /\ Len(Entries(c, f, n)) = n - f + 1
    BY EntriesSteps, ZenonT(30)
  <2>2. ASSUME f <= n
        PROVE  Head(Entries(c, f, n)) = Line(c, f) /\ Tail(Entries(c, f, n)) = Entries(c, f + 1, n)
    BY <2>2, EntriesSteps, Zenon
  <2>3. Append(Entries(c, f, n), Line(c, n + 1)) = Entries(c, f, n + 1)
    BY EntriesSteps, Zenon
  <2> QED BY <1>0, <2>1, <2>2, <2>3, Zenon
<1>4. /\ DOMAIN w.entries = 1 .. n - f + 1
      /\ (TooManyLines(w) <=> n - f + 1 > cl)
      /\ (TooManyBytes(w) <=> y > cb /\ n - f + 1 > 1)
  <2>1. /\ w.entries = es
        /\ (TooManyLines(w) <=> Len(es) > cl)
        /\ (TooManyBytes(w) <=> y > cb /\ Len(es) > 1)
    BY <1>1, ContentsLimits
  <2> QED BY <1>3, <2>1
<1>5. /\ Line(c, f).len = c[f] - c[f - 1] /\ new.len = c[n + 1] - c[n]
      /\ c[n] \in Nat /\ c[f] \in Nat /\ c[f - 1] \in Nat /\ c[n + 1] \in Nat
  <2>1. (n + 1) - 1 = n /\ f \in Nat /\ f - 1 \in Nat /\ n + 1 \in Nat
    OBVIOUS
  <2>2. c[n] \in Nat /\ c[f] \in Nat /\ c[f - 1] \in Nat /\ c[n + 1] \in Nat
    BY <2>1 DEF Lengths
  <2> QED BY <1>0, <2>1, <2>2 DEF Line
<1>6. ASSUME f <= n PROVE DropOldest(w) = Window(cl, cb, c, f + 1, n)
  <2>1. DropOldest(w) = Contents(cl, cb, y - Head(es).len, Tail(es))
    <3>1. DropOldest(Contents(cl, cb, y, es)) = Contents(cl, cb, y - Head(es).len, Tail(es))
      BY DroppedContents
    <3> QED BY <1>1, <3>1, Zenon
  <2>2. Head(es) = Line(c, f) /\ Tail(es) = Entries(c, f + 1, n)
    BY <1>3, <1>6
  <2>3. y - Line(c, f).len = c[n] - c[(f + 1) - 1]
    <3>1. (f + 1) - 1 = f
      OBVIOUS
    <3> QED BY <1>0, <1>5, <3>1
  <2> QED BY <2>1, <2>2, <2>3, Zenon DEF Window
<1>7. WithLine(w, new) = Window(cl, cb, c, f, n + 1)
  <2>1. WithLine(w, new) = Contents(cl, cb, y + new.len, Append(es, new))
    <3>1. WithLine(Contents(cl, cb, y, es), new)
            = Contents(cl, cb, y + new.len, Append(es, new))
      BY AddedContents
    <3> QED BY <1>1, <3>1, Zenon
  <2>2. y + new.len = c[n + 1] - c[f - 1]
    BY <1>0, <1>5
  <2> QED BY <1>3, <2>1, <2>2, Zenon DEF Window
<1> QED BY <1>0, <1>4, <1>6, <1>7, Zenon

(* push of a stream's next line onto the window of its lines from f on     *)
(* keeps those from f2 on: they fit, and with one line more they did not.  *)
LEMMA PushDrops ==
  ASSUME NEW cl, NEW cb, NEW c, NEW n \in Nat, NEW f \in 1 .. n + 1,
         cl \in Nat \ {0}, cb \in Nat, Lengths(c)
  PROVE  \E f2 \in f .. n + 1 :
           /\ push(Window(cl, cb, c, f, n), Line(c, n + 1)) = Window(cl, cb, c, f2, n + 1)
           /\ FitsIn(cl, cb, c, f2, n + 1)
           /\ \A j \in f .. f2 - 1 : ~ FitsIn(cl, cb, c, j, n + 1)
<1>1. PICK m : m = n + 1
  OBVIOUS
<1>2. PICK u : u = [k \in Nat |-> Window(cl, cb, c, f + k, m)]
  OBVIOUS
<1>3. m \in Nat \ {0} /\ f \in 1 .. m /\ m - f \in Nat
  BY <1>1
<1>4. \A k \in 0 .. m - f : \A i \in 1 .. m : i = f + k =>
        /\ DOMAIN u[k].entries = 1 .. m - i + 1
        /\ (TooManyLines(u[k]) <=> m - i + 1 > cl)
        /\ (TooManyBytes(u[k]) <=> c[m] - c[i - 1] > cb /\ m - i + 1 > 1)
        /\ DropOldest(u[k]) = u[k + 1]
  <2> SUFFICES ASSUME NEW k \in 0 .. m - f, NEW i \in 1 .. m, i = f + k
               PROVE  /\ DOMAIN u[k].entries = 1 .. m - i + 1
                      /\ (TooManyLines(u[k]) <=> m - i + 1 > cl)
                      /\ (TooManyBytes(u[k]) <=> c[m] - c[i - 1] > cb /\ m - i + 1 > 1)
                      /\ DropOldest(u[k]) = u[k + 1]
    BY Zenon
  <2>1. PICK w : w = u[k]
    OBVIOUS
  <2>2. i \in 1 .. m + 1 /\ i <= m /\ k \in Nat /\ k + 1 \in Nat /\ f + (k + 1) = i + 1
    BY <1>3
  <2>3. w = Window(cl, cb, c, i, m) /\ u[k + 1] = Window(cl, cb, c, i + 1, m)
    BY <1>2, <2>1, <2>2
  <2>4. /\ DOMAIN w.entries = 1 .. m - i + 1
        /\ (TooManyLines(w) <=> m - i + 1 > cl)
        /\ (TooManyBytes(w) <=> c[m] - c[i - 1] > cb /\ m - i + 1 > 1)
        /\ (i <= m => DropOldest(w) = Window(cl, cb, c, i + 1, m))
    <3>1. PICK j \in 1 .. m + 1 : j = i
      BY <2>2
    <3>2. m \in Nat /\ w = Window(cl, cb, c, j, m)
      BY <1>3, <2>3, <3>1
    <3>3. DOMAIN w.entries = 1 .. m - j + 1
      <4>1. PICK es, y : es = Entries(c, j, m) /\ y = c[m] - c[j - 1]
        OBVIOUS
      <4>2. w = Contents(cl, cb, y, es)
        BY <3>2, <4>1, Zenon DEF Window
      <4>3. w.entries = es
        BY <4>2 DEF Contents
      <4>4. DOMAIN es = 1 .. m - j + 1
        BY <4>1, Zenon DEF Entries
      <4> QED BY <4>3, <4>4
    <3>4. TooManyLines(w) <=> m - j + 1 > cl
      BY <3>2, WindowSteps, ZenonT(30)
    <3>5. TooManyBytes(w) <=> c[m] - c[j - 1] > cb /\ m - j + 1 > 1
      BY <3>2, WindowSteps, ZenonT(30)
    <3>6. j <= m => DropOldest(w) = Window(cl, cb, c, j + 1, m)
      BY <3>2, WindowSteps
    <3> QED BY <3>1, <3>3, <3>4, <3>5, <3>6, Zenon
  <2> QED BY <2>1, <2>2, <2>3, <2>4, Zenon
<1>5. PICK d \in 0 .. m - f : ~ TooManyLines(u[d]) /\ \A k \in 0 .. d - 1 : TooManyLines(u[k])
  <2>1. PICK T : T = {k \in 0 .. m - f : ~ TooManyLines(u[k])}
    OBVIOUS
  <2>2. m - f \in T
    <3>1. m \in 1 .. m /\ m = f + (m - f) /\ ~(m - m + 1 > cl)
      BY <1>3
    <3>2. m - f \in 0 .. m - f
      BY <1>3
    <3> QED BY <1>4, <2>1, <3>1, <3>2
  <2>3. T \subseteq Nat /\ T \subseteq 0 .. m - f
    BY <1>3, <2>1
  <2>4. PICK d \in T : \A y \in T : d <= y
    BY <2>2, <2>3, LeastElement, Zenon
  <2>5. \A k \in 0 .. d - 1 : k \in 0 .. m - f /\ ~(d <= k)
    BY <1>3, <2>3, <2>4
  <2>6. \A k \in 0 .. d - 1 : TooManyLines(u[k])
    BY <2>1, <2>4, <2>5
  <2> QED BY <2>1, <2>3, <2>4, <2>6
<1>6. EvictLines(u[0]) = u[d]
  <2>1. PICK q : q = m - f + 1
    OBVIOUS
  <2>2. q \in Nat /\ d \in 0 .. q /\ 0 \in 0 .. m - f /\ f + 0 = f /\ f \in 1 .. m
    BY <1>3, <2>1
  <2>3. DOMAIN u[0].entries = 1 .. q
    BY <1>4, <2>1, <2>2
  <2>4. \A k \in 0 .. d - 1 : TooManyLines(u[k]) /\ u[k + 1] = DropOldest(u[k])
    <3>1. \A k \in 0 .. d - 1 : k \in 0 .. m - f /\ f + k \in 1 .. m
      BY <1>3
    <3> QED BY <1>4, <1>5, <3>1
  <2> QED BY <1>5, <2>2, <2>3, <2>4, EvictLinesStops
<1>7. PICK v : v = [k \in Nat |-> u[d + k]]
  OBVIOUS
<1>8. PICK e \in 0 .. m - f - d :
        ~ TooManyBytes(v[e]) /\ \A k \in 0 .. e - 1 : TooManyBytes(v[k])
  <2>1. PICK T : T = {k \in 0 .. m - f - d : ~ TooManyBytes(v[k])}
    OBVIOUS
  <2>2. m - f - d \in T
    <3>1. m \in 1 .. m /\ m = f + (m - f) /\ ~(m - m + 1 > 1)
      BY <1>3
    <3>2. m - f \in 0 .. m - f /\ m - f - d \in 0 .. m - f - d /\ d + (m - f - d) = m - f
      BY <1>3
    <3>3. ~ TooManyBytes(u[m - f])
      BY <1>4, <3>1, <3>2
    <3>4. m - f - d \in Nat
      BY <1>3
    <3> QED BY <1>7, <2>1, <3>2, <3>3, <3>4
  <2>3. T \subseteq Nat /\ T \subseteq 0 .. m - f - d
    BY <1>3, <2>1
  <2>4. PICK e \in T : \A y \in T : e <= y
    BY <2>2, <2>3, LeastElement, Zenon
  <2>5. \A k \in 0 .. e - 1 : k \in 0 .. m - f - d /\ ~(e <= k)
    BY <1>3, <2>3, <2>4
  <2>6. \A k \in 0 .. e - 1 : TooManyBytes(v[k])
    BY <2>1, <2>4, <2>5
  <2> QED BY <2>1, <2>3, <2>4, <2>6
<1>9. EvictBytes(v[0]) = v[e]
  <2>1. PICK q : q = m - (f + d) + 1
    OBVIOUS
  <2>2. q \in Nat /\ e \in 0 .. q /\ d + 0 = d /\ f + d \in 1 .. m
    BY <1>3, <2>1
  <2>3. DOMAIN v[0].entries = 1 .. q
    BY <1>4, <1>7, <2>1, <2>2
  <2>4. \A k \in 0 .. e - 1 : TooManyBytes(v[k]) /\ v[k + 1] = DropOldest(v[k])
    <3>1. \A k \in 0 .. e - 1 : /\ k \in Nat /\ k + 1 \in Nat /\ d + k \in 0 .. m - f
                                /\ d + (k + 1) = (d + k) + 1 /\ f + (d + k) \in 1 .. m
      BY <1>3
    <3>2. \A k \in 0 .. e - 1 : v[k] = u[d + k] /\ v[k + 1] = u[(d + k) + 1]
      BY <1>7, <3>1
    <3> QED BY <1>4, <1>8, <3>1, <3>2
  <2> QED BY <1>8, <2>2, <2>3, <2>4, EvictBytesStops
<1>10. PICK f2 : f2 = f + d + e
  OBVIOUS
<1>11. f2 \in f .. m /\ d + e \in 0 .. m - f
  BY <1>3, <1>10
<1>12. push(Window(cl, cb, c, f, n), Line(c, n + 1)) = Window(cl, cb, c, f2, m)
  <2>1. WithLine(Window(cl, cb, c, f, n), Line(c, n + 1)) = u[0]
    <3>1. WithLine(Window(cl, cb, c, f, n), Line(c, n + 1)) = Window(cl, cb, c, f, m)
      BY <1>1, WindowSteps
    <3>2. f + 0 = f
      BY <1>3
    <3> QED BY <1>2, <3>1, <3>2
  <2>2. v[0] = u[d] /\ v[e] = u[d + e] /\ u[d + e] = Window(cl, cb, c, f2, m)
    <3>1. d + 0 = d /\ f + (d + e) = f2 /\ e \in Nat /\ d + e \in Nat
      BY <1>3, <1>10
    <3> QED BY <1>2, <1>7, <3>1
  <2> QED BY <1>6, <1>9, <2>1, <2>2, Zenon DEF push, WithLine
<1>13. FitsIn(cl, cb, c, f2, m)
  <2>1. m - (f + d) + 1 <= cl
    <3>1. f + d \in 1 .. m
      BY <1>3
    <3>2. ~(m - (f + d) + 1 > cl)
      BY <1>4, <1>5, <3>1
    <3> QED BY <1>3, <3>2
  <2>2. m - f2 < cl
    BY <1>3, <1>10, <2>1
  <2>3. ~(c[m] - c[f2 - 1] > cb /\ m - f2 + 1 > 1)
    <3>1. v[e] = u[d + e] /\ f + (d + e) = f2
      BY <1>3, <1>7, <1>10
    <3>2. ~ TooManyBytes(u[d + e])
      BY <1>8, <3>1
    <3>3. f2 \in 1 .. m
      BY <1>3, <1>11
    <3> QED BY <1>4, <1>11, <3>1, <3>2, <3>3
  <2>4. CASE f2 = m
    BY <2>4 DEF FitsIn
  <2>5. CASE f2 # m
    <3>1. m - f2 + 1 > 1 /\ f2 - 1 \in Nat /\ m \in Nat
      BY <1>3, <1>11, <2>5
    <3>2. c[m] \in Nat /\ c[f2 - 1] \in Nat
      BY <3>1 DEF Lengths
    <3> QED BY <2>2, <2>3, <3>1, <3>2 DEF FitsIn
  <2> QED BY <2>4, <2>5
<1>14. \A j \in f .. f2 - 1 : ~ FitsIn(cl, cb, c, j, m)
  <2> SUFFICES ASSUME NEW j \in f .. f2 - 1 PROVE ~ FitsIn(cl, cb, c, j, m)
    OBVIOUS
  <2>1. PICK k : k = j - f
    OBVIOUS
  <2>2. k \in 0 .. m - f /\ f + k = j /\ j \in 1 .. m /\ j - 1 \in Nat /\ m \in Nat
    BY <1>3, <1>11, <2>1
  <2>3. c[m] \in Nat /\ c[j - 1] \in Nat
    BY <2>2 DEF Lengths
  <2>4. CASE k < d
    <3>1. TooManyLines(u[k])
      BY <1>5, <2>2, <2>4
    <3>2. m - j + 1 > cl
      BY <1>4, <2>2, <3>1
    <3> QED BY <1>3, <2>2, <3>2 DEF FitsIn
  <2>5. CASE ~(k < d)
    <3>1. k - d \in 0 .. e - 1 /\ k - d \in Nat /\ d + (k - d) = k
      BY <1>3, <1>10, <2>1, <2>2, <2>5
    <3>2. TooManyBytes(u[k])
      BY <1>7, <1>8, <3>1
    <3>3. c[m] - c[j - 1] > cb /\ m - j + 1 > 1
      BY <1>4, <2>2, <3>2
    <3> QED BY <1>3, <2>2, <2>3, <3>3 DEF FitsIn
  <2> QED BY <2>4, <2>5
<1> QED BY <1>1, <1>11, <1>12, <1>13, <1>14

\* The window holds the lines from f to n: as many of the last ones as fit.
LongestEnd(cl, cb, c, f, n) ==
  /\ f \in 1 .. n + 1
  /\ n = 0 => f = 1
  /\ n > 0 => FitsIn(cl, cb, c, f, n)
  /\ \A j \in 1 .. f - 1 : ~ FitsIn(cl, cb, c, j, n)

(* A push onto the longest end that fits leaves the longest end that fits: *)
(* the two loops of push drop no line too few and none too many, whatever  *)
(* the caps and the lengths of the lines.                                  *)
THEOREM PushKeepsLongestEnd ==
  ASSUME NEW cl, NEW cb, NEW c, NEW n \in Nat, NEW f,
         cl \in Nat \ {0}, cb \in Nat, Lengths(c), LongestEnd(cl, cb, c, f, n)
  PROVE  \E f2 : /\ push(Window(cl, cb, c, f, n), Line(c, n + 1)) = Window(cl, cb, c, f2, n + 1)
                 /\ LongestEnd(cl, cb, c, f2, n + 1)
<1>1. f \in 1 .. n + 1
  BY DEF LongestEnd
<1>2. PICK f2 \in f .. n + 1 :
        /\ push(Window(cl, cb, c, f, n), Line(c, n + 1)) = Window(cl, cb, c, f2, n + 1)
        /\ FitsIn(cl, cb, c, f2, n + 1)
        /\ \A j \in f .. f2 - 1 : ~ FitsIn(cl, cb, c, j, n + 1)
  BY <1>1, PushDrops
<1>3. \A j \in 1 .. f - 1 : ~ FitsIn(cl, cb, c, j, n + 1)
  <2> SUFFICES ASSUME NEW j \in 1 .. f - 1 PROVE ~ FitsIn(cl, cb, c, j, n + 1)
    OBVIOUS
  <2>1. j \in 1 .. n /\ j - 1 \in Nat /\ n + 1 \in Nat /\ j # n + 1
    BY <1>1
  <2>2. /\ c[n] \in Nat /\ c[j - 1] \in Nat /\ c[n + 1] \in Nat /\ c[n] <= c[n + 1]
    BY <2>1 DEF Lengths
  <2>3. ~ FitsIn(cl, cb, c, j, n)
    BY DEF LongestEnd
  <2>4. ~(n - j < cl) \/ ~(c[n] - c[j - 1] <= cb)
    BY <2>3 DEF FitsIn
  <2>5. ~(n + 1 - j < cl) \/ ~(c[n + 1] - c[j - 1] <= cb)
    BY <2>1, <2>2, <2>4
  <2> QED BY <2>1, <2>5 DEF FitsIn
<1>4. LongestEnd(cl, cb, c, f2, n + 1)
  <2>1. f2 \in 1 .. (n + 1) + 1 /\ n + 1 # 0
    BY <1>1
  <2>2. \A j \in 1 .. f2 - 1 : j \in 1 .. f - 1 \/ j \in f .. f2 - 1
    BY <1>1
  <2> QED BY <1>2, <1>3, <2>1, <2>2 DEF LongestEnd
<1> QED BY <1>2, <1>4

(* Hence the window of a stream is, after any number of lines, the longest *)
(* end of what was read that is within the caps, of which newLineWindow    *)
(* makes at least two lines and a byte.                                    *)
THEOREM WindowIsLongestEnd ==
  ASSUME NEW capLines \in Int, NEW capBytes \in Int, NEW c, NEW w, Lengths(c),
         w[0] = newLineWindow(capLines, capBytes),
         \A n \in Nat : w[n + 1] = push(w[n], Line(c, n + 1))
  PROVE  \A n \in Nat : \E f : LET cl == IF capLines < 2 THEN 2 ELSE capLines
                                   cb == IF capBytes < 1 THEN 1 ELSE capBytes
                               IN  /\ w[n] = Window(cl, cb, c, f, n)
                                   /\ LongestEnd(cl, cb, c, f, n)
<1>1. PICK cl, cb : /\ cl = IF capLines < 2 THEN 2 ELSE capLines
                    /\ cb = IF capBytes < 1 THEN 1 ELSE capBytes
  OBVIOUS
<1>2. cl \in Nat \ {0} /\ cb \in Nat
  BY <1>1
<1>3. PICK T : T = {n \in Nat : \E f : /\ w[n] = Window(cl, cb, c, f, n)
                                    /\ LongestEnd(cl, cb, c, f, n)}
  OBVIOUS
<1>4. 0 \in T
  <2>1. w[0] = Contents(cl, cb, 0, <<>>)
    BY <1>1 DEF newLineWindow, Contents
  <2>2. Entries(c, 1, 0) = <<>>
    <3>1. 1 .. 0 - 1 + 1 = {} /\ 1 \in 1 .. 0 + 1
      OBVIOUS
    <3>2. Len(Entries(c, 1, 0)) = 0 /\ Entries(c, 1, 0) \in Seq(AllLines(c))
      BY <3>1, EntriesAre
    <3> QED BY <3>2
  <2>3. c[0] - c[1 - 1] = 0
    <3>1. c[0] \in Nat /\ 1 - 1 = 0
      BY DEF Lengths
    <3> QED BY <3>1
  <2>4. w[0] = Window(cl, cb, c, 1, 0)
    BY <2>1, <2>2, <2>3 DEF Window
  <2>5. LongestEnd(cl, cb, c, 1, 0)
    BY DEF LongestEnd
  <2> QED BY <1>3, <2>4, <2>5
<1>5. \A n \in T : n + 1 \in T
  <2> SUFFICES ASSUME NEW n \in T PROVE n + 1 \in T
    OBVIOUS
  <2>1. PICK f : w[n] = Window(cl, cb, c, f, n) /\ LongestEnd(cl, cb, c, f, n)
    BY <1>3
  <2>2. n \in Nat /\ n + 1 \in Nat
    BY <1>3
  <2>3. \E g : /\ push(w[n], Line(c, n + 1)) = Window(cl, cb, c, g, n + 1)
               /\ LongestEnd(cl, cb, c, g, n + 1)
    BY <1>2, <2>1, <2>2, PushKeepsLongestEnd
  <2>4. w[n + 1] = push(w[n], Line(c, n + 1))
    BY <2>2
  <2> QED BY <1>3, <2>2, <2>3, <2>4
<1>6. T = Nat
  <2>1. T \subseteq Nat
    BY <1>3
  <2> QED BY <1>4, <1>5, <2>1, SetInduction
<1> QED BY <1>1, <1>3, <1>6

-----------------------------------------------------------------------------
(* The windows of a followed stream.                                       *)

\* c tells the lengths of the lines from f to n of log s.
Measures(c, s, f, n) == Lengths(c) /\ \A i \in f .. n : c[i] - c[i - 1] = s[i].len

\* w holds the lines from f to n of log s.
Holds(s, w, f, n) ==
  /\ f \in 1 .. n + 1 /\ n - f < 3
  /\ \E c : Measures(c, s, f, n) /\ w = Window(3, WindowBytes, c, f, n)

(* A stream that begins behind line n has a window that holds no line.     *)
LEMMA EmptyWindow ==
  ASSUME NEW s, NEW n \in Nat
  PROVE  Holds(s, newLineWindow(3, WindowBytes), n + 1, n)
<1>0. PICK c : c = [k \in Nat |-> 0]
  OBVIOUS
<1>1. Entries(c, n + 1, n) = <<>>
  <2>1. PICK i : i = n + 1
    OBVIOUS
  <2>2. i \in 1 .. n + 1 /\ n - i + 1 = 0
    BY <2>1
  <2>3. Len(Entries(c, i, n)) = 0 /\ Entries(c, i, n) \in Seq(AllLines(c))
    BY <2>2, EntriesAre
  <2>4. Entries(c, i, n) = <<>>
    BY <2>3
  <2> QED BY <2>1, <2>4
<1>2. c[n] - c[(n + 1) - 1] = 0
  BY <1>0
<1>3. newLineWindow(3, WindowBytes) = Contents(3, WindowBytes, 0, <<>>)
  BY FollowAssumption DEF FollowAssumption, newLineWindow, Contents
<1>4. newLineWindow(3, WindowBytes) = Window(3, WindowBytes, c, n + 1, n)
  BY <1>1, <1>2, <1>3, Zenon DEF Window
<1>5. n + 1 \in 1 .. n + 1 /\ n - (n + 1) < 3
  OBVIOUS
<1>6. Measures(c, s, n + 1, n)
  <2>1. n + 1 .. n = {}
    OBVIOUS
  <2> QED BY <1>0, <2>1 DEF Measures, Lengths
<1> QED BY <1>4, <1>5, <1>6, Zenon DEF Holds

(* Lines that follow do not change it.                                     *)
LEMMA HoldsStill ==
  ASSUME NEW s, NEW t, NEW w, NEW f, NEW n, Holds(s, w, f, n),
         \A i \in f .. n : t[i] = s[i]
  PROVE  Holds(t, w, f, n)
BY DEF Holds, Measures

(* A window is the same for lengths that agree on its lines.               *)
LEMMA WindowAgrees ==
  ASSUME NEW cl, NEW cb, NEW c, NEW d, NEW n \in Nat, NEW f \in 1 .. n + 1,
         \A k \in 0 .. n : c[k] = d[k]
  PROVE  Window(cl, cb, c, f, n) = Window(cl, cb, d, f, n)
<1>1. Entries(c, f, n) = Entries(d, f, n)
  <2>1. \A k \in 1 .. n - f + 1 : Line(c, f + k - 1) = Line(d, f + k - 1)
    <3> SUFFICES ASSUME NEW k \in 1 .. n - f + 1
                 PROVE  Line(c, f + k - 1) = Line(d, f + k - 1)
      OBVIOUS
    <3>1. PICK m : m = f + k - 1
      OBVIOUS
    <3>2. m \in 0 .. n /\ m - 1 \in 0 .. n
      BY <3>1
    <3>3. c[m] = d[m] /\ c[m - 1] = d[m - 1]
      BY <3>2
    <3> QED BY <3>1, <3>3, Zenon DEF Line
  <2> QED BY <2>1, Zenon DEF Entries
<1>2. c[n] - c[f - 1] = d[n] - d[f - 1]
  <2>1. n \in 0 .. n /\ f - 1 \in 0 .. n
    OBVIOUS
  <2> QED BY <2>1
<1> QED BY <1>1, <1>2, Zenon DEF Window

(* There are lengths for the lines in a window and the next one.           *)
LEMMA NextLength ==
  ASSUME NEW s, NEW n \in Nat, NEW f \in 1 .. n + 1, NEW c, Measures(c, s, f, n),
         s[n + 1].len \in Nat
  PROVE  \E d : Measures(d, s, f, n + 1) /\ \A k \in 0 .. n : d[k] = c[k]
<1>1. PICK l : l = s[n + 1].len
  OBVIOUS
<1>2. PICK d : d = [k \in Nat |-> IF k <= n THEN c[k] ELSE c[n] + l]
  OBVIOUS
<1>3. /\ c \in [Nat -> Nat] /\ (\A i, j \in Nat : i <= j => c[i] <= c[j]) /\ l \in Nat
      /\ \A i \in f .. n : c[i] - c[i - 1] = s[i].len
  BY <1>1 DEF Measures, Lengths
<1>4. \A k \in Nat : /\ c[k] \in Nat
                     /\ k <= n => d[k] = c[k]
                     /\ ~(k <= n) => d[k] = c[n] + l
  BY <1>2, <1>3
<1>5. Lengths(d)
  <2>1. d \in [Nat -> Nat]
    BY <1>2, <1>3
  <2>2. \A i, j \in Nat : i <= j => d[i] <= d[j]
    <3> SUFFICES ASSUME NEW i \in Nat, NEW j \in Nat, i <= j PROVE d[i] <= d[j]
      OBVIOUS
    <3>1. CASE j <= n
      BY <1>3, <1>4, <3>1
    <3>2. CASE ~(j <= n) /\ i <= n
      <4>1. c[i] <= c[n] /\ c[i] \in Nat /\ c[n] \in Nat
        BY <1>3, <1>4, <3>2
      <4>2. d[i] = c[i] /\ d[j] = c[n] + l
        BY <1>4, <3>2
      <4> QED BY <1>3, <4>1, <4>2
    <3>3. CASE ~(i <= n)
      <4>1. d[i] = c[n] + l /\ d[j] = c[n] + l /\ c[n] + l \in Nat
        BY <1>3, <1>4, <3>3
      <4> QED BY <4>1
    <3> QED BY <3>1, <3>2, <3>3
  <2> QED BY <2>1, <2>2 DEF Lengths
<1>6. \A i \in f .. n + 1 : d[i] - d[i - 1] = s[i].len
  <2> SUFFICES ASSUME NEW i \in f .. n + 1 PROVE d[i] - d[i - 1] = s[i].len
    OBVIOUS
  <2>1. CASE i <= n
    <3>1. i \in f .. n /\ i \in Nat /\ i - 1 \in Nat /\ i - 1 <= n
      BY <2>1
    <3> QED BY <1>3, <1>4, <2>1, <3>1
  <2>2. CASE i = n + 1
    <3>1. d[n + 1] = c[n] + l /\ d[n] = c[n] /\ c[n] \in Nat /\ (n + 1) - 1 = n
      BY <1>4
    <3> QED BY <1>1, <1>3, <2>2, <3>1
  <2> QED BY <2>1, <2>2
<1>7. \A k \in 0 .. n : d[k] = c[k]
  BY <1>4
<1> QED BY <1>5, <1>6, <1>7 DEF Measures

(* A push keeps the line in front of the new one, when it was held, unless *)
(* the two are longer than the window.                                     *)
LEMMA NextLine ==
  ASSUME NEW s, NEW n \in Nat, NEW f, NEW w, Holds(s, w, f, n), s[n + 1].len \in Nat
  PROVE  \E g : /\ Holds(s, push(w, [lineNo |-> n + 1, len |-> s[n + 1].len]), g, n + 1)
                /\ f <= n => g <= n \/ s[n].len + s[n + 1].len > WindowBytes
                /\ g \in f .. n + 1
<1>1. PICK c : Measures(c, s, f, n) /\ w = Window(3, WindowBytes, c, f, n)
  BY Zenon DEF Holds
<1>2. f \in 1 .. n + 1
  BY DEF Holds
<1>3. PICK d : Measures(d, s, f, n + 1) /\ \A k \in 0 .. n : d[k] = c[k]
  BY <1>1, <1>2, NextLength
<1>4. Lengths(d) /\ \A i \in f .. n + 1 : d[i] - d[i - 1] = s[i].len
  BY <1>3 DEF Measures
<1>5. Line(d, n + 1) = [lineNo |-> n + 1, len |-> s[n + 1].len]
  <2>1. d[n + 1] - d[(n + 1) - 1] = s[n + 1].len
    BY <1>2, <1>4
  <2> QED BY <2>1 DEF Line
<1>6. PICK cl, cb : cl = 3 /\ cb = WindowBytes
  OBVIOUS
<1>7. cl \in Nat \ {0} /\ cb \in Nat
  BY <1>6, FollowAssumption DEF FollowAssumption
<1>8. w = Window(cl, cb, d, f, n)
  BY <1>1, <1>2, <1>3, <1>6, WindowAgrees
<1>9. PICK g \in f .. n + 1 :
        /\ push(Window(cl, cb, d, f, n), Line(d, n + 1)) = Window(cl, cb, d, g, n + 1)
        /\ FitsIn(cl, cb, d, g, n + 1)
        /\ \A j \in f .. g - 1 : ~ FitsIn(cl, cb, d, j, n + 1)
  BY <1>2, <1>4, <1>7, PushDrops
<1>10. g \in 1 .. (n + 1) + 1 /\ (n + 1) - g < 3
  <2>1. \/ g = n + 1
        \/ (n + 1) - g < cl
    BY <1>9 DEF FitsIn
  <2> QED BY <1>2, <1>6, <1>9, <2>1
<1>11. ASSUME f <= n, ~(g <= n) PROVE s[n].len + s[n + 1].len > WindowBytes
  <2>1. n \in f .. g - 1 /\ n \in f .. n + 1 /\ n + 1 \in f .. n + 1 /\ (n + 1) - 1 = n
        /\ n - 1 \in Nat /\ n + 1 \in Nat
    BY <1>2, <1>9, <1>11
  <2>2. ~ FitsIn(cl, cb, d, n, n + 1)
    BY <1>9, <2>1
  <2>3. (n + 1) - n < cl
    BY <1>6
  <2>4. ~(d[n + 1] - d[n - 1] <= cb)
    BY <2>2, <2>3 DEF FitsIn
  <2>5. d[n] - d[n - 1] = s[n].len /\ d[n + 1] - d[n] = s[n + 1].len
    BY <1>4, <2>1
  <2>6. d[n + 1] \in Nat /\ d[n] \in Nat /\ d[n - 1] \in Nat
    BY <1>4, <2>1 DEF Lengths
  <2> QED BY <1>6, <1>7, <2>4, <2>5, <2>6
<1>13. Measures(d, s, g, n + 1)
  <2>1. g .. n + 1 \subseteq f .. n + 1
    BY <1>2, <1>9
  <2> QED BY <1>4, <2>1 DEF Measures
<1>14. push(w, [lineNo |-> n + 1, len |-> s[n + 1].len]) = Window(3, WindowBytes, d, g, n + 1)
  BY <1>5, <1>6, <1>8, <1>9
<1>15. Holds(s, push(w, [lineNo |-> n + 1, len |-> s[n + 1].len]), g, n + 1)
  BY <1>10, <1>13, <1>14, Zenon DEF Holds
<1> QED BY <1>9, <1>11, <1>15

(* What is in a window that holds the lines from f to n.                   *)
LEMMA HeldLines ==
  ASSUME NEW s, NEW n \in Nat, NEW f, NEW w, Holds(s, w, f, n),
         \A i \in 1 .. n : s[i].len \in LineLens
  PROVE  /\ w.entries \in Seq([lineNo : 1 .. n, len : LineLens])
         /\ (w.entries = <<>> <=> f = n + 1)
         /\ (joinedOk(w) <=> f < n)
         /\ ToSet(joinedLines(w)) = f .. n
<1>1. PICK c : Measures(c, s, f, n) /\ w = Window(3, WindowBytes, c, f, n)
  BY Zenon DEF Holds
<1>0. f \in 1 .. n + 1
  BY DEF Holds
<1>2. PICK es : es = Entries(c, f, n)
  OBVIOUS
<1>3. w.entries = es
  BY <1>1, <1>2 DEF Window, Contents
<1>4. /\ es \in Seq(AllLines(c)) /\ Len(es) = n - f + 1 /\ DOMAIN es = 1 .. n - f + 1
      /\ \A k \in 1 .. n - f + 1 : es[k] = Line(c, f + k - 1)
  BY <1>0, <1>2, EntriesAre
<1>5. \A k \in 1 .. n - f + 1 : es[k] = [lineNo |-> f + k - 1, len |-> s[f + k - 1].len]
  <2> SUFFICES ASSUME NEW k \in 1 .. n - f + 1
               PROVE  es[k] = [lineNo |-> f + k - 1, len |-> s[f + k - 1].len]
    OBVIOUS
  <2>1. PICK i : i = f + k - 1
    OBVIOUS
  <2>2. i \in f .. n
    BY <1>0, <2>1
  <2>3. c[i] - c[i - 1] = s[i].len
    BY <1>1, <2>2 DEF Measures
  <2> QED BY <1>4, <2>1, <2>3 DEF Line
<1>6. es \in Seq([lineNo : 1 .. n, len : LineLens])
  <2>1. \A k \in 1 .. n - f + 1 : f + k - 1 \in 1 .. n
    BY <1>0
  <2>2. \A k \in 1 .. n - f + 1 : es[k] \in [lineNo : 1 .. n, len : LineLens]
    <3> SUFFICES ASSUME NEW k \in 1 .. n - f + 1
                 PROVE  es[k] \in [lineNo : 1 .. n, len : LineLens]
      OBVIOUS
    <3>1. PICK i : i = f + k - 1
      OBVIOUS
    <3>2. es[k] = [lineNo |-> i, len |-> s[i].len] /\ i \in 1 .. n
      BY <1>5, <2>1, <3>1
    <3> QED BY <3>2
  <2>3. PICK S : S = [lineNo : 1 .. n, len : LineLens]
    OBVIOUS
  <2>4. es \in Seq(S)
    <3>1. \A k \in 1 .. n - f + 1 : es[k] \in S
      BY <2>2, <2>3, Zenon
    <3>2. n - f + 1 \in Nat
      BY <1>0
    <3>3. PICK m, T : m = n - f + 1 /\ T = AllLines(c)
      OBVIOUS
    <3>4. es \in Seq(T) /\ m = Len(es) /\ m \in Nat /\ \A k \in 1 .. m : es[k] \in S
      BY <1>4, <3>1, <3>2, <3>3
    <3> QED BY <3>4
  <2> QED BY <2>3, <2>4
<1>7. es = <<>> <=> f = n + 1
  BY <1>0, <1>4
<1>8. joinedOk(w) <=> f < n
  BY <1>0, <1>3, <1>4 DEF joinedOk
<1>9. ToSet(joinedLines(w)) = f .. n
  <2>1. PICK js : js = joinedLines(w)
    OBVIOUS
  <2>2. js = [k \in 1 .. n - f + 1 |-> es[k].lineNo]
    BY <1>3, <1>4, <2>1 DEF joinedLines
  <2>3. \A k \in 1 .. n - f + 1 : es[k].lineNo = f + k - 1
    <3> SUFFICES ASSUME NEW k \in 1 .. n - f + 1 PROVE es[k].lineNo = f + k - 1
      OBVIOUS
    <3>1. PICK i : i = f + k - 1
      OBVIOUS
    <3>2. es[k] = [lineNo |-> i, len |-> s[i].len]
      BY <1>5, <3>1
    <3> QED BY <3>1, <3>2
  <2>4. DOMAIN js = 1 .. n - f + 1 /\ \A k \in 1 .. n - f + 1 : js[k] = f + k - 1
    BY <2>2, <2>3
  <2>5. ToSet(js) = {js[k] : k \in 1 .. n - f + 1}
    BY <2>4 DEF ToSet
  <2>6. \A i \in f .. n : i - f + 1 \in 1 .. n - f + 1 /\ js[i - f + 1] = i
    BY <1>0, <2>4
  <2>7. \A k \in 1 .. n - f + 1 : js[k] \in f .. n
    BY <1>0, <2>4
  <2>8. ToSet(js) = f .. n
    BY <2>5, <2>6, <2>7
  <2> QED BY <2>1, <2>8
<1> QED BY <1>3, <1>6, <1>7, <1>8, <1>9

-----------------------------------------------------------------------------
(* The types and the window of a stream, wherever its connection breaks.   *)

\* A stream's window holds the lines up to the last one that was sent.
WinInv ==
  /\ stage = "scan" => \E f : Holds(log, win, f, pos)
  /\ stage = "raw" => pos > 0 /\ \E f : Holds(log, win, f, pos - 1)
  /\ stage = "joined" => \E f : Holds(log, win, f, pos) /\ f < pos

Lines == [ts : 0 .. MaxTime, len : LineLens]
LinesOf(n) == [lineNo : 1 .. n, len : LineLens]

(* The log is numbered from one, and stamped with times of the clock.      *)
LEMMA LogFacts ==
  ASSUME TypeOK
  PROVE  /\ Len(log) \in Nat /\ DOMAIN log = 1 .. Len(log) /\ pos \in Nat /\ now \in Nat
         /\ \A i \in 1 .. Len(log) : log[i].ts \in 0 .. MaxTime /\ log[i].ts \in Nat
         /\ \A i \in 1 .. Len(log) : log[i].len \in LineLens /\ log[i].len \in Nat
<1>1. MaxTime \in Nat /\ LineLens \subseteq Nat
  BY FollowAssumption DEF FollowAssumption
<1>2. log \in Seq(Lines) /\ pos \in 0 .. Len(log) /\ now \in 0 .. MaxTime
  BY DEF TypeOK, Lines
<1>3. \A i \in 1 .. Len(log) : log[i] \in Lines
  BY <1>2
<1>4. \A i \in 1 .. Len(log) : log[i].ts \in 0 .. MaxTime /\ log[i].len \in LineLens
  BY <1>3 DEF Lines
<1>5. Len(log) \in Nat /\ DOMAIN log = 1 .. Len(log)
  BY <1>2
<1>6. \A i \in 1 .. Len(log) : log[i].ts \in Nat /\ log[i].len \in Nat
  <2>1. \A x \in 0 .. MaxTime : x \in Nat
    BY <1>1
  <2>2. \A x \in LineLens : x \in Nat
    BY <1>1
  <2> QED BY <1>4, <2>1, <2>2, Zenon
<1>7. pos \in Nat /\ now \in Nat
  BY <1>1, <1>2, <1>5
<1> QED BY <1>4, <1>5, <1>6, <1>7

(* Not more lines are skipped than there are, and none from the first line *)
(* on that is not older than the time asked for.                           *)
LEMMA SkippedLines ==
  ASSUME TypeOK, NEW since
  PROVE  /\ Skipped(since) \in 0 .. Len(log)
         /\ \A m \in 1 .. Len(log) :
              (\A i \in 1 .. Len(log) : m <= i => ~(log[i].ts < since)) => Skipped(since) < m
<1>1. PICK n, S : n = Len(log) /\ S = {i \in DOMAIN log : log[i].ts < since}
  OBVIOUS
<1>2. n \in Nat /\ DOMAIN log = 1 .. n
  BY <1>1, LogFacts
<1>3. \A k \in Nat : S \subseteq 1 .. k => Cardinality(S) \in 0 .. k
  <2> SUFFICES ASSUME NEW k \in Nat, S \subseteq 1 .. k PROVE Cardinality(S) \in 0 .. k
    OBVIOUS
  <2>1. IsFiniteSet(1 .. k) /\ Cardinality(1 .. k) = k
    BY FS_Interval
  <2>2. IsFiniteSet(S) /\ Cardinality(S) <= k
    BY <2>1, FS_Subset
  <2>3. Cardinality(S) \in Nat
    BY <2>2, FS_CardinalityType
  <2> QED BY <2>2, <2>3
<1>4. Skipped(since) = Cardinality(S)
  BY <1>1 DEF Skipped
<1>5. S \subseteq 1 .. n
  BY <1>1, <1>2
<1>6. ASSUME NEW m \in 1 .. n, \A i \in 1 .. n : m <= i => ~(log[i].ts < since)
      PROVE  Cardinality(S) < m
  <2>1. S \subseteq 1 .. m - 1
    <3> SUFFICES ASSUME NEW i \in S PROVE i \in 1 .. m - 1
      OBVIOUS
    <3>1. i \in 1 .. n /\ log[i].ts < since
      BY <1>1, <1>2
    <3>2. ~(m <= i)
      BY <1>6, <3>1
    <3> QED BY <3>1, <3>2
  <2>2. m - 1 \in Nat
    OBVIOUS
  <2>3. Cardinality(S) \in 0 .. m - 1
    BY <1>3, <2>1, <2>2
  <2> QED BY <2>3
<1> QED BY <1>1, <1>2, <1>3, <1>4, <1>5, <1>6

(* A new process has no stream, and an empty window.                       *)
LEMMA TypeInit == Init => TypeOK /\ WinInv
<1> SUFFICES ASSUME Init PROVE TypeOK /\ WinInv
  OBVIOUS
<1>1. MaxTime \in Nat /\ MaxLog \in Nat
  BY FollowAssumption DEF FollowAssumption
<1>2. log = <<>> /\ Len(log) = 0 /\ DOMAIN log = {}
  BY DEF Init
<1>3. win.entries = <<>>
  BY DEF Init, newLineWindow
<1>4. log \in Seq(Lines) /\ win.entries \in Seq([lineNo : DOMAIN log, len : LineLens])
  BY <1>2, <1>3
<1>5. TypeOK
  <2>1. now = 0 /\ pos = 0 /\ wm = NoMark /\ base = 1
        /\ mode \in {"sweep", "watch"} /\ stage = "off" /\ cut = FALSE
        /\ sent = {} /\ pairs = {} /\ cuts = {}
    BY DEF Init
  <2>2. /\ Len(log) <= MaxLog /\ now \in 0 .. MaxTime /\ pos \in 0 .. Len(log)
        /\ base \in 1 .. MaxLog + 1
    BY <1>1, <1>2, <2>1
  <2> QED BY <1>4, <2>1, <2>2, Zenon DEF TypeOK, Lines
<1>6. WinInv
  BY DEF Init, WinInv
<1> QED BY <1>5, <1>6

(* The variables of a stream but its window keep their types in every step.*)
LEMMA EndTypes ==
  ASSUME TypeOK, NEW at \in 1 .. MaxLog + 1, End(at), wm' \in {NoMark} \cup 0 .. MaxTime
  PROVE  TypeOK' /\ WinInv'
<1>1. UNCHANGED <<log, now, pos, win, cut, sent, pairs, base>>
  BY DEF End, envVars
<1>2. stage' = "off" /\ mode' = "watch" /\ cuts' = cuts \cup {at}
  BY DEF End, SeedWatermarks
<1>3. cuts' \subseteq 1 .. MaxLog + 1
  BY <1>2 DEF TypeOK
<1>4. TypeOK'
  BY <1>1, <1>2, <1>3 DEF TypeOK
<1> QED BY <1>2, <1>4 DEF WinInv

(* A watermark is the time of a line.                                      *)
LEMMA OnLineType ==
  ASSUME TypeOK, NEW ts \in 0 .. MaxTime, onLine(ts)
  PROVE  wm' \in {NoMark} \cup 0 .. MaxTime
BY DEF TypeOK, onLine

(* A stream scans an earlier part of a longer log.                         *)
LEMMA MoreLines ==
  ASSUME NEW a \in Nat, NEW b \in Nat, a <= b, NEW es, es \in Seq(LinesOf(a))
  PROVE  es \in Seq(LinesOf(b))
<1>1. LinesOf(a) \subseteq LinesOf(b)
  <2>1. 1 .. a \subseteq 1 .. b
    OBVIOUS
  <2> QED BY <2>1, Zenon DEF LinesOf
<1> QED BY <1>1

(* Every step keeps the types, and the lines in the window in order.       *)
LEMMA TypeStep == TypeOK /\ WinInv /\ [Next]_vars => TypeOK' /\ WinInv'
<1> SUFFICES ASSUME TypeOK, WinInv, [Next]_vars PROVE TypeOK' /\ WinInv'
  OBVIOUS
<1>0. /\ MaxTime \in Nat /\ MaxLog \in Nat
      /\ Tears \subseteq {"stamp", "payload"}
  BY FollowAssumption DEF FollowAssumption
<1>1. /\ Len(log) \in 0 .. MaxLog /\ DOMAIN log = 1 .. Len(log) /\ pos \in Nat /\ now \in Nat
      /\ \A i \in 1 .. Len(log) : log[i].ts \in 0 .. MaxTime
      /\ \A i \in 1 .. Len(log) : log[i].len \in LineLens /\ log[i].len \in Nat
      /\ pos \in 0 .. Len(log)
  BY <1>0, LogFacts DEF TypeOK
<1>2. CASE Tick
  <2>1. now' \in 0 .. MaxTime
    BY <1>0, <1>1, <1>2 DEF Tick
  <2> QED BY <1>2, <2>1 DEF Tick, TypeOK, WinInv, hisVars
<1>3. CASE \E len \in LineLens : Write(len)
  <2>1. PICK l \in LineLens : Write(l)
    BY <1>3
  <2>2. PICK new : new = [ts |-> now, len |-> l]
    OBVIOUS
  <2>3. new \in Lines /\ log' = Append(log, new) /\ Len(log) < MaxLog
    BY <1>0, <2>1, <2>2 DEF Write, TypeOK, Lines
  <2>4. log \in Seq(Lines)
    BY DEF TypeOK, Lines
  <2>5. log' \in Seq(Lines) /\ Len(log') = Len(log) + 1 /\ DOMAIN log' = 1 .. Len(log) + 1
    BY <2>3, <2>4
  <2>6. UNCHANGED <<now, mode, wm, stage, pos, win, cut, sent, pairs, cuts, base>>
    BY <2>1 DEF Write, hisVars
  <2>7. Len(log') <= MaxLog /\ pos' \in 0 .. Len(log')
    BY <1>0, <1>1, <2>3, <2>5, <2>6
  <2>8. sent' \subseteq DOMAIN log' /\ pairs' \subseteq DOMAIN log'
    BY <1>1, <2>5, <2>6 DEF TypeOK
  <2>9. win'.entries \in Seq([lineNo : DOMAIN log', len : LineLens])
    <3>1. win.entries \in Seq(LinesOf(Len(log)))
      BY <1>1 DEF TypeOK, LinesOf
    <3>2. PICK b : b = Len(log) + 1
      OBVIOUS
    <3>3. b \in Nat /\ Len(log) \in Nat /\ Len(log) <= b
      BY <1>1, <3>2
    <3>4. win.entries \in Seq(LinesOf(b))
      BY <3>1, <3>3, MoreLines
    <3> QED BY <2>5, <2>6, <3>2, <3>4 DEF LinesOf
  <2>10. TypeOK'
    BY <2>5, <2>6, <2>7, <2>8, <2>9 DEF TypeOK, Lines
  <2>11. \A i \in 1 .. Len(log) : log'[i] = log[i]
    BY <2>3, <2>4
  <2>12. ASSUME NEW f, NEW k \in Nat, k <= Len(log), Holds(log, win, f, k)
         PROVE  Holds(log', win, f, k)
    <3>1. f .. k \subseteq 1 .. Len(log)
      BY <1>1, <2>12 DEF Holds
    <3>2. PICK t : t = log'
      OBVIOUS
    <3>3. \A i \in f .. k : t[i] = log[i]
      BY <2>11, <3>1, <3>2
    <3> QED BY <2>12, <3>2, <3>3, HoldsStill
  <2>13. WinInv'
    <3>1. CASE stage = "scan"
      <4>1. PICK f : Holds(log, win, f, pos)
        BY <3>1 DEF WinInv
      <4>2. Holds(log', win, f, pos)
        BY <1>1, <2>12, <4>1
      <4> QED BY <2>6, <3>1, <4>2 DEF WinInv
    <3>2. CASE stage = "raw"
      <4>1. PICK f : pos > 0 /\ Holds(log, win, f, pos - 1)
        BY <3>2 DEF WinInv
      <4>2. pos - 1 \in Nat /\ pos - 1 <= Len(log)
        BY <1>1, <4>1
      <4>3. Holds(log', win, f, pos - 1)
        BY <2>12, <4>1, <4>2
      <4> QED BY <2>6, <3>2, <4>1, <4>3 DEF WinInv
    <3>3. CASE stage = "joined"
      <4>1. PICK f : Holds(log, win, f, pos) /\ f < pos
        BY <3>3 DEF WinInv
      <4>2. Holds(log', win, f, pos)
        BY <1>1, <2>12, <4>1
      <4> QED BY <2>6, <3>3, <4>1, <4>2 DEF WinInv
    <3>4. CASE stage = "off"
      BY <2>6, <3>4 DEF WinInv
    <3> QED BY <3>1, <3>2, <3>3, <3>4 DEF TypeOK
  <2> QED BY <2>10, <2>13
<1>4. CASE Attach
  <2>1. PICK k : k = Skipped(Since)
    OBVIOUS
  <2>2. k \in 0 .. Len(log) /\ k \in Nat
    BY <1>1, <2>1, SkippedLines
  <2>3. /\ stage' = "scan" /\ pos' = k /\ win' = newLineWindow(3, WindowBytes) /\ cut' = FALSE
        /\ base' = IF wm = NoMark THEN k + 1 ELSE base
        /\ UNCHANGED <<log, now, mode, wm, sent, pairs, cuts>>
    BY <1>4, <2>1 DEF Attach, envVars
  <2>4. base' \in 1 .. MaxLog + 1
    BY <1>0, <1>1, <2>2, <2>3 DEF TypeOK
  <2>5. win'.entries = <<>>
    BY <2>3 DEF newLineWindow
  <2>6. win'.entries \in Seq([lineNo : DOMAIN log', len : LineLens])
    BY <2>5
  <2>7. TypeOK'
    BY <2>2, <2>3, <2>4, <2>6 DEF TypeOK
  <2>8. Holds(log', win', pos' + 1, pos')
    BY <2>2, <2>3, EmptyWindow
  <2> QED BY <2>3, <2>7, <2>8 DEF WinInv
<1>5. CASE SweepOpenFails
  BY <1>5 DEF SweepOpenFails, TypeOK, WinInv, envVars, hisVars
<1>6. CASE Read
  <2>1. /\ stage = "scan" /\ pos < Len(log) /\ pos' = pos + 1 /\ onLine(log[pos + 1].ts)
        /\ stage' = "raw" /\ UNCHANGED <<log, now, mode, win, cut, sent, pairs, cuts, base>>
    BY <1>6 DEF Read, envVars, hisVars
  <2>2. pos' \in 1 .. Len(log) /\ pos' - 1 = pos
    BY <1>1, <2>1
  <2>3. wm' \in {NoMark} \cup 0 .. MaxTime
    BY <1>1, <2>1, <2>2, OnLineType
  <2>4. TypeOK'
    <3>1. pos' \in 0 .. Len(log') /\ log' = log
      BY <1>1, <2>1, <2>2
    <3> QED BY <2>1, <2>3, <3>1 DEF TypeOK
  <2>5. \E f : Holds(log, win, f, pos)
    BY <2>1 DEF WinInv
  <2>6. pos' > 0
    BY <2>2
  <2> QED BY <2>1, <2>2, <2>4, <2>5, <2>6 DEF WinInv
<1>7. CASE ReadLong
  <2>1. pos + 1 \in 1 .. MaxLog + 1 /\ wm' = wm /\ End(pos + 1)
    BY <1>0, <1>1, <1>7 DEF ReadLong
  <2>2. wm' \in {NoMark} \cup 0 .. MaxTime
    BY <2>1 DEF TypeOK
  <2> QED BY <2>1, <2>2, EndTypes
<1>8. CASE \E where \in Tears : ReadTorn(where)
  <2>1. PICK where \in Tears : ReadTorn(where)
    BY <1>8
  <2>2. PICK ts : ts = IF where = "stamp" THEN now ELSE log[pos + 1].ts
    OBVIOUS
  <2>3. pos + 1 \in 1 .. MaxLog + 1 /\ pos + 1 \in 1 .. Len(log) /\ End(pos + 1) /\ onLine(ts)
    BY <1>0, <1>1, <2>1, <2>2 DEF ReadTorn
  <2>4. ts \in 0 .. MaxTime
    BY <1>1, <2>2, <2>3 DEF TypeOK
  <2>5. wm' \in {NoMark} \cup 0 .. MaxTime
    BY <2>3, <2>4, OnLineType
  <2> QED BY <2>3, <2>5, EndTypes
<1>9. CASE StreamEnds
  <2>1. pos + 1 \in 1 .. MaxLog + 1 /\ wm' = wm /\ End(pos + 1)
    BY <1>0, <1>1, <1>9 DEF StreamEnds
  <2>2. wm' \in {NoMark} \cup 0 .. MaxTime
    BY <2>1 DEF TypeOK
  <2> QED BY <2>1, <2>2, EndTypes
<1>10. CASE Expire
  BY <1>10 DEF Expire, TypeOK, WinInv, envVars, hisVars
<1>11. CASE SendRaw
  <2>1. /\ stage = "raw" /\ sent' = sent \cup {pos}
        /\ win' = push(win, [lineNo |-> pos, len |-> log[pos].len])
        /\ stage' = IF joinedOk(win') THEN "joined" ELSE "scan"
        /\ UNCHANGED <<log, now, mode, wm, pos, cut, pairs, cuts, base>>
    BY <1>11 DEF SendRaw, envVars
  <2>2. PICK g : Holds(log, win', g, pos)
    <3>1. PICK n : n = pos - 1
      OBVIOUS
    <3>2. n \in Nat /\ n + 1 = pos
      BY <1>1, <2>1, <3>1 DEF WinInv
    <3>3. PICK f : Holds(log, win, f, n)
      BY <2>1, <3>1 DEF WinInv
    <3>4. log[n + 1].len \in Nat
      BY <1>1, <3>2
    <3>5. PICK g : Holds(log, push(win, [lineNo |-> n + 1, len |-> log[n + 1].len]), g, n + 1)
      BY <3>2, <3>3, <3>4, NextLine
    <3> QED BY <2>1, <3>2, <3>5
  <2>3. /\ win'.entries \in Seq(LinesOf(pos))
        /\ (joinedOk(win') <=> g < pos)
    <3>1. \A i \in 1 .. pos : log[i].len \in LineLens
      BY <1>1
    <3> QED BY <1>1, <2>2, <3>1, HeldLines DEF LinesOf
  <2>4. win'.entries \in Seq([lineNo : DOMAIN log', len : LineLens])
    <3>1. win'.entries \in Seq(LinesOf(Len(log)))
      BY <1>1, <2>3, MoreLines
    <3> QED BY <1>1, <2>1, <3>1 DEF LinesOf
  <2>5. sent' \subseteq DOMAIN log'
    <3>1. pos \in DOMAIN log
      BY <1>1, <2>1 DEF WinInv
    <3> QED BY <2>1, <3>1 DEF TypeOK
  <2>6. TypeOK'
    BY <2>1, <2>4, <2>5 DEF TypeOK
  <2>7. WinInv'
    BY <2>1, <2>2, <2>3 DEF WinInv
  <2> QED BY <2>6, <2>7
<1>12. CASE SendJoined
  <2>1. /\ stage = "joined" /\ stage' = "scan"
        /\ pairs' = pairs \cup {i \in ToSet(joinedLines(win)) : i + 1 \in ToSet(joinedLines(win))}
        /\ UNCHANGED <<log, now, mode, wm, pos, win, cut, sent, cuts, base>>
    BY <1>12 DEF SendJoined, envVars
  <2>2. PICK f : Holds(log, win, f, pos)
    BY <2>1 DEF WinInv
  <2>3. ToSet(joinedLines(win)) = f .. pos /\ f \in 1 .. pos + 1
    <3>1. \A i \in 1 .. pos : log[i].len \in LineLens
      BY <1>1
    <3> QED BY <1>1, <2>2, <3>1, HeldLines DEF Holds
  <2>4. pairs' \subseteq DOMAIN log'
    <3>1. f .. pos \subseteq DOMAIN log
      BY <1>1, <2>3
    <3> QED BY <2>1, <2>3, <3>1 DEF TypeOK
  <2>5. TypeOK'
    BY <2>1, <2>4 DEF TypeOK
  <2> QED BY <2>1, <2>2, <2>5 DEF WinInv
<1>13. CASE SendCancelled
  <2>1. stage \in {"raw", "joined"} /\ wm' = wm /\ End(pos)
    BY <1>13 DEF SendCancelled
  <2>2. pos > 0
    <3>1. CASE stage = "raw"
      BY <3>1 DEF WinInv
    <3>2. CASE stage = "joined"
      <4>1. PICK f : Holds(log, win, f, pos) /\ f < pos
        BY <3>2 DEF WinInv
      <4>2. f \in 1 .. pos + 1
        BY <4>1 DEF Holds
      <4> QED BY <1>1, <4>1, <4>2
    <3> QED BY <2>1, <3>1, <3>2
  <2>3. pos \in 1 .. MaxLog + 1 /\ wm' \in {NoMark} \cup 0 .. MaxTime
    BY <1>0, <1>1, <2>1, <2>2 DEF TypeOK
  <2> QED BY <2>1, <2>3, EndTypes
<1>14. CASE UNCHANGED vars
  BY <1>14 DEF vars, envVars, hisVars, TypeOK, WinInv
<1> QED BY <1>2, <1>3, <1>4, <1>5, <1>6, <1>7, <1>8, <1>9, <1>10, <1>11, <1>12, <1>13, <1>14
        DEF Next, StreamStep

(* Every variable keeps its type, and the window of a stream holds nothing *)
(* but the last lines that were sent, however connections break.           *)
THEOREM FollowTypeCorrect == Spec => []TypeOK
<1>1. TypeOK /\ WinInv /\ [Next]_vars => TypeOK' /\ WinInv'
  BY TypeStep
<1> QED BY <1>1, TypeInit, PTL DEF Spec

-----------------------------------------------------------------------------
(* What is sent and joined before a stream can resume behind it, when no   *)
(* connection breaks inside a timestamp: such a line counts as now, and    *)
(* the watermark may pass lines that were not read.                        *)

\* Lines are stamped by the clock.
LogInv ==
  /\ \A i, j \in DOMAIN log : i <= j => log[i].ts <= log[j].ts
  /\ \A i \in DOMAIN log : log[i].ts <= now

\* Only a stream of the sweep moves a watermark before the sweep is over.
ModeInv == mode = "sweep" /\ stage = "off" => wm = NoMark

\* Line i is the last tick's of its second; it and the next are too wide.
Late(i) == i \in DOMAIN log /\ SecondEnds(log[i].ts)
Wide(i) == i \in DOMAIN log /\ i + 1 \in DOMAIN log /\ TooWide(i)

\* The lines up to k were sent, but at the end of a second; any two of them
\* were joined or cut apart, but there and where they are too wide.
SentUpTo(k) == \A i \in base .. k : i \in sent \/ Late(i)
PairsUpTo(k) == \A i \in base .. k - 1 : i \in pairs \/ i + 1 \in cuts \/ Late(i) \/ Wide(i)

\* The watermark is the time of a line m.  What is in front of m was sent;
\* m was joined with the line in front, or it is in the stream's hands.
MarkInv ==
  wm # NoMark =>
    \E m \in DOMAIN log :
      /\ log[m].ts = wm
      /\ SentUpTo(m - 1)
      /\ PairsUpTo(m) \/ (stage \in {"raw", "joined"} /\ m = pos)

\* A stream has sent what it read, and begins with a line that was joined
\* with the one in front, or where nothing was asked for.
StreamInv ==
  /\ stage = "scan" =>
       \E f : /\ Holds(log, win, f, pos) /\ SentUpTo(pos) /\ PairsUpTo(pos)
              /\ f = pos + 1 => PairsUpTo(pos + 1)
  /\ stage = "raw" =>
       \E f : /\ Holds(log, win, f, pos - 1) /\ SentUpTo(pos - 1) /\ PairsUpTo(pos - 1)
              /\ f = pos => PairsUpTo(pos)
  /\ stage = "joined" =>
       \E f : Holds(log, win, f, pos) /\ f < pos /\ SentUpTo(pos) /\ PairsUpTo(pos - 1)

LossInv == LogInv /\ ModeInv /\ MarkInv /\ StreamInv

(* What was sent, joined or cut stays so, and the log stays as it is.      *)
LEMMA HistoryGrows ==
  ASSUME base' = base, sent \subseteq sent', pairs \subseteq pairs', cuts \subseteq cuts', NEW k,
         DOMAIN log \subseteq DOMAIN log', \A i \in DOMAIN log : log'[i] = log[i]
  PROVE  (SentUpTo(k) => SentUpTo(k)') /\ (PairsUpTo(k) => PairsUpTo(k)')
<1>1. \A i : Late(i) => Late(i)'
  BY DEF Late, SecondEnds
<1>2. \A i : Wide(i) => Wide(i)'
  BY DEF Wide, TooWide
<1> QED BY <1>1, <1>2, Zenon DEF SentUpTo, PairsUpTo

(* A new process has no watermark, and a log has no line.                  *)
LEMMA LossInit == Init => LossInv
<1> SUFFICES ASSUME Init PROVE LossInv
  OBVIOUS
<1>1. log = <<>> /\ wm = NoMark /\ stage = "off"
  BY DEF Init
<1>2. DOMAIN log = {}
  BY <1>1
<1> QED BY <1>1, <1>2 DEF LossInv, LogInv, ModeInv, MarkInv, StreamInv

(* A step of the clock, the container or the context.                      *)
LEMMA OutsideSteps ==
  ASSUME TypeOK, WinInv, LossInv, LogInv',
         UNCHANGED <<mode, wm, stage, pos, win, sent, pairs, cuts, base>>,
         DOMAIN log \subseteq DOMAIN log', \A i \in DOMAIN log : log'[i] = log[i]
  PROVE  LossInv'
<1>1. /\ mode' = mode /\ wm' = wm /\ stage' = stage /\ pos' = pos /\ win' = win
      /\ sent' = sent /\ pairs' = pairs /\ cuts' = cuts /\ base' = base
  OBVIOUS
<1>2. \A k : (SentUpTo(k) => SentUpTo(k)') /\ (PairsUpTo(k) => PairsUpTo(k)')
  BY <1>1, HistoryGrows
<1>3. ModeInv'
  BY <1>1 DEF LossInv, ModeInv
<1>4. MarkInv'
  <2> SUFFICES ASSUME wm # NoMark PROVE MarkInv'
    BY <1>1 DEF MarkInv
  <2>1. PICK m \in DOMAIN log : /\ log[m].ts = wm /\ SentUpTo(m - 1)
                                /\ PairsUpTo(m) \/ (stage \in {"raw", "joined"} /\ m = pos)
    BY DEF LossInv, MarkInv
  <2>2. m \in DOMAIN log' /\ log'[m] = log[m]
    BY <2>1
  <2>3. SentUpTo(m - 1)' /\ (PairsUpTo(m) => PairsUpTo(m)')
    BY <1>2, <2>1
  <2> QED BY <1>1, <2>1, <2>2, <2>3 DEF MarkInv
<1>5. ASSUME NEW f, NEW k \in Nat, k <= Len(log), Holds(log, win, f, k)
      PROVE  Holds(log', win', f, k)
  <2>1. f .. k \subseteq DOMAIN log
    BY <1>5, LogFacts DEF Holds
  <2>2. PICK t : t = log'
    OBVIOUS
  <2>3. \A i \in f .. k : t[i] = log[i]
    BY <2>1, <2>2
  <2> QED BY <1>1, <1>5, <2>2, <2>3, HoldsStill
<1>6. pos \in Nat /\ pos <= Len(log) /\ (pos > 0 => pos - 1 \in Nat /\ pos - 1 <= Len(log))
  BY LogFacts DEF TypeOK
<1>7. StreamInv'
  <2>1. CASE stage = "scan"
    <3>1. PICK f : /\ Holds(log, win, f, pos) /\ SentUpTo(pos) /\ PairsUpTo(pos)
                   /\ f = pos + 1 => PairsUpTo(pos + 1)
      BY <2>1 DEF LossInv, StreamInv
    <3>2. Holds(log', win', f, pos)
      BY <1>5, <1>6, <3>1
    <3>3. SentUpTo(pos)' /\ PairsUpTo(pos)' /\ (f = pos + 1 => PairsUpTo(pos + 1)')
      BY <1>1, <1>2, <3>1 DEF SentUpTo, PairsUpTo, Late, Wide
    <3> QED BY <1>1, <2>1, <3>2, <3>3 DEF StreamInv
  <2>2. CASE stage = "raw"
    <3>1. PICK f : /\ Holds(log, win, f, pos - 1) /\ SentUpTo(pos - 1) /\ PairsUpTo(pos - 1)
                   /\ f = pos => PairsUpTo(pos)
      BY <2>2 DEF LossInv, StreamInv
    <3>2. Holds(log', win', f, pos - 1)
      BY <1>5, <1>6, <2>2, <3>1 DEF WinInv
    <3>3. SentUpTo(pos - 1)' /\ PairsUpTo(pos - 1)' /\ (f = pos => PairsUpTo(pos)')
      BY <1>1, <1>2, <3>1
    <3> QED BY <1>1, <2>2, <3>2, <3>3 DEF StreamInv
  <2>3. CASE stage = "joined"
    <3>1. PICK f : Holds(log, win, f, pos) /\ f < pos /\ SentUpTo(pos) /\ PairsUpTo(pos - 1)
      BY <2>3 DEF LossInv, StreamInv
    <3>2. Holds(log', win', f, pos)
      BY <1>5, <1>6, <3>1
    <3>3. SentUpTo(pos)' /\ PairsUpTo(pos - 1)'
      BY <1>1, <1>2, <3>1
    <3> QED BY <1>1, <2>3, <3>1, <3>2, <3>3 DEF StreamInv
  <2>4. CASE stage = "off"
    BY <1>1, <2>4 DEF StreamInv
  <2> QED BY <2>1, <2>2, <2>3, <2>4 DEF TypeOK
<1> QED BY <1>3, <1>4, <1>7 DEF LossInv

(* A stream returns with its lines sent: what it had in hand is cut from   *)
(* the line in front, and the watermark does not move past it.             *)
LEMMA EndKeeps ==
  ASSUME TypeOK, LossInv, NEW at \in Nat, End(at),
         wm' = wm \/ (at \in DOMAIN log /\ wm' = log[at].ts),
         SentUpTo(at - 1), PairsUpTo(at - 1), stage \in {"raw", "joined"} => at = pos
  PROVE  LossInv'
<1>1. /\ mode' = "watch" /\ stage' = "off" /\ cuts' = cuts \cup {at}
      /\ UNCHANGED <<log, now, pos, win, sent, pairs, base>>
  BY DEF End, SeedWatermarks, envVars
<1>2. /\ base' = base /\ sent \subseteq sent' /\ pairs \subseteq pairs' /\ cuts \subseteq cuts'
      /\ log' = log
  BY <1>1
<1>3. \A k : (SentUpTo(k) => SentUpTo(k)') /\ (PairsUpTo(k) => PairsUpTo(k)')
  BY <1>2, HistoryGrows
<1>4. LogInv' /\ ModeInv' /\ StreamInv'
  BY <1>1 DEF LossInv, LogInv, ModeInv, StreamInv
<1>5. PairsUpTo(at)'
  <2>1. \A i \in base .. at - 1 : i \in base .. (at - 1) - 1 \/ i + 1 = at
    BY FollowAssumption DEF TypeOK, FollowAssumption
  <2>2. PairsUpTo(at - 1)' /\ base' = base /\ at \in cuts'
    BY <1>1, <1>3
  <2> QED BY <2>1, <2>2, Zenon DEF PairsUpTo
<1>6. SentUpTo(at - 1)'
  BY <1>3
<1>7. MarkInv'
  <2>1. CASE wm' = wm
    <3> SUFFICES ASSUME wm # NoMark PROVE MarkInv'
      BY <2>1 DEF MarkInv
    <3>1. PICK m \in DOMAIN log : /\ log[m].ts = wm /\ SentUpTo(m - 1)
                                  /\ PairsUpTo(m) \/ (stage \in {"raw", "joined"} /\ m = pos)
      BY DEF LossInv, MarkInv
    <3>2. SentUpTo(m - 1)' /\ PairsUpTo(m)'
      BY <1>3, <1>5, <3>1
    <3> QED BY <1>1, <2>1, <3>1, <3>2 DEF MarkInv
  <2>2. CASE at \in DOMAIN log /\ wm' = log[at].ts
    BY <1>1, <1>5, <1>6, <2>2 DEF MarkInv
  <2> QED BY <2>1, <2>2
<1> QED BY <1>4, <1>7 DEF LossInv

(* The request is not behind the tick after the watermark, and is at it    *)
(* only when a second begins there.                                        *)
LEMMA AtMostNextTick ==
  ASSUME NEW ts \in Nat
  PROVE  /\ SinceTime(ts) \in Nat /\ SinceTime(ts) <= ts + 1
         /\ SinceTime(ts) = ts + 1 => SecondEnds(ts)
<1>1. \A n, t \in Nat : t # 0 => /\ (n \div t) * t <= n /\ (n \div t) * t \in Nat
                                 /\ (n \div t) * t = n => n % t = 0
  OBVIOUS
<1>2. ts + 1 \in Nat /\ TPS \in Nat /\ TPS # 0
  BY FollowAssumption DEF FollowAssumption
<1> QED BY <1>1, <1>2 DEF SinceTime, SecondEnds

(* A stream that resumes at the watermark skips nothing from its line on,  *)
(* but lines of the last tick of a second.                                 *)
LEMMA ResumesBehind ==
  ASSUME TypeOK, LogInv, NEW m \in DOMAIN log, log[m].ts = wm
  PROVE  /\ Skipped(SinceTime(wm)) \in 0 .. Len(log)
         /\ \A i \in DOMAIN log : m <= i /\ i <= Skipped(SinceTime(wm)) => Late(i)
<1>1. m \in 1 .. Len(log) /\ DOMAIN log = 1 .. Len(log) /\ Len(log) \in Nat /\ wm \in Nat
      /\ \A i \in 1 .. Len(log) : log[i].ts \in Nat
  BY LogFacts
<1>2. PICK since : since = SinceTime(wm)
  OBVIOUS
<1>3. since \in Nat /\ since <= wm + 1 /\ (since = wm + 1 => SecondEnds(wm))
  BY <1>1, <1>2, AtMostNextTick
<1>4. Skipped(since) \in 0 .. Len(log)
  BY SkippedLines
<1>5. ASSUME NEW i \in DOMAIN log, m <= i, i <= Skipped(since)
      PROVE  Late(i)
  <2>1. i \in 1 .. Len(log) /\ log[i].ts \in Nat /\ wm <= log[i].ts
    BY <1>1, <1>5 DEF LogInv
  <2>2. log[i].ts < since
    <3> SUFFICES ASSUME ~(log[i].ts < since) PROVE FALSE
      OBVIOUS
    <3>1. \A k \in 1 .. Len(log) : i <= k => ~(log[k].ts < since)
      <4> SUFFICES ASSUME NEW k \in 1 .. Len(log), i <= k PROVE ~(log[k].ts < since)
        OBVIOUS
      <4>1. log[i].ts <= log[k].ts /\ log[k].ts \in Nat
        BY <1>1, <2>1 DEF LogInv
      <4> QED BY <1>3, <2>1, <4>1
    <3>2. Skipped(since) < i
      BY <2>1, <3>1, SkippedLines
    <3> QED BY <1>4, <1>5, <2>1, <3>2
  <2>3. log[i].ts = wm /\ since = wm + 1
    BY <1>1, <1>3, <2>1, <2>2
  <2> QED BY <1>3, <2>3 DEF Late
<1> QED BY <1>2, <1>4, <1>5

(* A stream opens in front of every line that was not sent, but at the end *)
(* of a second.                                                            *)
LEMMA AttachKeeps ==
  ASSUME TypeOK, LossInv, Attach
  PROVE  LossInv'
<1>1. PICK k : k = Skipped(Since)
  OBVIOUS
<1>2. k \in Nat
  BY <1>1, SkippedLines, LogFacts
<1>3. /\ stage = "off" /\ stage' = "scan" /\ pos' = k /\ win' = newLineWindow(3, WindowBytes)
      /\ base' = IF wm = NoMark THEN k + 1 ELSE base
      /\ log' = log /\ now' = now /\ mode' = mode /\ wm' = wm
      /\ sent' = sent /\ pairs' = pairs /\ cuts' = cuts
  BY <1>1 DEF Attach, envVars
<1>4. LogInv' /\ ModeInv'
  BY <1>3 DEF LossInv, LogInv, ModeInv
<1>5. Holds(log', win', k + 1, k)
  BY <1>2, <1>3, EmptyWindow
<1>6. CASE wm = NoMark
  <2>1. SentUpTo(k)' /\ PairsUpTo(k)' /\ PairsUpTo(k + 1)'
    <3>1. base' = k + 1
      BY <1>3, <1>6
    <3>2. base' .. k = {} /\ base' .. k - 1 = {} /\ base' .. (k + 1) - 1 = {}
      BY <1>2, <3>1
    <3> QED BY <3>2 DEF SentUpTo, PairsUpTo
  <2>2. StreamInv'
    BY <1>3, <1>5, <2>1 DEF StreamInv
  <2>3. MarkInv'
    BY <1>3, <1>6 DEF MarkInv
  <2> QED BY <1>4, <2>2, <2>3 DEF LossInv
<1>7. CASE wm # NoMark
  <2>1. PICK m \in DOMAIN log : log[m].ts = wm /\ SentUpTo(m - 1) /\ PairsUpTo(m)
    BY <1>3, <1>7 DEF LossInv, MarkInv
  <2>2. /\ k \in 0 .. Len(log) /\ m \in Nat /\ Len(log) \in Nat /\ DOMAIN log = 1 .. Len(log)
        /\ \A i \in DOMAIN log : m <= i /\ i <= k => Late(i)
    <3>1. mode = "watch"
      BY <1>3, <1>7 DEF LossInv, ModeInv, TypeOK
    <3>2. Since = SinceTime(wm)
      BY <1>7, <3>1 DEF Since
    <3> QED BY <1>1, <2>1, <3>2, ResumesBehind, LogFacts DEF LossInv
  <2>3. base' = base /\ base \in Nat /\ base >= 1
    BY <1>3, <1>7, FollowAssumption DEF TypeOK, FollowAssumption
  <2>4. SentUpTo(k) /\ PairsUpTo(k) /\ PairsUpTo(k + 1)
    <3>1. \A i \in base .. k : i \in base .. m - 1 \/ Late(i)
      <4> SUFFICES ASSUME NEW i \in base .. k, ~(i \in base .. m - 1) PROVE Late(i)
        OBVIOUS
      <4>1. i \in 1 .. Len(log) /\ m <= i /\ i <= k
        BY <2>2, <2>3
      <4> QED BY <2>2, <4>1
    <3>2. base .. k - 1 \subseteq base .. k /\ (k + 1) - 1 = k
      BY <1>2, <2>3
    <3>3. SentUpTo(k)
      BY <2>1, <3>1, Zenon DEF SentUpTo
    <3>4. \A i \in base .. k : i \in pairs \/ i + 1 \in cuts \/ Late(i) \/ Wide(i)
      BY <2>1, <3>1, Zenon DEF PairsUpTo
    <3> QED BY <3>2, <3>3, <3>4 DEF PairsUpTo
  <2>5. SentUpTo(k)' /\ PairsUpTo(k)' /\ PairsUpTo(k + 1)'
    BY <1>3, <2>3, <2>4, HistoryGrows
  <2>6. StreamInv'
    BY <1>3, <1>5, <2>5 DEF StreamInv
  <2>7. SentUpTo(m - 1)' /\ PairsUpTo(m)'
    BY <1>3, <2>1, <2>3, HistoryGrows
  <2>8. MarkInv'
    BY <1>3, <2>1, <2>7 DEF MarkInv
  <2> QED BY <1>4, <2>6, <2>8 DEF LossInv
<1> QED BY <1>6, <1>7

(* A line that is read may move the watermark to itself.                   *)
LEMMA ReadKeeps ==
  ASSUME TypeOK, LossInv, Read
  PROVE  LossInv'
<1>1. PICK n : n = pos + 1
  OBVIOUS
<1>2. /\ stage = "scan" /\ pos < Len(log) /\ pos' = n /\ onLine(log[n].ts)
      /\ stage' = "raw" /\ log' = log /\ now' = now /\ mode' = mode /\ win' = win
      /\ sent' = sent /\ pairs' = pairs /\ cuts' = cuts /\ base' = base
  BY <1>1 DEF Read, envVars, hisVars
<1>3. n \in DOMAIN log /\ n - 1 = pos /\ n \in Nat /\ log[n].ts \in Nat
  <2>1. n \in 1 .. Len(log) /\ n - 1 = pos
    BY <1>1, <1>2, LogFacts
  <2> QED BY <2>1, LogFacts
<1>4. LogInv' /\ ModeInv'
  BY <1>2 DEF LossInv, LogInv, ModeInv
<1>5. \A k : (SentUpTo(k) => SentUpTo(k)') /\ (PairsUpTo(k) => PairsUpTo(k)')
  BY <1>2, HistoryGrows
<1>6. PICK f : /\ Holds(log, win, f, pos) /\ SentUpTo(pos) /\ PairsUpTo(pos)
               /\ f = n => PairsUpTo(n)
  BY <1>1, <1>2 DEF LossInv, StreamInv
<1>7. SentUpTo(n - 1)' /\ PairsUpTo(n - 1)' /\ (f = n => PairsUpTo(n)')
  BY <1>3, <1>5, <1>6
<1>8. StreamInv'
  BY <1>2, <1>3, <1>6, <1>7 DEF StreamInv
<1>9. MarkInv'
  <2>1. CASE wm' = log[n].ts
    BY <1>2, <1>3, <1>7, <2>1 DEF MarkInv
  <2>2. CASE wm' = wm
    <3> SUFFICES ASSUME wm # NoMark PROVE MarkInv'
      BY <2>2 DEF MarkInv
    <3>1. PICK m \in DOMAIN log : log[m].ts = wm /\ SentUpTo(m - 1) /\ PairsUpTo(m)
      BY <1>2 DEF LossInv, MarkInv
    <3>2. SentUpTo(m - 1)' /\ PairsUpTo(m)'
      BY <1>5, <3>1
    <3> QED BY <1>2, <2>2, <3>1, <3>2 DEF MarkInv
  <2> QED BY <1>2, <2>1, <2>2 DEF onLine
<1> QED BY <1>4, <1>8, <1>9 DEF LossInv

(* The line in hand is sent.  It goes into a window that held the line in  *)
(* front, unless it is the first of the stream.                            *)
LEMMA SendRawKeeps ==
  ASSUME TypeOK, WinInv, LossInv, SendRaw
  PROVE  LossInv'
<1>1. /\ stage = "raw" /\ sent' = sent \cup {pos}
      /\ win' = push(win, [lineNo |-> pos, len |-> log[pos].len])
      /\ stage' = IF joinedOk(win') THEN "joined" ELSE "scan"
      /\ log' = log /\ now' = now /\ mode' = mode /\ wm' = wm /\ pos' = pos
      /\ pairs' = pairs /\ cuts' = cuts /\ base' = base
  BY DEF SendRaw, envVars
<1>2. PICK n, p : n = pos - 1 /\ p = pos
  OBVIOUS
<1>3. n \in Nat /\ n + 1 = pos /\ pos \in Nat
  BY <1>1, <1>2, LogFacts DEF WinInv
<1>4. PICK f : /\ Holds(log, win, f, n) /\ SentUpTo(n) /\ PairsUpTo(n)
               /\ f = pos => PairsUpTo(pos)
  BY <1>1, <1>2 DEF LossInv, StreamInv
<1>5. f \in 1 .. n + 1
  BY <1>4 DEF Holds
<1>0. pos \in 1 .. Len(log) /\ DOMAIN log = 1 .. Len(log) /\ log[n + 1].len \in Nat
      /\ \A i \in 1 .. pos : log[i].len \in LineLens
  <2>1. pos \in 1 .. Len(log)
    BY <1>1, LogFacts DEF TypeOK, WinInv
  <2> QED BY <1>3, <2>1, LogFacts
<1>6. PICK g : /\ Holds(log, win', g, pos)
               /\ f <= n => g <= n \/ log[n].len + log[n + 1].len > WindowBytes
               /\ g \in f .. n + 1
  <2>1. PICK g : /\ Holds(log, push(win, [lineNo |-> n + 1, len |-> log[n + 1].len]), g, n + 1)
                 /\ f <= n => g <= n \/ log[n].len + log[n + 1].len > WindowBytes
                 /\ g \in f .. n + 1
    BY <1>0, <1>3, <1>4, NextLine
  <2> QED BY <1>1, <1>3, <2>1
<1>7. joinedOk(win') <=> g < pos
  BY <1>0, <1>3, <1>6, HeldLines
<1>8. \A k : (SentUpTo(k) => SentUpTo(k)') /\ (PairsUpTo(k) => PairsUpTo(k)')
  BY <1>1, HistoryGrows
<1>9. SentUpTo(pos)'
  <2>1. \A i \in base .. pos : i \in base .. n \/ i = pos
    BY <1>3, FollowAssumption DEF TypeOK, FollowAssumption
  <2>2. SentUpTo(n)' /\ base' = base /\ pos \in sent' /\ pos' = pos
    BY <1>1, <1>4, <1>8
  <2> QED BY <2>1, <2>2, Zenon DEF SentUpTo
<1>10. PairsUpTo(n)' /\ (f = p => PairsUpTo(p)') /\ pos' = p /\ pos' - 1 = n
  BY <1>1, <1>2, <1>4, <1>8
<1>11. LogInv' /\ ModeInv'
  BY <1>1 DEF LossInv, LogInv, ModeInv
<1>12. g < pos => StreamInv'
  BY <1>1, <1>2, <1>6, <1>7, <1>9, <1>10 DEF StreamInv
<1>13. ASSUME ~(g < pos)
       PROVE  StreamInv' /\ PairsUpTo(p)'
  <2>1. g = pos
    BY <1>3, <1>5, <1>6, <1>13
  <2>2. stage' = "scan" /\ g # pos + 1
    BY <1>1, <1>3, <1>7, <1>13, <2>1
  <2>3. PairsUpTo(p)'
    <3>1. CASE f = pos
      BY <1>2, <1>10, <3>1
    <3>2. CASE f # pos
      <4>1. f <= n /\ ~(g <= n) /\ f \in Nat
        BY <1>3, <1>5, <2>1, <3>2
      <4>2. n \in 1 .. Len(log) /\ n + 1 \in 1 .. Len(log)
        BY <1>0, <1>3, <1>5, <4>1
      <4>3. Wide(n)
        BY <1>0, <1>6, <4>1, <4>2 DEF Wide, TooWide
      <4>4. \A i \in base .. n : i \in base .. n - 1 \/ i = n
        BY <1>3, FollowAssumption DEF TypeOK, FollowAssumption
      <4>5. PairsUpTo(n + 1)
        BY <1>3, <1>4, <4>3, <4>4 DEF PairsUpTo
      <4> QED BY <1>2, <1>3, <1>8, <4>5
    <3> QED BY <3>1, <3>2
  <2> QED BY <1>1, <1>6, <1>9, <1>10, <2>2, <2>3 DEF StreamInv
<1>14. MarkInv'
  <2> SUFFICES ASSUME wm # NoMark PROVE MarkInv'
    BY <1>1 DEF MarkInv
  <2>1. PICK m \in DOMAIN log : log[m].ts = wm /\ SentUpTo(m - 1) /\ (PairsUpTo(m) \/ m = pos)
    BY DEF LossInv, MarkInv
  <2>2. SentUpTo(m - 1)' /\ (PairsUpTo(m) => PairsUpTo(m)')
    BY <1>8, <2>1
  <2>3. PairsUpTo(m)' \/ (stage' = "joined" /\ m = pos)
    <3>1. CASE PairsUpTo(m)
      BY <2>2, <3>1
    <3>2. CASE m = p /\ g < pos
      BY <1>1, <1>2, <1>7, <3>2
    <3>3. CASE m = p /\ ~(g < pos)
      BY <1>13, <3>3
    <3> QED BY <1>2, <2>1, <3>1, <3>2, <3>3
  <2> QED BY <1>1, <2>1, <2>2, <2>3 DEF MarkInv
<1> QED BY <1>11, <1>12, <1>13, <1>14 DEF LossInv

(* The joined view is sent: the line in hand and the one in front are in it.*)
LEMMA SendJoinedKeeps ==
  ASSUME TypeOK, LossInv, SendJoined
  PROVE  LossInv'
<1>1. /\ stage = "joined" /\ stage' = "scan"
      /\ pairs' = pairs \cup {i \in ToSet(joinedLines(win)) : i + 1 \in ToSet(joinedLines(win))}
      /\ log' = log /\ now' = now /\ mode' = mode /\ wm' = wm /\ pos' = pos /\ win' = win
      /\ sent' = sent /\ cuts' = cuts /\ base' = base
  BY DEF SendJoined, envVars
<1>0. PICK p : p = pos
  OBVIOUS
<1>2. PICK f : Holds(log, win, f, pos) /\ f < pos /\ SentUpTo(pos) /\ PairsUpTo(pos - 1)
  BY <1>1 DEF LossInv, StreamInv
<1>3. ToSet(joinedLines(win)) = f .. pos /\ f \in 1 .. pos + 1 /\ pos \in Nat
  <2>1. \A i \in 1 .. pos : log[i].len \in LineLens
    BY LogFacts DEF TypeOK
  <2> QED BY <1>2, <2>1, LogFacts, HeldLines DEF Holds
<1>4. \A k : (SentUpTo(k) => SentUpTo(k)') /\ (PairsUpTo(k) => PairsUpTo(k)')
  BY <1>1, HistoryGrows
<1>5. pos - 1 \in pairs'
  <2>1. pos - 1 \in f .. pos /\ (pos - 1) + 1 \in f .. pos
    BY <1>2, <1>3
  <2> QED BY <1>1, <1>3, <2>1
<1>6. PairsUpTo(p)'
  <2>1. \A i \in base .. pos - 1 : i \in base .. (pos - 1) - 1 \/ i = pos - 1
    BY <1>3, FollowAssumption DEF TypeOK, FollowAssumption
  <2>2. PairsUpTo(p - 1)' /\ base' = base /\ p - 1 \in pairs'
    BY <1>0, <1>1, <1>2, <1>4, <1>5
  <2> QED BY <1>0, <2>1, <2>2, Zenon DEF PairsUpTo
<1>7. SentUpTo(p)'
  BY <1>0, <1>2, <1>4
<1>8. LogInv' /\ ModeInv'
  BY <1>1 DEF LossInv, LogInv, ModeInv
<1>9. StreamInv'
  <2>1. f # pos + 1
    BY <1>2, <1>3
  <2> QED BY <1>0, <1>1, <1>2, <1>6, <1>7, <2>1 DEF StreamInv
<1>10. MarkInv'
  <2> SUFFICES ASSUME wm # NoMark PROVE MarkInv'
    BY <1>1 DEF MarkInv
  <2>1. PICK m \in DOMAIN log : log[m].ts = wm /\ SentUpTo(m - 1) /\ (PairsUpTo(m) \/ m = pos)
    BY DEF LossInv, MarkInv
  <2>2. SentUpTo(m - 1)' /\ PairsUpTo(m)'
    BY <1>0, <1>4, <1>6, <2>1
  <2> QED BY <1>1, <2>1, <2>2 DEF MarkInv
<1> QED BY <1>8, <1>9, <1>10 DEF LossInv

(* Every step keeps what was sent and joined behind the watermark.         *)
LEMMA LossStep ==
  "stamp" \notin Tears => (TypeOK /\ WinInv /\ LossInv /\ [Next]_vars => LossInv')
<1> SUFFICES ASSUME "stamp" \notin Tears, TypeOK, WinInv, LossInv, [Next]_vars PROVE LossInv'
  OBVIOUS
<1>1. pos \in Nat /\ pos + 1 \in Nat /\ (pos + 1) - 1 = pos /\ DOMAIN log = 1 .. Len(log)
      /\ Len(log) \in Nat /\ now \in Nat
  BY LogFacts
<1>2. CASE Tick
  <2>1. /\ now' = now + 1 /\ log' = log
        /\ UNCHANGED <<mode, wm, stage, pos, win, sent, pairs, cuts, base>>
    BY <1>2 DEF Tick, hisVars
  <2>2. LogInv'
    <3>1. \A i \in DOMAIN log : log[i].ts <= now + 1
      BY <1>1, LogFacts DEF LossInv, LogInv
    <3> QED BY <2>1, <3>1 DEF LossInv, LogInv
  <2> QED BY <2>1, <2>2, OutsideSteps
<1>3. CASE \E len \in LineLens : Write(len)
  <2>1. PICK l \in LineLens : Write(l)
    BY <1>3
  <2>2. PICK new, n : new = [ts |-> now, len |-> l] /\ n = Len(log)
    OBVIOUS
  <2>3. /\ log' = Append(log, new) /\ now' = now /\ new.ts = now
        /\ UNCHANGED <<mode, wm, stage, pos, win, sent, pairs, cuts, base>>
    BY <2>1, <2>2 DEF Write, hisVars
  <2>4. log \in Seq(Lines) /\ new \in Lines
    BY <2>1, <2>2, FollowAssumption DEF TypeOK, Lines, FollowAssumption
  <2>5. /\ DOMAIN log' = 1 .. n + 1 /\ DOMAIN log = 1 .. n /\ n \in Nat
        /\ \A i \in 1 .. n : log'[i] = log[i]
        /\ log'[n + 1] = new
    BY <2>2, <2>3, <2>4
  <2>6. LogInv'
    <3>1. \A i \in 1 .. n + 1 : i \in 1 .. n \/ i = n + 1
      BY <2>5
    <3>2. \A i, j \in 1 .. n : i <= j => log[i].ts <= log[j].ts
      BY <2>5 DEF LossInv, LogInv
    <3>3. \A i \in 1 .. n : log[i].ts <= now
      BY <2>5 DEF LossInv, LogInv
    <3>4. \A i \in 1 .. n + 1 : log'[i].ts <= now
      BY <1>1, <2>3, <2>5, <3>1, <3>3
    <3>5. \A i, j \in 1 .. n + 1 : i <= j => log'[i].ts <= log'[j].ts
      <4> SUFFICES ASSUME NEW i \in 1 .. n + 1, NEW j \in 1 .. n + 1, i <= j
                   PROVE  log'[i].ts <= log'[j].ts
        OBVIOUS
      <4>1. CASE j = n + 1
        BY <2>3, <2>5, <3>4, <4>1
      <4>2. CASE j \in 1 .. n
        <5>1. i \in 1 .. n
          BY <2>5, <4>2
        <5> QED BY <2>5, <3>2, <4>2, <5>1
      <4> QED BY <3>1, <4>1, <4>2
    <3> QED BY <2>3, <2>5, <3>4, <3>5 DEF LogInv
  <2>7. DOMAIN log \subseteq DOMAIN log' /\ \A i \in DOMAIN log : log'[i] = log[i]
    BY <2>5
  <2> QED BY <2>3, <2>6, <2>7, OutsideSteps
<1>4. CASE Attach
  BY <1>4, AttachKeeps
<1>5. CASE SweepOpenFails
  <2>1. /\ stage = "off" /\ mode' = "watch"
        /\ UNCHANGED <<log, now, wm, stage, pos, win, sent, pairs, cuts, base>>
    BY <1>5 DEF SweepOpenFails, envVars, hisVars
  <2>2. \A k : (SentUpTo(k) => SentUpTo(k)') /\ (PairsUpTo(k) => PairsUpTo(k)')
    BY <2>1, HistoryGrows
  <2>3. MarkInv'
    BY <2>1, <2>2 DEF LossInv, MarkInv
  <2> QED BY <2>1, <2>3 DEF LossInv, LogInv, ModeInv, StreamInv
<1>6. CASE Read
  BY <1>6, ReadKeeps
<1>7. ASSUME stage = "scan", End(pos + 1),
             wm' = wm \/ (pos + 1 \in DOMAIN log /\ wm' = log[pos + 1].ts)
      PROVE  LossInv'
  <2>1. PICK at : at = pos + 1
    OBVIOUS
  <2>2. SentUpTo(at - 1) /\ PairsUpTo(at - 1)
    BY <1>1, <1>7, <2>1 DEF LossInv, StreamInv
  <2>3. at \in Nat /\ End(at) /\ (wm' = wm \/ (at \in DOMAIN log /\ wm' = log[at].ts))
    BY <1>1, <1>7, <2>1
  <2>4. ~(stage \in {"raw", "joined"})
    BY <1>7
  <2> QED BY <2>2, <2>3, <2>4, EndKeeps
<1>8. CASE ReadLong
  BY <1>7, <1>8 DEF ReadLong
<1>9. CASE \E where \in Tears : ReadTorn(where)
  <2>1. PICK where \in Tears : ReadTorn(where)
    BY <1>9
  <2>2. where # "stamp"
    BY <2>1
  <2>3. stage = "scan" /\ pos < Len(log) /\ End(pos + 1) /\ onLine(log[pos + 1].ts)
    BY <2>1, <2>2 DEF ReadTorn
  <2>4. wm' = wm \/ (pos + 1 \in DOMAIN log /\ wm' = log[pos + 1].ts)
    BY <1>1, <2>3 DEF onLine
  <2> QED BY <1>7, <2>3, <2>4
<1>10. CASE StreamEnds
  BY <1>7, <1>10 DEF StreamEnds
<1>11. CASE Expire
  <2>1. log' = log /\ now' = now /\ UNCHANGED <<mode, wm, stage, pos, win, sent, pairs, cuts, base>>
    BY <1>11 DEF Expire, envVars, hisVars
  <2>2. LogInv'
    BY <2>1 DEF LossInv, LogInv
  <2> QED BY <2>1, <2>2, OutsideSteps
<1>12. CASE SendRaw
  BY <1>12, SendRawKeeps
<1>13. CASE SendJoined
  BY <1>13, SendJoinedKeeps
<1>14. CASE SendCancelled
  <2>1. stage \in {"raw", "joined"} /\ wm' = wm /\ End(pos)
    BY <1>14 DEF SendCancelled
  <2>2. SentUpTo(pos - 1) /\ PairsUpTo(pos - 1)
    <3>1. CASE stage = "raw"
      BY <3>1 DEF LossInv, StreamInv
    <3>2. CASE stage = "joined"
      <4>1. SentUpTo(pos) /\ PairsUpTo(pos - 1)
        BY <3>2 DEF LossInv, StreamInv
      <4>2. base .. pos - 1 \subseteq base .. pos
        BY <1>1, FollowAssumption DEF TypeOK, FollowAssumption
      <4> QED BY <4>1, <4>2 DEF SentUpTo
    <3> QED BY <2>1, <3>1, <3>2
  <2> QED BY <1>1, <2>1, <2>2, EndKeeps
<1>15. CASE UNCHANGED vars
  <2>1. log' = log /\ now' = now /\ UNCHANGED <<mode, wm, stage, pos, win, sent, pairs, cuts, base>>
    BY <1>15 DEF vars, envVars, hisVars
  <2>2. LogInv'
    BY <2>1 DEF LossInv, LogInv
  <2> QED BY <2>1, <2>2, OutsideSteps
<1> QED BY <1>2, <1>3, <1>4, <1>5, <1>6, <1>8, <1>9, <1>10, <1>11, <1>12, <1>13, <1>14, <1>15
        DEF Next, StreamStep

(* In every reachable state what is in front of the watermark was sent and *)
(* joined, or is in the hands of the stream, unless a timestamp was torn.  *)
THEOREM FollowInvariance ==
  "stamp" \notin Tears => (Spec => [](TypeOK /\ WinInv /\ LossInv))
<1> SUFFICES ASSUME "stamp" \notin Tears PROVE Spec => [](TypeOK /\ WinInv /\ LossInv)
  OBVIOUS
<1>1. TypeOK /\ WinInv /\ LossInv /\ [Next]_vars => (TypeOK /\ WinInv /\ LossInv)'
  BY TypeStep, LossStep
<1>2. Init => TypeOK /\ WinInv /\ LossInv
  BY TypeInit, LossInit
<1> QED BY <1>1, <1>2, PTL DEF Spec

(* What a stream that resumes would skip lies in front of the line of the  *)
(* watermark, or is of the last tick of a second.                          *)
LEMMA SkippedIsPast ==
  ASSUME TypeOK, LossInv, stage = "off", wm # NoMark, NEW i \in DOMAIN log, base <= i, i < Resume
  PROVE  (i \in sent \/ Late(i)) /\ (i \in pairs \/ i + 1 \in cuts \/ Late(i) \/ Wide(i))
<1>1. PICK m \in DOMAIN log : log[m].ts = wm /\ SentUpTo(m - 1) /\ PairsUpTo(m)
  BY DEF LossInv, MarkInv
<1>2. Since = SinceTime(wm)
  BY DEF LossInv, ModeInv, TypeOK, Since
<1>3. /\ Skipped(Since) \in 0 .. Len(log)
      /\ \A k \in DOMAIN log : m <= k /\ k <= Skipped(Since) => Late(k)
  BY <1>1, <1>2, ResumesBehind DEF LossInv
<1>4. m \in Nat /\ i \in Nat /\ base \in Nat /\ Len(log) \in Nat
  <2>1. DOMAIN log = 1 .. Len(log) /\ Len(log) \in Nat
    BY LogFacts
  <2>2. base \in Nat
    BY FollowAssumption DEF TypeOK, FollowAssumption
  <2> QED BY <1>1, <2>1, <2>2
<1>5. i <= Skipped(Since)
  BY <1>3, <1>4 DEF Resume
<1>6. CASE m <= i
  BY <1>3, <1>5, <1>6
<1>7. CASE ~(m <= i)
  <2>1. i \in base .. m - 1
    BY <1>4, <1>7
  <2> QED BY <1>1, <2>1 DEF SentUpTo, PairsUpTo
<1> QED BY <1>6, <1>7

(* No line is lost between two streams but at the end of a second, though  *)
(* the watermark moves before a line is sent and the send may be           *)
(* cancelled: every other line the next stream will not ask for again was  *)
(* sent, unless a timestamp was torn.                                      *)
THEOREM NothingIsLost == "stamp" \notin Tears => (Spec => []NoGap)
<1>1. TypeOK /\ WinInv /\ LossInv => NoGap
  BY SkippedIsPast DEF NoGap, Late
<1> QED BY <1>1, FollowInvariance, PTL

(* Two adjacent lines that will not be read again were joined, or a stream *)
(* ended between them, or behind the first at the end of its second, or    *)
(* they are longer than the window, unless a timestamp was torn.           *)
THEOREM NoPairIsLost == "stamp" \notin Tears => (Spec => []LostPairWasCut)
<1>1. TypeOK /\ WinInv /\ LossInv => LostPairWasCut
  <2> SUFFICES ASSUME TypeOK, LossInv, stage = "off", wm # NoMark,
                      NEW i \in DOMAIN log, base <= i, i + 1 < Resume
               PROVE  i \in pairs \/ i + 1 \in cuts \/ SecondEnds(log[i].ts) \/ TooWide(i)
    BY DEF LostPairWasCut
  <2>1. i < Resume
    <3>1. Skipped(Since) \in 0 .. Len(log)
      BY SkippedLines
    <3>2. i \in Nat /\ Len(log) \in Nat
      BY LogFacts
    <3> QED BY <3>1, <3>2 DEF Resume
  <2> QED BY <2>1, SkippedIsPast DEF Late, Wide
<1> QED BY <1>1, FollowInvariance, PTL

-----------------------------------------------------------------------------
(* Joined lines.                                                           *)

\* g[k] are the first k of the sequences ss of elements of S, joined, up to n.
Joins(S, ss, n, g) ==
  /\ g \in [0 .. n -> Seq(S)]
  /\ g[0] = <<>>
  /\ \A i \in 1 .. n : g[i] = g[i - 1] \o ss[i]

(* There is such a function.                                               *)
LEMMA JoinsNone ==
  ASSUME NEW S, NEW ss
  PROVE  \E g : Joins(S, ss, 0, g)
<1>1. PICK g : g = [i \in 0 .. 0 |-> <<>>]
  OBVIOUS
<1>2. g \in [0 .. 0 -> Seq(S)] /\ g[0] = <<>> /\ 1 .. 0 = {}
  BY <1>1
<1> QED BY <1>2 DEF Joins

\* g, with one more.
With(g, n, x) == [i \in 0 .. n + 1 |-> IF i = n + 1 THEN x ELSE g[i]]

(* With one sequence more it is continued.                                 *)
LEMMA JoinsNext ==
  ASSUME NEW S, NEW ss, NEW n \in Nat, NEW g, Joins(S, ss, n, g), ss[n + 1] \in Seq(S)
  PROVE  Joins(S, ss, n + 1, With(g, n, g[n] \o ss[n + 1]))
<1>1. PICK x : x = g[n] \o ss[n + 1]
  OBVIOUS
<1>2. /\ g \in [0 .. n -> Seq(S)] /\ g[0] = <<>> /\ g[n] \in Seq(S)
      /\ \A i \in 1 .. n : g[i] = g[i - 1] \o ss[i]
  <2>1. /\ g \in [0 .. n -> Seq(S)] /\ g[0] = <<>>
        /\ \A i \in 1 .. n : g[i] = g[i - 1] \o ss[i]
    BY Zenon DEF Joins
  <2>2. n \in 0 .. n
    OBVIOUS
  <2>3. g[n] \in Seq(S)
    BY <2>1, <2>2
  <2> QED BY <2>1, <2>3
<1>3. x \in Seq(S)
  BY <1>1, <1>2
<1>4. PICK h : h = With(g, n, x)
  OBVIOUS
<1>5. h \in [0 .. n + 1 -> Seq(S)] /\ h[0] = <<>> /\ h[n + 1] = x
      /\ \A i \in 0 .. n : h[i] = g[i]
  BY <1>2, <1>3, <1>4 DEF With
<1>6. \A i \in 1 .. n : i - 1 \in 0 .. n /\ i \in 0 .. n
  OBVIOUS
<1>7. \A i \in 1 .. n : h[i] = h[i - 1] \o ss[i]
  BY <1>2, <1>5, <1>6, Zenon
<1>8. (n + 1) - 1 = n /\ n \in 0 .. n
  OBVIOUS
<1>9. h[n + 1] = h[(n + 1) - 1] \o ss[n + 1]
  BY <1>1, <1>5, <1>8, Zenon
<1>10. \A i \in 1 .. n + 1 : i \in 1 .. n \/ i = n + 1
  OBVIOUS
<1>11. \A i \in 1 .. n + 1 : h[i] = h[i - 1] \o ss[i]
  BY <1>7, <1>9, <1>10, Zenon
<1> QED BY <1>1, <1>4, <1>5, <1>11, Zenon DEF Joins

(* So there is one for all of them.                                        *)
LEMMA JoinsExists ==
  ASSUME NEW S, NEW ss \in Seq(Seq(S))
  PROVE  \E g : Joins(S, ss, Len(ss), g)
<1>1. Len(ss) \in Nat /\ \A i \in 1 .. Len(ss) : ss[i] \in Seq(S)
  OBVIOUS
<1>2. PICK T : T = {k \in Nat : k <= Len(ss) => \E g : Joins(S, ss, k, g)}
  OBVIOUS
<1>3. 0 \in T
  BY <1>2, JoinsNone
<1>4. \A k \in T : k + 1 \in T
  <2> SUFFICES ASSUME NEW k \in T PROVE k + 1 \in T
    OBVIOUS
  <2>1. k \in Nat /\ k + 1 \in Nat
    BY <1>2
  <2>2. ASSUME k + 1 <= Len(ss) PROVE \E g : Joins(S, ss, k + 1, g)
    <3>1. k <= Len(ss) /\ k + 1 \in 1 .. Len(ss)
      BY <1>1, <2>1, <2>2
    <3>2. PICK g : Joins(S, ss, k, g)
      BY <1>2, <3>1
    <3>3. ss[k + 1] \in Seq(S)
      BY <1>1, <3>1
    <3> QED BY <2>1, <3>2, <3>3, JoinsNext
  <2> QED BY <1>2, <2>1, <2>2
<1>5. T = Nat
  <2>1. T \subseteq Nat
    BY <1>2
  <2> QED BY <1>3, <1>4, <2>1, SetInduction
<1> QED BY <1>1, <1>2, <1>5

(* It is what FlattenSeq computes.                                         *)
LEMMA JoinsIsFlat ==
  ASSUME NEW S, NEW ss \in Seq(Seq(S)), NEW g, Joins(S, ss, Len(ss), g)
  PROVE  FlattenSeq(ss) = g[Len(ss)]
<1> DEFINE F(f) == [i \in 1 .. Len(ss) |-> IF i = 1 THEN ss[i] ELSE f[i - 1] \o ss[i]]
<1>1. CASE Len(ss) = 0
  <2>1. ss = <<>>
    BY <1>1
  <2>2. g[0] = <<>>
    BY DEF Joins
  <2> QED BY <1>1, <2>1, <2>2 DEF FlattenSeq
<1>2. CASE Len(ss) # 0
  <2>1. FlattenSeq(ss) = (CHOOSE f : f = F(f))[Len(ss)]
    BY <1>2, Zenon DEF FlattenSeq
  <2>2. Len(ss) \in Nat \ {0} /\ \A i \in 1 .. Len(ss) : ss[i] \in Seq(S)
    BY <1>2
  <2>3. PICK h : h = [i \in 1 .. Len(ss) |-> g[i]]
    OBVIOUS
  <2>4. g[1] = ss[1]
    <3>1. 1 \in 1 .. Len(ss) /\ 1 - 1 = 0
      BY <2>2
    <3>2. g[1] = <<>> \o ss[1] /\ ss[1] \in Seq(S)
      BY <2>2, <3>1 DEF Joins
    <3> QED BY <3>2
  <2>5. h = F(h)
    <3> SUFFICES ASSUME NEW i \in 1 .. Len(ss)
                 PROVE  g[i] = IF i = 1 THEN ss[i] ELSE h[i - 1] \o ss[i]
      BY <2>3
    <3>1. CASE i = 1
      BY <2>4, <3>1
    <3>2. CASE i # 1
      <4>1. i - 1 \in 1 .. Len(ss)
        BY <2>2, <3>2
      <4>2. g[i] = g[i - 1] \o ss[i]
        BY DEF Joins
      <4> QED BY <2>3, <3>2, <4>1, <4>2
    <3> QED BY <3>1, <3>2
  <2>6. PICK f : f = (CHOOSE u : u = F(u))
    OBVIOUS
  <2>7. f = F(f)
    BY <2>5, <2>6, Zenon
  <2>8. PICK T : T = {k \in Nat : k + 1 <= Len(ss) => f[k + 1] = g[k + 1]}
    OBVIOUS
  <2>9. 0 \in T
    BY <2>2, <2>4, <2>7, <2>8
  <2>10. \A k \in T : k + 1 \in T
    <3> SUFFICES ASSUME NEW k \in T, (k + 1) + 1 <= Len(ss)
                 PROVE  f[(k + 1) + 1] = g[(k + 1) + 1]
      BY <2>8
    <3>1. k \in Nat /\ f[k + 1] = g[k + 1]
      BY <2>2, <2>8
    <3>2. PICK i : i = (k + 1) + 1
      OBVIOUS
    <3>3. i \in 1 .. Len(ss) /\ i # 1 /\ i - 1 = k + 1
      BY <2>2, <3>1, <3>2
    <3>4. f[i] = f[i - 1] \o ss[i]
      BY <2>7, <3>3
    <3>5. g[i] = g[i - 1] \o ss[i]
      BY <3>3 DEF Joins
    <3> QED BY <3>1, <3>2, <3>3, <3>4, <3>5, Zenon
  <2>11. T = Nat
    <3>1. T \subseteq Nat
      BY <2>8
    <3> QED BY <2>9, <2>10, <3>1, SetInduction
  <2>12. f[Len(ss)] = g[Len(ss)]
    <3>1. Len(ss) - 1 \in T /\ (Len(ss) - 1) + 1 = Len(ss)
      BY <2>2, <2>11
    <3> QED BY <2>2, <2>8, <3>1
  <2> QED BY <2>1, <2>6, <2>12
<1> QED BY <1>1, <1>2

(* FlattenSeq joins sequences one behind the other.                        *)
LEMMA FlatSteps ==
  ASSUME NEW S, NEW ss \in Seq(Seq(S)), NEW t \in Seq(S)
  PROVE  /\ FlattenSeq(ss) \in Seq(S)
         /\ FlattenSeq(Append(ss, t)) = FlattenSeq(ss) \o t
<1>1. PICK g : Joins(S, ss, Len(ss), g)
  BY JoinsExists
<1>2. PICK n, ts : n = Len(ss) /\ ts = Append(ss, t)
  OBVIOUS
<1>3. n \in Nat /\ n + 1 \in 0 .. n + 1
  BY <1>2
<1>4. FlattenSeq(ss) = g[n]
  BY <1>1, <1>2, JoinsIsFlat
<1>5. g[n] \in Seq(S)
  BY <1>1, <1>2, <1>3 DEF Joins
<1>6. /\ ts \in Seq(Seq(S)) /\ Len(ts) = n + 1 /\ ts[n + 1] = t
      /\ \A i \in 1 .. n : ts[i] = ss[i]
  BY <1>2, <1>3
<1>7. Joins(S, ts, n, g)
  BY <1>1, <1>2, <1>6 DEF Joins
<1>8. PICK h : h = With(g, n, g[n] \o ts[n + 1])
  OBVIOUS
<1>9. Joins(S, ts, n + 1, h)
  BY <1>3, <1>6, <1>7, <1>8, JoinsNext
<1>10. h[n + 1] = g[n] \o t
  BY <1>3, <1>6, <1>8, Zenon DEF With
<1>11. FlattenSeq(ts) = h[n + 1]
  BY <1>6, <1>9, JoinsIsFlat
<1> QED BY <1>2, <1>4, <1>5, <1>10, <1>11

(* Lines that are not there.                                               *)
LEMMA JoinedNone ==
  ASSUME NEW s, NEW i \in Int, NEW n \in Int, n < i
  PROVE  Joined(s, i, n) = <<>>
<1>1. SubSeq(s, i, n) = <<>>
  BY SubSeqEmpty
<1> QED BY <1>1 DEF Joined, FlattenSeq

(* With one line more.                                                     *)
LEMMA JoinedNext ==
  ASSUME NEW S, NEW s \in Seq(Seq(S)), NEW n \in 0 .. Len(s) - 1, NEW i \in 1 .. n + 1
  PROVE  Joined(s, i, n + 1) = Joined(s, i, n) \o s[n + 1]
<1>1. \A k \in 1 .. Len(s) : s[k] \in Seq(S)
  OBVIOUS
<1>2. PICK a, b, t : a = SubSeq(s, i, n) /\ b = SubSeq(s, i, n + 1) /\ t = s[n + 1]
  OBVIOUS
<1>3. n \in Nat /\ n + 1 \in 1 .. Len(s) /\ n - i + 1 \in Nat /\ t \in Seq(S)
  BY <1>1, <1>2
<1>4. /\ a \in Seq(Seq(S)) /\ Len(a) = n - i + 1
      /\ \A k \in 1 .. n - i + 1 : a[k] = s[i + k - 1]
  <2>1. \A k \in i .. n : s[k] \in Seq(S)
    BY <1>1
  <2> QED BY <1>2, <1>3, <2>1, SubSeqProperties
<1>5. /\ b \in Seq(Seq(S)) /\ Len(b) = n - i + 2
      /\ \A k \in 1 .. n - i + 2 : b[k] = s[i + k - 1]
  <2>1. \A k \in i .. n + 1 : s[k] \in Seq(S)
    BY <1>1
  <2>2. n + 1 \in Int /\ i <= n + 1 /\ (n + 1) - i + 1 = n - i + 2
    BY <1>3
  <2> QED BY <1>2, <2>1, <2>2, SubSeqProperties
<1>6. b = Append(a, t)
  <2>0. PICK c, U : c = Append(a, t) /\ U = Seq(S)
    OBVIOUS
  <2>1. /\ c \in Seq(U) /\ Len(c) = n - i + 2
        /\ \A k \in 1 .. n - i + 1 : c[k] = a[k]
        /\ c[n - i + 2] = t
    <3>1. a \in Seq(U) /\ t \in U
      BY <1>3, <1>4, <2>0
    <3>2. /\ c \in Seq(U) /\ Len(c) = Len(a) + 1
          /\ \A k \in 1 .. Len(a) : c[k] = a[k]
          /\ c[Len(a) + 1] = t
      BY <2>0, <3>1, AppendProperties
    <3>3. Len(a) = n - i + 1 /\ Len(a) + 1 = n - i + 2
      BY <1>3, <1>4
    <3> QED BY <3>2, <3>3, Zenon
  <2>2. \A k \in 1 .. n - i + 2 : k \in 1 .. n - i + 1 \/ k = n - i + 2
    BY <1>3
  <2>3. b[n - i + 2] = t
    <3>1. n - i + 2 \in 1 .. n - i + 2 /\ i + (n - i + 2) - 1 = n + 1
      BY <1>3
    <3> QED BY <1>2, <1>5, <3>1
  <2>4. \A k \in 1 .. n - i + 2 : b[k] = c[k]
    <3>1. \A k \in 1 .. n - i + 1 : b[k] = c[k]
      BY <1>3, <1>4, <1>5, <2>1
    <3> QED BY <2>1, <2>2, <2>3, <3>1
  <2>5. b \in Seq(U) /\ Len(b) = Len(c)
    BY <1>5, <2>0, <2>1
  <2>6. \A k \in 1 .. Len(b) : b[k] = c[k]
    BY <1>5, <2>4
  <2>7. b = c
    BY <2>1, <2>5, <2>6, SeqEqual
  <2> QED BY <2>0, <2>7
<1> QED BY <1>2, <1>3, <1>4, <1>6, FlatSteps DEF Joined

(* Joined lines are a text.                                                *)
LEMMA JoinedText ==
  ASSUME NEW S, NEW s \in Seq(Seq(S)), NEW n \in 0 .. Len(s), NEW i \in 1 .. n + 1
  PROVE  Joined(s, i, n) \in Seq(S)
<1>1. \A k \in i .. n : s[k] \in Seq(S)
  OBVIOUS
<1>2. SubSeq(s, i, n) \in Seq(Seq(S))
  BY <1>1, SubSeqProperties
<1>3. <<>> \in Seq(S)
  OBVIOUS
<1> QED BY <1>2, <1>3, FlatSteps DEF Joined

(* Appending may be grouped either way; the halves are named p and q.      *)
LEMMA ConcatRegroups ==
  ASSUME NEW S, NEW x \in Seq(S), NEW y \in Seq(S), NEW z \in Seq(S),
         NEW p, NEW q, p = x \o y, q = y \o z
  PROVE  p \o z = x \o q
BY ConcatAssociative, SMTT(30)

(* Cut in front of line k.                                                 *)
LEMMA JoinedCut ==
  ASSUME NEW S, NEW s \in Seq(Seq(S)), NEW n \in 0 .. Len(s),
         NEW k \in 1 .. n + 1, NEW i \in 1 .. k
  PROVE  Joined(s, i, n) = Joined(s, i, k - 1) \o Joined(s, k, n)
<1>1. PICK a : a = Joined(s, i, k - 1)
  OBVIOUS
<1>2. a \in Seq(S)
  <2>1. PICK m : m = k - 1
    OBVIOUS
  <2>2. m \in 0 .. Len(s) /\ i \in 1 .. m + 1
    BY <2>1
  <2> QED BY <1>1, <2>1, <2>2, JoinedText
<1>3. PICK T : T = {d \in Nat : k - 1 + d <= Len(s) =>
                      Joined(s, i, k - 1 + d) = a \o Joined(s, k, k - 1 + d)}
  OBVIOUS
<1>4. 0 \in T
  <2>1. Joined(s, k, k - 1) = <<>> /\ k - 1 + 0 = k - 1
    BY JoinedNone
  <2>2. a \o <<>> = a
    BY <1>2
  <2> QED BY <1>1, <1>3, <2>1, <2>2
<1>5. \A d \in T : d + 1 \in T
  <2> SUFFICES ASSUME NEW d \in T PROVE d + 1 \in T
    OBVIOUS
  <2>1. d \in Nat /\ d + 1 \in Nat
    BY <1>3
  <2>2. PICK m : m = k - 1 + d
    OBVIOUS
  <2>3. ASSUME k - 1 + (d + 1) <= Len(s)
        PROVE  Joined(s, i, m + 1) = a \o Joined(s, k, m + 1)
    <3>1. /\ m \in 0 .. Len(s) - 1 /\ m \in 0 .. Len(s) /\ m + 1 \in 1 .. Len(s)
          /\ i \in 1 .. m + 1 /\ k \in 1 .. m + 1 /\ m <= Len(s)
      BY <2>1, <2>2, <2>3
    <3>2. PICK b, t : b = Joined(s, k, m) /\ t = s[m + 1]
      OBVIOUS
    <3>3. b \in Seq(S)
      BY <3>1, <3>2, JoinedText
    <3>4. t \in Seq(S)
      BY <3>1, <3>2
    <3>5. Joined(s, i, m) = a \o b
      BY <1>3, <2>2, <3>1, <3>2
    <3>6. PICK p, q : p = a \o b /\ q = b \o t
      OBVIOUS
    <3>7. Joined(s, i, m + 1) = p \o t
      BY <3>1, <3>2, <3>5, <3>6, JoinedNext
    <3>8. Joined(s, k, m + 1) = q
      BY <3>1, <3>2, <3>6, JoinedNext
    <3>9. p \o t = a \o q
      BY <1>2, <3>3, <3>4, <3>6, ConcatRegroups
    <3> QED BY <3>7, <3>8, <3>9
  <2>4. m + 1 = k - 1 + (d + 1)
    BY <2>1, <2>2
  <2> QED BY <1>3, <2>1, <2>3, <2>4
<1>6. T = Nat
  <2>1. T \subseteq Nat
    BY <1>3
  <2> QED BY <1>4, <1>5, <2>1, SetInduction
<1>7. n - (k - 1) \in Nat /\ k - 1 + (n - (k - 1)) = n /\ n <= Len(s)
  OBVIOUS
<1> QED BY <1>1, <1>3, <1>6, <1>7

(* A stream that goes on does not change what its lines were.              *)
LEMMA JoinedStays ==
  ASSUME NEW S, NEW s \in Seq(Seq(S)), NEW t \in Seq(S),
         NEW n \in 0 .. Len(s), NEW i \in 1 .. n + 1
  PROVE  Joined(Append(s, t), i, n) = Joined(s, i, n)
<1>1. PICK u : u = Append(s, t)
  OBVIOUS
<1>2. u \in Seq(Seq(S)) /\ \A k \in 1 .. Len(s) : u[k] = s[k] /\ s[k] \in Seq(S)
  BY <1>1
<1>3. \A k \in i .. n : u[k] = s[k] /\ u[k] \in Seq(S) /\ s[k] \in Seq(S)
  BY <1>2
<1>4. PICK a, b : a = SubSeq(s, i, n) /\ b = SubSeq(u, i, n)
  OBVIOUS
<1>5. /\ a \in Seq(Seq(S)) /\ Len(a) = n - i + 1
      /\ \A k \in 1 .. n - i + 1 : a[k] = s[i + k - 1]
  BY <1>3, <1>4, SubSeqProperties
<1>6. /\ b \in Seq(Seq(S)) /\ Len(b) = n - i + 1
      /\ \A k \in 1 .. n - i + 1 : b[k] = u[i + k - 1]
  BY <1>3, <1>4, SubSeqProperties
<1>7. \A k \in 1 .. n - i + 1 : i + k - 1 \in i .. n
  OBVIOUS
<1>8. a = b
  BY <1>3, <1>5, <1>6, <1>7
<1> QED BY <1>1, <1>4, <1>8 DEF Joined

-----------------------------------------------------------------------------
(* The window of a stream of lines.                                        *)

\* The lengths of the first lines of a stream together.
Lens(s) == [n \in Nat |-> Len(Joined(s, 1, IF n <= Len(s) THEN n ELSE Len(s)))]

(* They are what the lines are long.                                       *)
LEMMA LensAre ==
  ASSUME NEW S, NEW s \in Seq(Seq(S)), NEW n \in 0 .. Len(s), NEW i \in 1 .. n + 1
  PROVE  /\ Lens(s)[n] \in Nat /\ Lens(s)[i - 1] \in Nat
         /\ Lens(s)[i - 1] <= Lens(s)[n]
         /\ Len(Joined(s, i, n)) = Lens(s)[n] - Lens(s)[i - 1]
<1>1. PICK a, b, c : /\ a = Joined(s, 1, i - 1) /\ b = Joined(s, i, n)
                     /\ c = Joined(s, 1, n)
  OBVIOUS
<1>2. a \in Seq(S)
  <2>1. PICK m : m = i - 1
    OBVIOUS
  <2>2. m \in 0 .. Len(s) /\ 1 \in 1 .. m + 1
    BY <2>1
  <2> QED BY <1>1, <2>1, <2>2, JoinedText
<1>3. b \in Seq(S) /\ c \in Seq(S)
  <2>1. 1 \in 1 .. n + 1
    OBVIOUS
  <2> QED BY <1>1, <2>1, JoinedText
<1>4. c = a \o b
  <2>1. 1 \in 1 .. i
    OBVIOUS
  <2> QED BY <1>1, <2>1, JoinedCut
<1>5. Len(c) = Len(a) + Len(b) /\ Len(a) \in Nat /\ Len(b) \in Nat
  BY <1>2, <1>3, <1>4
<1>6. Lens(s)[n] = Len(c) /\ Lens(s)[i - 1] = Len(a)
  <2>1. n \in Nat /\ n <= Len(s) /\ i - 1 \in Nat /\ i - 1 <= Len(s)
    OBVIOUS
  <2> QED BY <1>1, <2>1, Zenon DEF Lens
<1> QED BY <1>1, <1>5, <1>6

(* They never decrease.                                                    *)
LEMMA LensGrow ==
  ASSUME NEW S, NEW s \in Seq(Seq(S))
  PROVE  Lengths(Lens(s))
<1>1. PICK N : N = Len(s)
  OBVIOUS
<1>2. N \in Nat
  BY <1>1
<1>3. PICK c : c = Lens(s)
  OBVIOUS
<1>4. \A n \in Nat : c[n] = c[IF n <= N THEN n ELSE N]
  <2> SUFFICES ASSUME NEW n \in Nat PROVE c[n] = c[IF n <= N THEN n ELSE N]
    OBVIOUS
  <2>1. CASE n <= N
    BY <2>1
  <2>2. CASE ~(n <= N)
    <3>1. c[n] = Len(Joined(s, 1, N)) /\ c[N] = Len(Joined(s, 1, N))
      BY <1>1, <1>2, <1>3, <2>2 DEF Lens
    <3> QED BY <2>2, <3>1
  <2> QED BY <2>1, <2>2
<1>5. \A i, j \in 0 .. N : i <= j => c[i] \in Nat /\ c[j] \in Nat /\ c[i] <= c[j]
  <2> SUFFICES ASSUME NEW i \in 0 .. N, NEW j \in 0 .. N, i <= j
               PROVE  c[i] \in Nat /\ c[j] \in Nat /\ c[i] <= c[j]
    OBVIOUS
  <2>1. PICK k : k = i + 1
    OBVIOUS
  <2>2. j \in 0 .. Len(s) /\ k \in 1 .. j + 1 /\ k - 1 = i
    BY <1>1, <1>2, <2>1
  <2> QED BY <1>3, <2>2, LensAre
<1>6. \A n \in Nat : (IF n <= N THEN n ELSE N) \in 0 .. N
  BY <1>2
<1>7. c \in [Nat -> Nat]
  <2>1. \A n \in Nat : c[n] \in Nat
    BY <1>2, <1>4, <1>5, <1>6
  <2> QED BY <1>3, <2>1 DEF Lens
<1>8. \A i, j \in Nat : i <= j => c[i] <= c[j]
  <2> SUFFICES ASSUME NEW i \in Nat, NEW j \in Nat, i <= j PROVE c[i] <= c[j]
    OBVIOUS
  <2>1. PICK x, y : x = (IF i <= N THEN i ELSE N) /\ y = (IF j <= N THEN j ELSE N)
    OBVIOUS
  <2>2. x \in 0 .. N /\ y \in 0 .. N /\ x <= y
    BY <1>2, <2>1
  <2>3. c[i] = c[x] /\ c[j] = c[y]
    BY <1>4, <2>1
  <2> QED BY <1>5, <2>2, <2>3
<1> QED BY <1>3, <1>7, <1>8 DEF Lengths

(* What one line more adds to them.                                        *)
LEMMA LensNext ==
  ASSUME NEW S, NEW s \in Seq(Seq(S)), NEW t \in Seq(S)
  PROVE  /\ \A n \in 0 .. Len(s) : Lens(Append(s, t))[n] = Lens(s)[n]
         /\ Lens(Append(s, t))[Len(s) + 1] = Lens(s)[Len(s)] + Len(t)
<1>1. PICK u, N : u = Append(s, t) /\ N = Len(s)
  OBVIOUS
<1>2. /\ N \in Nat /\ u \in Seq(Seq(S)) /\ Len(u) = N + 1 /\ u[N + 1] = t
      /\ N \in 0 .. Len(u) - 1 /\ 1 \in 1 .. N + 1 /\ N \in 0 .. Len(s)
  BY <1>1
<1>3. \A n \in 0 .. N : Joined(u, 1, n) = Joined(s, 1, n)
  <2> SUFFICES ASSUME NEW n \in 0 .. N PROVE Joined(u, 1, n) = Joined(s, 1, n)
    OBVIOUS
  <2>1. n \in 0 .. Len(s) /\ 1 \in 1 .. n + 1
    BY <1>1
  <2> QED BY <1>1, <2>1, JoinedStays
<1>4. \A n \in 0 .. N : Lens(u)[n] = Lens(s)[n]
  <2> SUFFICES ASSUME NEW n \in 0 .. N PROVE Lens(u)[n] = Lens(s)[n]
    OBVIOUS
  <2>1. n \in Nat /\ n <= Len(s) /\ n <= Len(u)
    BY <1>1, <1>2
  <2> QED BY <1>3, <2>1, Zenon DEF Lens
<1>5. Joined(u, 1, N + 1) = Joined(s, 1, N) \o t
  <2>1. Joined(u, 1, N + 1) = Joined(u, 1, N) \o u[N + 1]
    BY <1>2, JoinedNext
  <2>2. Joined(u, 1, N) = Joined(s, 1, N)
    BY <1>2, <1>3
  <2> QED BY <1>2, <2>1, <2>2
<1>6. Lens(u)[N + 1] = Len(Joined(u, 1, N + 1)) /\ Lens(s)[N] = Len(Joined(s, 1, N))
  <2>1. N + 1 \in Nat /\ N + 1 <= Len(u) /\ N \in Nat /\ N <= Len(s)
    BY <1>1, <1>2
  <2> QED BY <2>1, Zenon DEF Lens
<1>7. Joined(s, 1, N) \in Seq(S)
  BY <1>2, JoinedText
<1>8. Lens(u)[N + 1] = Lens(s)[N] + Len(t)
  BY <1>5, <1>6, <1>7
<1> QED BY <1>1, <1>4, <1>8

(* A window depends on the lines up to its last one.                       *)
LEMMA SameWindow ==
  ASSUME NEW cl, NEW cb, NEW c, NEW d, NEW n \in Nat, NEW f,
         \A k \in 0 .. n : c[k] = d[k], LongestEnd(cl, cb, c, f, n)
  PROVE  Window(cl, cb, c, f, n) = Window(cl, cb, d, f, n) /\ LongestEnd(cl, cb, d, f, n)
<1>1. f \in 1 .. n + 1 /\ (n > 0 => FitsIn(cl, cb, c, f, n)) /\ (n = 0 => f = 1)
      /\ \A j \in 1 .. f - 1 : ~ FitsIn(cl, cb, c, j, n)
  BY DEF LongestEnd
<1>2. \A j \in 1 .. n + 1 : FitsIn(cl, cb, c, j, n) <=> FitsIn(cl, cb, d, j, n)
  <2> SUFFICES ASSUME NEW j \in 1 .. n + 1
               PROVE  FitsIn(cl, cb, c, j, n) <=> FitsIn(cl, cb, d, j, n)
    OBVIOUS
  <2>1. n \in 0 .. n /\ j - 1 \in 0 .. n
    OBVIOUS
  <2>2. c[n] = d[n] /\ c[j - 1] = d[j - 1]
    BY <2>1
  <2> QED BY <2>2, Zenon DEF FitsIn
<1>3. LongestEnd(cl, cb, d, f, n)
  <2>1. \A j \in 1 .. f - 1 : j \in 1 .. n + 1
    BY <1>1
  <2> QED BY <1>1, <1>2, <2>1 DEF LongestEnd
<1>4. Window(cl, cb, c, f, n) = Window(cl, cb, d, f, n)
  BY <1>1, WindowAgrees
<1> QED BY <1>3, <1>4

\* The window holds the longest end of stream s from line f on.
HoldsFrom(w, s, f, cl, cb) ==
  /\ w = Window(cl, cb, Lens(s), f, Len(s))
  /\ LongestEnd(cl, cb, Lens(s), f, Len(s))

Caps(cl, cb) == cl \in Nat \ {0, 1} /\ cb \in Nat \ {0}

\* What the window is after any number of lines.
WindowInv == /\ stream \in Seq(Seq(Chars))
             /\ \E f, cl, cb : Caps(cl, cb) /\ HoldsFrom(window, stream, f, cl, cb)

(* newLineWindow is the window of no lines.                                *)
LEMMA NewWindowHolds ==
  ASSUME NEW l \in Int, NEW b \in Int
  PROVE  \E f, cl, cb : Caps(cl, cb) /\ HoldsFrom(newLineWindow(l, b), <<>>, f, cl, cb)
<1>1. PICK cl, cb, c : /\ cl = IF l < 2 THEN 2 ELSE l
                       /\ cb = IF b < 1 THEN 1 ELSE b
                       /\ c = Lens(<<>>)
  OBVIOUS
<1>2. Caps(cl, cb)
  BY <1>1 DEF Caps
<1>3. Lengths(c)
  <2>1. <<>> \in Seq(Seq(Chars))
    OBVIOUS
  <2> QED BY <1>1, <2>1, LensGrow
<1>4. Window(cl, cb, c, 1, 0) = newLineWindow(l, b)
  <2>1. newLineWindow(l, b) = Contents(cl, cb, 0, <<>>)
    BY <1>1 DEF newLineWindow, Contents
  <2>2. Entries(c, 1, 0) = <<>>
    <3>1. 1 .. 0 - 1 + 1 = {} /\ 1 \in 1 .. 0 + 1
      OBVIOUS
    <3>2. Len(Entries(c, 1, 0)) = 0 /\ Entries(c, 1, 0) \in Seq(AllLines(c))
      BY <3>1, EntriesAre
    <3> QED BY <3>2
  <2>3. c[0] - c[1 - 1] = 0
    <3>1. c[0] \in Nat /\ 1 - 1 = 0
      BY <1>3 DEF Lengths
    <3> QED BY <3>1
  <2> QED BY <2>1, <2>2, <2>3 DEF Window
<1>5. LongestEnd(cl, cb, c, 1, 0)
  BY DEF LongestEnd
<1>6. HoldsFrom(newLineWindow(l, b), <<>>, 1, cl, cb)
  BY <1>1, <1>4, <1>5 DEF HoldsFrom
<1> QED BY <1>2, <1>6

(* push of the next line onto the window of a stream.                      *)
LEMMA PushHolds ==
  ASSUME NEW S, NEW s \in Seq(Seq(S)), NEW t \in Seq(S), NEW w, NEW f, NEW cl, NEW cb,
         Caps(cl, cb), HoldsFrom(w, s, f, cl, cb)
  PROVE  \E g : HoldsFrom(push(w, [lineNo |-> Len(s) + 1, len |-> Len(t)]), Append(s, t), g, cl, cb)
<1>1. PICK n, u, c, d, e : /\ n = Len(s) /\ u = Append(s, t) /\ c = Lens(s) /\ d = Lens(u)
                           /\ e = [lineNo |-> n + 1, len |-> Len(t)]
  OBVIOUS
<1>2. /\ n \in Nat /\ u \in Seq(Seq(S)) /\ Len(u) = n + 1 /\ Len(t) \in Nat
      /\ n \in 0 .. Len(s) /\ 1 \in 1 .. n + 1
  BY <1>1
<1>3. Lengths(c) /\ Lengths(d)
  BY <1>1, <1>2, LensGrow
<1>4. (\A k \in 0 .. n : c[k] = d[k]) /\ d[n + 1] = d[n] + Len(t)
  <2>1. (\A k \in 0 .. n : c[k] = d[k]) /\ d[n + 1] = c[n] + Len(t)
    BY <1>1, LensNext
  <2> QED BY <1>2, <2>1
<1>5. w = Window(cl, cb, c, f, n) /\ LongestEnd(cl, cb, c, f, n)
  BY <1>1 DEF HoldsFrom
<1>6. w = Window(cl, cb, d, f, n) /\ LongestEnd(cl, cb, d, f, n)
  BY <1>2, <1>4, <1>5, SameWindow
<1>7. e = Line(d, n + 1)
  <2>1. (n + 1) - 1 = n /\ d[n] \in Nat
    BY <1>2, <1>3 DEF Lengths
  <2>2. d[n + 1] - d[n] = Len(t)
    BY <1>2, <1>4, <2>1
  <2> QED BY <1>1, <2>1, <2>2 DEF Line
<1>8. cl \in Nat \ {0} /\ cb \in Nat
  BY DEF Caps
<1>9. PICK g : /\ push(w, e) = Window(cl, cb, d, g, n + 1)
               /\ LongestEnd(cl, cb, d, g, n + 1)
  BY <1>2, <1>3, <1>6, <1>7, <1>8, PushKeepsLongestEnd
<1>10. HoldsFrom(push(w, e), u, g, cl, cb)
  BY <1>1, <1>2, <1>9 DEF HoldsFrom
<1> QED BY <1>1, <1>10

(* The window is that of no lines at first, and no step makes it another.  *)
LEMMA WindowInit == ViewsInit => WindowInv
<1> SUFFICES ASSUME ViewsInit PROVE WindowInv
  OBVIOUS
<1>1. PICK l \in CapLines, b \in CapBytes : window = newLineWindow(l, b)
  BY DEF ViewsInit
<1>2. l \in Int /\ b \in Int
  BY ViewsAssumption
<1>3. stream = <<>> /\ stream \in Seq(Seq(Chars))
  BY DEF ViewsInit
<1>4. \E f, cl, cb : Caps(cl, cb) /\ HoldsFrom(window, stream, f, cl, cb)
  BY <1>1, <1>2, <1>3, NewWindowHolds, Zenon
<1> QED BY <1>3, <1>4 DEF WindowInv

(* A line goes to the window and to the stream.                            *)
LEMMA LineIsPushed ==
  ASSUME WindowInv, NEW text \in Texts, emitWithWindow(text)
  PROVE  /\ text \in Seq(Chars) /\ stream' = Append(stream, text)
         /\ \E f, g, cl, cb : /\ Caps(cl, cb)
                              /\ HoldsFrom(window, stream, f, cl, cb)
                              /\ HoldsFrom(window', stream', g, cl, cb)
<1>1. text \in Seq(Chars)
  BY ViewsAssumption
<1>2. /\ stream' = Append(stream, text)
      /\ window' = push(window, [lineNo |-> Len(stream) + 1, len |-> Len(text)])
  BY Zenon DEF emitWithWindow
<1>3. PICK f, cl, cb : Caps(cl, cb) /\ HoldsFrom(window, stream, f, cl, cb)
  BY DEF WindowInv
<1>4. PICK s, s2, w, w2 : s = stream /\ s2 = stream' /\ w = window /\ w2 = window'
  OBVIOUS
<1>5. s \in Seq(Seq(Chars))
  BY <1>4 DEF WindowInv
<1>6. PICK g : HoldsFrom(push(w, [lineNo |-> Len(s) + 1, len |-> Len(text)]),
                         Append(s, text), g, cl, cb)
  BY <1>1, <1>3, <1>4, <1>5, PushHolds
<1>7. HoldsFrom(window', stream', g, cl, cb)
  BY <1>2, <1>4, <1>6, Zenon
<1> QED BY <1>1, <1>2, <1>3, <1>7, Zenon

(* So the window holds the longest end of the stream after any step.       *)
LEMMA WindowStep ==
  ASSUME WindowInv, [ViewsNext]_<<window, stream, views, found>>
  PROVE  WindowInv'
<1>1. CASE UNCHANGED <<window, stream>>
  BY <1>1, Zenon DEF WindowInv
<1>2. ASSUME NEW text \in Texts, emitWithWindow(text) PROVE WindowInv'
  <2>1. text \in Seq(Chars) /\ stream' = Append(stream, text) /\ stream \in Seq(Seq(Chars))
    BY <1>2, LineIsPushed, Zenon DEF WindowInv
  <2>2. stream' \in Seq(Seq(Chars))
    BY <2>1
  <2>3. \E g, cl, cb : Caps(cl, cb) /\ HoldsFrom(window', stream', g, cl, cb)
    BY <1>2, LineIsPushed, Zenon
  <2> QED BY <2>2, <2>3, Zenon DEF WindowInv
<1>3. ASSUME NEW i \in 1 .. Cap, processLine(i) PROVE UNCHANGED <<window, stream>>
  BY <1>3, Zenon DEF processLine
<1> QED BY <1>1, <1>2, <1>3, Zenon DEF ViewsNext

(* It is the longest end of the stream that fits.                          *)
LEMMA LongestEndIsHeld == WindowInv => HoldsLongestEnd
<1> SUFFICES ASSUME WindowInv, stream # <<>> PROVE HoldsLongestEnd
  BY DEF HoldsLongestEnd
<1>1. PICK f, cl, cb : Caps(cl, cb) /\ HoldsFrom(window, stream, f, cl, cb)
  BY DEF WindowInv
<1>2. PICK s, n, c, w : s = stream /\ n = Len(s) /\ c = Lens(s) /\ w = window
  OBVIOUS
<1>3. s \in Seq(Seq(Chars)) /\ n \in Nat \ {0} /\ DOMAIN stream = 1 .. n /\ n \in 0 .. Len(s)
  BY <1>2 DEF WindowInv
<1>4. w = Window(cl, cb, c, f, n) /\ LongestEnd(cl, cb, c, f, n)
  BY <1>1, <1>2 DEF HoldsFrom
<1>5. /\ w.capLines = cl /\ w.capBytes = cb /\ w.bytes = c[n] - c[f - 1]
      /\ w.entries = Entries(c, f, n)
  <2>1. PICK y, es : y = c[n] - c[f - 1] /\ es = Entries(c, f, n)
    OBVIOUS
  <2>2. w = [capLines |-> cl, capBytes |-> cb, bytes |-> y, entries |-> es]
    BY <1>4, <2>1, Zenon DEF Window, Contents
  <2> QED BY <2>1, <2>2
<1>6. \A i \in 1 .. n : Size(i) = c[n] - c[i - 1]
  <2> SUFFICES ASSUME NEW i \in 1 .. n PROVE Size(i) = c[n] - c[i - 1]
    OBVIOUS
  <2>1. i \in 1 .. n + 1
    BY <1>3
  <2>2. Len(Joined(s, i, n)) = c[n] - c[i - 1]
    BY <1>2, <1>3, <2>1, LensAre
  <2> QED BY <1>2, <2>2 DEF Size
<1>7. \A i \in 1 .. n : Fits(i) <=> FitsIn(cl, cb, c, i, n)
  BY <1>2, <1>5, <1>6, Zenon DEF Fits, FitsIn
<1>8. f \in 1 .. n
  <2>1. f \in 1 .. n + 1 /\ \A j \in 1 .. f - 1 : ~ FitsIn(cl, cb, c, j, n)
    BY <1>4 DEF LongestEnd
  <2>2. FitsIn(cl, cb, c, n, n)
    BY DEF FitsIn
  <2>3. f # n + 1
    BY <1>3, <2>1, <2>2
  <2> QED BY <1>3, <2>1, <2>3
<1>9. Fits(f) /\ \A j \in 1 .. f - 1 : ~ Fits(j)
  <2>1. n > 0 /\ \A j \in 1 .. f - 1 : j \in 1 .. n
    BY <1>3, <1>8
  <2> QED BY <1>4, <1>7, <1>8, <2>1 DEF LongestEnd
<1>10. PICK first : first = CHOOSE i \in DOMAIN stream : Fits(i) /\ \A j \in 1 .. i - 1 : ~ Fits(j)
  OBVIOUS
<1>11. first = f
  <2>1. first \in 1 .. n /\ Fits(first) /\ \A j \in 1 .. first - 1 : ~ Fits(j)
    BY <1>3, <1>8, <1>9, <1>10, Zenon
  <2>2. ~(f < first) /\ ~(first < f)
    <3>1. f < first => f \in 1 .. first - 1
      BY <1>8, <2>1
    <3>2. first < f => first \in 1 .. f - 1
      BY <1>8, <2>1
    <3> QED BY <1>9, <2>1, <3>1, <3>2, Zenon
  <2> QED BY <1>8, <2>1, <2>2
<1>12. [i \in DOMAIN w.entries |-> w.entries[i].lineNo] = [i \in 1 .. n - f + 1 |-> f + i - 1]
  <2>1. n \in Nat /\ f \in 1 .. n + 1
    BY <1>3, <1>8
  <2>2. /\ DOMAIN w.entries = 1 .. n - f + 1
        /\ \A k \in 1 .. n - f + 1 : w.entries[k] = Line(c, f + k - 1)
    <3>1. PICK es : es = Entries(c, f, n)
      OBVIOUS
    <3>2. DOMAIN es = 1 .. n - f + 1 /\ \A k \in 1 .. n - f + 1 : es[k] = Line(c, f + k - 1)
      BY <2>1, <3>1, EntriesAre
    <3> QED BY <1>5, <3>1, <3>2
  <2>3. \A k : Line(c, k).lineNo = k
    BY DEF Line
  <2>4. \A k \in DOMAIN w.entries : w.entries[k].lineNo = f + k - 1
    BY <2>2, <2>3, Zenon
  <2> QED BY <2>2, <2>4, Zenon
<1>13. w.bytes = Size(f)
  BY <1>5, <1>6, <1>8
<1> QED BY <1>2, <1>10, <1>11, <1>12, <1>13, Zenon DEF HoldsLongestEnd

(* emitWithWindow keeps in its window exactly the longest end of the       *)
(* stream that fits both caps, for all lines and caps (HoldsLongestEnd).   *)
THEOREM ViewsWindow == ViewsSpec => []HoldsLongestEnd
<1>1. ViewsSpec => []WindowInv
  <2>1. ViewsInit => WindowInv
    BY WindowInit
  <2>2. WindowInv /\ [ViewsNext]_<<window, stream, views, found>> => WindowInv'
    BY WindowStep
  <2> QED BY <2>1, <2>2, PTL DEF ViewsSpec
<1>2. WindowInv => HoldsLongestEnd
  BY LongestEndIsHeld
<1> QED BY <1>1, <1>2, PTL

-----------------------------------------------------------------------------
(* Redaction.                                                              *)

SecretValues == Seq(Chars \ MaskChars) \ {<<>>}

\* The characters of redacted texts.
Shown == Chars \cup MaskChars

(* Two texts, one behind the other.                                        *)
LEMMA ConcatParts ==
  ASSUME NEW S, NEW a \in Seq(S), NEW b \in Seq(S), NEW c, c = a \o b
  PROVE  /\ c \in Seq(S) /\ Len(c) = Len(a) + Len(b) /\ Len(a) \in Nat /\ Len(b) \in Nat
         /\ \A i \in 1 .. Len(a) : c[i] = a[i]
         /\ \A i \in 1 .. Len(b) : c[Len(a) + i] = b[i]
  OBVIOUS

(* What a mask looks like: whatever of a mask is as long as the secret and *)
(* begins in the mask has one of the mask's own characters, and in front   *)
(* of the first of them there is the beginning of the secret.              *)
LEMMA LongMask ==
  ASSUME NEW v \in Seq(Chars), Len(v) > 6
  PROVE  /\ Mask(v) \in Seq(Shown) /\ Len(Mask(v)) = 8
         /\ \A j \in 1 .. 4 : Mask(v)[j] = v[j]
         /\ Mask(v)[5] = "..." /\ Mask(v)[8] = "(n)"
<1>1. PICK a, b, x, y : /\ a = SubSeq(v, 1, 4) /\ b = SubSeq(v, Len(v) - 1, Len(v))
                        /\ x = <<"...">> /\ y = <<"(n)">>
  OBVIOUS
<1>2. "..." \in Shown /\ "(n)" \in Shown /\ Chars \subseteq Shown
  BY DEF Shown, MaskChars
<1>3. Len(v) \in Nat /\ \A j \in 1 .. Len(v) : v[j] \in Shown
  BY <1>2
<1>4. a \in Seq(Shown) /\ Len(a) = 4 /\ \A j \in 1 .. 4 : a[j] = v[j]
  <2>1. \A j \in 1 .. 4 : v[j] \in Shown
    BY <1>3
  <2>2. /\ a \in Seq(Shown) /\ Len(a) = 4 - 1 + 1
        /\ \A j \in 1 .. 4 - 1 + 1 : a[j] = v[1 + j - 1]
    BY <1>1, <2>1, SubSeqProperties
  <2> QED BY <2>2
<1>5. b \in Seq(Shown) /\ Len(b) = 2
  <2>1. \A j \in Len(v) - 1 .. Len(v) : v[j] \in Shown
    BY <1>3
  <2>2. PICK m : m = Len(v) - 1
    OBVIOUS
  <2>3. m \in Int /\ m <= Len(v) /\ Len(v) - m + 1 = 2
    BY <1>3, <2>2
  <2> QED BY <1>1, <1>3, <2>1, <2>2, <2>3, SubSeqProperties
<1>6. /\ x \in Seq(Shown) /\ Len(x) = 1 /\ x[1] = "..."
      /\ y \in Seq(Shown) /\ Len(y) = 1 /\ y[1] = "(n)"
  BY <1>1, <1>2
<1>7. PICK p, q, r : p = a \o x /\ q = p \o b /\ r = q \o y
  OBVIOUS
<1>8. p \in Seq(Shown) /\ Len(p) = 5 /\ p[5] = "..." /\ \A j \in 1 .. 4 : p[j] = v[j]
  <2>0. a \in Seq(Shown) /\ x \in Seq(Shown) /\ p = a \o x
    BY <1>4, <1>6, <1>7
  <2>1. /\ p \in Seq(Shown) /\ Len(p) = Len(a) + Len(x)
        /\ \A i \in 1 .. Len(a) : p[i] = a[i]
        /\ \A i \in 1 .. Len(x) : p[Len(a) + i] = x[i]
    BY <2>0, ConcatParts
  <2> QED BY <1>4, <1>6, <2>1
<1>9. q \in Seq(Shown) /\ Len(q) = 7 /\ \A j \in 1 .. 5 : q[j] = p[j]
  <2>0. p \in Seq(Shown) /\ b \in Seq(Shown) /\ q = p \o b
    BY <1>5, <1>7, <1>8
  <2>1. /\ q \in Seq(Shown) /\ Len(q) = Len(p) + Len(b)
        /\ \A i \in 1 .. Len(p) : q[i] = p[i]
        /\ \A i \in 1 .. Len(b) : q[Len(p) + i] = b[i]
    BY <2>0, ConcatParts
  <2> QED BY <1>5, <1>8, <2>1
<1>10. r \in Seq(Shown) /\ Len(r) = 8 /\ r[8] = "(n)" /\ \A j \in 1 .. 5 : r[j] = q[j]
  <2>0. q \in Seq(Shown) /\ y \in Seq(Shown) /\ r = q \o y
    BY <1>6, <1>7, <1>9
  <2>1. /\ r \in Seq(Shown) /\ Len(r) = Len(q) + Len(y)
        /\ \A i \in 1 .. Len(q) : r[i] = q[i]
        /\ \A i \in 1 .. Len(y) : r[Len(q) + i] = y[i]
    BY <2>0, ConcatParts
  <2> QED BY <1>6, <1>9, <2>1
<1>11. r = Mask(v)
  <2>1. v # <<>> /\ ~(Len(v) <= 6)
    BY <1>3
  <2> QED BY <1>1, <1>7, <2>1, Zenon DEF Mask
<1>12. \A j \in 1 .. 4 : j \in 1 .. 5
  OBVIOUS
<1> QED BY <1>8, <1>9, <1>10, <1>11, <1>12

(* The mask of a short secret shows none of it.                            *)
LEMMA ShortMask ==
  ASSUME NEW v \in Seq(Chars), v # <<>>, Len(v) <= 6
  PROVE  /\ Mask(v) \in Seq(Shown) /\ Len(Mask(v)) = 2
         /\ Mask(v)[1] \in MaskChars /\ Mask(v)[2] \in MaskChars
<1>1. Mask(v) = <<"REDACTED", "(n)">>
  BY Zenon DEF Mask
<1>2. "REDACTED" \in MaskChars /\ "(n)" \in MaskChars /\ MaskChars \subseteq Shown
  BY DEF Shown, MaskChars
<1> QED BY <1>1, <1>2

\* A text whose last character is the mask's, at the latest so many characters
\* behind any other; it begins like v, up to the first of the mask's own.
MaskLike(o, v) ==
  /\ o \in Seq(Shown) /\ Len(o) \in Nat \ {0}
  /\ \A p \in 1 .. Len(o) : \E q \in p .. Len(o) : q - p < Len(v) /\ o[q] \in MaskChars
  /\ \A k \in 0 .. Len(o) :
       (\A j \in 1 .. k : o[j] \notin MaskChars) => k <= Len(v) /\ \A j \in 1 .. k : o[j] = v[j]

(* Mask returns nothing else.                                              *)
LEMMA MaskIsMaskLike ==
  ASSUME NEW v \in SecretValues
  PROVE  MaskLike(Mask(v), v)
<1>0. v \in Seq(Chars) /\ v # <<>> /\ Len(v) \in Nat \ {0}
  BY DEF SecretValues
<1>1. PICK o : o = Mask(v)
  OBVIOUS
<1>2. CASE Len(v) <= 6
  <2>1. o \in Seq(Shown) /\ Len(o) = 2 /\ o[1] \in MaskChars /\ o[2] \in MaskChars
    BY <1>0, <1>1, <1>2, ShortMask
  <2>2. \A p \in 1 .. 2 : p \in p .. 2 /\ p - p < Len(v) /\ o[p] \in MaskChars
    <3>1. \A p \in 1 .. 2 : p = 1 \/ p = 2
      OBVIOUS
    <3> QED BY <1>0, <2>1, <3>1
  <2>3. \A k \in 0 .. 2 : (\A j \in 1 .. k : o[j] \notin MaskChars) => k = 0
    <3>1. \A k \in 0 .. 2 : k # 0 => 1 \in 1 .. k
      OBVIOUS
    <3> QED BY <2>1, <3>1
  <2>4. 1 .. 0 = {}
    OBVIOUS
  <2> QED BY <1>0, <1>1, <2>1, <2>2, <2>3, <2>4 DEF MaskLike
<1>3. CASE Len(v) > 6
  <2>1. /\ o \in Seq(Shown) /\ Len(o) = 8 /\ \A j \in 1 .. 4 : o[j] = v[j]
        /\ o[5] \in MaskChars /\ o[8] \in MaskChars
    <3>1. "..." \in MaskChars /\ "(n)" \in MaskChars
      BY DEF MaskChars
    <3> QED BY <1>0, <1>1, <1>3, <3>1, LongMask
  <2>2. \A p \in 1 .. 8 : \E q \in p .. 8 : q - p < Len(v) /\ o[q] \in MaskChars
    <3> SUFFICES ASSUME NEW p \in 1 .. 8
                 PROVE  \E q \in p .. 8 : q - p < Len(v) /\ o[q] \in MaskChars
      OBVIOUS
    <3>1. CASE p <= 5
      <4>1. 5 \in p .. 8 /\ 5 - p < Len(v)
        BY <1>0, <1>3, <3>1
      <4> QED BY <2>1, <4>1
    <3>2. CASE ~(p <= 5)
      <4>1. 8 \in p .. 8 /\ 8 - p < Len(v)
        BY <1>0, <1>3, <3>2
      <4> QED BY <2>1, <4>1
    <3> QED BY <3>1, <3>2
  <2>3. \A k \in 0 .. 8 : (\A j \in 1 .. k : o[j] \notin MaskChars) => k <= 4
    <3>1. \A k \in 0 .. 8 : ~(k <= 4) => 5 \in 1 .. k
      OBVIOUS
    <3> QED BY <2>1, <3>1
  <2>4. \A k \in 0 .. 8 : k <= 4 => k <= Len(v) /\ \A j \in 1 .. k : j \in 1 .. 4
    BY <1>0, <1>3
  <2> QED BY <1>1, <2>1, <2>2, <2>3, <2>4 DEF MaskLike
<1> QED BY <1>0, <1>2, <1>3

(* In a mask and what follows it the secret stands behind the mask only.   *)
LEMMA NotAcrossMask ==
  ASSUME NEW v \in SecretValues, NEW m, MaskLike(m, v), NEW o \in Seq(Shown)
  PROVE  Occurs(v, m \o o) => Occurs(v, o)
<1>0. v \in Seq(Chars \ MaskChars) /\ v # <<>> /\ Len(v) \in Nat \ {0}
      /\ \A k \in 1 .. Len(v) : v[k] \notin MaskChars
  BY DEF SecretValues
<1>1. PICK s : s = m \o o
  OBVIOUS
<1>2. /\ m \in Seq(Shown) /\ Len(m) \in Nat \ {0}
      /\ \A p \in 1 .. Len(m) : \E q \in p .. Len(m) : q - p < Len(v) /\ m[q] \in MaskChars
  BY DEF MaskLike
<1>3. /\ s \in Seq(Shown) /\ Len(s) = Len(m) + Len(o) /\ Len(o) \in Nat
      /\ \A i \in 1 .. Len(m) : s[i] = m[i]
      /\ \A i \in 1 .. Len(o) : s[Len(m) + i] = o[i]
  BY <1>1, <1>2
<1> SUFFICES ASSUME NEW p \in 1 .. Len(s), IsAt(v, s, p) PROVE Occurs(v, o)
  BY <1>1, <1>3 DEF Occurs
<1>4. p + Len(v) - 1 <= Len(s) /\ \A k \in 1 .. Len(v) : s[p + k - 1] = v[k]
  BY <1>0 DEF IsAt
<1>5. p > Len(m)
  <2> SUFFICES ASSUME p <= Len(m) PROVE FALSE
    BY <1>2, <1>3
  <2>1. PICK q \in p .. Len(m) : q - p < Len(v) /\ m[q] \in MaskChars
    BY <1>2
  <2>2. PICK k : k = q - p + 1
    OBVIOUS
  <2>3. k \in 1 .. Len(v) /\ p + k - 1 = q /\ q \in 1 .. Len(m)
    BY <1>0, <1>2, <2>1, <2>2
  <2> QED BY <1>0, <1>3, <1>4, <2>1, <2>3
<1>6. PICK i : i = p - Len(m)
  OBVIOUS
<1>7. i \in 1 .. Len(o) /\ p = Len(m) + i
  BY <1>2, <1>3, <1>5, <1>6
<1>8. i + Len(v) - 1 <= Len(o)
  BY <1>0, <1>2, <1>3, <1>4, <1>7
<1>9. \A k \in 1 .. Len(v) : o[i + k - 1] = v[k]
  <2> SUFFICES ASSUME NEW k \in 1 .. Len(v) PROVE o[i + k - 1] = v[k]
    OBVIOUS
  <2>1. PICK j : j = i + k - 1
    OBVIOUS
  <2>2. j \in 1 .. Len(o) /\ p + k - 1 = Len(m) + j
    BY <1>0, <1>2, <1>3, <1>7, <1>8, <2>1
  <2> QED BY <1>3, <1>4, <2>1, <2>2
<1>10. DOMAIN v = 1 .. Len(v) /\ i \in DOMAIN o
  BY <1>0, <1>7
<1>11. IsAt(v, o, i)
  BY <1>8, <1>9, <1>10, Zenon DEF IsAt
<1> QED BY <1>10, <1>11, Zenon DEF Occurs

(* No mask shows its secret.                                               *)
LEMMA MaskHides ==
  ASSUME NEW v \in SecretValues
  PROVE  ~ Occurs(v, Mask(v))
<1>1. MaskLike(Mask(v), v)
  BY MaskIsMaskLike
<1>2. Mask(v) \in Seq(Shown)
  BY <1>1 DEF MaskLike
<1>3. PICK o : o = <<>>
  OBVIOUS
<1>4. o \in Seq(Shown) /\ Mask(v) \o o = Mask(v) /\ ~ Occurs(v, o)
  BY <1>2, <1>3 DEF Occurs
<1> QED BY <1>1, <1>4, NotAcrossMask

\* What may stand for text from character i on: it shows no v, and begins as
\* text does from there, up to the first of the mask's own characters.
Hides(text, v, o, i) ==
  /\ o \in Seq(Shown)
  /\ ~ Occurs(v, o)
  /\ \A k \in 0 .. Len(o) :
       (\A j \in 1 .. k : o[j] \notin MaskChars) =>
         /\ i + k - 1 <= Len(text)
         /\ \A j \in 1 .. k : o[j] = text[i + j - 1]

(* A character at which no secret stands is kept.                          *)
LEMMA KeptHides ==
  ASSUME NEW text \in Seq(Chars), NEW v \in SecretValues, NEW i \in 1 .. Len(text),
         NEW o, Hides(text, v, o, i + 1), ~ IsAt(v, text, i)
  PROVE  Hides(text, v, <<text[i]>> \o o, i)
<1>0. /\ Len(v) \in Nat \ {0} /\ DOMAIN v = 1 .. Len(v)
      /\ \A k \in 1 .. Len(v) : v[k] \notin MaskChars
  BY DEF SecretValues
<1>1. PICK x, s : x = <<text[i]>> /\ s = x \o o
  OBVIOUS
<1>2. /\ o \in Seq(Shown) /\ ~ Occurs(v, o)
      /\ \A k \in 0 .. Len(o) :
           (\A j \in 1 .. k : o[j] \notin MaskChars) =>
             /\ (i + 1) + k - 1 <= Len(text)
             /\ \A j \in 1 .. k : o[j] = text[(i + 1) + j - 1]
  BY DEF Hides
<1>3. x \in Seq(Shown) /\ Len(x) = 1 /\ x[1] = text[i]
  BY <1>1 DEF Shown
<1>4. /\ s \in Seq(Shown) /\ Len(s) = 1 + Len(o) /\ Len(o) \in Nat /\ s[1] = text[i]
      /\ \A j \in 1 .. Len(o) : s[1 + j] = o[j]
  <2>1. o \in Seq(Shown) /\ x \in Seq(Shown) /\ s = x \o o
    BY <1>1, <1>2, <1>3
  <2>2. /\ s \in Seq(Shown) /\ Len(s) = Len(x) + Len(o) /\ Len(o) \in Nat
        /\ \A j \in 1 .. Len(x) : s[j] = x[j]
        /\ \A j \in 1 .. Len(o) : s[Len(x) + j] = o[j]
    BY <2>1, ConcatParts
  <2> QED BY <1>3, <2>2
<1>5. ASSUME NEW k \in 0 .. Len(s), \A j \in 1 .. k : s[j] \notin MaskChars
      PROVE  i + k - 1 <= Len(text) /\ \A j \in 1 .. k : s[j] = text[i + j - 1]
  <2>1. CASE k = 0
    BY <2>1
  <2>2. CASE k # 0
    <3>1. PICK l : l = k - 1
      OBVIOUS
    <3>2. l \in 0 .. Len(o) /\ k = l + 1 /\ \A j \in 1 .. l : j \in 1 .. Len(o) /\ 1 + j \in 1 .. k
      BY <1>4, <2>2, <3>1
    <3>3. \A j \in 1 .. l : o[j] \notin MaskChars
      BY <1>4, <1>5, <3>2
    <3>4. (i + 1) + l - 1 <= Len(text) /\ \A j \in 1 .. l : o[j] = text[(i + 1) + j - 1]
      BY <1>2, <3>2, <3>3
    <3>5. i + k - 1 <= Len(text)
      BY <3>2, <3>4
    <3>6. \A j \in 1 .. k : s[j] = text[i + j - 1]
      <4> SUFFICES ASSUME NEW j \in 1 .. k PROVE s[j] = text[i + j - 1]
        OBVIOUS
      <4>1. CASE j = 1
        <5>1. i + 1 - 1 = i
          OBVIOUS
        <5> QED BY <1>4, <4>1, <5>1
      <4>2. CASE j # 1
        <5>1. PICK h : h = j - 1
          OBVIOUS
        <5>2. h \in 1 .. l /\ j = 1 + h /\ (i + 1) + h - 1 = i + j - 1
          BY <3>2, <4>2, <5>1
        <5>3. s[1 + h] = o[h]
          BY <1>4, <3>2, <5>2
        <5>4. o[h] = text[(i + 1) + h - 1]
          BY <3>4, <5>2
        <5> QED BY <5>2, <5>3, <5>4
      <4> QED BY <4>1, <4>2
    <3> QED BY <3>5, <3>6
  <2> QED BY <2>1, <2>2
<1>6. ~ Occurs(v, s)
  <2> SUFFICES ASSUME NEW p \in 1 .. Len(s), IsAt(v, s, p) PROVE FALSE
    BY <1>4 DEF Occurs
  <2>1. p + Len(v) - 1 <= Len(s) /\ \A k \in 1 .. Len(v) : s[p + k - 1] = v[k]
    BY <1>0 DEF IsAt
  <2>2. CASE p = 1
    <3>1. Len(v) \in 0 .. Len(s) /\ \A k \in 1 .. Len(v) : p + k - 1 = k
      BY <1>0, <1>4, <2>1, <2>2
    <3>2. \A k \in 1 .. Len(v) : s[k] = v[k]
      BY <2>1, <3>1
    <3>3. \A k \in 1 .. Len(v) : s[k] \notin MaskChars
      BY <1>0, <3>2
    <3>4. i + Len(v) - 1 <= Len(text) /\ \A j \in 1 .. Len(v) : s[j] = text[i + j - 1]
      BY <1>5, <3>1, <3>3
    <3>5. IsAt(v, text, i)
      BY <1>0, <3>2, <3>4 DEF IsAt
    <3> QED BY <3>5
  <2>3. CASE p # 1
    <3>1. PICK q : q = p - 1
      OBVIOUS
    <3>2. q \in 1 .. Len(o) /\ p = 1 + q /\ q + Len(v) - 1 <= Len(o)
      BY <1>0, <1>4, <2>1, <2>3, <3>1
    <3>3. \A k \in 1 .. Len(v) : o[q + k - 1] = v[k]
      <4> SUFFICES ASSUME NEW k \in 1 .. Len(v) PROVE o[q + k - 1] = v[k]
        OBVIOUS
      <4>1. PICK j : j = q + k - 1
        OBVIOUS
      <4>2. j \in 1 .. Len(o) /\ p + k - 1 = 1 + j
        BY <1>0, <1>4, <3>2, <4>1
      <4> QED BY <1>4, <2>1, <4>1, <4>2
    <3>4. q \in DOMAIN o
      BY <1>2, <3>2
    <3>5. IsAt(v, o, q)
      BY <1>0, <3>2, <3>3, Zenon DEF IsAt
    <3> QED BY <1>2, <3>4, <3>5, Zenon DEF Occurs
  <2> QED BY <2>2, <2>3
<1>7. Hides(text, v, s, i)
  BY <1>4, <1>5, <1>6 DEF Hides
<1> QED BY <1>1, <1>7

(* A secret is masked as a whole.                                          *)
LEMMA MaskedHides ==
  ASSUME NEW text \in Seq(Chars), NEW v \in SecretValues, NEW i \in 1 .. Len(text),
         NEW n, NEW o, Hides(text, v, o, n), IsAt(v, text, i)
  PROVE  Hides(text, v, Mask(v) \o o, i)
<1>0. Len(v) \in Nat \ {0} /\ DOMAIN v = 1 .. Len(v)
  BY DEF SecretValues
<1>1. PICK m, s : m = Mask(v) /\ s = m \o o
  OBVIOUS
<1>2. o \in Seq(Shown) /\ ~ Occurs(v, o)
  BY DEF Hides
<1>3. MaskLike(m, v)
  BY <1>1, MaskIsMaskLike
<1>4. ~ Occurs(v, s)
  BY <1>1, <1>2, <1>3, NotAcrossMask
<1>5. /\ m \in Seq(Shown) /\ Len(m) \in Nat \ {0}
      /\ \A p \in 1 .. Len(m) : \E q \in p .. Len(m) : q - p < Len(v) /\ m[q] \in MaskChars
      /\ \A k \in 0 .. Len(m) :
           (\A j \in 1 .. k : m[j] \notin MaskChars) => k <= Len(v) /\ \A j \in 1 .. k : m[j] = v[j]
  BY <1>3 DEF MaskLike
<1>6. /\ s \in Seq(Shown) /\ Len(s) = Len(m) + Len(o) /\ Len(o) \in Nat
      /\ \A j \in 1 .. Len(m) : s[j] = m[j]
  <2>1. o \in Seq(Shown) /\ m \in Seq(Shown) /\ s = m \o o
    BY <1>1, <1>2, <1>5
  <2> QED BY <2>1, ConcatParts
<1>7. m[Len(m)] \in MaskChars
  <2>1. Len(m) \in 1 .. Len(m)
    BY <1>5
  <2>2. PICK q \in Len(m) .. Len(m) : m[q] \in MaskChars
    BY <1>5, <2>1
  <2> QED BY <1>5, <2>2
<1>8. ASSUME NEW k \in 0 .. Len(s), \A j \in 1 .. k : s[j] \notin MaskChars
      PROVE  i + k - 1 <= Len(text) /\ \A j \in 1 .. k : s[j] = text[i + j - 1]
  <2>1. k < Len(m)
    <3> SUFFICES ASSUME ~(k < Len(m)) PROVE FALSE
      OBVIOUS
    <3>1. Len(m) \in 1 .. k /\ Len(m) \in 1 .. Len(m)
      BY <1>5, <1>6
    <3> QED BY <1>6, <1>7, <1>8, <3>1
  <2>2. k \in 0 .. Len(m) /\ \A j \in 1 .. k : j \in 1 .. Len(m)
    BY <1>5, <1>6, <2>1
  <2>3. \A j \in 1 .. k : m[j] \notin MaskChars
    BY <1>6, <1>8, <2>2
  <2>4. k <= Len(v) /\ \A j \in 1 .. k : m[j] = v[j]
    BY <1>5, <2>2, <2>3
  <2>5. i + Len(v) - 1 <= Len(text) /\ \A j \in 1 .. Len(v) : text[i + j - 1] = v[j]
    BY <1>0 DEF IsAt
  <2>6. i + k - 1 <= Len(text) /\ \A j \in 1 .. k : j \in 1 .. Len(v)
    BY <1>0, <2>4, <2>5
  <2>7. \A j \in 1 .. k : s[j] = text[i + j - 1]
    BY <1>6, <2>2, <2>4, <2>5, <2>6
  <2> QED BY <2>6, <2>7
<1>9. Hides(text, v, s, i)
  BY <1>4, <1>6, <1>8 DEF Hides
<1> QED BY <1>1, <1>9

\* h[i] is text redacted from character i on, as far down as character n.
Redacts(text, v, n, h) ==
  /\ h \in [n .. Len(text) + 1 -> Seq(Shown)]
  /\ \A i \in n .. Len(text) + 1 :
       h[i] = IF i = Len(text) + 1 THEN <<>>
              ELSE IF IsAt(v, text, i) THEN Mask(v) \o h[i + Len(v)]
              ELSE <<text[i]>> \o h[i + 1]

(* There is such a function: from behind the text on;                      *)
LEMMA RedactsEnd ==
  ASSUME NEW text \in Seq(Chars), NEW v
  PROVE  \E h : Redacts(text, v, Len(text) + 1, h)
<1>1. PICK h : h = [i \in Len(text) + 1 .. Len(text) + 1 |-> <<>>]
  OBVIOUS
<1>2. /\ h \in [Len(text) + 1 .. Len(text) + 1 -> Seq(Shown)]
      /\ \A i \in Len(text) + 1 .. Len(text) + 1 : i = Len(text) + 1 /\ h[i] = <<>>
  BY <1>1
<1> QED BY <1>2, Zenon DEF Redacts

\* h, from one position earlier on.
Before(h, n, e, x) == [i \in n .. e |-> IF i = n THEN x ELSE h[i]]

(* from each position on when there is one from the next;                  *)
LEMMA RedactsNext ==
  ASSUME NEW text \in Seq(Chars), NEW v \in SecretValues, NEW n \in 1 .. Len(text),
         NEW h, Redacts(text, v, n + 1, h)
  PROVE  \E g : Redacts(text, v, n, g)
<1>1. PICK N : N = Len(text)
  OBVIOUS
<1>2. N \in Nat /\ n \in 1 .. N /\ Len(v) \in Nat \ {0}
  BY <1>1 DEF SecretValues
<1>3. h \in [n + 1 .. N + 1 -> Seq(Shown)]
  BY <1>1 DEF Redacts
<1>4. PICK x : x = IF IsAt(v, text, n) THEN Mask(v) \o h[n + Len(v)]
                   ELSE <<text[n]>> \o h[n + 1]
  OBVIOUS
<1>5. IsAt(v, text, n) => n + Len(v) \in n + 1 .. N + 1
  BY <1>1, <1>2 DEF IsAt
<1>6. x \in Seq(Shown)
  <2>1. CASE IsAt(v, text, n)
    <3>1. PICK a, b : a = Mask(v) /\ b = h[n + Len(v)]
      OBVIOUS
    <3>2. a \in Seq(Shown)
      BY <3>1, MaskIsMaskLike DEF MaskLike
    <3>3. b \in Seq(Shown)
      BY <1>3, <1>5, <2>1, <3>1
    <3>4. x = a \o b
      BY <1>4, <2>1, <3>1
    <3> QED BY <3>2, <3>3, <3>4
  <2>2. CASE ~ IsAt(v, text, n)
    <3>1. PICK a, b : a = <<text[n]>> /\ b = h[n + 1]
      OBVIOUS
    <3>2. a \in Seq(Shown)
      BY <3>1 DEF Shown
    <3>3. b \in Seq(Shown)
      BY <1>2, <1>3, <3>1
    <3>4. x = a \o b
      BY <1>4, <2>2, <3>1
    <3> QED BY <3>2, <3>3, <3>4
  <2> QED BY <2>1, <2>2
<1>7. PICK g : g = Before(h, n, N + 1, x)
  OBVIOUS
<1>8. \A i \in n .. N + 1 : i = n \/ i \in n + 1 .. N + 1
  BY <1>2
<1>9. n \in n .. N + 1 /\ \A i \in n + 1 .. N + 1 : i # n /\ i \in n .. N + 1
  BY <1>2
<1>10. g \in [n .. N + 1 -> Seq(Shown)] /\ g[n] = x /\ \A i \in n + 1 .. N + 1 : g[i] = h[i]
  BY <1>3, <1>6, <1>7, <1>8, <1>9 DEF Before
<1>11. g[n] = IF n = N + 1 THEN <<>>
              ELSE IF IsAt(v, text, n) THEN Mask(v) \o g[n + Len(v)]
              ELSE <<text[n]>> \o g[n + 1]
  <2>1. n # N + 1 /\ n + 1 \in n + 1 .. N + 1
    BY <1>2
  <2>2. g[n + 1] = h[n + 1] /\ (IsAt(v, text, n) => g[n + Len(v)] = h[n + Len(v)])
    BY <1>5, <1>10, <2>1, Zenon
  <2> QED BY <1>4, <1>10, <2>1, <2>2, Zenon
<1>12. \A i \in n + 1 .. N + 1 :
         g[i] = IF i = N + 1 THEN <<>>
                ELSE IF IsAt(v, text, i) THEN Mask(v) \o g[i + Len(v)]
                ELSE <<text[i]>> \o g[i + 1]
  <2> SUFFICES ASSUME NEW i \in n + 1 .. N + 1
               PROVE  g[i] = IF i = N + 1 THEN <<>>
                             ELSE IF IsAt(v, text, i) THEN Mask(v) \o g[i + Len(v)]
                             ELSE <<text[i]>> \o g[i + 1]
    OBVIOUS
  <2>1. h[i] = IF i = N + 1 THEN <<>>
               ELSE IF IsAt(v, text, i) THEN Mask(v) \o h[i + Len(v)]
               ELSE <<text[i]>> \o h[i + 1]
    BY <1>1 DEF Redacts
  <2>2. i # N + 1 => i + 1 \in n + 1 .. N + 1
    BY <1>2
  <2>3. IsAt(v, text, i) => i + Len(v) \in n + 1 .. N + 1
    BY <1>1, <1>2 DEF IsAt
  <2>4. g[i] = h[i]
    BY <1>10
  <2>5. i # N + 1 => g[i + 1] = h[i + 1]
    BY <1>10, <2>2, Zenon
  <2>6. IsAt(v, text, i) => g[i + Len(v)] = h[i + Len(v)]
    BY <1>10, <2>3, Zenon
  <2> QED BY <2>1, <2>4, <2>5, <2>6, Zenon
<1>13. Redacts(text, v, n, g)
  BY <1>1, <1>8, <1>10, <1>11, <1>12, Zenon DEF Redacts
<1> QED BY <1>13

(* so there is such a function for the whole text.                         *)
LEMMA RedactsExists ==
  ASSUME NEW text \in Seq(Chars), NEW v \in SecretValues
  PROVE  \E h : Redacts(text, v, 1, h)
<1>1. PICK N : N = Len(text)
  OBVIOUS
<1>2. N \in Nat
  BY <1>1
<1>3. PICK T : T = {d \in Nat : d <= N => \E h : Redacts(text, v, N + 1 - d, h)}
  OBVIOUS
<1>4. 0 \in T
  <2>1. N + 1 - 0 = N + 1
    BY <1>2
  <2> QED BY <1>1, <1>3, <2>1, RedactsEnd
<1>5. \A d \in T : d + 1 \in T
  <2> SUFFICES ASSUME NEW d \in T PROVE d + 1 \in T
    OBVIOUS
  <2>1. d \in Nat /\ d + 1 \in Nat
    BY <1>3
  <2>2. ASSUME d + 1 <= N PROVE \E h : Redacts(text, v, N + 1 - (d + 1), h)
    <3>1. PICK n : n = N - d
      OBVIOUS
    <3>2. n \in 1 .. Len(text) /\ n + 1 = N + 1 - d /\ n = N + 1 - (d + 1) /\ d <= N
      BY <1>1, <1>2, <2>1, <2>2, <3>1
    <3>3. PICK h : Redacts(text, v, n + 1, h)
      BY <1>3, <3>2
    <3>4. \E g : Redacts(text, v, n, g)
      BY <3>2, <3>3, RedactsNext
    <3> QED BY <3>2, <3>4
  <2> QED BY <1>3, <2>1, <2>2
<1>6. T = Nat
  <2>1. T \subseteq Nat
    BY <1>3
  <2> QED BY <1>4, <1>5, <2>1, SetInduction
<1>7. N \in T /\ N <= N /\ N + 1 - N = 1
  BY <1>2, <1>6
<1> QED BY <1>3, <1>7

(* It is what RedactSpan computes.                                         *)
LEMMA RedactsIsRedactSpan ==
  ASSUME NEW text \in Seq(Chars), NEW v \in SecretValues, text # <<>>,
         NEW h, Redacts(text, v, 1, h)
  PROVE  RedactSpan(text, v) = h[1]
<1> DEFINE F(f) == [i \in 1 .. Len(text) + 1 |->
                      IF i = Len(text) + 1 THEN <<>>
                      ELSE IF IsAt(v, text, i) THEN Mask(v) \o f[i + Len(v)]
                      ELSE <<text[i]>> \o f[i + 1]]
<1>1. RedactSpan(text, v) = (CHOOSE f : f = F(f))[1]
  <2>1. ~(v = <<>> \/ text = <<>>)
    BY DEF SecretValues
  <2> QED BY <2>1, Zenon DEF RedactSpan
<1>2. h = F(h)
  BY Zenon DEF Redacts
<1>3. PICK f : f = (CHOOSE g : g = F(g))
  OBVIOUS
<1>4. f = F(f)
  BY <1>2, <1>3, Zenon
<1>5. PICK N : N = Len(text)
  OBVIOUS
<1>6. N \in Nat /\ Len(v) \in Nat \ {0}
  BY <1>5 DEF SecretValues
<1>7. \A i \in 1 .. N + 1 :
        /\ f[i] = IF i = N + 1 THEN <<>>
                  ELSE IF IsAt(v, text, i) THEN Mask(v) \o f[i + Len(v)]
                  ELSE <<text[i]>> \o f[i + 1]
        /\ h[i] = IF i = N + 1 THEN <<>>
                  ELSE IF IsAt(v, text, i) THEN Mask(v) \o h[i + Len(v)]
                  ELSE <<text[i]>> \o h[i + 1]
  <2>1. \A i \in 1 .. Len(text) + 1 :
          f[i] = IF i = Len(text) + 1 THEN <<>>
                 ELSE IF IsAt(v, text, i) THEN Mask(v) \o f[i + Len(v)]
                 ELSE <<text[i]>> \o f[i + 1]
    BY <1>4, Zenon
  <2>2. \A i \in 1 .. Len(text) + 1 :
          h[i] = IF i = Len(text) + 1 THEN <<>>
                 ELSE IF IsAt(v, text, i) THEN Mask(v) \o h[i + Len(v)]
                 ELSE <<text[i]>> \o h[i + 1]
    BY Zenon DEF Redacts
  <2> QED BY <1>5, <2>1, <2>2, Zenon
<1> HIDE DEF F
<1>8. PICK T : T = {d \in Nat : \A i \in 1 .. N + 1 : N + 1 - i <= d => f[i] = h[i]}
  OBVIOUS
<1>9. 0 \in T
  <2>1. \A i \in 1 .. N + 1 : N + 1 - i <= 0 => i = N + 1
    BY <1>6
  <2>2. N + 1 \in 1 .. N + 1
    BY <1>6
  <2>3. f[N + 1] = h[N + 1]
    BY <1>7, <2>2
  <2> QED BY <1>8, <2>1, <2>3
<1>10. \A d \in T : d + 1 \in T
  <2> SUFFICES ASSUME NEW d \in T PROVE d + 1 \in T
    OBVIOUS
  <2>1. d \in Nat /\ d + 1 \in Nat /\ \A i \in 1 .. N + 1 : N + 1 - i <= d => f[i] = h[i]
    BY <1>8
  <2>2. ASSUME NEW i \in 1 .. N + 1, N + 1 - i <= d + 1 PROVE f[i] = h[i]
    <3>1. CASE i = N + 1
      BY <1>7, <3>1
    <3>2. CASE i # N + 1
      <4>1. PICK j, k : j = i + 1 /\ k = i + Len(v)
        OBVIOUS
      <4>2. j \in 1 .. N + 1 /\ N + 1 - j <= d
        BY <1>6, <2>1, <2>2, <3>2, <4>1
      <4>3. IsAt(v, text, i) => k \in 1 .. N + 1 /\ N + 1 - k <= d
        BY <1>5, <1>6, <2>1, <2>2, <3>2, <4>1 DEF IsAt
      <4>4. f[j] = h[j] /\ (IsAt(v, text, i) => f[k] = h[k])
        BY <2>1, <4>2, <4>3
      <4> QED BY <1>7, <3>2, <4>1, <4>4, Zenon
    <3> QED BY <3>1, <3>2
  <2> QED BY <1>8, <2>1, <2>2
<1>11. T = Nat
  <2>1. T \subseteq Nat
    BY <1>8
  <2> QED BY <1>9, <1>10, <2>1, SetInduction
<1>12. f[1] = h[1]
  <2>1. N \in T /\ 1 \in 1 .. N + 1 /\ N + 1 - 1 <= N
    BY <1>6, <1>11
  <2> QED BY <1>8, <2>1
<1> QED BY <1>1, <1>3, <1>12

(* Whatever is left of a text, redacted, it shows no secret.               *)
LEMMA RedactsHides ==
  ASSUME NEW text \in Seq(Chars), NEW v \in SecretValues, NEW h, Redacts(text, v, 1, h)
  PROVE  Hides(text, v, h[1], 1)
<1>1. PICK N : N = Len(text)
  OBVIOUS
<1>2. N \in Nat /\ Len(v) \in Nat \ {0}
  BY <1>1 DEF SecretValues
<1>3. \A i \in 1 .. N + 1 : h[i] = IF i = N + 1 THEN <<>>
                                   ELSE IF IsAt(v, text, i) THEN Mask(v) \o h[i + Len(v)]
                                   ELSE <<text[i]>> \o h[i + 1]
  BY <1>1, Zenon DEF Redacts
<1>4. PICK T : T = {d \in Nat : \A i \in 1 .. N + 1 : N + 1 - i <= d => Hides(text, v, h[i], i)}
  OBVIOUS
<1>5. 0 \in T
  <2>1. \A i \in 1 .. N + 1 : N + 1 - i <= 0 => i = N + 1
    BY <1>2
  <2>2. N + 1 \in 1 .. N + 1
    BY <1>2
  <2>3. PICK o : o = h[N + 1]
    OBVIOUS
  <2>4. o = <<>>
    BY <1>3, <2>2, <2>3
  <2>5. Hides(text, v, o, N + 1)
    <3>1. o \in Seq(Shown) /\ Len(o) = 0 /\ DOMAIN o = {}
      BY <2>4
    <3>2. ~ Occurs(v, o)
      BY <3>1 DEF Occurs
    <3>3. \A k \in 0 .. Len(o) : k = 0 /\ N + 1 + k - 1 <= Len(text) /\ 1 .. k = {}
      BY <1>1, <1>2, <3>1
    <3> QED BY <3>1, <3>2, <3>3 DEF Hides
  <2> QED BY <1>4, <2>1, <2>3, <2>5
<1>6. \A d \in T : d + 1 \in T
  <2> SUFFICES ASSUME NEW d \in T PROVE d + 1 \in T
    OBVIOUS
  <2>1. /\ d \in Nat /\ d + 1 \in Nat
        /\ \A i \in 1 .. N + 1 : N + 1 - i <= d => Hides(text, v, h[i], i)
    BY <1>4
  <2>2. ASSUME NEW i \in 1 .. N + 1, N + 1 - i <= d + 1 PROVE Hides(text, v, h[i], i)
    <3>1. CASE i = N + 1
      <4>1. N + 1 - i <= d
        BY <1>2, <2>1, <3>1
      <4> QED BY <2>1, <4>1
    <3>2. CASE i # N + 1
      <4>1. PICK j, k, a, b : /\ j = i + 1 /\ k = i + Len(v)
                              /\ a = h[j] /\ b = h[k]
        OBVIOUS
      <4>2. j \in 1 .. N + 1 /\ N + 1 - j <= d /\ i \in 1 .. Len(text)
        BY <1>1, <1>2, <2>1, <2>2, <3>2, <4>1
      <4>3. CASE IsAt(v, text, i)
        <5>1. k \in 1 .. N + 1 /\ N + 1 - k <= d
          BY <1>1, <1>2, <2>1, <2>2, <3>2, <4>1, <4>3 DEF IsAt
        <5>2. Hides(text, v, b, k)
          BY <2>1, <4>1, <5>1
        <5>3. Hides(text, v, Mask(v) \o b, i)
          BY <4>2, <4>3, <5>2, MaskedHides
        <5>4. h[i] = Mask(v) \o b
          BY <1>3, <3>2, <4>1, <4>3
        <5> QED BY <5>3, <5>4
      <4>4. CASE ~ IsAt(v, text, i)
        <5>1. Hides(text, v, a, i + 1)
          BY <2>1, <4>1, <4>2
        <5>2. Hides(text, v, <<text[i]>> \o a, i)
          BY <4>2, <4>4, <5>1, KeptHides
        <5>3. h[i] = <<text[i]>> \o a
          BY <1>3, <3>2, <4>1, <4>4
        <5> QED BY <5>2, <5>3
      <4> QED BY <4>3, <4>4
    <3> QED BY <3>1, <3>2
  <2> QED BY <1>4, <2>1, <2>2
<1>7. T = Nat
  <2>1. T \subseteq Nat
    BY <1>4
  <2> QED BY <1>5, <1>6, <2>1, SetInduction
<1>8. N \in T /\ 1 \in 1 .. N + 1 /\ N + 1 - 1 <= N
  BY <1>2, <1>7
<1> QED BY <1>4, <1>8

(* A redacted text does not show the secret, however often and wherever it *)
(* stood in it, for each secret that has none of the mask's characters.    *)
THEOREM RedactSpanHides ==
  ASSUME NEW text \in Seq(Chars), NEW v \in SecretValues
  PROVE  ~ Occurs(v, RedactSpan(text, v))
<1>1. CASE text = <<>>
  <2>1. RedactSpan(text, v) = <<>>
    BY <1>1, Zenon DEF RedactSpan
  <2> QED BY <2>1 DEF Occurs
<1>2. CASE text # <<>>
  <2>1. PICK h : Redacts(text, v, 1, h)
    BY RedactsExists
  <2>2. Hides(text, v, h[1], 1)
    BY <2>1, RedactsHides
  <2>3. RedactSpan(text, v) = h[1]
    BY <1>2, <2>1, RedactsIsRedactSpan
  <2>4. ~ Occurs(v, h[1])
    BY <2>2 DEF Hides
  <2> QED BY <2>3, <2>4, Zenon
<1> QED BY <1>1, <1>2

-----------------------------------------------------------------------------
(* What is found in a text.                                                *)

\* The keys of the findings in a text.
KeyOf(m) == <<m.detector, m.rule, m.value>>
KeysIn(text) == {KeyOf(m) : m \in Inspect(text)}

(* A result has the secret if it has anything.                             *)
LEMMA PreferredIs ==
  ASSUME NEW d
  PROVE  preferredSecretValue(Result(d)) = IF d.field \in ResultFields THEN d.secret ELSE <<>>
<1>1. PICK r, v : r = Result(d) /\ v = d.secret
  OBVIOUS
<1>2. /\ r.Raw = IF "Raw" = d.field THEN v ELSE <<>>
      /\ r.RawV2 = IF "RawV2" = d.field THEN v ELSE <<>>
      /\ r.Redacted = IF "Redacted" = d.field THEN v ELSE <<>>
  BY <1>1 DEF Result, ResultFields
<1>3. "Raw" # "RawV2" /\ "Raw" # "Redacted" /\ "RawV2" # "Redacted"
  OBVIOUS
<1> QED BY <1>1, <1>2, <1>3 DEF preferredSecretValue, ResultFields

\* What a detector of trufflehog returns.
ResultMatch(d) == [detector |-> "trufflehog", rule |-> d.type,
                   value |-> preferredSecretValue(Result(d)),
                   context |-> preferredSecretValue(Result(d))]

(* A match shows a secret that stands in the text or in what a decoder     *)
(* makes of it.                                                            *)
LEMMA MatchIs ==
  ASSUME NEW text \in Seq(Chars), NEW m \in Inspect(text)
  PROVE  /\ m.value \in SecretValues /\ m.context \in Seq(Chars)
         /\ \E p \in Passes(text) : Occurs(m.value, p)
<1>1. CASE m \in BetterleaksInspect(text)
  <2>1. PICK r \in BetterleaksRules :
          /\ Occurs(r.secret, text)
          /\ m = [detector |-> "betterleaks", rule |-> r.id, value |-> r.secret, context |-> text]
    BY <1>1, Zenon DEF BetterleaksInspect
  <2>2. m.value = r.secret /\ m.context = text
    BY <2>1
  <2>3. r.secret \in SecretValues
    BY DetectionAssumption DEF SecretValues
  <2>4. text \in Passes(text)
    BY Zenon DEF Passes
  <2> QED BY <2>1, <2>2, <2>3, <2>4
<1>2. CASE m \in TrufflehogInspect(text)
  <2>1. PICK data \in Passes(text) : m \in scanBytes(data)
    BY <1>2, Zenon DEF TrufflehogInspect
  <2>2. PICK d \in TrufflehogDetectors :
          Occurs(d.secret, data) /\ m = ResultMatch(d) /\ m.value # <<>>
    BY <2>1, Zenon DEF scanBytes, MatchesOf, Candidates, ResultMatch
  <2>3. PICK v : v = preferredSecretValue(Result(d))
    OBVIOUS
  <2>4. m.value = v /\ m.context = v
    BY <2>2, <2>3 DEF ResultMatch
  <2>5. v = d.secret
    BY <2>2, <2>3, <2>4, PreferredIs
  <2>6. d.secret \in SecretValues /\ d.secret \in Seq(Chars)
    BY DetectionAssumption DEF SecretValues
  <2> QED BY <2>2, <2>4, <2>5, <2>6
<1> QED BY <1>1, <1>2 DEF Inspect

(* Each rule that knows a secret finds it, whichever others fail.          *)
LEMMA RuleFinds ==
  ASSUME NEW text, NEW r \in BetterleaksRules, Occurs(r.secret, text)
  PROVE  <<"betterleaks", r.id, r.secret>> \in KeysIn(text)
<1>1. PICK m : m = [detector |-> "betterleaks", rule |-> r.id, value |-> r.secret, context |-> text]
  OBVIOUS
<1>2. m \in Inspect(text)
  BY <1>1, Zenon DEF BetterleaksInspect, Inspect
<1>3. m.detector = "betterleaks" /\ m.rule = r.id /\ m.value = r.secret
  BY <1>1
<1> QED BY <1>2, <1>3, Zenon DEF KeysIn, KeyOf

(* So does each detector, in the text or in what a decoder makes of it.    *)
LEMMA DetectorFinds ==
  ASSUME NEW text, NEW d \in TrufflehogDetectors, d.field \in ResultFields, ~ d.fails,
         NEW p \in Passes(text), Occurs(d.secret, p)
  PROVE  <<"trufflehog", d.type, d.secret>> \in KeysIn(text)
<1>1. PICK m : m = ResultMatch(d)
  OBVIOUS
<1>2. preferredSecretValue(Result(d)) = d.secret
  BY PreferredIs
<1>3. m.detector = "trufflehog" /\ m.rule = d.type /\ m.value = d.secret
  BY <1>1, <1>2 DEF ResultMatch
<1>4. d.secret # <<>>
  BY DetectionAssumption
<1>5. m \in scanBytes(p)
  BY <1>1, <1>3, <1>4, Zenon DEF scanBytes, MatchesOf, Candidates, ResultMatch
<1>6. m \in Inspect(text)
  BY <1>5, Zenon DEF TrufflehogInspect, Inspect
<1> QED BY <1>3, <1>6, Zenon DEF KeysIn, KeyOf

(* What occurs in the end of a text occurs in the text,                    *)
LEMMA EndOccurs ==
  \A S, a, b, v : /\ a \in Seq(S) /\ b \in Seq(S)
                  /\ Len(v) \in Nat /\ DOMAIN v = 1 .. Len(v) /\ Occurs(v, a)
                  => Occurs(v, b \o a)
<1> TAKE S, a, b, v
<1>0. SUFFICES ASSUME /\ a \in Seq(S) /\ b \in Seq(S)
                      /\ Len(v) \in Nat /\ DOMAIN v = 1 .. Len(v) /\ Occurs(v, a)
               PROVE  Occurs(v, b \o a)
  OBVIOUS
<1>1. PICK s, A, B, V : s = b \o a /\ A = Len(a) /\ B = Len(b) /\ V = Len(v)
  OBVIOUS
<1>2. /\ Len(s) = B + A /\ DOMAIN s = 1 .. Len(s)
      /\ A \in Nat /\ B \in Nat /\ V \in Nat /\ DOMAIN a = 1 .. A
  BY <1>0, <1>1, ConcatParts
<1>3. \A j \in 1 .. A : s[B + j] = a[j]
  BY <1>0, <1>1, ConcatParts
<1>4. PICK i \in 1 .. A : i + V - 1 <= A /\ \A k \in 1 .. V : a[i + k - 1] = v[k]
  BY <1>0, <1>1, <1>2, Zenon DEF Occurs, IsAt
<1>5. B + i \in 1 .. Len(s) /\ B + i + V - 1 <= Len(s)
  BY <1>2, <1>4
<1>6. ASSUME NEW k \in 1 .. V PROVE s[B + i + k - 1] = v[k]
  <2>1. i + k - 1 \in 1 .. A /\ B + i + k - 1 = B + (i + k - 1)
    BY <1>2, <1>4
  <2>2. s[B + (i + k - 1)] = a[i + k - 1]
    BY <1>3, <2>1, Zenon
  <2> QED BY <1>4, <2>1, <2>2, Zenon
<1>7. IsAt(v, s, B + i)
  BY <1>0, <1>1, <1>5, <1>6, Zenon DEF IsAt
<1> QED BY <1>1, <1>2, <1>5, <1>7, Zenon DEF Occurs

(* stated with its assumptions, as the proofs below cite it.               *)
LEMMA OccursInEnd ==
  ASSUME NEW S, NEW a \in Seq(S), NEW b \in Seq(S), NEW v, Len(v) \in Nat,
         DOMAIN v = 1 .. Len(v), Occurs(v, a)
  PROVE  Occurs(v, b \o a)
BY EndOccurs, Zenon

(* and so it does when both are decoded.                                   *)
LEMMA DecodedEnd ==
  ASSUME NEW a \in Seq(Chars), NEW b \in Seq(Chars), NEW dec,
         \E i \in DOMAIN a : a[i] \in DOMAIN dec
  PROVE  \E S : \E x \in Seq(S) : /\ Decoded(dec, a) \in Seq(S)
                                  /\ Decoded(dec, b \o a) = x \o Decoded(dec, a)
<1>1. PICK s : s = b \o a
  OBVIOUS
<1>2. /\ s \in Seq(Chars) /\ Len(s) = Len(b) + Len(a) /\ Len(a) \in Nat /\ Len(b) \in Nat
      /\ \A i \in 1 .. Len(b) : s[i] = b[i]
      /\ \A i \in 1 .. Len(a) : s[Len(b) + i] = a[i]
  BY <1>1, ConcatParts
<1>3. \E i \in DOMAIN s : s[i] \in DOMAIN dec
  <2>1. PICK i \in 1 .. Len(a) : a[i] \in DOMAIN dec
    OBVIOUS
  <2>2. Len(b) + i \in DOMAIN s
    BY <1>2
  <2> QED BY <1>2, <2>1, <2>2
<1> DEFINE plain(c) == IF c \in DOMAIN dec THEN dec[c] ELSE c
<1>4. PICK S : S = {plain(c) : c \in Chars}
  OBVIOUS
<1>5. \A c \in Chars : plain(c) \in S
  BY <1>4
<1>6. PICK x, y, z : /\ x = [i \in 1 .. Len(b) |-> plain(b[i])]
                     /\ y = Decoded(dec, a) /\ z = Decoded(dec, s)
  OBVIOUS
<1>7. y = [i \in 1 .. Len(a) |-> plain(a[i])] /\ z = [i \in 1 .. Len(s) |-> plain(s[i])]
  <2>1. y = [i \in DOMAIN a |-> plain(a[i])]
    BY <1>6, Zenon DEF Decoded
  <2>2. z = [i \in DOMAIN s |-> plain(s[i])]
    BY <1>3, <1>6, Zenon DEF Decoded
  <2>3. DOMAIN a = 1 .. Len(a) /\ DOMAIN s = 1 .. Len(s)
    BY <1>2
  <2> QED BY <2>1, <2>2, <2>3, Zenon
<1> HIDE DEF plain
<1>8. \A t \in Seq(Chars) : \A u : u = [i \in 1 .. Len(t) |-> plain(t[i])] =>
        u \in Seq(S) /\ Len(u) = Len(t) /\ \A i \in 1 .. Len(t) : u[i] = plain(t[i])
  <2> SUFFICES ASSUME NEW t \in Seq(Chars), NEW u, u = [i \in 1 .. Len(t) |-> plain(t[i])]
               PROVE  u \in Seq(S) /\ Len(u) = Len(t) /\ \A i \in 1 .. Len(t) : u[i] = plain(t[i])
    OBVIOUS
  <2>1. Len(t) \in Nat /\ \A i \in 1 .. Len(t) : plain(t[i]) \in S
    BY <1>5
  <2>2. u \in [1 .. Len(t) -> S]
    BY <2>1
  <2>3. u \in Seq(S)
    BY <2>1, <2>2, SeqDef
  <2>4. Len(u) = Len(t)
    BY <2>1, <2>2, <2>3
  <2> QED BY <2>3, <2>4
<1>9. x \in Seq(S) /\ Len(x) = Len(b) /\ \A i \in 1 .. Len(b) : x[i] = plain(b[i])
  BY <1>6, <1>8
<1>10. y \in Seq(S) /\ Len(y) = Len(a) /\ \A i \in 1 .. Len(a) : y[i] = plain(a[i])
  BY <1>7, <1>8
<1>11. z \in Seq(S) /\ Len(z) = Len(s) /\ \A i \in 1 .. Len(s) : z[i] = plain(s[i])
  BY <1>2, <1>7, <1>8
<1>12. z = x \o y
  <2>1. PICK w : w = x \o y
    OBVIOUS
  <2>a. x \in Seq(S) /\ y \in Seq(S) /\ w = x \o y
    BY <1>9, <1>10, <2>1
  <2>2. /\ w \in Seq(S) /\ Len(w) = Len(x) + Len(y)
        /\ \A i \in 1 .. Len(x) : w[i] = x[i]
        /\ \A i \in 1 .. Len(y) : w[Len(x) + i] = y[i]
    BY <2>a, ConcatParts
  <2>3. Len(w) = Len(z)
    BY <1>2, <1>9, <1>10, <1>11, <2>2
  <2>4. ASSUME NEW i \in 1 .. Len(z) PROVE z[i] = w[i]
    <3>1. CASE i <= Len(b)
      <4>1. i \in 1 .. Len(b) /\ i \in 1 .. Len(s)
        BY <1>2, <1>11, <3>1
      <4> QED BY <1>2, <1>9, <1>11, <2>2, <4>1
    <3>2. CASE ~(i <= Len(b))
      <4>1. PICK j : j = i - Len(b)
        OBVIOUS
      <4>2. j \in 1 .. Len(a) /\ i = Len(b) + j /\ i \in 1 .. Len(s)
        BY <1>2, <1>11, <3>2, <4>1
      <4>3. s[i] = a[j] /\ w[i] = y[j]
        BY <1>2, <1>9, <1>10, <2>2, <4>2
      <4> QED BY <1>10, <1>11, <4>2, <4>3
    <3> QED BY <3>1, <3>2
  <2>5. z = w
    BY <1>11, <2>2, <2>3, <2>4, SeqEqual
  <2> QED BY <2>1, <2>5
<1> QED BY <1>1, <1>6, <1>9, <1>10, <1>12

(* What is found in the end of a text is found in the text.                *)
LEMMA FoundInEnd ==
  ASSUME NEW a \in Seq(Chars), NEW b \in Seq(Chars)
  PROVE  KeysIn(a) \subseteq KeysIn(b \o a)
<1> SUFFICES ASSUME NEW m \in Inspect(a) PROVE KeyOf(m) \in KeysIn(b \o a)
  BY Zenon DEF KeysIn
<1>1. CASE m \in BetterleaksInspect(a)
  <2>1. PICK r \in BetterleaksRules :
          /\ Occurs(r.secret, a)
          /\ m = [detector |-> "betterleaks", rule |-> r.id, value |-> r.secret, context |-> a]
    BY <1>1, Zenon DEF BetterleaksInspect
  <2>2. KeyOf(m) = <<"betterleaks", r.id, r.secret>>
    BY <2>1 DEF KeyOf
  <2>3. PICK v : v = r.secret
    OBVIOUS
  <2>4. Len(v) \in Nat /\ DOMAIN v = 1 .. Len(v) /\ v # <<>>
    BY <2>3, DetectionAssumption
  <2>5. Occurs(v, b \o a)
    BY <2>1, <2>3, <2>4, OccursInEnd
  <2> QED BY <2>2, <2>3, <2>5, RuleFinds
<1>2. CASE m \in TrufflehogInspect(a)
  <2>1. PICK data \in Passes(a) : m \in scanBytes(data)
    BY <1>2, Zenon DEF TrufflehogInspect
  <2>2. PICK d \in TrufflehogDetectors :
          /\ Occurs(d.secret, data) /\ ~ d.fails
          /\ m = ResultMatch(d) /\ m.value # <<>>
    BY <2>1, Zenon DEF scanBytes, MatchesOf, Candidates, ResultMatch
  <2>3. /\ m.detector = "trufflehog" /\ m.rule = d.type
        /\ m.value = preferredSecretValue(Result(d))
    BY <2>2 DEF ResultMatch
  <2>4. d.field \in ResultFields /\ m.value = d.secret
    BY <2>2, <2>3, PreferredIs
  <2>5. KeyOf(m) = <<"trufflehog", d.type, d.secret>>
    BY <2>3, <2>4, Zenon DEF KeyOf
  <2>6. PICK v : v = d.secret
    OBVIOUS
  <2>7. Len(v) \in Nat /\ DOMAIN v = 1 .. Len(v) /\ v # <<>>
    BY <2>6, DetectionAssumption
  <2>8. \E p \in Passes(b \o a) : Occurs(v, p)
    <3>1. CASE data = a
      <4>1. Occurs(v, b \o a)
        BY <2>2, <2>6, <2>7, <3>1, OccursInEnd
      <4> QED BY <4>1, Zenon DEF Passes
    <3>2. ASSUME NEW dec \in Decoders, data = Decoded(dec, a)
          PROVE  \E p \in Passes(b \o a) : Occurs(v, p)
      <4>1. \E i \in DOMAIN a : a[i] \in DOMAIN dec
        <5> SUFFICES ASSUME ~ \E i \in DOMAIN a : a[i] \in DOMAIN dec PROVE FALSE
          OBVIOUS
        <5>1. data = <<>>
          BY <3>2, Zenon DEF Decoded
        <5>2. DOMAIN data = {}
          BY <5>1
        <5> QED BY <2>2, <5>2 DEF Occurs
      <4>2. \E S : \E x \in Seq(S) : /\ Decoded(dec, a) \in Seq(S)
                                     /\ Decoded(dec, b \o a) = x \o Decoded(dec, a)
        BY <4>1, DecodedEnd, Zenon
      <4>3. PICK S, x : /\ x \in Seq(S) /\ data \in Seq(S)
                        /\ Decoded(dec, b \o a) = x \o data
        BY <3>2, <4>2, Zenon
      <4>4. Occurs(v, x \o data)
        BY <2>2, <2>6, <2>7, <4>3, OccursInEnd
      <4>5. Decoded(dec, b \o a) \in Passes(b \o a)
        BY Zenon DEF Passes
      <4> QED BY <4>3, <4>4, <4>5, Zenon
    <3> QED BY <3>1, <3>2, Zenon DEF Passes
  <2> QED BY <2>2, <2>4, <2>5, <2>6, <2>8, DetectorFinds
<1> QED BY <1>1, <1>2 DEF Inspect

-----------------------------------------------------------------------------
(* The views on their way to the workers.                                  *)

\* Text t, said to be line n, is the lines of s up to n that were together in
\* a window of cl lines.
From(s, cl, n, t) ==
  /\ n \in 1 .. Len(s)
  /\ \E j \in 1 .. n : n - j < cl /\ t = Joined(s, j, n)

(* A view stays one when the stream goes on.                               *)
LEMMA FromStays ==
  ASSUME NEW S, NEW s \in Seq(Seq(S)), NEW t \in Seq(S), NEW cl, NEW n, NEW u,
         From(s, cl, n, u)
  PROVE  From(Append(s, t), cl, n, u)
<1>1. PICK j \in 1 .. n : n \in 1 .. Len(s) /\ n - j < cl /\ u = Joined(s, j, n)
  BY DEF From
<1>2. n \in 0 .. Len(s) /\ j \in 1 .. n + 1 /\ n \in 1 .. Len(Append(s, t))
  BY <1>1
<1>3. Joined(Append(s, t), j, n) = Joined(s, j, n)
  BY <1>2, JoinedStays
<1> QED BY <1>1, <1>2, <1>3, Zenon DEF From

(* A line by itself.                                                       *)
LEMMA JoinedOne ==
  ASSUME NEW S, NEW s \in Seq(Seq(S)), NEW n \in 1 .. Len(s)
  PROVE  Joined(s, n, n) = s[n]
<1>1. PICK m : m = n - 1
  OBVIOUS
<1>2. m \in 0 .. Len(s) - 1 /\ n = m + 1 /\ n \in 1 .. m + 1 /\ n \in Int /\ m \in Int /\ m < n
  BY <1>1
<1>3. Joined(s, n, m + 1) = Joined(s, n, m) \o s[m + 1]
  BY <1>2, JoinedNext
<1>4. Joined(s, n, m) = <<>>
  BY <1>2, JoinedNone
<1>5. s[n] \in Seq(S) /\ <<>> \o s[n] = s[n]
  OBVIOUS
<1> QED BY <1>2, <1>3, <1>4, <1>5

(* What the window shows of the stream it holds the end of.                *)
LEMMA WindowShows ==
  ASSUME NEW S, NEW s \in Seq(Seq(S)), s # <<>>, NEW w, NEW f, NEW cl, NEW cb,
         Caps(cl, cb), HoldsFrom(w, s, f, cl, cb)
  PROVE  /\ w.capLines = cl /\ w.capBytes = cb /\ f \in 1 .. Len(s) /\ Len(s) - f < cl
         /\ joinedOk(w) <=> f < Len(s)
         /\ f < Len(s) => JoinedView(s, w) = [lineNo |-> Len(s), text |-> Joined(s, f, Len(s))]
         /\ \A i \in 1 .. Len(s) : FitsIn(cl, cb, Lens(s), i, Len(s)) => f <= i
<1>1. PICK n, c : n = Len(s) /\ c = Lens(s)
  OBVIOUS
<1>2. n \in Nat \ {0} /\ cl \in Nat \ {0, 1}
  BY <1>1 DEF Caps
<1>3. w = Window(cl, cb, c, f, n) /\ LongestEnd(cl, cb, c, f, n)
  BY <1>1 DEF HoldsFrom
<1>4. /\ w.capLines = cl /\ w.capBytes = cb /\ w.entries = Entries(c, f, n)
  <2>1. PICK y, es : y = c[n] - c[f - 1] /\ es = Entries(c, f, n)
    OBVIOUS
  <2>2. w = [capLines |-> cl, capBytes |-> cb, bytes |-> y, entries |-> es]
    BY <1>3, <2>1, Zenon DEF Window, Contents
  <2> QED BY <2>1, <2>2
<1>5. /\ f \in 1 .. n + 1 /\ (f = n \/ n - f < cl)
      /\ \A j \in 1 .. f - 1 : ~ FitsIn(cl, cb, c, j, n)
  BY <1>2, <1>3 DEF LongestEnd, FitsIn
<1>6. f \in 1 .. n /\ n - f < cl
  <2>1. FitsIn(cl, cb, c, n, n)
    BY DEF FitsIn
  <2>2. f # n + 1
    BY <1>2, <1>5, <2>1
  <2> QED BY <1>2, <1>5, <2>2
<1>7. ASSUME NEW i \in 1 .. n, FitsIn(cl, cb, c, i, n) PROVE f <= i
  BY <1>2, <1>5, <1>6, <1>7
<1>8. PICK es, S2 : es = Entries(c, f, n) /\ S2 = AllLines(c)
  OBVIOUS
<1>9. /\ es \in Seq(S2) /\ Len(es) = n - f + 1
      /\ \A k \in 1 .. n - f + 1 : es[k] = Line(c, f + k - 1)
  <2>1. n \in Nat /\ f \in 1 .. n + 1
    BY <1>2, <1>5
  <2> QED BY <1>8, <2>1, EntriesAre
<1>10. joinedOk(w) <=> f < n
  <2>1. Len(es) >= 2 <=> f < n
    BY <1>2, <1>6, <1>9
  <2> QED BY <1>4, <1>8, <2>1, Zenon DEF joinedOk
<1>11. ASSUME f < n
       PROVE JoinedView(s, w) = [lineNo |-> n, text |-> Joined(s, f, n)]
  <2>1. PICK m : m = n - f + 1
    OBVIOUS
  <2>2. /\ m \in Nat \ {0, 1} /\ Len(es) = m /\ 1 \in 1 .. m /\ m \in 1 .. m
        /\ f + m - 1 = n /\ f + 1 - 1 = f
    BY <1>2, <1>6, <1>9, <1>11, <2>1
  <2>3. es[1] = Line(c, f) /\ es[m] = Line(c, n)
    BY <1>9, <2>1, <2>2
  <2>4. es[1].lineNo = f /\ es[m].lineNo = n
    BY <2>3 DEF Line
  <2>5. PICK nos : nos = joinedLines(w)
    OBVIOUS
  <2>6. nos = [i \in DOMAIN es |-> es[i].lineNo]
    BY <1>4, <1>8, <2>5, Zenon DEF joinedLines
  <2>7. /\ DOMAIN nos = 1 .. m /\ nos[1] = f /\ nos[m] = n
    BY <1>9, <2>2, <2>4, <2>6
  <2>8. Len(nos) = m
    BY <2>2, <2>6, <2>7
  <2>9. Head(nos) = f /\ Last(nos) = n
    BY <2>2, <2>6, <2>7, <2>8 DEF Last
  <2>10. lastLineNo(w) = n
    BY <1>4, <1>8, <2>2, <2>4 DEF lastLineNo, Last
  <2> QED BY <2>5, <2>9, <2>10 DEF JoinedView
<1> QED BY <1>1, <1>4, <1>6, <1>7, <1>10, <1>11

(* A view that a worker takes: the others stay.                            *)
LEMMA Taken ==
  ASSUME NEW S, NEW s \in Seq(S), NEW i \in 1 .. Len(s)
  PROVE  /\ RemoveAt(s, i) \in Seq(S)
         /\ Range(s) = Range(RemoveAt(s, i)) \cup {s[i]}
<1>1. PICK n, a, b, r : /\ n = Len(s) /\ a = SubSeq(s, 1, i - 1) /\ b = SubSeq(s, i + 1, n)
                        /\ r = RemoveAt(s, i)
  OBVIOUS
<1>2. n \in Nat /\ i \in 1 .. n /\ \A k \in 1 .. n : s[k] \in S
  BY <1>1
<1>3. a \in Seq(S) /\ Len(a) = i - 1 /\ \A k \in 1 .. i - 1 : a[k] = s[k]
  BY <1>1, <1>2
<1>4. b \in Seq(S) /\ Len(b) = n - i /\ \A k \in 1 .. n - i : b[k] = s[i + k]
  BY <1>1, <1>2
<1>5. r = a \o b
  BY <1>1, Zenon DEF RemoveAt
<1>6. r \in Seq(S)
  BY <1>3, <1>4, <1>5
<1>7. Range(r) = Range(a) \cup Range(b)
  BY <1>3, <1>4, <1>5, RangeConcatenation
<1>8. Range(s) = {s[k] : k \in 1 .. n}
  BY <1>1, RangeEquality
<1>9. Range(a) = {a[k] : k \in 1 .. i - 1} /\ Range(b) = {b[k] : k \in 1 .. n - i}
  <2>1. Range(a) = {a[k] : k \in 1 .. Len(a)} /\ Range(b) = {b[k] : k \in 1 .. Len(b)}
    BY <1>3, <1>4, RangeEquality
  <2> QED BY <1>3, <1>4, <2>1
<1>10. ASSUME NEW k \in 1 .. n PROVE s[k] \in Range(a) \cup Range(b) \cup {s[i]}
  <2>1. CASE k < i
    <3>1. k \in 1 .. i - 1 /\ a[k] = s[k]
      BY <1>2, <1>3, <2>1
    <3> QED BY <1>9, <3>1
  <2>2. CASE k > i
    <3>1. PICK j : j = k - i
      OBVIOUS
    <3>2. j \in 1 .. n - i /\ i + j = k
      BY <1>2, <2>2, <3>1
    <3>3. b[j] = s[k]
      BY <1>4, <3>2
    <3> QED BY <1>9, <3>2, <3>3
  <2> QED BY <1>2, <2>1, <2>2
<1>11. ASSUME NEW k \in 1 .. i - 1 PROVE a[k] \in Range(s)
  <2>1. k \in 1 .. n
    BY <1>2
  <2> QED BY <1>3, <1>8, <2>1
<1>12. ASSUME NEW k \in 1 .. n - i PROVE b[k] \in Range(s)
  <2>1. i + k \in 1 .. n
    BY <1>2
  <2> QED BY <1>4, <1>8, <2>1
<1>13. s[i] \in Range(s)
  BY <1>2, <1>8
<1>14. Range(s) = Range(r) \cup {s[i]}
  <2>1. \A x \in Range(s) : x \in Range(r) \cup {s[i]}
    BY <1>7, <1>8, <1>10, Zenon
  <2>2. \A x \in Range(r) : x \in Range(a) \/ x \in Range(b)
    BY <1>7, Zenon
  <2>3. (\A x \in Range(a) : x \in Range(s)) /\ \A x \in Range(b) : x \in Range(s)
    BY <1>9, <1>11, <1>12, Zenon
  <2>4. \A x \in Range(r) : x \in Range(s)
    BY <2>2, <2>3, Zenon
  <2> QED BY <1>13, <2>1, <2>4
<1> QED BY <1>1, <1>6, <1>14

(* Views that are sent: none is lost.                                      *)
LEMMA Given ==
  ASSUME NEW S, NEW s \in Seq(S), NEW a \in Seq(S), NEW b \in Seq(S)
  PROVE  /\ s \o a \o b \in Seq(S)
         /\ Range(s \o a \o b) = Range(s) \cup Range(a) \cup Range(b)
<1>1. PICK d : d = s \o a
  OBVIOUS
<1>2. d \in Seq(S)
  BY <1>1
<1>3. Range(s \o a) = Range(s) \cup Range(a)
  BY RangeConcatenation
<1>4. Range(d \o b) = Range(d) \cup Range(b)
  BY <1>2, RangeConcatenation
<1>5. d \o b \in Seq(S)
  BY <1>2
<1> QED BY <1>1, <1>3, <1>4, <1>5, Zenon

\* No view or one.
LEMMA RangeOfOne ==
  ASSUME NEW y
  PROVE  Range(<<>>) = {} /\ Range(<<y>>) = {y}
<1>1. Range(<<>>) = {}
  BY DEF Range
<1>2. PICK a, S : a = <<y>> /\ S = {y}
  OBVIOUS
<1>3. a \in Seq(S) /\ Len(a) = 1 /\ a[1] = y
  BY <1>2
<1>4. Range(a) = {y}
  BY <1>3, RangeEquality
<1> QED BY <1>1, <1>2, <1>4

-----------------------------------------------------------------------------
(* From the lines to the findings.                                         *)

ViewRecs == [lineNo : Nat, text : Seq(Chars)]

\* Every view is of lines that were together in the window.
ViewsOK ==
  /\ WindowInv
  /\ views \in Seq(ViewRecs)
  /\ \A x \in Range(views) : From(stream, window.capLines, x.lineNo, x.text)

\* Every finding is reported for lines that were and that have its secret.
Reports ==
  \A f \in found : \E t : /\ From(stream, window.capLines, f.lineNo, t)
                          /\ \E p \in Passes(t) : Occurs(f.valueSHA256, p)

\* What is to be found in a text that should be searched is found, or it will
\* be in a view that is still on its way.
Pending ==
  \A n \in DOMAIN stream : \A t \in Searched(n) : \A k \in KeysIn(t) :
    k \in Keys \/ \E x \in Range(views) : k \in KeysIn(x.text)

(* The caps of the window are those it was made with.                      *)
LEMMA WindowCaps ==
  ASSUME NEW s, NEW w, NEW f, NEW cl, NEW cb, HoldsFrom(w, s, f, cl, cb)
  PROVE  w.capLines = cl /\ w.capBytes = cb
<1>1. PICK y, es : /\ y = Lens(s)[Len(s)] - Lens(s)[f - 1]
                   /\ es = Entries(Lens(s), f, Len(s))
  OBVIOUS
<1>2. w = [capLines |-> cl, capBytes |-> cb, bytes |-> y, entries |-> es]
  BY <1>1, Zenon DEF HoldsFrom, Window, Contents
<1> QED BY <1>2

(* The views of a line: itself, and the window behind it.                  *)
LEMMA LineIsSent ==
  ASSUME ViewsOK, NEW text \in Texts, emitWithWindow(text)
  PROVE  \E f, cl, cb :
           /\ Caps(cl, cb)
           /\ HoldsFrom(window', stream', f, cl, cb)
           /\ window.capLines = cl /\ window.capBytes = cb
           /\ views' \in Seq(ViewRecs)
           /\ Range(views') =
                Range(views) \cup {[lineNo |-> Len(stream'), text |-> text]}
                \cup (IF f < Len(stream')
                      THEN {[lineNo |-> Len(stream'),
                             text |-> Joined(stream', f, Len(stream'))]} ELSE {})
<1>1. text \in Seq(Chars) /\ stream' = Append(stream, text) /\ stream \in Seq(Seq(Chars))
  BY LineIsPushed, Zenon DEF ViewsOK, WindowInv
<1>2. PICK f, g, cl, cb : /\ Caps(cl, cb)
                          /\ HoldsFrom(window, stream, g, cl, cb)
                          /\ HoldsFrom(window', stream', f, cl, cb)
  BY LineIsPushed, Zenon DEF ViewsOK
<1>3. window.capLines = cl /\ window.capBytes = cb
  BY <1>2, WindowCaps
<1>4. PICK s, w, n : s = stream' /\ w = window' /\ n = Len(stream')
  OBVIOUS
<1>5. /\ s \in Seq(Seq(Chars)) /\ s # <<>> /\ n = Len(s) /\ n \in Nat \ {0}
      /\ n = Len(stream) + 1 /\ n \in 0 .. Len(s)
  <2>1. PICK T, r : T = Seq(Chars) /\ r = stream
    OBVIOUS
  <2>2. r \in Seq(T) /\ text \in T /\ s = Append(r, text) /\ n = Len(s)
    BY <1>1, <1>4, <2>1, Zenon
  <2>3. s \in Seq(T) /\ s # <<>> /\ n = Len(r) + 1 /\ n \in Nat \ {0} /\ n \in 0 .. Len(s)
    BY <2>2
  <2> QED BY <2>1, <2>2, <2>3, Zenon
<1>6. HoldsFrom(w, s, f, cl, cb)
  BY <1>2, <1>4
<1>7. /\ f \in 1 .. n /\ (joinedOk(w) <=> f < n)
      /\ f < n => JoinedView(s, w) = [lineNo |-> n, text |-> Joined(s, f, n)]
  <2>1. /\ f \in 1 .. Len(s) /\ (joinedOk(w) <=> f < Len(s))
        /\ f < Len(s) => JoinedView(s, w) = [lineNo |-> Len(s), text |-> Joined(s, f, Len(s))]
    BY <1>2, <1>5, <1>6, WindowShows, Zenon
  <2> QED BY <1>5, <2>1, Zenon
<1>8. Joined(s, f, n) \in Seq(Chars)
  <2>1. f \in 1 .. n + 1
    BY <1>5, <1>7
  <2> QED BY <1>5, <2>1, JoinedText
<1>9. PICK x, y : x = [lineNo |-> n, text |-> text] /\ y = [lineNo |-> n, text |-> Joined(s, f, n)]
  OBVIOUS
<1>10. x \in ViewRecs /\ y \in ViewRecs
  BY <1>1, <1>5, <1>8, <1>9 DEF ViewRecs
<1>11. views' = views \o <<x>> \o (IF f < n THEN <<y>> ELSE <<>>)
  <2>1. views' = views \o <<x>> \o (IF joinedOk(w) THEN <<JoinedView(s, w)>> ELSE <<>>)
    BY <1>4, <1>5, <1>9, Zenon DEF emitWithWindow
  <2>2. (IF joinedOk(w) THEN <<JoinedView(s, w)>> ELSE <<>>) = (IF f < n THEN <<y>> ELSE <<>>)
    BY <1>7, <1>9, Zenon
  <2> QED BY <2>1, <2>2, Zenon
<1>12. PICK q : q = views
  OBVIOUS
<1>13. q \in Seq(ViewRecs)
  BY <1>12 DEF ViewsOK
<1>14. /\ views' \in Seq(ViewRecs)
       /\ Range(views') = Range(q) \cup {x} \cup (IF f < n THEN {y} ELSE {})
  <2>1. PICK t : t = views'
    OBVIOUS
  <2>2. t = q \o <<x>> \o (IF f < n THEN <<y>> ELSE <<>>)
    BY <1>11, <1>12, <2>1, Zenon
  <2>3. PICK b : b = (IF f < n THEN <<y>> ELSE <<>>)
    OBVIOUS
  <2>4. b \in Seq(ViewRecs)
    BY <1>10, <2>3
  <2>5. t \in Seq(ViewRecs) /\ Range(t) = Range(q) \cup {x} \cup Range(b)
    <3>1. t = q \o <<x>> \o b
      BY <2>2, <2>3, Zenon
    <3>2. PICK a : a = <<x>>
      OBVIOUS
    <3>3. a \in Seq(ViewRecs)
      BY <1>10, <3>2
    <3>4. /\ q \o a \o b \in Seq(ViewRecs)
          /\ Range(q \o a \o b) = Range(q) \cup Range(a) \cup Range(b)
      BY <1>13, <2>4, <3>3, Given
    <3>5. Range(a) = {x}
      BY <3>2, RangeOfOne, Zenon
    <3> QED BY <3>1, <3>2, <3>4, <3>5, Zenon
  <2>6. Range(b) = IF f < n THEN {y} ELSE {}
    BY <2>3, RangeOfOne, Zenon
  <2> QED BY <2>1, <2>5, <2>6, Zenon
<1>15. Range(views') = Range(views) \cup {[lineNo |-> Len(stream'), text |-> text]}
                \cup (IF f < Len(stream')
                      THEN {[lineNo |-> Len(stream'),
                             text |-> Joined(stream', f, Len(stream'))]} ELSE {})
  BY <1>4, <1>9, <1>12, <1>14, Zenon
<1> QED BY <1>2, <1>3, <1>14, <1>15, Zenon

(* So the views of a line are of lines that are together in the window.    *)
LEMMA SentViewsOK ==
  ASSUME ViewsOK, NEW text \in Texts, emitWithWindow(text)
  PROVE  /\ ViewsOK'
         /\ window'.capLines = window.capLines /\ window'.capBytes = window.capBytes
         /\ \A cl, n, t : From(stream, cl, n, t) => From(stream', cl, n, t)
<1>1. text \in Seq(Chars) /\ stream' = Append(stream, text) /\ stream \in Seq(Seq(Chars))
  BY LineIsPushed, Zenon DEF ViewsOK, WindowInv
<1>2. PICK f, cl, cb :
           /\ Caps(cl, cb)
           /\ HoldsFrom(window', stream', f, cl, cb)
           /\ window.capLines = cl /\ window.capBytes = cb
           /\ views' \in Seq(ViewRecs)
           /\ Range(views') =
                Range(views) \cup {[lineNo |-> Len(stream'), text |-> text]}
                \cup (IF f < Len(stream')
                      THEN {[lineNo |-> Len(stream'),
                             text |-> Joined(stream', f, Len(stream'))]} ELSE {})
  BY LineIsSent, Zenon
<1>3. window'.capLines = cl /\ window'.capBytes = cb
  BY <1>2, WindowCaps
<1>4. PICK s, s2, n : s = stream /\ s2 = stream' /\ n = Len(stream')
  OBVIOUS
<1>5. /\ s \in Seq(Seq(Chars)) /\ s2 \in Seq(Seq(Chars)) /\ s2 # <<>> /\ s2 = Append(s, text)
      /\ n = Len(s2) /\ n \in 1 .. Len(s2) /\ s2[n] = text
  <2>1. s \in Seq(Seq(Chars)) /\ s2 = Append(s, text) /\ n = Len(s2)
    BY <1>1, <1>4, Zenon
  <2>2. s2 \in Seq(Seq(Chars))
    BY <1>1, <2>1
  <2>3. Len(s2) = Len(s) + 1 /\ Len(s) \in Nat /\ s2[Len(s) + 1] = text
    BY <2>1
  <2>4. s2 # <<>> /\ n \in 1 .. Len(s2) /\ s2[n] = text
    BY <2>1, <2>3
  <2> QED BY <2>1, <2>2, <2>4
<1>6. \A c, m, t : From(s, c, m, t) => From(s2, c, m, t)
  BY <1>1, <1>5, FromStays
<1>7. HoldsFrom(window', s2, f, cl, cb)
  BY <1>2, <1>4
<1>8. f \in 1 .. n /\ n - f < cl /\ cl \in Nat \ {0, 1}
  BY <1>2, <1>5, <1>7, WindowShows DEF Caps
<1>9. From(s2, cl, n, text)
  <2>1. Joined(s2, n, n) = s2[n]
    BY <1>5, JoinedOne
  <2>2. n - n < cl /\ n \in 1 .. n
    BY <1>5, <1>8
  <2> QED BY <1>5, <2>1, <2>2, Zenon DEF From
<1>10. From(s2, cl, n, Joined(s2, f, n))
  BY <1>5, <1>8, Zenon DEF From
<1>11. ASSUME NEW x \in Range(views') PROVE From(stream', window'.capLines, x.lineNo, x.text)
  <2>1. CASE x \in Range(views)
    <3>1. From(stream, cl, x.lineNo, x.text)
      BY <1>2, <2>1, Zenon DEF ViewsOK
    <3> QED BY <1>3, <1>4, <1>6, <3>1, Zenon
  <2>2. CASE x = [lineNo |-> n, text |-> text]
    <3>1. x.lineNo = n /\ x.text = text
      BY <2>2
    <3> QED BY <1>3, <1>4, <1>9, <3>1, Zenon
  <2>3. CASE x = [lineNo |-> n, text |-> Joined(s2, f, n)]
    <3>1. PICK j : j = Joined(s2, f, n)
      OBVIOUS
    <3>2. x.lineNo = n /\ x.text = j
      BY <2>3, <3>1
    <3> QED BY <1>3, <1>4, <1>10, <3>1, <3>2, Zenon
  <2>4. \/ x \in Range(views) \/ x = [lineNo |-> n, text |-> text]
        \/ x = [lineNo |-> n, text |-> Joined(s2, f, n)]
    <3>1. PICK R, y, z : /\ R = Range(views) /\ y = [lineNo |-> n, text |-> text]
                         /\ z = [lineNo |-> n, text |-> Joined(s2, f, n)]
      OBVIOUS
    <3>2. x \in R \cup {y} \cup (IF f < n THEN {z} ELSE {})
      BY <1>2, <1>4, <3>1, Zenon
    <3>3. x \in R \/ x = y \/ x = z
      BY <3>2
    <3> QED BY <3>1, <3>3, Zenon
  <2> QED BY <2>1, <2>2, <2>3, <2>4
<1>12. WindowInv'
  BY WindowStep, Zenon DEF ViewsOK, ViewsNext
<1>13. ViewsOK'
  BY <1>2, <1>11, <1>12, Zenon DEF ViewsOK
<1> QED BY <1>2, <1>3, <1>4, <1>6, <1>13, Zenon

\* What processLine finds in view x.
FindingsOf(x) == {Finding(m, x.lineNo) : m \in Inspect(x.text)}

(* A worker takes one of the views.                                        *)
LEMMA ViewIsTaken ==
  ASSUME ViewsOK, NEW i, processLine(i)
  PROVE  /\ ViewsOK'
         /\ views[i] \in Range(views) /\ views[i] \in ViewRecs
         /\ Range(views') \subseteq Range(views)
         /\ \A x \in Range(views) : x = views[i] \/ x \in Range(views')
         /\ found \subseteq found'
         /\ found' \subseteq found \cup FindingsOf(views[i])
         /\ \A f \in FindingsOf(views[i]) : DedupeKey(f) \in Keys \/ f \in found'
<1>1. i \in DOMAIN views /\ views' = RemoveAt(views, i) /\ window' = window /\ stream' = stream
  BY Zenon DEF processLine
<1>2. PICK q, r : q = views /\ r = views'
  OBVIOUS
<1>3. q \in Seq(ViewRecs) /\ i \in 1 .. Len(q) /\ r = RemoveAt(q, i)
  <2>1. q \in Seq(ViewRecs)
    BY <1>2 DEF ViewsOK
  <2> QED BY <1>1, <1>2, <2>1
<1>4. r \in Seq(ViewRecs) /\ Range(q) = Range(r) \cup {q[i]} /\ q[i] \in ViewRecs
  BY <1>3, Taken
<1>5. /\ q[i] \in Range(q) /\ Range(r) \subseteq Range(q)
      /\ \A x \in Range(q) : x = q[i] \/ x \in Range(r)
  BY <1>4
<1>6. ViewsOK'
  <2>1. WindowInv'
    BY <1>1, Zenon DEF ViewsOK, WindowInv
  <2>2. \A x \in Range(views') : From(stream', window'.capLines, x.lineNo, x.text)
    BY <1>1, <1>2, <1>5, Zenon DEF ViewsOK
  <2> QED BY <1>2, <1>4, <2>1, <2>2, Zenon DEF ViewsOK
<1>7. found' = found \cup {f \in FindingsOf(views[i]) : DedupeKey(f) \notin Keys}
  BY Zenon DEF processLine, FindingsOf
<1>8. /\ found \subseteq found'
      /\ found' \subseteq found \cup FindingsOf(views[i])
      /\ \A f \in FindingsOf(views[i]) : DedupeKey(f) \in Keys \/ f \in found'
  <2>1. PICK F, G, H, K : F = found /\ G = found' /\ H = FindingsOf(views[i]) /\ K = Keys
    OBVIOUS
  <2>2. G = F \cup {f \in H : DedupeKey(f) \notin K}
    BY <1>7, <2>1, Zenon
  <2>3. F \subseteq G /\ G \subseteq F \cup H /\ \A f \in H : DedupeKey(f) \in K \/ f \in G
    BY <2>2, Zenon
  <2> QED BY <2>1, <2>3, Zenon
<1> QED BY <1>2, <1>4, <1>5, <1>6, <1>8, Zenon

(* A finding is of a match, under the match's key.                         *)
LEMMA FindingFields ==
  ASSUME NEW m, NEW n
  PROVE  /\ Finding(m, n).valueSHA256 = m.value /\ Finding(m, n).lineNo = n
         /\ Finding(m, n).match = Mask(m.value)
         /\ Finding(m, n).context = RedactSpan(m.context, m.value)
         /\ DedupeKey(Finding(m, n)) = KeyOf(m)
<1>1. PICK a, b : a = Mask(m.value) /\ b = RedactSpan(m.context, m.value)
  OBVIOUS
<1>2. PICK f : f = Finding(m, n)
  OBVIOUS
<1>3. /\ f.detector = m.detector /\ f.rule = m.rule
      /\ f.valueSHA256 = m.value /\ f.lineNo = n /\ f.match = a /\ f.context = b
  BY <1>1, <1>2 DEF Finding
<1> QED BY <1>1, <1>2, <1>3, Zenon DEF DedupeKey, KeyOf

-----------------------------------------------------------------------------
(* Redaction.                                                              *)

(* No step makes a finding that shows its secret.                          *)
LEMMA RedactedStep ==
  ASSUME ViewsOK, NoSecretLeft, [ViewsNext]_<<window, stream, views, found>>
  PROVE  NoSecretLeft'
<1>1. ASSUME NEW i, processLine(i) PROVE NoSecretLeft'
  <2>1. PICK x : x = views[i]
    OBVIOUS
  <2>2. x \in ViewRecs /\ found' \subseteq found \cup FindingsOf(x)
    BY <1>1, <2>1, ViewIsTaken, Zenon
  <2> SUFFICES ASSUME NEW f \in FindingsOf(x)
               PROVE  ~ Occurs(f.valueSHA256, f.match) /\ ~ Occurs(f.valueSHA256, f.context)
    BY <2>2, Zenon DEF NoSecretLeft
  <2>3. PICK m \in Inspect(x.text) : f = Finding(m, x.lineNo)
    BY Zenon DEF FindingsOf
  <2>4. x.text \in Seq(Chars)
    BY <2>2 DEF ViewRecs
  <2>5. m.value \in SecretValues /\ m.context \in Seq(Chars)
    BY <2>4, MatchIs
  <2>6. /\ f.valueSHA256 = m.value /\ f.match = Mask(m.value)
        /\ f.context = RedactSpan(m.context, m.value)
    BY <2>3, FindingFields, Zenon
  <2>7. PICK v, t : v = m.value /\ t = m.context
    OBVIOUS
  <2>8. ~ Occurs(v, Mask(v)) /\ ~ Occurs(v, RedactSpan(t, v))
    BY <2>5, <2>7, MaskHides, RedactSpanHides
  <2> QED BY <2>6, <2>7, <2>8, Zenon
<1>2. CASE found' = found
  BY <1>2, Zenon DEF NoSecretLeft
<1>3. ASSUME NEW text \in Texts, emitWithWindow(text) PROVE found' = found
  BY <1>3, Zenon DEF emitWithWindow
<1> QED BY <1>1, <1>2, <1>3, Zenon DEF ViewsNext

(* The invariant of the views: at first there are none.                    *)
LEMMA ViewsOKInit == ViewsInit => ViewsOK
<1> SUFFICES ASSUME ViewsInit PROVE ViewsOK
  OBVIOUS
<1>1. WindowInv
  BY WindowInit
<1>2. views = <<>>
  BY DEF ViewsInit
<1>3. views \in Seq(ViewRecs) /\ Range(views) = {}
  <2>1. views \in Seq(ViewRecs)
    BY <1>2
  <2>2. Range(views) = {}
    BY <1>2, RangeOfOne, Zenon
  <2> QED BY <2>1, <2>2
<1> QED BY <1>1, <1>3 DEF ViewsOK

(* Each step keeps it.                                                     *)
LEMMA ViewsOKStep ==
  ASSUME ViewsOK, [ViewsNext]_<<window, stream, views, found>>
  PROVE  ViewsOK'
<1>1. CASE UNCHANGED <<window, stream, views, found>>
  BY <1>1, Zenon DEF ViewsOK, WindowInv
<1>2. ASSUME NEW text \in Texts, emitWithWindow(text) PROVE ViewsOK'
  BY <1>2, SentViewsOK, Zenon
<1>3. ASSUME NEW i, processLine(i) PROVE ViewsOK'
  BY <1>3, ViewIsTaken, Zenon
<1> QED BY <1>1, <1>2, <1>3, Zenon DEF ViewsNext

(* With --redacted no finding shows its secret, for all texts and rules.   *)
THEOREM ViewsRedaction == ViewsSpec => []NoSecretLeft
<1>1. ViewsInit => ViewsOK /\ NoSecretLeft
  <2>1. ViewsInit => found = {}
    BY DEF ViewsInit
  <2>2. found = {} => NoSecretLeft
    BY DEF NoSecretLeft
  <2> QED BY <2>1, <2>2, ViewsOKInit
<1>2. ViewsOK /\ NoSecretLeft /\ [ViewsNext]_<<window, stream, views, found>>
        => ViewsOK' /\ NoSecretLeft'
  BY ViewsOKStep, RedactedStep
<1> QED BY <1>1, <1>2, PTL DEF ViewsSpec

-----------------------------------------------------------------------------
(* Findings.                                                               *)

(* A finding is reported for lines that were together in the window.       *)
LEMMA ReportsStep ==
  ASSUME ViewsOK, Reports, [ViewsNext]_<<window, stream, views, found>>
  PROVE  Reports'
<1>1. ASSUME NEW i, processLine(i) PROVE Reports'
  <2>1. PICK x : x = views[i]
    OBVIOUS
  <2>2. x \in ViewRecs /\ x \in Range(views) /\ found' \subseteq found \cup FindingsOf(x)
    BY <1>1, <2>1, ViewIsTaken, Zenon
  <2>3. stream' = stream /\ window' = window
    BY <1>1, Zenon DEF processLine
  <2>4. ASSUME NEW f \in FindingsOf(x)
        PROVE  \E t : /\ From(stream, window.capLines, f.lineNo, t)
                      /\ \E p \in Passes(t) : Occurs(f.valueSHA256, p)
    <3>1. PICK m \in Inspect(x.text) : f = Finding(m, x.lineNo)
      BY Zenon DEF FindingsOf
    <3>2. x.text \in Seq(Chars)
      BY <2>2 DEF ViewRecs
    <3>3. \E p \in Passes(x.text) : Occurs(m.value, p)
      BY <3>2, MatchIs
    <3>4. f.valueSHA256 = m.value /\ f.lineNo = x.lineNo
      BY <3>1, FindingFields, Zenon
    <3>5. From(stream, window.capLines, x.lineNo, x.text)
      BY <2>2, Zenon DEF ViewsOK
    <3> QED BY <3>3, <3>4, <3>5, Zenon
  <2>5. ASSUME NEW f \in found
        PROVE  \E t : /\ From(stream, window.capLines, f.lineNo, t)
                      /\ \E p \in Passes(t) : Occurs(f.valueSHA256, p)
    BY Zenon DEF Reports
  <2>6. \A f \in found' : f \in found \/ f \in FindingsOf(x)
    BY <2>2
  <2> QED BY <2>3, <2>4, <2>5, <2>6, Zenon DEF Reports
<1>2. CASE UNCHANGED <<window, stream, views, found>>
  BY <1>2, Zenon DEF Reports
<1>3. ASSUME NEW text \in Texts, emitWithWindow(text) PROVE Reports'
  <2>1. found' = found
    BY <1>3, Zenon DEF emitWithWindow
  <2>2. /\ window'.capLines = window.capLines
        /\ \A cl, n, t : From(stream, cl, n, t) => From(stream', cl, n, t)
    BY <1>3, SentViewsOK, Zenon
  <2> QED BY <2>1, <2>2, Zenon DEF Reports
<1> QED BY <1>1, <1>2, <1>3, Zenon DEF ViewsNext

(* Lines that may be together in the window are together in the view that  *)
(* is sent behind the second, and what is found in them is found in it.    *)
LEMMA PairIsInView ==
  ASSUME NEW s \in Seq(Seq(Chars)), NEW n \in Nat \ {0, 1}, n = Len(s),
         NEW w, NEW f, NEW cl, NEW cb, Caps(cl, cb), HoldsFrom(w, s, f, cl, cb),
         Len(s[n - 1]) + Len(s[n]) <= cb
  PROVE  f < n /\ KeysIn(Joined(s, n - 1, n)) \subseteq KeysIn(Joined(s, f, n))
<1>1. PICK m, c : m = n - 1 /\ c = Lens(s)
  OBVIOUS
<1>2. /\ m \in 1 .. Len(s) /\ n \in 1 .. Len(s) /\ m + 1 = n /\ n - m = 1 /\ s # <<>>
      /\ m \in 0 .. Len(s) - 1 /\ m \in 1 .. m + 1 /\ n \in 0 .. Len(s) /\ m \in 1 .. n + 1
      /\ m \in 0 .. Len(s)
  BY <1>1
<1>3. cl \in Nat \ {0, 1} /\ cb \in Nat
  BY DEF Caps
<1>4. s[m] \in Seq(Chars) /\ s[n] \in Seq(Chars)
  BY <1>2
<1>5. Joined(s, m, n) = s[m] \o s[n]
  <2>1. Joined(s, m, m + 1) = Joined(s, m, m) \o s[m + 1]
    BY <1>2, JoinedNext
  <2>2. Joined(s, m, m) = s[m]
    BY <1>2, JoinedOne
  <2> QED BY <1>2, <2>1, <2>2
<1>6. c[n] - c[m - 1] = Len(s[m]) + Len(s[n])
  <2>1. Len(Joined(s, m, n)) = c[n] - c[m - 1]
    BY <1>1, <1>2, LensAre
  <2>2. Len(s[m] \o s[n]) = Len(s[m]) + Len(s[n])
    BY <1>4
  <2> QED BY <1>5, <2>1, <2>2
<1>7. FitsIn(cl, cb, c, m, n)
  <2>1. n - m < cl
    BY <1>2, <1>3
  <2>2. c[n] - c[m - 1] <= cb
    BY <1>1, <1>6
  <2> QED BY <2>1, <2>2 DEF FitsIn
<1>8. f \in 1 .. n /\ \A i \in 1 .. n : FitsIn(cl, cb, c, i, n) => f <= i
  <2>1. f \in 1 .. Len(s) /\ \A i \in 1 .. Len(s) : FitsIn(cl, cb, Lens(s), i, Len(s)) => f <= i
    BY <1>2, WindowShows, Zenon
  <2> QED BY <1>1, <2>1, Zenon
<1>9. f <= m
  BY <1>2, <1>7, <1>8
<1>10. f < n /\ f \in 1 .. m
  BY <1>2, <1>8, <1>9
<1>11. PICK a, b : a = Joined(s, m, n) /\ b = Joined(s, f, m - 1)
  OBVIOUS
<1>12. a \in Seq(Chars)
  BY <1>2, <1>11, JoinedText
<1>13. b \in Seq(Chars)
  <2>1. PICK k : k = m - 1
    OBVIOUS
  <2>2. k \in 0 .. Len(s) /\ f \in 1 .. k + 1
    BY <1>2, <1>10, <2>1
  <2> QED BY <1>11, <2>1, <2>2, JoinedText
<1>14. Joined(s, f, n) = b \o a
  BY <1>2, <1>10, <1>11, JoinedCut
<1>15. KeysIn(a) \subseteq KeysIn(b \o a)
  BY <1>12, <1>13, FoundInEnd
<1> QED BY <1>1, <1>10, <1>11, <1>14, <1>15, Zenon

(* What is searched for line n, when it is line n of a longer stream.      *)
LEMMA SearchedStays ==
  ASSUME ViewsOK, NEW text \in Texts, emitWithWindow(text), NEW n \in DOMAIN stream
  PROVE  n \in DOMAIN stream' /\ Searched(n)' = Searched(n)
<1>1. text \in Seq(Chars) /\ stream' = Append(stream, text) /\ stream \in Seq(Seq(Chars))
  BY LineIsPushed, Zenon DEF ViewsOK, WindowInv
<1>2. window'.capBytes = window.capBytes
  BY SentViewsOK, Zenon
<1>3. PICK s, s2 : s = stream /\ s2 = stream'
  OBVIOUS
<1>4. s \in Seq(Seq(Chars)) /\ s2 = Append(s, text) /\ n \in DOMAIN s
  BY <1>1, <1>3, Zenon
<1>5. n \in 1 .. Len(s) /\ n \in 0 .. Len(s) /\ n \in DOMAIN s2 /\ s2[n] = s[n]
  BY <1>1, <1>4
<1>6. ASSUME n > 1 PROVE s2[n - 1] = s[n - 1] /\ Joined(s2, n - 1, n) = Joined(s, n - 1, n)
  <2>1. PICK m : m = n - 1
    OBVIOUS
  <2>2. m \in 1 .. Len(s) /\ m \in 1 .. n + 1
    BY <1>5, <1>6, <2>1
  <2>3. s2[m] = s[m]
    BY <1>1, <1>4, <2>2
  <2>4. Joined(Append(s, text), m, n) = Joined(s, m, n)
    BY <1>1, <1>4, <1>5, <2>2, JoinedStays
  <2> QED BY <1>4, <2>1, <2>3, <2>4
<1>7. Searched(n)' =
        {stream'[n]} \cup IF n > 1 /\ Len(stream'[n-1]) + Len(stream'[n]) <= window'.capBytes
                          THEN {Joined(stream', n - 1, n)} ELSE {}
  BY Zenon DEF Searched
<1> QED BY <1>2, <1>3, <1>5, <1>6, <1>7, Zenon DEF Searched

(* With a line come the views of it and of the window behind it.           *)
LEMMA PendingWhenSent ==
  ASSUME ViewsOK, Pending, NEW text \in Texts, emitWithWindow(text)
  PROVE  Pending'
<1>1. text \in Seq(Chars) /\ stream' = Append(stream, text) /\ stream \in Seq(Seq(Chars))
  BY LineIsPushed, Zenon DEF ViewsOK, WindowInv
<1>2. PICK f, cl, cb :
           /\ Caps(cl, cb)
           /\ HoldsFrom(window', stream', f, cl, cb)
           /\ window.capLines = cl /\ window.capBytes = cb
           /\ views' \in Seq(ViewRecs)
           /\ Range(views') =
                Range(views) \cup {[lineNo |-> Len(stream'), text |-> text]}
                \cup (IF f < Len(stream')
                      THEN {[lineNo |-> Len(stream'),
                             text |-> Joined(stream', f, Len(stream'))]} ELSE {})
  BY LineIsSent, Zenon
<1>3. window'.capBytes = cb
  BY <1>2, WindowCaps
<1>4. Keys' = Keys
  BY Zenon DEF emitWithWindow, Keys
<1>5. PICK s, N, x, y, R, Q :
        /\ s = stream' /\ N = Len(stream') /\ R = Range(views) /\ Q = Range(views')
        /\ x = [lineNo |-> N, text |-> text] /\ y = [lineNo |-> N, text |-> Joined(s, f, N)]
  OBVIOUS
<1>6. Q = R \cup {x} \cup (IF f < N THEN {y} ELSE {})
  BY <1>2, <1>5, Zenon
<1>7. R \subseteq Q /\ x \in Q /\ (f < N => y \in Q)
  BY <1>6
<1>8. x.text = text /\ y.text = Joined(s, f, N)
  BY <1>5
<1>9. /\ s \in Seq(Seq(Chars)) /\ N = Len(s) /\ N = Len(stream) + 1 /\ N \in Nat \ {0}
      /\ DOMAIN s = 1 .. N /\ DOMAIN stream = 1 .. N - 1 /\ s[N] = text
  <2>1. PICK q : q = stream
    OBVIOUS
  <2>2. q \in Seq(Seq(Chars)) /\ s = Append(q, text) /\ N = Len(s)
    BY <1>1, <1>5, <2>1, Zenon
  <2> QED BY <1>1, <2>1, <2>2
<1>10. ASSUME NEW n \in DOMAIN stream, NEW t \in Searched(n), NEW k \in KeysIn(t)
       PROVE  k \in Keys \/ \E z \in Q : k \in KeysIn(z.text)
  BY <1>5, <1>7, Zenon DEF Pending
<1>11. ASSUME NEW t \in Searched(N)', NEW k \in KeysIn(t)
       PROVE  \E z \in Q : k \in KeysIn(z.text)
  <2>1. t \in {s[N]} \cup IF N > 1 /\ Len(s[N-1]) + Len(s[N]) <= cb
                          THEN {Joined(s, N - 1, N)} ELSE {}
    BY <1>3, <1>5, <1>11, Zenon DEF Searched
  <2>2. CASE t = s[N]
    BY <1>7, <1>8, <1>9, <1>11, <2>2, Zenon
  <2>3. CASE N > 1 /\ Len(s[N-1]) + Len(s[N]) <= cb /\ t = Joined(s, N - 1, N)
    <3>1. N \in Nat \ {0, 1} /\ N = Len(s) /\ Len(s[N-1]) + Len(s[N]) <= cb
      BY <1>9, <2>3
    <3>2. HoldsFrom(window', s, f, cl, cb) /\ Caps(cl, cb)
      BY <1>2, <1>5
    <3>3. f < N /\ KeysIn(Joined(s, N - 1, N)) \subseteq KeysIn(Joined(s, f, N))
      BY <1>9, <3>1, <3>2, PairIsInView
    <3>4. k \in KeysIn(y.text)
      BY <1>8, <1>11, <2>3, <3>3
    <3> QED BY <1>7, <3>3, <3>4, Zenon
  <2>4. t = s[N] \/ (N > 1 /\ Len(s[N-1]) + Len(s[N]) <= cb /\ t = Joined(s, N - 1, N))
    BY <2>1, Zenon
  <2> QED BY <2>2, <2>3, <2>4
<1>12. ASSUME NEW n \in DOMAIN s, NEW t \in Searched(n)', NEW k \in KeysIn(t)
       PROVE  k \in Keys \/ \E z \in Q : k \in KeysIn(z.text)
  <2>1. n \in DOMAIN stream \/ n = N
    BY <1>9
  <2>2. CASE n = N
    BY <1>11, <1>12, <2>2, Zenon
  <2>3. CASE n \in DOMAIN stream
    <3>1. Searched(n)' = Searched(n)
      BY <2>3, SearchedStays, Zenon
    <3> QED BY <1>10, <1>12, <2>3, <3>1, Zenon
  <2> QED BY <2>1, <2>2, <2>3
<1> QED BY <1>4, <1>5, <1>12, Zenon DEF Pending

(* What a worker takes is found, or was.                                   *)
LEMMA PendingWhenTaken ==
  ASSUME ViewsOK, Pending, NEW i, processLine(i)
  PROVE  Pending'
<1>1. PICK x : x = views[i]
  OBVIOUS
<1>2. /\ \A z \in Range(views) : z = x \/ z \in Range(views')
      /\ found \subseteq found'
      /\ \A f \in FindingsOf(x) : DedupeKey(f) \in Keys \/ f \in found'
  BY <1>1, ViewIsTaken, Zenon
<1>3. stream' = stream /\ \A n : Searched(n)' = Searched(n)
  BY Zenon DEF processLine, Searched
<1>4. \A f \in found' : DedupeKey(f) \in Keys'
  BY Zenon DEF Keys
<1>5. \A k \in Keys : k \in Keys'
  <2>1. \A k \in Keys : \E f \in found : k = DedupeKey(f)
    BY Zenon DEF Keys
  <2> QED BY <1>2, <1>4, <2>1
<1>6. ASSUME NEW k \in KeysIn(x.text) PROVE k \in Keys'
  <2>1. PICK m \in Inspect(x.text) : k = KeyOf(m)
    BY Zenon DEF KeysIn
  <2>2. Finding(m, x.lineNo) \in FindingsOf(x)
    BY Zenon DEF FindingsOf
  <2>3. DedupeKey(Finding(m, x.lineNo)) = k
    BY <2>1, FindingFields, Zenon
  <2> QED BY <1>2, <1>4, <1>5, <2>2, <2>3, Zenon
<1>7. ASSUME NEW n \in DOMAIN stream, NEW t \in Searched(n), NEW k \in KeysIn(t)
      PROVE  k \in Keys' \/ \E z \in Range(views') : k \in KeysIn(z.text)
  <2>1. k \in Keys \/ \E z \in Range(views) : k \in KeysIn(z.text)
    BY <1>7, Zenon DEF Pending
  <2> QED BY <1>2, <1>5, <1>6, <2>1, Zenon
<1> QED BY <1>3, <1>7, Zenon DEF Pending

(* No step loses what is still to be found.                                *)
LEMMA PendingStep ==
  ASSUME ViewsOK, Pending, [ViewsNext]_<<window, stream, views, found>>
  PROVE  Pending'
<1>1. CASE UNCHANGED <<window, stream, views, found>>
  <2>1. Keys' = Keys /\ \A n : Searched(n)' = Searched(n)
    BY <1>1, Zenon DEF Keys, Searched
  <2> QED BY <1>1, <2>1, Zenon DEF Pending
<1>2. ASSUME NEW text \in Texts, emitWithWindow(text) PROVE Pending'
  BY <1>2, PendingWhenSent, Zenon
<1>3. ASSUME NEW i, processLine(i) PROVE Pending'
  BY <1>3, PendingWhenTaken, Zenon
<1> QED BY <1>1, <1>2, <1>3, Zenon DEF ViewsNext

(* What some rule knows is found in what is searched.                      *)
LEMMA KnownIsFound ==
  ASSUME NEW n, NEW v, NEW k \in Known(v, n)
  PROVE  \E t \in Searched(n) : <<k.detector, k.rule, v>> \in KeysIn(t)
<1>1. ASSUME NEW r \in BetterleaksRules, k = [detector |-> "betterleaks", rule |-> r.id],
             r.secret = v, NEW t \in Searched(n), Occurs(v, t)
      PROVE  <<k.detector, k.rule, v>> \in KeysIn(t)
  <2>1. k.detector = "betterleaks" /\ k.rule = r.id
    BY <1>1
  <2>2. <<"betterleaks", r.id, r.secret>> \in KeysIn(t)
    BY <1>1, RuleFinds
  <2> QED BY <1>1, <2>1, <2>2, Zenon
<1>2. ASSUME NEW d \in TrufflehogDetectors, k = [detector |-> "trufflehog", rule |-> d.type],
             d.secret = v, ~ d.fails, d.field \in ResultFields,
             NEW t \in Searched(n), NEW p \in Passes(t), Occurs(v, p)
      PROVE  <<k.detector, k.rule, v>> \in KeysIn(t)
  <2>1. k.detector = "trufflehog" /\ k.rule = d.type
    BY <1>2
  <2>2. Occurs(d.secret, p)
    BY <1>2
  <2>3. <<"trufflehog", d.type, d.secret>> \in KeysIn(t)
    BY <1>2, <2>2, DetectorFinds
  <2> QED BY <1>2, <2>1, <2>3, Zenon
<1>3. \/ \E r \in BetterleaksRules : /\ k = [detector |-> "betterleaks", rule |-> r.id]
                                     /\ r.secret = v /\ \E t \in Searched(n) : Occurs(v, t)
      \/ \E d \in TrufflehogDetectors :
           /\ k = [detector |-> "trufflehog", rule |-> d.type]
           /\ d.secret = v /\ ~ d.fails /\ d.field \in ResultFields
           /\ \E t \in Searched(n) : \E p \in Passes(t) : Occurs(v, p)
  BY Zenon DEF Known, Passes
<1> QED BY <1>1, <1>2, <1>3, Zenon

(* A secret in one line or over two is found for each rule that knows it,  *)
(* and reported for lines that have it and were together in the window,    *)
(* for all lines, caps and rules and whatever the order of the workers.    *)
THEOREM ViewsFindings == ViewsSpec => []SecretsAreFound
<1>1. ViewsInit => ViewsOK /\ Reports /\ Pending
  <2>1. ViewsInit => found = {} /\ DOMAIN stream = {}
    BY DEF ViewsInit
  <2>2. found = {} => Reports
    BY DEF Reports
  <2>3. DOMAIN stream = {} => Pending
    BY DEF Pending
  <2> QED BY <2>1, <2>2, <2>3, ViewsOKInit
<1>2. ViewsOK /\ Reports /\ Pending /\ [ViewsNext]_<<window, stream, views, found>>
        => ViewsOK' /\ Reports' /\ Pending'
  BY ViewsOKStep, ReportsStep, PendingStep
<1>3. ViewsOK /\ Reports /\ Pending => SecretsAreFound
  <2> SUFFICES ASSUME Reports, Pending, views = <<>>,
                      NEW n \in DOMAIN stream, NEW v \in Secrets, NEW k \in Known(v, n)
               PROVE  \E f \in found :
                        /\ DedupeKey(f) = <<k.detector, k.rule, v>>
                        /\ \E j \in 1 .. f.lineNo :
                             /\ f.lineNo - j < window.capLines
                             /\ \E p \in Passes(Joined(stream, j, f.lineNo)) : Occurs(v, p)
    BY Zenon DEF SecretsAreFound
  <2>1. PICK t \in Searched(n) : <<k.detector, k.rule, v>> \in KeysIn(t)
    BY KnownIsFound
  <2>2. Range(views) = {}
    BY RangeOfOne, Zenon
  <2>3. <<k.detector, k.rule, v>> \in Keys
    BY <2>1, <2>2, Zenon DEF Pending
  <2>4. PICK f \in found : <<k.detector, k.rule, v>> = DedupeKey(f)
    BY <2>3, Zenon DEF Keys
  <2>5. f.valueSHA256 = v
    <3>1. PICK a, b, c : a = f.detector /\ b = f.rule /\ c = f.valueSHA256
      OBVIOUS
    <3>2. <<k.detector, k.rule, v>> = <<a, b, c>>
      BY <2>4, <3>1, Zenon DEF DedupeKey
    <3> QED BY <3>1, <3>2
  <2>6. PICK u : /\ From(stream, window.capLines, f.lineNo, u)
                 /\ \E p \in Passes(u) : Occurs(f.valueSHA256, p)
    BY Zenon DEF Reports
  <2>7. PICK j \in 1 .. f.lineNo : f.lineNo - j < window.capLines /\ u = Joined(stream, j, f.lineNo)
    BY <2>6, Zenon DEF From
  <2> QED BY <2>4, <2>5, <2>6, <2>7, Zenon
<1> QED BY <1>1, <1>2, <1>3, PTL DEF ViewsSpec
=============================================================================
