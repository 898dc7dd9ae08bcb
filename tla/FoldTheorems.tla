----------------------------- MODULE FoldTheorems -----------------------------
(***************************************************************************)
(* Laws of FoldLeft, for every operation Step, every value of its first    *)
(* parameter (which the fold passes on as it is) and sequences of every    *)
(* length: what proofs about folded calls of a transcoder cite, through an *)
(* instance of this module for each operation that is folded.  They rest   *)
(* on induction over the naturals, stated for a set instead of for an      *)
(* operator: it follows from the well-foundedness of strict inclusion.     *)
(***************************************************************************)
EXTENDS SequencesExt, FiniteSetTheorems, TLAPS

CONSTANT Step(_, _, _)

Folded(p, base, seq) == FoldLeft(LAMBDA r, x : Step(p, r, x), base, seq)

-----------------------------------------------------------------------------
\* A set of naturals that is not empty has a least element.
LEMMA LeastNatural ==
  ASSUME NEW T \in SUBSET Nat, T # {}
  PROVE  \E m \in T : \A k \in T : m <= k
<1>. DEFINE upto == {0 .. m : m \in T}
<1>1. upto \subseteq FiniteSubsetsOf(Nat) /\ upto # {}
  <2>1. ASSUME NEW m \in T PROVE 0 .. m \in FiniteSubsetsOf(Nat)
    <3>1. IsFiniteSet(0 .. m)
      BY FS_Interval
    <3>. QED
      BY <3>1 DEF FiniteSubsetsOf
  <2>. QED
    BY <2>1
<1>2. \E u \in upto : \A v \in upto : ~ (<<v, u>> \in StrictSubsetOrdering(Nat))
  <2>. HIDE DEF upto
  <2>1. IsWellFoundedOn(StrictSubsetOrdering(Nat), FiniteSubsetsOf(Nat))
    BY FS_StrictSubsetOrderingWellFounded
  <2>. QED
    BY <1>1, <2>1, WFMin
<1>3. PICK m \in T : \A v \in upto : ~ (<<v, 0 .. m>> \in StrictSubsetOrdering(Nat))
  BY <1>2
<1>4. ASSUME NEW k \in T, ~ (m <= k) PROVE FALSE
  <2>1. m \in 0 .. m /\ m \notin 0 .. k
    BY <1>4
  <2>2. 0 .. k \subseteq 0 .. m /\ 0 .. k # 0 .. m
    BY <2>1, <1>4
  <2>3. <<0 .. k, 0 .. m>> \in StrictSubsetOrdering(Nat)
    BY <2>2 DEF StrictSubsetOrdering
  <2>. QED
    BY <1>3, <2>3
<1>. QED
  BY <1>4

\* A set that holds 0, and with every natural the next, holds all naturals.
LEMMA SetInduction ==
  ASSUME NEW S, 0 \in S, \A n \in Nat : n \in S => n + 1 \in S
  PROVE  \A n \in Nat : n \in S
<1>. DEFINE T == Nat \ S
<1>. SUFFICES ASSUME T # {} PROVE FALSE
  OBVIOUS
<1>1. PICK m \in T : \A k \in T : m <= k
  BY LeastNatural
<1>2. m # 0 /\ m \in Nat
  OBVIOUS
<1>3. m - 1 \in Nat /\ m - 1 \notin T
  BY <1>1, <1>2
<1>. QED
  BY <1>3

\* A set that holds the empty sequence, and with every sequence over T each that
\* is one element longer, holds all sequences over T.
LEMMA SequenceInduction ==
  ASSUME NEW T, NEW S, <<>> \in S,
         \A s \in Seq(T), x \in T : s \in S => Append(s, x) \in S
  PROVE  \A s \in Seq(T) : s \in S
<1>. DEFINE N == {n \in Nat : \A s \in Seq(T) : Len(s) = n => s \in S}
<1>1. 0 \in N
  <2>1. \A s \in Seq(T) : Len(s) = 0 => s = <<>>
    OBVIOUS
  <2>. QED
    BY <2>1
<1>2. ASSUME NEW n \in Nat, n \in N PROVE n + 1 \in N
  <2>. SUFFICES ASSUME NEW s \in Seq(T), Len(s) = n + 1 PROVE s \in S
    OBVIOUS
  <2>. DEFINE front == SubSeq(s, 1, n)
              x == s[n + 1]
  <2>1. front \in Seq(T) /\ Len(front) = n /\ x \in T
    OBVIOUS
  <2>2. s = Append(front, x)
    OBVIOUS
  <2>3. front \in S
    BY <1>2, <2>1
  <2>. QED
    BY <2>1, <2>2, <2>3
<1>. HIDE DEF N
<1>3. \A n \in Nat : n \in N
  BY <1>1, <1>2, SetInduction
<1>. QED
  <2>. SUFFICES ASSUME NEW s \in Seq(T) PROVE s \in S
    OBVIOUS
  <2>1. Len(s) \in N
    BY <1>3
  <2>. QED
    BY <2>1 DEF N

\* The largest member of a set of positions.
LEMMA MaxOfPositions ==
  ASSUME NEW n \in Nat, NEW s \in SUBSET (1 .. n), s # {}
  PROVE  Max(s) \in s /\ \A k \in s : k <= Max(s)
<1>. DEFINE T == {k \in 0 .. n : n - k \in s}
<1>1. T \in SUBSET Nat /\ T # {}
  <2>1. PICK k \in s : TRUE
    OBVIOUS
  <2>2. n - k \in T
    OBVIOUS
  <2>. QED
    BY <2>2
<1>2. PICK m \in T : \A k \in T : m <= k
  BY <1>1, LeastNatural
<1>3. ASSUME NEW k \in s PROVE n - m >= k
  <2>1. n - k \in T
    OBVIOUS
  <2>2. m <= n - k
    BY <1>2, <2>1
  <2>. QED
    BY <2>2
<1>4. \E x \in s : \A k \in s : x >= k
  BY <1>3
<1>. QED
  BY <1>4 DEF Max

\* It is the last position where the set has that one.
LEMMA MaxIsLast ==
  ASSUME NEW n \in Nat, NEW s \in SUBSET (1 .. n), n \in s
  PROVE  Max(s) = n
<1>1. s # {}
  OBVIOUS
<1>2. Max(s) \in s /\ n <= Max(s)
  BY <1>1, MaxOfPositions
<1>3. Max(s) \in 1 .. n
  BY <1>2
<1>. HIDE DEF Max
<1>. QED
  BY <1>2, <1>3

-----------------------------------------------------------------------------
(***************************************************************************)
(* The function FoldLeft chooses: its value at a set of positions is the   *)
(* fold of what is at those positions.                                     *)
(***************************************************************************)
FoldsUpTo(p, f, base, seq, n) ==
  f = [s \in SUBSET (1 .. n) |->
         IF s = {} THEN base ELSE Step(p, f[s \ {Max(s)}], seq[Max(s)])]

Chosen(p, base, seq, n) == CHOOSE f : FoldsUpTo(p, f, base, seq, n)

\* FoldLeft is the value of that function for all positions.
LEMMA FoldedIsChosen ==
  ASSUME NEW p, NEW base, NEW seq, NEW n, DOMAIN seq = 1 .. n
  PROVE  Folded(p, base, seq) = Chosen(p, base, seq, n)[1 .. n]
<1>1. Folded(p, base, seq) =
        (CHOOSE f : f = [s \in SUBSET DOMAIN seq |->
           IF s = {} THEN base ELSE Step(p, f[s \ {Max(s)}], seq[Max(s)])])[DOMAIN seq]
  BY DEF Folded, FoldLeft, MapThenFoldSet
<1>. QED
  BY <1>1 DEF Chosen, FoldsUpTo

\* There is such a function, by induction on the number of positions.
LEMMA ChosenFolds ==
  ASSUME NEW p, NEW base, NEW seq, NEW n \in Nat
  PROVE  FoldsUpTo(p, Chosen(p, base, seq, n), base, seq, n)
<1>. DEFINE S == {k \in Nat : \E f : FoldsUpTo(p, f, base, seq, k)}
<1>1. 0 \in S
  <2>1. \A s \in SUBSET (1 .. 0) : s = {}
    OBVIOUS
  <2>2. FoldsUpTo(p, [s \in SUBSET (1 .. 0) |-> base], base, seq, 0)
    BY <2>1 DEF FoldsUpTo
  <2>. QED
    BY <2>2
<1>2. ASSUME NEW k \in Nat, k \in S PROVE k + 1 \in S
  <2>1. PICK f : FoldsUpTo(p, f, base, seq, k)
    BY <1>2
  <2>. DEFINE Body(h, s) == IF s = {} THEN base ELSE Step(p, h[s \ {Max(s)}], seq[Max(s)])
              g == [s \in SUBSET (1 .. k + 1) |->
                     IF k + 1 \in s THEN Step(p, f[s \ {k + 1}], seq[k + 1]) ELSE f[s]]
  <2>2. \A s \in SUBSET (1 .. k) : f[s] = Body(f, s)
    BY <2>1 DEF FoldsUpTo
  <2>3. \A s \in SUBSET (1 .. k + 1) : s \ {k + 1} \in SUBSET (1 .. k)
    OBVIOUS
  <2>4. \A s \in SUBSET (1 .. k) : s \in SUBSET (1 .. k + 1) /\ k + 1 \notin s
    OBVIOUS
  <2>5. \A s \in SUBSET (1 .. k) : g[s] = f[s]
    BY <2>4
  <2>6. ASSUME NEW s \in SUBSET (1 .. k + 1) PROVE g[s] = Body(g, s)
    <3>1. CASE k + 1 \in s
      <4>1. Max(s) = k + 1
        BY <3>1, MaxIsLast
      <4>2. g[s \ {k + 1}] = f[s \ {k + 1}]
        BY <2>3, <2>5
      <4>3. s # {} /\ g[s] = Step(p, f[s \ {k + 1}], seq[k + 1])
        BY <3>1
      <4>. QED
        BY <4>1, <4>2, <4>3
    <3>2. CASE k + 1 \notin s
      <4>1. s \in SUBSET (1 .. k)
        BY <3>2, <2>3
      <4>2. g[s] = Body(f, s)
        BY <4>1, <2>2, <2>5
      <4>3. g[s \ {Max(s)}] = f[s \ {Max(s)}]
        BY <4>1, <2>5
      <4>. QED
        BY <4>2, <4>3
    <3>. QED
      BY <3>1, <3>2
  <2>7. g = [s \in SUBSET (1 .. k + 1) |-> Body(g, s)]
    <3>1. g = [s \in SUBSET (1 .. k + 1) |-> g[s]]
      OBVIOUS
    <3>. HIDE DEF g, Body
    <3>. QED
      BY <2>6, <3>1
  <2>8. FoldsUpTo(p, g, base, seq, k + 1)
    BY <2>7 DEF FoldsUpTo
  <2>. QED
    BY <2>8
<1>. HIDE DEF S
<1>3. n \in S
  BY <1>1, <1>2, SetInduction
<1>. QED
  BY <1>3 DEF S, Chosen

\* Sequences that agree up to a position fold to the same up to there.
LEMMA FoldsAgree ==
  ASSUME NEW p, NEW base, NEW seq, NEW other, NEW m \in Nat, NEW n \in Nat, m <= n,
         \A i \in 1 .. m : seq[i] = other[i],
         NEW f, FoldsUpTo(p, f, base, seq, m), NEW g, FoldsUpTo(p, g, base, other, n)
  PROVE  f[1 .. m] = g[1 .. m]
<1>. DEFINE S == {k \in Nat : k <= m => f[1 .. k] = g[1 .. k]}
<1>1. /\ \A s \in SUBSET (1 .. m) :
           f[s] = IF s = {} THEN base ELSE Step(p, f[s \ {Max(s)}], seq[Max(s)])
      /\ \A s \in SUBSET (1 .. n) :
           g[s] = IF s = {} THEN base ELSE Step(p, g[s \ {Max(s)}], other[Max(s)])
  BY DEF FoldsUpTo
<1>2. 0 \in S
  <2>1. 1 .. 0 = {} /\ {} \in SUBSET (1 .. m) /\ {} \in SUBSET (1 .. n)
    OBVIOUS
  <2>2. f[{}] = base /\ g[{}] = base
    BY <1>1, <2>1
  <2>. QED
    BY <2>1, <2>2
<1>3. ASSUME NEW k \in Nat, k \in S PROVE k + 1 \in S
  <2>. SUFFICES ASSUME k + 1 <= m PROVE f[1 .. k + 1] = g[1 .. k + 1]
    OBVIOUS
  <2>1. /\ 1 .. k + 1 \in SUBSET (1 .. m) /\ 1 .. k + 1 \in SUBSET (1 .. n)
        /\ k + 1 \in 1 .. k + 1 /\ (1 .. k + 1) \ {k + 1} = 1 .. k
    OBVIOUS
  <2>2. Max(1 .. k + 1) = k + 1 /\ 1 .. k + 1 # {}
    <3>1. k + 1 \in Nat /\ 1 .. k + 1 \in SUBSET (1 .. k + 1)
      OBVIOUS
    <3>2. Max(1 .. k + 1) = k + 1
      BY <2>1, <3>1, MaxIsLast
    <3>. QED
      BY <2>1, <3>2
  <2>3. f[1 .. k] = g[1 .. k]
    BY <1>3
  <2>4. f[1 .. k + 1] = Step(p, f[1 .. k], seq[k + 1])
    BY <1>1, <2>1, <2>2
  <2>5. g[1 .. k + 1] = Step(p, g[1 .. k], other[k + 1])
    BY <1>1, <2>1, <2>2
  <2>. QED
    BY <2>3, <2>4, <2>5
<1>. HIDE DEF S
<1>4. m \in S
  BY <1>2, <1>3, SetInduction
<1>. QED
  BY <1>4 DEF S

-----------------------------------------------------------------------------
\* The fold of nothing is where it starts.
THEOREM FoldNothing ==
  ASSUME NEW p, NEW base
  PROVE  Folded(p, base, <<>>) = base
<1>1. Folded(p, base, <<>>) = Chosen(p, base, <<>>, 0)[1 .. 0]
  BY FoldedIsChosen
<1>2. FoldsUpTo(p, Chosen(p, base, <<>>, 0), base, <<>>, 0)
  BY ChosenFolds
<1>. QED
  BY <1>1, <1>2 DEF FoldsUpTo

\* One more element is one more step.
THEOREM FoldAppend ==
  ASSUME NEW p, NEW base, NEW T, NEW seq \in Seq(T), NEW x \in T
  PROVE  Folded(p, base, Append(seq, x)) = Step(p, Folded(p, base, seq), x)
<1>. DEFINE n == Len(seq)
            more == Append(seq, x)
            f == Chosen(p, base, seq, n)
            g == Chosen(p, base, more, n + 1)
<1>1. /\ n \in Nat /\ DOMAIN seq = 1 .. n /\ DOMAIN more = 1 .. n + 1
      /\ \A i \in 1 .. n : more[i] = seq[i]
      /\ more[n + 1] = x
  OBVIOUS
<1>2. Folded(p, base, seq) = f[1 .. n]
  BY <1>1, FoldedIsChosen
<1>. HIDE DEF n, more
<1>3. Folded(p, base, more) = g[1 .. n + 1]
  BY <1>1, FoldedIsChosen
<1>4. FoldsUpTo(p, f, base, seq, n)
  BY <1>1, ChosenFolds
<1>5. FoldsUpTo(p, g, base, more, n + 1)
  <2>1. n + 1 \in Nat
    BY <1>1
  <2>. QED
    BY <2>1, ChosenFolds
<1>. HIDE DEF f, g
<1>6. f[1 .. n] = g[1 .. n]
  BY <1>1, <1>4, <1>5, FoldsAgree
<1>7. g[1 .. n + 1] = Step(p, g[1 .. n], x)
  <2>1. \A s \in SUBSET (1 .. n + 1) :
          g[s] = IF s = {} THEN base ELSE Step(p, g[s \ {Max(s)}], more[Max(s)])
    BY <1>5 DEF FoldsUpTo
  <2>2. /\ n + 1 \in Nat /\ n + 1 \in 1 .. n + 1 /\ (1 .. n + 1) \ {n + 1} = 1 .. n
        /\ 1 .. n + 1 \in SUBSET (1 .. n + 1)
    BY <1>1
  <2>3. Max(1 .. n + 1) = n + 1
    BY <2>2, MaxIsLast
  <2>. QED
    BY <1>1, <2>1, <2>2, <2>3
<1>. QED
  BY <1>2, <1>3, <1>6, <1>7 DEF more

\* The fold of one element is one step.
THEOREM FoldOne ==
  ASSUME NEW p, NEW base, NEW a
  PROVE  Folded(p, base, <<a>>) = Step(p, base, a)
<1>. DEFINE T == {a}
            before == <<>>
            all == <<a>>
<1>1. before \in Seq(T) /\ a \in T /\ all = Append(before, a)
  OBVIOUS
<1>2. Folded(p, base, before) = base
  BY FoldNothing
<1>. HIDE DEF T, before, all
<1>3. Folded(p, base, all) = Step(p, Folded(p, base, before), a)
  BY <1>1, FoldAppend
<1>. QED
  BY <1>2, <1>3 DEF all

\* The fold of two elements.
THEOREM FoldTwo ==
  ASSUME NEW p, NEW base, NEW a, NEW b
  PROVE  Folded(p, base, <<a, b>>) = Step(p, Step(p, base, a), b)
<1>. DEFINE T == {a, b}
            before == <<a>>
            all == <<a, b>>
<1>1. before \in Seq(T) /\ b \in T /\ all = Append(before, b)
  OBVIOUS
<1>2. Folded(p, base, before) = Step(p, base, a)
  BY FoldOne
<1>. HIDE DEF T, before, all
<1>3. Folded(p, base, all) = Step(p, Folded(p, base, before), b)
  BY <1>1, FoldAppend
<1>. QED
  BY <1>2, <1>3 DEF all

\* The fold of three elements.
THEOREM FoldThree ==
  ASSUME NEW p, NEW base, NEW a, NEW b, NEW c
  PROVE  Folded(p, base, <<a, b, c>>) = Step(p, Step(p, Step(p, base, a), b), c)
<1>. DEFINE T == {a, b, c}
            before == <<a, b>>
            all == <<a, b, c>>
<1>1. before \in Seq(T) /\ c \in T /\ all = Append(before, c)
  OBVIOUS
<1>2. Folded(p, base, before) = Step(p, Step(p, base, a), b)
  BY FoldTwo
<1>. HIDE DEF T, before, all
<1>3. Folded(p, base, all) = Step(p, Folded(p, base, before), c)
  BY <1>1, FoldAppend
<1>. QED
  BY <1>2, <1>3 DEF all

\* The fold of four elements.
THEOREM FoldFour ==
  ASSUME NEW p, NEW base, NEW a, NEW b, NEW c, NEW d
  PROVE  Folded(p, base, <<a, b, c, d>>) = Step(p, Step(p, Step(p, Step(p, base, a), b), c), d)
<1>. DEFINE T == {a, b, c, d}
            before == <<a, b, c>>
            all == <<a, b, c, d>>
<1>1. before \in Seq(T) /\ d \in T /\ all = Append(before, d)
  OBVIOUS
<1>2. Folded(p, base, before) = Step(p, Step(p, Step(p, base, a), b), c)
  BY FoldThree
<1>. HIDE DEF T, before, all
<1>3. Folded(p, base, all) = Step(p, Folded(p, base, before), d)
  BY <1>1, FoldAppend
<1>. QED
  BY <1>2, <1>3 DEF all

\* The fold of one sequence after another goes on where the first one ended.
THEOREM FoldConcat ==
  ASSUME NEW p, NEW base, NEW T, NEW seq \in Seq(T), NEW more \in Seq(T)
  PROVE  Folded(p, base, seq \o more) = Folded(p, Folded(p, base, seq), more)
<1>. DEFINE S == {m \in Seq(T) : Folded(p, base, seq \o m) = Folded(p, Folded(p, base, seq), m)}
<1>1. <<>> \in S
  <2>1. seq \o <<>> = seq
    OBVIOUS
  <2>. QED
    BY <2>1, FoldNothing
<1>2. ASSUME NEW m \in Seq(T), NEW x \in T, m \in S PROVE Append(m, x) \in S
  <2>. DEFINE both == seq \o m
  <2>1. both \in Seq(T) /\ seq \o Append(m, x) = Append(both, x) /\ Append(m, x) \in Seq(T)
    OBVIOUS
  <2>2. Folded(p, base, both) = Folded(p, Folded(p, base, seq), m)
    BY <1>2
  <2>. HIDE DEF both
  <2>3. Folded(p, base, Append(both, x)) = Step(p, Folded(p, base, both), x)
    BY <2>1, FoldAppend
  <2>4. Folded(p, Folded(p, base, seq), Append(m, x))
          = Step(p, Folded(p, Folded(p, base, seq), m), x)
    BY FoldAppend
  <2>. QED
    BY <2>1, <2>2, <2>3, <2>4
<1>. HIDE DEF S
<1>3. more \in S
  BY <1>1, <1>2, SequenceInduction
<1>. QED
  BY <1>3 DEF S
=============================================================================
