------------------------ MODULE OutputIterator_proofs -------------------------
(***************************************************************************)
(* Theorems about the output iterator, for every transcoder, any number of *)
(* iterators and assignments.  The inductive invariant says that the one   *)
(* transcoder has been given exactly what was assigned, whichever iterator *)
(* it was assigned to, that the destination holds what it has written, and *)
(* that every iterator that may be used stands at the end of that.         *)
(***************************************************************************)
EXTENDS OutputIterator, Transcoders_proofs, SequenceTheorems

\* `*it++ = unit`, where the copy that it++ returns is a position of its own.
RewritesInPlace == ~ appends /\ program[4] = "post"

\* A conversion by hand of what has been assigned.
Converted == IF ended THEN fed_all(from, to, assigned) ELSE fed(from, to, assigned)

Typed ==
  /\ program \in Programs /\ out_ \in [Objects -> Nat]
  /\ assigned \in Seq(AnyUnit(from)) /\ Len(assigned) <= MaxAssigned
  /\ stored \in Seq(EncodedUnit(to))
TranscoderGivenAll == coder = Converted.coder
StoresConversion == ~ RewritesInPlace => stored = Converted.out
StandsAtEnd ==
  /\ \A i \in Objects : out_[i] \in IF appends THEN {0, 1} ELSE 0 .. Len(stored) + 1
  /\ ~ appends /\ ~ RewritesInPlace => \A i \in usable : out_[i] = Len(stored) + 1

OInv == Typed /\ TranscoderGivenAll /\ StoresConversion /\ StandsAtEnd

-----------------------------------------------------------------------------
\* What a program is made of, and the code units it may assign.
LEMMA ProgramParts ==
  ASSUME NEW p \in Programs
  PROVE  /\ p[1] \in InputTypes /\ p[2] \in Encodings
         /\ p[3] \in {"appends", "position"} /\ p[4] \in {"pre", "post"}
         /\ Units[p[1]] \subseteq AnyUnit(p[1])
<1>1. p \in InputTypes \X Encodings \X {"appends", "position"} \X {"pre", "post"}
  BY ProgramsAssumption
<1>2. /\ p[1] \in InputTypes /\ p[2] \in Encodings
      /\ p[3] \in {"appends", "position"} /\ p[4] \in {"pre", "post"}
  BY <1>1
<1>3. CodeUnit(8) = Byte /\ CodeUnit(16) = CodeUnit16 /\ CodeUnit(32) = Nat
  BY DEF CodeUnit
<1>4. p[1] \in {8, 16, 32, std_byte} /\ std_byte \notin {8, 16, 32}
  BY <1>2 DEF InputTypes, Encodings, std_byte
<1>5. Units[p[1]] \subseteq AnyUnit(p[1])
  BY <1>3, <1>4, UnitsAssumption DEF AnyUnit
<1>. QED
  BY <1>2, <1>5

\* Writing within a sequence, or just after it, does not shorten it below what
\* has been written; just after it, it appends.
LEMMA Overwriting ==
  ASSUME NEW T, NEW s \in Seq(T), NEW units \in Seq(T), NEW position \in 1 .. Len(s) + 1
  PROVE  LET o == SubSeq(s, 1, position - 1) \o units
                    \o SubSeq(s, position + Len(units), Len(s))
         IN  /\ o \in Seq(T)
             /\ Len(o) >= Len(s) /\ Len(o) >= position - 1 + Len(units)
             /\ position = Len(s) + 1 => o = s \o units
<1>. DEFINE before == SubSeq(s, 1, position - 1)
            after == SubSeq(s, position + Len(units), Len(s))
<1>1. before \in Seq(T) /\ Len(before) = position - 1
  BY SubSeqProperties, ElementOfSeq
<1>2. /\ after \in Seq(T)
      /\ Len(after) = IF position + Len(units) <= Len(s)
                      THEN Len(s) - (position + Len(units)) + 1 ELSE 0
  BY SubSeqProperties, ElementOfSeq
<1>3. ASSUME position = Len(s) + 1 PROVE before = s /\ after = <<>>
  BY <1>3, SubSeqFull, SubSeqEmpty
<1>. HIDE DEF before, after
<1>4. before \o units \in Seq(T) /\ Len(before \o units) = position - 1 + Len(units)
  BY <1>1, ConcatProperties
<1>5. /\ (before \o units) \o after \in Seq(T)
      /\ Len((before \o units) \o after) = position - 1 + Len(units) + Len(after)
  BY <1>2, <1>4, ConcatProperties
<1>9. Len(s) \in Nat /\ Len(units) \in Nat /\ Len(after) \in Nat
  BY <1>2
<1>6. Len((before \o units) \o after) >= Len(s)
      /\ Len((before \o units) \o after) >= position - 1 + Len(units)
  <2>. DEFINE n == Len(s)
              u == Len(units)
              a == Len(after)
              all == Len((before \o units) \o after)
  <2>1. /\ n \in Nat /\ u \in Nat /\ a \in Nat /\ position \in 1 .. n + 1
        /\ a = (IF position + u <= n THEN n - (position + u) + 1 ELSE 0)
        /\ all = position - 1 + u + a
    BY <1>2, <1>5, <1>9
  <2>. HIDE DEF n, u, a, all
  <2>2. all >= n /\ all >= position - 1 + u
    BY <2>1
  <2>. QED
    BY <2>2 DEF n, u, all
<1>8. position = Len(s) + 1 => (before \o units) \o after = s \o units
  BY <1>3, <1>4, ConcatEmptySeq
<1>. QED
  BY <1>5, <1>6, <1>8 DEF before, after

\* The invariant before an assignment, or the end, spelt out.
LEMMA BeforeWriting ==
  ASSUME OInv, ~ ended
  PROVE  /\ program \in Programs /\ from \in InputTypes /\ to \in Encodings
         /\ Units[from] \subseteq AnyUnit(from)
         /\ Returned(AnyObject(from, to), to, fed(from, to, assigned))
         /\ coder = fed(from, to, assigned).coder /\ coder \in AnyObject(from, to)
<1>1. program \in Programs /\ assigned \in Seq(AnyUnit(from))
  BY DEF OInv, Typed
<1>2. from \in InputTypes /\ to \in Encodings /\ Units[from] \subseteq AnyUnit(from)
  BY <1>1, ProgramParts DEF from, to
<1>3. Returned(AnyObject(from, to), to, fed(from, to, assigned))
  BY <1>1, <1>2, AnyFedReturned
<1>4. coder = fed(from, to, assigned).coder
  BY DEF OInv, TranscoderGivenAll, Converted
<1>. QED
  BY <1>1, <1>2, <1>3, <1>4 DEF Returned

\* Where an iterator that may be used stands.
LEMMA UsablePosition ==
  ASSUME OInv, NEW i \in usable
  PROVE  /\ i \in Objects
         /\ ~ appends => out_[i] \in 1 .. Len(stored) + 1
         /\ ~ appends /\ ~ RewritesInPlace => out_[i] = Len(stored) + 1
<1>1. i \in Objects /\ out_[i] # 0
  BY DEF usable
<1>2. ~ appends => out_[i] \in 0 .. Len(stored) + 1
  BY <1>1 DEF OInv, StandsAtEnd
<1>3. ~ appends /\ ~ RewritesInPlace => out_[i] = Len(stored) + 1
  BY DEF OInv, StandsAtEnd
<1>4. Len(stored) \in Nat
  BY DEF OInv, Typed
<1>. QED
  BY <1>1, <1>2, <1>3, <1>4

\* What an iterator that may be used writes is added to what is stored, unless
\* it is a position that is rewritten; even there nothing is taken away.
LEMMA StoredAfter ==
  ASSUME OInv, NEW i \in usable, NEW r, r.out \in Seq(EncodedUnit(to)), written_at(out_[i], r)
  PROVE  /\ stored' \in Seq(EncodedUnit(to)) /\ Len(stored') >= Len(stored)
         /\ ~ appends => Len(stored') >= out_[i] - 1 + Len(r.out)
         /\ ~ RewritesInPlace => stored' = stored \o r.out
<1>1. stored \in Seq(EncodedUnit(to))
  BY DEF OInv, Typed
<1>2. CASE appends
  <2>1. stored' = stored \o r.out
    BY <1>2 DEF written_at
  <2>2. stored \o r.out \in Seq(EncodedUnit(to)) /\ Len(stored \o r.out) = Len(stored) + Len(r.out)
    BY <1>1, ConcatProperties
  <2>3. Len(stored) \in Nat /\ Len(r.out) \in Nat
    BY <1>1
  <2>. QED
    BY <1>2, <2>1, <2>2, <2>3
<1>3. CASE ~ appends
  <2>. DEFINE p == out_[i]
  <2>1. p \in 1 .. Len(stored) + 1 /\ (~ RewritesInPlace => p = Len(stored) + 1)
    BY <1>3, UsablePosition
  <2>2. stored' = SubSeq(stored, 1, p - 1) \o r.out \o SubSeq(stored, p + Len(r.out), Len(stored))
    BY <1>3 DEF written_at, overwritten
  <2>. HIDE DEF p
  <2>3. /\ stored' \in Seq(EncodedUnit(to)) /\ Len(stored') >= Len(stored)
        /\ Len(stored') >= p - 1 + Len(r.out)
        /\ p = Len(stored) + 1 => stored' = stored \o r.out
    BY <1>1, <2>1, <2>2, Overwriting
  <2>. QED
    BY <1>3, <2>1, <2>3 DEF p
<1>. QED
  BY <1>2, <1>3

\* An iterator that has moved past what it wrote stands at the end of it.
LEMMA Moved ==
  ASSUME OInv, NEW i \in usable, NEW r, r.out \in Seq(EncodedUnit(to)), written_at(out_[i], r),
         out_' = [out_ EXCEPT ![i] = moved(@, r)], program' = program
  PROVE  StandsAtEnd'
<1>. DEFINE n == Len(stored)
            m == Len(stored')
<1>1. n \in Nat /\ m \in Nat /\ Len(r.out) \in Nat /\ m >= n
  BY StoredAfter DEF OInv, Typed
<1>2. i \in Objects /\ out_ \in [Objects -> Nat] /\ appends' = appends /\ RewritesInPlace' = RewritesInPlace
  BY UsablePosition DEF appends, RewritesInPlace, OInv, Typed
<1>3. /\ \A j \in Objects : out_[j] \in IF appends THEN {0, 1} ELSE 0 .. n + 1
      /\ ~ appends => out_[i] \in 1 .. n + 1
      /\ ~ appends => m >= out_[i] - 1 + Len(r.out)
  BY UsablePosition, StoredAfter DEF OInv, StandsAtEnd
<1>4. ASSUME NEW j \in Objects
      PROVE  out_'[j] = IF j = i THEN moved(out_[i], r) ELSE out_[j]
  BY <1>2
<1>. HIDE DEF n, m
<1>5. \A j \in Objects : out_'[j] \in IF appends THEN {0, 1} ELSE 0 .. m + 1
  BY <1>1, <1>2, <1>3, <1>4 DEF moved
<1>6. ASSUME ~ appends, ~ RewritesInPlace, NEW j \in usable' PROVE out_'[j] = m + 1
  <2>1. m = n + Len(r.out) /\ out_[i] = n + 1
    BY <1>6, StoredAfter, UsablePosition, ConcatProperties DEF OInv, Typed, n, m
  <2>2. out_'[i] = m + 1
    <3>1. out_'[i] = moved(out_[i], r)
      BY <1>2, <1>4
    <3>2. moved(out_[i], r) = out_[i] + Len(r.out)
      BY <1>6 DEF moved
    <3>3. out_'[i] = (n + 1) + Len(r.out)
      BY <2>1, <3>1, <3>2
    <3>. DEFINE u == Len(r.out)
    <3>4. out_'[i] = (n + 1) + u /\ m = n + u /\ n \in Nat /\ u \in Nat
      BY <1>1, <2>1, <3>3
    <3>. HIDE DEF u
    <3>. QED
      BY <3>4
  <2>3. j \in Objects /\ out_'[i] <= out_'[j]
    BY <1>2 DEF usable
  <2>4. out_'[j] \in 0 .. m + 1
    BY <1>5, <1>6, <2>3
  <2>. QED
    BY <1>1, <2>2, <2>3, <2>4
<1>. QED
  BY <1>2, <1>5, <1>6 DEF StandsAtEnd, m

\* Units that were assigned, and those a call has written for them.
LEMMA AssignedWritten ==
  ASSUME OInv, ~ ended, NEW i \in usable, NEW r, Returned(AnyObject(from, to), to, r),
         written_at(out_[i], r), program' = program,
         Converted' = then(fed(from, to, assigned), r)
  PROVE  TranscoderGivenAll' /\ StoresConversion' /\ r.out \in Seq(EncodedUnit(to))
<1>. DEFINE done == fed(from, to, assigned)
<1>1. r.out \in Seq(EncodedUnit(to))
  BY DEF Returned
<1>2. ~ RewritesInPlace => stored = done.out
  BY DEF OInv, StoresConversion, Converted
<1>. HIDE DEF done
<1>3. coder' = r.coder /\ RewritesInPlace' = RewritesInPlace
  BY DEF written_at, RewritesInPlace, appends
<1>4. ~ RewritesInPlace => stored' = stored \o r.out
  BY <1>1, StoredAfter
<1>5. then(done, r).coder = r.coder /\ then(done, r).out = done.out \o r.out
  BY ResultFields DEF then
<1>6. Converted' = then(done, r)
  BY DEF done
<1>. QED
  BY <1>1, <1>2, <1>3, <1>4, <1>5, <1>6 DEF TranscoderGivenAll, StoresConversion

\* An assignment, by either form.
LEMMA AssignedConverts ==
  ASSUME OInv, NEW i, CanAssign(i), NEW unit \in Units[from],
         written_at(out_[i], any_call(from, to, coder, unit)),
         assigned' = Append(assigned, unit), program' = program, ended' = ended
  PROVE  /\ i \in usable /\ ~ ended
         /\ any_call(from, to, coder, unit).out \in Seq(EncodedUnit(to))
         /\ TranscoderGivenAll' /\ StoresConversion'
         /\ assigned' \in Seq(AnyUnit(from))' /\ Len(assigned') <= MaxAssigned
         /\ from' = from /\ to' = to
<1>. DEFINE r == any_call(from, to, coder, unit)
<1>1. i \in usable /\ ~ ended /\ Len(assigned) < MaxAssigned
  BY DEF CanAssign
<1>2. from' = from /\ to' = to
  BY DEF from, to
<1>3. /\ coder = fed(from, to, assigned).coder /\ coder \in AnyObject(from, to)
      /\ from \in InputTypes /\ to \in Encodings /\ unit \in AnyUnit(from)
  BY <1>1, BeforeWriting
<1>4. Returned(AnyObject(from, to), to, r)
  BY <1>3, AnyReturned
<1>5. assigned \in Seq(AnyUnit(from))
  BY DEF OInv, Typed
<1>6. Converted' = then(fed(from, to, assigned), r)
  <2>1. Converted' = fed(from, to, Append(assigned, unit))
    BY <1>1, <1>2 DEF Converted
  <2>2. fed(from, to, Append(assigned, unit))
          = then(fed(from, to, assigned), any_call(from, to, fed(from, to, assigned).coder, unit))
    BY <1>3, <1>5, FedAppend
  <2>. QED
    BY <1>3, <2>1, <2>2
<1>7. /\ r.out \in Seq(EncodedUnit(to))
      /\ TranscoderGivenAll' /\ StoresConversion'
  <2>. HIDE DEF r
  <2>1. written_at(out_[i], r)
    BY DEF r
  <2>. QED
    BY <1>1, <1>4, <1>6, <2>1, AssignedWritten
<1>8. /\ Append(assigned, unit) \in Seq(AnyUnit(from))
      /\ Len(Append(assigned, unit)) = Len(assigned) + 1 /\ Len(assigned) \in Nat
  BY <1>3, <1>5
<1>9. Len(assigned') <= MaxAssigned
  BY <1>1, <1>8, BoundAssumption
<1>. QED
  BY <1>1, <1>2, <1>7, <1>8, <1>9

\* it = t.end_cp (it).
LEMMA EndConverts ==
  ASSUME OInv, NEW i \in usable, ~ ended, ended', program' = program, assigned' = assigned,
         written_at(out_[i], any_end_cp(from, to, coder))
  PROVE  /\ any_end_cp(from, to, coder).out \in Seq(EncodedUnit(to))
         /\ TranscoderGivenAll' /\ StoresConversion'
         /\ from' = from /\ to' = to
<1>. DEFINE r == any_end_cp(from, to, coder)
<1>2. from' = from /\ to' = to
  BY DEF from, to
<1>3. /\ coder = fed(from, to, assigned).coder /\ coder \in AnyObject(from, to)
      /\ from \in InputTypes /\ to \in Encodings
  BY BeforeWriting
<1>4. Returned(AnyObject(from, to), to, r)
  BY <1>3, AnyReturned
<1>6. Converted' = then(fed(from, to, assigned), r)
  BY <1>2, <1>3 DEF Converted, fed_all, ended_by_hand
<1>. HIDE DEF r
<1>7. written_at(out_[i], r)
  BY DEF r
<1>8. /\ r.out \in Seq(EncodedUnit(to))
      /\ TranscoderGivenAll' /\ StoresConversion'
  BY <1>4, <1>6, <1>7, AssignedWritten
<1>. QED
  BY <1>2, <1>8 DEF r

-----------------------------------------------------------------------------
\* One iterator stands at the start of an empty destination; there is no other.
LEMMA InitHolds == ASSUME Init PROVE OInv
<1>1. PICK i \in Objects : out_ = [o \in Objects |-> IF o = i THEN 1 ELSE 0]
  BY DEF Init
<1>2. program \in Programs /\ from \in InputTypes /\ to \in Encodings
  BY ProgramParts DEF Init, from, to
<1>3. /\ stored = <<>> /\ assigned = <<>> /\ ended = FALSE
      /\ coder = any_transcoder(from, to)
  BY DEF Init, from, to
<1>4. Typed
  BY <1>1, <1>2, <1>3, BoundAssumption DEF Typed
<1>5. Converted = Result(any_transcoder(from, to), <<>>)
  BY <1>3, FedNothing DEF Converted
<1>6. TranscoderGivenAll /\ StoresConversion
  BY <1>3, <1>5, ResultFields DEF TranscoderGivenAll, StoresConversion
<1>7. StandsAtEnd
  <2>1. \A o \in Objects : out_[o] \in {0, 1}
    BY <1>1
  <2>2. \A o \in usable : out_[o] = 1
    BY <2>1 DEF usable
  <2>3. Len(stored) = 0
    BY <1>3
  <2>. QED
    BY <2>1, <2>2, <2>3 DEF StandsAtEnd
<1>. QED
  BY <1>4, <1>6, <1>7 DEF OInv

\* *i = unit; ++i
LEMMA PreIncrementHolds ==
  ASSUME OInv, NEW i \in Objects, NEW unit \in Units[from], AssignThenIncrement(i, unit)
  PROVE  OInv'
<1>. DEFINE r == any_call(from, to, coder, unit)
<1>1. /\ CanAssign(i) /\ written_at(out_[i], r) /\ out_' = [out_ EXCEPT ![i] = moved(@, r)]
      /\ assigned' = Append(assigned, unit) /\ program' = program /\ ended' = ended
  BY DEF AssignThenIncrement
<1>2. /\ i \in usable /\ r.out \in Seq(EncodedUnit(to))
      /\ TranscoderGivenAll' /\ StoresConversion'
      /\ assigned' \in Seq(AnyUnit(from))' /\ Len(assigned') <= MaxAssigned
      /\ from' = from /\ to' = to
  BY <1>1, AssignedConverts
<1>. HIDE DEF r
<1>3. StandsAtEnd'
  BY <1>1, <1>2, Moved
<1>4. stored' \in Seq(EncodedUnit(to))
  BY <1>1, <1>2, StoredAfter
<1>5. out_' \in [Objects -> Nat]
  <2>1. out_ \in [Objects -> Nat] /\ Len(r.out) \in Nat
    BY <1>2 DEF OInv, Typed
  <2>2. moved(out_[i], r) \in Nat
    BY <2>1 DEF moved
  <2>. QED
    BY <1>1, <2>1, <2>2
<1>6. Typed'
  BY <1>1, <1>2, <1>4, <1>5 DEF Typed, OInv
<1>. QED
  BY <1>2, <1>3, <1>6 DEF OInv

\* *(i++) = unit
LEMMA PostIncrementHolds ==
  ASSUME OInv, NEW i \in Objects, NEW unit \in Units[from], PostIncrementAndAssign(i, unit)
  PROVE  OInv'
<1>. DEFINE r == any_call(from, to, coder, unit)
<1>1. /\ CanAssign(i) /\ program[4] = "post" /\ written_at(out_[i], r) /\ out_' = out_
      /\ assigned' = Append(assigned, unit) /\ program' = program /\ ended' = ended
  BY DEF PostIncrementAndAssign
<1>2. /\ i \in usable /\ r.out \in Seq(EncodedUnit(to))
      /\ TranscoderGivenAll' /\ StoresConversion'
      /\ assigned' \in Seq(AnyUnit(from))' /\ Len(assigned') <= MaxAssigned
      /\ from' = from /\ to' = to
  BY <1>1, AssignedConverts
<1>. HIDE DEF r
<1>3. stored' \in Seq(EncodedUnit(to)) /\ Len(stored') >= Len(stored)
  BY <1>1, <1>2, StoredAfter
<1>4. StandsAtEnd'
  <2>1. Len(stored') \in Nat /\ Len(stored) \in Nat
    BY <1>3 DEF OInv, Typed
  <2>2. \A o \in Objects : out_[o] \in IF appends THEN {0, 1} ELSE 0 .. Len(stored) + 1
    BY DEF OInv, StandsAtEnd
  <2>3. \A o \in Objects : out_[o] \in IF appends THEN {0, 1} ELSE 0 .. Len(stored') + 1
    BY <1>3, <2>1, <2>2
  <2>4. ~ (~ appends /\ ~ RewritesInPlace)
    BY <1>1 DEF RewritesInPlace
  <2>5. appends' = appends /\ RewritesInPlace' = RewritesInPlace
    BY <1>1 DEF appends, RewritesInPlace
  <2>. QED
    BY <1>1, <2>3, <2>4, <2>5 DEF StandsAtEnd
<1>5. Typed'
  BY <1>1, <1>2, <1>3 DEF Typed, OInv
<1>. QED
  BY <1>2, <1>4, <1>5 DEF OInv

\* A copy stands where the iterator it was made from does.
LEMMA CopyHolds ==
  ASSUME OInv, NEW i \in Objects, NEW j \in Objects, Copy(i, j)
  PROVE  OInv'
<1>1. /\ i \in usable /\ out_' = [out_ EXCEPT ![j] = out_[i]]
      /\ program' = program /\ coder' = coder /\ stored' = stored
      /\ assigned' = assigned /\ ended' = ended
  BY DEF Copy
<1>2. /\ from' = from /\ to' = to /\ appends' = appends /\ RewritesInPlace' = RewritesInPlace
      /\ Converted' = Converted
  BY <1>1 DEF from, to, appends, RewritesInPlace, Converted
<1>3. out_ \in [Objects -> Nat] /\ Len(stored) \in Nat
  BY DEF OInv, Typed
<1>4. Typed' /\ TranscoderGivenAll' /\ StoresConversion'
  BY <1>1, <1>2, <1>3 DEF OInv, Typed, TranscoderGivenAll, StoresConversion
<1>5. \A o \in Objects : out_'[o] \in IF appends THEN {0, 1} ELSE 0 .. Len(stored) + 1
  BY <1>1, <1>3 DEF OInv, StandsAtEnd
<1>6. ASSUME ~ appends, ~ RewritesInPlace, NEW o \in usable' PROVE out_'[o] = Len(stored) + 1
  <2>1. out_'[j] = Len(stored) + 1
    BY <1>1, <1>3, <1>6 DEF OInv, StandsAtEnd
  <2>2. o \in Objects /\ out_'[j] <= out_'[o]
    BY DEF usable
  <2>3. out_'[o] \in 0 .. Len(stored) + 1
    BY <1>5, <1>6, <2>2
  <2>. QED
    BY <1>3, <2>1, <2>2, <2>3
<1>7. StandsAtEnd'
  BY <1>1, <1>2, <1>5, <1>6 DEF StandsAtEnd
<1>. QED
  BY <1>4, <1>7 DEF OInv

\* i = t.end_cp (i)
LEMMA EndCpHolds ==
  ASSUME OInv, NEW i \in Objects, EndCp(i)
  PROVE  OInv'
<1>. DEFINE r == any_end_cp(from, to, coder)
<1>1. /\ ~ ended /\ i \in usable /\ ended' /\ written_at(out_[i], r)
      /\ out_' = [out_ EXCEPT ![i] = moved(@, r)]
      /\ program' = program /\ assigned' = assigned
  BY DEF EndCp
<1>2. /\ r.out \in Seq(EncodedUnit(to))
      /\ TranscoderGivenAll' /\ StoresConversion' /\ from' = from /\ to' = to
  BY <1>1, EndConverts
<1>. HIDE DEF r
<1>3. StandsAtEnd'
  BY <1>1, <1>2, Moved
<1>4. stored' \in Seq(EncodedUnit(to))
  BY <1>1, <1>2, StoredAfter
<1>5. out_' \in [Objects -> Nat]
  <2>1. out_ \in [Objects -> Nat] /\ Len(r.out) \in Nat
    BY <1>2 DEF OInv, Typed
  <2>2. moved(out_[i], r) \in Nat
    BY <2>1 DEF moved
  <2>. QED
    BY <1>1, <2>1, <2>2
<1>6. Typed'
  BY <1>1, <1>2, <1>4, <1>5 DEF Typed, OInv
<1>. QED
  BY <1>2, <1>3, <1>6 DEF OInv

\* Every step keeps the invariant.
LEMMA NextHolds == ASSUME OInv, Next PROVE OInv'
<1>1. PICK i \in Objects :
        \/ \E unit \in Units[from] : AssignThenIncrement(i, unit) \/ PostIncrementAndAssign(i, unit)
        \/ \E j \in Objects : Copy(i, j)
        \/ EndCp(i)
  BY DEF Next
<1>2. CASE \E unit \in Units[from] : AssignThenIncrement(i, unit) \/ PostIncrementAndAssign(i, unit)
  BY <1>2, PreIncrementHolds, PostIncrementHolds
<1>3. CASE \E j \in Objects : Copy(i, j)
  BY <1>3, CopyHolds
<1>4. CASE EndCp(i)
  BY <1>4, EndCpHolds
<1>. QED
  BY <1>1, <1>2, <1>3, <1>4

\* And so does one that changes nothing.
LEMMA StutterHolds == ASSUME OInv, UNCHANGED vars PROVE OInv'
  BY DEF OInv, Typed, TranscoderGivenAll, StoresConversion, StandsAtEnd, Converted, vars,
         from, to, appends, RewritesInPlace, usable

(***************************************************************************)
(* The inductive invariant: whichever iterators a program assigns to, the  *)
(* one transcoder they point to has been given what was assigned, all of   *)
(* it and in order, in every form of use there is.                         *)
(***************************************************************************)
THEOREM Invariance == Spec => []OInv
<1>1. Init => OInv
  BY InitHolds
<1>2. OInv /\ [Next]_vars => OInv'
  BY NextHolds, StutterHolds
<1>. QED
  BY <1>1, <1>2, PTL DEF Spec

-----------------------------------------------------------------------------
(***************************************************************************)
(* Each iterator writes within what is stored, or just after it, in every  *)
(* form of use.                                                            *)
(***************************************************************************)
THEOREM TypeCorrect == Spec => []TypeOK
<1>1. OInv => TypeOK
  <2>. SUFFICES ASSUME OInv PROVE TypeOK
    OBVIOUS
  <2>1. Len(stored) \in Nat
    BY DEF OInv, Typed
  <2>2. \A i \in Objects : out_[i] \in IF appends THEN {0, 1} ELSE 0 .. Len(stored) + 1
    BY DEF OInv, StandsAtEnd
  <2>3. \A i \in Objects : out_[i] \in 0 .. Len(stored) + 1
    BY <2>1, <2>2
  <2>. QED
    BY <2>3 DEF OInv, Typed, TypeOK
<1>. QED
  BY <1>1, Invariance, PTL

(***************************************************************************)
(* Programs whose iterator is a position in an array and that assign to    *)
(* what it++ returns are set apart: they overwrite what they have written. *)
(***************************************************************************)
NoneRewrites == \A p \in Programs : ~ (p[3] = "position" /\ p[4] = "post")

\* No program is of that kind.
LEMMA NotRewriting == ASSUME NoneRewrites, program \in Programs PROVE ~ RewritesInPlace
<1>1. program[3] \in {"appends", "position"}
  BY ProgramParts
<1>. QED
  BY <1>1 DEF NoneRewrites, RewritesInPlace, appends

(***************************************************************************)
(* The destination up to the iterator holds the conversion of everything   *)
(* assigned: nothing of it depends on how many copies of the iterator      *)
(* there are, which of them was used, or how a code point was split.       *)
(***************************************************************************)
THEOREM StoresWhatByHandWrites == NoneRewrites => (Spec => []HoldsConversion)
<1>. SUFFICES ASSUME NoneRewrites PROVE Spec => []HoldsConversion
  OBVIOUS
<1>1. OInv => HoldsConversion
  <2>. SUFFICES ASSUME OInv, NEW i \in usable
                PROVE  ByHand = IF appends THEN stored ELSE SubSeq(stored, 1, out_[i] - 1)
    BY DEF HoldsConversion
  <2>1. ~ RewritesInPlace
    BY NotRewriting DEF OInv, Typed
  <2>2. stored = ByHand
    BY <2>1 DEF OInv, StoresConversion, Converted, ByHand
  <2>3. ASSUME ~ appends PROVE SubSeq(stored, 1, out_[i] - 1) = stored
    <3>1. out_[i] = Len(stored) + 1
      BY <2>1, <2>3, UsablePosition
    <3>2. stored \in Seq(EncodedUnit(to)) /\ Len(stored) \in Nat
      BY DEF OInv, Typed
    <3>3. out_[i] - 1 = Len(stored)
      BY <3>1, <3>2
    <3>. QED
      BY <3>2, <3>3, SubSeqFull
  <2>. QED
    BY <2>2, <2>3
<1>. QED
  BY <1>1, Invariance, PTL

(***************************************************************************)
(* No assignment destroys what an earlier one has written.                 *)
(***************************************************************************)
THEOREM KeepsWhatIsStored == NoneRewrites => (Spec => NothingOverwritten)
<1>. SUFFICES ASSUME NoneRewrites PROVE Spec => NothingOverwritten
  OBVIOUS
<1>1. OInv /\ [Next]_vars => [IsPrefix(stored, stored')]_vars
  <2>. SUFFICES ASSUME OInv, Next PROVE IsPrefix(stored, stored')
    OBVIOUS
  <2>1. ~ RewritesInPlace /\ stored \in Seq(EncodedUnit(to))
    BY NotRewriting DEF OInv, Typed
  <2>2. ASSUME NEW units \in Seq(EncodedUnit(to)), stored' = stored \o units
        PROVE  IsPrefix(stored, stored')
    <3>1. Len(stored') = Len(stored) + Len(units) /\ Len(stored) \in Nat /\ Len(units) \in Nat
      BY <2>1, <2>2, ConcatProperties
    <3>2. SubSeq(stored', 1, Len(stored)) = SubSeq(stored, 1, Len(stored))
      BY <2>1, <2>2
    <3>. QED
      BY <3>1, <3>2 DEF IsPrefix
  <2>3. PICK i \in Objects :
          \/ \E unit \in Units[from] :
               AssignThenIncrement(i, unit) \/ PostIncrementAndAssign(i, unit)
          \/ \E j \in Objects : Copy(i, j)
          \/ EndCp(i)
    BY DEF Next
  <2>4. ASSUME NEW unit \in Units[from],
               AssignThenIncrement(i, unit) \/ PostIncrementAndAssign(i, unit)
        PROVE  IsPrefix(stored, stored')
    <3>. DEFINE r == any_call(from, to, coder, unit)
    <3>1. /\ CanAssign(i) /\ written_at(out_[i], r) /\ assigned' = Append(assigned, unit)
          /\ program' = program /\ ended' = ended
      BY <2>4 DEF AssignThenIncrement, PostIncrementAndAssign
    <3>2. i \in usable /\ r.out \in Seq(EncodedUnit(to))
      BY <3>1, AssignedConverts
    <3>. HIDE DEF r
    <3>. QED
      BY <2>1, <2>2, <3>1, <3>2, StoredAfter
  <2>5. ASSUME NEW j \in Objects, Copy(i, j) PROVE IsPrefix(stored, stored')
    <3>1. stored' = stored \o <<>> /\ <<>> \in Seq(EncodedUnit(to))
      BY <2>1, <2>5, ConcatEmptySeq DEF Copy
    <3>. QED
      BY <2>2, <3>1
  <2>6. ASSUME EndCp(i) PROVE IsPrefix(stored, stored')
    <3>. DEFINE r == any_end_cp(from, to, coder)
    <3>1. /\ ~ ended /\ i \in usable /\ ended' /\ written_at(out_[i], r)
          /\ program' = program /\ assigned' = assigned
      BY <2>6 DEF EndCp
    <3>2. r.out \in Seq(EncodedUnit(to))
      BY <3>1, EndConverts
    <3>. HIDE DEF r
    <3>. QED
      BY <2>1, <2>2, <3>1, <3>2, StoredAfter
  <2>. QED
    BY <2>3, <2>4, <2>5, <2>6
<1>. QED
  BY <1>1, Invariance, PTL DEF Spec, NothingOverwritten

(***************************************************************************)
(* `*it++ = unit` never moves a position: every unit assigned that way is  *)
(* written at the beginning of the destination, over what the units before *)
(* it wrote, though the header declares an output iterator.  That is why   *)
(* the two theorems above leave such programs out.                         *)
(***************************************************************************)
Unmoved == RewritesInPlace /\ ~ ended => \A i \in Objects : out_[i] \in {0, 1}

\* No iterator of such a program has moved before the end.
LEMMA NeverMoved == Spec => []Unmoved
<1>1. Init => Unmoved
  BY DEF Init, Unmoved
<1>2. OInv /\ Unmoved /\ [Next]_vars => Unmoved'
  <2>. SUFFICES ASSUME OInv, Unmoved, [Next]_vars, RewritesInPlace', ~ ended'
                PROVE  \A o \in Objects : out_'[o] \in {0, 1}
    BY DEF Unmoved
  <2>1. CASE UNCHANGED vars
    BY <2>1 DEF vars, Unmoved, RewritesInPlace, appends
  <2>2. ASSUME NEW i \in Objects, NEW unit \in Units[from], AssignThenIncrement(i, unit)
        PROVE  FALSE
    BY <2>2 DEF AssignThenIncrement, RewritesInPlace
  <2>3. ASSUME NEW i \in Objects, NEW unit \in Units[from], PostIncrementAndAssign(i, unit)
        PROVE  \A o \in Objects : out_'[o] \in {0, 1}
    BY <2>3 DEF PostIncrementAndAssign, Unmoved, RewritesInPlace, appends
  <2>4. ASSUME NEW i \in Objects, NEW j \in Objects, Copy(i, j)
        PROVE  \A o \in Objects : out_'[o] \in {0, 1}
    <3>1. out_ \in [Objects -> Nat]
      BY DEF OInv, Typed
    <3>2. \A o \in Objects : out_[o] \in {0, 1}
      BY <2>4 DEF Copy, Unmoved, RewritesInPlace, appends
    <3>. QED
      BY <2>4, <3>1, <3>2 DEF Copy
  <2>5. ASSUME NEW i \in Objects, EndCp(i) PROVE FALSE
    BY <2>5 DEF EndCp
  <2>. QED
    BY <2>1, <2>2, <2>3, <2>4, <2>5 DEF Next
<1>. QED
  BY <1>1, <1>2, Invariance, PTL DEF Spec

\* Each assignment through it++ writes over what the earlier ones have written.
THEOREM PostIncrementRewrites ==
  Spec =>
    [][RewritesInPlace /\ assigned' # assigned =>
         \E unit \in Units[from] :
           /\ assigned' = Append(assigned, unit)
           /\ stored' = overwritten(1, any_call(from, to, coder, unit).out)]_vars
<1>. DEFINE Rewrites ==
              RewritesInPlace /\ assigned' # assigned =>
                \E unit \in Units[from] :
                  /\ assigned' = Append(assigned, unit)
                  /\ stored' = overwritten(1, any_call(from, to, coder, unit).out)
<1>1. Unmoved /\ [Next]_vars => [Rewrites]_vars
  <2>. SUFFICES ASSUME Unmoved, Next, RewritesInPlace, assigned' # assigned
                PROVE  \E unit \in Units[from] :
                         /\ assigned' = Append(assigned, unit)
                         /\ stored' = overwritten(1, any_call(from, to, coder, unit).out)
    OBVIOUS
  <2>1. PICK i \in Objects, unit \in Units[from] : PostIncrementAndAssign(i, unit)
    BY DEF Next, AssignThenIncrement, Copy, EndCp, RewritesInPlace
  <2>2. out_[i] = 1
    BY <2>1 DEF PostIncrementAndAssign, CanAssign, usable, Unmoved
  <2>3. ~ appends
    BY DEF RewritesInPlace
  <2>. QED
    BY <2>1, <2>2, <2>3 DEF PostIncrementAndAssign, written_at
<1>. QED
  BY <1>1, NeverMoved, PTL DEF Spec
=============================================================================
