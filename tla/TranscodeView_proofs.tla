------------------------- MODULE TranscodeView_proofs -------------------------
(***************************************************************************)
(* Theorems about views of a text of any length, any number of copies of   *)
(* the view and any number of iterators.  The inductive invariant says     *)
(* where each iterator stands: its transcoder is the one that converts by  *)
(* hand the units the iterator has consumed, the elements read through it  *)
(* and those in its array are what that has written, and none of the units *)
(* has been consumed before its output was needed.                         *)
(***************************************************************************)
EXTENDS TranscodeView, Transcoders_proofs, FiniteSetTheorems

-----------------------------------------------------------------------------
(***************************************************************************)
(* Beginnings of a text, converted by hand.  u is the text, f the encoding *)
(* it is in and e the one it is converted to.                              *)
(***************************************************************************)
upto(f, e, u, n) == fed(f, e, SubSeq(u, 1, n))

\* What the call with the n-th unit returns.
nth_call(f, e, u, n) == any_call(f, e, upto(f, e, u, n - 1).coder, u[n])

\* Of the first n + 1 units, the last is one call more.
LEMMA UptoNext ==
  ASSUME NEW f, NEW e, NEW T, NEW u \in Seq(T), NEW n \in 1 .. Len(u)
  PROVE  upto(f, e, u, n) = then(upto(f, e, u, n - 1), nth_call(f, e, u, n))
<1>. DEFINE before == SubSeq(u, 1, n - 1)
<1>1. /\ before \in Seq(T) /\ u[n] \in T
      /\ SubSeq(u, 1, n) = before \o <<u[n]>>
  <2>1. n \in 1 .. Len(u) /\ 1 \in 1 .. Len(u) /\ n \in 1 .. Len(u) /\ n - 1 \in Int
    OBVIOUS
  <2>2. \A i \in 1 .. n - 1 : u[i] \in T
    OBVIOUS
  <2>3. before \in Seq(T)
    BY <2>1, <2>2, SubSeqProperties
  <2>4. SubSeq(u, 1, n) = before \o <<u[n]>>
    BY <2>1, SubSeqRecursiveSecond
  <2>. QED
    BY <2>3, <2>4
<1>. HIDE DEF before
<1>2. SubSeq(u, 1, n) = Append(before, u[n])
  BY <1>1, AppendIsConcat
<1>3. fed(f, e, Append(before, u[n]))
        = then(fed(f, e, before), any_call(f, e, fed(f, e, before).coder, u[n]))
  BY <1>1, FedAppend
<1>. QED
  BY <1>2, <1>3 DEF upto, nth_call, before

\* The conversion of nothing, of all units, and of the end after them.
LEMMA UptoEnds ==
  ASSUME NEW f, NEW e, NEW T, NEW u \in Seq(T)
  PROVE  /\ upto(f, e, u, 0) = Result(any_transcoder(f, e), <<>>)
         /\ upto(f, e, u, Len(u)) = fed(f, e, u)
         /\ fed_all(f, e, u) = ended_by_hand(f, e, upto(f, e, u, Len(u)))
<1>1. SubSeq(u, 1, 0) = <<>>
  BY SubSeqEmpty
<1>2. SubSeq(u, 1, Len(u)) = u
  BY SubSeqFull
<1>. QED
  BY <1>1, <1>2, FedNothing DEF upto, fed_all

\* Each is an object of the transcoder and code units of the output.
LEMMA UptoReturned ==
  ASSUME NEW f \in InputTypes, NEW e \in Encodings, NEW u \in Seq(AnyUnit(f)), NEW n \in 0 .. Len(u)
  PROVE  Returned(AnyObject(f, e), e, upto(f, e, u, n))
<1>1. SubSeq(u, 1, n) \in Seq(AnyUnit(f))
  <2>1. \A i \in 1 .. n : u[i] \in AnyUnit(f)
    OBVIOUS
  <2>. QED
    BY <2>1, SubSeqProperties
<1>. QED
  BY <1>1, AnyFedReturned DEF upto

\* And so is what a call with the next unit, or with the end, returns.
LEMMA NthReturned ==
  ASSUME NEW f \in InputTypes, NEW e \in Encodings, NEW u \in Seq(AnyUnit(f))
  PROVE  /\ \A n \in 1 .. Len(u) : Returned(AnyObject(f, e), e, nth_call(f, e, u, n))
         /\ \A n \in 0 .. Len(u) :
              Returned(AnyObject(f, e), e, any_end_cp(f, e, upto(f, e, u, n).coder))
<1>1. ASSUME NEW n \in 0 .. Len(u) PROVE upto(f, e, u, n).coder \in AnyObject(f, e)
  BY UptoReturned DEF Returned
<1>2. ASSUME NEW n \in 1 .. Len(u) PROVE Returned(AnyObject(f, e), e, nth_call(f, e, u, n))
  <2>1. n - 1 \in 0 .. Len(u) /\ u[n] \in AnyUnit(f)
    OBVIOUS
  <2>. QED
    BY <1>1, <2>1, AnyReturned DEF nth_call
<1>3. ASSUME NEW n \in 0 .. Len(u)
      PROVE  Returned(AnyObject(f, e), e, any_end_cp(f, e, upto(f, e, u, n).coder))
  BY <1>1, AnyReturned
<1>. QED
  BY <1>2, <1>3

\* What r has written is a beginning of what later has.
Goes(e, r, later) == \E o \in Seq(EncodedUnit(e)) : later.out = r.out \o o

\* What a later call adds comes after.
LEMMA GoesOnBy ==
  ASSUME NEW e, NEW objects, NEW r, Returned(objects, e, r), NEW later, Returned(objects, e, later)
  PROVE  /\ Returned(objects, e, then(r, later))
         /\ then(r, later).coder = later.coder /\ then(r, later).out = r.out \o later.out
         /\ Goes(e, r, then(r, later))
<1>1. then(r, later).coder = later.coder /\ then(r, later).out = r.out \o later.out
  BY ResultFields DEF then
<1>2. r.out \in Seq(EncodedUnit(e)) /\ later.out \in Seq(EncodedUnit(e))
  BY DEF Returned
<1>3. Returned(objects, e, then(r, later))
  BY <1>2, ThenReturned
<1>. QED
  BY <1>1, <1>2, <1>3 DEF Goes

\* What follows what follows.
LEMMA Associative ==
  ASSUME NEW T, NEW x \in Seq(T), NEW y \in Seq(T), NEW z \in Seq(T)
  PROVE  (x \o y) \o z = x \o (y \o z) /\ y \o z \in Seq(T)
<1>1. (x \o y) \o z = x \o (y \o z)
  BY ConcatAssociative
<1>2. y \o z \in Seq(T)
  BY ConcatProperties
<1>. QED
  BY <1>1, <1>2

\* A beginning of a beginning is one, and each is one of itself.
LEMMA GoesFurther ==
  ASSUME NEW e, NEW a, NEW b, NEW c, a.out \in Seq(EncodedUnit(e))
  PROVE  Goes(e, a, a) /\ (Goes(e, a, b) /\ Goes(e, b, c) => Goes(e, a, c))
<1>. DEFINE T == EncodedUnit(e)
<1>1. Goes(e, a, a)
  <2>1. <<>> \in Seq(T) /\ a.out \o <<>> = a.out
    BY ConcatEmptySeq
  <2>. QED
    BY <2>1 DEF Goes
<1>2. ASSUME Goes(e, a, b), Goes(e, b, c) PROVE Goes(e, a, c)
  <2>1. PICK o \in Seq(T) : b.out = a.out \o o
    BY <1>2 DEF Goes
  <2>2. PICK p \in Seq(T) : c.out = b.out \o p
    BY <1>2 DEF Goes
  <2>4. a.out \in Seq(T)
    OBVIOUS
  <2>5. (a.out \o o) \o p = a.out \o (o \o p) /\ o \o p \in Seq(T)
    <3>. HIDE DEF T
    <3>. QED
      <4>1. \A x, y, w \in Seq(T) : (x \o y) \o w = x \o (y \o w) /\ y \o w \in Seq(T)
        BY Associative
      <4>. QED
        BY <2>4, <4>1
  <2>. QED
    BY <2>1, <2>2, <2>5 DEF Goes
<1>. QED
  BY <1>1, <1>2

\* Of two beginnings of a text, the conversion of the shorter is a beginning of
\* the conversion of the longer, and of that of all.
LEMMA UptoGrows ==
  ASSUME NEW f \in InputTypes, NEW e \in Encodings, NEW u \in Seq(AnyUnit(f)), NEW m \in 0 .. Len(u)
  PROVE  /\ \A n \in m .. Len(u) : Goes(e, upto(f, e, u, m), upto(f, e, u, n))
         /\ Goes(e, upto(f, e, u, m), fed_all(f, e, u))
<1>. DEFINE F(n) == upto(f, e, u, n)
            N == Len(u)
            S == {k \in Nat : m + k <= N => Goes(e, F(m), F(m + k))}
<1>0. N \in Nat /\ m \in Nat
  OBVIOUS
<1>1. \A n \in 0 .. N : F(n).out \in Seq(EncodedUnit(e)) /\ Returned(AnyObject(f, e), e, F(n))
  BY UptoReturned DEF Returned
<1>2. ASSUME NEW k \in Nat, k \in S, m + (k + 1) <= N PROVE Goes(e, F(m), F(m + (k + 1)))
  <2>. DEFINE n == m + k
  <2>1. n \in 0 .. N /\ n + 1 \in 1 .. N /\ (n + 1) - 1 = n /\ m + (k + 1) = n + 1 /\ n <= N
    BY <1>0, <1>2
  <2>2. F(n + 1) = then(F(n), nth_call(f, e, u, n + 1))
    <3>. HIDE DEF n
    <3>1. upto(f, e, u, n + 1) = then(upto(f, e, u, (n + 1) - 1), nth_call(f, e, u, n + 1))
      BY <2>1, UptoNext
    <3>. QED
      BY <2>1, <3>1
  <2>3. Goes(e, F(m), F(n))
    BY <1>2, <2>1
  <2>4. Returned(AnyObject(f, e), e, nth_call(f, e, u, n + 1))
    BY <2>1, NthReturned
  <2>. HIDE DEF F, n
  <2>5. Goes(e, F(n), F(n + 1))
    BY <1>1, <2>1, <2>2, <2>4, GoesOnBy
  <2>. QED
    BY <1>0, <1>1, <2>1, <2>3, <2>5, GoesFurther
<1>3. 0 \in S
  <2>1. m + 0 = m
    OBVIOUS
  <2>2. Goes(e, F(m), F(m))
    <3>. HIDE DEF F
    <3>. QED
      BY <1>1, GoesFurther
  <2>. QED
    BY <2>1, <2>2
<1>4. \A k \in Nat : k \in S => k + 1 \in S
  BY <1>2
<1>5. \A k \in Nat : k \in S
  <2>. HIDE DEF S
  <2>. QED
    BY <1>3, <1>4, Feeding!SetInduction
<1>6. ASSUME NEW n \in m .. N PROVE Goes(e, F(m), F(n))
  <2>1. n - m \in Nat /\ m + (n - m) = n /\ n <= N
    BY <1>0
  <2>2. n - m \in S
    BY <1>5, <2>1
  <2>3. Goes(e, F(m), F(m + (n - m)))
    BY <2>1, <2>2
  <2>. QED
    BY <2>1, <2>3
<1>7. Goes(e, F(m), fed_all(f, e, u))
  <2>1. fed_all(f, e, u) = then(F(N), any_end_cp(f, e, F(N).coder))
    BY UptoEnds DEF ended_by_hand
  <2>2. Returned(AnyObject(f, e), e, any_end_cp(f, e, F(N).coder))
    BY <1>0, NthReturned
  <2>3. Goes(e, F(m), F(N)) /\ N \in 0 .. N
    BY <1>0, <1>6
  <2>. HIDE DEF F, N
  <2>4. Goes(e, F(N), fed_all(f, e, u))
    BY <1>1, <2>1, <2>2, <2>3, GoesOnBy
  <2>5. F(m).out \in Seq(EncodedUnit(e))
    BY <1>0, <1>1 DEF N
  <2>. QED
    BY <2>3, <2>4, <2>5, GoesFurther
<1>. QED
  BY <1>6, <1>7

-----------------------------------------------------------------------------
(***************************************************************************)
(* What an object knows of its input: well_formed(), once false, stays so. *)
(***************************************************************************)
\* A decoder's flag is a Boolean.
LEMMA DecoderFlag ==
  ASSUME NEW f \in Encodings, NEW d \in Decoder(f)
  PROVE  d.well_formed \in BOOLEAN
  BY DEF Decoder, T8_32, T16_32, T32_X, Encodings

\* A call of a transcoder never sets the flag again.
LEMMA CallKnows ==
  ASSUME NEW f \in Encodings, NEW e \in Encodings, NEW t \in Object(f, e)
  PROVE  /\ well_formed(f, e, t) \in BOOLEAN
         /\ \A unit \in CodeUnit(f) :
              well_formed(f, e, call(f, e, t, unit).coder) => well_formed(f, e, t)
         /\ well_formed(f, e, end_cp(f, e, t).coder) => well_formed(f, e, t)
<1>1. PICK d \in Decoder(f) : t = object(f, e, d)
  BY DEF Object
<1>2. well_formed(f, e, t) = d.well_formed
  BY <1>1, ObjectObserved
<1>3. ASSUME NEW r, Decodes(f, d, r), NEW called,
             called = Result(object(f, e, r.coder), encoded(e, r.out)),
             well_formed(f, e, called.coder)
      PROVE  d.well_formed
  <2>1. called.coder = object(f, e, r.coder)
    BY <1>3, ResultFields
  <2>2. r.coder \in Decoder(f) /\ Reports(d, r)
    BY <1>3 DEF Decodes
  <2>3. well_formed(f, e, object(f, e, r.coder)) = r.coder.well_formed
    BY <2>2, ObjectObserved
  <2>. QED
    BY <1>3, <2>1, <2>2, <2>3 DEF Reports
<1>4. ASSUME NEW unit \in CodeUnit(f), well_formed(f, e, call(f, e, t, unit).coder)
      PROVE  d.well_formed
  <2>. DEFINE r == decoder_call(f, d, unit)
  <2>1. Decodes(f, d, r)
    BY DecoderDecodes
  <2>2. call(f, e, t, unit) = Result(object(f, e, r.coder), encoded(e, r.out))
    BY <1>1, CallEncodes
  <2>. HIDE DEF r
  <2>. QED
    BY <1>3, <1>4, <2>1, <2>2
<1>5. ASSUME well_formed(f, e, end_cp(f, e, t).coder) PROVE d.well_formed
  <2>. DEFINE r == decoder_end_cp(f, d)
  <2>1. Decodes(f, d, r)
    BY DecoderDecodes
  <2>2. end_cp(f, e, t) = Result(object(f, e, r.coder), encoded(e, r.out))
    BY <1>1, EndCpEncodes
  <2>. HIDE DEF r
  <2>. QED
    BY <1>3, <1>5, <2>1, <2>2
<1>. QED
  BY <1>2, <1>4, <1>5, DecoderFlag

\* The byte transcoder knows what the one it holds knows, and nothing of a mark.
LEMMA ByteKnows ==
  ASSUME NEW e
  PROVE  /\ \A s, buffer : byte_well_formed(e, waiting(s, buffer)) = TRUE
         /\ \A s \in RunStates : \A buffer, coder :
              byte_well_formed(e, running(s, buffer, coder))
                = (TRUE => well_formed(s.encoding, e, coder))
<1>1. ASSUME NEW s, NEW buffer PROVE byte_well_formed(e, waiting(s, buffer)) = TRUE
  BY WaitingFields DEF byte_well_formed
<1>2. ASSUME NEW s \in RunStates, NEW buffer, NEW coder
      PROVE  byte_well_formed(e, running(s, buffer, coder))
               = (TRUE => well_formed(s.encoding, e, coder))
  <2>. DEFINE t == running(s, buffer, coder)
  <2>1. s.encoding # 0
    BY RunState DEF Encodings
  <2>2. monostate.from = 0
    BY DEF monostate
  <2>3. t.variant.from = s.encoding /\ t.variant.coder = coder
    BY RunningFields
  <2>. HIDE DEF t
  <2>4. t.variant # monostate
    BY <2>1, <2>2, <2>3
  <2>. QED
    BY <2>3, <2>4 DEF byte_well_formed, t
<1>. QED
  BY <1>1, <1>2

\* Nor does a call of any transcoder set the flag again.
LEMMA AnyKnows ==
  ASSUME NEW f \in InputTypes, NEW e \in Encodings, NEW t \in AnyObject(f, e)
  PROVE  /\ any_well_formed(f, e, t) \in BOOLEAN
         /\ \A unit \in AnyUnit(f) :
              any_well_formed(f, e, any_call(f, e, t, unit).coder) => any_well_formed(f, e, t)
         /\ any_well_formed(f, e, any_end_cp(f, e, t).coder) => any_well_formed(f, e, t)
<1>1. CASE f # std_byte
  <2>1. f \in Encodings
    BY <1>1 DEF InputTypes
  <2>2. t \in Object(f, e)
    BY <1>1 DEF AnyObject
  <2>. QED
    BY <1>1, <2>1, <2>2, CallKnows DEF any_well_formed, any_call, any_end_cp, AnyUnit
<1>2. CASE f = std_byte
  <2>1. CASE t \in WaitingObject
    <3>1. PICK s \in BomStates, buffer \in Buffer : t = waiting(s, buffer)
      BY <2>1 DEF WaitingObject
    <3>2. any_well_formed(f, e, t) = TRUE
      BY <1>2, <3>1, ByteKnows DEF any_well_formed
    <3>. QED
      BY <3>2
  <2>2. CASE t \in RunningObject(e)
    <3>1. PICK s \in RunStates, buffer \in Buffer :
            \E c \in Object(s.encoding, e) : t = running(s, buffer, c)
      BY <2>2 DEF RunningObject
    <3>2. PICK coder \in Object(s.encoding, e) : t = running(s, buffer, coder)
      BY <3>1
    <3>. DEFINE q == s.encoding
                wf(c) == well_formed(q, e, c)
    <3>3. q \in Encodings
      BY RunState
    <3>4. /\ wf(coder) \in BOOLEAN
          /\ \A unit \in CodeUnit(q) : wf(call(q, e, coder, unit).coder) => wf(coder)
          /\ wf(end_cp(q, e, coder).coder) => wf(coder)
      BY <3>3, CallKnows
    <3>5. any_well_formed(f, e, t) = (TRUE => wf(coder))
      BY <1>2, <3>2, ByteKnows DEF any_well_formed
    <3>6. ASSUME NEW b \in AnyUnit(f), any_well_formed(f, e, any_call(f, e, t, b).coder)
          PROVE  wf(coder)
      <4>. DEFINE r == byte_call(e, t, b)
      <4>1. b \in Byte
        BY <1>2 DEF AnyUnit
      <4>2. byte_well_formed(e, r.coder)
        BY <1>2, <3>6 DEF any_well_formed, any_call
      <4>3. PICK n \in RunStates, kept \in Buffer :
              /\ n.encoding = q
              /\ \/ r = Result(running(n, kept, coder), <<>>)
                 \/ \E unit \in CodeUnit(q) :
                      r = Result(running(n, kept, call(q, e, coder, unit).coder),
                                 call(q, e, coder, unit).out)
        BY <3>2, <4>1, RunningCall
      <4>. HIDE DEF r, q
      <4>4. CASE r = Result(running(n, kept, coder), <<>>)
        <5>1. r.coder = running(n, kept, coder)
          BY <4>4, ResultFields
        <5>2. byte_well_formed(e, running(n, kept, coder)) = (TRUE => wf(coder))
          BY <4>3, ByteKnows
        <5>. QED
          BY <4>2, <5>1, <5>2
      <4>5. ASSUME NEW unit \in CodeUnit(q), NEW later, later = call(q, e, coder, unit),
                   r = Result(running(n, kept, later.coder), later.out)
            PROVE  wf(coder)
        <5>1. r.coder = running(n, kept, later.coder)
          BY <4>5, ResultFields
        <5>2. byte_well_formed(e, running(n, kept, later.coder)) = (TRUE => wf(later.coder))
          BY <4>3, ByteKnows
        <5>. QED
          BY <3>4, <4>2, <4>5, <5>1, <5>2
      <4>. QED
        BY <4>3, <4>4, <4>5
    <3>7. ASSUME any_well_formed(f, e, any_end_cp(f, e, t).coder) PROVE wf(coder)
      <4>. DEFINE r == end_cp(q, e, coder)
      <4>1. byte_end_cp(e, t) = Result(running(s, buffer, r.coder), r.out)
        BY <3>2, EndOfStream
      <4>2. byte_well_formed(e, byte_end_cp(e, t).coder)
        BY <1>2, <3>7 DEF any_well_formed, any_end_cp
      <4>3. byte_well_formed(e, running(s, buffer, r.coder)) = (TRUE => wf(r.coder))
        BY ByteKnows
      <4>4. wf(r.coder) => wf(coder)
        BY <3>4
      <4>. HIDE DEF r, q
      <4>. QED
        BY <4>1, <4>2, <4>3, <4>4, ResultFields
    <3>. HIDE DEF q
    <3>. QED
      BY <3>4, <3>5, <3>6, <3>7
  <2>. QED
    BY <1>2, <2>1, <2>2 DEF AnyObject
<1>. QED
  BY <1>1, <1>2

\* What has been found to be malformed in a beginning of a text is so in a longer
\* one, and in all of it.
LEMMA UptoKnows ==
  ASSUME NEW f \in InputTypes, NEW e \in Encodings, NEW u \in Seq(AnyUnit(f)), NEW m \in 0 .. Len(u)
  PROVE  /\ any_well_formed(f, e, upto(f, e, u, m).coder) \in BOOLEAN
         /\ any_well_formed(f, e, fed_all(f, e, u).coder)
              => any_well_formed(f, e, upto(f, e, u, m).coder)
<1>. DEFINE F(n) == upto(f, e, u, n)
            wf(r) == any_well_formed(f, e, r.coder)
            N == Len(u)
            S == {k \in Nat : m + k <= N => (wf(F(m + k)) => wf(F(m)))}
<1>0. N \in Nat /\ m \in Nat /\ m <= N
  OBVIOUS
<1>1. ASSUME NEW n \in 0 .. N PROVE F(n).coder \in AnyObject(f, e) /\ Returned(AnyObject(f, e), e, F(n))
  BY UptoReturned DEF Returned
<1>2. ASSUME NEW n \in 1 .. N, wf(F(n)) PROVE wf(F(n - 1))
  <2>1. F(n) = then(F(n - 1), nth_call(f, e, u, n))
    BY UptoNext
  <2>2. F(n).coder = nth_call(f, e, u, n).coder
    BY <2>1, ResultFields DEF then
  <2>3. n - 1 \in 0 .. N /\ u[n] \in AnyUnit(f)
    OBVIOUS
  <2>4. wf(nth_call(f, e, u, n)) => wf(F(n - 1))
    <3>1. F(n - 1).coder \in AnyObject(f, e)
      BY <1>1, <2>3
    <3>. QED
      BY <2>3, <3>1, AnyKnows DEF nth_call
  <2>. QED
    BY <1>2, <2>2, <2>4
<1>3. 0 \in S
  <2>1. m + 0 = m
    OBVIOUS
  <2>. QED
    BY <2>1
<1>4. ASSUME NEW k \in Nat, k \in S PROVE k + 1 \in S
  <2>1. ASSUME m + (k + 1) <= N, wf(F(m + (k + 1))) PROVE wf(F(m))
    <3>1. m + (k + 1) \in 1 .. N /\ (m + (k + 1)) - 1 = m + k /\ m + k <= N
      BY <1>0, <2>1
    <3>. HIDE DEF F, wf
    <3>2. wf(F((m + (k + 1)) - 1))
      BY <1>2, <2>1, <3>1
    <3>. QED
      BY <1>4, <3>1, <3>2
  <2>. QED
    BY <2>1
<1>5. \A k \in Nat : k \in S
  <2>. HIDE DEF S
  <2>. QED
    BY <1>3, <1>4, Feeding!SetInduction
<1>6. wf(F(N)) => wf(F(m))
  <2>1. N - m \in Nat /\ m + (N - m) = N
    BY <1>0
  <2>2. N - m \in S
    BY <1>5, <2>1
  <2>. HIDE DEF F, wf, N
  <2>3. m + (N - m) <= N => (wf(F(m + (N - m))) => wf(F(m)))
    BY <2>2
  <2>. QED
    BY <1>0, <2>1, <2>3
<1>7. wf(fed_all(f, e, u)) => wf(F(N))
  <2>1. fed_all(f, e, u) = then(F(N), any_end_cp(f, e, F(N).coder))
    BY UptoEnds DEF ended_by_hand
  <2>2. fed_all(f, e, u).coder = any_end_cp(f, e, F(N).coder).coder
    BY <2>1, ResultFields DEF then
  <2>3. F(N).coder \in AnyObject(f, e)
    BY <1>0, <1>1
  <2>. QED
    BY <2>2, <2>3, AnyKnows
<1>8. wf(F(m)) \in BOOLEAN
  BY <1>1, AnyKnows
<1>. QED
  BY <1>6, <1>7, <1>8

-----------------------------------------------------------------------------
(***************************************************************************)
(* How much a call, and the end after it, may write.                       *)
(***************************************************************************)
\* The end of the input: a decoder in the middle of a code point gives it up.
LEMMA EndIs ==
  ASSUME NEW f \in Encodings, NEW d \in Decoder(f), NEW q, q = decoder_end_cp(f, d)
  PROVE  /\ ~ decoder_partial(f, d) => q = Result(d, <<>>)
         /\ decoder_partial(f, d) => q.out = <<replacement_char>> /\ ~ q.coder.well_formed
<1>1. CASE f = 8
  <2>1. q = t8_32_end_cp(d) /\ d \in T8_32
    BY <1>1 DEF decoder_end_cp, Decoder
  <2>4. decoder_partial(f, d) <=> d.state # accept
    <3>1. decoder_partial(8, d) <=> d.state # accept
      BY DecoderPartial
    <3>. QED
      BY <1>1, <3>1
  <2>2. CASE d.state = accept
    BY <2>1, <2>2, <2>4 DEF t8_32_end_cp
  <2>3. CASE d.state # accept
    <3>. DEFINE c == [d EXCEPT !.state = reject, !.well_formed = FALSE]
    <3>1. ~ c.well_formed
      BY <2>1 DEF T8_32
    <3>2. q = Result(c, <<replacement_char>>)
      BY <2>1, <2>3 DEF t8_32_end_cp
    <3>. HIDE DEF c
    <3>3. q.coder = c /\ q.out = <<replacement_char>>
      BY <3>2, ResultFields
    <3>. QED
      BY <2>3, <2>4, <3>1, <3>3
  <2>. QED
    BY <2>2, <2>3
<1>2. CASE f = 16
  <2>1. q = t16_32_end_cp(d) /\ d \in T16_32
    BY <1>2 DEF decoder_end_cp, Decoder
  <2>4. decoder_partial(f, d) <=> d.has_high
    <3>1. decoder_partial(16, d) <=> d.has_high
      BY DecoderPartial
    <3>. QED
      BY <1>2, <3>1
  <2>2. CASE ~ d.has_high
    BY <2>1, <2>2, <2>4 DEF t16_32_end_cp
  <2>3. CASE d.has_high
    <3>1. ~ ill_formed(released(d)).well_formed
      BY <2>1, Released, IllFormed
    <3>2. q = Result(ill_formed(released(d)), <<replacement_char>>)
      BY <2>1, <2>3 DEF t16_32_end_cp
    <3>3. q.coder = ill_formed(released(d)) /\ q.out = <<replacement_char>>
      BY <3>2, ResultFields
    <3>. QED
      BY <2>3, <2>4, <3>1, <3>3
  <2>. QED
    BY <2>2, <2>3
<1>3. CASE f = 32
  <2>1. ~ decoder_partial(32, d)
    BY DecoderPartial
  <2>2. q = Result(d, <<>>)
    BY <1>3 DEF decoder_end_cp
  <2>. QED
    BY <1>3, <2>1, <2>2
<1>. QED
  BY <1>1, <1>2, <1>3 DEF Encodings

\* A call of a decoder writes nothing only in the middle of a code point; what is
\* well formed writes one code point, and only the UTF-16 decoder can write
\* something and be in the middle of the next.
LEMMA CallIs ==
  ASSUME NEW f \in Encodings, NEW d \in Decoder(f), NEW unit \in CodeUnit(f),
         NEW r, r = decoder_call(f, d, unit)
  PROVE  /\ r.out = <<>> => decoder_partial(f, r.coder)
         /\ r.out # <<>> /\ decoder_partial(f, r.coder) => f = 16 /\ r.out = <<replacement_char>>
         /\ r.out = <<>> \/ (\E x \in Scalar : r.out = <<x>>) \/ (f = 16 /\ ~ r.coder.well_formed)
<1>. DEFINE Claims ==
       /\ r.out = <<>> => decoder_partial(f, r.coder)
       /\ r.out # <<>> /\ decoder_partial(f, r.coder) => f = 16 /\ r.out = <<replacement_char>>
       /\ r.out = <<>> \/ (\E x \in Scalar : r.out = <<x>>) \/ (f = 16 /\ ~ r.coder.well_formed)
<1>0. MayWrite(f, r.out)
  BY DecoderDecodes DEF Decodes
<1>1. CASE f = 8
  <2>1. d \in T8_32 /\ unit \in Byte /\ r = t8_32_call(d, unit)
    BY <1>1 DEF Decoder, CodeUnit, decoder_call
  <2>2. decoder_partial(f, r.coder) = (r.coder.state # accept)
    BY <1>1, DecoderPartial
  <2>3. r.out = <<>> \/ \E x \in Scalar : r.out = <<x>>
    BY <1>0, <1>1 DEF MayWrite
  <2>4. \/ r.out # <<>> /\ r.coder.state = accept
        \/ r.out = <<>> /\ r.coder.state # accept
    <3>. DEFINE cp == shifted(d, unit)
                s == transition(d.state, class(unit))
                c(w, z) == [code_point |-> cp, well_formed |-> w, state |-> z]
    <3>1. \/ r = Result(c(d.well_formed, accept), <<cp>>)
          \/ r = Result(c(FALSE, accept), <<replacement_char>>)
          \/ s # accept /\ r = Result(c(d.well_formed, s), <<>>)
      BY <2>1, Call8
    <3>2. c(d.well_formed, accept).state = accept /\ c(FALSE, accept).state = accept
          /\ c(d.well_formed, s).state = s
      OBVIOUS
    <3>3. <<cp>> # <<>> /\ <<replacement_char>> # <<>>
      OBVIOUS
    <3>. HIDE DEF c, s, cp
    <3>4. ASSUME NEW x, NEW o, r = Result(x, o) PROVE r.coder = x /\ r.out = o
      BY <3>4, ResultFields
    <3>5. CASE r = Result(c(d.well_formed, accept), <<cp>>)
      BY <3>2, <3>3, <3>4, <3>5
    <3>6. CASE r = Result(c(FALSE, accept), <<replacement_char>>)
      BY <3>2, <3>3, <3>4, <3>6
    <3>7. CASE s # accept /\ r = Result(c(d.well_formed, s), <<>>)
      BY <3>2, <3>4, <3>7
    <3>. QED
      BY <3>1, <3>5, <3>6, <3>7
  <2>. QED
    BY <2>2, <2>3, <2>4
<1>2. CASE f = 16
  <2>1. /\ d \in T16_32 /\ unit \in CodeUnit16 /\ unit \in Int
        /\ (~ is_surrogate(unit) => unit \in Scalar) /\ r = t16_32_call(d, unit)
    BY <1>2, UnitIsScalar, ScalarMember DEF Decoder, CodeUnit, decoder_call
  <2>2. decoder_partial(f, r.coder) = r.coder.has_high
    BY <1>2, DecoderPartial
  <2>3. ASSUME NEW c, NEW o, r = Result(c, o),
               \/ o = <<>> /\ c.has_high
               \/ o = <<replacement_char>>
               \/ ~ c.has_high /\ \E x \in Scalar : o = <<x>>
               \/ ~ c.has_high /\ ~ c.well_formed /\ o # <<>>
        PROVE  Claims
    <3>1. r.coder = c /\ r.out = o
      BY <2>3, ResultFields
    <3>2. replacement_char \in Scalar
      BY ScalarMember
    <3>3. CASE o = <<>> /\ c.has_high
      BY <2>2, <3>1, <3>3
    <3>4. CASE o = <<replacement_char>>
      BY <1>2, <3>1, <3>2, <3>4
    <3>5. CASE ~ c.has_high /\ \E x \in Scalar : o = <<x>>
      BY <2>2, <3>1, <3>5
    <3>6. CASE ~ c.has_high /\ ~ c.well_formed /\ o # <<>>
      BY <1>2, <2>2, <3>1, <3>6
    <3>. QED
      BY <2>3, <3>3, <3>4, <3>5, <3>6
  <2>4. CASE ~ d.has_high
    <3>1. CASE is_high_surrogate(unit) /\ r = Result(holding(d, unit), <<>>)
      BY <2>1, <2>3, <3>1, Holding
    <3>2. CASE r = Result(ill_formed(d), <<replacement_char>>)
      BY <2>3, <3>2
    <3>3. CASE ~ is_surrogate(unit) /\ r = Result(d, <<unit>>)
      BY <2>1, <2>3, <2>4, <3>3
    <3>. QED
      BY <2>1, <2>4, <3>1, <3>2, <3>3, WithoutHigh
  <2>5. CASE d.has_high
    <3>1. ~ released(d).has_high /\ released(d) \in T16_32
      BY <2>1, Released
    <3>2. ~ ill_formed(released(d)).has_high /\ ~ ill_formed(released(d)).well_formed
      BY <3>1, IllFormed
    <3>3. CASE r = Result(released(d), <<combined(d.high, unit)>>) /\ is_low_surrogate(unit)
      <4>1. combined(d.high, unit) \in Scalar
        BY <2>1, <3>3, Fields, CombinedRange, ScalarRange, ScalarMember, SMT
      <4>. QED
        BY <2>3, <3>1, <3>3, <4>1
    <3>4. CASE r = Result(ill_formed(holding(d, unit)), <<replacement_char>>)
      BY <2>3, <3>4
    <3>5. CASE r = Result(ill_formed(released(d)), <<replacement_char, unit>>)
      <4>1. <<replacement_char, unit>> # <<>>
        OBVIOUS
      <4>. QED
        BY <2>3, <3>2, <3>5, <4>1
    <3>. QED
      BY <2>1, <2>5, <3>3, <3>4, <3>5, WithHigh
  <2>. QED
    BY <2>4, <2>5
<1>3. CASE f = 32
  <2>1. r = t32_x_call(32, d, unit)
    BY <1>3 DEF decoder_call
  <2>2. r = Result(d, <<unit>>) \/ r = Result(t32_x(FALSE), <<replacement_char>>)
    BY <2>1, EncodeAsIs DEF t32_x_call
  <2>3. r.out # <<>>
    <3>1. ASSUME NEW c, NEW o, o # <<>>, r = Result(c, o) PROVE r.out # <<>>
      BY <3>1, ResultFields
    <3>2. <<unit>> # <<>> /\ <<replacement_char>> # <<>>
      OBVIOUS
    <3>. QED
      BY <2>2, <3>1, <3>2
  <2>4. \E x \in Scalar : r.out = <<x>>
    BY <1>0, <1>3, <2>3 DEF MayWrite
  <2>5. ~ decoder_partial(f, r.coder)
    BY <1>3, DecoderPartial
  <2>. QED
    BY <2>3, <2>4, <2>5
<1>. QED
  BY <1>1, <1>2, <1>3 DEF Encodings

\* A call and the end after it write something, and no more than one call may; one
\* code point where the input is well formed.
LEMMA LastCall ==
  ASSUME NEW f \in Encodings, NEW d \in Decoder(f), NEW unit \in CodeUnit(f)
  PROVE  LET r == decoder_call(f, d, unit)
             q == decoder_end_cp(f, r.coder)
             o == r.out \o q.out
         IN  /\ o # <<>> /\ MayWrite(f, o)
             /\ (f = 16 /\ ~ q.coder.well_formed) \/ \E x \in Scalar : o = <<x>>
<1>. DEFINE r == decoder_call(f, d, unit)
            q == decoder_end_cp(f, r.coder)
            o == r.out \o q.out
<1>1. r.coder \in Decoder(f) /\ MayWrite(f, r.out)
  BY DecoderDecodes DEF Decodes
<1>2. /\ ~ decoder_partial(f, r.coder) => q = Result(r.coder, <<>>)
      /\ decoder_partial(f, r.coder) => q.out = <<replacement_char>> /\ ~ q.coder.well_formed
  BY <1>1, EndIs
<1>3. replacement_char \in Scalar /\ replacement_char \in CodeUnit16
  BY ScalarMember, UnitRange DEF replacement_char
<1>4. r.out \in Seq(Scalar)
  BY <1>1, 32 \in {8, 16, 32}, EncodedLength DEF Encodings
<1>5. CASE ~ decoder_partial(f, r.coder)
  <2>1. q.out = <<>> /\ q.coder = r.coder
    BY <1>2, <1>5, ResultFields
  <2>2. o = r.out
    BY <1>4, <2>1, ConcatEmptySeq
  <2>3. r.out # <<>>
    BY <1>5, CallIs
  <2>4. (\E x \in Scalar : r.out = <<x>>) \/ (f = 16 /\ ~ r.coder.well_formed)
    BY <2>3, CallIs
  <2>. QED
    BY <1>1, <2>1, <2>2, <2>3, <2>4
<1>6. CASE decoder_partial(f, r.coder) /\ r.out = <<>>
  <2>1. o = <<replacement_char>>
    BY <1>2, <1>3, <1>6
  <2>. QED
    BY <1>3, <2>1 DEF MayWrite
<1>7. CASE decoder_partial(f, r.coder) /\ r.out # <<>>
  <2>1. f = 16 /\ r.out = <<replacement_char>> /\ q.out = <<replacement_char>>
    BY <1>2, <1>7, CallIs
  <2>2. \A x \in Nat : <<x>> \o <<x>> = <<x, x>>
    BY Chained
  <2>3. replacement_char \in Nat
    BY <1>3, ScalarIsInt
  <2>4. o = <<replacement_char, replacement_char>>
    BY <2>1, <2>2, <2>3
  <2>5. o # <<>>
    BY <2>4
  <2>6. replacement_char \in Scalar \intersect CodeUnit16
    BY <1>3
  <2>7. MayWrite(f, o)
    BY <2>1, <2>4, <2>6, Zenon DEF MayWrite
  <2>. QED
    BY <1>2, <1>7, <2>1, <2>5, <2>7
<1>. QED
  BY <1>5, <1>6, <1>7

\* Each code point takes at most longest_sequence code units, for which there is
\* room in every array.
LEMMA Longest ==
  ASSUME NEW f \in Encodings, NEW e \in Encodings
  PROVE  /\ longest_sequence(e) \in Nat /\ max_output_bytes(f, e) \in Nat
         /\ longest_sequence(e) <= max_output_bytes(f, e)
         /\ \A x \in Scalar : /\ encoded(e, <<x>>) \in Seq(EncodedUnit(e))
                              /\ Len(encoded(e, <<x>>)) <= longest_sequence(e)
<1>1. /\ longest_sequence(e) \in Nat /\ max_output_bytes(f, e) \in Nat
      /\ longest_sequence(e) <= max_output_bytes(f, e)
  BY DEF longest_sequence, max_output_bytes, Encodings
<1>2. ASSUME NEW x \in Scalar
      PROVE  encoded(e, <<x>>) \in Seq(EncodedUnit(e)) /\ Len(encoded(e, <<x>>)) <= longest_sequence(e)
  <2>1. MayWrite(8, <<x>>) /\ 8 \in Encodings
    BY DEF MayWrite, Encodings
  <2>2. encoded(e, <<x>>) = encode(e, x)
    BY <2>1, EncodedLength
  <2>3. encode(e, x) \in Seq(EncodedUnit(e)) /\ Len(encode(e, x)) <= longest_sequence(e)
    BY EncodeType
  <2>. QED
    BY <2>2, <2>3
<1>. QED
  BY <1>1, <1>2

\* How much a call of a transcoder writes.
LEMMA CallWrites ==
  ASSUME NEW f \in Encodings, NEW e \in Encodings, NEW t \in Object(f, e), NEW unit \in CodeUnit(f),
         NEW r, r = call(f, e, t, unit)
  PROVE  /\ Len(r.out) \in Nat /\ Len(r.out) <= max_output_bytes(f, e)
         /\ f # 16 \/ well_formed(f, e, r.coder) => Len(r.out) <= longest_sequence(e)
<1>1. PICK d \in Decoder(f) : t = object(f, e, d)
  BY DEF Object
<1>. DEFINE w == decoder_call(f, d, unit)
<1>2. MayWrite(f, w.out) /\ w.coder \in Decoder(f)
  BY DecoderDecodes DEF Decodes
<1>3. w.out = <<>> \/ (\E x \in Scalar : w.out = <<x>>) \/ (f = 16 /\ ~ w.coder.well_formed)
  BY CallIs
<1>4. call(f, e, t, unit) = Result(object(f, e, w.coder), encoded(e, w.out))
  BY <1>1, CallEncodes
<1>. HIDE DEF w
<1>5. r.coder = object(f, e, w.coder) /\ r.out = encoded(e, w.out)
  BY <1>4, ResultFields
<1>6. /\ encoded(e, w.out) \in Seq(EncodedUnit(e)) /\ Len(encoded(e, w.out)) <= max_output_bytes(f, e)
      /\ w.out = <<>> => encoded(e, w.out) = <<>>
  BY <1>2, EncodedLength
<1>7. well_formed(f, e, object(f, e, w.coder)) = w.coder.well_formed
  BY <1>2, ObjectObserved
<1>8. w.out = <<>> \/ (\E x \in Scalar : w.out = <<x>>)
        => Len(encoded(e, w.out)) <= longest_sequence(e)
  <2>1. CASE w.out = <<>>
    <3>1. encoded(e, w.out) = <<>> /\ longest_sequence(e) \in Nat
      BY <1>6, <2>1, Longest
    <3>. QED
      BY <3>1
  <2>2. ASSUME NEW x \in Scalar, w.out = <<x>>
        PROVE  Len(encoded(e, w.out)) <= longest_sequence(e)
    BY <2>2, Longest
  <2>. QED
    BY <2>1, <2>2
<1>9. Len(encoded(e, w.out)) \in Nat
  BY <1>6
<1>. QED
  BY <1>3, <1>5, <1>6, <1>7, <1>8, <1>9

\* And the end of the input: one code point, if any.
LEMMA EndWrites ==
  ASSUME NEW f \in Encodings, NEW e \in Encodings, NEW t \in Object(f, e)
  PROVE  LET q == end_cp(f, e, t)
         IN  /\ Len(q.out) \in Nat /\ Len(q.out) <= longest_sequence(e)
             /\ q = Result(t, <<>>) \/ ~ well_formed(f, e, q.coder)
<1>1. PICK d \in Decoder(f) : t = object(f, e, d)
  BY DEF Object
<1>. DEFINE w == decoder_end_cp(f, d)
            q == end_cp(f, e, t)
<1>2. /\ ~ decoder_partial(f, d) => w = Result(d, <<>>)
      /\ decoder_partial(f, d) => w.out = <<replacement_char>> /\ ~ w.coder.well_formed
  BY EndIs
<1>3. w.coder \in Decoder(f)
  BY DecoderDecodes DEF Decodes
<1>4. q = Result(object(f, e, w.coder), encoded(e, w.out))
  BY <1>1, EndCpEncodes
<1>. HIDE DEF w, q
<1>5. q.coder = object(f, e, w.coder) /\ q.out = encoded(e, w.out)
  BY <1>4, ResultFields
<1>6. CASE ~ decoder_partial(f, d)
  <2>1. w.coder = d /\ w.out = <<>> /\ encoded(e, <<>>) = <<>>
    BY <1>2, <1>6, ResultFields, EncodedAppend
  <2>2. q = Result(t, <<>>) /\ q.out = <<>>
    BY <1>1, <1>4, <1>5, <2>1
  <2>3. longest_sequence(e) \in Nat
    BY Longest
  <2>4. Len(q.out) \in Nat /\ Len(q.out) <= longest_sequence(e)
    BY <2>2, <2>3
  <2>. QED
    BY <2>2, <2>4 DEF q
<1>7. CASE decoder_partial(f, d)
  <2>1. w.out = <<replacement_char>> /\ ~ w.coder.well_formed /\ replacement_char \in Scalar
    BY <1>2, <1>7, ScalarMember
  <2>2. /\ encoded(e, <<replacement_char>>) \in Seq(EncodedUnit(e))
        /\ Len(encoded(e, <<replacement_char>>)) <= longest_sequence(e)
    BY <2>1, Longest
  <2>3. ~ well_formed(f, e, q.coder)
    BY <1>3, <1>5, <2>1, ObjectObserved
  <2>4. Len(q.out) \in Nat /\ Len(q.out) <= longest_sequence(e)
    BY <1>5, <2>1, <2>2
  <2>. QED
    BY <2>3, <2>4 DEF q
<1>. QED
  BY <1>6, <1>7

\* A call with the last unit and the end after it: they write something, for which
\* there is room; one code point where the input is not malformed UTF-16.
LEMMA LastWrites ==
  ASSUME NEW f \in Encodings, NEW e \in Encodings, NEW t \in Object(f, e), NEW unit \in CodeUnit(f),
         NEW r, r = call(f, e, t, unit), NEW q, q = end_cp(f, e, r.coder), NEW o, o = r.out \o q.out
  PROVE  /\ o # <<>> /\ Len(o) \in Nat /\ Len(o) <= max_output_bytes(f, e)
         /\ f # 16 \/ well_formed(f, e, q.coder) => Len(o) <= longest_sequence(e)
<1>1. PICK d \in Decoder(f) : t = object(f, e, d)
  BY DEF Object
<1>. DEFINE w == decoder_call(f, d, unit)
            z == decoder_end_cp(f, w.coder)
            both == w.out \o z.out
<1>2. w.coder \in Decoder(f) /\ MayWrite(f, w.out)
  BY DecoderDecodes DEF Decodes
<1>3. z.coder \in Decoder(f) /\ (z.out = <<>> \/ z.out = <<replacement_char>>)
  <2>1. z.coder \in Decoder(f)
    BY <1>2, DecoderDecodes DEF Decodes
  <2>2. CASE decoder_partial(f, w.coder)
    BY <1>2, <2>1, <2>2, EndIs
  <2>3. CASE ~ decoder_partial(f, w.coder)
    <3>1. z = Result(w.coder, <<>>)
      BY <1>2, <2>3, EndIs
    <3>. QED
      BY <2>1, <3>1, ResultFields
  <2>. QED
    BY <2>2, <2>3
<1>4. /\ both # <<>> /\ MayWrite(f, both)
      /\ (f = 16 /\ ~ z.coder.well_formed) \/ \E x \in Scalar : both = <<x>>
  BY LastCall
<1>5. call(f, e, t, unit) = Result(object(f, e, w.coder), encoded(e, w.out))
  BY <1>1, CallEncodes
<1>6. end_cp(f, e, object(f, e, w.coder)) = Result(object(f, e, z.coder), encoded(e, z.out))
  BY <1>2, EndCpEncodes
<1>. HIDE DEF w, z
<1>7. r.coder = object(f, e, w.coder) /\ r.out = encoded(e, w.out)
  BY <1>5, ResultFields
<1>8. q.coder = object(f, e, z.coder) /\ q.out = encoded(e, z.out)
  BY <1>6, <1>7, ResultFields
<1>9. o = encoded(e, both)
  <2>1. w.out \in Seq(Scalar) /\ encoded(e, w.out) \in Seq(EncodedUnit(e))
    BY <1>2, EncodedLength
  <2>2. CASE z.out = <<>>
    <3>1. both = w.out /\ encoded(e, z.out) = <<>>
      BY <2>1, <2>2, ConcatEmptySeq, EncodedAppend
    <3>2. encoded(e, w.out) \o <<>> = encoded(e, w.out)
      BY <2>1, ConcatEmptySeq
    <3>. QED
      BY <1>7, <1>8, <3>1, <3>2
  <2>3. CASE z.out = <<replacement_char>>
    <3>1. replacement_char \in Scalar
      BY ScalarMember
    <3>2. both = Append(w.out, replacement_char)
      BY <2>1, <2>3, <3>1, AppendIsConcat
    <3>3. encoded(e, Append(w.out, replacement_char)) = encoded(e, w.out) \o encode(e, replacement_char)
      BY <2>1, <3>1, EncodedAppend
    <3>4. encoded(e, <<replacement_char>>) = encode(e, replacement_char)
      <4>1. MayWrite(f, <<replacement_char>>)
        BY <3>1 DEF MayWrite
      <4>. QED
        BY <3>1, <4>1, EncodedLength
    <3>. QED
      BY <1>7, <1>8, <2>3, <3>2, <3>3, <3>4
  <2>. QED
    BY <1>3, <2>2, <2>3
<1>10. /\ encoded(e, both) \in Seq(EncodedUnit(e)) /\ Len(encoded(e, both)) <= max_output_bytes(f, e)
       /\ encoded(e, both) # <<>>
  <2>. HIDE DEF both
  <2>. QED
    BY <1>4, EncodedLength, EncodesSomething
<1>11. well_formed(f, e, q.coder) = z.coder.well_formed
  BY <1>3, <1>8, ObjectObserved
<1>12. ASSUME f # 16 \/ z.coder.well_formed PROVE Len(encoded(e, both)) <= longest_sequence(e)
  <2>1. PICK x \in Scalar : both = <<x>>
    BY <1>4, <1>12
  <2>. HIDE DEF both
  <2>. QED
    BY <2>1, Longest
<1>13. Len(encoded(e, both)) \in Nat
  BY <1>10
<1>. HIDE DEF both
<1>. QED
  BY <1>9, <1>10, <1>11, <1>12, <1>13

-----------------------------------------------------------------------------
(***************************************************************************)
(* Bytes converted by hand: the byte order mark, and what follows it.      *)
(***************************************************************************)
\* After each byte either the mark may go on or what follows it is converted.
LEMMA BytesFed ==
  ASSUME NEW e \in Encodings, NEW u \in Seq(Byte)
  PROVE  LET r == fed(std_byte, e, u)
         IN  Waits(u, r.coder, r.out) \/ Converts(e, u, r.coder, r.out)
<1>. DEFINE so_far(w) == \/ Waits(w, fed(std_byte, e, w).coder, fed(std_byte, e, w).out)
                         \/ Converts(e, w, fed(std_byte, e, w).coder, fed(std_byte, e, w).out)
            S == {w \in Seq(Byte) : so_far(w)}
<1>1. <<>> \in S
  <2>1. fed(std_byte, e, <<>>) = Result(byte_transcoder, <<>>)
    BY FedNothing DEF any_transcoder
  <2>2. fed(std_byte, e, <<>>).coder = byte_transcoder /\ fed(std_byte, e, <<>>).out = <<>>
    BY <2>1, ResultFields
  <2>3. <<>> \in Seq(Byte)
    OBVIOUS
  <2>. QED
    BY <2>2, <2>3, InitiallyWaits
<1>2. ASSUME NEW w \in Seq(Byte), NEW b \in Byte, w \in S PROVE Append(w, b) \in S
  <2>. DEFINE a == fed(std_byte, e, w)
              r == byte_call(e, a.coder, b)
              z == fed(std_byte, e, Append(w, b))
  <2>1. z = then(a, r)
    BY FedAppend DEF any_call
  <2>2. z.coder = r.coder /\ z.out = a.out \o r.out
    <3>. HIDE DEF z, a, r
    <3>. QED
      BY <2>1, ResultFields DEF then
  <2>3. Append(w, b) \in Seq(Byte)
    OBVIOUS
  <2>4. CASE Waits(w, a.coder, a.out)
    <3>1. a.out = <<>> /\ Waits(w, a.coder, <<>>)
      BY <2>4 DEF Waits
    <3>2. Waits(Append(w, b), r.coder, r.out) \/ Converts(e, Append(w, b), r.coder, r.out)
      <4>. HIDE DEF a
      <4>. QED
        BY <3>1, WaitingStep
    <3>3. CASE Waits(Append(w, b), r.coder, r.out)
      <4>1. r.out = <<>> /\ <<>> \o <<>> = <<>>
        BY <3>3 DEF Waits
      <4>2. z.coder = r.coder /\ z.out = r.out
        BY <2>2, <3>1, <4>1
      <4>. HIDE DEF z, r
      <4>. QED
        BY <2>3, <3>3, <4>2 DEF z
    <3>4. CASE Converts(e, Append(w, b), r.coder, r.out)
      <4>1. PICK s \in Selections, body \in Seq(Byte) : RunsOn(e, s, body, r.coder, r.out)
        <5>. HIDE DEF r
        <5>. QED
          BY <2>3, <3>4, AfterMark DEF Converts
      <4>2. <<>> \o r.out = r.out
        <5>. HIDE DEF r
        <5>. QED
          BY <4>1, NothingBefore
      <4>3. z.coder = r.coder /\ z.out = r.out
        BY <2>2, <3>1, <4>2
      <4>. HIDE DEF z, r
      <4>. QED
        BY <2>3, <3>4, <4>3 DEF z
    <3>. QED
      BY <3>2, <3>3, <3>4
  <2>5. CASE Converts(e, w, a.coder, a.out)
    <3>1. Converts(e, Append(w, b), r.coder, a.out \o r.out)
      <4>. HIDE DEF a
      <4>. QED
        BY <2>5, ConvertsStep
    <3>. HIDE DEF z, r, a
    <3>. QED
      BY <2>2, <2>3, <3>1 DEF z
  <2>. QED
    BY <1>2, <2>4, <2>5
<1>. HIDE DEF S
<1>3. u \in S
  BY <1>1, <1>2, Feeding!SequenceInduction
<1>. QED
  BY <1>3 DEF S

\* At the end of the bytes a transcoder of an encoding has been told of the end.
LEMMA BytesEnd ==
  ASSUME NEW e \in Encodings, NEW u \in Seq(Byte)
  PROVE  \E s \in Selections : \E body \in Seq(Byte) :
           /\ HasEnded(e, s, body, fed_all(std_byte, e, u).coder, fed_all(std_byte, e, u).out)
           /\ u = <<>> => s = utf8_selected /\ body = <<>>
<1>. DEFINE a == fed(std_byte, e, u)
            r == byte_end_cp(e, a.coder)
            z == fed_all(std_byte, e, u)
<1>1. z = then(a, r)
  BY DEF fed_all, ended_by_hand, any_end_cp
<1>2. z.coder = r.coder /\ z.out = a.out \o r.out
  <2>. HIDE DEF z, a, r
  <2>. QED
    BY <1>1, ResultFields DEF then
<1>3. CASE Waits(u, a.coder, a.out)
  <2>1. a.out = <<>> /\ Waits(u, a.coder, <<>>)
    BY <1>3 DEF Waits
  <2>2. HasEnded(e, utf8_selected, as_utf8(u), r.coder, r.out)
    <3>. HIDE DEF a
    <3>. QED
      BY <2>1, EndsWaiting
  <2>3. utf8_selected \in Selections
    BY SelectionsAre DEF utf8_selected
  <2>4. as_utf8(u) \in Seq(Byte) /\ (u = <<>> => as_utf8(u) = <<>>)
    <3>1. 0 \in Byte
      BY ByteRange
    <3>2. <<>> \in Seq(Byte) /\ Append(u, 0) \in Seq(Byte)
      BY <3>1
    <3>. QED
      BY <3>2 DEF as_utf8
  <2>5. <<>> \o r.out = r.out
    <3>. HIDE DEF r
    <3>. QED
      BY <2>2, <2>3, <2>4, NothingBefore
  <2>6. z.coder = r.coder /\ z.out = r.out
    BY <1>2, <2>1, <2>5
  <2>. HIDE DEF z, r, a
  <2>. QED
    BY <2>2, <2>3, <2>4, <2>6 DEF z
<1>4. CASE Converts(e, u, a.coder, a.out)
  <2>. DEFINE s == selected_for(u)
              body == after_mark(s, u)
  <2>1. ~ Undecided(u) /\ s \in Selections /\ RunsOn(e, s, body, a.coder, a.out)
    BY <1>4 DEF Converts
  <2>2. body \in Seq(Byte)
    <3>1. 0 \in Byte
      BY ByteRange
    <3>. QED
      BY <2>1, <3>1, AfterMark
  <2>. HIDE DEF s, body
  <2>3. HasEnded(e, s, body, r.coder, a.out \o r.out)
    <3>. HIDE DEF a
    <3>. QED
      BY <2>1, <2>2, EndsRunning
  <2>4. u # <<>>
    <3>1. Undecided(<<>>)
      BY InitiallyWaits DEF Waits
    <3>. QED
      BY <2>1, <3>1
  <2>. HIDE DEF z, r, a
  <2>. QED
    BY <1>2, <2>1, <2>2, <2>3, <2>4 DEF z
<1>. QED
  BY <1>3, <1>4, BytesFed

\* A transcoder that is told of the end once more has nothing new to report, and
\* writes one code point at most.
LEMMA EndsOnce ==
  ASSUME NEW f \in Encodings, NEW e \in Encodings, NEW u \in Seq(CodeUnit(f))
  PROVE  LET t == fed_all(f, e, u).coder
             q == end_cp(f, e, t)
         IN  /\ t \in Object(f, e) /\ well_formed(f, e, t) \in BOOLEAN
             /\ well_formed(f, e, q.coder) <=> well_formed(f, e, t)
             /\ Len(q.out) \in Nat /\ Len(q.out) <= longest_sequence(e)
<1>. DEFINE c == fed(f, e, u).coder
            t == fed_all(f, e, u).coder
            p == end_cp(f, e, c)
            q == end_cp(f, e, t)
<1>0. f # std_byte
  BY DEF Encodings, std_byte
<1>1. c \in Object(f, e)
  BY FedReturned DEF Returned
<1>2. t = p.coder
  <2>1. fed_all(f, e, u) = then(fed(f, e, u), p)
    BY <1>0 DEF fed_all, ended_by_hand, any_end_cp
  <2>. HIDE DEF p
  <2>. QED
    BY <2>1, ResultFields DEF then
<1>3. p = Result(c, <<>>) \/ ~ well_formed(f, e, p.coder)
  BY <1>1, EndWrites
<1>4. t \in Object(f, e)
  <2>1. Returned(Object(f, e), e, p)
    BY <1>1, CallReturned
  <2>. QED
    BY <1>2, <2>1 DEF Returned
<1>. HIDE DEF c
<1>5. /\ well_formed(f, e, t) \in BOOLEAN
      /\ well_formed(f, e, q.coder) => well_formed(f, e, t)
      /\ Len(q.out) \in Nat /\ Len(q.out) <= longest_sequence(e)
  <2>. HIDE DEF t
  <2>. QED
    BY <1>4, CallKnows, EndWrites
<1>6. CASE p = Result(c, <<>>)
  <2>1. t = c
    <3>. HIDE DEF t, p
    <3>. QED
      BY <1>2, <1>6, ResultFields
  <2>2. q = p
    BY <2>1
  <2>3. q.coder = t
    BY <1>2, <2>2
  <2>. HIDE DEF t, p, q
  <2>4. well_formed(f, e, q.coder) <=> well_formed(f, e, t)
    BY <2>3
  <2>. QED
    BY <1>4, <1>5, <2>4 DEF t, q
<1>7. CASE ~ well_formed(f, e, p.coder)
  <2>1. ~ well_formed(f, e, t)
    BY <1>2, <1>7
  <2>. HIDE DEF t, p, q
  <2>2. well_formed(f, e, q.coder) <=> well_formed(f, e, t)
    BY <1>5, <2>1
  <2>. QED
    BY <1>4, <1>5, <2>2 DEF t, q
<1>. QED
  BY <1>3, <1>6, <1>7

\* The same of every transcoder there is.
LEMMA EndTwice ==
  ASSUME NEW f \in InputTypes, NEW e \in Encodings, NEW u \in Seq(AnyUnit(f))
  PROVE  LET t == fed_all(f, e, u).coder
             q == any_end_cp(f, e, t)
         IN  /\ any_well_formed(f, e, q.coder) <=> any_well_formed(f, e, t)
             /\ Len(q.out) \in Nat /\ Len(q.out) <= longest_sequence(e)
<1>. DEFINE t == fed_all(f, e, u).coder
            q == any_end_cp(f, e, t)
<1>1. CASE f # std_byte
  <2>1. f \in Encodings /\ u \in Seq(CodeUnit(f))
    BY <1>1 DEF InputTypes, AnyUnit
  <2>2. q = end_cp(f, e, t)
    BY <1>1 DEF any_end_cp
  <2>3. /\ well_formed(f, e, end_cp(f, e, t).coder) <=> well_formed(f, e, t)
        /\ Len(end_cp(f, e, t).out) \in Nat /\ Len(end_cp(f, e, t).out) <= longest_sequence(e)
    BY <2>1, EndsOnce
  <2>. HIDE DEF t, q
  <2>. QED
    BY <1>1, <2>2, <2>3 DEF any_well_formed, t, q
<1>2. CASE f = std_byte
  <2>1. u \in Seq(Byte)
    BY <1>2 DEF AnyUnit
  <2>2. PICK s \in Selections, body \in Seq(Byte) : HasEnded(e, s, body, t, fed_all(f, e, u).out)
    BY <1>2, <2>1, BytesEnd
  <2>. DEFINE k == s.encoding
              units == units_of(s, body)
              c == fed_all(k, e, units).coder
              p == end_cp(k, e, c)
              n == run_state(s, body)
  <2>3. k \in Encodings /\ units \in Seq(CodeUnit(k))
    BY SelectionFields, UnitsOfType
  <2>4. PICK buffer \in Buffer : t = running(n, buffer, c)
    BY <2>2 DEF HasEnded, RunsWith
  <2>5. n \in RunStates /\ n.encoding = k
    BY RunStateIs
  <2>6. /\ c \in Object(k, e) /\ well_formed(k, e, c) \in BOOLEAN
        /\ well_formed(k, e, p.coder) <=> well_formed(k, e, c)
        /\ Len(p.out) \in Nat /\ Len(p.out) <= longest_sequence(e)
    <3>. HIDE DEF k, units
    <3>. QED
      BY <2>3, EndsOnce
  <2>. HIDE DEF k, units, c, n, t
  <2>7. q = Result(running(n, buffer, p.coder), p.out)
    BY <1>2, <2>4, <2>5, EndOfStream DEF any_end_cp
  <2>. HIDE DEF p, q
  <2>8. q.coder = running(n, buffer, p.coder) /\ q.out = p.out
    BY <2>7, ResultFields
  <2>9. byte_well_formed(e, q.coder) = (TRUE => well_formed(k, e, p.coder))
    BY <2>5, <2>8, ByteKnows
  <2>10. byte_well_formed(e, t) = (TRUE => well_formed(k, e, c))
    BY <2>4, <2>5, ByteKnows
  <2>11. any_well_formed(f, e, q.coder) <=> any_well_formed(f, e, t)
    BY <1>2, <2>6, <2>9, <2>10 DEF any_well_formed
  <2>. QED
    BY <2>6, <2>8, <2>11 DEF t, q
<1>. QED
  BY <1>1, <1>2

\* No text at all is well formed, and nothing is written for it.
LEMMA EndOfNothing ==
  ASSUME NEW f \in InputTypes, NEW e \in Encodings
  PROVE  /\ fed_all(f, e, <<>>).out = <<>>
         /\ any_well_formed(f, e, fed_all(f, e, <<>>).coder)
<1>1. ASSUME NEW g \in Encodings
      PROVE  /\ fed_all(g, e, <<>>).out = <<>> /\ fed_all(g, e, <<>>).coder = transcoder(g, e)
             /\ well_formed(g, e, fed_all(g, e, <<>>).coder)
  <2>. DEFINE d == decoder(g)
              t == transcoder(g, e)
              q == end_cp(g, e, t)
  <2>0. g # std_byte
    BY DEF Encodings, std_byte
  <2>1. t = object(g, e, d) /\ d \in Decoder(g) /\ d.well_formed
    BY ConstructedObject
  <2>2. ~ decoder_partial(g, d)
    BY ConstructedObject
  <2>3. decoder_end_cp(g, d) = Result(d, <<>>)
    BY <2>1, <2>2, EndIs
  <2>4. decoder_end_cp(g, d).coder = d /\ decoder_end_cp(g, d).out = <<>>
    BY <2>3, ResultFields
  <2>5. q = Result(object(g, e, decoder_end_cp(g, d).coder), encoded(e, decoder_end_cp(g, d).out))
    BY <2>1, EndCpEncodes
  <2>6. encoded(e, <<>>) = <<>>
    BY EncodedAppend
  <2>7. q = Result(t, <<>>)
    BY <2>1, <2>4, <2>5, <2>6
  <2>8. fed(g, e, <<>>) = Result(t, <<>>)
    BY <2>0, FedNothing DEF any_transcoder
  <2>9. fed(g, e, <<>>).coder = t /\ fed(g, e, <<>>).out = <<>>
    BY <2>8, ResultFields
  <2>10. fed_all(g, e, <<>>) = then(fed(g, e, <<>>), q)
    BY <2>0, <2>9 DEF fed_all, ended_by_hand, any_end_cp
  <2>11. q.coder = t /\ q.out = <<>>
    BY <2>7, ResultFields
  <2>. HIDE DEF q, t, d
  <2>12. fed_all(g, e, <<>>).coder = t /\ fed_all(g, e, <<>>).out = <<>> \o <<>>
    BY <2>9, <2>10, <2>11, ResultFields DEF then
  <2>13. well_formed(g, e, t) = d.well_formed
    BY <2>1, ObjectObserved
  <2>14. <<>> \o <<>> = <<>>
    OBVIOUS
  <2>15. well_formed(g, e, fed_all(g, e, <<>>).coder)
    BY <2>1, <2>12, <2>13
  <2>. QED
    BY <2>12, <2>14, <2>15 DEF t
<1>2. CASE f # std_byte
  <2>1. f \in Encodings
    BY <1>2 DEF InputTypes
  <2>. QED
    BY <1>1, <1>2, <2>1 DEF any_well_formed
<1>3. CASE f = std_byte
  <2>. DEFINE z == fed_all(f, e, <<>>)
              c == fed_all(8, e, <<>>)
              s == utf8_selected
  <2>1. <<>> \in Seq(Byte)
    OBVIOUS
  <2>2. HasEnded(e, s, <<>>, z.coder, z.out)
    BY <1>3, <2>1, BytesEnd
  <2>3. s \in Selections /\ s.encoding = 8
    BY SelectionsAre DEF utf8_selected
  <2>4. units_of(s, <<>>) = <<>>
    BY <2>1, UnitsOfUtf8
  <2>5. PICK buffer \in Buffer : /\ z.coder = running(run_state(s, <<>>), buffer, c.coder)
                                 /\ z.out = c.out
    BY <2>2, <2>3, <2>4 DEF HasEnded, RunsWith
  <2>6. run_state(s, <<>>) \in RunStates /\ run_state(s, <<>>).encoding = 8
    BY <2>1, <2>3, RunStateIs
  <2>7. c.out = <<>> /\ well_formed(8, e, c.coder)
    BY <1>1 DEF Encodings
  <2>. HIDE DEF c, z, s
  <2>8. byte_well_formed(e, z.coder) = (TRUE => well_formed(8, e, c.coder))
    BY <2>5, <2>6, ByteKnows
  <2>9. any_well_formed(f, e, z.coder)
    BY <1>3, <2>7, <2>8 DEF any_well_formed
  <2>. QED
    BY <2>5, <2>7, <2>9 DEF z
<1>. QED
  BY <1>2, <1>3

-----------------------------------------------------------------------------
(***************************************************************************)
(* fill.  What the view is made of is given by SourcesAssumption.          *)
(***************************************************************************)
Source == from \in InputTypes /\ to \in Encodings /\ base \in Seq(AnyUnit(from)) /\ single_pass \in BOOLEAN

\* The calls that fill may make when m units have been consumed.
called(coder, m) ==
  [n \in 0 .. Len(base) - m |-> IF n = 0 THEN Result(coder, <<>>) ELSE nth_call(from, to, base, m + n)]

\* What after_units defines.
Unfolded(after, coder, next) ==
  after = [n \in 0 .. end - next |->
             IF n = 0 THEN Result(coder, <<>>)
             ELSE any_call(from, to, after[n - 1].coder, base[next + n - 1])]

\* Each call goes on from where a conversion by hand of the units before it is.
LEMMA CalledCoder ==
  ASSUME Source, NEW m \in 0 .. Len(base), NEW coder, coder = upto(from, to, base, m).coder,
         NEW n \in 1 .. Len(base) - m
  PROVE  any_call(from, to, called(coder, m)[n - 1].coder, base[m + n])
           = nth_call(from, to, base, m + n)
<1>. DEFINE k == m + n
            F(i) == upto(from, to, base, i)
<1>1. k \in 1 .. Len(base) /\ n - 1 \in 0 .. Len(base) - m
  OBVIOUS
<1>2. called(coder, m)[n - 1].coder = F(k - 1).coder
  <2>1. CASE n = 1
    <3>1. called(coder, m)[n - 1] = Result(coder, <<>>) /\ k - 1 = m
      BY <1>1, <2>1 DEF called
    <3>2. Result(coder, <<>>).coder = coder
      BY ResultFields
    <3>. QED
      BY <3>1, <3>2
  <2>2. CASE n # 1
    <3>. DEFINE r == nth_call(from, to, base, k - 1)
    <3>1. n - 1 # 0 /\ m + (n - 1) = k - 1 /\ k - 1 \in 1 .. Len(base)
      BY <2>2
    <3>2. called(coder, m)[n - 1] = r
      BY <1>1, <3>1 DEF called
    <3>3. F(k - 1) = then(F((k - 1) - 1), r)
      <4>. HIDE DEF k
      <4>. QED
        BY <3>1, UptoNext DEF Source
    <3>4. F(k - 1).coder = r.coder
      <4>. HIDE DEF r, F, k
      <4>. QED
        BY <3>3, ResultFields DEF then
    <3>. QED
      BY <3>2, <3>4
  <2>. QED
    BY <2>1, <2>2
<1>. QED
  BY <1>2 DEF nth_call

\* And so these are the calls, each being a definite one.
LEMMA Unfolds ==
  ASSUME Source, NEW m \in 0 .. Len(base), NEW coder,
         m # Len(base) => coder = upto(from, to, base, m).coder
  PROVE  after_units(coder, m + 1) = called(coder, m)
<1>. DEFINE K == Len(base) - m
            g == called(coder, m)
<1>0. /\ Len(base) \in Nat /\ end - (m + 1) = K /\ K \in Nat
      /\ \A n \in 0 .. K : (m + 1) + n - 1 = m + n
  BY DEF Source, end
<1>1. \A n \in 0 .. K :
        g[n] = IF n = 0 THEN Result(coder, <<>>) ELSE any_call(from, to, g[n - 1].coder, base[m + n])
  <2>1. ASSUME NEW n \in 0 .. K, n # 0
        PROVE  g[n] = any_call(from, to, g[n - 1].coder, base[m + n])
    <3>1. n \in 1 .. K /\ m # Len(base)
      BY <2>1
    <3>2. any_call(from, to, g[n - 1].coder, base[m + n]) = nth_call(from, to, base, m + n)
      BY <3>1, CalledCoder
    <3>3. g[n] = nth_call(from, to, base, m + n)
      BY <2>1 DEF called
    <3>. QED
      BY <3>2, <3>3
  <2>2. g[0] = Result(coder, <<>>)
    BY <1>0 DEF called
  <2>. QED
    BY <2>1, <2>2
<1>2. Unfolded(g, coder, m + 1)
  <2>1. g = [n \in 0 .. K |-> g[n]]
    BY DEF called
  <2>. HIDE DEF g, K
  <2>. QED
    BY <1>0, <1>1, <2>1 DEF Unfolded
<1>3. ASSUME NEW h, Unfolded(h, coder, m + 1) PROVE h = g
  <2>. DEFINE S == {n \in Nat : n <= K => h[n] = g[n]}
  <2>. HIDE DEF g
  <2>1. /\ h = [n \in 0 .. K |-> h[n]]
        /\ \A n \in 0 .. K : h[n] = IF n = 0 THEN Result(coder, <<>>)
                                    ELSE any_call(from, to, h[n - 1].coder, base[m + n])
    <3>. HIDE DEF K
    <3>. QED
      BY <1>0, <1>3 DEF Unfolded
  <2>2. 0 \in S
    <3>1. 0 \in 0 .. K
      BY <1>0
    <3>2. h[0] = g[0]
      <4>. HIDE DEF K
      <4>. QED
        BY <1>1, <2>1, <3>1
    <3>. QED
      BY <3>2
  <2>3. ASSUME NEW n \in Nat, n \in S PROVE n + 1 \in S
    <3>1. ASSUME n + 1 <= K PROVE h[n + 1] = g[n + 1]
      <4>1. n + 1 \in 0 .. K /\ n + 1 # 0 /\ (n + 1) - 1 = n /\ n <= K
        BY <1>0, <3>1
      <4>2. h[n] = g[n]
        BY <2>3, <4>1
      <4>. HIDE DEF K
      <4>3. h[n + 1] = any_call(from, to, h[n].coder, base[m + (n + 1)])
        BY <2>1, <4>1
      <4>4. g[n + 1] = any_call(from, to, g[n].coder, base[m + (n + 1)])
        BY <1>1, <4>1
      <4>. QED
        BY <4>2, <4>3, <4>4
    <3>. QED
      BY <3>1
  <2>4. \A n \in Nat : n \in S
    <3>. HIDE DEF S
    <3>. QED
      BY <2>2, <2>3, Feeding!SetInduction
  <2>5. \A n \in 0 .. K : h[n] = g[n]
    BY <1>0, <2>4
  <2>6. g = [n \in 0 .. K |-> g[n]]
    BY DEF g, called
  <2>. HIDE DEF K
  <2>. QED
    BY <2>1, <2>5, <2>6
<1>4. after_units(coder, m + 1) = CHOOSE h : Unfolded(h, coder, m + 1)
  BY DEF after_units, Unfolded
<1>5. after_units(coder, m + 1) = g
  <2>. HIDE DEF g
  <2>. QED
    BY <1>2, <1>3, <1>4
<1>. QED
  BY <1>5

\* The least of a set of numbers.
LEMMA LeastOf ==
  ASSUME NEW T \in SUBSET Nat, T # {}
  PROVE  Min(T) \in T /\ \A k \in T : Min(T) <= k
  BY Feeding!LeastNatural DEF Min

\* fill stops at the first call that writes something, or else at the last.
LEMMA Enough ==
  ASSUME Source, NEW m \in 0 .. Len(base), NEW coder
  PROVE  LET n == enough(called(coder, m))
             K == Len(base) - m
         IN  /\ n \in 0 .. K /\ (K # 0 => n # 0)
             /\ \A k \in 1 .. n - 1 : nth_call(from, to, base, m + k).out = <<>>
             /\ n = K \/ nth_call(from, to, base, m + n).out # <<>>
<1>. DEFINE K == Len(base) - m
            g == called(coder, m)
            T == {k \in 0 .. K : g[k].out # <<>>}
            n == Min(T \union {K})
<1>1. K \in Nat /\ DOMAIN g = 0 .. K
  BY DEF Source, called
<1>2. Cardinality(0 .. K) = K + 1
  BY <1>1, FS_Interval
<1>3. enough(g) = n
  <2>1. K + 1 - 1 = K
    BY <1>1
  <2>. HIDE DEF K, g
  <2>. QED
    BY <1>1, <1>2, <2>1 DEF enough
<1>4. n \in T \union {K} /\ \A k \in T \union {K} : n <= k
  <2>1. T \union {K} \in SUBSET Nat /\ T \union {K} # {}
    BY <1>1
  <2>. HIDE DEF T, K
  <2>. QED
    BY <2>1, LeastOf
<1>5. g[0].out = <<>>
  <2>1. g[0] = Result(coder, <<>>)
    BY <1>1 DEF called
  <2>. QED
    BY <2>1, ResultFields
<1>6. \A k \in 1 .. K : g[k] = nth_call(from, to, base, m + k)
  BY DEF called
<1>. HIDE DEF g, n, K
<1>7. n \in 0 .. K /\ (K # 0 => n # 0)
  BY <1>1, <1>4, <1>5
<1>8. \A k \in 1 .. n - 1 : g[k].out = <<>>
  <2>1. ASSUME NEW k \in 1 .. n - 1, g[k].out # <<>> PROVE FALSE
    <3>1. k \in 0 .. K /\ ~ (n <= k)
      BY <1>1, <1>7
    <3>2. k \in T
      BY <2>1, <3>1
    <3>. QED
      BY <1>4, <3>1, <3>2
  <2>. QED
    BY <2>1
<1>9. n = K \/ g[n].out # <<>>
  BY <1>4
<1>10. \A k \in 1 .. n - 1 : nth_call(from, to, base, m + k).out = <<>>
  <2>1. ASSUME NEW k \in 1 .. n - 1 PROVE nth_call(from, to, base, m + k).out = <<>>
    <3>1. k \in 1 .. K
      BY <1>1, <1>7
    <3>. QED
      BY <1>6, <1>8, <3>1
  <2>. QED
    BY <2>1
<1>11. n = K \/ nth_call(from, to, base, m + n).out # <<>>
  BY <1>1, <1>6, <1>7, <1>9
<1>. QED
  BY <1>3, <1>7, <1>10, <1>11 DEF g, K

\* While calls write nothing, a conversion by hand has written no more.
LEMMA Silent ==
  ASSUME NEW f \in InputTypes, NEW e \in Encodings, NEW u \in Seq(AnyUnit(f)),
         NEW m \in 0 .. Len(u), NEW n \in m .. Len(u),
         \A k \in m + 1 .. n : nth_call(f, e, u, k).out = <<>>
  PROVE  \A k \in m .. n : upto(f, e, u, k).out = upto(f, e, u, m).out
<1>. DEFINE F(k) == upto(f, e, u, k)
            S == {k \in Nat : m + k <= n => F(m + k).out = F(m).out}
<1>0. m \in Nat /\ n \in Nat /\ n <= Len(u) /\ Len(u) \in Nat
  OBVIOUS
<1>1. 0 \in S
  <2>1. m + 0 = m
    BY <1>0
  <2>. QED
    BY <2>1
<1>2. ASSUME NEW k \in Nat, k \in S PROVE k + 1 \in S
  <2>1. ASSUME m + (k + 1) <= n PROVE F(m + (k + 1)).out = F(m).out
    <3>. DEFINE j == m + (k + 1)
                r == nth_call(f, e, u, j)
    <3>1. j \in 1 .. Len(u) /\ j \in m + 1 .. n /\ j - 1 = m + k /\ m + k <= n /\ j - 1 \in 0 .. Len(u)
      BY <1>0, <2>1
    <3>. HIDE DEF j
    <3>2. F(j) = then(F(j - 1), r)
      BY <3>1, UptoNext
    <3>3. r.out = <<>> /\ F(j - 1).out \in Seq(EncodedUnit(e))
      BY <3>1, UptoReturned DEF Returned
    <3>4. F(j - 1).out = F(m).out
      BY <1>2, <3>1
    <3>. HIDE DEF r, F
    <3>5. F(j).out = F(j - 1).out \o <<>>
      BY <3>2, <3>3, ResultFields DEF then
    <3>6. F(j - 1).out \o <<>> = F(j - 1).out
      BY <3>3, ConcatEmptySeq
    <3>. QED
      BY <3>4, <3>5, <3>6 DEF j
  <2>. QED
    BY <2>1
<1>3. \A k \in Nat : k \in S
  <2>. HIDE DEF S
  <2>. QED
    BY <1>1, <1>2, Feeding!SetInduction
<1>4. ASSUME NEW k \in m .. n PROVE F(k).out = F(m).out
  <2>1. k - m \in Nat /\ m + (k - m) = k /\ k <= n
    BY <1>0
  <2>2. k - m \in S
    BY <1>3, <2>1
  <2>. HIDE DEF F
  <2>. QED
    BY <2>1, <2>2
<1>. QED
  BY <1>4

-----------------------------------------------------------------------------
(***************************************************************************)
(* Iterators.  An iterator by its fields:                                  *)
(***************************************************************************)
iterator(parent, current, next, coder, out, first) ==
  [parent |-> parent, current |-> current, next |-> next, coder |-> coder, out |-> out, first |-> first]

\* An iterator has the fields it was made of.
LEMMA IteratorFields ==
  ASSUME NEW v, NEW c, NEW p, NEW t, NEW o, NEW k
  PROVE  LET s == iterator(v, c, p, t, o, k)
         IN  /\ s.parent = v /\ s.current = c /\ s.next = p
             /\ s.coder = t /\ s.out = o /\ s.first = k
  BY DEF iterator

\* What refilling an iterator changes.
LEMMA IteratorRefilled ==
  ASSUME NEW v, NEW c, NEW p, NEW t, NEW o, NEW k, NEW n, NEW r
  PROVE  refilled(n, iterator(v, c, p, t, o, k), r) = iterator(v, p, p + n, r.coder, r.out, 0)
<1>. DEFINE s == iterator(v, c, p, t, o, k)
<1>1. refilled(n, s, r) = [s EXCEPT !.current = p, !.next = p + n,
                                    !.coder = r.coder, !.out = r.out, !.first = 0]
  <2>1. s.next = p
    BY IteratorFields
  <2>. HIDE DEF s
  <2>. QED
    BY <2>1 DEF refilled, position_after
<1>. QED
  BY <1>1 DEF iterator

\* And what moving on in its array does.
LEMMA IteratorIncremented ==
  ASSUME NEW v, NEW c, NEW p, NEW t, NEW o, NEW k
  PROVE  incremented(iterator(v, c, p, t, o, k))
           = IF k + 1 = Len(o) THEN fill(iterator(v, c, p, t, o, k + 1))
             ELSE iterator(v, c, p, t, o, k + 1)
<1>. DEFINE s == iterator(v, c, p, t, o, k)
<1>1. [s EXCEPT !.first = @ + 1] = iterator(v, c, p, t, o, k + 1)
  BY DEF iterator
<1>2. empty(iterator(v, c, p, t, o, k + 1)) <=> k + 1 = Len(o)
  BY IteratorFields DEF empty
<1>3. incremented(s) = IF k + 1 = Len(o) THEN fill(iterator(v, c, p, t, o, k + 1))
                       ELSE iterator(v, c, p, t, o, k + 1)
  <2>. HIDE DEF s
  <2>. QED
    BY <1>1, <1>2 DEF incremented
<1>. QED
  BY <1>3

\* The conversion by hand of the first n units: of all, told of their end.
converted_to(f, e, u, n) == IF n = Len(u) THEN fed_all(f, e, u) ELSE upto(f, e, u, n)

\* What fill finds in the array after the call with the n-th unit.
array_after(f, e, u, n) ==
  IF n = Len(u) THEN nth_call(f, e, u, n).out \o any_end_cp(f, e, upto(f, e, u, n).coder).out
  ELSE nth_call(f, e, u, n).out

\* fill makes x of iterator v that has consumed m units: it consumes up to the n-th.
Fills(f, e, u, v, m, n, x) ==
  LET w == converted_to(f, e, u, n)
      o == array_after(f, e, u, n)
  IN  /\ n \in m + 1 .. Len(u)
      /\ x = iterator(v, m + 1, n + 1, w.coder, o, 0)
      /\ o \in Seq(EncodedUnit(e)) /\ w.out = upto(f, e, u, m).out \o o
      /\ \A k \in m .. n - 1 : upto(f, e, u, k).out = upto(f, e, u, m).out
      /\ n # Len(u) => o # <<>>

\* The n-th unit, and the end after the last, add to what has been written.
LEMMA ArrayAfter ==
  ASSUME NEW f \in InputTypes, NEW e \in Encodings, NEW u \in Seq(AnyUnit(f)), NEW n \in 1 .. Len(u)
  PROVE  /\ array_after(f, e, u, n) \in Seq(EncodedUnit(e))
         /\ converted_to(f, e, u, n).out = upto(f, e, u, n - 1).out \o array_after(f, e, u, n)
         /\ nth_call(f, e, u, n).coder = upto(f, e, u, n).coder
<1>. DEFINE T == EncodedUnit(e)
            a == upto(f, e, u, n - 1)
            b == upto(f, e, u, n)
            r == nth_call(f, e, u, n)
            q == any_end_cp(f, e, b.coder)
            z == fed_all(f, e, u)
<1>1. n - 1 \in 0 .. Len(u) /\ n \in 0 .. Len(u)
  OBVIOUS
<1>2. a.out \in Seq(T) /\ b.out \in Seq(T) /\ r.out \in Seq(T) /\ q.out \in Seq(T)
  BY <1>1, UptoReturned, NthReturned DEF Returned
<1>3. b = then(a, r)
  BY UptoNext
<1>4. n = Len(u) => z = then(b, q)
  BY UptoEnds DEF ended_by_hand
<1>. HIDE DEF a, r, q
<1>5. b.coder = r.coder /\ b.out = a.out \o r.out
  <2>. HIDE DEF b
  <2>. QED
    BY <1>3, ResultFields DEF then
<1>. HIDE DEF b, z, T
<1>6. n = Len(u) => z.out = b.out \o q.out
  <2>1. then(b, q).out = b.out \o q.out
    BY ResultFields DEF then
  <2>. QED
    BY <1>4, <2>1
<1>7. (a.out \o r.out) \o q.out = a.out \o (r.out \o q.out) /\ r.out \o q.out \in Seq(T)
  <2>1. \A x, y, w \in Seq(T) : (x \o y) \o w = x \o (y \o w) /\ y \o w \in Seq(T)
    BY Associative
  <2>. QED
    BY <1>2, <2>1
<1>8. CASE n = Len(u)
  <2>1. converted_to(f, e, u, n) = z /\ array_after(f, e, u, n) = r.out \o q.out
    BY <1>8 DEF converted_to, array_after, z, r, q, b
  <2>. QED
    BY <1>5, <1>6, <1>7, <1>8, <2>1 DEF T, a, b, r
<1>9. CASE n # Len(u)
  <2>1. converted_to(f, e, u, n) = b /\ array_after(f, e, u, n) = r.out
    BY <1>9 DEF converted_to, array_after, r, b
  <2>. QED
    BY <1>2, <1>5, <2>1 DEF T, a, b, r
<1>. QED
  BY <1>8, <1>9

\* What fill has at hand after the n-th unit is that conversion.
LEMMA AtLastUnit ==
  ASSUME Source, NEW n \in 1 .. Len(base)
  PROVE  LET r == nth_call(from, to, base, n)
             w == IF n = Len(base) THEN with_end_cp(r) ELSE r
         IN  /\ w.coder = converted_to(from, to, base, n).coder
             /\ w.out = array_after(from, to, base, n)
<1>. DEFINE r == nth_call(from, to, base, n)
            b == upto(from, to, base, n)
            q == any_end_cp(from, to, b.coder)
            z == fed_all(from, to, base)
<1>1. r.coder = b.coder
  BY ArrayAfter DEF Source
<1>2. with_end_cp(r) = then(r, q)
  BY <1>1 DEF with_end_cp
<1>. HIDE DEF r, q, b
<1>3. with_end_cp(r).coder = q.coder /\ with_end_cp(r).out = r.out \o q.out
  <2>1. then(r, q).coder = q.coder /\ then(r, q).out = r.out \o q.out
    BY ResultFields DEF then
  <2>. QED
    BY <1>2, <2>1
<1>4. CASE n = Len(base)
  <2>1. z = then(b, q)
    BY <1>4, UptoEnds DEF ended_by_hand, Source, b, q
  <2>. HIDE DEF z
  <2>2. z.coder = q.coder
    BY <2>1, ResultFields DEF then
  <2>3. /\ converted_to(from, to, base, n) = z
        /\ array_after(from, to, base, n) = r.out \o q.out
    BY <1>4 DEF converted_to, array_after, z, r, q, b
  <2>. QED
    BY <1>3, <1>4, <2>2, <2>3 DEF r
<1>5. CASE n # Len(base)
  <2>1. converted_to(from, to, base, n) = b /\ array_after(from, to, base, n) = r.out
    BY <1>5 DEF converted_to, array_after, r, b
  <2>. QED
    BY <1>1, <1>5, <2>1 DEF r
<1>. QED
  BY <1>4, <1>5

\* fill of an iterator whose transcoder is where a conversion by hand is.
LEMMA FillMakes ==
  ASSUME Source, NEW m \in 0 .. Len(base) - 1, NEW v, NEW c, NEW o, NEW k
  PROVE  LET s == iterator(v, c, m + 1, upto(from, to, base, m).coder, o, k)
         IN  \E n \in 1 .. Len(base) : Fills(from, to, base, v, m, n, fill(s))
<1>. DEFINE t == upto(from, to, base, m).coder
            s == iterator(v, c, m + 1, t, o, k)
            g == called(t, m)
            i == enough(g)
            n == m + i
            N == Len(base)
            r == nth_call(from, to, base, n)
            w == IF n = N THEN with_end_cp(r) ELSE r
<1>1. m \in 0 .. N /\ N - m # 0 /\ N \in Nat /\ m \in Nat
  BY DEF Source
<1>2. s.next = m + 1 /\ s.coder = t
  BY IteratorFields
<1>3. after_units(t, m + 1) = g
  BY <1>1, Unfolds
<1>4. /\ i \in 0 .. N - m /\ i # 0
      /\ \A j \in 1 .. i - 1 : nth_call(from, to, base, m + j).out = <<>>
      /\ i = N - m \/ nth_call(from, to, base, m + i).out # <<>>
  BY <1>1, Enough
<1>5. g[i] = r
  BY <1>4 DEF called
<1>. HIDE DEF t, s, g, i
<1>6. n \in 1 .. N /\ n \in m + 1 .. N /\ n - 1 \in m .. N /\ (m + 1) + i = n + 1
      /\ (n + 1 = end <=> n = N)
  BY <1>1, <1>4 DEF end
<1>7. at_last(i, s, g[i]) = w
  <2>. HIDE DEF n, r
  <2>. QED
    BY <1>2, <1>5, <1>6 DEF at_last
<1>8. fill(s) = refilled(i, s, w)
  <2>. HIDE DEF n, r, w
  <2>. QED
    BY <1>2, <1>3, <1>7 DEF fill, stopped, i
<1>9. /\ w.coder = converted_to(from, to, base, n).coder
      /\ w.out = array_after(from, to, base, n)
  <2>. HIDE DEF n
  <2>. QED
    BY <1>6, AtLastUnit
<1>10. fill(s) = iterator(v, m + 1, n + 1, converted_to(from, to, base, n).coder,
                          array_after(from, to, base, n), 0)
  <2>1. refilled(i, s, w) = iterator(v, m + 1, (m + 1) + i, w.coder, w.out, 0)
    <3>. HIDE DEF w
    <3>. QED
      BY IteratorRefilled DEF s
  <2>. HIDE DEF n, w
  <2>. QED
    BY <1>6, <1>8, <1>9, <2>1
<1>11. \A j \in m .. n - 1 : upto(from, to, base, j).out = upto(from, to, base, m).out
  <2>1. ASSUME NEW j \in m + 1 .. n - 1 PROVE nth_call(from, to, base, j).out = <<>>
    <3>1. j - m \in 1 .. i - 1 /\ m + (j - m) = j
      BY <1>1, <1>4
    <3>2. nth_call(from, to, base, m + (j - m)).out = <<>>
      BY <1>4, <3>1
    <3>. QED
      BY <3>1, <3>2
  <2>. HIDE DEF n
  <2>. QED
    BY <1>1, <1>6, <2>1, Silent DEF Source
<1>12. n # N => array_after(from, to, base, n) # <<>>
  BY <1>1, <1>4 DEF array_after
<1>13. /\ array_after(from, to, base, n) \in Seq(EncodedUnit(to))
       /\ converted_to(from, to, base, n).out
            = upto(from, to, base, m).out \o array_after(from, to, base, n)
  <2>. HIDE DEF n
  <2>1. n - 1 \in m .. n - 1
    BY <1>1, <1>6
  <2>2. upto(from, to, base, n - 1).out = upto(from, to, base, m).out
    BY <1>11, <2>1
  <2>. QED
    BY <1>6, <2>2, ArrayAfter DEF Source
<1>14. Fills(from, to, base, v, m, n, fill(s))
  <2>. HIDE DEF n
  <2>. QED
    BY <1>6, <1>10, <1>11, <1>12, <1>13 DEF Fills
<1>. HIDE DEF n
<1>. QED
  BY <1>6, <1>14 DEF s, t

\* fill of an iterator that has consumed everything tells the transcoder of the end.
LEMMA FillAtEnd ==
  ASSUME Source, NEW v, NEW c, NEW o, NEW k, NEW t,
         any_end_cp(from, to, t).out \in Seq(EncodedUnit(to))
  PROVE  fill(iterator(v, c, end, t, o, k))
           = iterator(v, end, end, any_end_cp(from, to, t).coder, any_end_cp(from, to, t).out, 0)
<1>. DEFINE N == Len(base)
            s == iterator(v, c, end, t, o, k)
            g == called(t, N)
            i == enough(g)
            q == any_end_cp(from, to, t)
            r == Result(t, <<>>)
            w == with_end_cp(r)
<1>1. N \in 0 .. N /\ N - N = 0 /\ N + 1 = end /\ end + 0 = end
  BY DEF Source, end
<1>2. s.next = end /\ s.coder = t
  BY IteratorFields
<1>3. after_units(t, N + 1) = g
  BY <1>1, Unfolds
<1>4. i = 0
  <2>1. i \in 0 .. N - N
    BY <1>1, Enough
  <2>. QED
    BY <1>1, <2>1
<1>5. g[0] = r
  BY <1>1 DEF called
<1>6. w.coder = q.coder /\ w.out = q.out
  <2>1. r.coder = t /\ r.out = <<>>
    BY ResultFields
  <2>2. w = then(r, q)
    BY <2>1 DEF with_end_cp
  <2>3. <<>> \o q.out = q.out
    <3>. HIDE DEF q
    <3>. QED
      OBVIOUS
  <2>. HIDE DEF w, r, q
  <2>. QED
    BY <2>1, <2>2, <2>3, ResultFields DEF then
<1>. HIDE DEF s, g, i, r, w
<1>7. at_last(i, s, g[i]) = w
  BY <1>1, <1>2, <1>4, <1>5 DEF at_last, w
<1>8. fill(s) = refilled(0, s, w)
  BY <1>1, <1>2, <1>3, <1>4, <1>7 DEF fill, stopped, i
<1>9. refilled(0, s, w) = iterator(v, end, end + 0, w.coder, w.out, 0)
  BY IteratorRefilled DEF s
<1>. HIDE DEF q
<1>. QED
  BY <1>1, <1>6, <1>8, <1>9 DEF s, q

-----------------------------------------------------------------------------
(***************************************************************************)
(* Where an iterator stands: u is the text, sp says that the range is      *)
(* single-pass, and r is what has been read through the iterator s.        *)
(***************************************************************************)
Unread(s) == SubSeq(s.out, s.first + 1, Len(s.out))

IsIterator(e, s) ==
  /\ s = iterator(s.parent, s.current, s.next, s.coder, s.out, s.first)
  /\ s.out \in Seq(EncodedUnit(e))

\* Its positions, and an element to read in an array that is not empty.
Placed(u, s) ==
  /\ s.current \in 1 .. Len(u) + 1 /\ s.next \in s.current .. Len(u) + 1
  /\ s.first \in 0 .. Len(s.out)
  /\ s.out # <<>> => s.first < Len(s.out)

\* Before the end its transcoder, and what is to be read next, are where a conversion
\* by hand of what it has consumed would be.
Midway(f, e, u, s, r) ==
  s.next # Len(u) + 1 =>
    /\ s.out # <<>>
    /\ s.coder = upto(f, e, u, s.next - 1).coder
    /\ r \o Unread(s) = upto(f, e, u, s.next - 1).out

\* When it has consumed everything they are where the conversion of all is; the
\* iterator equal to end() has been told of the end once more.
AtLast(f, e, u, sp, s, r) ==
  s.next = Len(u) + 1 =>
    /\ any_well_formed(f, e, s.coder) <=> any_well_formed(f, e, fed_all(f, e, u).coder)
    /\ s.current = Len(u) + 1 => r = fed_all(f, e, u).out
    /\ s.current # Len(u) + 1 => s.coder = fed_all(f, e, u).coder
    /\ s.current # Len(u) + 1 \/ sp => r \o Unread(s) = fed_all(f, e, u).out

\* It has consumed nothing before its output was needed.
IsLazy(f, e, u, s, r) ==
  \A n \in 0 .. s.next - 2 : Len(upto(f, e, u, n).out) <= Len(r)

\* Only bytes can be consumed to the last and leave nothing to read.
IsFull(f, u, s) == f # std_byte /\ s.out = <<>> => s.current = Len(u) + 1

Stands(f, e, u, sp, s, r) ==
  /\ IsIterator(e, s) /\ Placed(u, s) /\ r \in Seq(EncodedUnit(e))
  /\ Midway(f, e, u, s, r) /\ AtLast(f, e, u, sp, s, r) /\ IsLazy(f, e, u, s, r)
  /\ IsFull(f, u, s)

\* So stands an iterator that has been filled when all before it had been read.
LEMMA FilledStands ==
  ASSUME NEW f \in InputTypes, NEW e \in Encodings, NEW u \in Seq(AnyUnit(f)), NEW sp,
         NEW v, NEW m \in 0 .. Len(u) - 1, NEW n \in 1 .. Len(u), NEW x, Fills(f, e, u, v, m, n, x),
         f # std_byte => array_after(f, e, u, n) # <<>>
  PROVE  Stands(f, e, u, sp, x, upto(f, e, u, m).out)
<1>. DEFINE r == upto(f, e, u, m).out
            w == converted_to(f, e, u, n)
            o == array_after(f, e, u, n)
            N == Len(u)
<1>1. /\ x.parent = v /\ x.current = m + 1 /\ x.next = n + 1
      /\ x.coder = w.coder /\ x.out = o /\ x.first = 0
  BY IteratorFields DEF Fills
<1>2. /\ n \in m + 1 .. N /\ o \in Seq(EncodedUnit(e)) /\ w.out = r \o o
      /\ \A k \in m .. n - 1 : upto(f, e, u, k).out = r
      /\ n # N => o # <<>>
  BY DEF Fills
<1>3. r \in Seq(EncodedUnit(e)) /\ m \in 0 .. N /\ N \in Nat
  BY UptoReturned DEF Returned
<1>4. IsIterator(e, x)
  <2>1. x = iterator(v, m + 1, n + 1, w.coder, o, 0)
    BY DEF Fills
  <2>. HIDE DEF w, o
  <2>. QED
    BY <1>1, <1>2, <2>1 DEF IsIterator
<1>. HIDE DEF w, o
<1>5. Unread(x) = o
  <2>1. SubSeq(o, 1, Len(o)) = o
    BY <1>2, SubSeqFull
  <2>. QED
    BY <1>1, <2>1 DEF Unread
<1>6. Placed(u, x)
  <2>1. o # <<>> => 0 < Len(o)
    BY <1>2
  <2>2. Len(o) \in Nat
    BY <1>2
  <2>. QED
    BY <1>1, <1>2, <1>3, <2>1, <2>2 DEF Placed
<1>. HIDE DEF r
<1>7. Midway(f, e, u, x, r)
  <2>1. CASE n # N
    <3>1. w = upto(f, e, u, n)
      BY <2>1 DEF converted_to, w
    <3>2. (n + 1) - 1 = n
      BY <1>2, <1>3
    <3>. QED
      BY <1>1, <1>2, <1>5, <2>1, <3>1, <3>2 DEF Midway
  <2>2. CASE n = N
    BY <1>1, <2>2 DEF Midway
  <2>. QED
    BY <2>1, <2>2
<1>8. AtLast(f, e, u, sp, x, r)
  <2>1. CASE n # N
    <3>1. n + 1 # N + 1
      BY <1>2, <1>3, <2>1
    <3>. QED
      BY <1>1, <3>1 DEF AtLast
  <2>2. CASE n = N
    <3>1. w = fed_all(f, e, u)
      BY <2>2 DEF converted_to, w
    <3>2. m + 1 # N + 1
      BY <1>2, <1>3
    <3>3. any_well_formed(f, e, x.coder) <=> any_well_formed(f, e, fed_all(f, e, u).coder)
      BY <1>1, <3>1
    <3>. QED
      BY <1>1, <1>2, <1>5, <3>1, <3>2, <3>3 DEF AtLast
  <2>. QED
    BY <2>1, <2>2
<1>9. IsLazy(f, e, u, x, r)
  <2>1. ASSUME NEW k \in 0 .. n - 1 PROVE Len(upto(f, e, u, k).out) <= Len(r)
    <3>1. CASE k < m
      <4>1. k \in 0 .. N /\ m \in k .. N
        BY <1>2, <1>3, <3>1
      <4>2. PICK p \in Seq(EncodedUnit(e)) : r = upto(f, e, u, k).out \o p
        BY <4>1, UptoGrows DEF Goes, r
      <4>3. upto(f, e, u, k).out \in Seq(EncodedUnit(e))
        BY <4>1, UptoReturned DEF Returned
      <4>. QED
        BY <4>2, <4>3
    <3>2. CASE k >= m
      <4>1. k \in m .. n - 1
        BY <1>2, <1>3, <3>2
      <4>2. upto(f, e, u, k).out = r
        BY <1>2, <4>1
      <4>. QED
        BY <1>3, <4>2
    <3>. QED
      BY <1>2, <1>3, <3>1, <3>2
  <2>2. x.next - 2 = n - 1
    BY <1>1, <1>2
  <2>. QED
    BY <2>1, <2>2 DEF IsLazy
<1>10. IsFull(f, u, x)
  BY <1>1 DEF IsFull, o
<1>. QED
  BY <1>3, <1>4, <1>6, <1>7, <1>8, <1>9, <1>10 DEF Stands, r

-----------------------------------------------------------------------------
(***************************************************************************)
(* What an iterator does.                                                  *)
(***************************************************************************)
\* Where f is an encoding every array has room for what fill writes, and the last one
\* is not empty.
LEMMA ArrayOfText ==
  ASSUME NEW f \in Encodings, NEW e \in Encodings, NEW u \in Seq(CodeUnit(f)), NEW n \in 1 .. Len(u)
  PROVE  /\ Len(array_after(f, e, u, n)) \in Nat
         /\ Len(array_after(f, e, u, n)) <= max_output_bytes(f, e)
         /\ n = Len(u) => array_after(f, e, u, n) # <<>>
<1>. DEFINE c == upto(f, e, u, n - 1).coder
            r == call(f, e, c, u[n])
            q == end_cp(f, e, r.coder)
            o == r.out \o q.out
<1>0. f # std_byte /\ f \in InputTypes /\ u \in Seq(AnyUnit(f))
  BY DEF Encodings, std_byte, InputTypes, AnyUnit
<1>1. n - 1 \in 0 .. Len(u) /\ u[n] \in CodeUnit(f)
  OBVIOUS
<1>2. c \in Object(f, e)
  BY <1>0, <1>1, UptoReturned DEF Returned, AnyObject
<1>3. nth_call(f, e, u, n) = r
  BY <1>0 DEF nth_call, any_call
<1>4. upto(f, e, u, n).coder = r.coder
  BY <1>0, <1>3, ArrayAfter
<1>. HIDE DEF c
<1>5. Len(r.out) \in Nat /\ Len(r.out) <= max_output_bytes(f, e)
  BY <1>1, <1>2, CallWrites
<1>6. o # <<>> /\ Len(o) \in Nat /\ Len(o) <= max_output_bytes(f, e)
  <2>. HIDE DEF o
  <2>. QED
    BY <1>1, <1>2, LastWrites DEF o
<1>7. array_after(f, e, u, n) = IF n = Len(u) THEN o ELSE r.out
  BY <1>0, <1>3, <1>4 DEF array_after, any_end_cp
<1>. HIDE DEF o, r
<1>. QED
  BY <1>5, <1>6, <1>7

\* The iterator that begin() returns stands before the first element.
LEMMA ConstructedStands ==
  ASSUME Source, NEW v
  PROVE  LET x == constructed(v, 1)
         IN  /\ Stands(from, to, base, single_pass, x, <<>>) /\ x.parent = v
             /\ x.out = <<>> \/ \E n \in 1 .. Len(base) : x.out = array_after(from, to, base, n)
<1>. DEFINE x == constructed(v, 1)
            N == Len(base)
            t == any_transcoder(from, to)
            s == iterator(v, 1, 1, t, <<>>, 0)
<1>1. N \in Nat /\ 0 \in 0 .. N /\ (1 = end <=> N = 0)
  BY DEF Source, end
<1>2. x = IF N # 0 THEN fill(s) ELSE s
  BY <1>1 DEF constructed, iterator
<1>3. upto(from, to, base, 0).coder = t /\ upto(from, to, base, 0).out = <<>>
  <2>1. upto(from, to, base, 0) = Result(t, <<>>)
    BY UptoEnds DEF Source
  <2>. QED
    BY <2>1, ResultFields
<1>4. CASE N # 0
  <2>1. 0 \in 0 .. N - 1 /\ 0 + 1 = 1
    BY <1>1, <1>4
  <2>2. PICK n \in 1 .. N : Fills(from, to, base, v, 0, n, fill(s))
    <3>1. \E n \in 1 .. N : Fills(from, to, base, v, 0, n,
                                  fill(iterator(v, 1, 0 + 1, upto(from, to, base, 0).coder, <<>>, 0)))
      BY <2>1, FillMakes
    <3>. QED
      BY <1>3, <2>1, <3>1
  <2>. HIDE DEF s
  <2>3. x = fill(s)
    BY <1>2, <1>4
  <2>4. from # std_byte => array_after(from, to, base, n) # <<>>
    <3>1. CASE n # N
      BY <2>2, <3>1 DEF Fills
    <3>2. CASE n = N /\ from # std_byte
      <4>1. from \in Encodings /\ base \in Seq(CodeUnit(from))
        BY <3>2 DEF Source, InputTypes, AnyUnit
      <4>. QED
        BY <3>2, <4>1, ArrayOfText DEF Source
    <3>. QED
      BY <3>1, <3>2
  <2>. HIDE DEF x
  <2>5. Stands(from, to, base, single_pass, x, upto(from, to, base, 0).out)
    BY <2>1, <2>2, <2>3, <2>4, FilledStands DEF Source
  <2>6. x.parent = v /\ x.out = array_after(from, to, base, n)
    BY <2>2, <2>3, IteratorFields DEF Fills
  <2>. QED
    BY <1>3, <2>5, <2>6 DEF x
<1>5. CASE N = 0
  <2>1. x = s
    BY <1>2, <1>5
  <2>2. /\ x.parent = v /\ x.current = 1 /\ x.next = 1
        /\ x.coder = t /\ x.out = <<>> /\ x.first = 0
    BY <2>1, IteratorFields
  <2>. HIDE DEF s, x
  <2>3. base = <<>>
    BY <1>5 DEF Source
  <2>4. fed_all(from, to, base).out = <<>> /\ any_well_formed(from, to, fed_all(from, to, base).coder)
    BY <2>3, EndOfNothing DEF Source
  <2>5. any_well_formed(from, to, t)
    BY <1>1, <1>3, <2>4, UptoKnows DEF Source
  <2>6. any_well_formed(from, to, x.coder) <=> any_well_formed(from, to, fed_all(from, to, base).coder)
    BY <2>2, <2>4, <2>5
  <2>7. <<>> \in Seq(EncodedUnit(to)) /\ <<>> \o <<>> = <<>> /\ Len(<<>>) = 0
    OBVIOUS
  <2>8. Unread(x) = <<>>
    BY <2>2, SubSeqEmpty DEF Unread
  <2>9. IsIterator(to, x) /\ Placed(base, x) /\ IsFull(from, base, x)
    <3>1. x = iterator(v, 1, 1, t, <<>>, 0)
      BY <2>1 DEF s
    <3>. QED
      BY <1>5, <2>2, <2>7, <3>1 DEF IsIterator, Placed, IsFull
  <2>10. Midway(from, to, base, x, <<>>) /\ IsLazy(from, to, base, x, <<>>)
    BY <1>5, <2>2 DEF Midway, IsLazy
  <2>11. AtLast(from, to, base, single_pass, x, <<>>)
    BY <1>5, <2>2, <2>4, <2>6, <2>7, <2>8 DEF AtLast
  <2>. QED
    BY <2>2, <2>7, <2>9, <2>10, <2>11 DEF Stands, x
<1>. QED
  BY <1>4, <1>5

\* Reading the next element of an array moves it to what has been read.
LEMMA ReadNext ==
  ASSUME NEW T, NEW o \in Seq(T), NEW k \in 0 .. Len(o) - 1, NEW r \in Seq(T)
  PROVE  /\ o[k + 1] \in T /\ Append(r, o[k + 1]) \in Seq(T)
         /\ Append(r, o[k + 1]) \o SubSeq(o, (k + 1) + 1, Len(o)) = r \o SubSeq(o, k + 1, Len(o))
         /\ k + 1 = Len(o) => Append(r, o[k + 1]) = r \o SubSeq(o, k + 1, Len(o))
<1>. DEFINE x == o[k + 1]
            rest == SubSeq(o, (k + 1) + 1, Len(o))
            all == SubSeq(o, k + 1, Len(o))
            one == <<x>>
<1>1. x \in T /\ one \in Seq(T) /\ k + 1 \in 1 .. Len(o)
  OBVIOUS
<1>2. rest \in Seq(T) /\ all \in Seq(T)
  <2>1. \A i \in k + 1 .. Len(o) : o[i] \in T
    OBVIOUS
  <2>. QED
    BY <2>1, SubSeqProperties
<1>3. all = one \o rest
  BY <1>1, SubSeqRecursiveFirst
<1>4. Append(r, x) = r \o one
  BY <1>1, AppendIsConcat
<1>. HIDE DEF x, rest, all, one
<1>5. (r \o one) \o rest = r \o (one \o rest)
  BY <1>1, <1>2, Associative
<1>6. Append(r, x) \in Seq(T)
  BY <1>1
<1>7. k + 1 = Len(o) => rest = <<>>
  BY SubSeqEmpty DEF rest
<1>8. (r \o one) \o <<>> = r \o one
  BY <1>1, ConcatEmptySeq, ConcatProperties
<1>9. Append(r, x) \o rest = r \o all
  BY <1>3, <1>4, <1>5
<1>10. k + 1 = Len(o) => Append(r, x) = r \o all
  BY <1>3, <1>4, <1>5, <1>7, <1>8
<1>. QED
  BY <1>1, <1>6, <1>9, <1>10 DEF x, rest, all

\* An iterator that moves on in its array.
LEMMA AdvancedStands ==
  ASSUME Source, NEW v, NEW c, NEW p, NEW t, NEW o, NEW k, NEW r,
         Stands(from, to, base, single_pass, iterator(v, c, p, t, o, k), r),
         ~ at_end(iterator(v, c, p, t, o, k)), k + 1 # Len(o), k # Len(o)
  PROVE  Stands(from, to, base, single_pass, iterator(v, c, p, t, o, k + 1), Append(r, o[k + 1]))
<1>. DEFINE s == iterator(v, c, p, t, o, k)
            x == iterator(v, c, p, t, o, k + 1)
            later == Append(r, o[k + 1])
            T == EncodedUnit(to)
            N == Len(base)
<1>1. /\ s.parent = v /\ s.current = c /\ s.next = p /\ s.coder = t /\ s.out = o /\ s.first = k
      /\ x.parent = v /\ x.current = c /\ x.next = p /\ x.coder = t /\ x.out = o /\ x.first = k + 1
  BY IteratorFields
<1>2. /\ IsIterator(to, s) /\ Placed(base, s) /\ r \in Seq(T)
      /\ Midway(from, to, base, s, r) /\ AtLast(from, to, base, single_pass, s, r)
      /\ IsLazy(from, to, base, s, r) /\ IsFull(from, base, s)
  BY DEF Stands
<1>3. N + 1 = end /\ N \in Nat
  BY DEF Source, end
<1>4. ~ at_end(s)
  OBVIOUS
<1>5. x = iterator(x.parent, x.current, x.next, x.coder, x.out, x.first)
  BY <1>1
<1>. HIDE DEF s, x
<1>6. /\ o \in Seq(T) /\ c \in 1 .. N + 1 /\ p \in c .. N + 1 /\ k \in 0 .. Len(o)
      /\ (single_pass => p # N + 1) /\ (~ single_pass => c # N + 1)
  BY <1>1, <1>2, <1>3, <1>4 DEF IsIterator, Placed, at_end
<1>7. k \in 0 .. Len(o) - 1 /\ k + 1 < Len(o) /\ o # <<>>
  BY <1>6
<1>8. later \in Seq(T) /\ later \o Unread(x) = r \o Unread(s)
  <2>1. Unread(x) = SubSeq(o, (k + 1) + 1, Len(o)) /\ Unread(s) = SubSeq(o, k + 1, Len(o))
    BY <1>1 DEF Unread
  <2>2. r \in Seq(T) /\ o \in Seq(T)
    BY <1>2, <1>6
  <2>. HIDE DEF T
  <2>3. later \in Seq(T) /\ later \o SubSeq(o, (k + 1) + 1, Len(o)) = r \o SubSeq(o, k + 1, Len(o))
    BY <1>7, <2>2, ReadNext
  <2>. QED
    BY <2>1, <2>3
<1>9. Len(r) <= Len(later) /\ Len(r) \in Nat
  BY <1>2
<1>. HIDE DEF later
<1>10. IsIterator(to, x) /\ IsFull(from, base, x)
  BY <1>1, <1>2, <1>5, <1>6 DEF IsIterator, IsFull
<1>11. Placed(base, x)
  BY <1>1, <1>2, <1>6, <1>7 DEF Placed
<1>12. Midway(from, to, base, x, later)
  BY <1>1, <1>2, <1>8 DEF Midway
<1>13. AtLast(from, to, base, single_pass, x, later)
  <2>1. CASE single_pass
    BY <1>1, <1>6, <2>1 DEF AtLast
  <2>2. CASE ~ single_pass
    BY <1>1, <1>2, <1>6, <1>8, <2>2 DEF AtLast
  <2>. QED
    BY <2>1, <2>2
<1>14. IsLazy(from, to, base, x, later)
  <2>1. ASSUME NEW n \in 0 .. p - 2 PROVE Len(upto(from, to, base, n).out) <= Len(later)
    <3>1. Len(upto(from, to, base, n).out) <= Len(r)
      BY <1>1, <1>2 DEF IsLazy
    <3>2. n \in 0 .. N
      BY <1>3, <1>6
    <3>3. Len(upto(from, to, base, n).out) \in Nat
      BY <3>2, UptoReturned DEF Source, Returned
    <3>. QED
      BY <1>8, <1>9, <3>1, <3>3
  <2>. QED
    BY <1>1, <2>1 DEF IsLazy
<1>. QED
  BY <1>8, <1>10, <1>11, <1>12, <1>13, <1>14 DEF Stands, x, later

\* One that has to fill its array, having consumed some of the input.
LEMMA RefilledStands ==
  ASSUME Source, NEW v, NEW c, NEW p, NEW t, NEW o, NEW k, NEW r,
         Stands(from, to, base, single_pass, iterator(v, c, p, t, o, k), r),
         p # end, k + 1 = Len(o)
  PROVE  LET x == fill(iterator(v, c, p, t, o, k + 1))
         IN  /\ Stands(from, to, base, single_pass, x, Append(r, o[k + 1])) /\ x.parent = v
             /\ \E n \in 1 .. Len(base) : x.out = array_after(from, to, base, n)
<1>. DEFINE s == iterator(v, c, p, t, o, k)
            x == fill(iterator(v, c, p, t, o, k + 1))
            later == Append(r, o[k + 1])
            T == EncodedUnit(to)
            N == Len(base)
            m == p - 1
<1>1. s.parent = v /\ s.current = c /\ s.next = p /\ s.coder = t /\ s.out = o /\ s.first = k
  BY IteratorFields
<1>2. /\ IsIterator(to, s) /\ Placed(base, s) /\ r \in Seq(T)
      /\ Midway(from, to, base, s, r)
  BY DEF Stands
<1>3. N + 1 = end /\ N \in Nat
  BY DEF Source, end
<1>. HIDE DEF s
<1>4. o \in Seq(T) /\ p \in 1 .. N + 1 /\ k \in 0 .. Len(o) - 1
  BY <1>1, <1>2, <1>3 DEF IsIterator, Placed
<1>5. m \in 0 .. N - 1 /\ m + 1 = p
  BY <1>3, <1>4
<1>6. t = upto(from, to, base, m).coder /\ r \o Unread(s) = upto(from, to, base, m).out
  BY <1>1, <1>2, <1>3 DEF Midway
<1>7. later = upto(from, to, base, m).out
  <2>1. later = r \o Unread(s)
    <3>. HIDE DEF T
    <3>. QED
      BY <1>1, <1>2, <1>4, ReadNext DEF Unread
  <2>. QED
    BY <1>6, <2>1
<1>. HIDE DEF m, later
<1>8. PICK n \in 1 .. N : Fills(from, to, base, v, m, n, x)
  <2>1. \E n \in 1 .. N : Fills(from, to, base, v, m, n,
                                fill(iterator(v, c, m + 1, upto(from, to, base, m).coder, o, k + 1)))
    BY <1>5, FillMakes
  <2>. QED
    BY <1>5, <1>6, <2>1
<1>9. from # std_byte => array_after(from, to, base, n) # <<>>
  <2>1. CASE n # N
    BY <1>8, <2>1 DEF Fills
  <2>2. CASE n = N /\ from # std_byte
    <3>1. from \in Encodings /\ base \in Seq(CodeUnit(from))
      BY <2>2 DEF Source, InputTypes, AnyUnit
    <3>. QED
      BY <2>2, <3>1, ArrayOfText DEF Source
  <2>. QED
    BY <2>1, <2>2
<1>. HIDE DEF x
<1>10. Stands(from, to, base, single_pass, x, upto(from, to, base, m).out)
  BY <1>5, <1>8, <1>9, FilledStands DEF Source
<1>11. x.parent = v /\ x.out = array_after(from, to, base, n)
  BY <1>8, IteratorFields DEF Fills
<1>. QED
  BY <1>7, <1>10, <1>11 DEF x, later

\* One that has consumed everything, and fills its array once more.
LEMMA EndedStands ==
  ASSUME Source, NEW v, NEW c, NEW p, NEW t, NEW o, NEW k, NEW r,
         Stands(from, to, base, single_pass, iterator(v, c, p, t, o, k), r),
         ~ at_end(iterator(v, c, p, t, o, k)), p = end, k + 1 = Len(o)
  PROVE  LET x == fill(iterator(v, c, p, t, o, k + 1))
         IN  /\ Stands(from, to, base, single_pass, x, Append(r, o[k + 1])) /\ x.parent = v
             /\ Len(x.out) \in Nat /\ Len(x.out) <= longest_sequence(to)
<1>. DEFINE s == iterator(v, c, p, t, o, k)
            x == fill(iterator(v, c, p, t, o, k + 1))
            later == Append(r, o[k + 1])
            T == EncodedUnit(to)
            N == Len(base)
            z == fed_all(from, to, base)
            q == any_end_cp(from, to, t)
<1>1. s.parent = v /\ s.current = c /\ s.next = p /\ s.coder = t /\ s.out = o /\ s.first = k
  BY IteratorFields
<1>2. /\ IsIterator(to, s) /\ Placed(base, s) /\ r \in Seq(T)
      /\ AtLast(from, to, base, single_pass, s, r)
  BY DEF Stands
<1>3. N + 1 = end /\ N \in Nat
  BY DEF Source, end
<1>4. ~ at_end(s)
  OBVIOUS
<1>. HIDE DEF s
<1>5. ~ single_pass /\ c # end /\ o \in Seq(T) /\ k \in 0 .. Len(o) - 1
  BY <1>1, <1>2, <1>4 DEF at_end, IsIterator, Placed
<1>6. t = z.coder /\ r \o Unread(s) = z.out
  BY <1>1, <1>2, <1>3, <1>5 DEF AtLast
<1>7. later = z.out /\ later \in Seq(T)
  <2>1. later = r \o Unread(s) /\ later \in Seq(T)
    <3>1. Unread(s) = SubSeq(o, k + 1, Len(o))
      BY <1>1 DEF Unread
    <3>. HIDE DEF T
    <3>2. later = r \o SubSeq(o, k + 1, Len(o)) /\ later \in Seq(T)
      BY <1>2, <1>5, ReadNext
    <3>. QED
      BY <3>1, <3>2
  <2>. QED
    BY <1>6, <2>1
<1>8. /\ any_well_formed(from, to, q.coder) <=> any_well_formed(from, to, z.coder)
      /\ Len(q.out) \in Nat /\ Len(q.out) <= longest_sequence(to)
  BY <1>6, EndTwice DEF Source
<1>9. q.out \in Seq(T)
  <2>1. z.coder \in AnyObject(from, to)
    BY AnyFedReturned DEF Source, Returned
  <2>2. Returned(AnyObject(from, to), to, any_end_cp(from, to, z.coder))
    BY <2>1, AnyReturned DEF Source
  <2>. QED
    BY <1>6, <2>2 DEF Returned
<1>10. x = iterator(v, end, end, q.coder, q.out, 0)
  BY <1>9, FillAtEnd
<1>. HIDE DEF x, later, q
<1>11. /\ x.parent = v /\ x.current = end /\ x.next = end
       /\ x.coder = q.coder /\ x.out = q.out /\ x.first = 0
  BY <1>10, IteratorFields
<1>12. IsIterator(to, x) /\ IsFull(from, base, x)
  BY <1>3, <1>9, <1>10, <1>11 DEF IsIterator, IsFull
<1>13. Placed(base, x)
  <2>1. q.out # <<>> => 0 < Len(q.out)
    BY <1>9
  <2>. QED
    BY <1>3, <1>8, <1>11, <2>1 DEF Placed
<1>14. Midway(from, to, base, x, later)
  BY <1>3, <1>11 DEF Midway
<1>15. AtLast(from, to, base, single_pass, x, later)
  BY <1>3, <1>5, <1>7, <1>8, <1>11 DEF AtLast
<1>16. IsLazy(from, to, base, x, later)
  <2>1. ASSUME NEW n \in 0 .. N PROVE Len(upto(from, to, base, n).out) <= Len(later)
    <3>1. PICK a \in Seq(T) : z.out = upto(from, to, base, n).out \o a
      BY UptoGrows DEF Goes, Source
    <3>2. upto(from, to, base, n).out \in Seq(T)
      BY UptoReturned DEF Source, Returned
    <3>. HIDE DEF z, T
    <3>. QED
      BY <1>7, <3>1, <3>2
  <2>2. \A n \in 0 .. end - 2 : n \in 0 .. N
    BY <1>3
  <2>. QED
    BY <1>11, <2>1, <2>2 DEF IsLazy
<1>17. Len(x.out) \in Nat /\ Len(x.out) <= longest_sequence(to)
  BY <1>8, <1>11
<1>. QED
  BY <1>7, <1>11, <1>12, <1>13, <1>14, <1>15, <1>16, <1>17 DEF Stands, x, later

\* ++ of an iterator that may be read: it stands where it has been read to.
LEMMA IncrementedStands ==
  ASSUME Source, NEW s, NEW r, Stands(from, to, base, single_pass, s, r), ~ at_end(s), ~ empty(s)
  PROVE  LET x == incremented(s)
         IN  /\ Stands(from, to, base, single_pass, x, Append(r, front(s))) /\ x.parent = s.parent
             /\ front(s) \in EncodedUnit(to)
             /\ \/ x.out = s.out
                \/ \E n \in 1 .. Len(base) : x.out = array_after(from, to, base, n)
                \/ Len(x.out) \in Nat /\ Len(x.out) <= longest_sequence(to)
<1>. DEFINE v == s.parent
            c == s.current
            p == s.next
            t == s.coder
            o == s.out
            k == s.first
            x == incremented(s)
            T == EncodedUnit(to)
<1>1. s = iterator(v, c, p, t, o, k)
  BY DEF Stands, IsIterator
<1>2. k # Len(o) /\ front(s) = o[k + 1]
  BY DEF empty, front
<1>3. o \in Seq(T) /\ k \in 0 .. Len(o)
  BY DEF Stands, IsIterator, Placed
<1>4. o[k + 1] \in T
  BY <1>2, <1>3
<1>. HIDE DEF v, c, p, t, o, k
<1>5. x = IF k + 1 = Len(o) THEN fill(iterator(v, c, p, t, o, k + 1))
          ELSE iterator(v, c, p, t, o, k + 1)
  <2>1. incremented(iterator(v, c, p, t, o, k))
          = IF k + 1 = Len(o) THEN fill(iterator(v, c, p, t, o, k + 1))
            ELSE iterator(v, c, p, t, o, k + 1)
    BY IteratorIncremented
  <2>. QED
    BY <1>1, <2>1
<1>. HIDE DEF x
<1>6. /\ Stands(from, to, base, single_pass, iterator(v, c, p, t, o, k), r)
      /\ ~ at_end(iterator(v, c, p, t, o, k))
  BY <1>1
<1>7. CASE k + 1 # Len(o)
  <2>1. Stands(from, to, base, single_pass, iterator(v, c, p, t, o, k + 1), Append(r, o[k + 1]))
    BY <1>2, <1>6, <1>7, AdvancedStands
  <2>2. x = iterator(v, c, p, t, o, k + 1)
    BY <1>5, <1>7
  <2>3. x.parent = v /\ x.out = o
    BY <2>2, IteratorFields
  <2>. QED
    BY <1>2, <1>4, <2>1, <2>2, <2>3 DEF x, v, o
<1>8. CASE k + 1 = Len(o) /\ p # end
  <2>1. x = fill(iterator(v, c, p, t, o, k + 1))
    BY <1>5, <1>8
  <2>2. /\ Stands(from, to, base, single_pass, x, Append(r, o[k + 1])) /\ x.parent = v
        /\ \E n \in 1 .. Len(base) : x.out = array_after(from, to, base, n)
    BY <1>6, <1>8, <2>1, RefilledStands
  <2>. QED
    BY <1>2, <1>4, <2>2 DEF x, v
<1>9. CASE k + 1 = Len(o) /\ p = end
  <2>1. x = fill(iterator(v, c, p, t, o, k + 1))
    BY <1>5, <1>9
  <2>2. /\ Stands(from, to, base, single_pass, x, Append(r, o[k + 1])) /\ x.parent = v
        /\ Len(x.out) \in Nat /\ Len(x.out) <= longest_sequence(to)
    BY <1>6, <1>9, <2>1, EndedStands
  <2>. QED
    BY <1>2, <1>4, <2>2 DEF x, v
<1>. QED
  BY <1>7, <1>8, <1>9

-----------------------------------------------------------------------------
(***************************************************************************)
(* Where the array may overflow.                                           *)
(***************************************************************************)
Truth(f, e, u) == any_well_formed(f, e, fed_all(f, e, u).coder)

MayOverflow(f, e, u) ==
  f = std_byte /\ (Abandoned(u) \/ (Announced(u).encoding = 16 /\ ~ Truth(f, e, u)))

\* Of what may become a mark, the first byte may.
LEMMA FirstUndecided ==
  ASSUME NEW u \in Seq(Byte), u # <<>>, Undecided(u)
  PROVE  Undecided(<<u[1]>>)
<1>. DEFINE n == Len(u)
            v == <<u[1]>>
<1>1. n \in Nat /\ n >= 1
  BY EmptySeq
<1>2. v \in Seq(Byte) /\ Len(v) = 1 /\ v[1] = u[1]
  BY <1>1
<1>3. u[1] \in {0, 239, 254, 255}
  <2>1. \/ n < 3 /\ (n >= 1 => u[1] = 239) /\ (n >= 2 => u[2] = 187)
        \/ n < 2 /\ (n >= 1 => u[1] \in {254, 255})
        \/ /\ n < 4 /\ (n >= 1 => u[1] = 0) /\ (n >= 2 => u[2] = 0)
           /\ n >= 3 => u[3] = 254
        \/ /\ n < 4 /\ (n >= 1 => u[1] = 255) /\ (n >= 2 => u[2] = 254)
           /\ n >= 3 => u[3] = 0
    BY MarkTable
  <2>. HIDE DEF n
  <2>. QED
    BY <1>1, <2>1
<1>. HIDE DEF v
<1>4. Undecided(v) <=>
        \/ Len(v) < 3 /\ (Len(v) >= 1 => v[1] = 239) /\ (Len(v) >= 2 => v[2] = 187)
        \/ Len(v) < 2 /\ (Len(v) >= 1 => v[1] \in {254, 255})
        \/ /\ Len(v) < 4 /\ (Len(v) >= 1 => v[1] = 0) /\ (Len(v) >= 2 => v[2] = 0)
           /\ Len(v) >= 3 => v[3] = 254
        \/ /\ Len(v) < 4 /\ (Len(v) >= 1 => v[1] = 255) /\ (Len(v) >= 2 => v[2] = 254)
           /\ Len(v) >= 3 => v[3] = 0
  BY <1>2, MarkTable
<1>5. Undecided(v)
  BY <1>2, <1>3, <1>4
<1>. QED
  BY <1>5 DEF v

\* What the bytes begin with is what a beginning of them that decides it does.
LEMMA StillDecided ==
  ASSUME NEW u \in Seq(Byte), NEW m \in 0 .. Len(u), ~ Undecided(SubSeq(u, 1, m))
  PROVE  LET w == SubSeq(u, 1, m)
         IN  /\ ~ Undecided(u)
             /\ Marked(u) = Marked(w) /\ Announced(u) = Announced(w)
             /\ Misread(u) <=> Misread(w)
<1>. DEFINE w == SubSeq(u, 1, m)
            N == Len(u)
            Same(v) == /\ ~ Undecided(v)
                       /\ Marked(v) = Marked(w) /\ Announced(v) = Announced(w)
                       /\ Misread(v) <=> Misread(w)
            S == {k \in Nat : m + k <= N => Same(SubSeq(u, 1, m + k))}
<1>0. N \in Nat /\ m \in Nat /\ m <= N
  OBVIOUS
<1>1. 0 \in S
  <2>1. m + 0 = m
    BY <1>0
  <2>2. Same(w)
    OBVIOUS
  <2>. HIDE DEF Same, w
  <2>. QED
    BY <2>1, <2>2 DEF w
<1>2. ASSUME NEW k \in Nat, k \in S PROVE k + 1 \in S
  <2>. DEFINE v == SubSeq(u, 1, m + k)
              x == SubSeq(u, 1, m + (k + 1))
  <2>1. ASSUME m + (k + 1) <= N PROVE Same(x)
    <3>1. /\ m + (k + 1) \in 1 .. N /\ m + k \in 0 .. N /\ (m + (k + 1)) - 1 = m + k
      BY <1>0, <2>1
    <3>2. v \in Seq(Byte) /\ u[m + (k + 1)] \in Byte
      <4>1. \A i \in 1 .. m + k : u[i] \in Byte
        BY <3>1
      <4>. QED
        BY <3>1, <4>1, SubSeqProperties
    <3>3. x = Append(v, u[m + (k + 1)])
      <4>1. Len(v) = m + k /\ \A i \in 1 .. m + k : v[i] = u[i]
        BY <3>1
      <4>2. Len(x) = m + (k + 1) /\ x \in Seq(Byte) /\ \A i \in 1 .. m + (k + 1) : x[i] = u[i]
        BY <3>1
      <4>. DEFINE y == Append(v, u[m + (k + 1)])
      <4>3. /\ y \in Seq(Byte) /\ Len(y) = (m + k) + 1 /\ y[(m + k) + 1] = u[m + (k + 1)]
            /\ \A i \in 1 .. m + k : y[i] = v[i]
        <5>. HIDE DEF v
        <5>. QED
          BY <3>2, <4>1, Longer
      <4>. HIDE DEF x, y, v
      <4>4. \A i \in 1 .. m + (k + 1) : x[i] = y[i]
        BY <1>0, <4>1, <4>2, <4>3
      <4>. QED
        BY <1>0, <4>2, <4>3, <4>4, SeqEqual DEF y
    <3>4. Same(v)
      <4>. HIDE DEF Same, v
      <4>. QED
        BY <1>2, <3>1 DEF v
    <3>. HIDE DEF v, x, w
    <3>5. /\ ~ Undecided(x) /\ Marked(x) = Marked(v) /\ Announced(x) = Announced(v)
          /\ Misread(x) <=> Misread(v)
      BY <3>2, <3>3, <3>4, Decided
    <3>. QED
      BY <3>4, <3>5
  <2>. HIDE DEF Same
  <2>. QED
    BY <2>1
<1>3. \A k \in Nat : k \in S
  <2>. HIDE DEF S
  <2>. QED
    BY <1>1, <1>2, Feeding!SetInduction
<1>4. Same(u)
  <2>1. N - m \in S /\ m + (N - m) = N /\ m + (N - m) <= N
    BY <1>0, <1>3
  <2>2. SubSeq(u, 1, N) = u
    BY SubSeqFull
  <2>. HIDE DEF Same, N, w
  <2>3. Same(SubSeq(u, 1, m + (N - m)))
    BY <2>1
  <2>. QED
    BY <2>1, <2>2, <2>3
<1>. QED
  BY <1>4

\* A byte that completes a mark, or shows that the UTF-16 LE mark was one, completes
\* no code unit.
LEMMA MarkCompleted ==
  ASSUME NEW w \in Seq(Byte), NEW b \in Byte, Undecided(w),
         ~ Undecided(Append(w, b)), Marked(Append(w, b)) # {}, ~ Misread(Append(w, b))
  PROVE  LET s == selected_for(Append(w, b))
         IN  s \in Selections /\ units_of(s, after_mark(s, Append(w, b))) = <<>>
<1>. DEFINE u == Append(w, b)
            n == Len(w)
            m == Len(u)
            Is(s, rest) == /\ ~ Undecided(u) /\ selected_for(u) = s
                           /\ s \in Selections /\ after_mark(s, u) = rest
<1>1. /\ u \in Seq(Byte) /\ n \in Nat /\ m = n + 1 /\ u[n + 1] = b
      /\ \A i \in 1 .. n : u[i] = w[i]
  BY Longer
<1>2. \/ n < 3 /\ (n >= 1 => w[1] = 239) /\ (n >= 2 => w[2] = 187)
      \/ n < 2 /\ (n >= 1 => w[1] \in {254, 255})
      \/ /\ n < 4 /\ (n >= 1 => w[1] = 0) /\ (n >= 2 => w[2] = 0)
         /\ n >= 3 => w[3] = 254
      \/ /\ n < 4 /\ (n >= 1 => w[1] = 255) /\ (n >= 2 => w[2] = 254)
         /\ n >= 3 => w[3] = 0
  BY MarkTable
<1>. HIDE DEF u
<1>3. \/ m >= 3 /\ u[1] = 239 /\ u[2] = 187 /\ u[3] = 191
      \/ m >= 2 /\ u[1] = 254 /\ u[2] = 255
      \/ m >= 2 /\ u[1] = 255 /\ u[2] = 254
      \/ m >= 4 /\ u[1] = 0 /\ u[2] = 0 /\ u[3] = 254 /\ u[4] = 255
      \/ m >= 4 /\ u[1] = 255 /\ u[2] = 254 /\ u[3] = 0 /\ u[4] = 0
  <2>1. \/ selection(8, "be") \in Marked(u) \/ selection(16, "be") \in Marked(u)
        \/ selection(16, "le") \in Marked(u) \/ selection(32, "be") \in Marked(u)
        \/ selection(32, "le") \in Marked(u)
    BY NoMark DEF u
  <2>. QED
    BY <1>1, <2>1, MarkTable DEF m
<1>4. ~ (\/ m < 3 /\ (m >= 1 => u[1] = 239) /\ (m >= 2 => u[2] = 187)
         \/ m < 2 /\ (m >= 1 => u[1] \in {254, 255})
         \/ /\ m < 4 /\ (m >= 1 => u[1] = 0) /\ (m >= 2 => u[2] = 0)
            /\ m >= 3 => u[3] = 254
         \/ /\ m < 4 /\ (m >= 1 => u[1] = 255) /\ (m >= 2 => u[2] = 254)
            /\ m >= 3 => u[3] = 0)
  BY <1>1, MarkTable DEF m, u
<1>5. ~ (m >= 4 /\ u[1] = 255 /\ u[2] = 254 /\ u[3] = 0 /\ u[4] # 0)
  BY <1>1, MisreadIs DEF m, u
<1>6. /\ m = 3 /\ u[1] = 239 /\ u[2] = 187 /\ u[3] = 191 => Is(selection(8, "be"), <<>>)
      /\ m = 2 /\ u[1] = 254 /\ u[2] = 255 => Is(selection(16, "be"), <<>>)
      /\ m = 4 /\ u[1] = 0 /\ u[2] = 0 /\ u[3] = 254 /\ u[4] = 255 => Is(selection(32, "be"), <<>>)
      /\ m = 4 /\ u[1] = 255 /\ u[2] = 254 /\ u[3] = 0 /\ u[4] = 0 => Is(selection(32, "le"), <<>>)
      /\ m = 3 /\ u[1] = 255 /\ u[2] = 254 /\ u[3] # 0 => Is(selection(16, "le"), <<u[3]>>)
  BY <1>1, FoundMark
<1>. HIDE DEF n, m, Is
<1>7. \/ m = 3 /\ u[1] = 239 /\ u[2] = 187 /\ u[3] = 191
      \/ m = 2 /\ u[1] = 254 /\ u[2] = 255
      \/ m = 4 /\ u[1] = 0 /\ u[2] = 0 /\ u[3] = 254 /\ u[4] = 255
      \/ m = 4 /\ u[1] = 255 /\ u[2] = 254 /\ u[3] = 0 /\ u[4] = 0
      \/ m = 3 /\ u[1] = 255 /\ u[2] = 254 /\ u[3] # 0
  BY <1>1, <1>2, <1>3, <1>4, <1>5
<1>8. ASSUME NEW s, Is(s, <<>>) PROVE s \in Selections /\ units_of(s, after_mark(s, u)) = <<>>
  <2>1. s \in Selections /\ <<>> \in Seq(Byte) /\ Len(<<>>) = 0 /\ after_mark(s, u) = <<>>
    BY <1>8 DEF Is
  <2>2. Len(<<>>) < width(s)
    BY <2>1, SelectionFields
  <2>. QED
    BY <2>1, <2>2, UnitsOfFew
<1>9. ASSUME Is(selection(16, "le"), <<u[3]>>), m = 3
      PROVE  units_of(selection(16, "le"), after_mark(selection(16, "le"), u)) = <<>>
  <2>. DEFINE s == selection(16, "le")
              rest == <<u[3]>>
  <2>1. s \in Selections /\ s.encoding = 16 /\ after_mark(s, u) = rest
    BY <1>9, SelectionsAre DEF Is
  <2>2. rest \in Seq(Byte) /\ Len(rest) = 1
    <3>1. 3 \in 1 .. Len(u)
      BY <1>9 DEF m
    <3>2. u[3] \in Byte
      BY <1>1, <3>1
    <3>. QED
      BY <3>2
  <2>. HIDE DEF s, rest
  <2>3. Len(rest) < width(s)
    BY <2>1, <2>2, SelectionFields
  <2>. QED
    BY <2>1, <2>2, <2>3, UnitsOfFew DEF s
<1>10. PICK s : Is(s, <<>>) \/ (s = selection(16, "le") /\ m = 3 /\ Is(s, <<u[3]>>))
  BY <1>6, <1>7
<1>11. s \in Selections /\ selected_for(u) = s
  BY <1>10 DEF Is
<1>12. units_of(s, after_mark(s, u)) = <<>>
  BY <1>8, <1>9, <1>10
<1>. QED
  BY <1>11, <1>12 DEF u

\* What one that runs writes at once: one code point, unless it reads malformed UTF-16.
LEMMA RunningFits ==
  ASSUME NEW e \in Encodings, NEW s \in RunStates, NEW buffer \in Buffer,
         NEW coder \in Object(s.encoding, e), NEW b \in Byte
  PROVE  LET r == byte_call(e, running(s, buffer, coder), b)
             q == byte_end_cp(e, r.coder)
         IN  /\ Len(r.out) \in Nat /\ Len(r.out \o q.out) \in Nat
             /\ s.encoding # 16 \/ byte_well_formed(e, r.coder)
                  => Len(r.out) <= longest_sequence(e)
             /\ s.encoding # 16 \/ byte_well_formed(e, q.coder)
                  => Len(r.out \o q.out) <= longest_sequence(e)
<1>. DEFINE f == s.encoding
            r == byte_call(e, running(s, buffer, coder), b)
            q == byte_end_cp(e, r.coder)
            L == longest_sequence(e)
<1>1. PICK n \in RunStates, kept \in Buffer :
        /\ n.encoding = f
        /\ \/ r = Result(running(n, kept, coder), <<>>)
           \/ \E unit \in CodeUnit(f) :
                r = Result(running(n, kept, call(f, e, coder, unit).coder),
                           call(f, e, coder, unit).out)
  BY RunningCall
<1>2. f \in Encodings /\ L \in Nat /\ coder \in Object(f, e)
  <2>1. f \in Encodings
    BY RunState
  <2>. QED
    BY <2>1, Longest
<1>. HIDE DEF f, r, L
<1>3. ASSUME NEW c \in Object(f, e), r.coder = running(n, kept, c)
      PROVE  /\ q.out = end_cp(f, e, c).out
             /\ byte_well_formed(e, q.coder) = (TRUE => well_formed(f, e, end_cp(f, e, c).coder))
             /\ byte_well_formed(e, r.coder) = (TRUE => well_formed(f, e, c))
  <2>. DEFINE z == end_cp(f, e, c)
  <2>1. byte_end_cp(e, running(n, kept, c))
          = Result(running(n, kept, end_cp(n.encoding, e, c).coder), end_cp(n.encoding, e, c).out)
    BY EndOfStream
  <2>2. q = Result(running(n, kept, z.coder), z.out)
    BY <1>1, <1>3, <2>1
  <2>. HIDE DEF z, q
  <2>3. q.coder = running(n, kept, z.coder) /\ q.out = z.out
    BY <2>2, ResultFields
  <2>4. \A x : byte_well_formed(e, running(n, kept, x)) = (TRUE => well_formed(n.encoding, e, x))
    BY ByteKnows
  <2>5. /\ byte_well_formed(e, running(n, kept, z.coder)) = (TRUE => well_formed(f, e, z.coder))
        /\ byte_well_formed(e, running(n, kept, c)) = (TRUE => well_formed(f, e, c))
    BY <1>1, <2>4
  <2>. QED
    BY <1>3, <2>3, <2>5 DEF z
<1>. HIDE DEF q
<1>4. CASE r = Result(running(n, kept, coder), <<>>)
  <2>. DEFINE z == end_cp(f, e, coder)
  <2>1. r.coder = running(n, kept, coder) /\ r.out = <<>>
    BY <1>4, ResultFields
  <2>2. q.out = z.out
    BY <1>2, <1>3, <2>1
  <2>3. Len(z.out) \in Nat /\ Len(z.out) <= L
    BY <1>2, EndWrites DEF L
  <2>4. z.out \in Seq(EncodedUnit(e))
    BY <1>2, CallReturned DEF Returned
  <2>. HIDE DEF z
  <2>5. r.out \o q.out = z.out /\ Len(r.out) = 0
    BY <2>1, <2>2, <2>4
  <2>. QED
    BY <1>2, <2>3, <2>5 DEF r, q, L
<1>5. ASSUME NEW unit \in CodeUnit(f),
             r = Result(running(n, kept, call(f, e, coder, unit).coder), call(f, e, coder, unit).out)
      PROVE  /\ Len(r.out) \in Nat /\ Len(r.out \o q.out) \in Nat
             /\ f # 16 \/ byte_well_formed(e, r.coder) => Len(r.out) <= L
             /\ f # 16 \/ byte_well_formed(e, q.coder) => Len(r.out \o q.out) <= L
  <2>. DEFINE y == call(f, e, coder, unit)
              z == end_cp(f, e, y.coder)
  <2>1. r.coder = running(n, kept, y.coder) /\ r.out = y.out
    BY <1>5, ResultFields
  <2>2. y.coder \in Object(f, e)
    BY <1>2, CallReturned DEF Returned
  <2>3. /\ Len(y.out) \in Nat
        /\ f # 16 \/ well_formed(f, e, y.coder) => Len(y.out) <= L
    BY <1>2, CallWrites DEF L
  <2>4. /\ Len(y.out \o z.out) \in Nat
        /\ f # 16 \/ well_formed(f, e, z.coder) => Len(y.out \o z.out) <= L
    BY <1>2, LastWrites DEF L
  <2>. HIDE DEF y, z
  <2>5. /\ q.out = z.out
        /\ byte_well_formed(e, q.coder) = (TRUE => well_formed(f, e, z.coder))
        /\ byte_well_formed(e, r.coder) = (TRUE => well_formed(f, e, y.coder))
    BY <1>3, <2>1, <2>2 DEF z
  <2>. QED
    BY <2>1, <2>3, <2>4, <2>5, Zenon
<1>. QED
  BY <1>1, <1>4, <1>5 DEF f, r, q, L

\* And one that has just started to run: one code point at most, unless it had to give
\* a mark up.
LEMMA StartFits ==
  ASSUME NEW e \in Encodings, NEW w \in Seq(Byte), NEW b \in Byte, NEW x, Waits(w, x, <<>>),
         ~ Undecided(Append(w, b)),
         w = <<>> \/ (Marked(Append(w, b)) # {} /\ ~ Misread(Append(w, b)))
  PROVE  LET r == byte_call(e, x, b)
             q == byte_end_cp(e, r.coder)
         IN  /\ Len(r.out) \in Nat /\ Len(r.out) <= longest_sequence(e)
             /\ Len(r.out \o q.out) \in Nat /\ Len(r.out \o q.out) <= longest_sequence(e)
<1>. DEFINE v == Append(w, b)
            r == byte_call(e, x, b)
            q == byte_end_cp(e, r.coder)
            L == longest_sequence(e)
            s == selected_for(v)
            f == s.encoding
            units == units_of(s, after_mark(s, v))
            c == fed(f, e, units)
            n == run_state(s, after_mark(s, v))
<1>1. v \in Seq(Byte) /\ Len(v) = Len(w) + 1 /\ v[Len(w) + 1] = b /\ Len(w) \in Nat
  BY Longer
<1>2. Converts(e, v, r.coder, r.out)
  <2>1. Waits(v, r.coder, r.out) \/ Converts(e, v, r.coder, r.out)
    BY WaitingStep
  <2>. HIDE DEF r
  <2>. QED
    BY <2>1 DEF Waits
<1>3. s \in Selections /\ RunsOn(e, s, after_mark(s, v), r.coder, r.out)
  <2>. HIDE DEF r
  <2>. QED
    BY <1>2 DEF Converts
<1>4. PICK buffer \in Buffer : r.coder = running(n, buffer, c.coder) /\ r.out = c.out
  <2>. HIDE DEF r, s
  <2>. QED
    BY <1>3 DEF RunsOn, RunsWith
<1>5. after_mark(s, v) \in Seq(Byte) /\ f \in Encodings /\ f # std_byte
  <2>1. after_mark(s, v) \in Seq(Byte)
    BY <1>1, <1>3, AfterMark
  <2>2. f \in Encodings
    BY <1>3, SelectionFields
  <2>. QED
    BY <2>1, <2>2 DEF Encodings, std_byte
<1>6. n \in RunStates /\ n.encoding = f
  <2>. HIDE DEF s
  <2>. QED
    BY <1>3, <1>5, RunStateIs
<1>7. q.out = end_cp(f, e, c.coder).out
  <2>. DEFINE z == end_cp(f, e, c.coder)
  <2>1. byte_end_cp(e, running(n, buffer, c.coder))
          = Result(running(n, buffer, end_cp(n.encoding, e, c.coder).coder),
                   end_cp(n.encoding, e, c.coder).out)
    <3>. HIDE DEF n, c
    <3>. QED
      BY <1>6, EndOfStream
  <2>. HIDE DEF r, n, c, f
  <2>2. q = Result(running(n, buffer, z.coder), z.out)
    BY <1>4, <1>6, <2>1
  <2>. HIDE DEF q, z
  <2>3. q.out = z.out
    BY <2>2, ResultFields
  <2>. QED
    BY <2>3 DEF z
<1>8. L \in Nat /\ transcoder(f, e) \in Object(f, e)
  <2>. HIDE DEF f
  <2>. QED
    BY <1>5, Longest, CallReturned
<1>. HIDE DEF r, q, v
<1>9. CASE w # <<>>
  <2>1. Undecided(w)
    BY DEF Waits
  <2>2. units = <<>>
    BY <1>9, <2>1, MarkCompleted DEF v
  <2>. HIDE DEF units, f, s
  <2>3. c = Result(transcoder(f, e), <<>>)
    BY <1>5, <2>2, FedNothing DEF any_transcoder
  <2>. HIDE DEF c
  <2>4. c.coder = transcoder(f, e) /\ c.out = <<>>
    BY <2>3, ResultFields
  <2>. DEFINE z == end_cp(f, e, transcoder(f, e))
  <2>5. Len(z.out) \in Nat /\ Len(z.out) <= L
    BY <1>5, <1>8, EndWrites
  <2>6. z.out \in Seq(EncodedUnit(e))
    BY <1>5, <1>8, CallReturned DEF Returned
  <2>7. q.out = z.out /\ r.out = <<>>
    BY <1>4, <1>7, <2>4
  <2>. HIDE DEF z, L
  <2>8. r.out \o q.out = z.out /\ Len(r.out) = 0
    BY <2>6, <2>7
  <2>. QED
    BY <1>8, <2>5, <2>8 DEF r, q, L
<1>10. CASE w = <<>>
  <2>. DEFINE t == transcoder(8, e)
              y == call(8, e, t, b)
              z == end_cp(8, e, y.coder)
  <2>1. Len(v) = 1 /\ v = <<b>>
    BY <1>1, <1>10 DEF v
  <2>2. Marked(v) = {}
    <3>1. Len(v) < 2 /\ Len(v) < 3 /\ Len(v) < 4
      BY <2>1
    <3>. HIDE DEF s
    <3>2. selection(8, "be") \notin Marked(v)
      BY <1>1, <3>1, MarkTable
    <3>3. selection(16, "be") \notin Marked(v) /\ selection(16, "le") \notin Marked(v)
      BY <1>1, <3>1, MarkTable
    <3>4. selection(32, "be") \notin Marked(v) /\ selection(32, "le") \notin Marked(v)
      BY <1>1, <3>1, MarkTable
    <3>. QED
      BY <3>2, <3>3, <3>4, NoMark
  <2>3. s = utf8_selected /\ after_mark(s, v) = v
    BY <2>2, SelectsUtf8
  <2>4. units = <<b>>
    BY <1>1, <2>1, <2>3, UnitsOfUtf8
  <2>5. f = 8
    BY <2>3, SelectionsAre DEF utf8_selected
  <2>6. /\ 8 \in Encodings /\ 8 # std_byte /\ b \in CodeUnit(8) /\ <<>> \in Seq(CodeUnit(8))
        /\ Append(<<>>, b) = <<b>>
    BY DEF Encodings, std_byte, CodeUnit
  <2>7. fed(8, e, <<b>>) = then(fed(8, e, <<>>), any_call(8, e, fed(8, e, <<>>).coder, b))
    <3>1. ASSUME NEW g, NEW before \in Seq(CodeUnit(8))
          PROVE  fed(g, e, Append(before, b))
                   = then(fed(g, e, before), any_call(g, e, fed(g, e, before).coder, b))
      BY <2>6, FedAppend
    <3>2. fed(8, e, Append(<<>>, b))
            = then(fed(8, e, <<>>), any_call(8, e, fed(8, e, <<>>).coder, b))
      BY <2>6, <3>1, Zenon
    <3>. QED
      BY <2>6, <3>2, Zenon
  <2>8. fed(8, e, <<>>).coder = t /\ fed(8, e, <<>>).out = <<>>
    <3>1. fed(8, e, <<>>) = Result(t, <<>>)
      BY <2>6, FedNothing DEF any_transcoder
    <3>. HIDE DEF t
    <3>. QED
      BY <3>1, ResultFields
  <2>9. t \in Object(8, e)
    BY <2>6, CallReturned
  <2>10. y.out \in Seq(EncodedUnit(e))
    <3>. HIDE DEF t
    <3>. QED
      BY <2>6, <2>9, CallReturned DEF Returned
  <2>11. Len(y.out) \in Nat /\ Len(y.out) <= L
    <3>. HIDE DEF t
    <3>1. 8 # 16
      OBVIOUS
    <3>. QED
      BY <2>6, <2>9, <3>1, CallWrites
  <2>12. Len(y.out \o z.out) \in Nat /\ Len(y.out \o z.out) <= L
    <3>. HIDE DEF t
    <3>1. 8 # 16
      OBVIOUS
    <3>. QED
      BY <2>6, <2>9, <3>1, LastWrites
  <2>13. c = then(fed(8, e, <<>>), any_call(8, e, fed(8, e, <<>>).coder, b))
    BY <2>4, <2>5, <2>7
  <2>14. any_call(8, e, fed(8, e, <<>>).coder, b) = y
    BY <2>6, <2>8 DEF any_call
  <2>. HIDE DEF y, c, t
  <2>15. c.coder = y.coder /\ c.out = y.out
    <3>1. c = then(fed(8, e, <<>>), y)
      BY <2>13, <2>14
    <3>2. /\ then(fed(8, e, <<>>), y).coder = y.coder
          /\ then(fed(8, e, <<>>), y).out = fed(8, e, <<>>).out \o y.out
      BY ResultFields DEF then
    <3>3. <<>> \o y.out = y.out
      BY <2>10
    <3>. QED
      BY <2>8, <3>1, <3>2, <3>3
  <2>. HIDE DEF f, z, L
  <2>16. r.out = y.out /\ q.out = z.out
    BY <1>4, <1>7, <2>5, <2>15 DEF z
  <2>. QED
    BY <2>11, <2>12, <2>16 DEF r, q, L
<1>. QED
  BY <1>9, <1>10

\* The output of bytes overflows the array only where a mark is given up, or where the
\* input is malformed UTF-16.
LEMMA ByteArrayFits ==
  ASSUME NEW e \in Encodings, NEW u \in Seq(Byte), NEW n \in 1 .. Len(u),
         Len(array_after(std_byte, e, u, n)) > max_output_bytes(std_byte, e)
  PROVE  MayOverflow(std_byte, e, u)
<1>. SUFFICES ASSUME ~ MayOverflow(std_byte, e, u)
              PROVE  /\ Len(array_after(std_byte, e, u, n)) \in Nat
                     /\ Len(array_after(std_byte, e, u, n)) <= longest_sequence(e)
  <2>1. max_output_bytes(std_byte, e) = longest_sequence(e) /\ longest_sequence(e) \in Nat
    BY DEF max_output_bytes, longest_sequence, std_byte, Encodings
  <2>. QED
    BY <2>1
<1>. DEFINE N == Len(u)
            w == SubSeq(u, 1, n - 1)
            b == u[n]
            v == SubSeq(u, 1, n)
            a == upto(std_byte, e, u, n - 1)
            r == byte_call(e, a.coder, b)
            q == byte_end_cp(e, r.coder)
            L == longest_sequence(e)
<1>0. std_byte \in InputTypes /\ u \in Seq(AnyUnit(std_byte)) /\ L \in Nat
  <2>1. L \in Nat
    BY DEF longest_sequence, Encodings
  <2>. QED
    BY <2>1 DEF InputTypes, AnyUnit
<1>1. n \in 0 .. N /\ n - 1 \in 0 .. N /\ b \in Byte /\ N \in Nat
  OBVIOUS
<1>2. w \in Seq(Byte) /\ Append(w, b) = v /\ Len(w) = n - 1 /\ (w # <<>> => w[1] = u[1])
  <2>1. w \in Seq(Byte) /\ Len(w) = n - 1 /\ \A i \in 1 .. n - 1 : w[i] = u[i]
    BY <1>1
  <2>2. v \in Seq(Byte) /\ Len(v) = n /\ \A i \in 1 .. n : v[i] = u[i]
    BY <1>1
  <2>. DEFINE y == Append(w, b)
  <2>3. /\ y \in Seq(Byte) /\ Len(y) = (n - 1) + 1 /\ y[(n - 1) + 1] = b
        /\ \A i \in 1 .. n - 1 : y[i] = w[i]
    <3>. HIDE DEF w, b
    <3>. QED
      BY <1>1, <2>1, Longer
  <2>4. w # <<>> => w[1] = u[1]
    <3>. HIDE DEF w
    <3>. QED
      BY <1>1, <2>1, EmptySeq
  <2>. HIDE DEF w, v, y
  <2>5. \A i \in 1 .. n : y[i] = v[i]
    BY <1>1, <2>1, <2>2, <2>3
  <2>6. y = v
    BY <1>1, <2>2, <2>3, <2>5, SeqEqual
  <2>. QED
    BY <2>1, <2>4, <2>6 DEF y
<1>3. nth_call(std_byte, e, u, n) = r
  BY DEF nth_call, any_call
<1>4. upto(std_byte, e, u, n).coder = r.coder
  <2>. HIDE DEF r
  <2>. QED
    BY <1>0, <1>3, ArrayAfter
<1>5. array_after(std_byte, e, u, n) = IF n = N THEN r.out \o q.out ELSE r.out
  <2>. HIDE DEF r
  <2>. QED
    BY <1>3, <1>4 DEF array_after, any_end_cp
<1>6. n = N => v = u /\ fed_all(std_byte, e, u).coder = q.coder
  <2>1. v = u <=> v = SubSeq(u, 1, N)
    BY SubSeqFull
  <2>. HIDE DEF r, v
  <2>2. fed_all(std_byte, e, u) = then(upto(std_byte, e, u, N), byte_end_cp(e, upto(std_byte, e, u, N).coder))
    BY UptoEnds DEF ended_by_hand, any_end_cp
  <2>3. fed_all(std_byte, e, u).coder = byte_end_cp(e, upto(std_byte, e, u, N).coder).coder
    BY <2>2, ResultFields DEF then
  <2>. QED
    BY <1>4, <2>1, <2>3 DEF v
<1>7. Waits(w, a.coder, a.out) \/ Converts(e, w, a.coder, a.out)
  BY <1>2, BytesFed DEF upto
<1>8. ~ Abandoned(u) /\ (Announced(u).encoding = 16 => Truth(std_byte, e, u))
  BY DEF MayOverflow
<1>9. Truth(std_byte, e, u) => byte_well_formed(e, r.coder)
  <2>1. any_well_formed(std_byte, e, fed_all(std_byte, e, u).coder)
          => any_well_formed(std_byte, e, upto(std_byte, e, u, n).coder)
    BY <1>0, <1>1, UptoKnows
  <2>. HIDE DEF r
  <2>. QED
    BY <1>4, <2>1 DEF Truth, any_well_formed
<1>10. n = N => (Truth(std_byte, e, u) => byte_well_formed(e, q.coder))
  <2>. HIDE DEF q
  <2>. QED
    BY <1>6 DEF Truth, any_well_formed
<1>11. u # <<>>
  BY <1>1
<1>. HIDE DEF a, w, v, b
<1>12. CASE Converts(e, w, a.coder, a.out)
  <2>. DEFINE s == selected_for(w)
              units == units_of(s, after_mark(s, w))
              c == fed(s.encoding, e, units)
              m == run_state(s, after_mark(s, w))
  <2>1. /\ ~ Undecided(w) /\ s \in Selections
        /\ RunsOn(e, s, after_mark(s, w), a.coder, a.out)
    BY <1>12 DEF Converts
  <2>2. after_mark(s, w) \in Seq(Byte)
    BY <1>1, <1>2, <2>1, AfterMark
  <2>3. PICK buffer \in Buffer : a.coder = running(m, buffer, c.coder)
    <3>. HIDE DEF s
    <3>. QED
      BY <2>1 DEF RunsOn, RunsWith
  <2>4. m \in RunStates /\ m.encoding = s.encoding /\ s.encoding \in Encodings
    <3>. HIDE DEF s
    <3>. QED
      BY <2>1, <2>2, RunStateIs, SelectionFields
  <2>5. c.coder \in Object(m.encoding, e)
    <3>1. units \in Seq(CodeUnit(s.encoding))
      <4>. HIDE DEF s
      <4>. QED
        BY <2>1, <2>2, UnitsOfType
    <3>. HIDE DEF s, units, m
    <3>. QED
      BY <2>4, <3>1, FedReturned DEF Returned
  <2>6. s.encoding = 16 => Truth(std_byte, e, u)
    <3>1. utf8_selected.encoding # 16
      BY SelectionsAre DEF utf8_selected
    <3>2. s.encoding = 16 => s = Announced(w)
      BY <3>1 DEF selected_for
    <3>3. Announced(u) = Announced(w)
      BY <1>1, <2>1, StillDecided DEF w
    <3>. QED
      BY <1>8, <3>2, <3>3
  <2>. HIDE DEF c, m, s
  <2>7. /\ Len(r.out) \in Nat /\ Len(r.out \o q.out) \in Nat
        /\ m.encoding # 16 \/ byte_well_formed(e, r.coder) => Len(r.out) <= L
        /\ m.encoding # 16 \/ byte_well_formed(e, q.coder) => Len(r.out \o q.out) <= L
    BY <1>1, <2>3, <2>4, <2>5, RunningFits
  <2>. HIDE DEF r, q, L, N
  <2>8. CASE n = N
    <3>1. m.encoding # 16 \/ byte_well_formed(e, q.coder)
      BY <1>10, <2>4, <2>6, <2>8, Zenon
    <3>2. Len(r.out \o q.out) <= L
      BY <2>7, <3>1, Zenon
    <3>. QED
      BY <1>5, <2>7, <2>8, <3>2, Zenon DEF L
  <2>9. CASE n # N
    <3>1. m.encoding # 16 \/ byte_well_formed(e, r.coder)
      BY <1>9, <2>4, <2>6, Zenon
    <3>2. Len(r.out) <= L
      BY <2>7, <3>1, Zenon
    <3>. QED
      BY <1>5, <2>7, <2>9, <3>2, Zenon DEF L
  <2>. QED
    BY <2>8, <2>9 DEF L
<1>13. CASE Waits(w, a.coder, a.out)
  <2>1. Waits(w, a.coder, <<>>) /\ Undecided(w)
    BY <1>13 DEF Waits
  <2>2. CASE Undecided(v)
    <3>1. Waits(v, r.coder, r.out) \/ Converts(e, v, r.coder, r.out)
      BY <1>1, <1>2, <2>1, WaitingStep
    <3>. HIDE DEF r
    <3>2. r.out = <<>>
      BY <2>2, <3>1 DEF Waits, Converts
    <3>3. n # N
      <4>. SUFFICES ASSUME n = N PROVE FALSE
        OBVIOUS
      <4>1. Undecided(u)
        BY <1>6, <2>2
      <4>2. Undecided(<<u[1]>>)
        BY <1>11, <4>1, FirstUndecided
      <4>. QED
        BY <1>8, <1>11, <4>1, <4>2 DEF Abandoned
    <3>4. Len(r.out) = 0
      BY <3>2
    <3>. HIDE DEF L, N, q
    <3>. QED
      BY <1>0, <1>5, <3>3, <3>4 DEF L
  <2>3. CASE ~ Undecided(v)
    <3>1. w = <<>> \/ (Marked(v) # {} /\ ~ Misread(v))
      <4>. SUFFICES ASSUME w # <<>>, Marked(v) = {} \/ Misread(v) PROVE FALSE
        OBVIOUS
      <4>1. Undecided(<<u[1]>>)
        BY <1>2, <2>1, FirstUndecided
      <4>2. Marked(u) = Marked(v) /\ (Misread(u) <=> Misread(v))
        BY <1>1, <2>3, StillDecided DEF v
      <4>. QED
        BY <1>8, <1>11, <4>1, <4>2 DEF Abandoned
    <3>2. /\ Len(r.out) \in Nat /\ Len(r.out) <= L
          /\ Len(r.out \o q.out) \in Nat /\ Len(r.out \o q.out) <= L
      BY <1>1, <1>2, <2>1, <2>3, <3>1, StartFits
    <3>. HIDE DEF r, q, L, N
    <3>. QED
      BY <1>5, <3>2 DEF L
  <2>. QED
    BY <2>2, <2>3
<1>. QED
  BY <1>7, <1>12, <1>13

-----------------------------------------------------------------------------
(***************************************************************************)
(* The inductive invariant.                                                *)
(***************************************************************************)
\* An iterator that the program holds: vs are the views and wf what each has found.
Sound(f, e, u, sp, vs, wf, s, r) ==
  /\ s.parent \in vs /\ Stands(f, e, u, sp, s, r)
  /\ Len(s.out) <= max_output_bytes(f, e)
  /\ wf[s.parent] => any_well_formed(f, e, s.coder)

AccusesMalformed(f, e, u, wf) == \A v \in Views : ~ wf[v] => ~ Truth(f, e, u)

IInv ==
  /\ Source
  /\ views \subseteq Views /\ view_well_formed \in [Views -> BOOLEAN]
  /\ failed \in {"nothing", "overflow", "empty"}
  /\ it = [i \in Iterators |-> it[i]] /\ read = [i \in Iterators |-> read[i]]
  /\ \A i \in Iterators :
       it[i] # none =>
         Sound(from, to, base, single_pass, views, view_well_formed, it[i], read[i])
  /\ AccusesMalformed(from, to, base, view_well_formed)
  /\ failed = "overflow" => MayOverflow(from, to, base)

\* What the views are made of, as SourcesAssumption has it.
LEMMA SourceOf ==
  ASSUME NEW s \in Sources, from = s[1], to = s[2], base = s[3], single_pass = s[4]
  PROVE  Source
<1>1. /\ s[1] \in InputTypes /\ s[2] \in Encodings /\ s[4] \in BOOLEAN
      /\ s[3] \in Seq(CASE s[1] \in {std_byte, 8} -> Byte [] s[1] = 16 -> CodeUnit16 [] s[1] = 32 -> Nat)
  BY SourcesAssumption
<1>2. AnyUnit(s[1]) = CASE s[1] \in {std_byte, 8} -> Byte [] s[1] = 16 -> CodeUnit16 [] s[1] = 32 -> Nat
  BY <1>1 DEF AnyUnit, CodeUnit, InputTypes, Encodings, std_byte
<1>. QED
  BY <1>1, <1>2 DEF Source

\* An iterator that stands anywhere is one, and it knows nothing that is not true.
LEMMA StandsKnows ==
  ASSUME Source, NEW s, NEW r, Stands(from, to, base, single_pass, s, r)
  PROVE  /\ s # none
         /\ Truth(from, to, base) \in BOOLEAN
         /\ Truth(from, to, base) => any_well_formed(from, to, s.coder)
<1>. DEFINE N == Len(base)
<1>1. N \in Nat /\ s.current \in 1 .. N + 1 /\ s.next \in s.current .. N + 1
  BY DEF Source, Stands, Placed
<1>2. s # none
  <2>1. none.current = 0
    BY DEF none
  <2>. QED
    BY <1>1, <2>1
<1>3. Truth(from, to, base) \in BOOLEAN
  <2>1. fed_all(from, to, base).coder \in AnyObject(from, to)
    BY AnyFedReturned DEF Source, Returned
  <2>. QED
    BY <2>1, AnyKnows DEF Source, Truth
<1>4. CASE s.next = N + 1
  <2>1. any_well_formed(from, to, s.coder) <=> Truth(from, to, base)
    BY <1>4 DEF Stands, AtLast, Truth
  <2>. QED
    BY <1>2, <1>3, <2>1
<1>5. CASE s.next # N + 1
  <2>1. s.next - 1 \in 0 .. N /\ s.coder = upto(from, to, base, s.next - 1).coder
    BY <1>1, <1>5 DEF Stands, Midway
  <2>2. Truth(from, to, base)
          => any_well_formed(from, to, upto(from, to, base, s.next - 1).coder)
    BY <2>1, UptoKnows DEF Source, Truth
  <2>. QED
    BY <1>2, <1>3, <2>1, <2>2
<1>. QED
  BY <1>4, <1>5

\* What other iterators know is not changed by what the view is told.
LEMMA SoundStill ==
  ASSUME NEW f, NEW e, NEW u, NEW sp, NEW vs, NEW more, vs \subseteq more, NEW wf, NEW later,
         \A v \in vs : later[v] => wf[v],
         NEW s, NEW r, Sound(f, e, u, sp, vs, wf, s, r)
  PROVE  Sound(f, e, u, sp, more, later, s, r)
  BY DEF Sound

\* The iterator i becomes x, or the array overflows.
LEMMA BecomesKeeps ==
  ASSUME IInv, Running, NEW i \in Iterators, NEW x, NEW r, Becomes(i, x, r), UNCHANGED <<source, views>>,
         x.parent \in views, Stands(from, to, base, single_pass, x, r),
         overflows(x) => MayOverflow(from, to, base)
  PROVE  IInv'
<1>1. from' = from /\ to' = to /\ base' = base /\ single_pass' = single_pass /\ views' = views
  BY DEF source
<1>2. Source' /\ views' \subseteq Views
  BY <1>1 DEF IInv, Source
<1>3. CASE overflows(x)
  <2>1. failed' = "overflow" /\ view_well_formed' = view_well_formed /\ it' = it /\ read' = read
    BY <1>3 DEF Becomes
  <2>2. AccusesMalformed(from', to', base', view_well_formed')
    BY <1>1, <2>1 DEF IInv
  <2>3. MayOverflow(from', to', base')
    BY <1>1, <1>3
  <2>. QED
    BY <1>1, <1>2, <2>1, <2>2, <2>3 DEF IInv
<1>4. CASE ~ overflows(x)
  <2>. DEFINE p == x.parent
              known == any_well_formed(from, to, x.coder)
  <2>1. /\ it' = [it EXCEPT ![i] = x] /\ read' = [read EXCEPT ![i] = r] /\ failed' = failed
        /\ view_well_formed' = [view_well_formed EXCEPT ![p] = @ /\ known]
    BY <1>4 DEF Becomes, Note
  <2>2. /\ it = [j \in Iterators |-> it[j]] /\ read = [j \in Iterators |-> read[j]]
        /\ view_well_formed \in [Views -> BOOLEAN] /\ p \in Views /\ p \in views
    BY DEF IInv
  <2>3. Truth(from, to, base) \in BOOLEAN /\ (Truth(from, to, base) => known)
    BY StandsKnows DEF IInv
  <2>. HIDE DEF known, p
  <2>4. /\ view_well_formed' \in [Views -> BOOLEAN]
        /\ \A v \in Views : view_well_formed'[v] => view_well_formed[v]
        /\ view_well_formed'[p] => known
        /\ \A v \in Views : ~ view_well_formed'[v] => ~ view_well_formed[v] \/ ~ known
    BY <2>1, <2>2
  <2>5. AccusesMalformed(from', to', base', view_well_formed')
    BY <1>1, <2>3, <2>4 DEF IInv, AccusesMalformed
  <2>6. /\ it' = [j \in Iterators |-> it'[j]] /\ read' = [j \in Iterators |-> read'[j]]
        /\ it'[i] = x /\ read'[i] = r
        /\ \A j \in Iterators \ {i} : it'[j] = it[j] /\ read'[j] = read[j]
    BY <2>1, <2>2
  <2>7. Sound(from, to, base, single_pass, views, view_well_formed', x, r)
    <3>1. x.out \in Seq(EncodedUnit(to)) /\ max_output_bytes(from, to) \in Nat
      BY DEF Stands, IsIterator, IInv, Source, max_output_bytes, longest_sequence, Encodings
    <3>2. Len(x.out) <= max_output_bytes(from, to)
      BY <1>4, <3>1 DEF overflows
    <3>. QED
      BY <2>2, <2>4, <3>2 DEF Sound, p, known
  <2>8. ASSUME NEW j \in Iterators, it'[j] # none
        PROVE  Sound(from', to', base', single_pass', views', view_well_formed', it'[j], read'[j])
    <3>1. CASE j = i
      BY <1>1, <2>6, <2>7, <3>1
    <3>2. CASE j # i
      <4>1. it'[j] = it[j] /\ read'[j] = read[j]
        BY <2>6, <3>2
      <4>2. Sound(from, to, base, single_pass, views, view_well_formed, it[j], read[j])
        BY <2>8, <4>1 DEF IInv
      <4>3. \A v \in views : view_well_formed'[v] => view_well_formed[v]
        BY <2>4 DEF IInv
      <4>4. Sound(from, to, base, single_pass, views, view_well_formed', it[j], read[j])
        BY <4>2, <4>3, SoundStill
      <4>. QED
        BY <1>1, <4>1, <4>4
    <3>. QED
      BY <3>1, <3>2
  <2>9. failed' = failed /\ failed = "nothing"
    BY <2>1 DEF Running
  <2>. QED
    BY <1>2, <2>4, <2>5, <2>6, <2>8, <2>9 DEF IInv
<1>. QED
  BY <1>3, <1>4

\* What fill writes past the end of the array.
LEMMA ArrayFits ==
  ASSUME Source, NEW n \in 1 .. Len(base),
         Len(array_after(from, to, base, n)) > max_output_bytes(from, to)
  PROVE  MayOverflow(from, to, base)
<1>1. CASE from # std_byte
  <2>1. from \in Encodings /\ base \in Seq(CodeUnit(from))
    BY <1>1 DEF Source, InputTypes, AnyUnit
  <2>2. /\ Len(array_after(from, to, base, n)) \in Nat
        /\ Len(array_after(from, to, base, n)) <= max_output_bytes(from, to)
    BY <2>1, ArrayOfText DEF Source
  <2>3. max_output_bytes(from, to) \in Nat
    BY <2>1, Longest DEF Source
  <2>. QED
    BY <2>2, <2>3
<1>2. CASE from = std_byte
  BY <1>2, ByteArrayFits DEF Source, AnyUnit
<1>. QED
  BY <1>1, <1>2

-----------------------------------------------------------------------------
(***************************************************************************)
(* The steps of a program.                                                 *)
(***************************************************************************)
\* The views exist when the program begins.
LEMMA InitHolds ==
  ASSUME Init
  PROVE  IInv
<1>1. Source
  BY SourceOf DEF Init
<1>2. views \subseteq Views
  BY ViewsAssumption DEF Init
<1>3. AccusesMalformed(from, to, base, view_well_formed)
  BY DEF Init, AccusesMalformed
<1>. QED
  BY <1>1, <1>2, <1>3 DEF Init, IInv

\* A view is copied.
LEMMA CopyViewKeeps ==
  ASSUME IInv, NEW v \in Views, NEW w \in Views, CopyView(v, w)
  PROVE  IInv'
<1>1. /\ from' = from /\ to' = to /\ base' = base /\ single_pass' = single_pass
      /\ it' = it /\ read' = read /\ failed' = failed
      /\ v \in views /\ w \notin views /\ views' = views \union {w}
      /\ view_well_formed' = [view_well_formed EXCEPT ![w] = view_well_formed[v]]
  BY DEF CopyView, source
<1>2. Source' /\ views' \subseteq Views
  BY <1>1 DEF IInv, Source
<1>3. /\ view_well_formed' \in [Views -> BOOLEAN]
      /\ \A x \in views : view_well_formed'[x] = view_well_formed[x]
      /\ \A x \in Views : view_well_formed'[x] = view_well_formed[IF x = w THEN v ELSE x]
  BY <1>1 DEF IInv
<1>4. AccusesMalformed(from', to', base', view_well_formed')
  <2>1. AccusesMalformed(from, to, base, view_well_formed)
    BY DEF IInv
  <2>2. AccusesMalformed(from, to, base, view_well_formed')
    BY <1>3, <2>1 DEF AccusesMalformed
  <2>. QED
    BY <1>1, <2>2
<1>5. ASSUME NEW i \in Iterators, it'[i] # none
      PROVE  Sound(from', to', base', single_pass', views', view_well_formed', it'[i], read'[i])
  <2>1. Sound(from, to, base, single_pass, views, view_well_formed, it[i], read[i])
    BY <1>1, <1>5 DEF IInv
  <2>2. \A x \in views : view_well_formed'[x] => view_well_formed[x]
    BY <1>3
  <2>3. views \subseteq views'
    BY <1>1
  <2>4. Sound(from, to, base, single_pass, views', view_well_formed', it[i], read[i])
    BY <2>1, <2>2, <2>3, SoundStill
  <2>. QED
    BY <1>1, <2>4
<1>6. failed' = "overflow" => MayOverflow(from', to', base')
  BY <1>1 DEF IInv
<1>7. /\ it' = [i \in Iterators |-> it'[i]] /\ read' = [i \in Iterators |-> read'[i]]
      /\ failed' \in {"nothing", "overflow", "empty"}
  BY <1>1 DEF IInv
<1>. QED
  BY <1>2, <1>3, <1>4, <1>5, <1>6, <1>7 DEF IInv

\* An iterator is copied or dropped, or fails to be read.
LEMMA CopyKeeps ==
  ASSUME IInv, NEW i \in Iterators,
         (\E j \in Iterators : Copy(i, j)) \/ Drop(i) \/ ReadNothing(i)
  PROVE  IInv'
<1>1. /\ from' = from /\ to' = to /\ base' = base /\ single_pass' = single_pass
      /\ views' = views /\ view_well_formed' = view_well_formed
      /\ failed' = failed \/ failed' = "empty"
  BY DEF Copy, Drop, ReadNothing, source
<1>2. Source'
  BY <1>1 DEF IInv, Source
<1>3. /\ it' = [k \in Iterators |-> it'[k]] /\ read' = [k \in Iterators |-> read'[k]]
      /\ \A k \in Iterators :
           \/ it'[k] = none
           \/ \E l \in Iterators : it'[k] = it[l] /\ read'[k] = read[l]
  <2>1. it = [k \in Iterators |-> it[k]] /\ read = [k \in Iterators |-> read[k]]
    BY DEF IInv
  <2>2. ASSUME NEW j \in Iterators, Copy(i, j)
        PROVE  /\ it' = [k \in Iterators |-> it'[k]] /\ read' = [k \in Iterators |-> read'[k]]
               /\ \A k \in Iterators : \E l \in Iterators : it'[k] = it[l] /\ read'[k] = read[l]
    <3>1. it' = [it EXCEPT ![j] = it[i]] /\ read' = [read EXCEPT ![j] = read[i]]
      BY <2>2 DEF Copy
    <3>2. /\ it'[j] = it[i] /\ read'[j] = read[i]
          /\ \A k \in Iterators \ {j} : it'[k] = it[k] /\ read'[k] = read[k]
          /\ it' = [k \in Iterators |-> it'[k]] /\ read' = [k \in Iterators |-> read'[k]]
      BY <2>1, <3>1
    <3>. QED
      BY <3>2
  <2>3. ASSUME Drop(i)
        PROVE  /\ it' = [k \in Iterators |-> it'[k]] /\ read' = [k \in Iterators |-> read'[k]]
               /\ \A k \in Iterators : it'[k] = none \/ (it'[k] = it[k] /\ read'[k] = read[k])
    <3>1. it' = [it EXCEPT ![i] = none] /\ read' = [read EXCEPT ![i] = <<>>]
      BY <2>3 DEF Drop
    <3>2. /\ it'[i] = none /\ \A k \in Iterators \ {i} : it'[k] = it[k] /\ read'[k] = read[k]
          /\ it' = [k \in Iterators |-> it'[k]] /\ read' = [k \in Iterators |-> read'[k]]
      BY <2>1, <3>1
    <3>3. ASSUME NEW k \in Iterators PROVE it'[k] = none \/ (it'[k] = it[k] /\ read'[k] = read[k])
      BY <3>2
    <3>. QED
      BY <3>2, <3>3
  <2>4. ASSUME ReadNothing(i) PROVE it' = it /\ read' = read
    BY <2>4 DEF ReadNothing
  <2>. QED
    BY <2>1, <2>2, <2>3, <2>4
<1>4. ASSUME NEW k \in Iterators, it'[k] # none
      PROVE  Sound(from', to', base', single_pass', views', view_well_formed', it'[k], read'[k])
  <2>1. PICK l \in Iterators : it'[k] = it[l] /\ read'[k] = read[l]
    BY <1>3, <1>4
  <2>2. Sound(from, to, base, single_pass, views, view_well_formed, it[l], read[l])
    BY <1>4, <2>1 DEF IInv
  <2>. QED
    BY <1>1, <2>1, <2>2
<1>5. AccusesMalformed(from', to', base', view_well_formed')
  BY <1>1 DEF IInv
<1>6. failed' = "overflow" => MayOverflow(from', to', base')
  BY <1>1 DEF IInv
<1>. QED
  BY <1>1, <1>2, <1>3, <1>4, <1>5, <1>6 DEF IInv

\* begin() of a view.
LEMMA BeginKeeps ==
  ASSUME IInv, NEW i \in Iterators, NEW v \in Views, Begin(i, v)
  PROVE  IInv'
<1>. DEFINE x == constructed(v, 1)
<1>1. /\ Stands(from, to, base, single_pass, x, <<>>) /\ x.parent = v
      /\ x.out = <<>> \/ \E n \in 1 .. Len(base) : x.out = array_after(from, to, base, n)
  BY ConstructedStands DEF IInv
<1>. HIDE DEF x
<1>2. overflows(x) => MayOverflow(from, to, base)
  <2>1. max_output_bytes(from, to) \in Nat /\ Source
    BY DEF IInv, Source, max_output_bytes, longest_sequence, Encodings
  <2>2. x.out = <<>> => ~ overflows(x)
    BY <2>1 DEF overflows
  <2>. QED
    BY <1>1, <2>1, <2>2, ArrayFits DEF overflows
<1>3. Becomes(i, x, <<>>) /\ v \in views /\ Running /\ UNCHANGED <<source, views>>
  BY DEF Begin, x
<1>. QED
  BY <1>1, <1>2, <1>3, BecomesKeeps

\* An element is read.
LEMMA ReadKeeps ==
  ASSUME IInv, NEW i \in Iterators, ReadAndIncrement(i)
  PROVE  IInv'
<1>. DEFINE s == it[i]
            r == read[i]
            x == incremented(s)
<1>1. /\ Running /\ s # none /\ ~ at_end(s) /\ ~ empty(s) /\ UNCHANGED <<source, views>>
      /\ Becomes(i, x, Append(r, front(s)))
  BY DEF ReadAndIncrement, CanRead, held
<1>2. /\ Source /\ Stands(from, to, base, single_pass, s, r) /\ s.parent \in views
      /\ Len(s.out) <= max_output_bytes(from, to)
  BY <1>1 DEF IInv, Sound
<1>. HIDE DEF s, r
<1>3. /\ Stands(from, to, base, single_pass, x, Append(r, front(s))) /\ x.parent = s.parent
      /\ \/ x.out = s.out
         \/ \E n \in 1 .. Len(base) : x.out = array_after(from, to, base, n)
         \/ Len(x.out) \in Nat /\ Len(x.out) <= longest_sequence(to)
  BY <1>1, <1>2, IncrementedStands
<1>. HIDE DEF x
<1>4. overflows(x) => MayOverflow(from, to, base)
  <2>1. /\ max_output_bytes(from, to) \in Nat /\ longest_sequence(to) \in Nat
        /\ longest_sequence(to) <= max_output_bytes(from, to)
    BY <1>2 DEF Source, max_output_bytes, longest_sequence, Encodings
  <2>2. x.out = s.out => ~ overflows(x)
    <3>1. Len(s.out) \in Nat
      BY <1>2 DEF Stands, IsIterator
    <3>. QED
      BY <1>2, <2>1, <3>1 DEF overflows
  <2>3. Len(x.out) \in Nat /\ Len(x.out) <= longest_sequence(to) => ~ overflows(x)
    BY <2>1 DEF overflows
  <2>. QED
    BY <1>2, <1>3, <2>2, <2>3, ArrayFits DEF overflows
<1>. QED
  BY <1>1, <1>2, <1>3, <1>4, BecomesKeeps

\* The invariant holds at all times.
THEOREM Invariance == Spec => []IInv
<1>1. Init => IInv
  BY InitHolds
<1>2. IInv /\ [Next]_vars => IInv'
  <2>. SUFFICES ASSUME IInv, [Next]_vars PROVE IInv'
    OBVIOUS
  <2>1. ASSUME NEW v \in Views, NEW w \in Views, CopyView(v, w) PROVE IInv'
    BY <2>1, CopyViewKeeps
  <2>2. ASSUME NEW i \in Iterators, NEW v \in Views, Begin(i, v) PROVE IInv'
    BY <2>2, BeginKeeps
  <2>3. ASSUME NEW i \in Iterators, ReadAndIncrement(i) PROVE IInv'
    BY <2>3, ReadKeeps
  <2>4. ASSUME NEW i \in Iterators, ReadNothing(i) \/ (\E j \in Iterators : Copy(i, j)) \/ Drop(i)
        PROVE  IInv'
    BY <2>4, CopyKeeps
  <2>5. CASE UNCHANGED vars
    BY <2>5 DEF IInv, Source, vars
  <2>. QED
    BY <2>1, <2>2, <2>3, <2>4, <2>5 DEF Next
<1>. QED
  BY <1>1, <1>2, PTL DEF Spec

-----------------------------------------------------------------------------
(***************************************************************************)
(* What it means.                                                          *)
(***************************************************************************)
\* What has been read, and what is to be read next, of all that there is to read.
LEMMA StandsBefore ==
  ASSUME Source, NEW s, NEW r, Stands(from, to, base, single_pass, s, r)
  PROVE  /\ \E o \in Seq(EncodedUnit(to)) : fed_all(from, to, base).out = r \o o
         /\ r \in Seq(EncodedUnit(to)) /\ Unread(s) \in Seq(EncodedUnit(to))
<1>. DEFINE T == EncodedUnit(to)
            N == Len(base)
            z == fed_all(from, to, base)
            a == Unread(s)
<1>1. /\ N \in Nat /\ s.current \in 1 .. N + 1 /\ s.next \in s.current .. N + 1
      /\ r \in Seq(T) /\ s.out \in Seq(T) /\ s.first \in 0 .. Len(s.out)
  BY DEF Source, Stands, Placed, IsIterator
<1>2. a \in Seq(T)
  <2>1. \A i \in s.first + 1 .. Len(s.out) : s.out[i] \in T
    BY <1>1
  <2>2. s.first + 1 \in Int /\ Len(s.out) \in Int
    BY <1>1
  <2>. HIDE DEF T
  <2>. QED
    BY <2>1, <2>2, SubSeqProperties DEF Unread
<1>3. CASE s.next # N + 1
  <2>. DEFINE b == upto(from, to, base, s.next - 1)
  <2>1. r \o a = b.out
    BY <1>3 DEF Stands, Midway
  <2>2. s.next - 1 \in 0 .. N
    BY <1>1, <1>3
  <2>3. Goes(to, b, z)
    BY <2>2, UptoGrows DEF Source
  <2>4. PICK o \in Seq(T) : z.out = b.out \o o
    BY <2>3 DEF Goes
  <2>. HIDE DEF T, z, a, b
  <2>5. (r \o a) \o o = r \o (a \o o) /\ a \o o \in Seq(T)
    <3>1. \A x, y, w \in Seq(T) : (x \o y) \o w = x \o (y \o w) /\ y \o w \in Seq(T)
      BY Associative
    <3>. QED
      BY <1>1, <1>2, <3>1
  <2>6. \E w \in Seq(T) : z.out = r \o w
    BY <2>1, <2>4, <2>5
  <2>. QED
    BY <1>1, <1>2, <2>6 DEF T, z, a
<1>4. CASE s.next = N + 1 /\ s.current # N + 1
  <2>1. z.out = r \o a
    BY <1>4 DEF Stands, AtLast
  <2>. QED
    BY <1>1, <1>2, <2>1
<1>5. CASE s.next = N + 1 /\ s.current = N + 1
  <2>1. z.out = r
    BY <1>5 DEF Stands, AtLast
  <2>2. r = r \o <<>> /\ <<>> \in Seq(T)
    BY <1>1, ConcatEmptySeq
  <2>. HIDE DEF T, z, a
  <2>3. \E w \in Seq(T) : z.out = r \o w
    BY <2>1, <2>2
  <2>. QED
    BY <1>1, <1>2, <2>3 DEF T, z, a
<1>. QED
  BY <1>3, <1>4, <1>5

\* An iterator at the end has consumed everything.
LEMMA AtEndIs ==
  ASSUME Source, NEW s, NEW r, Stands(from, to, base, single_pass, s, r)
  PROVE  /\ at_end(s) => s.next = Len(base) + 1 /\ (~ single_pass => s.current = Len(base) + 1)
         /\ ~ at_end(s) => /\ single_pass => s.next # Len(base) + 1
                           /\ ~ single_pass => s.current # Len(base) + 1
<1>1. s.current \in 1 .. Len(base) + 1 /\ s.next \in s.current .. Len(base) + 1 /\ Len(base) \in Nat
  BY DEF Source, Stands, Placed
<1>. QED
  BY <1>1 DEF at_end, end

\* The type invariant: iterators stand in their view, between its positions.
LEMMA Types ==
  ASSUME IInv
  PROVE  TypeOK
<1>1. ASSUME NEW i \in held
      PROVE  /\ it[i].parent \in views /\ it[i].current \in 1 .. end
             /\ it[i].next \in it[i].current .. end /\ it[i].first \in 0 .. Len(it[i].out)
  <2>1. Sound(from, to, base, single_pass, views, view_well_formed, it[i], read[i])
    BY DEF IInv, held
  <2>2. Placed(base, it[i]) /\ it[i].parent \in views
    BY <2>1 DEF Sound, Stands
  <2>. QED
    BY <2>2 DEF Placed, end
<1>. QED
  BY <1>1 DEF IInv, TypeOK

\* Where an iterator has nothing to read.
LEMMA NothingToRead ==
  ASSUME IInv
  PROVE  NeverEmpty
<1>. SUFFICES ASSUME NEW i \in held, ~ at_end(it[i]), empty(it[i])
              PROVE  from = std_byte /\ read[i] = by_hand.out
  BY DEF NeverEmpty
<1>. DEFINE s == it[i]
            r == read[i]
<1>1. Source /\ Stands(from, to, base, single_pass, s, r)
  BY DEF IInv, held, Sound
<1>2. ~ at_end(s) /\ s.first = Len(s.out)
  BY DEF empty
<1>. HIDE DEF s, r
<1>3. s.out = <<>>
  BY <1>1, <1>2 DEF Stands, Placed, IsIterator
<1>4. s.next = Len(base) + 1
  BY <1>1, <1>3 DEF Stands, Midway
<1>5. s.current # Len(base) + 1
  BY <1>1, <1>2, <1>4, AtEndIs
<1>6. from = std_byte
  BY <1>1, <1>3, <1>5 DEF Stands, IsFull
<1>7. r \o Unread(s) = fed_all(from, to, base).out
  BY <1>1, <1>4, <1>5 DEF Stands, AtLast
<1>8. Unread(s) = <<>>
  <2>1. s.first + 1 = 1 /\ Len(s.out) = 0
    BY <1>2, <1>3
  <2>. QED
    BY <1>3, <2>1, SubSeqEmpty DEF Unread
<1>9. r \o <<>> = r
  BY <1>1, ConcatEmptySeq DEF Stands
<1>. QED
  BY <1>6, <1>7, <1>8, <1>9 DEF by_hand, r

\* What is read through an iterator.
LEMMA ReadsByHand ==
  ASSUME IInv
  PROVE  SameAsByHand
<1>. SUFFICES ASSUME NEW i \in held
              PROVE  /\ IsPrefix(read[i], by_hand.out)
                     /\ at_end(it[i]) /\ ~ single_pass => read[i] = by_hand.out
  BY DEF SameAsByHand
<1>. DEFINE s == it[i]
            r == read[i]
            T == EncodedUnit(to)
<1>1. Source /\ Stands(from, to, base, single_pass, s, r)
  BY DEF IInv, held, Sound
<1>. HIDE DEF s, r
<1>2. PICK o \in Seq(T) : by_hand.out = r \o o
  BY <1>1, StandsBefore DEF by_hand
<1>3. r \in Seq(T)
  BY <1>1, StandsBefore
<1>4. IsPrefix(r, by_hand.out)
  <2>. HIDE DEF T
  <2>1. IsPrefix(r, r \o o)
    BY <1>3 DEF IsPrefix
  <2>. QED
    BY <1>2, <2>1
<1>5. ASSUME at_end(s), ~ single_pass PROVE r = by_hand.out
  <2>1. s.next = Len(base) + 1 /\ s.current = Len(base) + 1
    BY <1>1, <1>5, AtEndIs
  <2>2. AtLast(from, to, base, single_pass, s, r)
    BY <1>1 DEF Stands
  <2>. QED
    BY <1>5, <2>1, <2>2 DEF AtLast, by_hand
<1>. QED
  BY <1>4, <1>5 DEF s, r

\* What a view says of its text.
LEMMA KnowsTruth ==
  ASSUME IInv
  PROVE  ViewKnows
<1>1. truth = Truth(from, to, base)
  BY DEF truth, Truth, by_hand
<1>2. ASSUME NEW v \in views, ~ view_well_formed[v] PROVE ~ truth
  BY <1>1, <1>2 DEF IInv, AccusesMalformed
<1>3. ASSUME NEW i \in held, at_end(it[i]) PROVE view_well_formed[it[i].parent] = truth
  <2>. DEFINE s == it[i]
              p == s.parent
  <2>1. Sound(from, to, base, single_pass, views, view_well_formed, s, read[i]) /\ Source
    BY DEF IInv, held
  <2>2. Stands(from, to, base, single_pass, s, read[i]) /\ p \in views /\ p \in Views
        /\ (view_well_formed[p] => any_well_formed(from, to, s.coder))
    BY <2>1 DEF Sound, IInv
  <2>. HIDE DEF s
  <2>3. s.next = Len(base) + 1
    BY <1>3, <2>1, <2>2, AtEndIs DEF s
  <2>4. any_well_formed(from, to, s.coder) <=> Truth(from, to, base)
    BY <2>2, <2>3 DEF Stands, AtLast, Truth
  <2>5. Truth(from, to, base) \in BOOLEAN /\ view_well_formed[p] \in BOOLEAN
    BY <2>1, <2>2, StandsKnows DEF IInv
  <2>6. ~ view_well_formed[p] => ~ Truth(from, to, base)
    BY <1>1, <1>2, <2>2
  <2>. HIDE DEF p
  <2>7. view_well_formed[p] = Truth(from, to, base)
    BY <2>2, <2>4, <2>5, <2>6
  <2>. QED
    BY <1>1, <2>7 DEF p, s
<1>. QED
  BY <1>2, <1>3 DEF ViewKnows

-----------------------------------------------------------------------------
(***************************************************************************)
(* The refinement of LazyView: what has been reported of base is what is   *)
(* known of the shortest beginning that decides the next element.          *)
(***************************************************************************)
Accused == {v \in views : ~ view_well_formed[v]}
Parents == [i \in Iterators |-> IF i \in held THEN {it[i].parent} ELSE {}]

\* The iterator has consumed what is needed, and knows what there is to know of it.
LEMMA ConsumesWhatIsNeeded ==
  ASSUME Source, NEW s, NEW r, Stands(from, to, base, single_pass, s, r)
  PROVE  any_well_formed(from, to, Lazy!converted(Lazy!needed(Len(r))).coder)
           <=> any_well_formed(from, to, s.coder)
<1>. DEFINE N == Len(base)
            k == Len(r)
            n == s.next - 1
            T == {m \in 0 .. N : Len(Lazy!converted(m).out) > k} \union {N}
<1>1. /\ N \in Nat /\ s.current \in 1 .. N + 1 /\ s.next \in s.current .. N + 1
      /\ r \in Seq(EncodedUnit(to)) /\ k \in Nat /\ n \in 0 .. N
  BY DEF Source, Stands, Placed
<1>2. T \in SUBSET Nat /\ N \in T
  BY <1>1
<1>3. Lazy!needed(k) = Min(T)
  BY DEF Lazy!needed, Lazy!Min, Min
<1>4. \A m \in 0 .. N :
        Lazy!converted(m) = IF m = N THEN fed_all(from, to, base) ELSE upto(from, to, base, m)
  BY DEF Lazy!converted, upto
<1>5. \A m \in 0 .. n - 1 : m \notin T
  <2>. SUFFICES ASSUME NEW m \in 0 .. n - 1 PROVE m \notin T
    OBVIOUS
  <2>1. m \in 0 .. s.next - 2 /\ m \in 0 .. N /\ m # N
    BY <1>1
  <2>2. Len(upto(from, to, base, m).out) <= k
    BY <2>1 DEF Stands, IsLazy
  <2>3. Len(upto(from, to, base, m).out) \in Nat
    <3>1. upto(from, to, base, m).out \in Seq(EncodedUnit(to))
      BY <2>1, UptoReturned DEF Source, Returned
    <3>. QED
      BY <3>1
  <2>4. Lazy!converted(m) = upto(from, to, base, m)
    BY <1>4, <2>1
  <2>5. ~ (Len(Lazy!converted(m).out) > k)
    BY <1>1, <2>2, <2>3, <2>4
  <2>. QED
    BY <2>1, <2>5
<1>. HIDE DEF T, N
<1>6. ASSUME n \in T PROVE Lazy!needed(k) = n
  <2>1. Min(T) \in T /\ \A m \in T : Min(T) <= m
    BY <1>2, LeastOf
  <2>2. Min(T) \in Nat /\ Min(T) <= n
    BY <1>2, <1>6, <2>1
  <2>3. Min(T) \notin 0 .. n - 1
    BY <1>5, <2>1
  <2>. HIDE DEF k
  <2>. QED
    BY <1>1, <1>3, <2>2, <2>3
<1>7. CASE s.next # N + 1
  <2>1. /\ s.out # <<>> /\ s.coder = upto(from, to, base, n).coder
        /\ r \o Unread(s) = upto(from, to, base, n).out
    BY <1>7 DEF Stands, Midway, N
  <2>2. n \in 0 .. N /\ n # N
    BY <1>1, <1>7
  <2>3. Lazy!converted(n) = upto(from, to, base, n)
    BY <1>4, <2>2
  <2>4. Len(upto(from, to, base, n).out) > k
    <3>1. Unread(s) \in Seq(EncodedUnit(to)) /\ Len(Unread(s)) \in Nat /\ Len(Unread(s)) # 0
      <4>1. s.out \in Seq(EncodedUnit(to)) /\ s.first \in 0 .. Len(s.out) /\ s.first < Len(s.out)
        BY <2>1 DEF Stands, IsIterator, Placed
      <4>2. Unread(s) \in Seq(EncodedUnit(to))
        BY StandsBefore
      <4>3. Len(Unread(s)) = Len(s.out) - s.first
        BY <4>1 DEF Unread
      <4>. QED
        BY <4>1, <4>2, <4>3
    <3>2. Len(r \o Unread(s)) = k + Len(Unread(s))
      BY <1>1, <3>1
    <3>. HIDE DEF k
    <3>. QED
      BY <1>1, <2>1, <3>1, <3>2
  <2>5. n \in T
    BY <2>2, <2>3, <2>4 DEF T, N
  <2>6. Lazy!needed(k) = n
    BY <1>6, <2>5
  <2>. QED
    BY <2>1, <2>3, <2>6
<1>8. CASE s.next = N + 1
  <2>1. n = N /\ n \in T
    BY <1>1, <1>2, <1>8
  <2>2. Lazy!needed(k) = N
    BY <1>6, <2>1
  <2>3. Lazy!converted(N) = fed_all(from, to, base)
    BY <1>1, <1>4
  <2>4. any_well_formed(from, to, s.coder)
          <=> any_well_formed(from, to, fed_all(from, to, base).coder)
    BY <1>8 DEF Stands, AtLast, N
  <2>. QED
    BY <2>2, <2>3, <2>4
<1>. QED
  BY <1>7, <1>8

\* What has been read through an iterator ends with one of the elements.
LEMMA ReadsElements ==
  ASSUME Source, NEW s, NEW r \in Seq(EncodedUnit(to)), NEW c,
         Stands(from, to, base, single_pass, s, Append(r, c))
  PROVE  Len(r) < Len(Lazy!elements) /\ c = Lazy!elements[Len(r) + 1]
<1>. DEFINE T == EncodedUnit(to)
            z == fed_all(from, to, base)
            y == Append(r, c)
<1>1. Lazy!elements = z.out
  BY DEF Lazy!elements, Lazy!converted
<1>2. PICK o \in Seq(T) : z.out = y \o o
  BY StandsBefore
<1>3. y \in Seq(T)
  BY StandsBefore
<1>4. Len(y) = Len(r) + 1 /\ y[Len(r) + 1] = c /\ Len(r) \in Nat
  OBVIOUS
<1>. HIDE DEF y, z, T
<1>5. Len(z.out) = Len(y) + Len(o) /\ Len(o) \in Nat /\ \A i \in 1 .. Len(y) : z.out[i] = y[i]
  BY <1>2, <1>3
<1>6. Len(r) + 1 \in 1 .. Len(y)
  BY <1>4
<1>. QED
  BY <1>1, <1>4, <1>5, <1>6

Put(f, i, x) == [f EXCEPT ![i] = x]

\* An iterator that the program holds came from a view.
LEMMA ParentsAre ==
  ASSUME NEW i \in Iterators
  PROVE  /\ i \in held <=> it[i] # none
         /\ Parents[i] = IF i \in held THEN {it[i].parent} ELSE {}
         /\ Parents[i] # {} <=> i \in held
         /\ Parents' = [k \in Iterators |-> IF it'[k] # none THEN {it'[k].parent} ELSE {}]
         /\ Parents = [k \in Iterators |-> Parents[k]]
<1>1. \A k \in Iterators : k \in held <=> it[k] # none
  BY DEF held
<1>2. \A k \in Iterators : k \in held' <=> it'[k] # none
  BY DEF held
<1>. QED
  BY <1>1, <1>2 DEF Parents

\* The view that the iterator i came from is told what it knows.
LEMMA BecomesLooks ==
  ASSUME IInv, NEW i \in Iterators, NEW x, NEW r, Becomes(i, x, r), ~ overflows(x),
         x # none, x.parent \in views, views' = views
  PROVE  /\ read' = Put(read, i, r) /\ Parents' = Put(Parents, i, {x.parent})
         /\ any_well_formed(from, to, x.coder) => Accused' = Accused
         /\ ~ any_well_formed(from, to, x.coder) => Accused' = Accused \union {x.parent}
<1>. DEFINE p == x.parent
            known == any_well_formed(from, to, x.coder)
<1>1. /\ it' = [it EXCEPT ![i] = x] /\ read' = [read EXCEPT ![i] = r]
      /\ view_well_formed' = [view_well_formed EXCEPT ![p] = @ /\ known]
  BY DEF Becomes, Note
<1>2. /\ it = [j \in Iterators |-> it[j]] /\ view_well_formed \in [Views -> BOOLEAN]
      /\ p \in views /\ views \subseteq Views
  BY DEF IInv
<1>. HIDE DEF p, known
<1>3. /\ \A v \in views \ {p} : view_well_formed'[v] <=> view_well_formed[v]
      /\ view_well_formed'[p] <=> view_well_formed[p] /\ known
  BY <1>1, <1>2
<1>4. Accused' = {v \in views : ~ view_well_formed'[v]}
  BY DEF Accused
<1>5. ASSUME known PROVE Accused' = Accused
  <2>1. \A v \in views : view_well_formed'[v] <=> view_well_formed[v]
    BY <1>3, <1>5
  <2>. QED
    BY <1>4, <2>1 DEF Accused
<1>6. ASSUME ~ known PROVE Accused' = Accused \union {p}
  <2>1. \A v \in views : ~ view_well_formed'[v] <=> ~ view_well_formed[v] \/ v = p
    BY <1>3, <1>6
  <2>. QED
    BY <1>2, <1>4, <2>1 DEF Accused
<1>8. it'[i] = x /\ \A k \in Iterators \ {i} : it'[k] = it[k]
  BY <1>1, <1>2
<1>9. \A k \in Iterators \ {i} : Parents[k] = IF it[k] # none THEN {it[k].parent} ELSE {}
  BY ParentsAre
<1>10. Parents' = [k \in Iterators |-> IF k = i THEN {p} ELSE Parents[k]]
  <2>1. Parents' = [k \in Iterators |-> IF it'[k] # none THEN {it'[k].parent} ELSE {}]
    BY ParentsAre
  <2>2. \A k \in Iterators : (IF it'[k] # none THEN {it'[k].parent} ELSE {})
                                = IF k = i THEN {p} ELSE Parents[k]
    BY <1>8, <1>9 DEF p
  <2>. QED
    BY <2>1, <2>2
<1>11. Parents = [k \in Iterators |-> Parents[k]]
  BY ParentsAre
<1>12. Parents' = Put(Parents, i, {p})
  <2>1. ASSUME NEW P, P = [k \in Iterators |-> P[k]], NEW Q,
               Q = [k \in Iterators |-> IF k = i THEN {p} ELSE P[k]]
        PROVE  Q = Put(P, i, {p})
    BY <2>1 DEF Put
  <2>. QED
    BY <1>10, <1>11, <2>1
<1>. QED
  BY <1>1, <1>5, <1>6, <1>12 DEF Put, p, known

\* Where an array overflows, nothing happens to the view.
LEMMA BecomesStutter ==
  ASSUME NEW i, NEW x, NEW r, Becomes(i, x, r), overflows(x), UNCHANGED <<source, views>>
  PROVE  UNCHANGED Lazy!vars
<1>1. from' = from /\ to' = to /\ base' = base /\ views' = views
      /\ view_well_formed' = view_well_formed /\ it' = it /\ read' = read
  BY DEF Becomes, source
<1>. QED
  BY <1>1 DEF Lazy!vars, held

\* A copied view has reported what the original has.
LEMMA CopyViewIsLazy ==
  ASSUME IInv, NEW v \in Views, NEW w \in Views, CopyView(v, w)
  PROVE  Lazy!CopyView(v, w) /\ UNCHANGED <<from, to, base>>
<1>1. /\ from' = from /\ to' = to /\ base' = base /\ it' = it /\ read' = read
      /\ v \in views /\ w \notin views /\ views' = views \union {w}
      /\ view_well_formed' = [view_well_formed EXCEPT ![w] = view_well_formed[v]]
  BY DEF CopyView, source
<1>2. view_well_formed \in [Views -> BOOLEAN] /\ views \subseteq Views
  BY DEF IInv
<1>3. /\ \A x \in views : view_well_formed'[x] <=> view_well_formed[x]
      /\ view_well_formed'[w] <=> view_well_formed[v]
  BY <1>1, <1>2
<1>4. Accused' = {x \in views \union {w} : ~ view_well_formed'[x]}
  BY <1>1 DEF Accused
<1>5. Accused' = IF v \in Accused THEN Accused \union {w} ELSE Accused
  <2>1. v \in Accused <=> ~ view_well_formed[v]
    BY <1>1 DEF Accused
  <2>2. CASE v \in Accused
    <3>1. Accused' = Accused \union {w}
      BY <1>3, <1>4, <2>1, <2>2 DEF Accused
    <3>. QED
      BY <2>2, <3>1
  <2>3. CASE v \notin Accused
    <3>1. Accused' = Accused
      BY <1>3, <1>4, <2>1, <2>3 DEF Accused
    <3>. QED
      BY <2>3, <3>1
  <2>. QED
    BY <2>2, <2>3
<1>6. Parents' = Parents
  BY <1>1 DEF Parents, held
<1>. QED
  BY <1>1, <1>5, <1>6 DEF Lazy!CopyView, Accused, Parents

\* begin() looks at what the first element needs.
LEMMA BeginIsLazy ==
  ASSUME IInv, NEW i \in Iterators, NEW v \in Views, Begin(i, v)
  PROVE  \/ Lazy!Begin(i, v) /\ UNCHANGED <<from, to, base>>
         \/ UNCHANGED Lazy!vars
<1>. DEFINE x == constructed(v, 1)
            known == any_well_formed(from, to, Lazy!converted(Lazy!needed(0)).coder)
<1>1. Stands(from, to, base, single_pass, x, <<>>) /\ x.parent = v /\ Source
  BY ConstructedStands DEF IInv
<1>2. /\ Becomes(i, x, <<>>) /\ v \in views /\ UNCHANGED <<source, views>> /\ i \notin held
      /\ from' = from /\ to' = to /\ base' = base /\ views' = views
  BY DEF Begin, source
<1>. HIDE DEF x
<1>3. CASE overflows(x)
  BY <1>2, <1>3, BecomesStutter
<1>4. CASE ~ overflows(x)
  <2>1. x # none
    BY <1>1, StandsKnows
  <2>2. /\ read' = Put(read, i, <<>>) /\ Parents' = Put(Parents, i, {v})
        /\ any_well_formed(from, to, x.coder) => Accused' = Accused
        /\ ~ any_well_formed(from, to, x.coder) => Accused' = Accused \union {v}
    BY <1>1, <1>2, <1>4, <2>1, BecomesLooks
  <2>3. known <=> any_well_formed(from, to, x.coder)
    <3>1. Len(<<>>) = 0
      OBVIOUS
    <3>2. ASSUME NEW r, Len(r) = 0, Stands(from, to, base, single_pass, x, r)
          PROVE  known <=> any_well_formed(from, to, x.coder)
      BY <1>1, <3>2, ConsumesWhatIsNeeded
    <3>. QED
      BY <1>1, <3>1, <3>2
  <2>4. Accused' = IF known THEN Accused ELSE Accused \union {v}
    <3>. HIDE DEF known
    <3>. QED
      BY <2>2, <2>3
  <2>5. Parents[i] = {}
    BY <1>2, ParentsAre
  <2>6. Lazy!Begin(i, v)
    BY <1>2, <2>2, <2>4, <2>5 DEF Lazy!Begin, Lazy!Looks, Accused, Parents, Put
  <2>. QED
    BY <1>2, <2>6
<1>. QED
  BY <1>3, <1>4

\* Reading an element looks at what the next one needs.
LEMMA ReadIsLazy ==
  ASSUME IInv, NEW i \in Iterators, ReadAndIncrement(i)
  PROVE  \/ Lazy!Read(i) /\ UNCHANGED <<from, to, base>>
         \/ UNCHANGED Lazy!vars
<1>. DEFINE s == it[i]
            r == read[i]
            c == front(s)
            x == incremented(s)
            known(k) == any_well_formed(from, to, Lazy!converted(Lazy!needed(k)).coder)
<1>1. /\ i \in held /\ s # none /\ ~ at_end(s) /\ ~ empty(s) /\ Becomes(i, x, Append(r, c))
      /\ UNCHANGED <<source, views>>
      /\ from' = from /\ to' = to /\ base' = base /\ views' = views
  BY DEF ReadAndIncrement, CanRead, held, source
<1>2. Source /\ Stands(from, to, base, single_pass, s, r) /\ s.parent \in views
  BY <1>1 DEF IInv, Sound
<1>3. Parents[i] = {s.parent}
  BY <1>1, ParentsAre
<1>. HIDE DEF s, r, c
<1>4. Stands(from, to, base, single_pass, x, Append(r, c)) /\ x.parent = s.parent
  BY <1>1, <1>2, IncrementedStands DEF c
<1>. HIDE DEF x
<1>5. CASE overflows(x)
  BY <1>1, <1>5, BecomesStutter
<1>6. CASE ~ overflows(x)
  <2>1. x # none
    BY <1>2, <1>4, StandsKnows
  <2>2. /\ read' = Put(read, i, Append(r, c)) /\ Parents' = Put(Parents, i, {s.parent})
        /\ any_well_formed(from, to, x.coder) => Accused' = Accused
        /\ ~ any_well_formed(from, to, x.coder) => Accused' = Accused \union {s.parent}
    BY <1>1, <1>2, <1>4, <1>6, <2>1, BecomesLooks
  <2>3. r \in Seq(EncodedUnit(to)) /\ Len(Append(r, c)) = Len(r) + 1 /\ Len(r) \in Nat
    BY <1>2, StandsBefore
  <2>4. Len(r) < Len(Lazy!elements) /\ c = Lazy!elements[Len(r) + 1]
    BY <1>2, <1>4, <2>3, ReadsElements
  <2>5. known(Len(r) + 1) <=> any_well_formed(from, to, x.coder)
    <3>1. known(Len(Append(r, c))) <=> any_well_formed(from, to, x.coder)
      BY <1>2, <1>4, ConsumesWhatIsNeeded
    <3>. QED
      BY <2>3, <3>1
  <2>6. Accused' = IF known(Len(r) + 1) THEN Accused ELSE Accused \union Parents[i]
    <3>. HIDE DEF known
    <3>. QED
      BY <1>3, <2>2, <2>5
  <2>7. Parents' = Parents
    <3>1. ASSUME NEW P, P = [k \in Iterators |-> P[k]] PROVE Put(P, i, P[i]) = P
      BY <3>1 DEF Put
    <3>2. Parents = [k \in Iterators |-> Parents[k]]
      BY ParentsAre
    <3>. QED
      BY <1>3, <2>2, <3>1, <3>2
  <2>8. read' = [read EXCEPT ![i] = Append(@, Lazy!elements[Len(read[i]) + 1])]
    BY <2>2, <2>4 DEF Put, r
  <2>9. Parents[i] # {} /\ Len(read[i]) < Len(Lazy!elements)
    BY <1>3, <2>4 DEF r
  <2>10. Accused' = IF known(Len(read[i]) + 1) THEN Accused ELSE Accused \union Parents[i]
    BY <2>6 DEF r
  <2>11. Lazy!Read(i)
    BY <1>1, <2>7, <2>8, <2>9, <2>10 DEF Lazy!Read, Lazy!Looks, Accused, Parents
  <2>. QED
    BY <1>1, <2>11
<1>. QED
  BY <1>5, <1>6

\* A copied iterator has read what the original has; a dropped one has read nothing.
LEMMA CopyIsLazy ==
  ASSUME IInv, NEW i \in Iterators
  PROVE  /\ \A j \in Iterators : Copy(i, j) => Lazy!Copy(i, j) /\ UNCHANGED <<from, to, base>>
         /\ Drop(i) => Lazy!Drop(i) /\ UNCHANGED <<from, to, base>>
         /\ ReadNothing(i) => UNCHANGED Lazy!vars
<1>1. it = [k \in Iterators |-> it[k]]
  BY DEF IInv
<1>2. \A k \in Iterators : Parents[k] = IF it[k] # none THEN {it[k].parent} ELSE {}
  BY ParentsAre
<1>3. /\ Parents = [k \in Iterators |-> Parents[k]]
      /\ Parents' = [k \in Iterators |-> IF it'[k] # none THEN {it'[k].parent} ELSE {}]
  BY ParentsAre
<1>4. ASSUME NEW k \in Iterators, NEW p, it' = Put(it, k, p) 
      PROVE  Parents' = Put(Parents, k, IF p # none THEN {p.parent} ELSE {})
  <2>1. it'[k] = p /\ \A l \in Iterators \ {k} : it'[l] = it[l]
    BY <1>1, <1>4 DEF Put
  <2>. DEFINE q == IF p # none THEN {p.parent} ELSE {}
  <2>2. \A l \in Iterators : (IF it'[l] # none THEN {it'[l].parent} ELSE {})
                                = IF l = k THEN q ELSE Parents[l]
    BY <1>2, <2>1
  <2>. HIDE DEF q
  <2>3. Parents' = [l \in Iterators |-> IF l = k THEN q ELSE Parents[l]]
    BY <1>3, <2>2
  <2>4. ASSUME NEW P, P = [l \in Iterators |-> P[l]], NEW Q,
               Q = [l \in Iterators |-> IF l = k THEN q ELSE P[l]]
        PROVE  Q = Put(P, k, q)
    BY <2>4 DEF Put
  <2>5. Parents' = Put(Parents, k, q)
    BY <1>3, <2>3, <2>4
  <2>. QED
    BY <2>5 DEF q
<1>5. ASSUME NEW j \in Iterators, Copy(i, j)
      PROVE  Lazy!Copy(i, j) /\ UNCHANGED <<from, to, base>>
  <2>1. /\ i \in held /\ j \notin held /\ it' = Put(it, j, it[i])
        /\ read' = [read EXCEPT ![j] = read[i]]
        /\ from' = from /\ to' = to /\ base' = base /\ views' = views
        /\ view_well_formed' = view_well_formed
    BY <1>5 DEF Copy, Put, source
  <2>2. Accused' = Accused
    BY <2>1 DEF Accused
  <2>3. Parents[i] # {} /\ Parents[j] = {} /\ Parents[i] = IF it[i] # none THEN {it[i].parent} ELSE {}
    BY <2>1, ParentsAre
  <2>4. Parents' = Put(Parents, j, Parents[i])
    BY <1>4, <2>1, <2>3
  <2>. QED
    BY <2>1, <2>2, <2>3, <2>4 DEF Lazy!Copy, Accused, Parents, Put
<1>6. ASSUME Drop(i) PROVE Lazy!Drop(i) /\ UNCHANGED <<from, to, base>>
  <2>1. /\ it' = Put(it, i, none) /\ read' = [read EXCEPT ![i] = <<>>]
        /\ from' = from /\ to' = to /\ base' = base /\ views' = views
        /\ view_well_formed' = view_well_formed
    BY <1>6 DEF Drop, Put, source
  <2>2. Accused' = Accused
    BY <2>1 DEF Accused
  <2>3. Parents' = Put(Parents, i, {})
    BY <1>4, <2>1
  <2>. QED
    BY <2>1, <2>2, <2>3 DEF Lazy!Drop, Accused, Parents, Put
<1>7. ASSUME ReadNothing(i) PROVE UNCHANGED Lazy!vars
  <2>1. from' = from /\ to' = to /\ base' = base /\ views' = views
        /\ view_well_formed' = view_well_formed /\ it' = it /\ read' = read
    BY <1>7 DEF ReadNothing, source
  <2>. QED
    BY <2>1 DEF Lazy!vars, held
<1>. QED
  BY <1>5, <1>6, <1>7

\* Nothing has been read, nor reported, when the program begins.
LEMMA InitIsLazy ==
  ASSUME Init
  PROVE  Lazy!Init
<1>1. Accused = {}
  <2>1. \A v \in views : view_well_formed[v] = TRUE
    BY ViewsAssumption DEF Init
  <2>. QED
    BY <2>1 DEF Accused
<1>2. Parents = [i \in Iterators |-> {}]
  <2>1. \A i \in Iterators : i \notin held
    BY DEF Init, held
  <2>. QED
    BY <2>1 DEF Parents
<1>. QED
  BY <1>1, <1>2 DEF Init, Lazy!Init, Accused, Parents

\* Each property, from the invariant.
LEMMA Meaning ==
  IInv => TypeOK /\ OverflowsInBytesOnly /\ NeverEmpty /\ SameAsByHand /\ ViewKnows
<1>1. IInv => OverflowsInBytesOnly
  BY DEF IInv, OverflowsInBytesOnly, MayOverflow, MalformedUtf16, truth, Truth, by_hand
<1>. QED
  BY <1>1, Types, NothingToRead, ReadsByHand, KnowsTruth

\* Iterators stand in their view, between the positions of its base.
THEOREM TypeCorrect == Spec => []TypeOK
  BY Invariance, Meaning, PTL

\* fill never writes past the end of out_, except in a view of bytes whose mark is
\* given up or whose UTF-16 is malformed.
THEOREM FillFits == Spec => []OverflowsInBytesOnly
  BY Invariance, Meaning, PTL

\* An iterator that is not at the end has an element to read, except in a view of
\* bytes all of whose elements have been read.
THEOREM FrontExists == Spec => []NeverEmpty
  BY Invariance, Meaning, PTL

\* What is read through an iterator is what a conversion by hand writes.
THEOREM ViewConverts == Spec => []SameAsByHand
  BY Invariance, Meaning, PTL

\* A view accuses only malformed input, and knows the truth when one of its
\* iterators has reached the end.
THEOREM ViewReports == Spec => []ViewKnows
  BY Invariance, Meaning, PTL

\* Views implement LazyView: what an iterator has consumed and reported is what the
\* element it stands at depends on, and nothing beyond.
THEOREM ViewIsLazy == Spec => LazySpec
<1>1. Init => Lazy!Init
  BY InitIsLazy
<1>2. IInv /\ [Next]_vars => [Lazy!Next]_(Lazy!vars)
  <2>. SUFFICES ASSUME IInv, [Next]_vars PROVE Lazy!Next \/ UNCHANGED Lazy!vars
    OBVIOUS
  <2>1. ASSUME NEW v \in Views, NEW w \in Views, CopyView(v, w) PROVE Lazy!Next
    BY <2>1, CopyViewIsLazy DEF Lazy!Next
  <2>2. ASSUME NEW i \in Iterators, NEW v \in Views, Begin(i, v)
        PROVE  Lazy!Next \/ UNCHANGED Lazy!vars
    BY <2>2, BeginIsLazy DEF Lazy!Next
  <2>3. ASSUME NEW i \in Iterators, ReadAndIncrement(i)
        PROVE  Lazy!Next \/ UNCHANGED Lazy!vars
    BY <2>3, ReadIsLazy DEF Lazy!Next
  <2>4. ASSUME NEW i \in Iterators, ReadNothing(i) \/ (\E j \in Iterators : Copy(i, j)) \/ Drop(i)
        PROVE  Lazy!Next \/ UNCHANGED Lazy!vars
    BY <2>4, CopyIsLazy DEF Lazy!Next
  <2>5. CASE UNCHANGED vars
    BY <2>5 DEF vars, Lazy!vars, held
  <2>. QED
    BY <2>1, <2>2, <2>3, <2>4, <2>5 DEF Next
<1>. QED
  BY <1>1, <1>2, Invariance, PTL DEF Spec, LazySpec, Lazy!Spec
=============================================================================
