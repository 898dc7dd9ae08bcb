-------------------------- MODULE Conversion_proofs ---------------------------
(***************************************************************************)
(* Theorems about conversion, for every choice of pairs of encodings, all  *)
(* code units and every sequence of calls.  The inductive invariant says   *)
(* that `coder` is nothing but `reference` with an encoder behind it, and  *)
(* that what it writes is the encoding of what `reference` writes; that    *)
(* the reader gets the text back is then the theorem RoundTrip.            *)
(***************************************************************************)
EXTENDS Conversion, Transcoders_proofs, FiniteSetTheorems

ConvertsReference ==
  /\ reference \in Decoder(from)
  /\ coder = object(from, to, reference)
WritesEncoded == MayWrite(from, expected) /\ out = encoded(to, expected)
ReadsBack == reader \in Resting(to) /\ read = expected

CInv == <<from, to>> \in Pairs /\ ConvertsReference /\ WritesEncoded /\ ReadsBack

-----------------------------------------------------------------------------
\* `decoded` is a fold of the decoder's operator().
LEMMA DecodedIsFold ==
  ASSUME NEW e, NEW d, NEW units
  PROVE  decoded(e, d, units) = Decoding!Folded(e, Result(d, <<>>), units)
  BY DEF decoded, Decoding!Folded, Decoding!FoldLeft, Decoding!MapThenFoldSet, Decoding!Max,
         FoldLeft, MapThenFoldSet, Max, DecodeStep

\* The encodings of a pair, and the code units that may be passed.
LEMMA PairEncodings ==
  ASSUME NEW f, NEW t, <<f, t>> \in Pairs
  PROVE  f \in Encodings /\ t \in Encodings /\ Units[f] \subseteq CodeUnit(f)
<1>1. f \in Encodings /\ t \in Encodings
  BY PairsAssumption
<1>2. CodeUnit(8) = Byte /\ CodeUnit(16) = CodeUnit16 /\ CodeUnit(32) = Nat
  BY DEF CodeUnit
<1>. QED
  BY <1>1, <1>2, UnitsAssumption DEF Encodings

\* A decoder that is constructed to go on with what another has found.
LEMMA ConstructedWith ==
  ASSUME NEW f \in {8, 16}, NEW wf \in BOOLEAN
  PROVE  constructed_with(f, wf) \in Decoder(f) /\ constructed_with(f, wf).well_formed = wf
<1>1. constructed_with(8, wf) = t8_32(wf) /\ constructed_with(16, wf) = t16_32(wf)
  BY DEF constructed_with
<1>2. /\ t8_32(wf) \in Decoder(8) /\ t16_32(wf) \in Decoder(16)
      /\ t8_32(wf).well_formed = wf /\ t16_32(wf).well_formed = wf
  BY ConstructedDecoder
<1>. QED
  BY <1>1, <1>2

\* What ends a code point writes is within what any call may write.
LEMMA EndWrites ==
  ASSUME NEW e \in Encodings, NEW d \in Decoder(e), NEW f
  PROVE  MayWrite(f, decoder_end_cp(e, d).out)
<1>1. decoder_end_cp(e, d).out \in {<<>>, <<replacement_char>>}
  <2>1. CASE e = 8
    <3>1. decoder_end_cp(e, d) = t8_32_end_cp(d)
      BY <2>1 DEF decoder_end_cp
    <3>. QED
      BY <3>1, ResultFields DEF t8_32_end_cp
  <2>2. CASE e = 16
    <3>1. decoder_end_cp(e, d) = t16_32_end_cp(d)
      BY <2>2 DEF decoder_end_cp
    <3>. QED
      BY <3>1, ResultFields DEF t16_32_end_cp
  <2>3. CASE e = 32
    <3>1. decoder_end_cp(e, d) = Result(d, <<>>)
      BY <2>3 DEF decoder_end_cp
    <3>. QED
      BY <3>1, ResultFields
  <2>. QED
    BY <2>1, <2>2, <2>3 DEF Encodings
<1>. QED
  BY <1>1, ScalarMember DEF MayWrite

\* The reader gets back the text that was encoded, and is at rest again.
LEMMA ReaderReads ==
  ASSUME NEW e \in Encodings, NEW d \in Resting(e), NEW units \in Seq(Scalar)
  PROVE  /\ decoded(e, d, encoded(e, units)).coder \in Resting(e)
         /\ decoded(e, d, encoded(e, units)).out = units
<1>1. PICK c \in Resting(e) :
        Decoding!Folded(e, Result(d, <<>>), encoded(e, units)) = Result(c, units)
  BY RoundTrip
<1>2. decoded(e, d, encoded(e, units)) = Result(c, units)
  BY <1>1, DecodedIsFold
<1>. QED
  BY <1>2, ResultFields

-----------------------------------------------------------------------------
(***************************************************************************)
(* length() and index() of a text: where its code points start.            *)
(***************************************************************************)
\* Of the code units written for a scalar value, the first starts a code point and
\* no other does.
LEMMA OnlyFirstStarts ==
  ASSUME NEW e \in Encodings, NEW x \in Scalar, NEW i \in 1 .. Len(encode(e, x))
  PROVE  is_code_point_start(e, encode(e, x)[i]) <=> i = 1
<1>. DEFINE w == encode(e, x)
<1>0. x \in Nat /\ x <= 1114111 /\ IsScalar(x)
  BY ScalarIsInt, SMT
<1>1. CASE e = 8
  <2>1. w = utf8(x)
    BY <1>1 DEF encode
  <2>2. \A b \in Nat : is_code_point_start(e, b) <=> b \div 64 # 2
    BY <1>1 DEF is_code_point_start
  <2>3. ASSUME NEW t \in 128 .. 191 PROVE ~ is_code_point_start(e, t)
    BY <2>2, SMT
  <2>4. ASSUME NEW l \in 0 .. 255, l < 128 \/ 192 <= l PROVE is_code_point_start(e, l)
    BY <2>2, <2>4, SMT
  <2>5. /\ 128 + (x % 64) \in 128 .. 191 /\ 128 + ((x \div 64) % 64) \in 128 .. 191
        /\ 128 + ((x \div 4096) % 64) \in 128 .. 191
    <3>1. 128 + (x % 64) \in 128 .. 191
      BY <1>0, SMT
    <3>2. 128 + ((x \div 64) % 64) \in 128 .. 191
      BY <1>0, SMT
    <3>3. 128 + ((x \div 4096) % 64) \in 128 .. 191
      BY <1>0, SMT
    <3>. QED
      BY <3>1, <3>2, <3>3
  <2>6. CASE x < 128
    <3>1. w = <<x>>
      BY <2>1, <2>6, Utf8Forms, SMT
    <3>2. is_code_point_start(e, x)
      <4>1. x \in 0 .. 255 /\ (x < 128 \/ 192 <= x)
        BY <1>0, <2>6, SMT
      <4>. QED
        BY <2>4, <4>1
    <3>3. i = 1 /\ w[1] = x
      BY <3>1 DEF w
    <3>. QED
      BY <3>2, <3>3 DEF w
  <2>7. CASE 128 <= x /\ x < 2048
    <3>. DEFINE a == 192 + x \div 64
                b == 128 + (x % 64)
    <3>1. w = <<a, b>>
      BY <2>1, <2>7, Utf8Forms, SMT
    <3>2. a \in 0 .. 255 /\ 192 <= a
      BY <1>0, <2>7, SMT
    <3>3. b \in 128 .. 191
      BY <2>5
    <3>. HIDE DEF a, b, w
    <3>4. is_code_point_start(e, a)
      BY <2>4, <3>2
    <3>5. ~ is_code_point_start(e, b)
      BY <2>3, <3>3
    <3>6. Len(w) = 2 /\ w[1] = a /\ w[2] = b
      BY <3>1
    <3>7. i = 1 \/ i = 2
      BY <3>6 DEF w
    <3>. QED
      BY <3>4, <3>5, <3>6, <3>7 DEF w
  <2>8. CASE 2048 <= x /\ x < 65536
    <3>. DEFINE a == 224 + x \div 4096
                b == 128 + ((x \div 64) % 64)
                c == 128 + (x % 64)
    <3>1. w = <<a, b, c>>
      BY <2>1, <2>8, Utf8Forms, SMT
    <3>2. a \in 0 .. 255 /\ 192 <= a
      BY <1>0, <2>8, SMT
    <3>3. b \in 128 .. 191 /\ c \in 128 .. 191
      BY <2>5
    <3>. HIDE DEF a, b, c, w
    <3>4. is_code_point_start(e, a)
      BY <2>4, <3>2
    <3>5. ~ is_code_point_start(e, b) /\ ~ is_code_point_start(e, c)
      BY <2>3, <3>3
    <3>6. Len(w) = 3 /\ w[1] = a /\ w[2] = b /\ w[3] = c
      BY <3>1
    <3>7. i = 1 \/ i = 2 \/ i = 3
      BY <3>6 DEF w
    <3>. QED
      BY <3>4, <3>5, <3>6, <3>7 DEF w
  <2>9. CASE 65536 <= x
    <3>. DEFINE a == 240 + x \div 262144
                b == 128 + ((x \div 4096) % 64)
                c == 128 + ((x \div 64) % 64)
                d == 128 + (x % 64)
    <3>1. w = <<a, b, c, d>>
      BY <2>1, <2>9, Utf8Forms, SMT
    <3>2. a \in 0 .. 255 /\ 192 <= a
      BY <1>0, SMT
    <3>3. b \in 128 .. 191 /\ c \in 128 .. 191 /\ d \in 128 .. 191
      BY <2>5
    <3>. HIDE DEF a, b, c, d, w
    <3>4. is_code_point_start(e, a)
      BY <2>4, <3>2
    <3>5. ~ is_code_point_start(e, b) /\ ~ is_code_point_start(e, c) /\ ~ is_code_point_start(e, d)
      BY <2>3, <3>3
    <3>6. Len(w) = 4 /\ w[1] = a /\ w[2] = b /\ w[3] = c /\ w[4] = d
      BY <3>1
    <3>7. i = 1 \/ i = 2 \/ i = 3 \/ i = 4
      BY <3>6 DEF w
    <3>. QED
      BY <3>4, <3>5, <3>6, <3>7 DEF w
  <2>. QED
    BY <1>0, <2>6, <2>7, <2>8, <2>9, SMT
<1>2. CASE e = 16
  <2>1. w = utf16(x)
    BY <1>2 DEF encode
  <2>2. \A b \in Nat : is_code_point_start(e, b) <=> ~ (56320 <= b /\ b <= 57343)
    BY <1>2 DEF is_code_point_start, is_low_surrogate, first_low_surrogate, last_low_surrogate
  <2>3. CASE x <= 65535
    <3>1. w = <<x>>
      BY <1>0, <2>1, <2>3, Utf16Forms, SMT
    <3>2. is_code_point_start(e, x)
      BY <1>0, <2>2, SMT DEF IsScalar, is_surrogate, is_low_surrogate, first_low_surrogate, last_low_surrogate
    <3>3. i = 1 /\ w[1] = x
      BY <3>1
    <3>. QED
      BY <3>2, <3>3
  <2>4. CASE 65536 <= x
    <3>. DEFINE a == 55232 + x \div 1024
                b == 56320 + (x % 1024)
    <3>1. w = <<a, b>>
      BY <2>1, <2>4, Utf16Forms, SMT
    <3>2. a \in 55296 .. 56319
      BY <1>0, <2>4, SMT
    <3>3. b \in 56320 .. 57343
      BY <1>0, SMT
    <3>. HIDE DEF a, b, w
    <3>4. is_code_point_start(e, a) /\ ~ is_code_point_start(e, b)
      BY <2>2, <3>2, <3>3, SMT
    <3>5. Len(w) = 2 /\ w[1] = a /\ w[2] = b
      BY <3>1
    <3>6. i = 1 \/ i = 2
      BY <3>5 DEF w
    <3>. QED
      BY <3>4, <3>5, <3>6 DEF w
  <2>. QED
    BY <1>0, <2>3, <2>4, SMT
<1>3. CASE e = 32
  <2>1. w = <<x>>
    BY <1>3 DEF encode
  <2>2. is_code_point_start(e, x)
    BY <1>0, <1>3, SMT DEF is_code_point_start, IsScalar, max_code_point
  <2>3. i = 1 /\ w[1] = x
    BY <2>1
  <2>. QED
    BY <2>2, <2>3, SMT
<1>. QED
  BY <1>1, <1>2, <1>3 DEF Encodings

\* The starts of two sequences, one after the other.
LEMMA StartsOfConcat ==
  ASSUME NEW e, NEW T, NEW a \in Seq(T), NEW b \in Seq(T)
  PROVE  /\ Starts(e, a) \subseteq 1 .. Len(a)
         /\ \A i \in 1 .. Len(a) : i \in Starts(e, a \o b) <=> i \in Starts(e, a)
         /\ \A i \in Nat : Len(a) < i =>
              (i \in Starts(e, a \o b) <=> i - Len(a) \in Starts(e, b))
         /\ Starts(e, a \o b) \subseteq 1 .. Len(a) + Len(b)
<1>1. /\ a \o b \in Seq(T) /\ Len(a \o b) = Len(a) + Len(b) /\ Len(a) \in Nat /\ Len(b) \in Nat
      /\ \A i \in 1 .. Len(a) : (a \o b)[i] = a[i]
      /\ \A i \in Len(a) + 1 .. Len(a) + Len(b) : (a \o b)[i] = b[i - Len(a)]
  OBVIOUS
<1>2. /\ \A i : i \in Starts(e, a) <=> i \in 1 .. Len(a) /\ is_code_point_start(e, a[i])
      /\ \A i : i \in Starts(e, b) <=> i \in 1 .. Len(b) /\ is_code_point_start(e, b[i])
      /\ \A i : i \in Starts(e, a \o b)
                  <=> i \in 1 .. Len(a) + Len(b) /\ is_code_point_start(e, (a \o b)[i])
  BY <1>1 DEF Starts
<1>3. ASSUME NEW i \in 1 .. Len(a) PROVE i \in Starts(e, a \o b) <=> i \in Starts(e, a)
  <2>1. i \in 1 .. Len(a) + Len(b) /\ (a \o b)[i] = a[i]
    BY <1>1
  <2>. QED
    BY <1>2, <2>1
<1>4. ASSUME NEW i \in Nat, Len(a) < i
      PROVE  i \in Starts(e, a \o b) <=> i - Len(a) \in Starts(e, b)
  <2>1. i \in 1 .. Len(a) + Len(b) <=> i - Len(a) \in 1 .. Len(b)
    BY <1>1, <1>4
  <2>2. CASE i \in 1 .. Len(a) + Len(b)
    <3>1. (a \o b)[i] = b[i - Len(a)]
      BY <1>1, <1>4, <2>2
    <3>. QED
      BY <1>2, <2>1, <2>2, <3>1
  <2>. QED
    BY <1>2, <2>1, <2>2
<1>. QED
  BY <1>2, <1>3, <1>4

\* One more scalar value is one more start, after all others.
LEMMA StartsOfNext ==
  ASSUME NEW e \in Encodings, NEW T, NEW a \in Seq(T), NEW x \in Scalar, encode(e, x) \in Seq(T)
  PROVE  Starts(e, a \o encode(e, x)) = Starts(e, a) \union {Len(a) + 1}
<1>. DEFINE w == encode(e, x)
            p == Len(a) + 1
<1>1. Len(w) \in Nat /\ 1 <= Len(w) /\ Len(a) \in Nat
  BY EncodeType
<1>2. \A j : j \in Starts(e, w) <=> j = 1
  <2>1. \A j \in 1 .. Len(w) : is_code_point_start(e, w[j]) <=> j = 1
    BY OnlyFirstStarts
  <2>2. DOMAIN w = 1 .. Len(w) /\ 1 \in 1 .. Len(w)
    BY <1>1
  <2>. HIDE DEF w
  <2>. QED
    BY <2>1, <2>2 DEF Starts
<1>. HIDE DEF w
<1>3. ASSUME NEW i \in Nat PROVE i \in Starts(e, a \o w) <=> i \in Starts(e, a) \/ i = p
  <2>1. CASE Len(a) < i
    <3>1. i \in Starts(e, a \o w) <=> i - Len(a) = 1
      BY <1>2, <2>1, StartsOfConcat DEF w
    <3>2. i \notin Starts(e, a)
      BY <1>1, <2>1, StartsOfConcat
    <3>. QED
      BY <1>1, <3>1, <3>2
  <2>2. CASE i \in 1 .. Len(a)
    <3>1. i # p
      BY <1>1, <2>2
    <3>. QED
      BY <2>2, <3>1, StartsOfConcat DEF w
  <2>3. CASE i = 0
    <3>1. 0 \notin Starts(e, a) /\ 0 \notin Starts(e, a \o w) /\ 0 # p
      BY <1>1, StartsOfConcat DEF w
    <3>. QED
      BY <2>3, <3>1
  <2>. QED
    BY <1>1, <2>1, <2>2, <2>3
<1>4. Starts(e, a \o w) \subseteq Nat /\ Starts(e, a) \subseteq Nat /\ p \in Nat
  BY <1>1, StartsOfConcat DEF w
<1>. HIDE DEF p
<1>5. Starts(e, a \o w) = Starts(e, a) \union {p}
  BY <1>3, <1>4
<1>. QED
  BY <1>5 DEF w, p

\* length() of the encoding of a text is the number of its code points.
LEMMA LengthOfText ==
  ASSUME NEW e \in Encodings
  PROVE  \A u \in Seq(Scalar) : /\ IsFiniteSet(Starts(e, encoded(e, u)))
                                /\ length(e, encoded(e, u)) = Len(u)
<1>. DEFINE Counted(u) == /\ IsFiniteSet(Starts(e, encoded(e, u)))
                          /\ Cardinality(Starts(e, encoded(e, u))) = Len(u)
            S == {u \in Seq(Scalar) : Counted(u)}
<1>1. <<>> \in S
  <2>1. encoded(e, <<>>) = <<>>
    BY EncodedAppend
  <2>2. Starts(e, <<>>) = {}
    BY DEF Starts
  <2>3. IsFiniteSet({}) /\ Cardinality({}) = 0 /\ Len(<<>>) = 0
    BY FS_EmptySet
  <2>4. Counted(<<>>)
    BY <2>1, <2>2, <2>3
  <2>. QED
    BY <2>4
<1>2. ASSUME NEW u \in Seq(Scalar), NEW x \in Scalar, u \in S PROVE Append(u, x) \in S
  <2>. DEFINE a == encoded(e, u)
  <2>1. a \in Seq(EncodedUnit(e)) /\ encode(e, x) \in Seq(EncodedUnit(e))
    <3>1. a \in Seq(EncodedUnit(e))
      BY CopyEncodes
    <3>2. encode(e, x) \in Seq(EncodedUnit(e))
      BY EncodeType
    <3>. QED
      BY <3>1, <3>2
  <2>2. encoded(e, Append(u, x)) = a \o encode(e, x)
    BY EncodedAppend
  <2>3. Starts(e, a \o encode(e, x)) = Starts(e, a) \union {Len(a) + 1}
    BY <2>1, StartsOfNext
  <2>4. Len(a) + 1 \notin Starts(e, a)
    BY <2>1, StartsOfConcat
  <2>5. IsFiniteSet(Starts(e, a)) /\ Cardinality(Starts(e, a)) = Len(u)
    BY <1>2
  <2>6. Append(u, x) \in Seq(Scalar) /\ Len(Append(u, x)) = Len(u) + 1
    OBVIOUS
  <2>. HIDE DEF a
  <2>7. Counted(Append(u, x))
    <3>. DEFINE Z == Starts(e, a)
                z == Len(a) + 1
    <3>1. IsFiniteSet(Z) /\ z \notin Z
      BY <2>4, <2>5
    <3>2. Starts(e, encoded(e, Append(u, x))) = Z \union {z}
      BY <2>2, <2>3
    <3>. HIDE DEF Z, z
    <3>3. IsFiniteSet(Z \union {z}) /\ Cardinality(Z \union {z}) = Cardinality(Z) + 1
      BY <3>1, FS_AddElement
    <3>4. Cardinality(Z) = Len(u)
      BY <2>5 DEF Z
    <3>. QED
      BY <2>6, <3>2, <3>3, <3>4
  <2>. QED
    BY <2>6, <2>7
<1>3. \A u \in Seq(Scalar) : u \in S
  <2>. HIDE DEF S
  <2>1. \A u \in Seq(Scalar), x \in Scalar : u \in S => Append(u, x) \in S
    BY <1>2
  <2>. QED
    BY <1>1, <2>1, Decoding!SequenceInduction
<1>. QED
  BY <1>3 DEF length

\* A text in two parts is encoded part by part.
LEMMA EncodedConcat ==
  ASSUME NEW e \in Encodings, NEW a \in Seq(Scalar)
  PROVE  \A b \in Seq(Scalar) : encoded(e, a \o b) = encoded(e, a) \o encoded(e, b)
<1>. DEFINE S == {b \in Seq(Scalar) : encoded(e, a \o b) = encoded(e, a) \o encoded(e, b)}
            T == EncodedUnit(e)
<1>1. \A u \in Seq(Scalar) : encoded(e, u) \in Seq(T)
  BY CopyEncodes
<1>2. <<>> \in S
  <2>1. encoded(e, <<>>) = <<>>
    BY EncodedAppend
  <2>2. a \o <<>> = a
    BY ConcatEmptySeq
  <2>3. encoded(e, a) \o <<>> = encoded(e, a)
    BY <1>1, ConcatEmptySeq
  <2>4. encoded(e, a \o <<>>) = encoded(e, a) \o encoded(e, <<>>)
    BY <2>1, <2>2, <2>3
  <2>. QED
    BY <2>4
<1>3. ASSUME NEW b \in Seq(Scalar), NEW x \in Scalar, b \in S PROVE Append(b, x) \in S
  <2>1. a \o b \in Seq(Scalar) /\ a \o Append(b, x) = Append(a \o b, x) /\ Append(b, x) \in Seq(Scalar)
    <3>1. <<x>> \in Seq(Scalar) /\ Append(b, x) = b \o <<x>> /\ Append(b, x) \in Seq(Scalar)
      BY AppendIsConcat
    <3>2. a \o b \in Seq(Scalar)
      BY ConcatProperties
    <3>3. Append(a \o b, x) = (a \o b) \o <<x>>
      BY <3>2, AppendIsConcat
    <3>4. (a \o b) \o <<x>> = a \o (b \o <<x>>)
      BY <3>1, ConcatAssociative
    <3>. QED
      BY <3>1, <3>2, <3>3, <3>4
  <2>. DEFINE A == encoded(e, a)
              B == encoded(e, b)
              w == encode(e, x)
  <2>2. encoded(e, Append(a \o b, x)) = encoded(e, a \o b) \o w /\ encoded(e, Append(b, x)) = B \o w
    BY <2>1, EncodedAppend
  <2>3. encoded(e, a \o b) = A \o B
    BY <1>3
  <2>4. A \in Seq(T) /\ B \in Seq(T) /\ w \in Seq(T)
    BY <1>1, EncodeType
  <2>. HIDE DEF A, B, w, T
  <2>5. (A \o B) \o w = A \o (B \o w)
    BY <2>4, ConcatAssociative
  <2>6. encoded(e, a \o Append(b, x)) = A \o encoded(e, Append(b, x))
    BY <2>1, <2>2, <2>3, <2>5
  <2>. QED
    BY <2>1, <2>6 DEF A
<1>4. \A b \in Seq(Scalar) : b \in S
  <2>. HIDE DEF S
  <2>1. \A b \in Seq(Scalar), x \in Scalar : b \in S => Append(b, x) \in S
    BY <1>3
  <2>. QED
    BY <1>2, <2>1, Decoding!SequenceInduction
<1>. QED
  BY <1>4

\* Of a finite set of naturals, how many elements are less than one of them.
LEMMA ElementsBelow ==
  ASSUME NEW S \in SUBSET Nat, IsFiniteSet(S), NEW p \in S, NEW i \in S
  PROVE  Cardinality({j \in S : j < i}) = Cardinality({j \in S : j < p}) <=> i = p
<1>. DEFINE below(k) == {j \in S : j < k}
<1>1. \A k \in S : IsFiniteSet(below(k))
  BY FS_Subset
<1>2. ASSUME NEW k \in S, NEW l \in S, k < l PROVE Cardinality(below(k)) # Cardinality(below(l))
  <2>1. below(k) \in SUBSET below(l) /\ k \in below(l) /\ k \notin below(k)
    <3>1. \A j \in S : j < k => j < l
      BY <1>2
    <3>2. ~ (k < k)
      OBVIOUS
    <3>. QED
      BY <1>2, <3>1, <3>2
  <2>2. below(k) # below(l)
    BY <2>1
  <2>. HIDE DEF below
  <2>. QED
    BY <1>1, <2>1, <2>2, FS_Subset
<1>3. i < p \/ p < i \/ i = p
  OBVIOUS
<1>. QED
  BY <1>2, <1>3

\* index() finds where a text may be cut in two.
LEMMA IndexOfCut ==
  ASSUME NEW e \in Encodings, NEW a \in Seq(Scalar), NEW b \in Seq(Scalar)
  PROVE  LET o == encoded(e, a \o b)
             p == index(e, o, Len(a))
         IN  SubSeq(o, p, Len(o)) = encoded(e, b)
<1>. DEFINE T == EncodedUnit(e)
            A == encoded(e, a)
            B == encoded(e, b)
            o == encoded(e, a \o b)
            p == Len(A) + 1
            starts == Starts(e, o)
            below(i) == {j \in starts : j < i}
            found == {i \in starts : Cardinality(below(i)) = Len(a)}
<1>1. A \in Seq(T) /\ B \in Seq(T) /\ o = A \o B
  BY CopyEncodes, EncodedConcat
<1>2. IsFiniteSet(starts) /\ IsFiniteSet(Starts(e, A)) /\ Cardinality(Starts(e, A)) = Len(a)
  <2>1. a \o b \in Seq(Scalar)
    BY ConcatProperties
  <2>. QED
    BY <2>1, LengthOfText DEF length
<1>. HIDE DEF o, A, B
<1>3. Len(A) \in Nat /\ Len(B) \in Nat /\ p \in Nat /\ Len(o) = Len(A) + Len(B) /\ starts \in SUBSET Nat
  <2>1. starts \subseteq 1 .. Len(A) + Len(B)
    BY <1>1, StartsOfConcat
  <2>. QED
    BY <1>1, <2>1
<1>4. below(p) = Starts(e, A)
  <2>1. Starts(e, A) \subseteq 1 .. Len(A)
    BY <1>1, StartsOfConcat
  <2>2. \A i \in 1 .. Len(A) : i \in starts <=> i \in Starts(e, A)
    BY <1>1, StartsOfConcat
  <2>3. starts \subseteq 1 .. Len(A) + Len(B)
    BY <1>1, StartsOfConcat
  <2>. HIDE DEF starts
  <2>4. \A i \in starts : i < p <=> i \in 1 .. Len(A)
    BY <1>3, <2>3
  <2>. HIDE DEF p
  <2>. QED
    BY <2>1, <2>2, <2>3, <2>4
<1>5. index(e, o, Len(a)) = IF found = {} THEN Len(o) + 1 ELSE CHOOSE i \in found : TRUE
  BY DEF index
<1>6. CASE b = <<>>
  <2>1. B = <<>> /\ o = A
    <3>1. B = <<>>
      BY <1>6, EncodedAppend DEF B
    <3>. QED
      BY <1>1, <3>1, ConcatEmptySeq
  <2>2. found = {}
    <3>. SUFFICES ASSUME NEW i \in starts, Cardinality(below(i)) = Len(a) PROVE FALSE
      OBVIOUS
    <3>1. below(i) \in SUBSET starts /\ i \notin below(i)
      BY <1>3
    <3>2. starts = Starts(e, A)
      BY <2>1
    <3>. HIDE DEF below, starts
    <3>3. starts = below(i)
      BY <1>2, <3>1, <3>2, FS_Subset
    <3>. QED
      BY <3>1, <3>3
  <2>3. index(e, o, Len(a)) = Len(o) + 1
    BY <1>5, <2>2
  <2>4. SubSeq(o, Len(o) + 1, Len(o)) = <<>>
    <3>1. Len(o) + 1 \in Int /\ Len(o) \in Int /\ Len(o) < Len(o) + 1
      BY <1>3
    <3>. QED
      BY <3>1, SubSeqEmpty
  <2>. QED
    BY <2>1, <2>3, <2>4 DEF o, B
<1>7. CASE b # <<>>
  <2>1. p \in starts
    <3>. DEFINE x == Head(b)
                rest == Tail(b)
                w == encode(e, x)
                C == encoded(e, rest)
    <3>1. x \in Scalar /\ rest \in Seq(Scalar) /\ <<x>> \in Seq(Scalar) /\ b = <<x>> \o rest
      BY <1>7
    <3>2. B = encoded(e, <<x>>) \o C
      <4>. HIDE DEF x, rest
      <4>. QED
        BY <3>1, EncodedConcat DEF B
    <3>3. encoded(e, <<x>>) = w
      <4>1. MayWrite(e, <<x>>)
        BY <3>1 DEF MayWrite
      <4>. HIDE DEF x
      <4>. QED
        BY <3>1, <4>1, EncodedLength
    <3>. HIDE DEF x, rest
    <3>4. w \in Seq(T) /\ C \in Seq(T) /\ 1 \in 1 .. Len(w)
      <4>1. C \in Seq(T)
        BY <3>1, CopyEncodes
      <4>2. w \in Seq(T) /\ 1 <= Len(w) /\ Len(w) \in Nat
        BY <3>1, EncodeType
      <4>. QED
        BY <4>1, <4>2
    <3>5. is_code_point_start(e, w[1])
      BY <3>1, <3>4, OnlyFirstStarts
    <3>. HIDE DEF w, C, T
    <3>6. 1 \in Starts(e, w)
      BY <3>4, <3>5 DEF Starts
    <3>7. 1 \in Starts(e, w \o C)
      BY <3>4, <3>6, StartsOfConcat
    <3>8. p - Len(A) = 1 /\ Len(A) < p
      BY <1>3
    <3>9. p \in Starts(e, A \o B) <=> p - Len(A) \in Starts(e, B)
      BY <1>1, <1>3, <3>8, StartsOfConcat
    <3>. QED
      BY <1>1, <3>2, <3>3, <3>7, <3>8, <3>9
  <2>2. \A i \in starts : Cardinality(below(i)) = Len(a) <=> i = p
    <3>1. \A i \in starts : Cardinality(below(i)) = Cardinality(below(p)) <=> i = p
      <4>. HIDE DEF starts, p
      <4>. QED
        BY <1>2, <1>3, <2>1, ElementsBelow
    <3>. HIDE DEF below, starts, p
    <3>. QED
      BY <1>2, <1>4, <3>1
  <2>3. found = {p}
    <3>. HIDE DEF below, starts, p
    <3>. QED
      BY <2>1, <2>2
  <2>. HIDE DEF found, p
  <2>4. index(e, o, Len(a)) = p
    BY <1>5, <2>3
  <2>5. SubSeq(o, p, Len(o)) = B
    <3>1. /\ \A i \in Len(A) + 1 .. Len(o) : o[i] = B[i - Len(A)] /\ o[i] \in T
          /\ \A i \in 1 .. Len(B) : o[i + Len(A)] = B[i]
      <4>. HIDE DEF T
      <4>. QED
        BY <1>1, <1>3
    <3>2. p = Len(A) + 1 /\ p \in Int /\ Len(o) \in Int
      BY <1>3 DEF p
    <3>. DEFINE s == SubSeq(o, p, Len(o))
    <3>. HIDE DEF T
    <3>3. /\ s \in Seq(T) /\ Len(s) = IF p <= Len(o) THEN Len(o) - p + 1 ELSE 0
          /\ \A i \in 1 .. Len(o) - p + 1 : s[i] = o[p + i - 1]
      BY <3>1, <3>2, SubSeqProperties
    <3>. HIDE DEF s
    <3>4. Len(s) = Len(B) /\ \A i \in 1 .. Len(s) : s[i] = B[i]
      <4>1. Len(s) = Len(B) /\ Len(o) - p + 1 = Len(B)
        BY <1>3, <3>2, <3>3
      <4>2. ASSUME NEW i \in 1 .. Len(B) PROVE s[i] = B[i]
        <5>1. p + i - 1 = i + Len(A)
          BY <1>3, <3>2
        <5>. QED
          BY <3>1, <3>3, <4>1, <5>1
      <4>. QED
        BY <4>1, <4>2
    <3>5. s = B
      BY <1>1, <3>3, <3>4, SeqEqual
    <3>. QED
      BY <3>5 DEF s
  <2>. QED
    BY <2>4, <2>5 DEF o, B
<1>. QED
  BY <1>6, <1>7

\* length() counts the code points of any text, and decoding from where index()
\* finds one reads everything from it on.
THEOREM StartsOfText ==
  ASSUME NEW e \in Encodings, NEW u \in Seq(Scalar)
  PROVE  LET o == encoded(e, u)
         IN  /\ length(e, o) = Len(u)
             /\ \A k \in 0 .. Len(u) :
                  decoded(e, decoder(e), SubSeq(o, index(e, o, k), Len(o))).out
                    = SubSeq(u, k + 1, Len(u))
<1>1. length(e, encoded(e, u)) = Len(u)
  BY LengthOfText
<1>2. decoder(e) \in Resting(e)
  BY ConstructedObject DEF Resting
<1>3. ASSUME NEW k \in 0 .. Len(u)
      PROVE  decoded(e, decoder(e), SubSeq(encoded(e, u), index(e, encoded(e, u), k), Len(encoded(e, u)))).out
               = SubSeq(u, k + 1, Len(u))
  <2>. DEFINE a == SubSeq(u, 1, k)
              b == SubSeq(u, k + 1, Len(u))
  <2>1. a \in Seq(Scalar) /\ b \in Seq(Scalar) /\ Len(a) = k /\ u = a \o b
    <3>1. \A i \in 1 .. Len(u) : u[i] \in Scalar
      OBVIOUS
    <3>2. a \in Seq(Scalar) /\ Len(a) = k /\ \A i \in 1 .. k : a[i] = u[i]
      <4>1. \A i \in 1 .. k : u[i] \in Scalar
        BY <3>1
      <4>. QED
        BY <4>1, SubSeqProperties
    <3>3. b \in Seq(Scalar) /\ Len(b) = Len(u) - k /\ \A i \in 1 .. Len(u) - k : b[i] = u[k + i]
      <4>1. \A i \in k + 1 .. Len(u) : u[i] \in Scalar
        BY <3>1
      <4>. QED
        BY <4>1, SubSeqProperties
    <3>. HIDE DEF a, b
    <3>4. /\ a \o b \in Seq(Scalar) /\ Len(a \o b) = Len(a) + Len(b)
          /\ \A i \in 1 .. Len(a) + Len(b) :
               (a \o b)[i] = IF i <= Len(a) THEN a[i] ELSE b[i - Len(a)]
      BY <3>2, <3>3, ConcatProperties
    <3>5. Len(u) \in Nat /\ Len(a) + Len(b) = Len(u)
      BY <3>2, <3>3
    <3>6. ASSUME NEW i \in 1 .. Len(u) PROVE u[i] = (a \o b)[i]
      <4>1. CASE i <= k
        <5>1. i \in 1 .. k
          BY <4>1
        <5>. QED
          BY <3>2, <3>4, <3>5, <4>1, <5>1
      <4>2. CASE ~ (i <= k)
        <5>1. i - k \in 1 .. Len(u) - k /\ k + (i - k) = i
          BY <3>5, <4>2
        <5>2. b[i - k] = u[i]
          BY <3>3, <5>1
        <5>. QED
          BY <3>2, <3>4, <3>5, <4>2, <5>2
      <4>. QED
        BY <4>1, <4>2
    <3>7. u = a \o b
      BY <3>4, <3>6, <3>5, SeqEqual
    <3>. QED
      BY <3>2, <3>3, <3>7
  <2>. HIDE DEF a, b
  <2>2. SubSeq(encoded(e, u), index(e, encoded(e, u), k), Len(encoded(e, u))) = encoded(e, b)
    BY <2>1, IndexOfCut
  <2>3. decoded(e, decoder(e), encoded(e, b)).out = b
    BY <1>2, <2>1, ReaderReads
  <2>. QED
    BY <2>2, <2>3 DEF b
<1>. QED
  BY <1>1, <1>3

-----------------------------------------------------------------------------
\* A program starts with a transcoder and decoders as they are constructed.
LEMMA InitHolds == ASSUME Init PROVE CInv
<1>1. PICK pair \in Pairs : from = pair[1] /\ to = pair[2]
  BY DEF Init
<1>2. <<from, to>> \in Pairs
  BY <1>1, PairsAssumption
<1>3. from \in Encodings /\ to \in Encodings
  BY <1>2, PairEncodings
<1>4. ConvertsReference
  BY <1>3, ConstructedObject DEF Init, ConvertsReference
<1>5. WritesEncoded
  BY <1>3, EncodedAppend DEF Init, WritesEncoded, MayWrite
<1>6. ReadsBack
  BY <1>3, ConstructedObject DEF Init, ReadsBack, Resting
<1>. QED
  BY <1>2, <1>4, <1>5, <1>6 DEF CInv

\* A call of both `coder` and `reference`.
LEMMA WritesBoth ==
  ASSUME CInv, NEW converted, NEW referred, NEW f \in Encodings,
         Writes(converted, referred), from' = f, <<f, to>> \in Pairs,
         referred.coder \in Decoder(f), MayWrite(f, referred.out),
         converted = Result(object(f, to, referred.coder), encoded(to, referred.out))
  PROVE  CInv'
<1>1. to \in Encodings /\ to' = to
  BY PairEncodings DEF CInv, Writes
<1>2. referred.out \in Seq(Scalar)
  BY <1>1, EncodedLength
<1>3. converted.coder = object(f, to, referred.coder) /\ converted.out = encoded(to, referred.out)
  BY ResultFields
<1>4. coder' = converted.coder /\ out' = converted.out
  BY DEF Writes
<1>5. reference' = referred.coder /\ expected' = referred.out
  BY DEF Writes
<1>6. /\ reader' = decoded(to, reader, encoded(to, referred.out)).coder
      /\ read' = decoded(to, reader, encoded(to, referred.out)).out
  BY <1>3 DEF Writes
<1>7. ConvertsReference'
  BY <1>1, <1>3, <1>4, <1>5 DEF ConvertsReference
<1>8. WritesEncoded'
  BY <1>1, <1>3, <1>4, <1>5 DEF WritesEncoded
<1>9. ReadsBack'
  <2>1. reader \in Resting(to)
    BY DEF CInv, ReadsBack
  <2>2. reader' \in Resting(to) /\ read' = referred.out
    BY <1>1, <1>2, <1>6, <2>1, ReaderReads
  <2>. QED
    BY <1>1, <1>5, <2>2 DEF ReadsBack
<1>. QED
  BY <1>1, <1>7, <1>8, <1>9 DEF CInv

\* operator().
LEMMA CallConverts ==
  ASSUME CInv, NEW unit \in Units[from], Call(unit)
  PROVE  CInv' /\ Reports(reference, decoder_call(from, reference, unit))
<1>. DEFINE referred == decoder_call(from, reference, unit)
            converted == call(from, to, coder, unit)
<1>1. /\ <<from, to>> \in Pairs /\ from \in Encodings /\ to \in Encodings
      /\ unit \in CodeUnit(from)
  BY PairEncodings DEF CInv
<1>2. reference \in Decoder(from) /\ coder = object(from, to, reference)
  BY DEF CInv, ConvertsReference
<1>3. Decodes(from, reference, referred)
  BY <1>1, <1>2, DecoderDecodes
<1>4. converted = Result(object(from, to, referred.coder), encoded(to, referred.out))
  BY <1>1, <1>2, CallEncodes
<1>5. Writes(converted, referred) /\ from' = from
  BY DEF Call
<1>6. referred.coder \in Decoder(from) /\ MayWrite(from, referred.out)
  BY <1>3 DEF Decodes
<1>. HIDE DEF referred, converted
<1>7. CInv'
  BY <1>1, <1>4, <1>5, <1>6, WritesBoth
<1>. QED
  BY <1>3, <1>7 DEF Decodes, referred

\* end_cp().
LEMMA EndCpConverts ==
  ASSUME CInv, EndCp
  PROVE  CInv' /\ Reports(reference, decoder_end_cp(from, reference))
<1>. DEFINE referred == decoder_end_cp(from, reference)
            converted == end_cp(from, to, coder)
<1>1. <<from, to>> \in Pairs /\ from \in Encodings /\ to \in Encodings
  BY PairEncodings DEF CInv
<1>2. reference \in Decoder(from) /\ coder = object(from, to, reference)
  BY DEF CInv, ConvertsReference
<1>3. Decodes(from, reference, referred)
  BY <1>1, <1>2, DecoderDecodes
<1>4. converted = Result(object(from, to, referred.coder), encoded(to, referred.out))
  BY <1>1, <1>2, EndCpEncodes
<1>5. Writes(converted, referred) /\ from' = from
  BY DEF EndCp
<1>6. referred.coder \in Decoder(from) /\ MayWrite(from, referred.out)
  BY <1>3 DEF Decodes
<1>. HIDE DEF referred, converted
<1>7. CInv'
  BY <1>1, <1>4, <1>5, <1>6, WritesBoth
<1>. QED
  BY <1>3, <1>7 DEF Decodes, referred

\* end_cp() of the one object, and the construction of the next.
LEMMA GoOnConverts ==
  ASSUME CInv, NEW f \in Encodings, GoOnIn(f)
  PROVE  /\ CInv'
         /\ Reports(reference, decoder_end_cp(from, reference))
         /\ reference'.well_formed = decoder_end_cp(from, reference).coder.well_formed
         /\ expected' = decoder_end_cp(from, reference).out
<1>. DEFINE referred == decoder_end_cp(from, reference)
            last == end_cp(from, to, coder)
            wf == referred.coder.well_formed
            next == constructed_with(f, wf)
<1>1. <<from, to>> \in Pairs /\ from \in Encodings /\ to \in Encodings
  BY PairEncodings DEF CInv
<1>2. reference \in Decoder(from) /\ coder = object(from, to, reference)
  BY DEF CInv, ConvertsReference
<1>3. Decodes(from, reference, referred)
  BY <1>1, <1>2, DecoderDecodes
<1>4. last = Result(object(from, to, referred.coder), encoded(to, referred.out))
  BY <1>1, <1>2, EndCpEncodes
<1>5. to = 32 /\ f \in {8, 16} /\ <<f, to>> \in Pairs /\ from' = f
  BY DEF GoOnIn, Encodings
<1>6. referred.coder \in Decoder(from) /\ MayWrite(f, referred.out)
  BY <1>1, <1>2, <1>3, EndWrites DEF Decodes
<1>7. last.coder = object(from, to, referred.coder) /\ last.out = encoded(to, referred.out)
  BY <1>4, ResultFields
<1>8. well_formed(from, to, last.coder) = wf
  BY <1>1, <1>6, <1>7, ObjectObserved
<1>9. wf \in BOOLEAN
  BY <1>1, <1>6 DEF Decoder, T8_32, T16_32, T32_X, Encodings
<1>10. next \in Decoder(f) /\ next.well_formed = wf
  BY <1>5, <1>9, ConstructedWith
<1>11. object(f, to, next) = next
  BY <1>5 DEF object, is_triangulator
<1>12. Writes(Result(next, last.out), Result(next, referred.out))
  BY <1>8 DEF GoOnIn
<1>. HIDE DEF referred, last, next, wf
<1>13. Result(next, referred.out).coder = next /\ Result(next, referred.out).out = referred.out
  BY ResultFields
<1>14. CInv'
  <2>. DEFINE both == Result(next, referred.out)
              converted == Result(next, last.out)
  <2>1. both.coder = next /\ both.out = referred.out
    BY <1>13
  <2>2. converted = Result(object(f, to, both.coder), encoded(to, both.out))
    BY <1>7, <1>11, <2>1
  <2>3. Writes(converted, both) /\ both.coder \in Decoder(f) /\ MayWrite(f, both.out)
    BY <1>6, <1>10, <1>12, <2>1
  <2>. HIDE DEF both, converted
  <2>. QED
    BY <1>5, <2>2, <2>3, WritesBoth
<1>15. reference' = next /\ expected' = referred.out
  BY <1>12, <1>13 DEF Writes
<1>. QED
  BY <1>3, <1>10, <1>14, <1>15 DEF Decodes, referred, wf

\* The invariant is preserved.
LEMMA StepConverts == ASSUME CInv, [Next]_vars PROVE CInv'
<1>1. ASSUME NEW unit \in Units[from], Call(unit) PROVE CInv'
  BY <1>1, CallConverts
<1>2. CASE EndCp
  BY <1>2, EndCpConverts
<1>3. ASSUME NEW f \in Encodings, GoOnIn(f) PROVE CInv'
  BY <1>3, GoOnConverts
<1>4. CASE UNCHANGED vars
  BY <1>4 DEF vars, CInv, ConvertsReference, WritesEncoded, ReadsBack
<1>. QED
  BY <1>1, <1>2, <1>3, <1>4 DEF Next

\* So it holds in every behaviour.
THEOREM Invariance == Spec => []CInv
<1>1. Init => CInv
  BY InitHolds
<1>2. CInv /\ [Next]_vars => CInv'
  BY StepConverts
<1>. QED
  BY <1>1, <1>2, PTL DEF Spec

-----------------------------------------------------------------------------
\* The encodings the invariant speaks of.
LEMMA CurrentEncodings == ASSUME CInv PROVE from \in Encodings /\ to \in Encodings
  BY PairEncodings DEF CInv

\* Whatever the input, objects hold values of their classes and what is written are
\* code units of the encoding chosen.
THEOREM TypeCorrect == Spec => []TypeOK
<1>1. ASSUME CInv PROVE TypeOK
  <2>1. from \in Encodings /\ to \in Encodings
    BY <1>1, CurrentEncodings
  <2>2. <<from, to>> \in Pairs /\ reference \in Decoder(from) /\ coder = object(from, to, reference)
    BY <1>1 DEF CInv, ConvertsReference
  <2>3. coder \in CoderType(from, to)
    <3>1. t32_x(TRUE) \in T32_X
      BY DEF t32_x, T32_X
    <3>2. reference \in (CASE from = 8 -> T8_32 [] from = 16 -> T16_32 [] from = 32 -> T32_X)
      BY <2>1, <2>2, DecoderIs DEF Encodings
    <3>. QED
      BY <2>2, <3>1, <3>2 DEF CoderType, object
  <2>4. out \in Seq(EncodedUnit(to))
    BY <1>1, <2>1, EncodedLength DEF CInv, WritesEncoded
  <2>5. \A i \in DOMAIN out : out[i] \in EncodedUnit(to)
    BY <2>4
  <2>. QED
    BY <2>2, <2>3, <2>5 DEF TypeOK, EncodedUnit
<1>. QED
  BY <1>1, Invariance, PTL

\* No call of any transcoder writes more than transcode_view's buffer for its pair.
THEOREM BufferSuffices == Spec => []WithinBuffer
<1>1. ASSUME CInv PROVE WithinBuffer
  <2>1. from \in Encodings /\ to \in Encodings
    BY <1>1, CurrentEncodings
  <2>. QED
    BY <1>1, <2>1, EncodedLength DEF CInv, WritesEncoded, WithinBuffer
<1>. QED
  BY <1>1, Invariance, PTL

\* Whatever the input, every call writes whole, well-formed code points.
THEOREM WritesWholeCodePoints == Spec => []WholeCodePoints
<1>1. ASSUME CInv PROVE WholeCodePoints
  BY <1>1 DEF CInv, ReadsBack, Resting, WholeCodePoints
<1>. QED
  BY <1>1, Invariance, PTL

\* Every conversion preserves the text, call by call.
THEOREM PreservesText == Spec => []TextPreserved
<1>1. ASSUME CInv PROVE TextPreserved
  BY <1>1 DEF CInv, ReadsBack, TextPreserved
<1>. QED
  BY <1>1, Invariance, PTL

\* What every call writes has the starts that decoding it shows.
THEOREM StartsAgree == Spec => []StartsAgreeWithDecoding
<1>1. ASSUME CInv PROVE StartsAgreeWithDecoding
  <2>1. to \in Encodings /\ expected \in Seq(Scalar)
    BY <1>1, CurrentEncodings, EncodedLength DEF CInv, WritesEncoded
  <2>2. out = encoded(to, expected) /\ read = expected
    BY <1>1 DEF CInv, WritesEncoded, ReadsBack
  <2>. QED
    BY <2>1, <2>2, StartsOfText DEF StartsAgreeWithDecoding
<1>. QED
  BY <1>1, Invariance, PTL

\* A conversion through UTF-32 answers for its input as its first stage does.
THEOREM ObserversOfInput == Spec => []ObserversAgree
<1>1. ASSUME CInv PROVE ObserversAgree
  <2>1. from \in Encodings /\ to \in Encodings
    BY <1>1, CurrentEncodings
  <2>. QED
    BY <1>1, <2>1, ObjectObserved DEF CInv, ConvertsReference, ObserversAgree
<1>. QED
  BY <1>1, Invariance, PTL

\* A report of malformed input is final and comes with a U+FFFD.
LEMMA ReportedStep ==
  ASSUME CInv, [Next]_vars
  PROVE  [ /\ well_formed(from, to, coder)' => well_formed(from, to, coder)
           /\ (well_formed(from, to, coder) /\ ~ well_formed(from, to, coder)')
                => \E i \in DOMAIN read' : read'[i] = replacement_char ]_vars
<1>1. CInv'
  BY StepConverts
<1>2. well_formed(from, to, coder) = reference.well_formed
  BY CurrentEncodings, ObjectObserved DEF CInv, ConvertsReference
<1>3. well_formed(from, to, coder)' = reference'.well_formed
  <2>1. from' \in Encodings /\ to' \in Encodings
    BY <1>1, PairEncodings DEF CInv
  <2>. QED
    BY <1>1, <2>1, ObjectObserved DEF CInv, ConvertsReference
<1>4. read' = expected' /\ expected' \in Seq(Scalar)
  BY <1>1, PairEncodings, EncodedLength DEF CInv, ReadsBack, WritesEncoded
<1>. DEFINE Reported ==
              \/ reference'.well_formed = reference.well_formed
              \/ ~ reference'.well_formed /\ expected' # <<>> /\ expected'[1] = replacement_char
<1>5. Reported
  <2>1. ASSUME NEW unit \in Units[from], Call(unit) PROVE Reported
    <3>1. Reports(reference, decoder_call(from, reference, unit))
      BY <2>1, CallConverts
    <3>. QED
      BY <2>1, <3>1 DEF Call, Writes, Reports
  <2>2. CASE EndCp
    <3>1. Reports(reference, decoder_end_cp(from, reference))
      BY <2>2, EndCpConverts
    <3>. QED
      BY <2>2, <3>1 DEF EndCp, Writes, Reports
  <2>3. ASSUME NEW f \in Encodings, GoOnIn(f) PROVE Reported
    BY <2>3, GoOnConverts DEF Reports
  <2>4. CASE UNCHANGED vars
    BY <2>4 DEF vars
  <2>. QED
    BY <2>1, <2>2, <2>3, <2>4 DEF Next
<1>6. expected' # <<>> => 1 \in DOMAIN expected'
  BY <1>4
<1>. QED
  BY <1>2, <1>3, <1>4, <1>5, <1>6

\* Malformed input is reported, for ever and with a U+FFFD, by every conversion,
\* changes of encoding included.
THEOREM ReportsMalformed == Spec => MalformedIsReported
<1>1. CInv /\ [Next]_vars =>
        [ /\ well_formed(from, to, coder)' => well_formed(from, to, coder)
          /\ (well_formed(from, to, coder) /\ ~ well_formed(from, to, coder)')
               => \E i \in DOMAIN read' : read'[i] = replacement_char ]_vars
  BY ReportedStep
<1>. QED
  BY <1>1, Invariance, PTL DEF Spec, MalformedIsReported
=============================================================================
