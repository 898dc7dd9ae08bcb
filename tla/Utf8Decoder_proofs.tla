------------------------- MODULE Utf8Decoder_proofs --------------------------
(***************************************************************************)
(* Proofs about the UTF-8 decoder, for every set of bytes and every        *)
(* sequence of calls: its invariants, by the inductive invariant IInv, and *)
(* that it implements Utf8Stream.  The facts about the table and the       *)
(* arithmetic are those of Transcoders_proofs.                             *)
(***************************************************************************)
EXTENDS Utf8Decoder, Transcoders_proofs, SequenceTheorems

(***************************************************************************)
(* The inductive invariant: the types, and what each state may hold.  That *)
(* only scalar values are written is a fact of each call, by NextValue.    *)
(***************************************************************************)
IInv == TypeOK /\ PartialValue /\ OutIsScalar

\* A call that writes one scalar value keeps the part of the invariant about out.
LEMMA OneScalarWritten ==
  ASSUME NEW cp, IsScalar(cp), out' = <<cp>>
  PROVE  out' \in Seq(CodePoint) /\ Len(out') <= 1 /\ OutIsScalar'
  BY DEF OutIsScalar, IsScalar

\* So does a call that writes nothing.
LEMMA NothingWritten ==
  ASSUME out' = <<>>
  PROVE  out' \in Seq(CodePoint) /\ Len(out') <= 1 /\ OutIsScalar'
  BY DEF OutIsScalar

\* A constructed object satisfies the invariant.
LEMMA InitIInv == Init => IInv
<1>. SUFFICES ASSUME Init PROVE IInv
  OBVIOUS
<1>1. PICK wf \in BOOLEAN : coder = t8_32(wf)
  BY DEF Init
<1>2. coder \in T8_32
  BY <1>1, CodePointFieldRange, SMT DEF t8_32, T8_32, State
<1>3. PartialValue
  BY <1>1, SMT DEF t8_32, PartialValue, MayHold, accept, code_point_limit
<1>. QED
  BY <1>2, <1>3 DEF Init, IInv, TypeOK, OutIsScalar

\* operator() preserves the invariant: the byte accepts, rejects or goes on.
LEMMA CallIInv ==
  ASSUME IInv, NEW b \in Byte, Call(b)
  PROVE  IInv'
<1>. DEFINE cp == shifted(coder, b)
            s == transition(coder.state, class(b))
<1>1. coder \in T8_32 /\ MayHold(coder.state, coder.code_point)
  BY DEF IInv, TypeOK, PartialValue
<1>2. /\ cp \in CodePointField
      /\ s = accept => IsScalar(cp)
      /\ s \notin {accept, reject} => MayHold(s, cp)
  BY <1>1, NextValue
<1>3. s \in State
  BY <1>1, ClassOfByte, RowOfAccept, RowsOfTails DEF T8_32, State
<1>. HIDE DEF cp, s
<1>4. CASE s = accept
  <2>1. coder' = [coder EXCEPT !.code_point = cp, !.state = accept] /\ out' = <<cp>>
    BY <1>4 DEF Call, Returns, t8_32_call, accepted, Result, cp, s, accept, reject
  <2>2. coder' = [code_point |-> cp, well_formed |-> coder.well_formed, state |-> accept]
    BY <1>1, <2>1 DEF T8_32
  <2>3. coder' \in T8_32
    BY <1>1, <1>2, <2>2 DEF T8_32, State
  <2>4. PartialValue'
    BY <1>2, <2>2, CodePointFieldRange, SMT DEF PartialValue, MayHold, code_point_limit
  <2>. QED
    BY <1>2, <1>4, <2>1, <2>3, <2>4, OneScalarWritten DEF IInv, TypeOK
<1>5. CASE s = reject
  <2>1. /\ coder' = [code_point |-> cp, state |-> accept, well_formed |-> FALSE]
        /\ out' = <<replacement_char>>
    <3>1. reject # accept
      BY DEF accept, reject
    <3>. QED
      BY <1>5, <3>1 DEF Call, Returns, t8_32_call, rejected, rejected_with, Result, cp, s
  <2>2. coder' \in T8_32
    BY <1>2, <2>1 DEF T8_32, State
  <2>3. PartialValue'
    BY <1>2, <2>1, CodePointFieldRange, SMT DEF PartialValue, MayHold, code_point_limit
  <2>. QED
    BY <2>1, <2>2, <2>3, OneScalarWritten, ReplacementIsScalar DEF IInv, TypeOK
<1>6. CASE s \notin {accept, reject}
  <2>1. coder' = [coder EXCEPT !.code_point = cp, !.state = s] /\ out' = <<>>
    BY <1>6 DEF Call, Returns, t8_32_call, Result, cp, s
  <2>2. coder' \in T8_32 /\ PartialValue'
    BY <1>1, <1>2, <1>3, <1>6, <2>1 DEF T8_32, PartialValue
  <2>. QED
    BY <2>1, <2>2, NothingWritten DEF IInv, TypeOK
<1>. QED
  BY <1>4, <1>5, <1>6

\* end_cp() preserves the invariant, within an encoding and between two.
LEMMA EndCpIInv ==
  ASSUME IInv, EndCp
  PROVE  IInv'
<1>1. CASE coder.state # accept
  <2>1. /\ coder' = [coder EXCEPT !.state = reject, !.well_formed = FALSE]
        /\ out' = <<replacement_char>>
    BY <1>1 DEF EndCp, Returns, t8_32_end_cp, Result
  <2>2. coder' \in T8_32
    BY <2>1 DEF IInv, TypeOK, T8_32, State
  <2>5. coder.code_point \in Nat
    BY CodePointFieldRange, SMT DEF IInv, TypeOK, T8_32
  <2>3. coder'.state = reject /\ coder'.code_point = coder.code_point
    BY <2>1 DEF IInv, TypeOK, T8_32
  <2>4. PartialValue'
    BY <1>1, <2>5, <2>3, SMT DEF IInv, PartialValue, MayHold, accept, reject
  <2>. QED
    BY <2>1, <2>2, <2>4, OneScalarWritten, ReplacementIsScalar DEF IInv, TypeOK
<1>2. CASE coder.state = accept
  <2>1. coder' = coder /\ out' = <<>>
    BY <1>2 DEF EndCp, Returns, t8_32_end_cp, Result
  <2>. QED
    BY <2>1, NothingWritten DEF IInv, TypeOK, PartialValue
<1>. QED
  BY <1>1, <1>2

(***************************************************************************)
(* For every set of bytes the program may send, in every order and with    *)
(* any calls of end_cp() between them, the fields stay within their types, *)
(* the value being assembled stays among those the state may hold, and     *)
(* whatever is written is a scalar value.                                  *)
(***************************************************************************)
THEOREM Invariance == Spec => []IInv
<1>1. IInv /\ [Next]_vars => IInv'
  <2>. SUFFICES ASSUME IInv, [Next]_vars PROVE IInv'
    OBVIOUS
  <2>1. ASSUME NEW b \in Bytes, Call(b) PROVE IInv'
    BY <2>1, CallIInv, BytesAssumption
  <2>2. CASE EndCp
    BY <2>2, EndCpIInv
  <2>3. CASE UNCHANGED vars
    BY <2>3 DEF vars, IInv, TypeOK, PartialValue, OutIsScalar
  <2>. QED
    BY <2>1, <2>2, <2>3 DEF Next
<1>. QED
  BY <1>1, InitIInv, PTL DEF Spec

\* Type correctness of the decoder (t8_32's bit-fields).
THEOREM TypeCorrect == Spec => []TypeOK
  BY Invariance, PTL DEF IInv

\* Only Unicode scalar values are ever written.
THEOREM WritesScalars == Spec => []OutIsScalar
  BY Invariance, PTL DEF IInv

\* code_point_ always holds what the bytes consumed may have assembled.
THEOREM PartialValueHolds == Spec => []PartialValue
  BY Invariance, PTL DEF IInv

\* No bit of a code point being assembled is lost in the 21-bit field.
THEOREM NoBitLost == Spec => []NothingTruncated
<1>1. IInv => NothingTruncated
  <2>. SUFFICES ASSUME IInv, coder.state # accept
                PROVE  64 * coder.code_point + 63 < code_point_limit
    BY DEF NothingTruncated
  <2>1. coder.code_point \in Nat
    BY CodePointFieldRange, SMT DEF IInv, TypeOK, T8_32
  <2>. QED
    BY <2>1, SMT DEF IInv, PartialValue, MayHold, code_point_limit
<1>. QED
  BY <1>1, Invariance, PTL
-----------------------------------------------------------------------------
(***************************************************************************)
(* The refinement.  First bytes one after the other.                       *)
(***************************************************************************)
\* A sequence is the one of two others that has their members in turn.
LEMMA Join ==
  ASSUME NEW s \in Seq(Byte), NEW u \in Seq(Byte), NEW v \in Seq(Byte),
         Len(v) = Len(s) + Len(u),
         \A i \in 1 .. Len(s) : v[i] = s[i],
         \A i \in 1 .. Len(u) : v[Len(s) + i] = u[i]
  PROVE  s \o u = v
<1>. DEFINE w == s \o u
            m == Len(s)
            n == Len(u)
<1>1. /\ w \in Seq(Byte) /\ Len(w) = m + n
      /\ \A i \in 1 .. m + n : w[i] = IF i <= m THEN s[i] ELSE u[i - m]
  BY ConcatProperties
<1>2. m \in Nat /\ n \in Nat
  OBVIOUS
<1>. HIDE DEF w
<1>3. ASSUME NEW i \in 1 .. m + n PROVE w[i] = v[i]
  <2>. HIDE DEF m, n
  <2>1. CASE i <= m
    BY <1>1, <1>2, <2>1 DEF m
  <2>2. CASE ~ (i <= m)
    <3>1. i - m \in 1 .. n /\ m + (i - m) = i
      BY <1>2, <2>2
    <3>2. v[m + (i - m)] = u[i - m]
      BY <3>1 DEF m, n
    <3>. QED
      BY <1>1, <2>2, <3>1, <3>2
  <2>. QED
    BY <2>1, <2>2
<1>4. w = v
  BY <1>1, <1>3, SeqEqual
<1>. QED
  BY <1>4 DEF w

\* One byte and one.
LEMMA Join11 ==
  ASSUME NEW a \in Byte, NEW b \in Byte
  PROVE  <<a>> \o <<b>> = <<a, b>>
<1>. DEFINE s == <<a>>
            u == <<b>>
            v == <<a, b>>
<1>1. s \in Seq(Byte) /\ Len(s) = 1 /\ s[1] = a
  OBVIOUS
<1>2. u \in Seq(Byte) /\ Len(u) = 1 /\ u[1] = b
  OBVIOUS
<1>3. v \in Seq(Byte) /\ Len(v) = 2 /\ v[1] = a /\ v[2] = b
  OBVIOUS
<1>. HIDE DEF s, u, v
<1>4. Len(v) = Len(s) + Len(u) /\ \A i \in 1 .. Len(s) : v[i] = s[i]
  BY <1>1, <1>2, <1>3
<1>5. \A i \in 1 .. Len(u) : v[Len(s) + i] = u[i]
  BY <1>1, <1>2, <1>3
<1>6. s \in Seq(Byte) /\ u \in Seq(Byte) /\ v \in Seq(Byte)
  BY <1>1, <1>2, <1>3
<1>7. s \o u = v
  BY Join, <1>4, <1>5, <1>6, Zenon
<1>. QED
  BY <1>7 DEF s, u, v

\* One and two.
LEMMA Join12 ==
  ASSUME NEW a \in Byte, NEW b \in Byte, NEW c \in Byte
  PROVE  <<a>> \o <<b, c>> = <<a, b, c>>
<1>. DEFINE s == <<a>>
            u == <<b, c>>
            v == <<a, b, c>>
<1>1. s \in Seq(Byte) /\ Len(s) = 1 /\ s[1] = a
  OBVIOUS
<1>2. u \in Seq(Byte) /\ Len(u) = 2 /\ u[1] = b /\ u[2] = c
  OBVIOUS
<1>3. v \in Seq(Byte) /\ Len(v) = 3 /\ v[1] = a /\ v[2] = b /\ v[3] = c
  OBVIOUS
<1>. HIDE DEF s, u, v
<1>4. Len(v) = Len(s) + Len(u) /\ \A i \in 1 .. Len(s) : v[i] = s[i]
  BY <1>1, <1>2, <1>3
<1>5. \A i \in 1 .. Len(u) : v[Len(s) + i] = u[i]
  BY <1>1, <1>2, <1>3
<1>6. s \in Seq(Byte) /\ u \in Seq(Byte) /\ v \in Seq(Byte)
  BY <1>1, <1>2, <1>3
<1>7. s \o u = v
  BY Join, <1>4, <1>5, <1>6, Zenon
<1>. QED
  BY <1>7 DEF s, u, v

\* Two and one.
LEMMA Join21 ==
  ASSUME NEW a \in Byte, NEW b \in Byte, NEW c \in Byte
  PROVE  <<a, b>> \o <<c>> = <<a, b, c>>
<1>. DEFINE s == <<a, b>>
            u == <<c>>
            v == <<a, b, c>>
<1>1. s \in Seq(Byte) /\ Len(s) = 2 /\ s[1] = a /\ s[2] = b
  OBVIOUS
<1>2. u \in Seq(Byte) /\ Len(u) = 1 /\ u[1] = c
  OBVIOUS
<1>3. v \in Seq(Byte) /\ Len(v) = 3 /\ v[1] = a /\ v[2] = b /\ v[3] = c
  OBVIOUS
<1>. HIDE DEF s, u, v
<1>4. Len(v) = Len(s) + Len(u) /\ \A i \in 1 .. Len(s) : v[i] = s[i]
  BY <1>1, <1>2, <1>3
<1>5. \A i \in 1 .. Len(u) : v[Len(s) + i] = u[i]
  BY <1>1, <1>2, <1>3
<1>6. s \in Seq(Byte) /\ u \in Seq(Byte) /\ v \in Seq(Byte)
  BY <1>1, <1>2, <1>3
<1>7. s \o u = v
  BY Join, <1>4, <1>5, <1>6, Zenon
<1>. QED
  BY <1>7 DEF s, u, v

\* One and three.
LEMMA Join13 ==
  ASSUME NEW a \in Byte, NEW b \in Byte, NEW c \in Byte, NEW d \in Byte
  PROVE  <<a>> \o <<b, c, d>> = <<a, b, c, d>>
<1>. DEFINE s == <<a>>
            u == <<b, c, d>>
            v == <<a, b, c, d>>
<1>1. s \in Seq(Byte) /\ Len(s) = 1 /\ s[1] = a
  OBVIOUS
<1>2. u \in Seq(Byte) /\ Len(u) = 3 /\ u[1] = b /\ u[2] = c /\ u[3] = d
  OBVIOUS
<1>3. v \in Seq(Byte) /\ Len(v) = 4 /\ v[1] = a /\ v[2] = b /\ v[3] = c /\ v[4] = d
  OBVIOUS
<1>. HIDE DEF s, u, v
<1>4. Len(v) = Len(s) + Len(u) /\ \A i \in 1 .. Len(s) : v[i] = s[i]
  BY <1>1, <1>2, <1>3
<1>5. \A i \in 1 .. Len(u) : v[Len(s) + i] = u[i]
  BY <1>1, <1>2, <1>3
<1>6. s \in Seq(Byte) /\ u \in Seq(Byte) /\ v \in Seq(Byte)
  BY <1>1, <1>2, <1>3
<1>7. s \o u = v
  BY Join, <1>4, <1>5, <1>6, Zenon
<1>. QED
  BY <1>7 DEF s, u, v

\* Two and two.
LEMMA Join22 ==
  ASSUME NEW a \in Byte, NEW b \in Byte, NEW c \in Byte, NEW d \in Byte
  PROVE  <<a, b>> \o <<c, d>> = <<a, b, c, d>>
<1>. DEFINE s == <<a, b>>
            u == <<c, d>>
            v == <<a, b, c, d>>
<1>1. s \in Seq(Byte) /\ Len(s) = 2 /\ s[1] = a /\ s[2] = b
  OBVIOUS
<1>2. u \in Seq(Byte) /\ Len(u) = 2 /\ u[1] = c /\ u[2] = d
  OBVIOUS
<1>3. v \in Seq(Byte) /\ Len(v) = 4 /\ v[1] = a /\ v[2] = b /\ v[3] = c /\ v[4] = d
  OBVIOUS
<1>. HIDE DEF s, u, v
<1>4. Len(v) = Len(s) + Len(u) /\ \A i \in 1 .. Len(s) : v[i] = s[i]
  BY <1>1, <1>2, <1>3
<1>5. \A i \in 1 .. Len(u) : v[Len(s) + i] = u[i]
  BY <1>1, <1>2, <1>3
<1>6. s \in Seq(Byte) /\ u \in Seq(Byte) /\ v \in Seq(Byte)
  BY <1>1, <1>2, <1>3
<1>7. s \o u = v
  BY Join, <1>4, <1>5, <1>6, Zenon
<1>. QED
  BY <1>7 DEF s, u, v

\* Three and one.
LEMMA Join31 ==
  ASSUME NEW a \in Byte, NEW b \in Byte, NEW c \in Byte, NEW d \in Byte
  PROVE  <<a, b, c>> \o <<d>> = <<a, b, c, d>>
<1>. DEFINE s == <<a, b, c>>
            u == <<d>>
            v == <<a, b, c, d>>
<1>1. s \in Seq(Byte) /\ Len(s) = 3 /\ s[1] = a /\ s[2] = b /\ s[3] = c
  OBVIOUS
<1>2. u \in Seq(Byte) /\ Len(u) = 1 /\ u[1] = d
  OBVIOUS
<1>3. v \in Seq(Byte) /\ Len(v) = 4 /\ v[1] = a /\ v[2] = b /\ v[3] = c /\ v[4] = d
  OBVIOUS
<1>. HIDE DEF s, u, v
<1>4. Len(v) = Len(s) + Len(u) /\ \A i \in 1 .. Len(s) : v[i] = s[i]
  BY <1>1, <1>2, <1>3
<1>5. \A i \in 1 .. Len(u) : v[Len(s) + i] = u[i]
  BY <1>1, <1>2, <1>3
<1>6. s \in Seq(Byte) /\ u \in Seq(Byte) /\ v \in Seq(Byte)
  BY <1>1, <1>2, <1>3
<1>7. s \o u = v
  BY Join, <1>4, <1>5, <1>6, Zenon
<1>. QED
  BY <1>7 DEF s, u, v

-----------------------------------------------------------------------------
(***************************************************************************)
(* What Utf8Stream's operators say of one to four bytes.                   *)
(***************************************************************************)
\* The vocabulary of the instance is that of the decoder.
LEMMA SameVocabulary ==
  ASSUME NEW n
  PROVE  /\ Stream!IsScalar(n) <=> IsScalar(n)
         /\ Stream!utf8(n) = utf8(n)
         /\ Stream!replacement_char = replacement_char
<1>1. Stream!max_code_point = max_code_point
  BY SMT DEF Stream!max_code_point, max_code_point
<1>2. /\ Stream!first_high_surrogate = first_high_surrogate
      /\ Stream!last_high_surrogate = last_high_surrogate
      /\ Stream!first_low_surrogate = first_low_surrogate
      /\ Stream!last_low_surrogate = last_low_surrogate
  BY SMT DEF Stream!first_high_surrogate, first_high_surrogate, Stream!last_high_surrogate,
     last_high_surrogate, Stream!first_low_surrogate, first_low_surrogate,
     Stream!last_low_surrogate, last_low_surrogate
<1>3. Stream!IsScalar(n) <=> IsScalar(n)
  BY <1>1, <1>2, Zenon DEF Stream!IsScalar, IsScalar, Stream!CodePoint, CodePoint,
     Stream!is_surrogate, is_surrogate, Stream!is_high_surrogate, is_high_surrogate,
     Stream!is_low_surrogate, is_low_surrogate
<1>4. Stream!utf8(n) = utf8(n)
  BY SMT DEF Stream!utf8, utf8, Stream!write2, write2, Stream!write3, write3,
     Stream!write4, write4, Stream!tail_byte, tail_byte
<1>5. Stream!replacement_char = replacement_char
  BY SMT DEF Stream!replacement_char, replacement_char
<1>. QED
  BY <1>3, <1>4, <1>5

\* An encoding is that of a scalar value.
LEMMA EncodingIs ==
  ASSUME NEW s, NEW v, Stream!bits(s) = v
  PROVE  Stream!IsEncoding(s) <=> v \in Scalar /\ utf8(v) = s
<1>1. IsScalar(v) <=> v \in Scalar
  BY DEF Scalar, IsScalar
<1>. QED
  BY <1>1, SameVocabulary DEF Stream!IsEncoding

\* Which scalar values have an encoding of one, two, three and four bytes, and what
\* the bytes are.
LEMMA FormIs ==
  ASSUME NEW v \in Scalar
  PROVE  /\ \A a : utf8(v) = <<a>> <=> v < 128 /\ a = v
         /\ \A a, b : utf8(v) = <<a, b>> <=>
              128 <= v /\ v < 2048 /\ a = 192 + v \div 64 /\ b = 128 + (v % 64)
         /\ \A a, b, c : utf8(v) = <<a, b, c>> <=>
              /\ 2048 <= v /\ v < 65536 /\ a = 224 + v \div 4096
              /\ b = 128 + ((v \div 64) % 64) /\ c = 128 + (v % 64)
         /\ \A a, b, c, d : utf8(v) = <<a, b, c, d>> <=>
              /\ 65536 <= v /\ a = 240 + v \div 262144 /\ b = 128 + ((v \div 4096) % 64)
              /\ c = 128 + ((v \div 64) % 64) /\ d = 128 + (v % 64)
<1>1. v \in Int /\ 0 <= v /\ v <= 1114111
  BY ScalarIsInt, SMT
<1>2. CASE v < 128
  <2>1. utf8(v) = <<v>>
    BY <1>2, Utf8Forms
  <2>2. ~ (128 <= v) /\ ~ (2048 <= v) /\ ~ (65536 <= v)
    BY <1>1, <1>2, SMT
  <2>. QED
    BY <1>2, <2>1, <2>2, SMT
<1>3. CASE 128 <= v /\ v < 2048
  <2>1. utf8(v) = <<192 + v \div 64, 128 + (v % 64)>>
    BY <1>3, Utf8Forms
  <2>2. ~ (v < 128) /\ ~ (2048 <= v) /\ ~ (65536 <= v)
    BY <1>1, <1>3, SMT
  <2>. QED
    BY <1>3, <2>1, <2>2, SMT
<1>4. CASE 2048 <= v /\ v < 65536
  <2>1. utf8(v) = <<224 + v \div 4096, 128 + ((v \div 64) % 64), 128 + (v % 64)>>
    BY <1>4, Utf8Forms, SMT
  <2>2. ~ (v < 128) /\ ~ (v < 2048) /\ ~ (65536 <= v)
    BY <1>1, <1>4, SMT
  <2>. QED
    BY <1>4, <2>1, <2>2, SMT
<1>5. CASE 65536 <= v
  <2>1. utf8(v) = <<240 + v \div 262144, 128 + ((v \div 4096) % 64),
                    128 + ((v \div 64) % 64), 128 + (v % 64)>>
    BY <1>5, Utf8Forms, SMT
  <2>2. ~ (v < 128) /\ ~ (v < 2048) /\ ~ (v < 65536)
    BY <1>1, <1>5, SMT
  <2>. QED
    BY <1>5, <2>1, <2>2, SMT
<1>. QED
  BY <1>1, <1>2, <1>3, <1>4, <1>5, SMT

\* One byte is an encoding if it is ASCII.
LEMMA Encoding1 ==
  ASSUME NEW a \in Byte
  PROVE  /\ Stream!bits(<<a>>) = a
         /\ Stream!IsEncoding(<<a>>) <=> a <= 127
<1>1. Stream!bits(<<a>>) = a
  BY DEF Stream!bits
<1>2. a \in Int /\ 0 <= a /\ a <= 255
  BY ByteRange
<1>3. a \in Scalar
  BY <1>2, ScalarRange, ScalarMember, SMT
<1>4. utf8(a) = <<a>> <=> a < 128
  BY <1>3, FormIs, SMT
<1>. QED
  BY <1>1, <1>2, <1>3, <1>4, EncodingIs

\* Two, if they are a lead byte and a continuation byte, and the form is needed.
LEMMA Encoding2 ==
  ASSUME NEW a \in Byte, NEW b \in Byte
  PROVE  /\ Stream!bits(<<a, b>>) = 64 * (a - 192) + (b - 128)
         /\ Stream!IsEncoding(<<a, b>>) <=> 194 <= a /\ a <= 223 /\ 128 <= b /\ b <= 191
<1>. DEFINE v == 64 * (a - 192) + (b - 128)
            s == <<a, b>>
            Encodes(x) == 128 <= x /\ x < 2048 /\ a = 192 + x \div 64 /\ b = 128 + (x % 64)
<1>1. Stream!bits(s) = v
  BY SMT DEF Stream!bits
<1>2. /\ a \in Int /\ 0 <= a /\ a <= 255 /\ b \in Int /\ 0 <= b /\ b <= 255
      /\ v \in Int
  BY ByteRange
<1>3. Stream!IsEncoding(s) <=> v \in Scalar /\ utf8(v) = s
  BY <1>1, EncodingIs
<1>4. v \in Scalar => (utf8(v) = s <=> Encodes(v))
  <2>. HIDE DEF v
  <2>. QED
    BY FormIs, SMT
<1>5. ASSUME 194 <= a, a <= 223, 128 <= b, b <= 191
      PROVE  Encodes(v) /\ v \in Scalar
  <2>1. Encodes(v)
    BY <1>2, <1>5
  <2>. HIDE DEF v
  <2>2. IsScalar(v)
    BY <1>2, <2>1, ScalarRange, SMT
  <2>. QED
    BY <2>1, <2>2, ScalarMember
<1>6. ASSUME v \in Scalar, Encodes(v)
      PROVE  194 <= a /\ a <= 223 /\ 128 <= b /\ b <= 191
  <2>. HIDE DEF v
  <2>. QED
    BY <1>2, <1>6
<1>. HIDE DEF v, s, Encodes
<1>7. Stream!IsEncoding(s) <=> 194 <= a /\ a <= 223 /\ 128 <= b /\ b <= 191
  BY <1>3, <1>4, <1>5, <1>6
<1>. QED
  BY <1>1, <1>7 DEF v, s

\* The sixty-fours of a number, and what remains.
LEMMA SixBits ==
  ASSUME NEW n \in Nat
  PROVE  /\ n % 64 \in 0 .. 63 /\ n = 64 * (n \div 64) + (n % 64) /\ n \div 64 \in Nat
         /\ n \div 4096 = (n \div 64) \div 64 /\ n \div 262144 = (n \div 4096) \div 64
<1>1. n % 64 \in 0 .. 63 /\ n = 64 * (n \div 64) + (n % 64) /\ n \div 64 \in Nat
  BY SMT
<1>2. n \div 4096 = (n \div 64) \div 64
  BY SMT
<1>3. n \div 262144 = (n \div 4096) \div 64
  BY SMT
<1>. QED
  BY <1>1, <1>2, <1>3, SMT

\* A byte 10xxxxxx, and one that may follow a lead byte of a longer form: neither too
\* low, where a shorter form exists, nor so high that it makes a surrogate or a value
\* past the last code point.
Follows(b) == 128 <= b /\ b <= 191

Second(a, b) ==
  /\ Follows(b)
  /\ a = 224 => b >= 160
  /\ a = 237 => b <= 159
  /\ a = 240 => b >= 144
  /\ a = 244 => b <= 143

\* Three bytes are an encoding if they are a lead byte and two that may follow.
LEMMA Encoding3 ==
  ASSUME NEW a \in Byte, NEW b \in Byte, NEW c \in Byte
  PROVE  /\ Stream!bits(<<a, b, c>>) = 4096 * (a - 224) + 64 * (b - 128) + (c - 128)
         /\ Stream!IsEncoding(<<a, b, c>>) <=>
              224 <= a /\ a <= 239 /\ Second(a, b) /\ Follows(c)
<1>. DEFINE v == 4096 * (a - 224) + 64 * (b - 128) + (c - 128)
            s == <<a, b, c>>
            Encodes(x) == /\ 2048 <= x /\ x < 65536 /\ a = 224 + x \div 4096
                          /\ b = 128 + ((x \div 64) % 64) /\ c = 128 + (x % 64)
<1>1. Stream!bits(s) = v
  BY SMT DEF Stream!bits
<1>2. /\ a \in Int /\ 0 <= a /\ a <= 255 /\ b \in Int /\ 0 <= b /\ b <= 255
      /\ c \in Int /\ 0 <= c /\ c <= 255 /\ v \in Int
  BY ByteRange
<1>3. Stream!IsEncoding(s) <=> v \in Scalar /\ utf8(v) = s
  BY <1>1, EncodingIs
<1>4. v \in Scalar => (utf8(v) = s <=> Encodes(v))
  <2>. HIDE DEF v
  <2>. QED
    BY FormIs, SMT
<1>5. ASSUME 224 <= a, a <= 239, Second(a, b), Follows(c)
      PROVE  Encodes(v) /\ v \in Scalar
  <2>. DEFINE q == 64 * (a - 224) + (b - 128)
  <2>1. v = 64 * q + (c - 128) /\ q \in Int /\ 0 <= c - 128 /\ c - 128 <= 63
    BY <1>2, <1>5 DEF Follows
  <2>2. 32 <= q /\ q <= 1023 /\ ~ (864 <= q /\ q <= 895)
    BY <1>2, <1>5, SMT DEF Second, Follows
  <2>3. q \div 64 = a - 224 /\ q % 64 = b - 128
    BY <1>2, <1>5, SMT DEF Second, Follows
  <2>. HIDE DEF q, v
  <2>4. v \div 64 = q /\ v % 64 = c - 128 /\ v \div 4096 = q \div 64
    BY <1>2, <2>1, <2>2, SMT
  <2>5. 2048 <= v /\ v < 65536
    BY <1>2, <2>1, <2>2, SMT
  <2>6. Encodes(v)
    BY <1>2, <2>3, <2>4, <2>5
  <2>7. ~ (55296 <= v /\ v <= 57343)
    BY <1>2, <2>1, <2>2, SMT
  <2>8. IsScalar(v)
    BY <1>2, <2>5, <2>7, ScalarRange, SMT
  <2>. QED
    BY <2>6, <2>8, ScalarMember
<1>6. ASSUME v \in Scalar, Encodes(v)
      PROVE  224 <= a /\ a <= 239 /\ Second(a, b) /\ Follows(c)
  <2>. HIDE DEF v
  <2>1. v \in Nat /\ v <= 1114111 /\ IsScalar(v)
    BY <1>6, ScalarIsInt, SMT
  <2>3. ~ (55296 <= v /\ v <= 57343)
    BY <2>1, ScalarRange, SMT
  <2>. DEFINE q == v \div 64
              h == v \div 4096
              l == v % 64
              m == (v \div 64) % 64
  <2>4. /\ l \in 0 .. 63 /\ v = 64 * q + l /\ m \in 0 .. 63 /\ q = 64 * h + m
        /\ q \in Int /\ h \in Int
    <3>1. l \in 0 .. 63 /\ v = 64 * q + l /\ q \in Nat /\ h = q \div 64
      BY <2>1, SixBits, SMT
    <3>2. m \in 0 .. 63 /\ q = 64 * (q \div 64) + m /\ q \div 64 \in Nat
      <4>1. m = q % 64
        OBVIOUS
      <4>. HIDE DEF q, m
      <4>. QED
        BY <3>1, <4>1, SixBits, SMT
    <3>. HIDE DEF q, m, l, h
    <3>. QED
      BY <3>1, <3>2
  <2>5. 2048 <= v /\ v < 65536 /\ a = 224 + h /\ b = 128 + m /\ c = 128 + l
    BY <1>6
  <2>. HIDE DEF q, h, l, m
  <2>. QED
    BY <1>2, <2>1, <2>3, <2>4, <2>5, SMT DEF Second, Follows
<1>. HIDE DEF v, s, Encodes
<1>7. Stream!IsEncoding(s) <=> 224 <= a /\ a <= 239 /\ Second(a, b) /\ Follows(c)
  BY <1>3, <1>4, <1>5, <1>6
<1>. QED
  BY <1>1, <1>7 DEF v, s

\* And four.
LEMMA Encoding4 ==
  ASSUME NEW a \in Byte, NEW b \in Byte, NEW c \in Byte, NEW d \in Byte
  PROVE  /\ Stream!bits(<<a, b, c, d>>)
              = 262144 * (a - 240) + 4096 * (b - 128) + 64 * (c - 128) + (d - 128)
         /\ Stream!IsEncoding(<<a, b, c, d>>) <=>
              240 <= a /\ a <= 244 /\ Second(a, b) /\ Follows(c) /\ Follows(d)
<1>. DEFINE v == 262144 * (a - 240) + 4096 * (b - 128) + 64 * (c - 128) + (d - 128)
            s == <<a, b, c, d>>
            Encodes(x) == /\ 65536 <= x /\ a = 240 + x \div 262144
                          /\ b = 128 + ((x \div 4096) % 64)
                          /\ c = 128 + ((x \div 64) % 64) /\ d = 128 + (x % 64)
<1>1. Stream!bits(s) = v
  BY SMT DEF Stream!bits
<1>2. /\ a \in Int /\ 0 <= a /\ a <= 255 /\ b \in Int /\ 0 <= b /\ b <= 255
      /\ c \in Int /\ 0 <= c /\ c <= 255 /\ d \in Int /\ 0 <= d /\ d <= 255
  BY ByteRange
<1>8. v \in Int
  BY <1>2, SMT
<1>3. Stream!IsEncoding(s) <=> v \in Scalar /\ utf8(v) = s
  BY <1>1, EncodingIs
<1>4. v \in Scalar => (utf8(v) = s <=> Encodes(v))
  <2>. HIDE DEF v
  <2>. QED
    BY FormIs, SMT
<1>5. ASSUME 240 <= a, a <= 244, Second(a, b), Follows(c), Follows(d)
      PROVE  Encodes(v) /\ v \in Scalar
  <2>. DEFINE p == 64 * (a - 240) + (b - 128)
              q == 64 * p + (c - 128)
  <2>1. p \in Int /\ p \div 64 = a - 240 /\ p % 64 = b - 128 /\ 16 <= p /\ p <= 271
    BY <1>2, <1>5, SMT DEF Second, Follows
  <2>2. v = 4096 * p + 64 * (c - 128) + (d - 128)
    BY <1>2, SMT
  <2>. HIDE DEF p
  <2>3. /\ q \in Int /\ q \div 64 = p /\ q % 64 = c - 128
        /\ v = 64 * q + (d - 128) /\ 1024 <= q /\ q <= 17407
    <3>. HIDE DEF v
    <3>. QED
      BY <1>2, <1>5, <2>1, <2>2, SMT DEF Follows
  <2>. HIDE DEF q, v
  <2>4. v \div 64 = q /\ v % 64 = d - 128 /\ v \div 4096 = q \div 64
    BY <1>2, <1>5, <2>3, SMT DEF Follows
  <2>5. v \div 262144 = p \div 64
    BY <1>2, <1>5, <1>8, <2>1, <2>3, SMT DEF Follows
  <2>6. 65536 <= v /\ v <= 1114111
    BY <1>2, <1>5, <2>3, SMT DEF Follows
  <2>7. Encodes(v)
    BY <1>2, <2>1, <2>3, <2>4, <2>5, <2>6, SMT
  <2>8. IsScalar(v)
    BY <1>8, <2>6, ScalarRange, SMT
  <2>. QED
    BY <2>7, <2>8, ScalarMember
<1>6. ASSUME v \in Scalar, Encodes(v)
      PROVE  240 <= a /\ a <= 244 /\ Second(a, b) /\ Follows(c) /\ Follows(d)
  <2>. HIDE DEF v
  <2>1. v \in Nat /\ v <= 1114111
    BY <1>6, ScalarIsInt, SMT
  <2>. DEFINE q == v \div 64
              p == v \div 4096
              h == v \div 262144
              l == v % 64
              m == (v \div 64) % 64
              n == (v \div 4096) % 64
  <2>2. /\ l \in 0 .. 63 /\ v = 64 * q + l /\ m \in 0 .. 63 /\ q = 64 * p + m
        /\ n \in 0 .. 63 /\ p = 64 * h + n
        /\ q \in Int /\ p \in Int /\ h \in Int
    <3>1. /\ l \in 0 .. 63 /\ v = 64 * q + l /\ q \in Nat /\ p = q \div 64
          /\ h = p \div 64
      BY <2>1, SixBits, SMT
    <3>2. m \in 0 .. 63 /\ q = 64 * (q \div 64) + m /\ q \div 64 \in Nat
      <4>1. m = q % 64
        OBVIOUS
      <4>. HIDE DEF q, m
      <4>. QED
        BY <3>1, <4>1, SixBits, SMT
    <3>3. p \in Nat
      BY <3>1, <3>2
    <3>4. n \in 0 .. 63 /\ p = 64 * (p \div 64) + n /\ p \div 64 \in Nat
      <4>1. n = p % 64
        OBVIOUS
      <4>. HIDE DEF p, n
      <4>. QED
        BY <3>3, <4>1, SixBits, SMT
    <3>. HIDE DEF q, p, h, l, m, n
    <3>. QED
      BY <3>1, <3>2, <3>3, <3>4
  <2>3. 65536 <= v /\ a = 240 + h /\ b = 128 + n /\ c = 128 + m /\ d = 128 + l
    BY <1>6
  <2>. HIDE DEF q, p, h, l, m, n
  <2>4. 16 <= p /\ p <= 271
    BY <2>1, <2>2, <2>3, SMT
  <2>. QED
    BY <1>2, <2>2, <2>3, <2>4, SMT DEF Second, Follows
<1>. HIDE DEF v, s, Encodes
<1>7. Stream!IsEncoding(s) <=>
        240 <= a /\ a <= 244 /\ Second(a, b) /\ Follows(c) /\ Follows(d)
  BY <1>3, <1>4, <1>5, <1>6
<1>. QED
  BY <1>1, <1>7 DEF v, s

\* The lowest and the highest continuations, one by one.
LEMMA ContinuationsAre ==
  ASSUME NEW more
  PROVE  more \in Stream!Continuations <=>
           \/ \E x \in {128, 191} : more = <<x>>
           \/ \E x, y \in {128, 191} : more = <<x, y>>
           \/ \E x, y, z \in {128, 191} : more = <<x, y, z>>
<1>. DEFINE E == {128, 191}
<1>1. more \in Stream!Continuations <=> \E n \in 1 .. 3 : more \in [1 .. n -> E]
  BY DEF Stream!Continuations
<1>2. \A n : n \in 1 .. 3 <=> n \in {1, 2, 3}
  OBVIOUS
<1>3. more \in Stream!Continuations <=>
        more \in [1 .. 1 -> E] \/ more \in [1 .. 2 -> E] \/ more \in [1 .. 3 -> E]
  BY <1>1, <1>2
<1>4. more \in [1 .. 1 -> E] <=> \E x \in E : more = <<x>>
  <2>1. ASSUME more \in [1 .. 1 -> E] PROVE more = <<more[1]>> /\ more[1] \in E
    BY <2>1
  <2>2. ASSUME NEW x \in E PROVE <<x>> \in [1 .. 1 -> E]
    OBVIOUS
  <2>. QED
    BY <2>1, <2>2
<1>5. more \in [1 .. 2 -> E] <=> \E x, y \in E : more = <<x, y>>
  <2>1. ASSUME more \in [1 .. 2 -> E]
        PROVE  more = <<more[1], more[2]>> /\ more[1] \in E /\ more[2] \in E
    BY <2>1
  <2>2. ASSUME NEW x \in E, NEW y \in E PROVE <<x, y>> \in [1 .. 2 -> E]
    OBVIOUS
  <2>. QED
    BY <2>1, <2>2
<1>6. more \in [1 .. 3 -> E] <=> \E x, y, z \in E : more = <<x, y, z>>
  <2>1. ASSUME more \in [1 .. 3 -> E]
        PROVE  /\ more = <<more[1], more[2], more[3]>>
               /\ more[1] \in E /\ more[2] \in E /\ more[3] \in E
    BY <2>1
  <2>2. ASSUME NEW x \in E, NEW y \in E, NEW z \in E PROVE <<x, y, z>> \in [1 .. 3 -> E]
    OBVIOUS
  <2>. QED
    BY <2>1, <2>2
<1>. QED
  BY <1>3, <1>4, <1>5, <1>6

\* What bytes begin an encoding: those which one of the continuations completes.
LEMMA PrefixOf ==
  ASSUME NEW s
  PROVE  /\ Len(s) = 1 => (Stream!IsPrefixOfEncoding(s) <=>
              \/ \E x \in {128, 191} : Stream!IsEncoding(s \o <<x>>)
              \/ \E x, y \in {128, 191} : Stream!IsEncoding(s \o <<x, y>>)
              \/ \E x, y, z \in {128, 191} : Stream!IsEncoding(s \o <<x, y, z>>))
         /\ Len(s) = 2 => (Stream!IsPrefixOfEncoding(s) <=>
              \/ \E x \in {128, 191} : Stream!IsEncoding(s \o <<x>>)
              \/ \E x, y \in {128, 191} : Stream!IsEncoding(s \o <<x, y>>))
         /\ Len(s) = 3 => (Stream!IsPrefixOfEncoding(s) <=>
              \E x \in {128, 191} : Stream!IsEncoding(s \o <<x>>))
         /\ Len(s) = 4 => ~ Stream!IsPrefixOfEncoding(s)
<1>. SUFFICES ASSUME NEW n \in 1 .. 4, Len(s) = n
              PROVE  Stream!IsPrefixOfEncoding(s) <=>
           \/ n <= 3 /\ \E x \in {128, 191} : Stream!IsEncoding(s \o <<x>>)
           \/ n <= 2 /\ \E x, y \in {128, 191} : Stream!IsEncoding(s \o <<x, y>>)
           \/ n <= 1 /\ \E x, y, z \in {128, 191} : Stream!IsEncoding(s \o <<x, y, z>>)
  <2>1. \A n \in 1 .. 4 : Len(s) = n => (Stream!IsPrefixOfEncoding(s) <=>
           \/ n <= 3 /\ \E x \in {128, 191} : Stream!IsEncoding(s \o <<x>>)
           \/ n <= 2 /\ \E x, y \in {128, 191} : Stream!IsEncoding(s \o <<x, y>>)
           \/ n <= 1 /\ \E x, y, z \in {128, 191} : Stream!IsEncoding(s \o <<x, y, z>>))
    OBVIOUS
  <2>2. 1 \in 1 .. 4 /\ 2 \in 1 .. 4 /\ 3 \in 1 .. 4 /\ 4 \in 1 .. 4
    OBVIOUS
  <2>3. CASE Len(s) = 1
    BY <2>1, <2>2, <2>3
  <2>4. CASE Len(s) = 2
    BY <2>1, <2>2, <2>4
  <2>5. CASE Len(s) = 3
    BY <2>1, <2>2, <2>5
  <2>6. CASE Len(s) = 4
    BY <2>1, <2>2, <2>6
  <2>. QED
    BY <2>3, <2>4, <2>5, <2>6
<1>1. \A x, y, z : Len(<<x>>) = 1 /\ Len(<<x, y>>) = 2 /\ Len(<<x, y, z>>) = 3
  OBVIOUS
<1>2. /\ n + 1 <= 4 <=> n <= 3
      /\ n + 2 <= 4 <=> n <= 2
      /\ n + 3 <= 4 <=> n <= 1
  OBVIOUS
<1>3. ASSUME Stream!IsPrefixOfEncoding(s)
      PROVE  \/ n <= 3 /\ \E x \in {128, 191} : Stream!IsEncoding(s \o <<x>>)
             \/ n <= 2 /\ \E x, y \in {128, 191} : Stream!IsEncoding(s \o <<x, y>>)
             \/ n <= 1 /\ \E x, y, z \in {128, 191} : Stream!IsEncoding(s \o <<x, y, z>>)
  <2>1. PICK more \in Stream!Continuations : n + Len(more) <= 4 /\ Stream!IsEncoding(s \o more)
    BY <1>3 DEF Stream!IsPrefixOfEncoding
  <2>2. CASE \E x \in {128, 191} : more = <<x>>
    <3>1. PICK x \in {128, 191} : more = <<x>>
      BY <2>2
    <3>2. n <= 3 /\ Stream!IsEncoding(s \o <<x>>)
      BY <1>1, <1>2, <2>1, <3>1
    <3>. QED
      BY <3>2
  <2>3. CASE \E x, y \in {128, 191} : more = <<x, y>>
    <3>1. PICK x \in {128, 191}, y \in {128, 191} : more = <<x, y>>
      BY <2>3
    <3>2. n <= 2 /\ Stream!IsEncoding(s \o <<x, y>>)
      BY <1>1, <1>2, <2>1, <3>1
    <3>. QED
      BY <3>2
  <2>4. CASE \E x, y, z \in {128, 191} : more = <<x, y, z>>
    <3>1. PICK x \in {128, 191}, y \in {128, 191}, z \in {128, 191} : more = <<x, y, z>>
      BY <2>4
    <3>2. n <= 1 /\ Stream!IsEncoding(s \o <<x, y, z>>)
      BY <1>1, <1>2, <2>1, <3>1
    <3>. QED
      BY <3>2
  <2>. QED
    BY <2>2, <2>3, <2>4, ContinuationsAre
<1>4. ASSUME NEW more \in Stream!Continuations, n + Len(more) <= 4, Stream!IsEncoding(s \o more)
      PROVE  Stream!IsPrefixOfEncoding(s)
  BY <1>4 DEF Stream!IsPrefixOfEncoding
<1>5. ASSUME n <= 3, NEW x \in {128, 191}, Stream!IsEncoding(s \o <<x>>)
      PROVE  Stream!IsPrefixOfEncoding(s)
  <2>. DEFINE more == <<x>>
  <2>1. more \in Stream!Continuations
    BY ContinuationsAre
  <2>2. n + Len(more) <= 4
    BY <1>1, <1>2, <1>5
  <2>3. Stream!IsEncoding(s \o more)
    BY <1>5
  <2>. HIDE DEF more
  <2>. QED
    BY <1>4, <2>1, <2>2, <2>3
<1>6. ASSUME n <= 2, NEW x \in {128, 191}, NEW y \in {128, 191}, Stream!IsEncoding(s \o <<x, y>>)
      PROVE  Stream!IsPrefixOfEncoding(s)
  <2>. DEFINE more == <<x, y>>
  <2>1. more \in Stream!Continuations
    BY ContinuationsAre
  <2>2. n + Len(more) <= 4
    BY <1>1, <1>2, <1>6
  <2>3. Stream!IsEncoding(s \o more)
    BY <1>6
  <2>. HIDE DEF more
  <2>. QED
    BY <1>4, <2>1, <2>2, <2>3
<1>7. ASSUME n <= 1, NEW x \in {128, 191}, NEW y \in {128, 191}, NEW z \in {128, 191},
             Stream!IsEncoding(s \o <<x, y, z>>)
      PROVE  Stream!IsPrefixOfEncoding(s)
  <2>. DEFINE more == <<x, y, z>>
  <2>1. more \in Stream!Continuations
    BY ContinuationsAre
  <2>2. n + Len(more) <= 4
    BY <1>1, <1>2, <1>7
  <2>3. Stream!IsEncoding(s \o more)
    BY <1>7
  <2>. HIDE DEF more
  <2>. QED
    BY <1>4, <2>1, <2>2, <2>3
<1>. QED
  BY <1>3, <1>5, <1>6, <1>7

\* Two bytes that may go on as continuations.
LEMMA Continuing == {128, 191} \subseteq Byte /\ Follows(128) /\ Follows(191)
  BY ByteRange DEF Follows

\* One byte begins an encoding if it is a lead byte of one.
LEMMA Prefix1 ==
  ASSUME NEW a \in Byte
  PROVE  Stream!IsPrefixOfEncoding(<<a>>) <=> 194 <= a /\ a <= 244
<1>0. a \in Int
  BY ByteRange
<1>1. Stream!IsPrefixOfEncoding(<<a>>) <=>
        \/ \E x \in {128, 191} : Stream!IsEncoding(<<a>> \o <<x>>)
        \/ \E x, y \in {128, 191} : Stream!IsEncoding(<<a>> \o <<x, y>>)
        \/ \E x, y, z \in {128, 191} : Stream!IsEncoding(<<a>> \o <<x, y, z>>)
  <2>. DEFINE s == <<a>>
  <2>1. Len(s) = 1
    OBVIOUS
  <2>. HIDE DEF s
  <2>3. Stream!IsPrefixOfEncoding(s) <=>
          \/ \E x \in {128, 191} : Stream!IsEncoding(s \o <<x>>)
          \/ \E x, y \in {128, 191} : Stream!IsEncoding(s \o <<x, y>>)
          \/ \E x, y, z \in {128, 191} : Stream!IsEncoding(s \o <<x, y, z>>)
    BY <2>1, PrefixOf
  <2>. QED
    BY <2>3 DEF s
<1>2. ASSUME NEW x \in Byte, NEW y \in Byte, NEW z \in Byte, Follows(x), Follows(y), Follows(z)
      PROVE  /\ Stream!IsEncoding(<<a>> \o <<x>>) <=> 194 <= a /\ a <= 223
             /\ Stream!IsEncoding(<<a>> \o <<x, y>>) <=> 224 <= a /\ a <= 239 /\ Second(a, x)
             /\ Stream!IsEncoding(<<a>> \o <<x, y, z>>) <=> 240 <= a /\ a <= 244 /\ Second(a, x)
  <2>2. Stream!IsEncoding(<<a>> \o <<x>>) <=> 194 <= a /\ a <= 223
    <3>1. <<a>> \o <<x>> = <<a, x>>
      BY Join11, Zenon
    <3>2. Stream!IsEncoding(<<a, x>>) <=> 194 <= a /\ a <= 223
      BY <1>2, Encoding2 DEF Follows
    <3>. QED
      BY <3>1, <3>2, Zenon
  <2>3. Stream!IsEncoding(<<a>> \o <<x, y>>) <=> 224 <= a /\ a <= 239 /\ Second(a, x)
    <3>1. <<a>> \o <<x, y>> = <<a, x, y>>
      BY Join12, Zenon
    <3>2. Stream!IsEncoding(<<a, x, y>>) <=> 224 <= a /\ a <= 239 /\ Second(a, x)
      BY <1>2, Encoding3
    <3>. QED
      BY <3>1, <3>2, Zenon
  <2>4. Stream!IsEncoding(<<a>> \o <<x, y, z>>) <=> 240 <= a /\ a <= 244 /\ Second(a, x)
    <3>1. <<a>> \o <<x, y, z>> = <<a, x, y, z>>
      BY Join13, Zenon
    <3>2. Stream!IsEncoding(<<a, x, y, z>>) <=> 240 <= a /\ a <= 244 /\ Second(a, x)
      BY <1>2, Encoding4
    <3>. QED
      BY <3>1, <3>2, Zenon
  <2>. QED
    BY <2>2, <2>3, <2>4
<1>3. Stream!IsPrefixOfEncoding(<<a>>) <=>
        \/ 194 <= a /\ a <= 223
        \/ 224 <= a /\ a <= 239 /\ (Second(a, 128) \/ Second(a, 191))
        \/ 240 <= a /\ a <= 244 /\ (Second(a, 128) \/ Second(a, 191))
  BY <1>1, <1>2, Continuing
<1>4. Second(a, 128) \/ Second(a, 191)
  BY Continuing DEF Second
<1>. QED
  BY <1>0, <1>3, <1>4

\* Two do if the second may follow the lead byte of a longer form.
LEMMA Prefix2 ==
  ASSUME NEW a \in Byte, NEW b \in Byte
  PROVE  Stream!IsPrefixOfEncoding(<<a, b>>) <=> 224 <= a /\ a <= 244 /\ Second(a, b)
<1>0. a \in Int
  BY ByteRange
<1>1. Stream!IsPrefixOfEncoding(<<a, b>>) <=>
        \/ \E x \in {128, 191} : Stream!IsEncoding(<<a, b>> \o <<x>>)
        \/ \E x, y \in {128, 191} : Stream!IsEncoding(<<a, b>> \o <<x, y>>)
  <2>. DEFINE s == <<a, b>>
  <2>1. Len(s) = 2
    OBVIOUS
  <2>. HIDE DEF s
  <2>3. Stream!IsPrefixOfEncoding(s) <=>
          \/ \E x \in {128, 191} : Stream!IsEncoding(s \o <<x>>)
          \/ \E x, y \in {128, 191} : Stream!IsEncoding(s \o <<x, y>>)
    BY <2>1, PrefixOf
  <2>. QED
    BY <2>3 DEF s
<1>2. ASSUME NEW x \in Byte, NEW y \in Byte, Follows(x), Follows(y)
      PROVE  /\ Stream!IsEncoding(<<a, b>> \o <<x>>) <=> 224 <= a /\ a <= 239 /\ Second(a, b)
             /\ Stream!IsEncoding(<<a, b>> \o <<x, y>>) <=> 240 <= a /\ a <= 244 /\ Second(a, b)
  <2>2. Stream!IsEncoding(<<a, b>> \o <<x>>) <=> 224 <= a /\ a <= 239 /\ Second(a, b)
    <3>1. <<a, b>> \o <<x>> = <<a, b, x>>
      BY Join21, Zenon
    <3>2. Stream!IsEncoding(<<a, b, x>>) <=> 224 <= a /\ a <= 239 /\ Second(a, b)
      BY <1>2, Encoding3
    <3>. QED
      BY <3>1, <3>2, Zenon
  <2>3. Stream!IsEncoding(<<a, b>> \o <<x, y>>) <=> 240 <= a /\ a <= 244 /\ Second(a, b)
    <3>1. <<a, b>> \o <<x, y>> = <<a, b, x, y>>
      BY Join22, Zenon
    <3>2. Stream!IsEncoding(<<a, b, x, y>>) <=> 240 <= a /\ a <= 244 /\ Second(a, b)
      BY <1>2, Encoding4
    <3>. QED
      BY <3>1, <3>2, Zenon
  <2>. QED
    BY <2>2, <2>3
<1>3. Stream!IsPrefixOfEncoding(<<a, b>>) <=>
        \/ 224 <= a /\ a <= 239 /\ Second(a, b)
        \/ 240 <= a /\ a <= 244 /\ Second(a, b)
  BY <1>1, <1>2, Continuing
<1>. QED
  BY <1>0, <1>3

\* Three do if they are the first three of four.
LEMMA Prefix3 ==
  ASSUME NEW a \in Byte, NEW b \in Byte, NEW c \in Byte
  PROVE  Stream!IsPrefixOfEncoding(<<a, b, c>>) <=>
           240 <= a /\ a <= 244 /\ Second(a, b) /\ Follows(c)
<1>1. Stream!IsPrefixOfEncoding(<<a, b, c>>) <=>
        \E x \in {128, 191} : Stream!IsEncoding(<<a, b, c>> \o <<x>>)
  <2>. DEFINE s == <<a, b, c>>
  <2>1. Len(s) = 3
    OBVIOUS
  <2>. HIDE DEF s
  <2>3. Stream!IsPrefixOfEncoding(s) <=> \E x \in {128, 191} : Stream!IsEncoding(s \o <<x>>)
    BY <2>1, PrefixOf
  <2>. QED
    BY <2>3 DEF s
<1>2. ASSUME NEW x \in Byte, Follows(x)
      PROVE  Stream!IsEncoding(<<a, b, c>> \o <<x>>) <=>
               240 <= a /\ a <= 244 /\ Second(a, b) /\ Follows(c)
  <2>2. <<a, b, c>> \o <<x>> = <<a, b, c, x>>
    BY Join31, Zenon
  <2>3. Stream!IsEncoding(<<a, b, c, x>>) <=>
          240 <= a /\ a <= 244 /\ Second(a, b) /\ Follows(c)
    BY <1>2, Encoding4
  <2>. QED
    BY <2>2, <2>3, Zenon
<1>. QED
  BY <1>1, <1>2, Continuing

\* Four bytes do not: nothing is longer.
LEMMA Prefix4 ==
  ASSUME NEW a, NEW b, NEW c, NEW d
  PROVE  ~ Stream!IsPrefixOfEncoding(<<a, b, c, d>>)
<1>. DEFINE s == <<a, b, c, d>>
<1>1. Len(s) = 4
  OBVIOUS
<1>. HIDE DEF s
<1>3. ~ Stream!IsPrefixOfEncoding(s)
  BY <1>1, PrefixOf
<1>. QED
  BY <1>3 DEF s

-----------------------------------------------------------------------------
(***************************************************************************)
(* The bytes that wait, by the state and the value assembled.  What was    *)
(* said of sequences of bytes is restated of their names, so that the      *)
(* steps below compare their members only.                                 *)
(***************************************************************************)
one(a)            == <<a>>
two(a, b)         == <<a, b>>
three(a, b, c)    == <<a, b, c>>
four(a, b, c, d)  == <<a, b, c, d>>

\* A byte after none, one, two and three others.
LEMMA Append1 == ASSUME NEW a \in Byte PROVE Append(<<>>, a) = one(a)
<1>1. Append(<<>>, a) = <<a>>
  OBVIOUS
<1>. QED
  BY <1>1, Zenon DEF one

\* A second.
LEMMA Append2 == ASSUME NEW a \in Byte, NEW b \in Byte PROVE Append(one(a), b) = two(a, b)
<1>1. <<a>> \in Seq(Byte)
  OBVIOUS
<1>2. Append(<<a>>, b) = <<a>> \o <<b>>
  BY <1>1, AppendIsConcat, Zenon
<1>. QED
  BY <1>2, Join11, Zenon DEF one, two

\* A third.
LEMMA Append3 ==
  ASSUME NEW a \in Byte, NEW b \in Byte, NEW c \in Byte
  PROVE  Append(two(a, b), c) = three(a, b, c)
<1>1. <<a, b>> \in Seq(Byte)
  OBVIOUS
<1>2. Append(<<a, b>>, c) = <<a, b>> \o <<c>>
  BY <1>1, AppendIsConcat, Zenon
<1>. QED
  BY <1>2, Join21, Zenon DEF two, three

\* A fourth.
LEMMA Append4 ==
  ASSUME NEW a \in Byte, NEW b \in Byte, NEW c \in Byte, NEW d \in Byte
  PROVE  Append(three(a, b, c), d) = four(a, b, c, d)
<1>1. <<a, b, c>> \in Seq(Byte)
  OBVIOUS
<1>2. Append(<<a, b, c>>, d) = <<a, b, c>> \o <<d>>
  BY <1>1, AppendIsConcat, Zenon
<1>. QED
  BY <1>2, Join31, Zenon DEF three, four

\* None of the sequences is empty.
LEMMA NotEmpty ==
  /\ \A a : one(a) # <<>>
  /\ \A a, b : two(a, b) # <<>>
  /\ \A a, b, c : three(a, b, c) # <<>>
<1>1. \A a : one(a) # <<>>
  BY SMT DEF one
<1>2. \A a, b : two(a, b) # <<>>
  BY SMT DEF two
<1>3. \A a, b, c : three(a, b, c) # <<>>
  BY SMT DEF three
<1>. QED
  BY <1>1, <1>2, <1>3

\* Pending, of any state and value.
bytes_of(s, cp) ==
  CASE s = tail1 /\ cp < 32                 -> one(192 + cp)
    [] s = tail1 /\ 32 <= cp /\ cp <= 1023  -> two(224 + cp \div 64, tail(cp))
    [] s = tail1 /\ cp > 1023               -> three(240 + cp \div 4096, tail(cp \div 64), tail(cp))
    [] s = tail2 /\ cp < 16                 -> one(224 + cp)
    [] s = tail2 /\ cp >= 16                -> two(240 + cp \div 64, tail(cp))
    [] s = afterE0                          -> one(224)
    [] s = afterED                          -> one(237)
    [] s \in {afterF0, tail3, afterF4}      -> one(240 + cp)
    [] OTHER                                -> <<>>

\* Pending is the value of this for the object.
LEMMA PendingIsBytes ==
  ASSUME coder.code_point \in Nat
  PROVE  Pending = bytes_of(coder.state, coder.code_point)
<1>. DEFINE cp == coder.code_point
<1>1. cp \in 32 .. 1023 <=> 32 <= cp /\ cp <= 1023
  BY SMT
<1>. QED
  BY <1>1, SMT DEF Pending, bytes_of, one, two, three

\* The states but those of one and two bytes left.
LEMMA WaitingSimply ==
  ASSUME NEW cp
  PROVE  /\ bytes_of(accept, cp) = <<>> /\ bytes_of(reject, cp) = <<>>
         /\ bytes_of(afterE0, cp) = one(224) /\ bytes_of(afterED, cp) = one(237)
         /\ bytes_of(afterF0, cp) = one(240 + cp) /\ bytes_of(tail3, cp) = one(240 + cp)
         /\ bytes_of(afterF4, cp) = one(240 + cp)
<1>. USE DEF accept, reject, tail1, tail2, tail3, afterE0, afterED, afterF0, afterF4
<1>1. bytes_of(accept, cp) = <<>> /\ bytes_of(reject, cp) = <<>>
  BY SMT DEF bytes_of
<1>2. bytes_of(afterE0, cp) = one(224) /\ bytes_of(afterED, cp) = one(237)
  BY SMT DEF bytes_of
<1>3. bytes_of(afterF0, cp) = one(240 + cp) /\ bytes_of(tail3, cp) = one(240 + cp)
  BY SMT DEF bytes_of
<1>4. bytes_of(afterF4, cp) = one(240 + cp)
  BY SMT DEF bytes_of
<1>. QED
  BY <1>1, <1>2, <1>3, <1>4

\* The states of one and of two bytes left.
LEMMA WaitingForTails ==
  ASSUME NEW cp \in Nat
  PROVE  /\ cp < 32 => bytes_of(tail1, cp) = one(192 + cp)
         /\ 32 <= cp /\ cp <= 1023 => bytes_of(tail1, cp) = two(224 + cp \div 64, tail(cp))
         /\ 1023 < cp =>
              bytes_of(tail1, cp) = three(240 + cp \div 4096, tail(cp \div 64), tail(cp))
         /\ cp < 16 => bytes_of(tail2, cp) = one(224 + cp)
         /\ 16 <= cp => bytes_of(tail2, cp) = two(240 + cp \div 64, tail(cp))
<1>. USE DEF tail1, tail2, afterE0, afterED, afterF0, tail3, afterF4
<1>2. ASSUME cp < 32 PROVE bytes_of(tail1, cp) = one(192 + cp)
  <2>1. ~ (32 <= cp /\ cp <= 1023) /\ ~ (cp > 1023)
    BY <1>2, SMT
  <2>. QED
    BY <1>2, <2>1, SMT DEF bytes_of
<1>3. ASSUME 32 <= cp, cp <= 1023
      PROVE  bytes_of(tail1, cp) = two(224 + cp \div 64, tail(cp))
  <2>1. ~ (cp < 32) /\ ~ (cp > 1023)
    BY <1>3, SMT
  <2>. QED
    BY <1>3, <2>1, SMT DEF bytes_of
<1>4. 1023 < cp => bytes_of(tail1, cp) = three(240 + cp \div 4096, tail(cp \div 64), tail(cp))
  BY SMT DEF bytes_of
<1>5. cp < 16 => bytes_of(tail2, cp) = one(224 + cp)
  BY SMT DEF bytes_of
<1>6. 16 <= cp => bytes_of(tail2, cp) = two(240 + cp \div 64, tail(cp))
  BY SMT DEF bytes_of
<1>. QED
  BY <1>2, <1>3, <1>4, <1>5, <1>6, SMT

\* The value after a continuation byte, and the byte that comes back from it.
LEMMA TailBack ==
  ASSUME NEW h \in Nat, NEW b \in Byte, Follows(b)
  PROVE  LET cp == 64 * h + (b - 128)
         IN  cp \in Nat /\ cp \div 64 = h /\ cp \div 4096 = h \div 64 /\ tail(cp) = b
<1>. DEFINE cp == 64 * h + (b - 128)
<1>1. b \in Int /\ 128 <= b /\ b <= 191
  BY ByteRange DEF Follows
<1>2. cp \in Nat /\ cp \div 64 = h /\ cp % 64 = b - 128
  BY <1>1, SMT
<1>. HIDE DEF cp
<1>3. cp \div 4096 = h \div 64
  BY <1>2, SixBits
<1>4. tail(cp) = b
  BY <1>1, <1>2, SMT DEF tail
<1>. QED
  BY <1>2, <1>3, <1>4 DEF cp

\* The bytes before that one, of the states it leads to.
LEMMA WaitingAfter ==
  ASSUME NEW cp \in Nat, NEW h \in Nat, NEW b, cp \div 64 = h, cp \div 4096 = h \div 64,
         tail(cp) = b
  PROVE  /\ 32 <= cp /\ cp <= 1023 => bytes_of(tail1, cp) = two(224 + h, b)
         /\ 16 <= cp => bytes_of(tail2, cp) = two(240 + h, b)
         /\ 1023 < cp => bytes_of(tail1, cp) = three(240 + h \div 64, tail(h), b)
  BY WaitingForTails, SMT

\* What a state holds has bytes that wait, within an encoding.
LEMMA SomeWait ==
  ASSUME NEW s \in State, s \notin {accept, reject}, NEW cp \in Nat
  PROVE  bytes_of(s, cp) # <<>>
<1>4. s \in {tail1, tail2, tail3, afterE0, afterED, afterF0, afterF4}
  BY Zenon DEF State
<1>5. CASE s = tail1
  BY <1>5, WaitingForTails, NotEmpty, SMT
<1>6. CASE s = tail2
  <2>1. bytes_of(tail2, cp) = one(224 + cp) \/ bytes_of(tail2, cp) = two(240 + cp \div 64, tail(cp))
    <3>1. CASE cp < 16
      BY <3>1, WaitingForTails, SMT
    <3>2. CASE 16 <= cp
      <4>1. 16 <= cp => bytes_of(tail2, cp) = two(240 + cp \div 64, tail(cp))
        BY WaitingForTails
      <4>. QED
        BY <3>2, <4>1, Zenon
    <3>. QED
      BY <3>1, <3>2, SMT
  <2>. QED
    BY <1>6, <2>1, NotEmpty, SMT
<1>7. CASE s \in {tail3, afterE0, afterED, afterF0, afterF4}
  BY <1>7, WaitingSimply, NotEmpty, SMT
<1>. QED
  BY <1>4, <1>5, <1>6, <1>7, Zenon

\* What Utf8Stream says of the sequences, by name.
LEMMA EncodingByName ==
  ASSUME NEW a \in Byte, NEW b \in Byte, NEW c \in Byte, NEW d \in Byte
  PROVE  /\ Stream!bits(one(a)) = a
         /\ Stream!bits(two(a, b)) = 64 * (a - 192) + (b - 128)
         /\ Stream!bits(three(a, b, c)) = 4096 * (a - 224) + 64 * (b - 128) + (c - 128)
         /\ Stream!bits(four(a, b, c, d))
              = 262144 * (a - 240) + 4096 * (b - 128) + 64 * (c - 128) + (d - 128)
         /\ Stream!IsEncoding(one(a)) <=> a <= 127
         /\ Stream!IsEncoding(two(a, b)) <=> 194 <= a /\ a <= 223 /\ Follows(b)
         /\ Stream!IsEncoding(three(a, b, c)) <=>
              224 <= a /\ a <= 239 /\ Second(a, b) /\ Follows(c)
         /\ Stream!IsEncoding(four(a, b, c, d)) <=>
              240 <= a /\ a <= 244 /\ Second(a, b) /\ Follows(c) /\ Follows(d)
<1>1. Stream!bits(one(a)) = a /\ (Stream!IsEncoding(one(a)) <=> a <= 127)
  BY Encoding1 DEF one
<1>2. /\ Stream!bits(two(a, b)) = 64 * (a - 192) + (b - 128)
      /\ Stream!IsEncoding(two(a, b)) <=> 194 <= a /\ a <= 223 /\ Follows(b)
  BY Encoding2 DEF two, Follows
<1>3. /\ Stream!bits(three(a, b, c)) = 4096 * (a - 224) + 64 * (b - 128) + (c - 128)
      /\ Stream!IsEncoding(three(a, b, c)) <=>
           224 <= a /\ a <= 239 /\ Second(a, b) /\ Follows(c)
  BY Encoding3 DEF three
<1>4. /\ Stream!bits(four(a, b, c, d))
            = 262144 * (a - 240) + 4096 * (b - 128) + 64 * (c - 128) + (d - 128)
      /\ Stream!IsEncoding(four(a, b, c, d)) <=>
           240 <= a /\ a <= 244 /\ Second(a, b) /\ Follows(c) /\ Follows(d)
  BY Encoding4 DEF four
<1>. QED
  BY <1>1, <1>2, <1>3, <1>4, SMT

\* And of how they may go on.
LEMMA PrefixByName ==
  ASSUME NEW a \in Byte, NEW b \in Byte, NEW c \in Byte, NEW d \in Byte
  PROVE  /\ Stream!IsPrefixOfEncoding(one(a)) <=> 194 <= a /\ a <= 244
         /\ Stream!IsPrefixOfEncoding(two(a, b)) <=> 224 <= a /\ a <= 244 /\ Second(a, b)
         /\ Stream!IsPrefixOfEncoding(three(a, b, c)) <=>
              240 <= a /\ a <= 244 /\ Second(a, b) /\ Follows(c)
         /\ ~ Stream!IsPrefixOfEncoding(four(a, b, c, d))
<1>1. Stream!IsPrefixOfEncoding(one(a)) <=> 194 <= a /\ a <= 244
  BY Prefix1 DEF one
<1>2. Stream!IsPrefixOfEncoding(two(a, b)) <=> 224 <= a /\ a <= 244 /\ Second(a, b)
  BY Prefix2 DEF two
<1>3. Stream!IsPrefixOfEncoding(three(a, b, c)) <=>
        240 <= a /\ a <= 244 /\ Second(a, b) /\ Follows(c)
  BY Prefix3 DEF three
<1>4. ~ Stream!IsPrefixOfEncoding(four(a, b, c, d))
  BY Prefix4 DEF four
<1>. QED
  BY <1>1, <1>2, <1>3, <1>4, SMT

\* Where the table leads from the states within an encoding, by the byte itself.
LEMMA RowsByByte ==
  ASSUME NEW b \in Byte
  PROVE  /\ transition(tail1, class(b)) = IF Follows(b) THEN accept ELSE reject
         /\ transition(tail2, class(b)) = IF Follows(b) THEN tail1 ELSE reject
         /\ transition(tail3, class(b)) = IF Follows(b) THEN tail2 ELSE reject
         /\ transition(afterE0, class(b)) = IF Follows(b) /\ b >= 160 THEN tail1 ELSE reject
         /\ transition(afterED, class(b)) = IF Follows(b) /\ b <= 159 THEN tail1 ELSE reject
         /\ transition(afterF0, class(b)) = IF Follows(b) /\ b >= 144 THEN tail2 ELSE reject
         /\ transition(afterF4, class(b)) = IF Follows(b) /\ b <= 143 THEN tail2 ELSE reject
<1>1. b \in Int /\ class(b) \in 0 .. 11
  BY ByteRange, ClassOfByte
<1>2. /\ class(b) \in any_tail <=> Follows(b)
      /\ class(b) \in E0_tail <=> Follows(b) /\ b >= 160
      /\ class(b) \in ED_tail <=> Follows(b) /\ b <= 159
      /\ class(b) \in F0_tail <=> Follows(b) /\ b >= 144
      /\ class(b) \in F4_tail <=> Follows(b) /\ b <= 143
  <2>1. /\ class(b) \in any_tail <=> b \in \h80 .. \hBF
        /\ class(b) = 1 <=> b \in \h80 .. \h8F
        /\ class(b) = 9 <=> b \in \h90 .. \h9F
        /\ class(b) = 7 <=> b \in \hA0 .. \hBF
    BY ClassOfByte
  <2>. QED
    BY <1>1, <2>1, SMT DEF Follows, E0_tail, ED_tail, F0_tail, F4_tail
<1>. QED
  BY <1>1, <1>2, RowsOfTails

(***************************************************************************)
(* What the table makes of the bytes q: a state s and a value cp by which  *)
(* q is an encoding, begins one and is what then waits, or is neither.     *)
(***************************************************************************)
ReadAs(q, s, cp) ==
  /\ s = accept => Stream!IsEncoding(q) /\ Stream!bits(q) = cp
  /\ s \notin {accept, reject} => Stream!IsPrefixOfEncoding(q) /\ bytes_of(s, cp) = q
  /\ s = reject => ~ Stream!IsEncoding(q) /\ ~ Stream!IsPrefixOfEncoding(q)

\* The states differ.
LEMMA StatesDiffer ==
  /\ accept # reject
  /\ tail1 \notin {accept, reject} /\ tail2 \notin {accept, reject} /\ tail3 \notin {accept, reject}
  /\ afterE0 \notin {accept, reject} /\ afterED \notin {accept, reject}
  /\ afterF0 \notin {accept, reject} /\ afterF4 \notin {accept, reject}
  BY SMT DEF accept, reject, tail1, tail2, tail3, afterE0, afterED, afterF0, afterF4

\* The three ways, from facts about q.
LEMMA ReadAsAccepted ==
  ASSUME NEW q, NEW cp, Stream!IsEncoding(q), Stream!bits(q) = cp
  PROVE  ReadAs(q, accept, cp)
  BY StatesDiffer DEF ReadAs

LEMMA ReadAsPrefix ==
  ASSUME NEW q, NEW s, s \notin {accept, reject}, NEW cp, Stream!IsPrefixOfEncoding(q),
         bytes_of(s, cp) = q
  PROVE  ReadAs(q, s, cp)
  BY DEF ReadAs

LEMMA ReadAsNeither ==
  ASSUME NEW q, NEW cp, ~ Stream!IsEncoding(q), ~ Stream!IsPrefixOfEncoding(q)
  PROVE  ReadAs(q, reject, cp)
  BY StatesDiffer DEF ReadAs

\* A byte between two encodings is read as itself.
LEMMA LeadRead ==
  ASSUME NEW t \in T8_32, t.state = accept, NEW b \in Byte
  PROVE  ReadAs(one(b), transition(t.state, class(b)), shifted(t, b))
<1>. DEFINE s == transition(t.state, class(b))
            cp == shifted(t, b)
            type == class(b)
<1>1. b \in Int /\ 0 <= b /\ b <= 255
  BY ByteRange
<1>2. /\ type \in 0 .. 11
      /\ type = 0 => cp = b /\ s = accept
      /\ type = 2 => cp = b - 192 /\ s = tail1
      /\ type = 3 => cp = b - 224 /\ s = tail2
      /\ type = 4 => cp = b - 224 /\ s = afterED
      /\ type = 10 => cp = 0 /\ s = afterE0
      /\ type = 5 => cp = b - 240 /\ s = afterF4
      /\ type = 6 => cp = b - 240 /\ s = tail3
      /\ type = 11 => cp = 0 /\ s = afterF0
  BY ReadsLead
<1>3. /\ type = 0 <=> 0 <= b /\ b <= 127
      /\ type = 2 <=> 194 <= b /\ b <= 223
      /\ type = 3 <=> 225 <= b /\ b <= 239 /\ b # 237
      /\ type = 4 <=> b = 237
      /\ type = 10 <=> b = 224
      /\ type = 6 <=> 241 <= b /\ b <= 243
      /\ type = 5 <=> b = 244
      /\ type = 11 <=> b = 240
  <2>1. /\ type = 0 <=> b \in \h00 .. \h7F
        /\ type = 2 <=> b \in \hC2 .. \hDF
        /\ type = 3 <=> b \in (\hE1 .. \hEF) \ {\hED}
        /\ type = 4 <=> b = \hED
        /\ type = 10 <=> b = \hE0
        /\ type = 6 <=> b \in \hF1 .. \hF3
        /\ type = 5 <=> b = \hF4
        /\ type = 11 <=> b = \hF0
    BY LeadClass
  <2>. HIDE DEF type
  <2>. QED
    BY <1>1, <2>1, SMT
<1>4. type \notin {0, 2, 3, 4, 5, 6, 10, 11} => s = reject
  <2>1. s = transition(accept, type)
    OBVIOUS
  <2>. HIDE DEF s, type, cp
  <2>. QED
    BY <1>2, <2>1, RowOfAccept
<1>5. /\ Stream!bits(one(b)) = b
      /\ Stream!IsEncoding(one(b)) <=> b <= 127
      /\ Stream!IsPrefixOfEncoding(one(b)) <=> 194 <= b /\ b <= 244
  BY EncodingByName, PrefixByName
<1>. HIDE DEF s, cp, type
<1>6. CASE type = 0
  BY <1>2, <1>3, <1>5, <1>6, ReadAsAccepted DEF s, cp, type
<1>7. CASE type = 2
  <2>1. cp \in Nat /\ cp < 32 /\ 192 + cp = b
    BY <1>1, <1>2, <1>3, <1>7
  <2>2. bytes_of(tail1, cp) = one(b)
    BY <2>1, WaitingForTails
  <2>3. Stream!IsPrefixOfEncoding(one(b))
    BY <1>1, <1>3, <1>5, <1>7
  <2>4. ReadAs(one(b), tail1, cp)
    BY <2>2, <2>3, StatesDiffer, ReadAsPrefix
  <2>. QED
    BY <1>2, <1>7, <2>4 DEF s, cp, type
<1>8. CASE type = 3
  <2>1. cp \in Nat /\ cp < 16 /\ 224 + cp = b
    BY <1>1, <1>2, <1>3, <1>8
  <2>2. bytes_of(tail2, cp) = one(b)
    BY <2>1, WaitingForTails
  <2>3. Stream!IsPrefixOfEncoding(one(b))
    BY <1>1, <1>3, <1>5, <1>8
  <2>4. ReadAs(one(b), tail2, cp)
    BY <2>2, <2>3, StatesDiffer, ReadAsPrefix
  <2>. QED
    BY <1>2, <1>8, <2>4 DEF s, cp, type
<1>9. CASE type = 4 \/ type = 10
  <2>1. bytes_of(s, cp) = one(b) /\ s \notin {accept, reject}
    BY <1>2, <1>3, <1>9, WaitingSimply, StatesDiffer
  <2>2. Stream!IsPrefixOfEncoding(one(b))
    BY <1>3, <1>5, <1>9
  <2>3. ReadAs(one(b), s, cp)
    BY <2>1, <2>2, ReadAsPrefix
  <2>. QED
    BY <2>3 DEF s, cp, type
<1>10. CASE type \in {5, 6, 11}
  <2>1. cp \in Int /\ 240 + cp = b
    BY <1>1, <1>2, <1>3, <1>10
  <2>2. bytes_of(s, cp) = one(240 + cp) /\ s \notin {accept, reject}
    BY <1>2, <1>10, WaitingSimply, StatesDiffer
  <2>3. Stream!IsPrefixOfEncoding(one(b))
    BY <1>1, <1>3, <1>5, <1>10
  <2>4. ReadAs(one(b), s, cp)
    BY <2>1, <2>2, <2>3, ReadAsPrefix
  <2>. QED
    BY <2>4 DEF s, cp, type
<1>11. CASE type \notin {0, 2, 3, 4, 5, 6, 10, 11}
  <2>1. ~ (b <= 127) /\ ~ (194 <= b /\ b <= 244)
    BY <1>1, <1>3, <1>11, SMT
  <2>2. ReadAs(one(b), reject, cp)
    BY <1>5, <2>1, ReadAsNeither
  <2>. QED
    BY <1>4, <1>11, <2>2 DEF s, cp, type
<1>. QED
  BY <1>6, <1>7, <1>8, <1>9, <1>10, <1>11

\* A continuation byte shifted in is what comes back from the value.
LEMMA ShiftedBack ==
  ASSUME NEW t \in T8_32, t.state # accept, t.code_point <= 17407, NEW b \in Byte, Follows(b)
  PROVE  LET h == t.code_point
             cp == shifted(t, b)
         IN  /\ h \in Nat /\ cp = 64 * h + (b - 128) /\ cp \in Nat /\ cp \div 64 = h
             /\ cp \div 4096 = h \div 64 /\ tail(cp) = b
             /\ b \in Int /\ 128 <= b /\ b <= 191
<1>. DEFINE h == t.code_point
            cp == shifted(t, b)
<1>1. h \in Nat
  BY CodePointFieldRange, SMT DEF T8_32
<1>2. b \in Int /\ 128 <= b /\ b <= 191
  BY ByteRange DEF Follows
<1>3. b \in \h80 .. \hBF /\ t.code_point <= 32767
  BY <1>1, <1>2, SMT
<1>4. cp = 64 * h + (b - 128)
  BY <1>1, <1>2, <1>3, ShiftIn
<1>. DEFINE v == 64 * h + (b - 128)
<1>5. v \in Nat /\ v \div 64 = h /\ v \div 4096 = h \div 64 /\ tail(v) = b
  <2>. HIDE DEF h
  <2>. QED
    BY <1>1, TailBack
<1>6. cp = v
  BY <1>4
<1>. HIDE DEF v, h, cp
<1>7. cp \in Nat /\ cp \div 64 = h /\ cp \div 4096 = h \div 64 /\ tail(cp) = b
  BY <1>5, <1>6
<1>. QED
  BY <1>1, <1>2, <1>4, <1>7 DEF h, cp

\* A byte that is not a continuation byte ends no encoding of two bytes or more, and
\* goes on with none.
LEMMA NotContinued ==
  ASSUME NEW a \in Byte, NEW c \in Byte, NEW d \in Byte, NEW b \in Byte, ~ Follows(b)
  PROVE  /\ \A v : ReadAs(two(a, b), reject, v)
         /\ \A v : ReadAs(three(a, c, b), reject, v)
         /\ \A v : ReadAs(four(a, c, d, b), reject, v)
<1>1. ~ Stream!IsEncoding(two(a, b)) /\ ~ Stream!IsPrefixOfEncoding(two(a, b))
  <2>1. ~ Second(a, b)
    BY DEF Second
  <2>. QED
    BY <2>1, EncodingByName, PrefixByName
<1>2. ~ Stream!IsEncoding(three(a, c, b)) /\ ~ Stream!IsPrefixOfEncoding(three(a, c, b))
  BY EncodingByName, PrefixByName
<1>3. ~ Stream!IsEncoding(four(a, c, d, b)) /\ ~ Stream!IsPrefixOfEncoding(four(a, c, d, b))
  BY EncodingByName, PrefixByName
<1>. QED
  BY <1>1, <1>2, <1>3, ReadAsNeither

\* A byte after the lead byte of two.
LEMMA TwoRead ==
  ASSUME NEW t \in T8_32, t.state = tail1, 2 <= t.code_point, t.code_point < 32, NEW b \in Byte
  PROVE  ReadAs(Append(bytes_of(t.state, t.code_point), b),
                transition(t.state, class(b)), shifted(t, b))
<1>. DEFINE h == t.code_point
            cp == shifted(t, b)
            a == 192 + h
<1>1. h \in Nat /\ h <= 17407
  BY CodePointFieldRange, SMT DEF T8_32
<1>2. t.state # accept
  BY StatesDiffer
<1>3. a \in Byte /\ a = 192 + h /\ 194 <= a /\ a <= 223
  BY <1>1, ByteRange
<1>4. bytes_of(tail1, h) = one(a)
  BY <1>1, WaitingForTails
<1>5. Append(one(a), b) = two(a, b)
  <2>. HIDE DEF a
  <2>. QED
    <3>1. a \in Byte
      BY <1>3, SMT
    <3>. QED
      BY <3>1, Append2, SMT
<1>6. transition(tail1, class(b)) = IF Follows(b) THEN accept ELSE reject
  BY RowsByByte
<1>. HIDE DEF h, cp, a
<1>7. CASE Follows(b)
  <2>1. cp = 64 * h + (b - 128) /\ b \in Int
    BY <1>1, <1>2, <1>7, ShiftedBack DEF h, cp
  <2>2. Stream!IsEncoding(two(a, b)) /\ Stream!bits(two(a, b)) = 64 * (a - 192) + (b - 128)
    BY <1>3, <1>7, EncodingByName
  <2>3. Stream!bits(two(a, b)) = cp
    BY <1>1, <1>3, <2>1, <2>2, SMT
  <2>4. ReadAs(two(a, b), accept, cp)
    BY <2>2, <2>3, ReadAsAccepted
  <2>. QED
    BY <1>4, <1>5, <1>6, <1>7, <2>4 DEF h, cp
<1>8. CASE ~ Follows(b)
  <2>1. ReadAs(two(a, b), reject, cp)
    BY <1>3, <1>8, NotContinued
  <2>. QED
    BY <1>4, <1>5, <1>6, <1>8, <2>1 DEF h, cp
<1>. QED
  BY <1>7, <1>8

\* The third byte of three.
LEMMA ThreeRead ==
  ASSUME NEW t \in T8_32, t.state = tail1, 32 <= t.code_point, t.code_point <= 1023,
         ~ (864 <= t.code_point /\ t.code_point <= 895), NEW b \in Byte
  PROVE  ReadAs(Append(bytes_of(t.state, t.code_point), b),
                transition(t.state, class(b)), shifted(t, b))
<1>. DEFINE h == t.code_point
            cp == shifted(t, b)
            a == 224 + h \div 64
            c == tail(h)
<1>1. h \in Nat /\ h <= 17407
  BY CodePointFieldRange, SMT DEF T8_32
<1>2. t.state # accept
  BY StatesDiffer
<1>9. /\ h \div 64 \in Nat /\ h % 64 \in 0 .. 63 /\ h = 64 * (h \div 64) + (h % 64)
      /\ c = 128 + (h % 64)
  <2>1. c = 128 + (h % 64)
    BY SMT DEF tail
  <2>. HIDE DEF h, c
  <2>. QED
    BY <1>1, <2>1, SixBits
<1>3. /\ a \in Byte /\ a = 224 + h \div 64 /\ 224 <= a /\ a <= 239
      /\ c \in Byte /\ Second(a, c)
  <2>1. h \div 64 <= 15
    BY <1>1, <1>9, SMT
  <2>2. /\ h \div 64 = 0 => h % 64 >= 32
        /\ h \div 64 = 13 => h % 64 <= 31
    <3>. DEFINE q == h \div 64
                l == h % 64
    <3>1. q \in Nat /\ l \in 0 .. 63 /\ h = 64 * q + l
      BY <1>9
    <3>2. 32 <= h /\ ~ (864 <= h /\ h <= 895)
      OBVIOUS
    <3>. HIDE DEF q, l, h
    <3>3. (q = 0 => l >= 32) /\ (q = 13 => l <= 31)
      BY <1>1, <3>1, <3>2, SMT
    <3>. QED
      BY <3>3 DEF q, l
  <2>3. a \in Int /\ c \in Int /\ 224 <= a /\ a <= 239 /\ 128 <= c /\ c <= 191
    BY <1>9, <2>1, SMT
  <2>4. /\ a = 224 => c >= 160
        /\ a = 237 => c <= 159
    BY <1>9, <2>2, SMT
  <2>. HIDE DEF c
  <2>5. a = 224 + h \div 64
    OBVIOUS
  <2>. HIDE DEF a
  <2>. QED
    BY <2>3, <2>4, <2>5, ByteRange, SMT DEF Second, Follows
<1>4. bytes_of(tail1, h) = two(a, c)
  BY <1>1, WaitingForTails
<1>5. Append(two(a, c), b) = three(a, c, b)
  <2>. HIDE DEF a, c
  <2>. QED
    <3>1. a \in Byte /\ c \in Byte
      BY <1>3, SMT
    <3>. QED
      BY <3>1, Append3, SMT
<1>6. transition(tail1, class(b)) = IF Follows(b) THEN accept ELSE reject
  BY RowsByByte
<1>. HIDE DEF h, cp, a, c
<1>7. CASE Follows(b)
  <2>1. cp = 64 * h + (b - 128) /\ b \in Int
    BY <1>1, <1>2, <1>7, ShiftedBack DEF h, cp
  <2>2. /\ Stream!IsEncoding(three(a, c, b))
        /\ Stream!bits(three(a, c, b)) = 4096 * (a - 224) + 64 * (c - 128) + (b - 128)
    BY <1>3, <1>7, EncodingByName
  <2>3. Stream!bits(three(a, c, b)) = cp
    BY <1>1, <1>3, <1>9, <2>1, <2>2, SMT
  <2>4. ReadAs(three(a, c, b), accept, cp)
    BY <2>2, <2>3, ReadAsAccepted
  <2>. QED
    BY <1>4, <1>5, <1>6, <1>7, <2>4 DEF h, cp
<1>8. CASE ~ Follows(b)
  <2>1. ReadAs(three(a, c, b), reject, cp)
    BY <1>3, <1>8, NotContinued
  <2>. QED
    BY <1>4, <1>5, <1>6, <1>8, <2>1 DEF h, cp
<1>. QED
  BY <1>7, <1>8

\* What a waiting pair of bytes stands for: the first six bits of h past the lead, and
\* the last six.
LEMMA LeadOfFour ==
  ASSUME NEW h \in Nat, 16 <= h, h <= 271
  PROVE  LET a == 240 + h \div 64
             c == tail(h)
         IN  /\ a \in Byte /\ 240 <= a /\ a <= 244 /\ c \in Byte /\ Second(a, c)
             /\ h = 64 * (a - 240) + (c - 128)
<1>. DEFINE q == h \div 64
            l == h % 64
            a == 240 + q
            c == tail(h)
<1>1. q \in Nat /\ l \in 0 .. 63 /\ h = 64 * q + l
  BY SixBits
<1>2. c = 128 + l
  BY SMT DEF tail
<1>. HIDE DEF q, l, c
<1>3. q <= 4 /\ (q = 0 => l >= 16) /\ (q = 4 => l <= 15)
  BY <1>1, SMT
<1>4. /\ a \in Int /\ 240 <= a /\ a <= 244 /\ c \in Int /\ 128 <= c /\ c <= 191
      /\ a = 240 => c >= 144
      /\ a = 244 => c <= 143
      /\ h = 64 * (a - 240) + (c - 128)
  BY <1>1, <1>2, <1>3, SMT
<1>. HIDE DEF a
<1>5. a \in Byte /\ c \in Byte /\ Second(a, c)
  BY <1>4, ByteRange, SMT DEF Second, Follows
<1>. QED
  BY <1>4, <1>5 DEF q, a, c

\* The last byte of four.
LEMMA FourRead ==
  ASSUME NEW t \in T8_32, t.state = tail1, 1023 < t.code_point, t.code_point <= 17407,
         NEW b \in Byte
  PROVE  ReadAs(Append(bytes_of(t.state, t.code_point), b),
                transition(t.state, class(b)), shifted(t, b))
<1>. DEFINE h == t.code_point
            cp == shifted(t, b)
            m == h \div 64
            a == 240 + m \div 64
            c == tail(m)
            d == tail(h)
<1>1. h \in Nat /\ 1023 < h /\ h <= 17407
  BY CodePointFieldRange, SMT DEF T8_32
<1>2. t.state # accept
  BY StatesDiffer
<1>3. /\ m \in Nat /\ d = 128 + (h % 64) /\ h % 64 \in 0 .. 63 /\ h = 64 * m + (h % 64)
      /\ h \div 4096 = m \div 64
  <2>1. d = 128 + (h % 64)
    BY SMT DEF tail
  <2>. HIDE DEF h, d
  <2>. QED
    BY <1>1, <2>1, SixBits
<1>4. bytes_of(tail1, h) = three(a, c, d)
  <2>1. bytes_of(tail1, h) = three(240 + h \div 4096, tail(h \div 64), tail(h))
    BY <1>1, WaitingForTails
  <2>. QED
    BY <1>3, <2>1
<1>5. 16 <= m /\ m <= 271
  <2>. HIDE DEF h, m
  <2>. QED
    BY <1>1, <1>3, SMT
<1>6. d \in Byte /\ Follows(d) /\ d \in Int
  <2>. HIDE DEF h, d
  <2>. QED
    BY <1>3, ByteRange, SMT DEF Follows
<1>7. /\ a \in Byte /\ 240 <= a /\ a <= 244 /\ c \in Byte /\ Second(a, c)
      /\ m = 64 * (a - 240) + (c - 128)
  <2>. HIDE DEF m
  <2>. QED
    BY <1>3, <1>5, LeadOfFour
<1>. HIDE DEF h, cp, m, a, c, d
<1>8. Append(three(a, c, d), b) = four(a, c, d, b)
  <2>1. a \in Byte /\ b \in Byte /\ c \in Byte /\ d \in Byte
    BY <1>6, <1>7, SMT
  <2>. QED
    BY <2>1, Append4, SMT
<1>9. transition(tail1, class(b)) = IF Follows(b) THEN accept ELSE reject
  BY RowsByByte
<1>10. CASE Follows(b)
  <2>1. cp = 64 * h + (b - 128) /\ b \in Int
    BY <1>1, <1>2, <1>10, ShiftedBack DEF h, cp
  <2>2. /\ Stream!IsEncoding(four(a, c, d, b))
        /\ Stream!bits(four(a, c, d, b))
             = 262144 * (a - 240) + 4096 * (c - 128) + 64 * (d - 128) + (b - 128)
    BY <1>6, <1>7, <1>10, EncodingByName
  <2>3. Stream!bits(four(a, c, d, b)) = cp
    <3>1. a \in Int /\ c \in Int
      BY <1>7, ByteRange
    <3>2. h = 64 * m + (d - 128)
      BY <1>1, <1>3, SMT
    <3>. QED
      BY <1>1, <1>3, <1>6, <1>7, <2>1, <2>2, <3>1, <3>2, SMT
  <2>4. ReadAs(four(a, c, d, b), accept, cp)
    BY <2>2, <2>3, ReadAsAccepted
  <2>. QED
    BY <1>4, <1>8, <1>9, <1>10, <2>4 DEF h, cp
<1>11. CASE ~ Follows(b)
  <2>1. ReadAs(four(a, c, d, b), reject, cp)
    BY <1>6, <1>7, <1>11, NotContinued
  <2>. QED
    BY <1>4, <1>8, <1>9, <1>11, <2>1 DEF h, cp
<1>. QED
  BY <1>10, <1>11

\* The third byte of four, in the state of two bytes left.
LEMMA ThirdOfFourRead ==
  ASSUME NEW t \in T8_32, t.state = tail2, 16 <= t.code_point, t.code_point <= 271,
         NEW b \in Byte
  PROVE  ReadAs(Append(bytes_of(t.state, t.code_point), b),
                transition(t.state, class(b)), shifted(t, b))
<1>. DEFINE h == t.code_point
            cp == shifted(t, b)
            a == 240 + h \div 64
            c == tail(h)
<1>1. h \in Nat /\ 16 <= h /\ h <= 271 /\ h <= 17407
  BY CodePointFieldRange, SMT DEF T8_32
<1>2. t.state # accept
  BY StatesDiffer
<1>3. a \in Byte /\ 240 <= a /\ a <= 244 /\ c \in Byte /\ Second(a, c)
  <2>. HIDE DEF h
  <2>. QED
    BY <1>1, LeadOfFour
<1>4. bytes_of(tail2, h) = two(a, c)
  BY <1>1, WaitingForTails
<1>5. transition(tail2, class(b)) = IF Follows(b) THEN tail1 ELSE reject
  BY RowsByByte
<1>6. Append(two(a, c), b) = three(a, c, b)
  <2>. HIDE DEF a, c
  <2>. QED
    <3>1. a \in Byte /\ c \in Byte
      BY <1>3, SMT
    <3>. QED
      BY <3>1, Append3, SMT
<1>7. CASE Follows(b)
  <2>1. /\ cp \in Nat /\ cp \div 64 = h /\ cp \div 4096 = h \div 64 /\ tail(cp) = b
        /\ cp = 64 * h + (b - 128) /\ b \in Int /\ 128 <= b
    BY <1>1, <1>2, <1>7, ShiftedBack
  <2>2. bytes_of(tail1, cp) = three(a, c, b)
    <3>. HIDE DEF h, cp
    <3>1. 1023 < cp
      BY <1>1, <2>1, SMT
    <3>2. cp \in Nat /\ cp \div 64 = h /\ cp \div 4096 = h \div 64 /\ tail(cp) = b /\ h \in Nat
      BY <1>1, <2>1
    <3>3. 1023 < cp => bytes_of(tail1, cp) = three(240 + h \div 64, tail(h), b)
      BY <3>2, WaitingAfter
    <3>. QED
      BY <3>1, <3>3
  <2>. HIDE DEF h, cp, a, c
  <2>3. Stream!IsPrefixOfEncoding(three(a, c, b))
    BY <1>3, <1>7, PrefixByName
  <2>4. ReadAs(three(a, c, b), tail1, cp)
    BY <2>2, <2>3, StatesDiffer, ReadAsPrefix
  <2>. QED
    BY <1>4, <1>5, <1>6, <1>7, <2>4 DEF h, cp
<1>8. CASE ~ Follows(b)
  <2>. HIDE DEF h, cp, a, c
  <2>1. ReadAs(three(a, c, b), reject, cp)
    BY <1>3, <1>8, NotContinued
  <2>. QED
    BY <1>4, <1>5, <1>6, <1>8, <2>1 DEF h, cp
<1>. QED
  BY <1>7, <1>8

\* A second byte, of three, that may follow its lead byte a: what then waits are the two.
LEMMA SecondOfThreeRead ==
  ASSUME NEW t \in T8_32, t.state # accept, t.code_point <= 15, NEW b \in Byte,
         NEW a \in Byte, a = 224 + t.code_point, Second(a, b)
  PROVE  ReadAs(two(a, b), tail1, shifted(t, b))
<1>. DEFINE h == t.code_point
            cp == shifted(t, b)
<1>1. h \in Nat /\ h <= 15 /\ h <= 17407
  BY CodePointFieldRange, SMT DEF T8_32
<1>2. Follows(b)
  BY DEF Second
<1>3. /\ cp \in Nat /\ cp \div 64 = h /\ cp \div 4096 = h \div 64 /\ tail(cp) = b
      /\ cp = 64 * h + (b - 128) /\ b \in Int /\ 128 <= b /\ b <= 191
  BY <1>1, <1>2, ShiftedBack
<1>4. a = 224 + h
  OBVIOUS
<1>. HIDE DEF h, cp
<1>5. 32 <= cp /\ cp <= 1023
  BY <1>1, <1>3, <1>4, SMT DEF Second
<1>6. 32 <= cp /\ cp <= 1023 => bytes_of(tail1, cp) = two(224 + h, b)
  <2>1. cp \in Nat /\ cp \div 64 = h /\ cp \div 4096 = h \div 64 /\ tail(cp) = b /\ h \in Nat
    BY <1>1, <1>3
  <2>. QED
    BY <2>1, WaitingAfter
<1>7. bytes_of(tail1, cp) = two(a, b)
  BY <1>4, <1>5, <1>6
<1>8. 224 <= a /\ a <= 244
  BY <1>1, <1>4, SMT
<1>9. Stream!IsPrefixOfEncoding(two(a, b))
  BY <1>8, PrefixByName
<1>. QED
  BY <1>7, <1>9, StatesDiffer, ReadAsPrefix DEF cp

\* The same of four.
LEMMA SecondOfFourRead ==
  ASSUME NEW t \in T8_32, t.state # accept, t.code_point <= 4, NEW b \in Byte,
         NEW a \in Byte, a = 240 + t.code_point, Second(a, b)
  PROVE  ReadAs(two(a, b), tail2, shifted(t, b))
<1>. DEFINE h == t.code_point
            cp == shifted(t, b)
<1>1. h \in Nat /\ h <= 4 /\ h <= 17407
  BY CodePointFieldRange, SMT DEF T8_32
<1>2. Follows(b)
  BY DEF Second
<1>3. /\ cp \in Nat /\ cp \div 64 = h /\ cp \div 4096 = h \div 64 /\ tail(cp) = b
      /\ cp = 64 * h + (b - 128) /\ b \in Int /\ 128 <= b /\ b <= 191
  BY <1>1, <1>2, ShiftedBack
<1>4. a = 240 + h
  OBVIOUS
<1>. HIDE DEF h, cp
<1>5. 16 <= cp
  BY <1>1, <1>3, <1>4, SMT DEF Second
<1>6. 16 <= cp => bytes_of(tail2, cp) = two(240 + h, b)
  <2>1. cp \in Nat /\ cp \div 64 = h /\ cp \div 4096 = h \div 64 /\ tail(cp) = b /\ h \in Nat
    BY <1>1, <1>3
  <2>. QED
    BY <2>1, WaitingAfter
<1>7. bytes_of(tail2, cp) = two(a, b)
  BY <1>4, <1>5, <1>6
<1>8. 224 <= a /\ a <= 244
  BY <1>1, <1>4, SMT
<1>9. Stream!IsPrefixOfEncoding(two(a, b))
  BY <1>8, PrefixByName
<1>. QED
  BY <1>7, <1>9, StatesDiffer, ReadAsPrefix DEF cp

\* A second byte that may not follow the lead byte of three or four.
LEMMA SecondNotRead ==
  ASSUME NEW a \in Byte, 224 <= a, NEW b \in Byte, ~ Second(a, b), NEW cp
  PROVE  ReadAs(two(a, b), reject, cp)
<1>1. ~ (194 <= a /\ a <= 223)
  BY ByteRange, SMT
<1>2. ~ Stream!IsEncoding(two(a, b)) /\ ~ Stream!IsPrefixOfEncoding(two(a, b))
  BY <1>1, EncodingByName, PrefixByName
<1>. QED
  BY <1>2, ReadAsNeither

\* Every state within an encoding reads the next byte as Utf8Stream does.
LEMMA WithinRead ==
  ASSUME NEW t \in T8_32, MayHold(t.state, t.code_point), t.state \notin {accept, reject},
         NEW b \in Byte
  PROVE  ReadAs(Append(bytes_of(t.state, t.code_point), b),
                transition(t.state, class(b)), shifted(t, b))
<1>. DEFINE h == t.code_point
            cp == shifted(t, b)
<1>1. h \in Nat
  BY CodePointFieldRange, SMT DEF T8_32
<1>2. t.state \in {tail1, tail2, tail3, afterE0, afterED, afterF0, afterF4}
  BY DEF T8_32, State
<1>3. b \in Int
  BY ByteRange
<1>4. \A v : 0 <= v /\ v <= 255 /\ v \in Int => v \in Byte
  BY ByteRange
<1>5. CASE t.state = tail1
  <2>1. 2 <= h /\ h <= 17407 /\ ~ (864 <= h /\ h <= 895)
    BY <1>1, <1>5 DEF MayHold, accept, reject, tail1, tail2, tail3, afterE0, afterED,
       afterF0, afterF4
  <2>2. h < 32 \/ (32 <= h /\ h <= 1023) \/ 1023 < h
    BY <1>1
  <2>. QED
    BY <1>5, <2>1, <2>2, TwoRead, ThreeRead, FourRead
<1>6. CASE t.state = tail2
  <2>1. 1 <= h /\ h <= 271 /\ h # 13
    BY <1>1, <1>6 DEF MayHold, accept, reject, tail1, tail2, tail3, afterE0, afterED,
       afterF0, afterF4
  <2>2. CASE 16 <= h
    BY <1>6, <2>1, <2>2, ThirdOfFourRead
  <2>3. CASE h < 16
    <3>. DEFINE a == 224 + h
    <3>1. /\ a \in Byte /\ a = 224 + h /\ 224 <= a /\ h <= 15
          /\ a \notin {224, 237, 240, 244}
      BY <1>1, <1>4, <2>1, <2>3
    <3>2. bytes_of(tail2, h) = one(a)
      BY <1>1, <2>3, WaitingForTails
    <3>3. transition(tail2, class(b)) = IF Follows(b) THEN tail1 ELSE reject
      BY RowsByByte
    <3>. HIDE DEF a
    <3>4. Append(one(a), b) = two(a, b)
      <4>1. a \in Byte
        BY <3>1, SMT
      <4>. QED
        BY <4>1, Append2, SMT
    <3>5. Second(a, b) <=> Follows(b)
      BY <3>1, SMT DEF Second
    <3>6. CASE Follows(b)
      <4>1. ReadAs(two(a, b), tail1, cp)
        BY <1>6, <3>1, <3>5, <3>6, SecondOfThreeRead
      <4>. QED
        BY <1>6, <3>2, <3>3, <3>4, <3>6, <4>1
    <3>7. CASE ~ Follows(b)
      <4>1. ReadAs(two(a, b), reject, cp)
        BY <3>1, <3>5, <3>7, SecondNotRead
      <4>. QED
        BY <1>6, <3>2, <3>3, <3>4, <3>7, <4>1
    <3>. QED
      BY <3>6, <3>7
  <2>. QED
    BY <1>1, <2>2, <2>3
<1>7. CASE t.state \in {afterE0, afterED}
  <2>. DEFINE a == 224 + h
  <2>1. h = IF t.state = afterE0 THEN 0 ELSE 13
    BY <1>1, <1>7 DEF MayHold, accept, reject, tail1, tail2, tail3, afterE0, afterED,
       afterF0, afterF4
  <2>2. afterE0 # afterED
    BY SMT DEF afterE0, afterED
  <2>3. a \in Byte /\ a = (IF t.state = afterE0 THEN 224 ELSE 237) /\ 224 <= a /\ h <= 15
    BY <1>4, <2>1
  <2>4. bytes_of(t.state, h) = one(a)
    BY <1>7, <2>1, <2>2, <2>3, WaitingSimply
  <2>5. transition(t.state, class(b)) = IF Second(a, b) THEN tail1 ELSE reject
    <3>1. a = 224 => (Second(a, b) <=> Follows(b) /\ b >= 160)
      BY SMT DEF Second
    <3>2. a = 237 => (Second(a, b) <=> Follows(b) /\ b <= 159)
      BY SMT DEF Second
    <3>3. /\ transition(afterE0, class(b)) = IF Follows(b) /\ b >= 160 THEN tail1 ELSE reject
          /\ transition(afterED, class(b)) = IF Follows(b) /\ b <= 159 THEN tail1 ELSE reject
      BY RowsByByte
    <3>. HIDE DEF a
    <3>. QED
      BY <1>7, <2>2, <2>3, <3>1, <3>2, <3>3
  <2>6. a = 224 + h
    OBVIOUS
  <2>. HIDE DEF a
  <2>7. Append(one(a), b) = two(a, b)
    <3>1. a \in Byte
      BY <2>3, SMT
    <3>. QED
      BY <3>1, Append2, SMT
  <2>8. ReadAs(two(a, b), transition(t.state, class(b)), cp)
    <3>1. CASE Second(a, b)
      BY <1>7, <2>3, <2>5, <2>6, <3>1, SecondOfThreeRead, StatesDiffer
    <3>2. CASE ~ Second(a, b)
      BY <2>3, <2>5, <3>2, SecondNotRead
    <3>. QED
      BY <3>1, <3>2
  <2>. QED
    BY <2>4, <2>7, <2>8
<1>8. CASE t.state \in {afterF0, tail3, afterF4}
  <2>. DEFINE a == 240 + h
  <2>1. /\ t.state = afterF0 => h = 0
        /\ t.state = tail3 => 1 <= h /\ h <= 3
        /\ t.state = afterF4 => h = 4
    BY <1>1, <1>8 DEF MayHold, accept, reject, tail1, tail2, tail3, afterE0, afterED,
       afterF0, afterF4
  <2>2. a \in Byte /\ 224 <= a /\ h <= 4 /\ a = 240 + h
    BY <1>1, <1>4, <1>8, <2>1
  <2>3. /\ t.state = afterF0 => a = 240
        /\ t.state = tail3 => a \notin {224, 237, 240, 244}
        /\ t.state = afterF4 => a = 244
    BY <1>1, <2>1
  <2>4. bytes_of(t.state, h) = one(a)
    BY <1>8, WaitingSimply
  <2>. HIDE DEF a
  <2>5. transition(t.state, class(b)) = IF Second(a, b) THEN tail2 ELSE reject
    <3>1. a = 240 => (Second(a, b) <=> Follows(b) /\ b >= 144)
      BY SMT DEF Second
    <3>2. a = 244 => (Second(a, b) <=> Follows(b) /\ b <= 143)
      BY SMT DEF Second
    <3>3. a \notin {224, 237, 240, 244} => (Second(a, b) <=> Follows(b))
      BY SMT DEF Second
    <3>4. /\ transition(afterF0, class(b)) = IF Follows(b) /\ b >= 144 THEN tail2 ELSE reject
          /\ transition(tail3, class(b)) = IF Follows(b) THEN tail2 ELSE reject
          /\ transition(afterF4, class(b)) = IF Follows(b) /\ b <= 143 THEN tail2 ELSE reject
      BY RowsByByte
    <3>. QED
      BY <1>8, <2>3, <3>1, <3>2, <3>3, <3>4
  <2>6. Append(one(a), b) = two(a, b)
    <3>1. a \in Byte
      BY <2>2, SMT
    <3>. QED
      BY <3>1, Append2, SMT
  <2>7. ReadAs(two(a, b), transition(t.state, class(b)), cp)
    <3>1. CASE Second(a, b)
      BY <1>8, <2>2, <2>5, <3>1, SecondOfFourRead, StatesDiffer
    <3>2. CASE ~ Second(a, b)
      BY <2>2, <2>5, <3>2, SecondNotRead
    <3>. QED
      BY <3>1, <3>2
  <2>. QED
    BY <2>4, <2>6, <2>7
<1>. QED
  BY <1>2, <1>5, <1>6, <1>7, <1>8

(***************************************************************************)
(* One step of the table and of Utf8Stream: the byte completes an encoding *)
(* with those that wait, extends them to the beginning of one, or does     *)
(* neither.                                                                *)
(***************************************************************************)
LEMMA TableReads ==
  ASSUME NEW t \in T8_32, MayHold(t.state, t.code_point), t.state # reject, NEW b \in Byte
  PROVE  ReadAs(Append(bytes_of(t.state, t.code_point), b),
                transition(t.state, class(b)), shifted(t, b))
<1>1. CASE t.state = accept
  <2>1. Append(<<>>, b) = one(b)
    BY Append1, SMT
  <2>2. bytes_of(t.state, t.code_point) = <<>>
    BY <1>1, WaitingSimply
  <2>3. ReadAs(one(b), transition(t.state, class(b)), shifted(t, b))
    BY <1>1, LeadRead
  <2>. QED
    BY <2>1, <2>2, <2>3
<1>. QED
  BY <1>1, WithinRead

\* operator() in the terms of the refinement: the code units written, the state and the
\* value it leaves, and the bytes that then wait.
LEMMA CallOutcome ==
  ASSUME coder \in T8_32, NEW b \in Byte, Call(b)
  PROVE  LET cp == shifted(coder, b)
             s == transition(coder.state, class(b))
         IN  /\ s = accept => /\ coder'.state = accept /\ out' = <<cp>>
                              /\ coder'.well_formed = coder.well_formed
             /\ s = reject => /\ coder'.state = accept /\ out' = <<replacement_char>>
                              /\ coder'.well_formed = FALSE
             /\ s \notin {accept, reject} => /\ coder'.state = s /\ out' = <<>>
                                             /\ coder'.well_formed = coder.well_formed
             /\ coder'.code_point = cp
<1>. DEFINE cp == shifted(coder, b)
            s == transition(coder.state, class(b))
<1>1. coder' = t8_32_call(coder, b).coder /\ out' = t8_32_call(coder, b).out
  BY DEF Call, Returns
<1>2. CASE s = accept
  <2>1. t8_32_call(coder, b)
          = Result([code_point |-> cp, well_formed |-> coder.well_formed, state |-> accept], <<cp>>)
    BY <1>2, Call8
  <2>. QED
    BY <1>1, <1>2, <2>1, StatesDiffer DEF Result
<1>3. CASE s = reject
  <2>1. t8_32_call(coder, b)
          = Result([code_point |-> cp, well_formed |-> FALSE, state |-> accept],
                   <<replacement_char>>)
    BY <1>3, Call8
  <2>. QED
    BY <1>1, <1>3, <2>1, StatesDiffer DEF Result
<1>4. CASE s \notin {accept, reject}
  <2>1. t8_32_call(coder, b)
          = Result([code_point |-> cp, well_formed |-> coder.well_formed, state |-> s], <<>>)
    BY <1>4, Call8
  <2>. HIDE DEF s, cp
  <2>. QED
    BY <1>1, <1>4, <2>1 DEF Result, s, cp
<1>. QED
  BY <1>2, <1>3, <1>4

\* A call within the input is a step of Utf8Stream.
LEMMA CallRefines ==
  ASSUME IInv, IInv', coder.state # reject, NEW b \in Bytes, Call(b)
  PROVE  Stream!Next
<1>. DEFINE cp == shifted(coder, b)
            s == transition(coder.state, class(b))
            q == Append(Pending, b)
<1>1. coder \in T8_32 /\ coder' \in T8_32 /\ MayHold(coder.state, coder.code_point) /\ b \in Byte
  BY BytesAssumption DEF IInv, TypeOK, PartialValue
<1>2. coder.code_point \in Nat /\ coder'.code_point \in Nat
  BY <1>1, CodePointFieldRange, SMT DEF T8_32
<1>3. Pending = bytes_of(coder.state, coder.code_point)
  BY <1>2, PendingIsBytes
<1>4. Pending' = bytes_of(coder'.state, coder'.code_point)
  <2>1. coder'.code_point \in 32 .. 1023 <=> 32 <= coder'.code_point /\ coder'.code_point <= 1023
    BY <1>2, SMT
  <2>. QED
    BY <1>2, <2>1, SMT DEF Pending, bytes_of, one, two, three
<1>5. ReadAs(q, s, cp)
  BY <1>1, <1>3, TableReads
<1>6. /\ s = accept => /\ coder'.state = accept /\ out' = <<cp>>
                       /\ coder'.well_formed = coder.well_formed
      /\ s = reject => /\ coder'.state = accept /\ out' = <<replacement_char>>
                       /\ coder'.well_formed = FALSE
      /\ s \notin {accept, reject} => /\ coder'.state = s /\ out' = <<>>
                                      /\ coder'.well_formed = coder.well_formed
      /\ coder'.code_point = cp
  BY <1>1, CallOutcome
<1>7. given' = <<b>>
  BY DEF Call
<1>. HIDE DEF s, cp
<1>8. CASE s = accept
  <2>1. Pending' = <<>>
    BY <1>4, <1>6, <1>8, WaitingSimply
  <2>2. Stream!IsEncoding(q) /\ Stream!bits(q) = cp
    BY <1>5, <1>8 DEF ReadAs
  <2>3. coder'.state # reject
    BY <1>6, <1>8, StatesDiffer
  <2>. HIDE DEF q
  <2>4. out' = <<Stream!bits(q)>>
    BY <1>6, <1>8, <2>2
  <2>5. Stream!Complete(b)
    BY <1>6, <1>7, <1>8, <2>1, <2>2, <2>3, <2>4 DEF Stream!Complete, q
  <2>. QED
    BY <2>5 DEF Stream!Next
<1>9. CASE s = reject
  <2>1. Pending' = <<>>
    BY <1>4, <1>6, <1>9, WaitingSimply
  <2>2. ~ Stream!IsEncoding(q) /\ ~ Stream!IsPrefixOfEncoding(q)
    BY <1>5, <1>9 DEF ReadAs
  <2>3. coder'.state # reject
    BY <1>6, <1>9, StatesDiffer
  <2>4. out' = <<Stream!replacement_char>>
    BY <1>6, <1>9, SameVocabulary
  <2>5. Stream!Replace(b)
    BY <1>6, <1>7, <1>9, <2>1, <2>2, <2>3, <2>4 DEF Stream!Replace
  <2>. QED
    BY <2>5 DEF Stream!Next
<1>10. CASE s \notin {accept, reject}
  <2>1. Stream!IsPrefixOfEncoding(q) /\ bytes_of(s, cp) = q
    BY <1>5, <1>10 DEF ReadAs
  <2>2. Pending' = q
    BY <1>4, <1>6, <1>10, <2>1
  <2>3. coder'.state # reject
    BY <1>6, <1>10
  <2>4. Stream!Extend(b)
    BY <1>6, <1>7, <1>10, <2>1, <2>2, <2>3 DEF Stream!Extend
  <2>. QED
    BY <2>4 DEF Stream!Next
<1>. QED
  BY <1>8, <1>9, <1>10

\* So is one after end_cp() has cut an encoding short: the byte is dropped.
LEMMA CallWhenCutRefines ==
  ASSUME IInv, IInv', coder.state = reject, NEW b \in Bytes, Call(b)
  PROVE  Stream!Next
<1>1. coder \in T8_32 /\ coder' \in T8_32 /\ b \in Byte
  BY BytesAssumption DEF IInv, TypeOK
<1>2. transition(coder.state, class(b)) = reject
  BY <1>1, ClassOfByte, RowsOfTails
<1>3. /\ coder'.state = accept /\ out' = <<replacement_char>>
      /\ coder'.well_formed = FALSE
  BY <1>1, <1>2, CallOutcome
<1>4. Pending' = <<>>
  BY <1>3, SMT DEF Pending, accept, reject, tail1, tail2, tail3, afterE0, afterED, afterF0, afterF4
<1>5. given' = <<b>> /\ coder'.state # reject /\ Stream!replacement_char = replacement_char
  BY <1>3, StatesDiffer, SameVocabulary DEF Call
<1>6. Stream!Replace(b)
  BY <1>3, <1>4, <1>5 DEF Stream!Replace
<1>. QED
  BY <1>6 DEF Stream!Next

\* And end_cp(), within an encoding and between two.
LEMMA EndCpRefines ==
  ASSUME IInv, EndCp
  PROVE  Stream!Next
<1>1. coder \in T8_32 /\ given' = <<>>
  BY DEF IInv, TypeOK, EndCp
<1>2. coder.code_point \in Nat
  BY <1>1, CodePointFieldRange, SMT DEF T8_32
<1>3. Pending = bytes_of(coder.state, coder.code_point)
  BY <1>2, PendingIsBytes
<1>4. CASE coder.state # accept
  <2>1. /\ coder' = [coder EXCEPT !.state = reject, !.well_formed = FALSE]
        /\ out' = <<replacement_char>>
    BY <1>4 DEF EndCp, Returns, t8_32_end_cp, Result
  <2>2. coder'.state = reject /\ coder'.well_formed = FALSE
    BY <1>1, <2>1 DEF T8_32
  <2>3. Pending' = <<>>
    BY <2>2, SMT DEF Pending, accept, reject, tail1, tail2, tail3, afterE0, afterED, afterF0,
       afterF4
  <2>4. Pending # <<>> \/ coder.state = reject
    <3>1. coder.state \in State
      BY <1>1 DEF T8_32
    <3>. QED
      BY <1>2, <1>3, <1>4, <3>1, SomeWait
  <2>5. Stream!EndCut
    BY <1>1, <2>1, <2>2, <2>3, <2>4, SameVocabulary DEF Stream!EndCut
  <2>. QED
    BY <2>5 DEF Stream!Next
<1>5. CASE coder.state = accept
  <2>1. coder' = coder /\ out' = <<>>
    BY <1>5 DEF EndCp, Returns, t8_32_end_cp, Result
  <2>2. Pending = <<>> /\ coder.state # reject
    BY <1>3, <1>5, WaitingSimply, StatesDiffer
  <2>3. Pending' = Pending
    BY <2>1 DEF Pending
  <2>4. Stream!End
    BY <1>1, <2>1, <2>2, <2>3 DEF Stream!End
  <2>. QED
    BY <2>4 DEF Stream!Next
<1>. QED
  BY <1>4, <1>5

(***************************************************************************)
(* For every set of bytes and every sequence of calls the table-driven     *)
(* decoder implements Utf8Stream: it accepts the encodings t32_8 writes    *)
(* and no others, keeps waiting exactly while the bytes received begin one *)
(* of them, and replaces the rest by U+FFFD.                               *)
(***************************************************************************)
THEOREM ImplementsStream == Spec => StreamSpec
<1>1. Init => Stream!Init
  <2>. SUFFICES ASSUME Init PROVE Stream!Init
    OBVIOUS
  <2>1. PICK wf \in BOOLEAN : coder = t8_32(wf)
    BY DEF Init
  <2>2. coder.state = accept /\ coder.code_point = 0 /\ coder.well_formed \in BOOLEAN
    BY <2>1 DEF t8_32
  <2>3. Pending = <<>>
    BY <2>2, SMT DEF Pending, accept, reject, tail1, tail2, tail3, afterE0, afterED, afterF0,
       afterF4
  <2>4. (coder.state = reject) = FALSE
    BY <2>2, StatesDiffer
  <2>. QED
    BY <2>2, <2>3, <2>4 DEF Init, Stream!Init
<1>2. IInv /\ IInv' /\ [Next]_vars => [Stream!Next]_Stream!vars
  <2>. SUFFICES ASSUME IInv, IInv', [Next]_vars PROVE [Stream!Next]_Stream!vars
    OBVIOUS
  <2>1. ASSUME NEW b \in Bytes, Call(b) PROVE Stream!Next
    BY <2>1, CallRefines, CallWhenCutRefines
  <2>2. CASE EndCp
    BY <2>2, EndCpRefines
  <2>3. CASE UNCHANGED vars
    BY <2>3 DEF vars, Stream!vars, Pending
  <2>. QED
    BY <2>1, <2>2, <2>3 DEF Next
<1>. QED
  BY <1>1, <1>2, Invariance, PTL DEF Spec, StreamSpec, Stream!Spec

=============================================================================
