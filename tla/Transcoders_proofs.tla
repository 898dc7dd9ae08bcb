-------------------------- MODULE Transcoders_proofs --------------------------
(***************************************************************************)
(* Facts about the transcoders as operators: the ranges of the vocabulary, *)
(* as inequalities between numerals; the table utf8d_ row by row and the   *)
(* arithmetic of code_point_; the fields of the UTF-16 decoder; then what  *)
(* the theorems about the programs that use transcoders rest on: that      *)
(* every call of one of the nine decodes first and encodes what came of    *)
(* it, that decoding undoes encoding, that an object of any of them, the   *)
(* byte transcoder too, is left one by every call, and what the byte       *)
(* transcoder makes of each beginning of a stream: a mark, then its text.  *)
(***************************************************************************)
EXTENDS ByteOrderMarks, SequenceTheorems, TLAPS

\* Bytes, as an inequality.
LEMMA ByteRange == ASSUME NEW b PROVE b \in Byte <=> b \in Int /\ 0 <= b /\ b <= 255
  BY DEF Byte

\* Code units, as an inequality.
LEMMA UnitRange == ASSUME NEW u PROVE u \in CodeUnit16 <=> u \in Int /\ 0 <= u /\ u <= 65535
<1>1. max_code_unit16 \in Int
  BY SMT DEF max_code_unit16
<1>2. u \in CodeUnit16 <=> u \in Int /\ 0 <= u /\ u <= max_code_unit16
  BY <1>1, SMT DEF CodeUnit16
<1>. QED
  BY <1>2, SMT DEF max_code_unit16

\* Code points and scalar values, as inequalities.
LEMMA ScalarRange ==
  ASSUME NEW n
  PROVE  /\ n \in CodePoint <=> n \in Int /\ 0 <= n /\ n <= 1114111
         /\ IsScalar(n) <=> n \in Int /\ 0 <= n /\ n <= 1114111 /\ ~ (55296 <= n /\ n <= 57343)
<1>1. max_code_point \in Nat
  BY SMT DEF max_code_point
<1>2. n \in CodePoint <=> n \in Int /\ 0 <= n /\ n <= max_code_point
  BY <1>1, SMT DEF CodePoint
<1>3. n \in CodePoint <=> n \in Int /\ 0 <= n /\ n <= 1114111
  BY <1>2, SMT DEF max_code_point
<1>4. n \in Int => (is_surrogate(n) <=> 55296 <= n /\ n <= 57343)
  BY SMT DEF is_surrogate, is_high_surrogate, is_low_surrogate, first_high_surrogate,
             last_high_surrogate, first_low_surrogate, last_low_surrogate
<1>. QED
  BY <1>3, <1>4, SMT DEF IsScalar

\* The two halves of the surrogates, as inequalities.
LEMMA SurrogateRange ==
  ASSUME NEW u \in Int
  PROVE  /\ is_high_surrogate(u) <=> 55296 <= u /\ u <= 56319
         /\ is_low_surrogate(u) <=> 56320 <= u /\ u <= 57343
  BY SMT DEF is_high_surrogate, is_low_surrogate, first_high_surrogate,
             last_high_surrogate, first_low_surrogate, last_low_surrogate

\* U+FFFD is a scalar value.
LEMMA ReplacementIsScalar == IsScalar(replacement_char)
  BY ScalarRange, SMT DEF replacement_char

-----------------------------------------------------------------------------
\* The 21-bit field code_point_, as an inequality.
LEMMA CodePointFieldRange ==
  ASSUME NEW n
  PROVE  n \in CodePointField <=> n \in Nat /\ n < 2097152
<1>1. code_point_limit \in Nat
  BY SMT DEF code_point_limit
<1>2. n \in CodePointField <=> n \in Nat /\ n < code_point_limit
  BY <1>1, SMT DEF CodePointField
<1>3. code_point_limit = 2097152
  BY SMT DEF code_point_limit
<1>. QED
  BY <1>2, <1>3, SMT

\* The first part of utf8d_ gives every byte one of twelve classes, and the
\* continuation bytes three of their own.
LEMMA ClassOfByte ==
  ASSUME NEW b \in Byte
  PROVE  /\ class(b) \in 0 .. 11
         /\ class(b) \in any_tail <=> b \in \h80 .. \hBF
         /\ class(b) = 1 <=> b \in \h80 .. \h8F
         /\ class(b) = 9 <=> b \in \h90 .. \h9F
         /\ class(b) = 7 <=> b \in \hA0 .. \hBF
<1>1. class(b) \in 0 .. 11
  BY DEF class, Byte
<1>2. class(b) = 1 <=> b \in \h80 .. \h8F
  BY DEF class, Byte, two_byte_leads
<1>3. class(b) = 9 <=> b \in \h90 .. \h9F
  BY DEF class, Byte, two_byte_leads
<1>4. class(b) = 7 <=> b \in \hA0 .. \hBF
  BY DEF class, Byte, two_byte_leads
<1>. QED
  BY <1>1, <1>2, <1>3, <1>4 DEF any_tail, Byte

\* The classes of the lead bytes of utf8d_.
LEMMA LeadClass ==
  ASSUME NEW b \in Byte
  PROVE  /\ class(b) = 0 <=> b \in \h00 .. \h7F
         /\ class(b) = 2 <=> b \in \hC2 .. \hDF
         /\ class(b) = 3 <=> b \in (\hE1 .. \hEF) \ {\hED}
         /\ class(b) = 4 <=> b = \hED
         /\ class(b) = 10 <=> b = \hE0
         /\ class(b) = 6 <=> b \in \hF1 .. \hF3
         /\ class(b) = 5 <=> b = \hF4
         /\ class(b) = 11 <=> b = \hF0
<1>1. class(b) = 0 <=> b \in \h00 .. \h7F
  BY DEF class, Byte, two_byte_leads
<1>2. class(b) = 2 <=> b \in \hC2 .. \hDF
  BY DEF class, Byte, two_byte_leads
<1>3. class(b) = 3 <=> b \in (\hE1 .. \hEF) \ {\hED}
  BY DEF class, Byte, two_byte_leads
<1>4. class(b) = 4 <=> b = \hED
  BY DEF class, Byte, two_byte_leads
<1>5. class(b) = 10 <=> b = \hE0
  BY DEF class, Byte, two_byte_leads
<1>6. class(b) = 6 <=> b \in \hF1 .. \hF3
  BY DEF class, Byte, two_byte_leads
<1>7. class(b) = 5 <=> b = \hF4
  BY DEF class, Byte, two_byte_leads
<1>8. class(b) = 11 <=> b = \hF0
  BY DEF class, Byte, two_byte_leads
<1>. QED
  BY <1>1, <1>2, <1>3, <1>4, <1>5, <1>6, <1>7, <1>8

\* The row of utf8d_ for the state between two encodings.
LEMMA RowOfAccept ==
  ASSUME NEW type \in 0 .. 11
  PROVE  transition(accept, type) =
           IF type = 0 THEN accept
           ELSE IF type = 2 THEN tail1
           ELSE IF type = 3 THEN tail2
           ELSE IF type = 10 THEN afterE0
           ELSE IF type = 4 THEN afterED
           ELSE IF type = 11 THEN afterF0
           ELSE IF type = 6 THEN tail3
           ELSE IF type = 5 THEN afterF4
           ELSE reject
  BY DEF transition, accept, tail1, tail2, tail3, afterE0, afterED, afterF0, afterF4

\* The rows of utf8d_ for the states within an encoding, and after end_cp.
LEMMA RowsOfTails ==
  ASSUME NEW type \in 0 .. 11
  PROVE  /\ transition(tail1, type) = IF type \in any_tail THEN accept ELSE reject
         /\ transition(tail2, type) = IF type \in any_tail THEN tail1 ELSE reject
         /\ transition(tail3, type) = IF type \in any_tail THEN tail2 ELSE reject
         /\ transition(afterE0, type) = IF type \in E0_tail THEN tail1 ELSE reject
         /\ transition(afterED, type) = IF type \in ED_tail THEN tail1 ELSE reject
         /\ transition(afterF0, type) = IF type \in F0_tail THEN tail2 ELSE reject
         /\ transition(afterF4, type) = IF type \in F4_tail THEN tail2 ELSE reject
         /\ transition(reject, type) = reject
<1>. USE DEF accept, reject, tail1, tail2, tail3, afterE0, afterED, afterF0, afterF4
<1>1. transition(tail1, type) = IF type \in any_tail THEN accept ELSE reject
  BY DEF transition
<1>2. transition(tail2, type) = IF type \in any_tail THEN tail1 ELSE reject
  BY DEF transition
<1>3. transition(tail3, type) = IF type \in any_tail THEN tail2 ELSE reject
  BY DEF transition
<1>4. transition(afterE0, type) = IF type \in E0_tail THEN tail1 ELSE reject
  BY DEF transition
<1>5. transition(afterED, type) = IF type \in ED_tail THEN tail1 ELSE reject
  BY DEF transition
<1>6. transition(afterF0, type) = IF type \in F0_tail THEN tail2 ELSE reject
  BY DEF transition
<1>7. transition(afterF4, type) = IF type \in F4_tail THEN tail2 ELSE reject
  BY DEF transition
<1>8. transition(reject, type) = reject
  BY DEF transition
<1>. QED
  BY <1>1, <1>2, <1>3, <1>4, <1>5, <1>6, <1>7, <1>8

\* operator() shifts the six payload bits of a byte into code_point_; below 2^15
\* none is truncated.
LEMMA ShiftIn ==
  ASSUME NEW t \in T8_32, NEW b \in Byte, t.state # accept
  PROVE  /\ shifted(t, b) \in CodePointField
         /\ b % 64 \in Nat /\ b % 64 <= 63
         /\ b \in \h80 .. \hBF => b % 64 = b - \h80
         /\ t.code_point <= 32767 => shifted(t, b) = 64 * t.code_point + (b % 64)
<1>1. shifted(t, b) = (64 * t.code_point + (b % 64)) % code_point_limit
  BY DEF shifted
<1>2. b % 64 \in Nat /\ b % 64 <= 63 /\ (b \in \h80 .. \hBF => b % 64 = b - \h80)
  BY ByteRange
<1>3. t.code_point \in Nat
  BY CodePointFieldRange, SMT DEF T8_32
<1>4. ASSUME t.code_point <= 32767
      PROVE  shifted(t, b) = 64 * t.code_point + (b % 64)
  <2>. DEFINE value == 64 * t.code_point + (b % 64)
  <2>1. value \in Nat /\ value < 2097152
    BY <1>2, <1>3, <1>4, SMT
  <2>. HIDE DEF value
  <2>3. value % 2097152 = value
    BY <2>1, SMT
  <2>. QED
    BY <2>3, <1>1, SMT DEF value, code_point_limit
<1>5. shifted(t, b) \in CodePointField
  BY <1>1, <1>2, <1>3, CodePointFieldRange, SMT DEF code_point_limit
<1>. QED
  BY <1>2, <1>4, <1>5

\* The shift by the class removes the marker bits of a lead byte, and no payload.
LEMMA LeadValue ==
  ASSUME NEW b \in Byte
  PROVE  /\ lead_payload(class(b), b) \in Nat /\ lead_payload(class(b), b) <= 255
         /\ class(b) = 0 => lead_payload(class(b), b) = b
         /\ class(b) = 2 => lead_payload(class(b), b) = b - \hC0
         /\ class(b) = 3 => lead_payload(class(b), b) = b - \hE0
         /\ class(b) = 4 => lead_payload(class(b), b) = b - \hE0
         /\ class(b) \in {5, 6} => lead_payload(class(b), b) = b - \hF0
         /\ class(b) \in {10, 11} => lead_payload(class(b), b) = 0
<1>1. ASSUME NEW type \in 0 .. 11
      PROVE  lead_payload(type, b) \in Nat /\ lead_payload(type, b) <= 255
  <2>1. /\ b % 128 \in Nat /\ b % 128 <= 255
        /\ b % 64 \in Nat /\ b % 64 <= 255
        /\ b % 32 \in Nat /\ b % 32 <= 255
    BY ByteRange
  <2>2. /\ b % 16 \in Nat /\ b % 16 <= 255
        /\ b % 8 \in Nat /\ b % 8 <= 255
        /\ b % 4 \in Nat /\ b % 4 <= 255
        /\ b % 2 \in Nat /\ b % 2 <= 255
    BY ByteRange
  <2>3. \/ lead_payload(type, b) \in {0, b, b % 128, b % 64, b % 32, b % 16}
        \/ lead_payload(type, b) \in {b % 8, b % 4, b % 2}
    BY DEF lead_payload
  <2>. QED
    BY <2>1, <2>2, <2>3, ByteRange
<1>2. lead_payload(0, b) = b /\ lead_payload(10, b) = 0 /\ lead_payload(11, b) = 0
  BY DEF lead_payload
<1>3. lead_payload(2, b) = b % 64 /\ lead_payload(3, b) = b % 32 /\ lead_payload(4, b) = b % 16
  BY DEF lead_payload
<1>4. lead_payload(5, b) = b % 8 /\ lead_payload(6, b) = b % 4
  BY DEF lead_payload
<1>. QED
  BY <1>1, <1>2, <1>3, <1>4, LeadClass, ClassOfByte, ByteRange

\* One step of the table, for a value its state may hold: the next state may hold
\* the next value, and a value that is accepted is a scalar value.
LEMMA NextValue ==
  ASSUME NEW t \in T8_32, MayHold(t.state, t.code_point), NEW b \in Byte
  PROVE  /\ shifted(t, b) \in CodePointField
         /\ transition(t.state, class(b)) = accept => IsScalar(shifted(t, b))
         /\ transition(t.state, class(b)) \notin {accept, reject}
              => MayHold(transition(t.state, class(b)), shifted(t, b))
<1>. USE DEF accept, reject, tail1, tail2, tail3, afterE0, afterED, afterF0, afterF4
<1>a. class(b) \in 0 .. 11
  BY ClassOfByte
<1>b. t.code_point \in Nat /\ t.code_point < 2097152
  BY CodePointFieldRange, SMT DEF T8_32
<1>1. CASE t.state = accept
  <2>1. shifted(t, b) = lead_payload(class(b), b)
    BY <1>1 DEF shifted
  <2>2. shifted(t, b) \in CodePointField
    BY <2>1, LeadValue, CodePointFieldRange, SMT
  <2>3. transition(t.state, class(b)) = accept => IsScalar(shifted(t, b))
    BY <1>1, <1>a, <2>1, RowOfAccept, LeadClass, LeadValue, ScalarRange, SMT
  <2>4. transition(t.state, class(b)) \notin {accept, reject}
          => MayHold(transition(t.state, class(b)), shifted(t, b))
    BY <1>1, <1>a, <2>1, RowOfAccept, LeadClass, LeadValue DEF MayHold
  <2>. QED
    BY <2>2, <2>3, <2>4
<1>2. CASE t.state = tail1
  BY <1>2, <1>a, <1>b, ShiftIn, RowsOfTails, ClassOfByte, ScalarRange, SMT
     DEF MayHold
<1>3. CASE t.state = tail2
  BY <1>3, <1>a, <1>b, ShiftIn, RowsOfTails, ClassOfByte, SMT DEF MayHold
<1>4. CASE t.state = tail3
  BY <1>4, <1>a, <1>b, ShiftIn, RowsOfTails, ClassOfByte, SMT DEF MayHold
<1>5. CASE t.state = afterE0
  BY <1>5, <1>a, <1>b, ShiftIn, RowsOfTails, ClassOfByte, SMT DEF MayHold, E0_tail
<1>6. CASE t.state = afterED
  BY <1>6, <1>a, <1>b, ShiftIn, RowsOfTails, ClassOfByte, SMT DEF MayHold, ED_tail
<1>7. CASE t.state = afterF0
  BY <1>7, <1>a, <1>b, ShiftIn, RowsOfTails, ClassOfByte, SMT DEF MayHold, F0_tail
<1>8. CASE t.state = afterF4
  BY <1>8, <1>a, <1>b, ShiftIn, RowsOfTails, ClassOfByte, SMT DEF MayHold, F4_tail
<1>9. CASE t.state = reject
  BY <1>9, <1>a, <1>b, ShiftIn, RowsOfTails, SMT DEF MayHold
<1>. QED
  BY <1>1, <1>2, <1>3, <1>4, <1>5, <1>6, <1>7, <1>8, <1>9 DEF T8_32, State

-----------------------------------------------------------------------------
\* The ten bits of high_, as an inequality.
LEMMA HighRange == ASSUME NEW h PROVE h \in HighField <=> h \in Int /\ 0 <= h /\ h <= 1023
<1>1. high_limit \in Int
  BY SMT DEF high_limit
<1>2. h \in HighField <=> h \in Int /\ 0 <= h /\ h <= high_limit - 1
  BY <1>1, SMT DEF HighField
<1>. QED
  BY <1>2, SMT DEF high_limit

\* The fields of an object, high_ as an inequality.
LEMMA Fields ==
  ASSUME NEW t \in T16_32
  PROVE  /\ t.high \in Int /\ 0 <= t.high /\ t.high <= 1023
         /\ t.has_high \in BOOLEAN /\ t.well_formed \in BOOLEAN
  BY HighRange, SMT DEF T16_32

\* The bit-field holds what adjusted_high makes of a high surrogate.
LEMMA AdjustedInField ==
  ASSUME NEW u \in Int, is_high_surrogate(u)
  PROVE  u - 55296 \in HighField
  BY SurrogateRange, HighRange, SMT

\* An object that has forgotten its high surrogate.
LEMMA Released ==
  ASSUME NEW t \in T16_32
  PROVE  /\ released(t) \in T16_32
         /\ released(t).high = 0
         /\ ~ released(t).has_high
         /\ released(t).well_formed = t.well_formed
<1>. 0 \in HighField
  BY HighRange, SMT
<1>1. released(t) \in T16_32
  BY DEF released, T16_32
<1>2. released(t).high = 0
  BY DEF released, T16_32
<1>3. ~ released(t).has_high
  BY DEF released, T16_32
<1>4. released(t).well_formed = t.well_formed
  BY DEF released, T16_32
<1>. QED
  BY <1>1, <1>2, <1>3, <1>4

\* An object that has seen malformed input.
LEMMA IllFormed ==
  ASSUME NEW t \in T16_32
  PROVE  /\ ill_formed(t) \in T16_32
         /\ ill_formed(t).high = t.high
         /\ ill_formed(t).has_high = t.has_high
         /\ ~ ill_formed(t).well_formed
<1>1. ill_formed(t) \in T16_32
  BY DEF ill_formed, T16_32
<1>2. ill_formed(t).high = t.high
  BY DEF ill_formed, T16_32
<1>3. ill_formed(t).has_high = t.has_high
  BY DEF ill_formed, T16_32
<1>4. ~ ill_formed(t).well_formed
  BY DEF ill_formed, T16_32
<1>. QED
  BY <1>1, <1>2, <1>3, <1>4

\* An object that remembers a high surrogate.
LEMMA Holding ==
  ASSUME NEW t \in T16_32, NEW u \in Int, is_high_surrogate(u)
  PROVE  /\ holding(t, u) \in T16_32
         /\ holding(t, u).high = u - 55296
         /\ holding(t, u).has_high
         /\ holding(t, u).well_formed = t.well_formed
<1>1. adjusted_high(u) = u - 55296
  BY SMT DEF adjusted_high, first_high_surrogate
<1>. adjusted_high(u) \in HighField
  BY <1>1, AdjustedInField
<1>2. holding(t, u) \in T16_32
  BY DEF holding, T16_32
<1>3. holding(t, u).high = adjusted_high(u)
  BY DEF holding, T16_32
<1>4. holding(t, u).has_high
  BY DEF holding, T16_32
<1>5. holding(t, u).well_formed = t.well_formed
  BY DEF holding, T16_32
<1>. QED
  BY <1>1, <1>2, <1>3, <1>4, <1>5

\* A pair of surrogates combines to a code point of the supplementary planes.
LEMMA CombinedRange ==
  ASSUME NEW h \in Int, 0 <= h, h <= 1023, NEW l \in Int, is_low_surrogate(l)
  PROVE  /\ combined(h, l) \in Int
         /\ combined(h, l) = 1024 * h + l + 9216
         /\ 65536 <= combined(h, l) /\ combined(h, l) <= 1114111
<1>1. combined(h, l) = 1024 * h + l + 9216
  BY SMT DEF combined, first_low_surrogate
<1>. QED
  BY <1>1, SurrogateRange, SMT

\* What a call may write.
LEMMA Written ==
  ASSUME NEW x, IsScalar(x), NEW y, IsScalar(y), NEW o, o \in {<<>>, <<x>>, <<x, y>>}
  PROVE  /\ o \in Seq(CodePoint) /\ Len(o) <= 2
         /\ \A i \in DOMAIN o : IsScalar(o[i])
<1>1. x \in CodePoint /\ y \in CodePoint
  BY DEF IsScalar
<1>2. CASE o = <<>>
  BY <1>2, SMT
<1>3. CASE o = <<x>>
  <2>1. Len(o) = 1 /\ o[1] = x /\ DOMAIN o = {1}
    BY <1>3, SMT
  <2>. QED
    BY <1>1, <1>3, <2>1, SMT
<1>4. CASE o = <<x, y>>
  <2>1. Len(o) = 2 /\ o[1] = x /\ o[2] = y /\ DOMAIN o = {1, 2}
    BY <1>4, SMT
  <2>. QED
    BY <1>1, <1>4, <2>1, SMT
<1>. QED
  BY <1>2, <1>3, <1>4

\* What operator() does when no high surrogate is waiting.
LEMMA WithoutHigh ==
  ASSUME NEW t \in T16_32, ~ t.has_high, NEW u \in Int
  PROVE  \/ /\ is_high_surrogate(u)
            /\ t16_32_call(t, u) = Result(holding(t, u), <<>>)
         \/ /\ is_low_surrogate(u)
            /\ t16_32_call(t, u) = Result(ill_formed(t), <<replacement_char>>)
         \/ /\ ~ is_surrogate(u)
            /\ t16_32_call(t, u) = Result(t, <<u>>)
<1>1. t16_32_call(t, u) = call_without_high(t, u)
  BY DEF t16_32_call
<1>2. CASE is_high_surrogate(u)
  BY <1>1, <1>2, SurrogateRange, SMT DEF call_without_high
<1>3. CASE is_low_surrogate(u)
  <2>1. ~ is_high_surrogate(u)
    BY <1>3, SurrogateRange, SMT
  <2>. QED
    BY <1>1, <1>3, <2>1 DEF call_without_high, lone_low
<1>4. CASE ~ is_surrogate(u)
  BY <1>1, <1>4 DEF call_without_high, passed_through, is_surrogate
<1>. QED
  BY <1>2, <1>3, <1>4 DEF is_surrogate

\* What it does after a high surrogate.
LEMMA WithHigh ==
  ASSUME NEW t \in T16_32, t.has_high, NEW u \in Int
  PROVE  \/ /\ is_low_surrogate(u)
            /\ t16_32_call(t, u) = Result(released(t), <<combined(t.high, u)>>)
         \/ /\ is_high_surrogate(u)
            /\ t16_32_call(t, u) = Result(ill_formed(holding(t, u)), <<replacement_char>>)
         \/ /\ ~ is_surrogate(u)
            /\ t16_32_call(t, u) = Result(ill_formed(released(t)), <<replacement_char, u>>)
<1>1. t16_32_call(t, u) = call_with_high(t, u)
  BY DEF t16_32_call
<1>2. CASE is_low_surrogate(u)
  BY <1>1, <1>2 DEF call_with_high
<1>3. CASE is_high_surrogate(u)
  <2>1. ~ is_low_surrogate(u)
    BY <1>3, SurrogateRange, SMT
  <2>. QED
    BY <1>1, <1>3, <2>1 DEF call_with_high
<1>4. CASE ~ is_surrogate(u)
  BY <1>1, <1>4 DEF call_with_high, replaced_before, is_surrogate
<1>. QED
  BY <1>2, <1>3, <1>4 DEF is_surrogate

\* A code unit that is not a surrogate is a scalar value.
LEMMA UnitIsScalar ==
  ASSUME NEW u \in CodeUnit16
  PROVE  u \in Int /\ (IsScalar(u) <=> ~ is_surrogate(u))
  BY UnitRange, ScalarRange, SurrogateRange, SMT DEF is_surrogate
-----------------------------------------------------------------------------
(***************************************************************************)
(* The decoders behind the one interface: the objects a program may hold,  *)
(* and what a call may write.                                              *)
(***************************************************************************)
CodeUnit(encoding) ==
  CASE encoding = 8 -> Byte [] encoding = 16 -> CodeUnit16 [] encoding = 32 -> Nat

Decoder(encoding) ==
  CASE encoding = 8  -> {d \in T8_32 : MayHold(d.state, d.code_point)}
    [] encoding = 16 -> T16_32
    [] encoding = 32 -> T32_X

Scalar == {n \in CodePoint : IsScalar(n)}

\* Only the UTF-16 decoder may write two code points at once.
MayWrite(encoding, units) ==
  \/ units = <<>>
  \/ \E x \in Scalar : units = <<x>>
  \/ encoding = 16 /\ \E x \in Scalar \intersect CodeUnit16 : units = <<replacement_char, x>>

\* The flag of d is left alone, or cleared together with a U+FFFD.
Reports(d, r) ==
  \/ r.coder.well_formed = d.well_formed
  \/ ~ r.coder.well_formed /\ r.out # <<>> /\ r.out[1] = replacement_char

\* What every call of a decoder returns.
Decodes(encoding, d, r) ==
  /\ r = Result(r.coder, r.out)
  /\ r.coder \in Decoder(encoding)
  /\ MayWrite(encoding, r.out)
  /\ Reports(d, r)

\* Scalar values are integers, and code points.
LEMMA ScalarIsInt ==
  ASSUME NEW x \in Scalar
  PROVE  x \in Int /\ x \in CodePoint /\ IsScalar(x) /\ x \in Nat /\ x <= 1114111
  BY ScalarRange, SMT DEF Scalar

\* A result has the fields it was made of.
LEMMA ResultFields ==
  ASSUME NEW c, NEW o
  PROVE  /\ Result(c, o).coder = c /\ Result(c, o).out = o
         /\ Result(c, o) = Result(Result(c, o).coder, Result(c, o).out)
  BY DEF Result

\* A scalar value is a member of Scalar; U+FFFD is one.
LEMMA ScalarMember ==
  /\ \A x : IsScalar(x) => x \in Scalar
  /\ replacement_char \in Scalar
  BY ReplacementIsScalar DEF Scalar, IsScalar

\* A decoder object as it is constructed.
LEMMA ConstructedDecoder ==
  ASSUME NEW wf \in BOOLEAN
  PROVE  /\ t8_32(wf) \in Decoder(8) /\ t16_32(wf) \in Decoder(16) /\ t32_x(wf) \in Decoder(32)
         /\ t8_32(wf).well_formed = wf /\ t16_32(wf).well_formed = wf /\ t32_x(wf).well_formed = wf
         /\ t8_32(wf).state = accept /\ ~ t16_32(wf).has_high
<1>1. t8_32(wf) \in T8_32
  BY CodePointFieldRange, SMT DEF t8_32, T8_32, State
<1>2. MayHold(t8_32(wf).state, t8_32(wf).code_point)
  BY SMT DEF t8_32, MayHold, accept, code_point_limit
<1>3. t16_32(wf) \in T16_32
  BY HighRange, SMT DEF t16_32, T16_32
<1>4. t32_x(wf) \in T32_X
  BY DEF t32_x, T32_X
<1>5. t8_32(wf).well_formed = wf /\ t8_32(wf).state = accept
  BY DEF t8_32
<1>6. t16_32(wf).well_formed = wf /\ t16_32(wf).has_high = FALSE
  BY DEF t16_32
<1>7. t32_x(wf).well_formed = wf
  BY DEF t32_x
<1>. QED
  BY <1>1, <1>2, <1>3, <1>4, <1>5, <1>6, <1>7 DEF Decoder

\* A call that writes nothing.
LEMMA DecodesSilently ==
  ASSUME NEW e, NEW d, NEW c \in Decoder(e), c.well_formed = d.well_formed
  PROVE  Decodes(e, d, Result(c, <<>>))
  BY ResultFields DEF Decodes, MayWrite, Reports

\* A call that writes one scalar value.
LEMMA DecodesOne ==
  ASSUME NEW e, NEW d, NEW c \in Decoder(e), c.well_formed = d.well_formed, NEW x \in Scalar
  PROVE  Decodes(e, d, Result(c, <<x>>))
<1>1. MayWrite(e, <<x>>)
  BY DEF MayWrite
<1>. QED
  BY <1>1, ResultFields DEF Decodes, Reports

\* A call that replaces what it has read.
LEMMA DecodesReplaced ==
  ASSUME NEW e, NEW d, NEW c \in Decoder(e), ~ c.well_formed
  PROVE  Decodes(e, d, Result(c, <<replacement_char>>))
<1>1. MayWrite(e, <<replacement_char>>)
  BY ScalarMember DEF MayWrite
<1>2. <<replacement_char>> # <<>> /\ <<replacement_char>>[1] = replacement_char
  OBVIOUS
<1>. QED
  BY <1>1, <1>2, ResultFields DEF Decodes, Reports

\* Assigning to two fields of a t8_32 object.
LEMMA Assigned8 ==
  ASSUME NEW t \in T8_32, NEW cp, NEW s, NEW c, c = [t EXCEPT !.code_point = cp, !.state = s]
  PROVE  c = [code_point |-> cp, well_formed |-> t.well_formed, state |-> s]
  BY DEF T8_32

\* operator() of t8_32, for the three kinds of entry of the table.
LEMMA Call8 ==
  ASSUME NEW t \in T8_32, NEW b \in Byte
  PROVE  LET cp == shifted(t, b)
             s == transition(t.state, class(b))
         IN  /\ s = accept =>
                  t8_32_call(t, b) =
                    Result([code_point |-> cp, well_formed |-> t.well_formed, state |-> accept],
                           <<cp>>)
             /\ s = reject =>
                  t8_32_call(t, b) =
                    Result([code_point |-> cp, well_formed |-> FALSE, state |-> accept],
                           <<replacement_char>>)
             /\ s \notin {accept, reject} =>
                  t8_32_call(t, b) =
                    Result([code_point |-> cp, well_formed |-> t.well_formed, state |-> s], <<>>)
<1>. DEFINE cp == shifted(t, b)
            s == transition(t.state, class(b))
<1>1. reject # accept
  BY DEF accept, reject
<1>2. CASE s = accept
  <2>1. t8_32_call(t, b) = accepted(t, cp)
    BY <1>1, <1>2 DEF t8_32_call
  <2>2. [t EXCEPT !.code_point = cp, !.state = accept]
          = [code_point |-> cp, well_formed |-> t.well_formed, state |-> accept]
    BY Assigned8
  <2>. QED
    BY <1>1, <1>2, <2>1, <2>2 DEF accepted
<1>3. CASE s = reject
  <2>1. t8_32_call(t, b) = rejected(cp)
    BY <1>1, <1>3 DEF t8_32_call
  <2>2. rejected(cp) = Result([code_point |-> cp, well_formed |-> FALSE, state |-> accept],
                              <<replacement_char>>)
    BY DEF rejected, rejected_with
  <2>. QED
    BY <1>1, <1>3, <2>1, <2>2
<1>4. CASE s \notin {accept, reject}
  <2>1. t8_32_call(t, b) = Result([t EXCEPT !.code_point = cp, !.state = s], <<>>)
    BY <1>4 DEF t8_32_call
  <2>2. [t EXCEPT !.code_point = cp, !.state = s]
          = [code_point |-> cp, well_formed |-> t.well_formed, state |-> s]
    BY Assigned8
  <2>. QED
    BY <1>4, <2>1, <2>2
<1>. QED
  BY <1>2, <1>3, <1>4

\* Calls of the UTF-8 decoder.
LEMMA Decodes8 ==
  ASSUME NEW d \in Decoder(8)
  PROVE  /\ \A b \in Byte : Decodes(8, d, t8_32_call(d, b))
         /\ Decodes(8, d, t8_32_end_cp(d))
<1>1. d \in T8_32 /\ MayHold(d.state, d.code_point)
  BY DEF Decoder
<1>2. ASSUME NEW b \in Byte PROVE Decodes(8, d, t8_32_call(d, b))
  <2>. DEFINE cp == shifted(d, b)
              s == transition(d.state, class(b))
              r == t8_32_call(d, b)
  <2>1. /\ cp \in CodePointField
        /\ s = accept => IsScalar(cp)
        /\ s \notin {accept, reject} => MayHold(s, cp)
    BY <1>1, NextValue
  <2>2. s \in State
    BY <1>1, ClassOfByte, RowOfAccept, RowsOfTails DEF T8_32, State
  <2>3. d.well_formed \in BOOLEAN
    BY <1>1 DEF T8_32
  <2>4. MayHold(accept, cp)
    BY <2>1, CodePointFieldRange, SMT DEF MayHold, code_point_limit
  <2>5. CASE s = accept
    <3>. DEFINE c == [code_point |-> cp, well_formed |-> d.well_formed, state |-> accept]
    <3>1. r = Result(c, <<cp>>)
      BY <1>1, <2>5, Call8
    <3>. HIDE DEF r, cp
    <3>2. c \in Decoder(8)
      BY <2>1, <2>3, <2>4 DEF Decoder, T8_32, State
    <3>3. cp \in Scalar
      BY <2>1, <2>5, ScalarMember
    <3>4. c.well_formed = d.well_formed
      OBVIOUS
    <3>. HIDE DEF c
    <3>. QED
      BY <3>1, <3>2, <3>3, <3>4, DecodesOne DEF r
  <2>6. CASE s = reject
    <3>. DEFINE c == [code_point |-> cp, well_formed |-> FALSE, state |-> accept]
    <3>1. r = Result(c, <<replacement_char>>)
      BY <1>1, <2>6, Call8
    <3>. HIDE DEF r, cp
    <3>2. c \in Decoder(8)
      BY <2>1, <2>4 DEF Decoder, T8_32, State
    <3>3. ~ c.well_formed
      OBVIOUS
    <3>. HIDE DEF c
    <3>. QED
      BY <3>1, <3>2, <3>3, DecodesReplaced DEF r
  <2>7. CASE s \notin {accept, reject}
    <3>. DEFINE c == [code_point |-> cp, well_formed |-> d.well_formed, state |-> s]
    <3>1. r = Result(c, <<>>)
      BY <1>1, <2>7, Call8
    <3>. HIDE DEF r, cp, s
    <3>2. c \in Decoder(8)
      BY <2>1, <2>2, <2>3, <2>7 DEF Decoder, T8_32
    <3>3. c.well_formed = d.well_formed
      OBVIOUS
    <3>. HIDE DEF c
    <3>. QED
      BY <3>1, <3>2, <3>3, DecodesSilently DEF r
  <2>. QED
    BY <2>5, <2>6, <2>7
<1>3. Decodes(8, d, t8_32_end_cp(d))
  <2>. DEFINE c == [d EXCEPT !.state = reject, !.well_formed = FALSE]
  <2>1. CASE d.state # accept
    <3>1. t8_32_end_cp(d) = Result(c, <<replacement_char>>)
      BY <2>1 DEF t8_32_end_cp
    <3>2. c \in T8_32 /\ c.state = reject /\ c.code_point = d.code_point /\ ~ c.well_formed
      BY <1>1 DEF T8_32, State
    <3>3. d.code_point \in Nat
      BY <1>1, CodePointFieldRange, SMT DEF T8_32
    <3>4. MayHold(c.state, c.code_point)
      BY <1>1, <2>1, <3>2, <3>3, SMT DEF MayHold, accept, reject
    <3>. HIDE DEF c
    <3>. QED
      BY <3>1, <3>2, <3>4, ScalarMember, ResultFields DEF Decodes, MayWrite, Reports, Decoder
  <2>2. CASE d.state = accept
    <3>1. t8_32_end_cp(d) = Result(d, <<>>)
      BY <2>2 DEF t8_32_end_cp
    <3>. QED
      BY <3>1, ResultFields DEF Decodes, MayWrite, Reports
  <2>. QED
    BY <2>1, <2>2
<1>. QED
  BY <1>2, <1>3

\* Calls of the UTF-16 decoder.
LEMMA Decodes16 ==
  ASSUME NEW d \in Decoder(16)
  PROVE  /\ \A u \in CodeUnit16 : Decodes(16, d, t16_32_call(d, u))
         /\ Decodes(16, d, t16_32_end_cp(d))
<1>1. d \in T16_32
  BY DEF Decoder
<1>. DEFINE c == ill_formed(released(d))
<1>2. c \in T16_32 /\ ~ c.well_formed
  BY <1>1, Released, IllFormed
<1>3. ASSUME NEW u \in CodeUnit16 PROVE Decodes(16, d, t16_32_call(d, u))
  <2>1. u \in Int /\ (~ is_surrogate(u) => u \in Scalar)
    BY UnitIsScalar, ScalarMember
  <2>2. CASE ~ d.has_high
    <3>1. CASE is_high_surrogate(u) /\ t16_32_call(d, u) = Result(holding(d, u), <<>>)
      BY <1>1, <2>1, <3>1, Holding, ResultFields DEF Decodes, MayWrite, Reports, Decoder
    <3>2. CASE t16_32_call(d, u) = Result(ill_formed(d), <<replacement_char>>)
      BY <1>1, <3>2, IllFormed, ScalarMember, ResultFields DEF Decodes, MayWrite, Reports, Decoder
    <3>3. CASE ~ is_surrogate(u) /\ t16_32_call(d, u) = Result(d, <<u>>)
      BY <2>1, <3>3, ResultFields DEF Decodes, MayWrite, Reports
    <3>. QED
      BY <1>1, <2>1, <2>2, <3>1, <3>2, <3>3, WithoutHigh
  <2>3. CASE d.has_high
    <3>1. CASE /\ is_low_surrogate(u)
               /\ t16_32_call(d, u) = Result(released(d), <<combined(d.high, u)>>)
      <4>1. combined(d.high, u) \in Scalar
        BY <1>1, <2>1, <3>1, Fields, CombinedRange, ScalarRange, ScalarMember, SMT
      <4>. QED
        BY <1>1, <3>1, <4>1, Released, ResultFields DEF Decodes, MayWrite, Reports, Decoder
    <3>2. CASE /\ is_high_surrogate(u)
               /\ t16_32_call(d, u) = Result(ill_formed(holding(d, u)), <<replacement_char>>)
      <4>1. holding(d, u) \in T16_32
        BY <1>1, <2>1, <3>2, Holding
      <4>2. ill_formed(holding(d, u)) \in T16_32 /\ ~ ill_formed(holding(d, u)).well_formed
        BY <4>1, IllFormed
      <4>. QED
        BY <3>2, <4>2, ScalarMember, ResultFields DEF Decodes, MayWrite, Reports, Decoder
    <3>3. CASE ~ is_surrogate(u) /\ t16_32_call(d, u) = Result(c, <<replacement_char, u>>)
      <4>1. u \in Scalar \intersect CodeUnit16
        BY <2>1, <3>3
      <4>. HIDE DEF c
      <4>. QED
        BY <1>2, <3>3, <4>1, ResultFields DEF Decodes, MayWrite, Reports, Decoder
    <3>. QED
      BY <1>1, <2>1, <2>3, <3>1, <3>2, <3>3, WithHigh
  <2>. QED
    BY <2>2, <2>3
<1>4. Decodes(16, d, t16_32_end_cp(d))
  <2>1. CASE d.has_high
    <3>1. t16_32_end_cp(d) = Result(c, <<replacement_char>>)
      BY <2>1 DEF t16_32_end_cp
    <3>. HIDE DEF c
    <3>. QED
      BY <1>2, <3>1, ScalarMember, ResultFields DEF Decodes, MayWrite, Reports, Decoder
  <2>2. CASE ~ d.has_high
    <3>1. t16_32_end_cp(d) = Result(d, <<>>)
      BY <2>2 DEF t16_32_end_cp
    <3>. QED
      BY <3>1, ResultFields DEF Decodes, MayWrite, Reports
  <2>. QED
    BY <2>1, <2>2
<1>. QED
  BY <1>3, <1>4

\* Calls of the transcoders that read UTF-32, when they decode.
LEMMA Decodes32 ==
  ASSUME NEW d \in Decoder(32)
  PROVE  /\ \A u : Decodes(32, d, t32_x_call(32, d, u))
         /\ Decodes(32, d, Result(d, <<>>))
<1>1. d \in T32_X
  BY DEF Decoder
<1>2. ASSUME NEW u PROVE Decodes(32, d, t32_x_call(32, d, u))
  <2>1. CASE IsScalar(u)
    <3>1. t32_x_call(32, d, u) = Result(d, <<u>>)
      BY <2>1 DEF t32_x_call, encode
    <3>. QED
      BY <2>1, <3>1, ScalarMember, ResultFields DEF Decodes, MayWrite, Reports
  <2>2. CASE ~ IsScalar(u)
    <3>1. t32_x_call(32, d, u) = Result(t32_x(FALSE), <<replacement_char>>)
      BY <2>2 DEF t32_x_call, encode
    <3>2. t32_x(FALSE) \in Decoder(32) /\ ~ t32_x(FALSE).well_formed
      BY ConstructedDecoder
    <3>. QED
      BY <3>1, <3>2, DecodesReplaced
  <2>. QED
    BY <2>1, <2>2
<1>3. Decodes(32, d, Result(d, <<>>))
  BY ResultFields DEF Decodes, MayWrite, Reports
<1>. QED
  BY <1>2, <1>3

\* Calls of every decoder.
LEMMA DecoderDecodes ==
  ASSUME NEW e \in Encodings, NEW d \in Decoder(e)
  PROVE  /\ \A u \in CodeUnit(e) : Decodes(e, d, decoder_call(e, d, u))
         /\ Decodes(e, d, decoder_end_cp(e, d))
<1>1. CASE e = 8
  BY <1>1, Decodes8 DEF CodeUnit, decoder_call, decoder_end_cp
<1>2. CASE e = 16
  BY <1>2, Decodes16 DEF CodeUnit, decoder_call, decoder_end_cp
<1>3. CASE e = 32
  BY <1>3, Decodes32 DEF CodeUnit, decoder_call, decoder_end_cp
<1>. QED
  BY <1>1, <1>2, <1>3 DEF Encodings

-----------------------------------------------------------------------------
(***************************************************************************)
(* The encoders: what is written for one scalar value.                     *)
(***************************************************************************)
EncodedUnit(to) ==
  CASE to = 8 -> Byte [] to = 16 -> CodeUnit16 [] to = 32 -> CodePoint

\* The bytes t32_8 writes, as a lead byte and six bits for each that follows.
LEMMA Utf8Forms ==
  ASSUME NEW x \in Scalar
  PROVE  /\ x < 128 => utf8(x) = <<x>>
         /\ 128 <= x /\ x < 2048 => utf8(x) = <<192 + x \div 64, 128 + (x % 64)>>
         /\ 2048 <= x /\ x < 65536 =>
              utf8(x) = <<224 + x \div 4096, 128 + ((x \div 64) % 64), 128 + (x % 64)>>
         /\ 65536 <= x =>
              utf8(x) = <<240 + x \div 262144, 128 + ((x \div 4096) % 64),
                          128 + ((x \div 64) % 64), 128 + (x % 64)>>
<1>. x \in Nat
  BY ScalarIsInt, SMT
<1>1. \A n : tail_byte(n) = 128 + (n % 64)
  BY SMT DEF tail_byte
<1>2. x < 128 => utf8(x) = <<x>>
  BY SMT DEF utf8
<1>3. 128 <= x /\ x < 2048 => utf8(x) = write2(x)
  BY SMT DEF utf8
<1>4. 2048 <= x /\ x < 65536 => utf8(x) = write3(x)
  BY SMT DEF utf8
<1>5. 65536 <= x => utf8(x) = write4(x)
  BY SMT DEF utf8
<1>6. write2(x) = <<192 + x \div 64, 128 + (x % 64)>>
  BY <1>1, SMT DEF write2
<1>7. write3(x) = <<224 + x \div 4096, 128 + ((x \div 64) % 64), 128 + (x % 64)>>
  BY <1>1, SMT DEF write3
<1>8. write4(x) = <<240 + x \div 262144, 128 + ((x \div 4096) % 64),
                    128 + ((x \div 64) % 64), 128 + (x % 64)>>
  BY <1>1, SMT DEF write4
<1>. QED
  BY <1>2, <1>3, <1>4, <1>5, <1>6, <1>7, <1>8, SMT

\* Its pairs of surrogates, as the two halves of twenty bits.
LEMMA Utf16Forms ==
  ASSUME NEW x \in Scalar
  PROVE  /\ x <= 65535 => utf16(x) = <<x>>
         /\ 65536 <= x => utf16(x) = <<55232 + x \div 1024, 56320 + (x % 1024)>>
<1>. x \in Nat
  BY ScalarIsInt, SMT
<1>1. x <= 65535 => utf16(x) = <<x>>
  BY SMT DEF utf16
<1>2. first_high_surrogate - 64 = 55232 /\ first_low_surrogate = 56320
  BY SMT DEF first_high_surrogate, first_low_surrogate
<1>3. 65536 <= x =>
        utf16(x) = <<(first_high_surrogate - 64) + x \div 1024, first_low_surrogate + (x % 1024)>>
  BY SMT DEF utf16
<1>. QED
  BY <1>1, <1>2, <1>3, SMT

\* The quotients and remainders by which a scalar value is taken apart.
LEMMA Parts ==
  ASSUME NEW x \in Nat, x <= 1114111
  PROVE  /\ x % 64 \in 0 .. 63 /\ x = 64 * (x \div 64) + (x % 64)
         /\ (x \div 64) % 64 \in 0 .. 63
         /\ x \div 64 = 64 * (x \div 4096) + ((x \div 64) % 64)
         /\ (x \div 4096) % 64 \in 0 .. 63
         /\ x \div 4096 = 64 * (x \div 262144) + ((x \div 4096) % 64)
         /\ x \div 64 \in 0 .. 17407 /\ x \div 4096 \in 0 .. 271 /\ x \div 262144 \in 0 .. 4
         /\ x % 1024 \in 0 .. 1023 /\ x \div 1024 \in 0 .. 1087
         /\ x = 1024 * (x \div 1024) + (x % 1024)
<1>1. x % 64 \in 0 .. 63 /\ x = 64 * (x \div 64) + (x % 64) /\ x \div 64 \in 0 .. 17407
  BY SMT
<1>2. /\ x \div 4096 \in 0 .. 271 /\ (x \div 64) % 64 \in 0 .. 63
      /\ x \div 64 = 64 * (x \div 4096) + ((x \div 64) % 64)
  BY SMT
<1>3. /\ x \div 262144 \in 0 .. 4 /\ (x \div 4096) % 64 \in 0 .. 63
      /\ x \div 4096 = 64 * (x \div 262144) + ((x \div 4096) % 64)
  BY SMT
<1>4. /\ x % 1024 \in 0 .. 1023 /\ x \div 1024 \in 0 .. 1087
      /\ x = 1024 * (x \div 1024) + (x % 1024)
  BY SMT
<1>. QED
  BY <1>1, <1>2, <1>3, <1>4, SMT

\* What is written for a scalar value are code units of the encoding, as many as
\* its longest sequence has or less.
LEMMA EncodeType ==
  ASSUME NEW to \in Encodings, NEW x \in Scalar
  PROVE  /\ encode(to, x) \in Seq(EncodedUnit(to))
         /\ 1 <= Len(encode(to, x)) /\ Len(encode(to, x)) <= longest_sequence(to)
         /\ x <= 65535 /\ to = 8 => Len(encode(to, x)) <= 3
         /\ x <= 65535 /\ to = 16 => Len(encode(to, x)) = 1
<1>1. x \in Nat /\ x <= 1114111 /\ x \in CodePoint
  BY ScalarIsInt, SMT
<1>2. CASE to = 8
  <2>1. encode(to, x) = utf8(x) /\ EncodedUnit(to) = Byte /\ longest_sequence(to) = 4
    BY <1>2, SMT DEF encode, EncodedUnit, longest_sequence
  <2>2. CASE x < 128
    <3>1. utf8(x) = <<x>> /\ x \in Byte
      BY <1>1, <2>2, Utf8Forms, ByteRange, SMT
    <3>. QED
      BY <2>1, <3>1, <1>2, SMT
  <2>3. CASE 128 <= x /\ x < 2048
    <3>. DEFINE a == 192 + x \div 64
                b == 128 + (x % 64)
    <3>1. utf8(x) = <<a, b>>
      BY <2>3, Utf8Forms, SMT
    <3>2. x \div 64 \in 2 .. 31 /\ x % 64 \in 0 .. 63
      <4>1. x % 64 \in 0 .. 63 /\ x = 64 * (x \div 64) + (x % 64) /\ x \div 64 \in 0 .. 17407
        BY <1>1, Parts
      <4>. HIDE DEF a, b
      <4>. QED
        BY <1>1, <2>3, <4>1, SMT
    <3>3. a \in Byte /\ b \in Byte
      BY <3>2, ByteRange, SMT
    <3>. HIDE DEF a, b
    <3>. QED
      BY <2>1, <3>1, <3>3, <1>2, SMT
  <2>4. CASE 2048 <= x /\ x < 65536
    <3>. DEFINE a == 224 + x \div 4096
                b == 128 + ((x \div 64) % 64)
                c == 128 + (x % 64)
    <3>1. utf8(x) = <<a, b, c>>
      BY <2>4, Utf8Forms, SMT
    <3>2. x \div 4096 <= 15
      BY <1>1, <2>4, SMT
    <3>3. x % 64 \in 0 .. 63 /\ (x \div 64) % 64 \in 0 .. 63 /\ x \div 4096 \in 0 .. 271
      BY <1>1, SMT
    <3>4. a \in Byte /\ b \in Byte /\ c \in Byte
      BY <3>2, <3>3, ByteRange, SMT
    <3>. HIDE DEF a, b, c
    <3>. QED
      BY <2>1, <3>1, <3>4, <1>2, SMT
  <2>5. CASE 65536 <= x
    <3>. DEFINE a == 240 + x \div 262144
                b == 128 + ((x \div 4096) % 64)
                c == 128 + ((x \div 64) % 64)
                d == 128 + (x % 64)
    <3>1. utf8(x) = <<a, b, c, d>>
      BY <2>5, Utf8Forms, SMT
    <3>2. /\ x % 64 \in 0 .. 63 /\ (x \div 64) % 64 \in 0 .. 63
          /\ (x \div 4096) % 64 \in 0 .. 63 /\ x \div 262144 \in 0 .. 4
      BY <1>1, SMT
    <3>4. a \in Byte /\ b \in Byte /\ c \in Byte /\ d \in Byte
      BY <3>2, ByteRange, SMT
    <3>. HIDE DEF a, b, c, d
    <3>3. utf8(x) \in Seq(Byte) /\ Len(utf8(x)) = 4
      BY <3>1, <3>4, SMT
    <3>. QED
      BY <2>1, <2>5, <3>3, <1>1, SMT
  <2>. QED
    BY <1>1, <2>2, <2>3, <2>4, <2>5, SMT
<1>3. CASE to = 16
  <2>1. encode(to, x) = utf16(x) /\ EncodedUnit(to) = CodeUnit16 /\ longest_sequence(to) = 2
    BY <1>3, SMT DEF encode, EncodedUnit, longest_sequence
  <2>2. CASE x <= 65535
    <3>1. utf16(x) = <<x>> /\ x \in CodeUnit16
      BY <1>1, <2>2, Utf16Forms, UnitRange, SMT
    <3>. QED
      BY <2>1, <3>1, <1>3, SMT
  <2>3. CASE 65536 <= x
    <3>. DEFINE a == 55232 + x \div 1024
                b == 56320 + (x % 1024)
    <3>1. utf16(x) = <<a, b>>
      BY <2>3, Utf16Forms, SMT
    <3>2. x \div 1024 \in 0 .. 1087 /\ x % 1024 \in 0 .. 1023
      BY <1>1, SMT
    <3>3. a \in CodeUnit16
      BY <3>2, UnitRange, SMT
    <3>4. b \in CodeUnit16
      BY <3>2, UnitRange, SMT
    <3>. HIDE DEF a, b
    <3>5. utf16(x) \in Seq(CodeUnit16) /\ Len(utf16(x)) = 2
      BY <3>1, <3>3, <3>4, SMT
    <3>. QED
      BY <2>1, <2>3, <3>5, <1>1, SMT
  <2>. QED
    BY <1>1, <2>2, <2>3, SMT
<1>4. CASE to = 32
  <2>1. encode(to, x) = <<x>> /\ EncodedUnit(to) = CodePoint /\ longest_sequence(to) = 1
    BY <1>4, SMT DEF encode, EncodedUnit, longest_sequence
  <2>. QED
    BY <2>1, <1>1, <1>4, SMT
<1>. QED
  BY <1>2, <1>3, <1>4, SMT DEF Encodings

-----------------------------------------------------------------------------
(***************************************************************************)
(* Sequences of scalar values: what a triangulator's copy() writes, for    *)
(* every length, by induction.                                             *)
(***************************************************************************)
CopyStep(to, r, unit) == then(r, t32_x_call(to, r.coder, unit))
Copying == INSTANCE FoldTheorems WITH Step <- CopyStep

encoded(to, units) == copy(to, t32_x(TRUE), units).out

\* copy() is a fold of the output transcoder's operator().
LEMMA CopyIsFold ==
  ASSUME NEW to, NEW t, NEW units
  PROVE  copy(to, t, units) = Copying!Folded(to, Result(t, <<>>), units)
  BY DEF copy, Copying!Folded, Copying!FoldLeft, Copying!MapThenFoldSet, Copying!Max,
         FoldLeft, MapThenFoldSet, Max, CopyStep

\* Nothing is copied of nothing.
LEMMA CopyNothing ==
  ASSUME NEW to, NEW t
  PROVE  copy(to, t, <<>>) = Result(t, <<>>)
  BY CopyIsFold, Copying!FoldNothing

\* One more scalar value is one more encoding, and leaves the transcoder as it was.
LEMMA CopyOneMore ==
  ASSUME NEW to \in Encodings, NEW units \in Seq(Scalar), NEW x \in Scalar, NEW t
  PROVE  copy(to, t, Append(units, x)) =
           Result(copy(to, t, units).coder, copy(to, t, units).out \o encode(to, x))
<1>1. copy(to, t, Append(units, x)) = CopyStep(to, copy(to, t, units), x)
  BY CopyIsFold, Copying!FoldAppend
<1>2. t32_x_call(to, copy(to, t, units).coder, x) = Result(copy(to, t, units).coder, encode(to, x))
  BY DEF t32_x_call, Scalar
<1>. QED
  BY <1>1, <1>2 DEF CopyStep, then, Result

\* The code units of a result.
LEMMA EncodedOf ==
  ASSUME NEW to, NEW units, NEW c, NEW o, copy(to, t32_x(TRUE), units) = Result(c, o)
  PROVE  encoded(to, units) = o
<1>1. Result(c, o).out = o
  BY ResultFields
<1>. QED
  BY <1>1, Zenon DEF encoded

\* copy() passes scalar values on to a transcoder that stays well formed, and what
\* it writes are code units of the encoding.
LEMMA CopyEncodes ==
  ASSUME NEW to \in Encodings, NEW units \in Seq(Scalar)
  PROVE  /\ copy(to, t32_x(TRUE), units) = Result(t32_x(TRUE), encoded(to, units))
         /\ encoded(to, units) \in Seq(EncodedUnit(to))
<1>. DEFINE S == {u \in Seq(Scalar) :
                    /\ copy(to, t32_x(TRUE), u) = Result(t32_x(TRUE), encoded(to, u))
                    /\ encoded(to, u) \in Seq(EncodedUnit(to))}
<1>1. <<>> \in S
  <2>1. copy(to, t32_x(TRUE), <<>>) = Result(t32_x(TRUE), <<>>)
    BY CopyNothing
  <2>2. encoded(to, <<>>) = <<>>
    BY <2>1, EncodedOf
  <2>3. <<>> \in Seq(Scalar) /\ <<>> \in Seq(EncodedUnit(to))
    OBVIOUS
  <2>. QED
    BY <2>1, <2>2, <2>3
<1>2. ASSUME NEW u \in Seq(Scalar), NEW x \in Scalar, u \in S PROVE Append(u, x) \in S
  <2>1. /\ copy(to, t32_x(TRUE), u) = Result(t32_x(TRUE), encoded(to, u))
        /\ encoded(to, u) \in Seq(EncodedUnit(to))
    BY <1>2
  <2>2. copy(to, t32_x(TRUE), Append(u, x)) = Result(t32_x(TRUE), encoded(to, u) \o encode(to, x))
    <3>1. copy(to, t32_x(TRUE), Append(u, x))
            = Result(copy(to, t32_x(TRUE), u).coder, copy(to, t32_x(TRUE), u).out \o encode(to, x))
      BY CopyOneMore
    <3>2. copy(to, t32_x(TRUE), u).coder = t32_x(TRUE)
      BY <2>1, ResultFields
    <3>. QED
      BY <3>1, <3>2, Zenon DEF encoded
  <2>3. encoded(to, Append(u, x)) = encoded(to, u) \o encode(to, x)
    BY <2>2, EncodedOf
  <2>4. encode(to, x) \in Seq(EncodedUnit(to))
    BY EncodeType
  <2>5. encoded(to, u) \o encode(to, x) \in Seq(EncodedUnit(to))
    BY <2>1, <2>4
  <2>6. Append(u, x) \in Seq(Scalar)
    OBVIOUS
  <2>. QED
    BY <2>2, <2>3, <2>5, <2>6
<1>. HIDE DEF S
<1>3. units \in S
  BY <1>1, <1>2, Copying!SequenceInduction
<1>. QED
  BY <1>3 DEF S

\* The encoding of a sequence, value by value.
LEMMA EncodedAppend ==
  ASSUME NEW to \in Encodings
  PROVE  /\ encoded(to, <<>>) = <<>>
         /\ \A units \in Seq(Scalar), x \in Scalar :
              encoded(to, Append(units, x)) = encoded(to, units) \o encode(to, x)
<1>1. encoded(to, <<>>) = <<>>
  <2>1. copy(to, t32_x(TRUE), <<>>) = Result(t32_x(TRUE), <<>>)
    BY CopyNothing
  <2>. QED
    BY <2>1, EncodedOf
<1>2. ASSUME NEW units \in Seq(Scalar), NEW x \in Scalar
      PROVE  encoded(to, Append(units, x)) = encoded(to, units) \o encode(to, x)
  <2>1. copy(to, t32_x(TRUE), Append(units, x))
          = Result(copy(to, t32_x(TRUE), units).coder, encoded(to, units) \o encode(to, x))
    BY CopyOneMore DEF encoded
  <2>. QED
    BY <2>1, EncodedOf
<1>. QED
  BY <1>1, <1>2

\* What one call of a decoder may write, encoded, is within the buffer that a
\* transcode_view keeps for it.
LEMMA EncodedLength ==
  ASSUME NEW from \in Encodings, NEW to \in Encodings, NEW units, MayWrite(from, units)
  PROVE  /\ units \in Seq(Scalar)
         /\ encoded(to, units) \in Seq(EncodedUnit(to))
         /\ Len(encoded(to, units)) <= max_output_bytes(from, to)
         /\ units = <<>> => encoded(to, units) = <<>>
         /\ \A x \in Scalar : units = <<x>> => encoded(to, units) = encode(to, x)
<1>. DEFINE fits == longest_sequence(to) <= max_output_bytes(from, to)
<1>1. fits /\ longest_sequence(to) \in Nat
  BY DEF longest_sequence, max_output_bytes, Encodings
<1>2. ASSUME units = <<>>
      PROVE  encoded(to, units) = <<>> /\ Len(encoded(to, units)) <= max_output_bytes(from, to)
  <2>1. encoded(to, units) = <<>> /\ Len(<<>>) = 0
    BY <1>2, EncodedAppend
  <2>2. max_output_bytes(from, to) >= 0
    BY DEF longest_sequence, max_output_bytes, Encodings
  <2>. QED
    BY <2>1, <2>2
<1>3. ASSUME NEW x \in Scalar PROVE encoded(to, <<x>>) = encode(to, x)
  <2>1. <<x>> = Append(<<>>, x) /\ <<>> \in Seq(Scalar)
    OBVIOUS
  <2>2. encoded(to, <<x>>) = <<>> \o encode(to, x)
    BY <2>1, EncodedAppend
  <2>3. encode(to, x) \in Seq(EncodedUnit(to))
    BY EncodeType
  <2>. QED
    BY <2>2, <2>3
<1>4. ASSUME NEW x \in Scalar, units = <<x>> PROVE Len(encoded(to, units)) <= max_output_bytes(from, to)
  <2>1. Len(encode(to, x)) <= longest_sequence(to) /\ Len(encode(to, x)) \in Nat
    BY EncodeType
  <2>2. max_output_bytes(from, to) \in Nat
    BY DEF longest_sequence, max_output_bytes, Encodings
  <2>3. Len(encode(to, x)) <= max_output_bytes(from, to)
    BY <1>1, <2>1, <2>2
  <2>. QED
    BY <1>3, <1>4, <2>3
<1>5. ASSUME from = 16, NEW x \in Scalar \intersect CodeUnit16, units = <<replacement_char, x>>
      PROVE  /\ units \in Seq(Scalar)
             /\ Len(encoded(to, units)) <= max_output_bytes(from, to)
  <2>. DEFINE first == encode(to, replacement_char)
              second == encode(to, x)
  <2>1. replacement_char \in Scalar /\ replacement_char <= 65535 /\ x <= 65535
    BY ScalarMember, UnitRange, SMT DEF replacement_char
  <2>2. <<replacement_char>> \in Seq(Scalar) /\ units = Append(<<replacement_char>>, x)
    BY <1>5, <2>1
  <2>3. encoded(to, units) = first \o second
    <3>1. encoded(to, units) = encoded(to, <<replacement_char>>) \o encode(to, x)
      BY <2>2, EncodedAppend
    <3>2. encoded(to, <<replacement_char>>) = first
      BY <2>1, <1>3
    <3>. QED
      BY <3>1, <3>2
  <2>4. /\ first \in Seq(EncodedUnit(to)) /\ Len(first) <= longest_sequence(to)
        /\ (to = 8 => Len(first) <= 3) /\ (to = 16 => Len(first) = 1)
    BY <2>1, EncodeType, SMT
  <2>5. /\ second \in Seq(EncodedUnit(to)) /\ Len(second) <= longest_sequence(to)
        /\ (to = 8 => Len(second) <= 3) /\ (to = 16 => Len(second) = 1)
    BY <2>1, EncodeType, SMT
  <2>. HIDE DEF first, second
  <2>6. Len(first \o second) = Len(first) + Len(second) /\ Len(first) \in Nat /\ Len(second) \in Nat
    BY <2>4, <2>5
  <2>7. /\ to = 8 => max_output_bytes(from, to) = 6
        /\ to = 16 => max_output_bytes(from, to) = 2
        /\ to = 32 => max_output_bytes(from, to) = 2 /\ longest_sequence(to) = 1
    BY <1>5 DEF max_output_bytes, longest_sequence
  <2>. QED
    BY <1>5, <2>1, <2>2, <2>3, <2>4, <2>5, <2>6, <2>7 DEF Encodings
<1>6. units \in Seq(Scalar)
  <2>1. \A x \in Scalar : <<x>> \in Seq(Scalar)
    OBVIOUS
  <2>2. <<>> \in Seq(Scalar)
    OBVIOUS
  <2>. HIDE DEF fits
  <2>. QED
    BY <1>5, <2>1, <2>2, Zenon DEF MayWrite
<1>7. encoded(to, units) \in Seq(EncodedUnit(to))
  BY <1>6, CopyEncodes
<1>8. Len(encoded(to, units)) <= max_output_bytes(from, to)
  BY <1>2, <1>4, <1>5 DEF MayWrite
<1>. QED
  BY <1>2, <1>3, <1>6, <1>7, <1>8

\* A sequence of code points is encoded in UTF-32 as itself.
LEMMA EncodedInUtf32 ==
  ASSUME NEW units \in Seq(Scalar)
  PROVE  encoded(32, units) = units
<1>. DEFINE S == {u \in Seq(Scalar) : encoded(32, u) = u}
<1>0. 32 \in Encodings
  BY DEF Encodings
<1>1. <<>> \in S
  BY <1>0, EncodedAppend
<1>2. ASSUME NEW u \in Seq(Scalar), NEW x \in Scalar, u \in S PROVE Append(u, x) \in S
  <2>1. encoded(32, Append(u, x)) = u \o encode(32, x)
    BY <1>0, <1>2, EncodedAppend
  <2>2. encode(32, x) = <<x>>
    BY DEF encode
  <2>3. u \o <<x>> = Append(u, x) /\ Append(u, x) \in Seq(Scalar)
    OBVIOUS
  <2>. QED
    BY <2>1, <2>2, <2>3
<1>. HIDE DEF S
<1>3. units \in S
  BY <1>1, <1>2, Copying!SequenceInduction
<1>. QED
  BY <1>3 DEF S

-----------------------------------------------------------------------------
(***************************************************************************)
(* The nine transcoders: an object converts by its decoder, whose output   *)
(* it encodes.  A triangulator's second stage is always as constructed.    *)
(***************************************************************************)
object(from, to, d) ==
  IF is_triangulator(from, to) THEN [intermediate |-> d, output |-> t32_x(TRUE)] ELSE d

\* What partial() of each decoder asks.
LEMMA DecoderPartial ==
  ASSUME NEW d
  PROVE  /\ decoder_partial(8, d) = (d.state # accept)
         /\ decoder_partial(16, d) = d.has_high
         /\ decoder_partial(32, d) = FALSE
<1>1. decoder_partial(8, d) = (d.state # accept)
  BY DEF decoder_partial, t8_32_partial
<1>2. decoder_partial(16, d) = d.has_high
  BY DEF decoder_partial, t16_32_partial
<1>3. decoder_partial(32, d) = FALSE
  BY DEF decoder_partial
<1>. QED
  BY <1>1, <1>2, <1>3

\* A constructed transcoder holds a constructed decoder.
LEMMA ConstructedObject ==
  ASSUME NEW from \in Encodings, NEW to \in Encodings
  PROVE  /\ transcoder(from, to) = object(from, to, decoder(from))
         /\ decoder(from) \in Decoder(from)
         /\ decoder(from).well_formed
         /\ ~ decoder_partial(from, decoder(from))
<1>1. transcoder(from, to) = object(from, to, decoder(from))
  BY DEF transcoder, object
<1>2. /\ decoder(8) = t8_32(TRUE) /\ decoder(16) = t16_32(TRUE) /\ decoder(32) = t32_x(TRUE)
  BY DEF decoder
<1>3. /\ t8_32(TRUE) \in Decoder(8) /\ t16_32(TRUE) \in Decoder(16) /\ t32_x(TRUE) \in Decoder(32)
      /\ t8_32(TRUE).well_formed /\ t16_32(TRUE).well_formed /\ t32_x(TRUE).well_formed
      /\ t8_32(TRUE).state = accept /\ ~ t16_32(TRUE).has_high
  BY ConstructedDecoder
<1>4. CASE from = 8
  <2>1. decoder_partial(8, decoder(8)) = (t8_32(TRUE).state # accept)
    BY <1>2, DecoderPartial
  <2>. QED
    BY <1>1, <1>2, <1>3, <1>4, <2>1
<1>5. CASE from = 16
  <2>1. decoder_partial(16, decoder(16)) = t16_32(TRUE).has_high
    BY <1>2, DecoderPartial
  <2>. QED
    BY <1>1, <1>2, <1>3, <1>5, <2>1
<1>6. CASE from = 32
  <2>1. decoder_partial(32, decoder(32)) = FALSE
    BY DecoderPartial
  <2>. QED
    BY <1>1, <1>2, <1>3, <1>6, <2>1
<1>. QED
  BY <1>4, <1>5, <1>6 DEF Encodings

\* What a triangulator writes of what its decoder has written, and what another
\* transcoder does.
LEMMA PassedOn ==
  ASSUME NEW from \in Encodings, NEW to \in Encodings, NEW d \in Decoder(from), NEW r,
         Decodes(from, d, r)
  PROVE  /\ is_triangulator(from, to) =>
              passed_on(to, object(from, to, d), r)
                = Result(object(from, to, r.coder), encoded(to, r.out))
         /\ to = 32 => r = Result(object(from, to, r.coder), encoded(to, r.out))
<1>1. r.out \in Seq(Scalar) /\ r = Result(r.coder, r.out)
  BY EncodedLength DEF Decodes
<1>2. ASSUME is_triangulator(from, to)
      PROVE  passed_on(to, object(from, to, d), r)
               = Result(object(from, to, r.coder), encoded(to, r.out))
  <2>1. object(from, to, d).output = t32_x(TRUE)
    BY <1>2 DEF object
  <2>2. copy(to, t32_x(TRUE), r.out) = Result(t32_x(TRUE), encoded(to, r.out))
    BY <1>1, CopyEncodes
  <2>3. composed(r.coder, Result(t32_x(TRUE), encoded(to, r.out)))
          = Result(object(from, to, r.coder), encoded(to, r.out))
    BY <1>2, ResultFields DEF composed, object
  <2>. QED
    BY <2>1, <2>2, <2>3 DEF passed_on
<1>3. ASSUME to = 32 PROVE r = Result(object(from, to, r.coder), encoded(to, r.out))
  <2>1. encoded(to, r.out) = r.out
    BY <1>1, <1>3, EncodedInUtf32
  <2>2. object(from, to, r.coder) = r.coder
    BY <1>3 DEF object, is_triangulator
  <2>. QED
    BY <1>1, <2>1, <2>2
<1>. QED
  BY <1>2, <1>3

\* UTF-32 is written as it is.
LEMMA EncodeAsIs == ASSUME NEW x PROVE encode(32, x) = <<x>>
  BY DEF encode

\* operator() of every transcoder decodes the code unit and encodes what came of it.
LEMMA CallEncodes ==
  ASSUME NEW from \in Encodings, NEW to \in Encodings, NEW d \in Decoder(from),
         NEW unit \in CodeUnit(from), NEW r, r = decoder_call(from, d, unit)
  PROVE  call(from, to, object(from, to, d), unit)
           = Result(object(from, to, r.coder), encoded(to, r.out))
<1>1. Decodes(from, d, r)
  BY DecoderDecodes
<1>2. CASE is_triangulator(from, to)
  <2>1. object(from, to, d).intermediate = d
    BY <1>2 DEF object
  <2>2. call(from, to, object(from, to, d), unit) = passed_on(to, object(from, to, d), r)
    BY <1>2, <2>1 DEF call, is_triangulator
  <2>. QED
    BY <1>1, <1>2, <2>2, PassedOn
<1>3. CASE from # 32 /\ to = 32
  <2>1. object(from, to, d) = d
    BY <1>3 DEF object, is_triangulator
  <2>2. call(from, to, d, unit) = r
    BY <1>3 DEF call, is_triangulator
  <2>3. r = Result(object(from, to, r.coder), encoded(to, r.out))
    BY <1>1, <1>3, PassedOn
  <2>. QED
    BY <2>1, <2>2, <2>3
<1>4. CASE from = 32
  <2>1. object(from, to, d) = d /\ call(from, to, d, unit) = t32_x_call(to, d, unit)
    BY <1>4 DEF call, object, is_triangulator
  <2>2. object(from, to, r.coder) = r.coder
    BY <1>4 DEF object, is_triangulator
  <2>3. r = t32_x_call(32, d, unit)
    BY <1>4 DEF decoder_call
  <2>4. CASE IsScalar(unit)
    <3>1. unit \in Scalar
      BY <2>4, ScalarMember
    <3>2. r = Result(d, <<unit>>) /\ t32_x_call(to, d, unit) = Result(d, encode(to, unit))
      BY <2>3, <2>4, EncodeAsIs DEF t32_x_call
    <3>3. r.coder = d /\ r.out = <<unit>>
      BY <3>2, ResultFields
    <3>4. encoded(to, r.out) = encode(to, unit)
      BY <1>1, <3>1, <3>3, EncodedLength DEF Decodes
    <3>. QED
      BY <2>1, <2>2, <3>2, <3>3, <3>4
  <2>5. CASE ~ IsScalar(unit)
    <3>1. replacement_char \in Scalar
      BY ScalarMember
    <3>2. /\ r = Result(t32_x(FALSE), <<replacement_char>>)
          /\ t32_x_call(to, d, unit) = Result(t32_x(FALSE), encode(to, replacement_char))
      BY <2>3, <2>5, EncodeAsIs DEF t32_x_call
    <3>3. r.coder = t32_x(FALSE) /\ r.out = <<replacement_char>>
      BY <3>2, ResultFields
    <3>4. encoded(to, r.out) = encode(to, replacement_char)
      BY <1>1, <3>1, <3>3, EncodedLength DEF Decodes
    <3>. QED
      BY <2>1, <2>2, <3>2, <3>3, <3>4
  <2>. QED
    BY <2>4, <2>5
<1>. QED
  BY <1>2, <1>3, <1>4 DEF is_triangulator

\* And so does end_cp().
LEMMA EndCpEncodes ==
  ASSUME NEW from \in Encodings, NEW to \in Encodings, NEW d \in Decoder(from),
         NEW r, r = decoder_end_cp(from, d)
  PROVE  end_cp(from, to, object(from, to, d))
           = Result(object(from, to, r.coder), encoded(to, r.out))
<1>1. Decodes(from, d, r)
  BY DecoderDecodes
<1>2. CASE is_triangulator(from, to)
  <2>1. object(from, to, d).intermediate = d
    BY <1>2 DEF object
  <2>2. end_cp(from, to, object(from, to, d)) = passed_on(to, object(from, to, d), r)
    BY <1>2, <2>1 DEF end_cp
  <2>. QED
    BY <1>1, <1>2, <2>2, PassedOn
<1>3. CASE ~ is_triangulator(from, to)
  <2>1. object(from, to, d) = d /\ object(from, to, r.coder) = r.coder
    BY <1>3 DEF object
  <2>2. end_cp(from, to, d) = r
    BY <1>3 DEF end_cp
  <2>3. CASE to = 32
    BY <1>1, <2>1, <2>2, <2>3, PassedOn
  <2>4. CASE from = 32
    <3>1. r = Result(d, <<>>)
      BY <2>4 DEF decoder_end_cp
    <3>2. r.coder = d /\ r.out = <<>>
      BY <3>1, ResultFields
    <3>3. encoded(to, r.out) = <<>>
      BY <3>2, EncodedAppend
    <3>. QED
      BY <2>1, <2>2, <3>1, <3>2, <3>3
  <2>. QED
    BY <1>3, <2>3, <2>4 DEF is_triangulator
<1>. QED
  BY <1>2, <1>3

\* The observers of every transcoder are those of its decoder.
LEMMA ObjectObserved ==
  ASSUME NEW from \in Encodings, NEW to \in Encodings, NEW d \in Decoder(from)
  PROVE  /\ well_formed(from, to, object(from, to, d)) = d.well_formed
         /\ partial(from, to, object(from, to, d)) = decoder_partial(from, d)
<1>1. d.well_formed \in BOOLEAN
  BY DEF Decoder, T8_32, T16_32, T32_X, Encodings
<1>2. t32_x(TRUE).well_formed = TRUE
  BY DEF t32_x
<1>3. CASE is_triangulator(from, to)
  <2>1. object(from, to, d).intermediate = d /\ object(from, to, d).output = t32_x(TRUE)
    BY <1>3 DEF object
  <2>2. well_formed(from, to, object(from, to, d)) = (d.well_formed /\ TRUE)
    BY <1>2, <1>3, <2>1 DEF well_formed
  <2>3. partial(from, to, object(from, to, d)) = decoder_partial(from, d)
    BY <1>3, <2>1 DEF partial
  <2>. QED
    BY <1>1, <2>2, <2>3
<1>4. CASE ~ is_triangulator(from, to)
  BY <1>4 DEF object, well_formed, partial
<1>. QED
  BY <1>3, <1>4

-----------------------------------------------------------------------------
(***************************************************************************)
(* Decoding undoes encoding: a decoder that is at rest, given what is      *)
(* written for scalar values, writes those and is at rest again.           *)
(***************************************************************************)
DecodeStep(encoding, r, unit) == then(r, decoder_call(encoding, r.coder, unit))
Decoding == INSTANCE FoldTheorems WITH Step <- DecodeStep

Resting(encoding) == {d \in Decoder(encoding) : d.well_formed /\ ~ decoder_partial(encoding, d)}

\* An object of t8_32 that has read well-formed text, by the two other fields.
reading(cp, s) == [code_point |-> cp, well_formed |-> TRUE, state |-> s]

\* One call, after what has been written before.
LEMMA StepWrites ==
  ASSUME NEW e, NEW d, NEW o, NEW u
  PROVE  DecodeStep(e, Result(d, o), u)
           = Result(decoder_call(e, d, u).coder, o \o decoder_call(e, d, u).out)
<1>1. Result(d, o).coder = d /\ Result(d, o).out = o
  BY DEF Result
<1>. QED
  BY <1>1, Zenon DEF DecodeStep, then

\* The call of a t8_32 object that takes the next entry of the table, and the one
\* that accepts.
LEMMA Reads8 ==
  ASSUME NEW t \in T8_32, t.well_formed, NEW b \in Byte, NEW o \in Seq(Scalar)
  PROVE  LET cp == shifted(t, b)
             s == transition(t.state, class(b))
         IN  /\ s = accept /\ cp \in Scalar =>
                  DecodeStep(8, Result(t, o), b) = Result(reading(cp, accept), Append(o, cp))
             /\ s \notin {accept, reject} =>
                  DecodeStep(8, Result(t, o), b) = Result(reading(cp, s), o)
<1>. DEFINE cp == shifted(t, b)
            s == transition(t.state, class(b))
<1>1. decoder_call(8, t, b) = t8_32_call(t, b)
  BY DEF decoder_call
<1>2. t.well_formed = TRUE
  BY DEF T8_32
<1>3. ASSUME s = accept, cp \in Scalar
      PROVE  DecodeStep(8, Result(t, o), b) = Result(reading(cp, accept), Append(o, cp))
  <2>1. decoder_call(8, t, b) = Result(reading(cp, accept), <<cp>>)
    BY <1>1, <1>2, <1>3, Call8 DEF reading
  <2>. DEFINE w == <<cp>>
  <2>4. decoder_call(8, t, b) = Result(reading(cp, accept), w)
    BY <2>1
  <2>2. w \in Seq(Scalar) /\ o \o w = Append(o, cp)
    BY <1>3
  <2>. HIDE DEF w, cp
  <2>5. decoder_call(8, t, b).coder = reading(cp, accept) /\ decoder_call(8, t, b).out = w
    BY <2>4, ResultFields
  <2>3. DecodeStep(8, Result(t, o), b) = Result(reading(cp, accept), o \o w)
    <3>1. DecodeStep(8, Result(t, o), b)
            = Result(decoder_call(8, t, b).coder, o \o decoder_call(8, t, b).out)
      BY StepWrites
    <3>. QED
      BY <2>5, <3>1
  <2>. QED
    BY <2>2, <2>3
<1>4. ASSUME s \notin {accept, reject}
      PROVE  DecodeStep(8, Result(t, o), b) = Result(reading(cp, s), o)
  <2>1. decoder_call(8, t, b) = Result(reading(cp, s), <<>>)
    BY <1>1, <1>2, <1>4, Call8 DEF reading
  <2>. DEFINE w == <<>>
  <2>2. w \in Seq(Scalar) /\ o \o w = o
    OBVIOUS
  <2>3. decoder_call(8, t, b) = Result(reading(cp, s), w)
    BY <2>1
  <2>. HIDE DEF w, cp, s
  <2>5. decoder_call(8, t, b).coder = reading(cp, s) /\ decoder_call(8, t, b).out = w
    BY <2>3, ResultFields
  <2>4. DecodeStep(8, Result(t, o), b) = Result(reading(cp, s), o \o w)
    <3>1. DecodeStep(8, Result(t, o), b)
            = Result(decoder_call(8, t, b).coder, o \o decoder_call(8, t, b).out)
      BY StepWrites
    <3>. QED
      BY <2>5, <3>1
  <2>. QED
    BY <2>2, <2>4
<1>. QED
  BY <1>3, <1>4

\* A continuation byte, after a value that leaves room for its six bits.
LEMMA ReadsTail ==
  ASSUME NEW n \in Nat, n <= 17407, NEW s \in State, s # accept,
         NEW b \in Byte, 128 <= b, b <= 191
  PROVE  /\ reading(n, s) \in T8_32 /\ reading(n, s).well_formed /\ reading(n, s).state = s
         /\ shifted(reading(n, s), b) = 64 * n + (b - 128)
<1>. DEFINE t == reading(n, s)
<1>1. n \in CodePointField
  BY CodePointFieldRange, SMT
<1>2. t \in T8_32 /\ t.well_formed /\ t.state = s /\ t.code_point = n
  BY <1>1 DEF reading, T8_32
<1>. HIDE DEF t
<1>3. t.code_point <= 32767 /\ t.state # accept
  BY <1>2, SMT
<1>4. shifted(t, b) = 64 * t.code_point + (b % 64)
  BY <1>2, <1>3, ShiftIn, SMT
<1>5. b % 64 = b - 128
  BY ByteRange, SMT
<1>. QED
  BY <1>2, <1>4, <1>5, SMT DEF t

\* The classes of the continuation bytes.
LEMMA TailClass ==
  ASSUME NEW b \in Byte, 128 <= b, b <= 191
  PROVE  /\ class(b) \in 0 .. 11 /\ class(b) \in any_tail
         /\ b <= 159 => class(b) \in {1, 9}
         /\ b <= 143 => class(b) = 1
         /\ b >= 144 => class(b) \in {7, 9}
         /\ b >= 160 => class(b) = 7
<1>1. /\ class(b) \in 0 .. 11
      /\ class(b) \in any_tail <=> b \in \h80 .. \hBF
      /\ class(b) = 1 <=> b \in \h80 .. \h8F
      /\ class(b) = 9 <=> b \in \h90 .. \h9F
      /\ class(b) = 7 <=> b \in \hA0 .. \hBF
  BY ClassOfByte
<1>2. b \in Int
  BY ByteRange
<1>. QED
  BY <1>1, <1>2, SMT

\* The lead byte of a value of more than seven bits, in the state between encodings.
LEMMA ReadsLead ==
  ASSUME NEW t \in T8_32, t.state = accept, NEW b \in Byte
  PROVE  /\ class(b) \in 0 .. 11
         /\ class(b) = 0 => shifted(t, b) = b /\ transition(t.state, class(b)) = accept
         /\ class(b) = 2 => shifted(t, b) = b - 192 /\ transition(t.state, class(b)) = tail1
         /\ class(b) = 3 => shifted(t, b) = b - 224 /\ transition(t.state, class(b)) = tail2
         /\ class(b) = 4 => shifted(t, b) = b - 224 /\ transition(t.state, class(b)) = afterED
         /\ class(b) = 10 => shifted(t, b) = 0 /\ transition(t.state, class(b)) = afterE0
         /\ class(b) = 5 => shifted(t, b) = b - 240 /\ transition(t.state, class(b)) = afterF4
         /\ class(b) = 6 => shifted(t, b) = b - 240 /\ transition(t.state, class(b)) = tail3
         /\ class(b) = 11 => shifted(t, b) = 0 /\ transition(t.state, class(b)) = afterF0
<1>1. shifted(t, b) = lead_payload(class(b), b)
  BY DEF shifted
<1>2. class(b) \in 0 .. 11
  BY ClassOfByte
<1>3. transition(t.state, class(b)) = transition(accept, class(b))
  OBVIOUS
<1>. QED
  BY <1>1, <1>2, <1>3, RowOfAccept, LeadValue

\* The last continuation byte.
LEMMA ReadsLastTail ==
  ASSUME NEW x \in Scalar, NEW o \in Seq(Scalar)
  PROVE  DecodeStep(8, Result(reading(x \div 64, tail1), o), 128 + (x % 64))
           = Result(reading(x, accept), Append(o, x))
<1>. DEFINE n == x \div 64
            y == x % 64
            t == reading(n, tail1)
            b == 128 + y
<1>1. x \in Nat /\ x <= 1114111
  BY ScalarIsInt
<1>2. n \in Nat /\ n <= 17407 /\ y \in 0 .. 63 /\ x = 64 * n + y
  BY <1>1, SMT
<1>3. tail1 \in State /\ tail1 # accept
  BY DEF tail1, accept, State
<1>. HIDE DEF n, y
<1>a. b \in Byte /\ 128 <= b /\ b <= 191 /\ b - 128 = y
  BY <1>2, ByteRange, SMT
<1>. HIDE DEF b
<1>b. /\ t \in T8_32 /\ t.well_formed /\ t.state = tail1
      /\ shifted(t, b) = 64 * n + (b - 128)
  BY <1>2, <1>3, <1>a, ReadsTail, SMTT(30)
<1>c. class(b) \in any_tail /\ class(b) \in 0 .. 11
  BY <1>a, TailClass, SMT
<1>. HIDE DEF t
<1>4. /\ t \in T8_32 /\ t.well_formed /\ t.state = tail1 /\ b \in Byte
      /\ shifted(t, b) = x /\ class(b) \in any_tail /\ class(b) \in 0 .. 11
  BY <1>2, <1>a, <1>b, <1>c, SMT
<1>5. transition(t.state, class(b)) = accept
  BY <1>4, RowsOfTails, SMT
<1>. QED
  BY <1>4, <1>5, Reads8, SMT DEF n, y, t, b

\* The continuation byte before it, whatever the lead byte allows.
LEMMA ReadsMiddleTail ==
  ASSUME NEW x \in Scalar, NEW o \in Seq(Scalar), NEW s \in State,
         \/ s = tail2
         \/ s = afterE0 /\ 2048 <= x /\ x < 4096
         \/ s = afterED /\ 53248 <= x /\ x < 55296
  PROVE  DecodeStep(8, Result(reading(x \div 4096, s), o), 128 + ((x \div 64) % 64))
           = Result(reading(x \div 64, tail1), o)
<1>. DEFINE n == x \div 4096
            y == (x \div 64) % 64
            t == reading(n, s)
            b == 128 + y
<1>1. x \in Nat /\ x <= 1114111
  BY ScalarIsInt
<1>2. n \in Nat /\ n <= 17407 /\ y \in 0 .. 63 /\ x \div 64 = 64 * n + y
  BY <1>1, SMT
<1>3. s # accept /\ tail1 \notin {accept, reject}
  BY DEF tail1, tail2, afterE0, afterED, accept, reject
<1>4. (s = afterE0 => y >= 32) /\ (s = afterED => y <= 31)
  <2>1. 2048 <= x /\ x < 4096 => y >= 32
    BY <1>1, SMT
  <2>2. 53248 <= x /\ x < 55296 => y <= 31
    BY <1>1, SMT
  <2>3. afterE0 # tail2 /\ afterED # tail2 /\ afterE0 # afterED
    BY DEF tail2, afterE0, afterED
  <2>. HIDE DEF y
  <2>. QED
    BY <2>1, <2>2, <2>3, SMT
<1>. HIDE DEF n, y
<1>a. b \in Byte /\ 128 <= b /\ b <= 191 /\ b - 128 = y
  BY <1>2, ByteRange, SMT
<1>. HIDE DEF b
<1>b. /\ t \in T8_32 /\ t.well_formed /\ t.state = s
      /\ shifted(t, b) = 64 * n + (b - 128)
  BY <1>2, <1>3, <1>a, ReadsTail, SMTT(30)
<1>c. /\ class(b) \in any_tail /\ class(b) \in 0 .. 11
      /\ (y >= 32 => class(b) = 7) /\ (y <= 31 => class(b) \in {1, 9})
  <2>1. /\ class(b) \in any_tail /\ class(b) \in 0 .. 11
        /\ b <= 159 => class(b) \in {1, 9}
        /\ b <= 143 => class(b) = 1
        /\ b >= 144 => class(b) \in {7, 9}
        /\ b >= 160 => class(b) = 7
    BY <1>a, TailClass, SMT
  <2>2. b \in Int
    BY <1>a, ByteRange
  <2>. QED
    BY <1>2, <1>a, <2>1, <2>2, SMT
<1>. HIDE DEF t
<1>5. /\ t \in T8_32 /\ t.well_formed /\ t.state = s /\ b \in Byte
      /\ shifted(t, b) = x \div 64
  BY <1>2, <1>a, <1>b, SMT
<1>6. transition(t.state, class(b)) = tail1
  <2>1. CASE s = tail2
    BY <1>c, <1>5, <2>1, RowsOfTails, SMT
  <2>2. CASE s = afterE0
    BY <1>4, <1>c, <1>2, <1>5, <2>2, RowsOfTails, SMT DEF E0_tail
  <2>3. CASE s = afterED
    BY <1>4, <1>c, <1>2, <1>5, <2>3, RowsOfTails, SMT DEF ED_tail
  <2>. QED
    BY <2>1, <2>2, <2>3, SMT
<1>7. DecodeStep(8, Result(t, o), b) = Result(reading(shifted(t, b), tail1), o)
  BY <1>3, <1>5, <1>6, Reads8, SMT
<1>. QED
  BY <1>5, <1>7, SMT DEF n, y, t, b

\* The first continuation byte of four.
LEMMA ReadsFirstTail ==
  ASSUME NEW x \in Scalar, NEW o \in Seq(Scalar), NEW s \in State,
         \/ s = tail3
         \/ s = afterF0 /\ 65536 <= x /\ x < 262144
         \/ s = afterF4 /\ 1048576 <= x
  PROVE  DecodeStep(8, Result(reading(x \div 262144, s), o), 128 + ((x \div 4096) % 64))
           = Result(reading(x \div 4096, tail2), o)
<1>. DEFINE n == x \div 262144
            y == (x \div 4096) % 64
            t == reading(n, s)
            b == 128 + y
<1>1. x \in Nat /\ x <= 1114111
  BY ScalarIsInt
<1>2. n \in Nat /\ n <= 17407 /\ y \in 0 .. 63 /\ x \div 4096 = 64 * n + y
  BY <1>1, SMT
<1>3. s # accept /\ tail2 \notin {accept, reject}
  BY DEF tail2, tail3, afterF0, afterF4, accept, reject
<1>4. (s = afterF0 => y >= 16) /\ (s = afterF4 => y <= 15)
  <2>1. 65536 <= x /\ x < 262144 => y >= 16
    BY <1>1, SMT
  <2>2. 1048576 <= x => y <= 15
    BY <1>1, SMT
  <2>3. afterF0 # tail3 /\ afterF4 # tail3 /\ afterF0 # afterF4
    BY DEF tail3, afterF0, afterF4
  <2>. HIDE DEF y
  <2>. QED
    BY <2>1, <2>2, <2>3, SMT
<1>. HIDE DEF n, y
<1>a. b \in Byte /\ 128 <= b /\ b <= 191 /\ b - 128 = y
  BY <1>2, ByteRange, SMT
<1>. HIDE DEF b
<1>b. /\ t \in T8_32 /\ t.well_formed /\ t.state = s
      /\ shifted(t, b) = 64 * n + (b - 128)
  BY <1>2, <1>3, <1>a, ReadsTail, SMTT(30)
<1>c. /\ class(b) \in any_tail /\ class(b) \in 0 .. 11
      /\ (y >= 16 => class(b) \in {7, 9}) /\ (y <= 15 => class(b) = 1)
  <2>1. /\ class(b) \in any_tail /\ class(b) \in 0 .. 11
        /\ b <= 159 => class(b) \in {1, 9}
        /\ b <= 143 => class(b) = 1
        /\ b >= 144 => class(b) \in {7, 9}
        /\ b >= 160 => class(b) = 7
    BY <1>a, TailClass, SMT
  <2>2. b \in Int
    BY <1>a, ByteRange
  <2>. QED
    BY <1>2, <1>a, <2>1, <2>2, SMT
<1>. HIDE DEF t
<1>5. /\ t \in T8_32 /\ t.well_formed /\ t.state = s /\ b \in Byte
      /\ shifted(t, b) = x \div 4096
  BY <1>2, <1>a, <1>b, SMT
<1>6. transition(t.state, class(b)) = tail2
  <2>1. CASE s = tail3
    BY <1>c, <1>5, <2>1, RowsOfTails, SMT
  <2>2. CASE s = afterF0
    BY <1>4, <1>c, <1>2, <1>5, <2>2, RowsOfTails, SMT DEF F0_tail
  <2>3. CASE s = afterF4
    BY <1>4, <1>c, <1>2, <1>5, <2>3, RowsOfTails, SMT DEF F4_tail
  <2>. QED
    BY <2>1, <2>2, <2>3, SMT
<1>7. DecodeStep(8, Result(t, o), b) = Result(reading(shifted(t, b), tail2), o)
  BY <1>3, <1>5, <1>6, Reads8, SMT
<1>. QED
  BY <1>5, <1>7, SMT DEF n, y, t, b

\* The objects of each decoder.
LEMMA DecoderIs ==
  /\ Decoder(8) = {d \in T8_32 : MayHold(d.state, d.code_point)}
  /\ Decoder(16) = T16_32
  /\ Decoder(32) = T32_X
  BY DEF Decoder

\* A t8_32 object at rest, and one that has just written a scalar value.
LEMMA Resting8 ==
  /\ \A d \in Resting(8) : d \in T8_32 /\ d.well_formed /\ d.state = accept
  /\ \A x \in Scalar : reading(x, accept) \in Resting(8)
<1>1. ASSUME NEW d \in Resting(8) PROVE d \in T8_32 /\ d.well_formed /\ d.state = accept
  <2>1. d \in Decoder(8) /\ d.well_formed /\ ~ decoder_partial(8, d)
    BY DEF Resting
  <2>2. decoder_partial(8, d) = (d.state # accept)
    BY DecoderPartial
  <2>. QED
    BY <2>1, <2>2, DecoderIs
<1>2. ASSUME NEW x \in Scalar PROVE reading(x, accept) \in Resting(8)
  <2>. DEFINE d == reading(x, accept)
  <2>1. x \in Nat /\ x < 2097152
    BY ScalarIsInt, SMT
  <2>2. x \in CodePointField /\ MayHold(accept, x)
    BY <2>1, CodePointFieldRange, SMT DEF MayHold, code_point_limit
  <2>3. d \in T8_32 /\ d.state = accept /\ d.code_point = x /\ d.well_formed
    BY <2>2 DEF reading, T8_32, State
  <2>. HIDE DEF d
  <2>4. decoder_partial(8, d) = (d.state # accept)
    BY DecoderPartial
  <2>. QED
    BY <2>2, <2>3, <2>4, DecoderIs DEF Resting, d
<1>. QED
  BY <1>1, <1>2

\* What t32_8 writes for a scalar value, read by t8_32.
LEMMA ReadBack8 ==
  ASSUME NEW d \in Resting(8), NEW x \in Scalar, NEW o \in Seq(Scalar)
  PROVE  Decoding!Folded(8, Result(d, o), utf8(x)) = Result(reading(x, accept), Append(o, x))
<1>. DEFINE last == 128 + (x % 64)
            middle == 128 + ((x \div 64) % 64)
            third == 128 + ((x \div 4096) % 64)
<1>1. x \in Nat /\ x <= 1114111 /\ IsScalar(x)
  BY ScalarIsInt
<1>2. d \in T8_32 /\ d.well_formed /\ d.state = accept
  BY Resting8
<1>3. DecodeStep(8, Result(reading(x \div 64, tail1), o), last) = Result(reading(x, accept), Append(o, x))
  BY ReadsLastTail
<1>4. /\ accept \notin {tail1, tail2, tail3, afterE0, afterED, afterF0, afterF4}
      /\ reject \notin {tail1, tail2, tail3, afterE0, afterED, afterF0, afterF4}
      /\ {tail1, tail2, tail3, afterE0, afterED, afterF0, afterF4} \subseteq State
  BY DEF State, accept, reject, tail1, tail2, tail3, afterE0, afterED, afterF0, afterF4
<1>5. CASE x < 128
  <2>1. utf8(x) = <<x>> /\ x \in Byte /\ class(x) = 0
    <3>1. x \in Byte /\ x \in 0 .. 127
      BY <1>1, <1>5, ByteRange, SMT
    <3>2. class(x) = 0 <=> x \in \h00 .. \h7F
      BY <3>1, LeadClass
    <3>. QED
      BY <1>5, <3>1, <3>2, Utf8Forms, SMT
  <2>2. shifted(d, x) = x /\ transition(d.state, class(x)) = accept
    BY <1>2, <2>1, ReadsLead, SMT
  <2>3. DecodeStep(8, Result(d, o), x) = Result(reading(x, accept), Append(o, x))
    BY <1>2, <2>1, <2>2, Reads8, SMT
  <2>. QED
    BY <2>1, <2>3, Decoding!FoldOne, SMT
<1>6. CASE 128 <= x /\ x < 2048
  <2>. DEFINE lead == 192 + x \div 64
  <2>1. utf8(x) = <<lead, last>>
    BY <1>6, Utf8Forms, SMT
  <2>2. lead \in Byte /\ lead \in 194 .. 223 /\ lead - 192 = x \div 64
    BY <1>1, <1>6, ByteRange, SMT
  <2>. HIDE DEF lead, last
  <2>3. class(lead) = 2 <=> lead \in \hC2 .. \hDF
    BY <2>2, LeadClass
  <2>4. shifted(d, lead) = x \div 64 /\ transition(d.state, class(lead)) = tail1
    BY <1>2, <2>2, <2>3, ReadsLead, SMT
  <2>5. DecodeStep(8, Result(d, o), lead) = Result(reading(x \div 64, tail1), o)
    BY <1>2, <1>4, <2>2, <2>4, Reads8, SMT
  <2>6. Decoding!Folded(8, Result(d, o), <<lead, last>>)
          = DecodeStep(8, DecodeStep(8, Result(d, o), lead), last)
    BY Decoding!FoldTwo
  <2>. QED
    BY <1>3, <2>1, <2>5, <2>6, SMT
<1>7. CASE 2048 <= x /\ x < 65536
  <2>. DEFINE lead == 224 + x \div 4096
  <2>1. utf8(x) = <<lead, middle, last>>
    BY <1>7, Utf8Forms, SMT
  <2>2. lead \in Byte /\ lead \in 224 .. 239 /\ lead - 224 = x \div 4096
    BY <1>1, <1>7, ByteRange, SMT
  <2>3. /\ lead = 224 => x < 4096
        /\ lead = 237 => 53248 <= x /\ x < 55296
    <3>1. ~ (55296 <= x /\ x <= 57343)
      BY <1>1, ScalarRange, SMT
    <3>. QED
      BY <1>1, <3>1, SMT
  <2>. HIDE DEF lead, middle, last
  <2>4. PICK s \in {tail2, afterE0, afterED} :
          /\ DecodeStep(8, Result(d, o), lead) = Result(reading(x \div 4096, s), o)
          /\ s = afterE0 => x < 4096
          /\ s = afterED => 53248 <= x /\ x < 55296
    <3>1. /\ class(lead) = 3 <=> lead \in (\hE1 .. \hEF) \ {\hED}
          /\ class(lead) = 4 <=> lead = \hED
          /\ class(lead) = 10 <=> lead = \hE0
      BY <2>2, LeadClass
    <3>2. CASE lead = 224
      <4>1. shifted(d, lead) = x \div 4096 /\ transition(d.state, class(lead)) = afterE0
        BY <1>2, <2>2, <3>1, <3>2, ReadsLead, SMT
      <4>2. DecodeStep(8, Result(d, o), lead) = Result(reading(x \div 4096, afterE0), o)
        BY <1>2, <1>4, <2>2, <4>1, Reads8, SMT
      <4>3. afterE0 # afterED
        BY DEF afterE0, afterED
      <4>. QED
        BY <2>3, <3>2, <4>2, <4>3, SMT
    <3>3. CASE lead = 237
      <4>1. shifted(d, lead) = x \div 4096 /\ transition(d.state, class(lead)) = afterED
        BY <1>2, <2>2, <3>1, <3>3, ReadsLead, SMT
      <4>2. DecodeStep(8, Result(d, o), lead) = Result(reading(x \div 4096, afterED), o)
        BY <1>2, <1>4, <2>2, <4>1, Reads8, SMT
      <4>3. afterE0 # afterED
        BY DEF afterE0, afterED
      <4>. QED
        BY <2>3, <3>3, <4>2, <4>3, SMT
    <3>4. CASE lead \notin {224, 237}
      <4>1. shifted(d, lead) = x \div 4096 /\ transition(d.state, class(lead)) = tail2
        BY <1>2, <2>2, <3>1, <3>4, ReadsLead, SMT
      <4>2. DecodeStep(8, Result(d, o), lead) = Result(reading(x \div 4096, tail2), o)
        BY <1>2, <1>4, <2>2, <4>1, Reads8, SMT
      <4>3. tail2 # afterE0 /\ tail2 # afterED
        BY DEF tail2, afterE0, afterED
      <4>. QED
        BY <4>2, <4>3, SMT
    <3>. QED
      BY <3>2, <3>3, <3>4, SMT
  <2>5. DecodeStep(8, Result(reading(x \div 4096, s), o), middle) = Result(reading(x \div 64, tail1), o)
    BY <1>4, <1>7, <2>4, ReadsMiddleTail, SMT DEF middle
  <2>6. Decoding!Folded(8, Result(d, o), <<lead, middle, last>>)
          = DecodeStep(8, DecodeStep(8, DecodeStep(8, Result(d, o), lead), middle), last)
    BY Decoding!FoldThree
  <2>. QED
    BY <1>3, <2>1, <2>4, <2>5, <2>6, SMT
<1>8. CASE 65536 <= x
  <2>. DEFINE lead == 240 + x \div 262144
  <2>1. utf8(x) = <<lead, third, middle, last>>
    BY <1>8, Utf8Forms, SMT
  <2>2. lead \in Byte /\ lead \in 240 .. 244 /\ lead - 240 = x \div 262144
    BY <1>1, <1>8, ByteRange, SMT
  <2>3. /\ lead = 240 => x < 262144
        /\ lead = 244 => 1048576 <= x
    BY <1>1, SMT
  <2>. HIDE DEF lead, third, middle, last
  <2>4. PICK s \in {tail3, afterF0, afterF4} :
          /\ DecodeStep(8, Result(d, o), lead) = Result(reading(x \div 262144, s), o)
          /\ s = afterF0 => x < 262144
          /\ s = afterF4 => 1048576 <= x
    <3>1. /\ class(lead) = 6 <=> lead \in \hF1 .. \hF3
          /\ class(lead) = 5 <=> lead = \hF4
          /\ class(lead) = 11 <=> lead = \hF0
      BY <2>2, LeadClass
    <3>2. CASE lead = 240
      <4>1. shifted(d, lead) = x \div 262144 /\ transition(d.state, class(lead)) = afterF0
        BY <1>2, <2>2, <3>1, <3>2, ReadsLead, SMT
      <4>2. DecodeStep(8, Result(d, o), lead) = Result(reading(x \div 262144, afterF0), o)
        BY <1>2, <1>4, <2>2, <4>1, Reads8, SMT
      <4>3. afterF0 # afterF4
        BY DEF afterF0, afterF4
      <4>. QED
        BY <2>3, <3>2, <4>2, <4>3, SMT
    <3>3. CASE lead = 244
      <4>1. shifted(d, lead) = x \div 262144 /\ transition(d.state, class(lead)) = afterF4
        BY <1>2, <2>2, <3>1, <3>3, ReadsLead, SMT
      <4>2. DecodeStep(8, Result(d, o), lead) = Result(reading(x \div 262144, afterF4), o)
        BY <1>2, <1>4, <2>2, <4>1, Reads8, SMT
      <4>3. afterF0 # afterF4
        BY DEF afterF0, afterF4
      <4>. QED
        BY <2>3, <3>3, <4>2, <4>3, SMT
    <3>4. CASE lead \notin {240, 244}
      <4>1. shifted(d, lead) = x \div 262144 /\ transition(d.state, class(lead)) = tail3
        BY <1>2, <2>2, <3>1, <3>4, ReadsLead, SMT
      <4>2. DecodeStep(8, Result(d, o), lead) = Result(reading(x \div 262144, tail3), o)
        BY <1>2, <1>4, <2>2, <4>1, Reads8, SMT
      <4>3. tail3 # afterF0 /\ tail3 # afterF4
        BY DEF tail3, afterF0, afterF4
      <4>. QED
        BY <4>2, <4>3, SMT
    <3>. QED
      BY <3>2, <3>3, <3>4, SMT
  <2>5. DecodeStep(8, Result(reading(x \div 262144, s), o), third) = Result(reading(x \div 4096, tail2), o)
    BY <1>4, <1>8, <2>4, ReadsFirstTail, SMT DEF third
  <2>6. DecodeStep(8, Result(reading(x \div 4096, tail2), o), middle) = Result(reading(x \div 64, tail1), o)
    BY <1>4, ReadsMiddleTail, SMT DEF middle
  <2>7. Decoding!Folded(8, Result(d, o), <<lead, third, middle, last>>)
          = DecodeStep(8, DecodeStep(8, DecodeStep(8, DecodeStep(8, Result(d, o), lead), third), middle), last)
    BY Decoding!FoldFour
  <2>. QED
    BY <1>3, <2>1, <2>4, <2>5, <2>6, <2>7, SMT
<1>. QED
  BY <1>1, <1>5, <1>6, <1>7, <1>8, SMT

\* A t16_32 object at rest.
LEMMA Resting16 ==
  ASSUME NEW d
  PROVE  d \in Resting(16) <=> d \in T16_32 /\ d.well_formed /\ ~ d.has_high
<1>1. decoder_partial(16, d) = d.has_high
  BY DecoderPartial
<1>. QED
  BY <1>1, DecoderIs DEF Resting

\* What t32_16 writes for a scalar value, read by t16_32.
LEMMA ReadBack16 ==
  ASSUME NEW d \in Resting(16), NEW x \in Scalar, NEW o \in Seq(Scalar)
  PROVE  \E c \in Resting(16) :
           Decoding!Folded(16, Result(d, o), utf16(x)) = Result(c, Append(o, x))
<1>1. x \in Nat /\ x <= 1114111 /\ IsScalar(x)
  BY ScalarIsInt
<1>2. d \in T16_32 /\ d.well_formed /\ ~ d.has_high
  BY Resting16
<1>3. \A t, u : decoder_call(16, t, u) = t16_32_call(t, u)
  BY DEF decoder_call
<1>4. \A u : o \o <<u>> = Append(o, u)
  OBVIOUS
<1>5. CASE x <= 65535
  <2>1. utf16(x) = <<x>>
    BY <1>5, Utf16Forms, SMT
  <2>2. ~ is_high_surrogate(x) /\ ~ is_low_surrogate(x)
    BY <1>1, ScalarRange, SurrogateRange, SMT
  <2>3. t16_32_call(d, x) = Result(d, <<x>>)
    BY <1>1, <1>2, <2>2, WithoutHigh, SMT
  <2>4. decoder_call(16, d, x).coder = d /\ decoder_call(16, d, x).out = <<x>>
    BY <1>3, <2>3, ResultFields
  <2>5. DecodeStep(16, Result(d, o), x)
          = Result(decoder_call(16, d, x).coder, o \o decoder_call(16, d, x).out)
    BY StepWrites
  <2>6. DecodeStep(16, Result(d, o), x) = Result(d, Append(o, x))
    BY <1>4, <2>4, <2>5
  <2>7. Decoding!Folded(16, Result(d, o), <<x>>) = DecodeStep(16, Result(d, o), x)
    BY Decoding!FoldOne
  <2>. QED
    BY <2>1, <2>6, <2>7, SMT
<1>6. CASE 65536 <= x
  <2>. DEFINE high == 55232 + x \div 1024
              low == 56320 + (x % 1024)
              t == holding(d, high)
              c == released(t)
  <2>1. utf16(x) = <<high, low>>
    BY <1>6, Utf16Forms, SMT
  <2>2. /\ high \in Int /\ low \in Int
        /\ is_high_surrogate(high) /\ is_low_surrogate(low)
        /\ 1024 * (high - 55296) + low + 9216 = x
    <3>1. /\ 55296 <= high /\ high <= 56319 /\ 56320 <= low /\ low <= 57343
          /\ high \in Int /\ low \in Int
      BY <1>1, <1>6, SMT
    <3>2. 1024 * (high - 55296) + low + 9216 = x
      BY <1>1, SMT
    <3>. HIDE DEF high, low
    <3>. QED
      BY <3>1, <3>2, SurrogateRange, SMT
  <2>. HIDE DEF high, low
  <2>3. t \in T16_32 /\ t.high = high - 55296 /\ t.has_high /\ t.well_formed
    BY <1>2, <2>2, Holding, SMT
  <2>4. t16_32_call(d, high) = Result(t, <<>>)
    <3>1. ~ is_low_surrogate(high) /\ is_surrogate(high) /\ high \in Int
      BY <2>2, SurrogateRange, SMT DEF is_surrogate
    <3>. QED
      BY <1>2, <3>1, WithoutHigh
  <2>. HIDE DEF t
  <2>5. c \in T16_32 /\ ~ c.has_high /\ c.well_formed
    BY <2>3, Released
  <2>6. t16_32_call(t, low) = Result(c, <<x>>)
    <3>1. ~ is_high_surrogate(low) /\ is_surrogate(low) /\ low \in Int
      BY <2>2, SurrogateRange, SMT DEF is_surrogate
    <3>0. t \in T16_32 /\ t.has_high
      BY <2>3, SMT
    <3>2. t16_32_call(t, low) = Result(c, <<combined(t.high, low)>>)
      BY <3>0, <3>1, WithHigh
    <3>3. t.high \in Int /\ 0 <= t.high /\ t.high <= 1023
      BY <2>3, Fields, SMT
    <3>4. combined(t.high, low) = 1024 * t.high + low + 9216
      BY <2>2, <3>3, CombinedRange, SMT
    <3>. QED
      BY <2>2, <2>3, <3>2, <3>4, SMT
  <2>. HIDE DEF c
  <2>7. DecodeStep(16, Result(d, o), high) = Result(t, o)
    <3>1. decoder_call(16, d, high).coder = t /\ decoder_call(16, d, high).out = <<>>
      BY <1>3, <2>4, ResultFields
    <3>2. DecodeStep(16, Result(d, o), high)
            = Result(decoder_call(16, d, high).coder, o \o decoder_call(16, d, high).out)
      BY StepWrites
    <3>3. o \o <<>> = o
      OBVIOUS
    <3>. QED
      BY <3>1, <3>2, <3>3
  <2>8. DecodeStep(16, Result(t, o), low) = Result(c, Append(o, x))
    <3>1. decoder_call(16, t, low).coder = c /\ decoder_call(16, t, low).out = <<x>>
      BY <1>3, <2>6, ResultFields
    <3>2. DecodeStep(16, Result(t, o), low)
            = Result(decoder_call(16, t, low).coder, o \o decoder_call(16, t, low).out)
      BY StepWrites
    <3>. QED
      BY <1>4, <3>1, <3>2
  <2>9. Decoding!Folded(16, Result(d, o), <<high, low>>)
          = DecodeStep(16, DecodeStep(16, Result(d, o), high), low)
    BY Decoding!FoldTwo
  <2>10. c \in Resting(16)
    BY <2>5, Resting16
  <2>. QED
    BY <2>1, <2>7, <2>8, <2>9, <2>10, SMT
<1>. QED
  BY <1>1, <1>5, <1>6, SMT

\* A decoder at rest reads back what was written for one scalar value.
LEMMA ReadBackOne ==
  ASSUME NEW e \in Encodings, NEW d \in Resting(e), NEW x \in Scalar, NEW o \in Seq(Scalar)
  PROVE  \E c \in Resting(e) :
           Decoding!Folded(e, Result(d, o), encode(e, x)) = Result(c, Append(o, x))
<1>1. CASE e = 8
  <2>1. encode(8, x) = utf8(x)
    BY DEF encode
  <2>. QED
    BY <1>1, <2>1, ReadBack8, Resting8
<1>2. CASE e = 16
  <2>1. encode(16, x) = utf16(x)
    BY DEF encode
  <2>. QED
    BY <1>2, <2>1, ReadBack16
<1>3. CASE e = 32
  <2>1. encode(32, x) = <<x>>
    BY EncodeAsIs
  <2>2. decoder_call(32, d, x) = Result(d, <<x>>)
    BY EncodeAsIs DEF decoder_call, t32_x_call, Scalar
  <2>3. decoder_call(32, d, x).coder = d /\ decoder_call(32, d, x).out = <<x>>
    BY <2>2, ResultFields
  <2>4. DecodeStep(32, Result(d, o), x)
          = Result(decoder_call(32, d, x).coder, o \o decoder_call(32, d, x).out)
    BY StepWrites
  <2>5. o \o <<x>> = Append(o, x)
    OBVIOUS
  <2>6. Decoding!Folded(32, Result(d, o), <<x>>) = DecodeStep(32, Result(d, o), x)
    BY Decoding!FoldOne
  <2>. QED
    BY <1>3, <2>1, <2>3, <2>4, <2>5, <2>6
<1>. QED
  BY <1>1, <1>2, <1>3 DEF Encodings

(***************************************************************************)
(* For every sequence of scalar values and every encoding: what encoding   *)
(* it gives, decoded, is that sequence, and leaves the decoder at rest.    *)
(***************************************************************************)
THEOREM RoundTrip ==
  ASSUME NEW e \in Encodings, NEW d \in Resting(e), NEW units \in Seq(Scalar)
  PROVE  \E c \in Resting(e) :
           Decoding!Folded(e, Result(d, <<>>), encoded(e, units)) = Result(c, units)
<1>. DEFINE ReadAs(u) == \E c \in Resting(e) :
                           Decoding!Folded(e, Result(d, <<>>), encoded(e, u)) = Result(c, u)
            S == {u \in Seq(Scalar) : ReadAs(u)}
<1>1. <<>> \in S
  <2>1. encoded(e, <<>>) = <<>>
    BY EncodedAppend
  <2>2. Decoding!Folded(e, Result(d, <<>>), <<>>) = Result(d, <<>>)
    BY Decoding!FoldNothing
  <2>. QED
    BY <2>1, <2>2
<1>2. ASSUME NEW u \in Seq(Scalar), NEW x \in Scalar, u \in S PROVE Append(u, x) \in S
  <2>1. PICK b \in Resting(e) :
          Decoding!Folded(e, Result(d, <<>>), encoded(e, u)) = Result(b, u)
    BY <1>2
  <2>2. PICK c \in Resting(e) :
          Decoding!Folded(e, Result(b, u), encode(e, x)) = Result(c, Append(u, x))
    BY ReadBackOne
  <2>. DEFINE first == encoded(e, u)
              second == encode(e, x)
  <2>3. encoded(e, Append(u, x)) = first \o second
    BY EncodedAppend
  <2>4. first \in Seq(EncodedUnit(e)) /\ second \in Seq(EncodedUnit(e))
    <3>1. first \in Seq(EncodedUnit(e))
      BY CopyEncodes
    <3>2. second \in Seq(EncodedUnit(e))
      BY EncodeType
    <3>. QED
      BY <3>1, <3>2
  <2>. HIDE DEF first, second
  <2>5. Decoding!Folded(e, Result(d, <<>>), first \o second)
          = Decoding!Folded(e, Decoding!Folded(e, Result(d, <<>>), first), second)
    BY <2>4, Decoding!FoldConcat
  <2>6. ReadAs(Append(u, x))
    BY <2>1, <2>2, <2>3, <2>5 DEF first, second
  <2>7. Append(u, x) \in Seq(Scalar)
    OBVIOUS
  <2>. QED
    BY <2>6, <2>7
<1>. HIDE DEF S
<1>3. units \in S
  BY <1>1, <1>2, Decoding!SequenceInduction
<1>. QED
  BY <1>3 DEF S


-----------------------------------------------------------------------------
(***************************************************************************)
(* The objects a transcoder<from, to> may be, what its calls return, and a *)
(* conversion by hand as a fold of them.                                   *)
(***************************************************************************)
Object(from, to) == {object(from, to, d) : d \in Decoder(from)}

\* What a call of a transcoder may return.
Returned(objects, to, r) ==
  r = Result(r.coder, r.out) /\ r.coder \in objects /\ r.out \in Seq(EncodedUnit(to))

\* What a decoder writes is encoded as code units, and leaves one of the objects.
LEMMA DecodedReturned ==
  ASSUME NEW from \in Encodings, NEW to \in Encodings, NEW d, NEW r, Decodes(from, d, r),
         NEW called, called = Result(object(from, to, r.coder), encoded(to, r.out))
  PROVE  Returned(Object(from, to), to, called)
<1>1. called.coder = object(from, to, r.coder) /\ called.out = encoded(to, r.out)
  BY ResultFields
<1>2. r.coder \in Decoder(from) /\ MayWrite(from, r.out)
  BY DEF Decodes
<1>3. encoded(to, r.out) \in Seq(EncodedUnit(to))
  BY <1>2, EncodedLength
<1>. QED
  BY <1>1, <1>2, <1>3 DEF Returned, Object

\* A constructed transcoder is one of the objects, and every call leaves one.
LEMMA CallReturned ==
  ASSUME NEW from \in Encodings, NEW to \in Encodings
  PROVE  /\ transcoder(from, to) \in Object(from, to)
         /\ \A t \in Object(from, to) :
              /\ \A unit \in CodeUnit(from) :
                   Returned(Object(from, to), to, call(from, to, t, unit))
              /\ Returned(Object(from, to), to, end_cp(from, to, t))
<1>1. transcoder(from, to) \in Object(from, to)
  BY ConstructedObject DEF Object
<1>2. ASSUME NEW t \in Object(from, to), NEW unit \in CodeUnit(from)
      PROVE  Returned(Object(from, to), to, call(from, to, t, unit))
  <2>1. PICK d \in Decoder(from) : t = object(from, to, d)
    BY DEF Object
  <2>2. Decodes(from, d, decoder_call(from, d, unit))
    BY DecoderDecodes
  <2>3. call(from, to, object(from, to, d), unit)
          = Result(object(from, to, decoder_call(from, d, unit).coder),
                   encoded(to, decoder_call(from, d, unit).out))
    BY CallEncodes
  <2>. QED
    BY <2>1, <2>2, <2>3, DecodedReturned
<1>3. ASSUME NEW t \in Object(from, to)
      PROVE  Returned(Object(from, to), to, end_cp(from, to, t))
  <2>1. PICK d \in Decoder(from) : t = object(from, to, d)
    BY DEF Object
  <2>2. Decodes(from, d, decoder_end_cp(from, d))
    BY DecoderDecodes
  <2>3. end_cp(from, to, object(from, to, d))
          = Result(object(from, to, decoder_end_cp(from, d).coder),
                   encoded(to, decoder_end_cp(from, d).out))
    BY EndCpEncodes
  <2>. QED
    BY <2>1, <2>2, <2>3, DecodedReturned
<1>. QED
  BY <1>1, <1>2, <1>3

FeedStep(pair, r, unit) == then(r, any_call(pair[1], pair[2], r.coder, unit))
Feeding == INSTANCE FoldTheorems WITH Step <- FeedStep

\* A conversion by hand is a fold of operator().
LEMMA FedIsFold ==
  ASSUME NEW pair, NEW units
  PROVE  fed(pair[1], pair[2], units)
           = Feeding!Folded(pair, Result(any_transcoder(pair[1], pair[2]), <<>>), units)
  BY DEF fed, Feeding!Folded, Feeding!FoldLeft, Feeding!MapThenFoldSet, Feeding!Max,
         FoldLeft, MapThenFoldSet, Max, FeedStep

\* Of nothing it is the constructed transcoder.
LEMMA FedNothing ==
  ASSUME NEW from, NEW to
  PROVE  fed(from, to, <<>>) = Result(any_transcoder(from, to), <<>>)
<1>. DEFINE pair == <<from, to>>
            base == Result(any_transcoder(pair[1], pair[2]), <<>>)
<1>1. pair[1] = from /\ pair[2] = to
  OBVIOUS
<1>. HIDE DEF pair
<1>2. fed(pair[1], pair[2], <<>>) = Feeding!Folded(pair, base, <<>>)
  BY FedIsFold
<1>3. Feeding!Folded(pair, base, <<>>) = base
  BY Feeding!FoldNothing
<1>. QED
  BY <1>1, <1>2, <1>3

\* Each unit is one call more.
LEMMA FedAppend ==
  ASSUME NEW from, NEW to, NEW T, NEW units \in Seq(T), NEW unit \in T
  PROVE  fed(from, to, Append(units, unit))
           = then(fed(from, to, units), any_call(from, to, fed(from, to, units).coder, unit))
<1>. DEFINE pair == <<from, to>>
            base == Result(any_transcoder(pair[1], pair[2]), <<>>)
<1>1. pair[1] = from /\ pair[2] = to
  OBVIOUS
<1>. HIDE DEF pair
<1>2. fed(from, to, Append(units, unit)) = Feeding!Folded(pair, base, Append(units, unit))
  BY <1>1, FedIsFold
<1>3. fed(from, to, units) = Feeding!Folded(pair, base, units)
  BY <1>1, FedIsFold
<1>. HIDE DEF base
<1>4. Feeding!Folded(pair, base, Append(units, unit))
        = FeedStep(pair, Feeding!Folded(pair, base, units), unit)
  BY Feeding!FoldAppend
<1>5. fed(from, to, Append(units, unit)) = FeedStep(pair, fed(from, to, units), unit)
  BY <1>2, <1>3, <1>4
<1>. QED
  BY <1>1, <1>5 DEF FeedStep

-----------------------------------------------------------------------------
(***************************************************************************)
(* The objects of transcoder<std::byte, to>: one that waits for the end of *)
(* a mark, with no transcoder of its own, and one that runs.               *)
(***************************************************************************)
Buffer == [0 .. 3 -> Byte]

waiting(s, buffer) == [state |-> s, buffer |-> buffer, variant |-> monostate]
running(s, buffer, coder) ==
  [state |-> s, buffer |-> buffer, variant |-> [from |-> s.encoding, coder |-> coder]]

WaitingObject == {waiting(s, buffer) : s \in BomStates, buffer \in Buffer}
RunningObject(to) ==
  UNION {{running(s, buffer, c) : buffer \in Buffer, c \in Object(s.encoding, to)} : s \in RunStates}

\* Every run state has the fields of one.
LEMMA RunState ==
  ASSUME NEW s \in RunStates
  PROVE  /\ s.encoding \in Encodings /\ s.endian \in {"be", "le"} /\ s.mode = "run"
         /\ s.byte_no \in 0 .. 3 /\ s.byte_no < s.encoding \div 8
         /\ s = state(s.encoding, s.endian, "run", s.byte_no)
         /\ s = run_8 <=> s.encoding = 8
         /\ s.encoding = 8 => s.endian = "be"
<1>1. \/ s = run_8
      \/ \E e \in {"be", "le"}, n \in 0 .. 1 : s = state(16, e, "run", n)
      \/ \E e \in {"be", "le"}, n \in 0 .. 3 : s = state(32, e, "run", n)
  BY DEF RunStates
<1>. QED
  BY <1>1 DEF run_8, state, Encodings

\* The run states are these.
LEMMA RunStateOf ==
  ASSUME NEW e \in {"be", "le"}
  PROVE  /\ run_8 \in RunStates /\ run_8 = state(8, "be", "run", 0)
         /\ \A n \in 0 .. 1 : state(16, e, "run", n) \in RunStates
         /\ \A n \in 0 .. 3 : state(32, e, "run", n) \in RunStates
  BY DEF RunStates, run_8

\* A state has the fields it was made of.
LEMMA StateFields ==
  ASSUME NEW encoding, NEW endian, NEW mode, NEW n, NEW m
  PROVE  /\ state(encoding, endian, mode, n).encoding = encoding
         /\ state(encoding, endian, mode, n).endian = endian
         /\ state(encoding, endian, mode, n).mode = mode
         /\ state(encoding, endian, mode, n).byte_no = n
         /\ set_byte(state(encoding, endian, mode, n), m) = state(encoding, endian, mode, m)
         /\ next_byte(state(encoding, endian, mode, n)) = state(encoding, endian, mode, n + 1)
         /\ set_run_mode(state(encoding, endian, mode, n)) = state(encoding, endian, "run", n)
  BY DEF state, set_byte, next_byte, set_run_mode

\* An object has the fields it was made of.
LEMMA WaitingFields ==
  ASSUME NEW s, NEW buffer
  PROVE  /\ waiting(s, buffer).state = s /\ waiting(s, buffer).buffer = buffer
         /\ waiting(s, buffer).variant = monostate
  BY DEF waiting

\* And so does one that runs; its variant does not hold monostate.
LEMMA RunningFields ==
  ASSUME NEW s, NEW buffer, NEW coder
  PROVE  /\ running(s, buffer, coder).state = s /\ running(s, buffer, coder).buffer = buffer
         /\ running(s, buffer, coder).variant.from = s.encoding
         /\ running(s, buffer, coder).variant.coder = coder
  BY DEF running

\* An object changes field by field.
LEMMA WaitingChanged ==
  ASSUME NEW s, NEW buffer, NEW n
  PROVE  [waiting(s, buffer) EXCEPT !.state = n] = waiting(n, buffer)
  BY DEF waiting

\* One that starts to run is given a transcoder.
emplaced(t, e, to, n) == [t EXCEPT !.variant = alternative(e, to), !.state = n]

\* It is then an object that runs.
LEMMA Emplaced ==
  ASSUME NEW s, NEW buffer, NEW n, NEW e, NEW to, n.encoding = e
  PROVE  emplaced(waiting(s, buffer), e, to, n) = running(n, buffer, transcoder(e, to))
<1>. DEFINE v == alternative(e, to)
<1>1. [waiting(s, buffer) EXCEPT !.variant = v, !.state = n]
        = [[waiting(s, buffer) EXCEPT !.variant = v] EXCEPT !.state = n]
  OBVIOUS
<1>2. [waiting(s, buffer) EXCEPT !.variant = v] = [state |-> s, buffer |-> buffer, variant |-> v]
  BY DEF waiting
<1>3. [[state |-> s, buffer |-> buffer, variant |-> v] EXCEPT !.state = n]
        = [state |-> n, buffer |-> buffer, variant |-> v]
  OBVIOUS
<1>. QED
  BY <1>1, <1>2, <1>3 DEF running, alternative, emplaced

\* Among them the one for UTF-8.
LEMMA EmplacedRun8 ==
  ASSUME NEW s, NEW buffer, NEW to
  PROVE  emplaced(waiting(s, buffer), 8, to, run_8) = running(run_8, buffer, transcoder(8, to))
<1>1. run_8.encoding = 8
  BY DEF run_8, state
<1>. QED
  BY <1>1, Emplaced

\* One that runs changes field by field, too.
LEMMA RunningChanged ==
  ASSUME NEW s, NEW buffer, NEW coder, NEW n, NEW c
  PROVE  /\ n.encoding = s.encoding =>
              [running(s, buffer, coder) EXCEPT !.state = n] = running(n, buffer, coder)
         /\ [running(s, buffer, coder) EXCEPT !.variant.coder = c] = running(s, buffer, c)
<1>1. n.encoding = s.encoding =>
        [running(s, buffer, coder) EXCEPT !.state = n] = running(n, buffer, coder)
  BY DEF running
<1>2. [running(s, buffer, coder) EXCEPT !.variant.coder = c]
        = [state |-> s, buffer |-> buffer,
           variant |-> [[from |-> s.encoding, coder |-> coder] EXCEPT !.coder = c]]
  BY DEF running
<1>3. [[from |-> s.encoding, coder |-> coder] EXCEPT !.coder = c]
        = [from |-> s.encoding, coder |-> c]
  OBVIOUS
<1>. QED
  BY <1>1, <1>2, <1>3 DEF running

with_byte(buffer, n, b) == [buffer EXCEPT ![n] = b]

\* Writing a byte to the buffer of an object that waits.
LEMMA WaitingBuffered ==
  ASSUME NEW s, NEW buffer, NEW b
  PROVE  buffered(waiting(s, buffer), b) = waiting(s, with_byte(buffer, s.byte_no, b))
  BY DEF buffered, waiting, with_byte

\* And to that of one that runs.
LEMMA RunningBuffered ==
  ASSUME NEW s, NEW buffer, NEW coder, NEW b
  PROVE  buffered(running(s, buffer, coder), b)
           = running(s, with_byte(buffer, s.byte_no, b), coder)
  BY DEF buffered, running, with_byte

\* The buffer stays one.
LEMMA StillBuffer ==
  ASSUME NEW buffer \in Buffer, NEW n \in 0 .. 3, NEW b \in Byte
  PROVE  with_byte(buffer, n, b) \in Buffer
  BY DEF Buffer, with_byte

\* The held transcoder is called with a code unit.
LEMMA HeldCall ==
  ASSUME NEW to, NEW s, NEW buffer, NEW coder, NEW o, NEW unit
  PROVE  passed_to_variant(to, Result(running(s, buffer, coder), o), unit)
           = Result(running(s, buffer, call(s.encoding, to, coder, unit).coder),
                    o \o call(s.encoding, to, coder, unit).out)
<1>. DEFINE t == running(s, buffer, coder)
            r == call(s.encoding, to, coder, unit)
<1>1. Result(t, o).coder = t /\ Result(t, o).out = o
  BY ResultFields
<1>2. call(t.variant.from, to, t.variant.coder, unit) = r
  BY RunningFields
<1>3. [t EXCEPT !.variant.coder = r.coder] = running(s, buffer, r.coder)
  BY RunningChanged
<1>. HIDE DEF t, r
<1>4. passed_to_variant(to, Result(t, o), unit) = then(Result(t, o), held_after(t, r))
  BY <1>1, <1>2 DEF passed_to_variant
<1>5. held_after(t, r) = Result(running(s, buffer, r.coder), r.out)
  BY <1>3 DEF held_after
<1>6. then(Result(t, o), Result(running(s, buffer, r.coder), r.out))
        = Result(running(s, buffer, r.coder), o \o r.out)
  BY DEF then, Result
<1>. QED
  BY <1>4, <1>5, <1>6 DEF t, r

\* In run mode operator() is run_byte.
LEMMA RunBranch ==
  ASSUME NEW to, NEW t, t.state \in RunStates, NEW b
  PROVE  byte_call(to, t, b) = run_byte(to, t, b)
<1>1. t.state.mode = "run"
  BY RunState
<1>2. start.mode = "bom" /\ utf32_or_16_le_bom_byte2.mode = "bom"
  BY DEF start, utf32_or_16_le_bom_byte2, state
<1>3. t.state # start /\ t.state # utf32_or_16_le_bom_byte2
  BY <1>1, <1>2
<1>. QED
  BY <1>1, <1>3 DEF byte_call

\* A byte that does not complete a code unit is kept.
LEMMA RunKeeps ==
  ASSUME NEW to, NEW s \in RunStates, NEW buffer, NEW coder, NEW b,
         s # run_8, ~ is_last_byte(s)
  PROVE  byte_call(to, running(s, buffer, coder), b)
           = Result(running(next_byte(s), with_byte(buffer, s.byte_no, b), coder), <<>>)
<1>. DEFINE t == running(s, buffer, coder)
            kept == with_byte(buffer, s.byte_no, b)
<1>1. t.state = s
  BY RunningFields
<1>2. buffered(t, b) = running(s, kept, coder)
  BY RunningBuffered
<1>. HIDE DEF t, kept
<1>3. byte_call(to, t, b) = run_byte(to, t, b)
  BY <1>1, RunBranch
<1>4. run_byte(to, t, b) = in_state(buffered(t, b), next_byte(s))
  BY <1>1 DEF run_byte
<1>5. next_byte(s).encoding = s.encoding
  <2>1. s = state(s.encoding, s.endian, "run", s.byte_no)
    BY RunState
  <2>. QED
    BY <2>1, StateFields
<1>6. [running(s, kept, coder) EXCEPT !.state = next_byte(s)] = running(next_byte(s), kept, coder)
  BY <1>5, RunningChanged
<1>. QED
  BY <1>2, <1>3, <1>4, <1>6 DEF in_state, t, kept

\* The code unit that the byte b completes.
completed(s, buffer, coder, b) ==
  IF s = run_8 THEN b ELSE char_from_buffer(running(s, buffer, coder), b)

\* A byte that completes a code unit has the held transcoder called with it.
LEMMA RunPasses ==
  ASSUME NEW to, NEW s \in RunStates, NEW buffer, NEW coder, NEW b,
         s = run_8 \/ is_last_byte(s),
         LET r == call(s.encoding, to, coder, completed(s, buffer, coder, b))
         IN  <<>> \o r.out = r.out
  PROVE  byte_call(to, running(s, buffer, coder), b)
           = Result(running(set_byte(s, 0), buffer,
                            call(s.encoding, to, coder, completed(s, buffer, coder, b)).coder),
                    call(s.encoding, to, coder, completed(s, buffer, coder, b)).out)
<1>. DEFINE t == running(s, buffer, coder)
            unit == completed(s, buffer, coder, b)
            r == call(s.encoding, to, coder, unit)
<1>1. t.state = s
  BY RunningFields
<1>2. <<>> \o r.out = r.out
  OBVIOUS
<1>3. byte_call(to, t, b) = run_byte(to, t, b)
  BY <1>1, RunBranch
<1>6. unit = IF s = run_8 THEN b ELSE char_from_buffer(t, b)
  BY DEF completed
<1>. HIDE DEF unit
<1>4. CASE s = run_8
  <2>1. run_byte(to, t, b) = passed_to_variant(to, Result(t, <<>>), unit)
    <3>. HIDE DEF t
    <3>. QED
      BY <1>1, <1>4, <1>6 DEF run_byte
  <2>2. passed_to_variant(to, Result(t, <<>>), unit) = Result(running(s, buffer, r.coder), <<>> \o r.out)
    <3>1. ASSUME NEW o
          PROVE  passed_to_variant(to, Result(t, o), unit)
                   = Result(running(s, buffer, r.coder), o \o r.out)
      BY HeldCall
    <3>. QED
      BY <3>1
  <2>3. set_byte(s, 0) = s
    BY <1>4, StateFields DEF run_8
  <2>. HIDE DEF t, r
  <2>4. byte_call(to, t, b) = Result(running(set_byte(s, 0), buffer, r.coder), r.out)
    BY <1>2, <1>3, <2>1, <2>2, <2>3
  <2>. QED
    BY <2>4 DEF t, r, unit
<1>5. CASE s # run_8
  <2>1. run_byte(to, t, b)
          = passed_to_variant(to, Result([t EXCEPT !.state = set_byte(s, 0)], <<>>), unit)
    <3>1. is_last_byte(s)
      BY <1>5
    <3>. HIDE DEF t
    <3>. QED
      BY <1>1, <1>5, <1>6, <3>1 DEF run_byte
  <2>2. set_byte(s, 0).encoding = s.encoding
    <3>1. s = state(s.encoding, s.endian, "run", s.byte_no)
      BY RunState
    <3>. QED
      BY <3>1, StateFields
  <2>3. [t EXCEPT !.state = set_byte(s, 0)] = running(set_byte(s, 0), buffer, coder)
    BY <2>2, RunningChanged
  <2>. DEFINE n == set_byte(s, 0)
  <2>4. passed_to_variant(to, Result(running(n, buffer, coder), <<>>), unit)
          = Result(running(n, buffer, r.coder), <<>> \o r.out)
    <3>1. ASSUME NEW o
          PROVE  passed_to_variant(to, Result(running(n, buffer, coder), o), unit)
                   = Result(running(n, buffer, call(n.encoding, to, coder, unit).coder),
                            o \o call(n.encoding, to, coder, unit).out)
      BY HeldCall
    <3>. QED
      BY <2>2, <3>1
  <2>. HIDE DEF t, r, n
  <2>5. byte_call(to, t, b) = Result(running(n, buffer, r.coder), r.out)
    BY <1>2, <1>3, <2>1, <2>3, <2>4 DEF n
  <2>. QED
    BY <2>5 DEF t, r, n, unit
<1>. QED
  BY <1>4, <1>5

\* Nor is anything else returned by calls one after the other.
LEMMA ThenReturned ==
  ASSUME NEW objects, NEW to, NEW r, NEW later, r.out \in Seq(EncodedUnit(to)),
         Returned(objects, to, later)
  PROVE  Returned(objects, to, then(r, later))
<1>. DEFINE o == r.out \o later.out
<1>1. o \in Seq(EncodedUnit(to))
  BY DEF Returned
<1>. HIDE DEF o
<1>2. then(r, later) = Result(later.coder, o)
  BY DEF then, o
<1>3. Result(later.coder, o).coder = later.coder /\ Result(later.coder, o).out = o
  BY ResultFields
<1>. QED
  BY <1>1, <1>2, <1>3 DEF Returned

\* What a conversion by hand has written, and the object it leaves.
LEMMA FedReturned ==
  ASSUME NEW e \in Encodings, NEW to \in Encodings, NEW units \in Seq(CodeUnit(e))
  PROVE  Returned(Object(e, to), to, fed(e, to, units))
<1>. DEFINE S == {u \in Seq(CodeUnit(e)) : Returned(Object(e, to), to, fed(e, to, u))}
<1>0. e # std_byte
  BY DEF Encodings, std_byte
<1>1. <<>> \in S
  <2>1. fed(e, to, <<>>) = Result(transcoder(e, to), <<>>)
    BY <1>0, FedNothing DEF any_transcoder
  <2>2. transcoder(e, to) \in Object(e, to)
    BY CallReturned
  <2>3. fed(e, to, <<>>).coder = transcoder(e, to) /\ fed(e, to, <<>>).out = <<>>
    BY <2>1, ResultFields
  <2>4. <<>> \in Seq(EncodedUnit(to)) /\ <<>> \in Seq(CodeUnit(e))
    OBVIOUS
  <2>5. Returned(Object(e, to), to, fed(e, to, <<>>))
    BY <2>1, <2>2, <2>3, <2>4 DEF Returned
  <2>. QED
    BY <2>4, <2>5
<1>2. ASSUME NEW u \in Seq(CodeUnit(e)), NEW x \in CodeUnit(e), u \in S PROVE Append(u, x) \in S
  <2>. DEFINE r == fed(e, to, u)
              later == call(e, to, r.coder, x)
  <2>1. Returned(Object(e, to), to, r)
    BY <1>2
  <2>2. Returned(Object(e, to), to, later)
    BY <2>1, CallReturned DEF Returned
  <2>3. fed(e, to, Append(u, x)) = then(r, any_call(e, to, r.coder, x))
    BY FedAppend
  <2>4. any_call(e, to, r.coder, x) = later
    BY <1>0 DEF any_call
  <2>. HIDE DEF r, later
  <2>5. Returned(Object(e, to), to, then(r, later))
    BY <2>1, <2>2, ThenReturned DEF Returned
  <2>6. Append(u, x) \in Seq(CodeUnit(e))
    OBVIOUS
  <2>. QED
    BY <2>3, <2>4, <2>5, <2>6
<1>. HIDE DEF S
<1>3. units \in S
  BY <1>1, <1>2, Feeding!SequenceInduction
<1>. QED
  BY <1>3 DEF S

-----------------------------------------------------------------------------
(***************************************************************************)
(* run8_start gives the new UTF-8 transcoder the bytes that were taken for *)
(* those of a mark: a fold, once more.                                     *)
(***************************************************************************)
Replaying == INSTANCE FoldTheorems WITH Step <- passed_to_variant

\* Replaying bytes leaves and writes what converting them by hand does.
LEMMA ReplayIsFed ==
  ASSUME NEW to \in Encodings, NEW buffer, NEW bytes \in Seq(Byte)
  PROVE  Replaying!Folded(to, Result(running(run_8, buffer, transcoder(8, to)), <<>>), bytes)
           = Result(running(run_8, buffer, fed(8, to, bytes).coder), fed(8, to, bytes).out)
<1>. DEFINE base == Result(running(run_8, buffer, transcoder(8, to)), <<>>)
            After(u) == Result(running(run_8, buffer, fed(8, to, u).coder), fed(8, to, u).out)
            S == {u \in Seq(Byte) : Replaying!Folded(to, base, u) = After(u)}
<1>0. 8 # std_byte /\ run_8.encoding = 8
  BY DEF std_byte, run_8, state
<1>1. <<>> \in S
  <2>1. fed(8, to, <<>>) = Result(transcoder(8, to), <<>>)
    BY <1>0, FedNothing DEF any_transcoder
  <2>2. fed(8, to, <<>>).coder = transcoder(8, to) /\ fed(8, to, <<>>).out = <<>>
    BY <2>1, ResultFields
  <2>3. Replaying!Folded(to, base, <<>>) = base
    BY Replaying!FoldNothing
  <2>. QED
    BY <2>2, <2>3
<1>2. ASSUME NEW u \in Seq(Byte), NEW b \in Byte, u \in S PROVE Append(u, b) \in S
  <2>. DEFINE r == fed(8, to, u)
              t == running(run_8, buffer, r.coder)
              later == call(8, to, r.coder, b)
  <2>1. Replaying!Folded(to, base, Append(u, b))
          = passed_to_variant(to, Replaying!Folded(to, base, u), b)
    <3>. HIDE DEF base
    <3>. QED
      BY Replaying!FoldAppend
  <2>2. Replaying!Folded(to, base, u) = Result(t, r.out)
    BY <1>2
  <2>3. passed_to_variant(to, Result(t, r.out), b)
          = Result(running(run_8, buffer, later.coder), r.out \o later.out)
    BY <1>0, HeldCall
  <2>4. fed(8, to, Append(u, b)) = then(r, later)
    <3>1. fed(8, to, Append(u, b)) = then(r, any_call(8, to, r.coder, b))
      BY FedAppend
    <3>. QED
      BY <3>1, <1>0 DEF any_call
  <2>5. then(r, later).coder = later.coder /\ then(r, later).out = r.out \o later.out
    BY ResultFields DEF then
  <2>6. Append(u, b) \in Seq(Byte)
    OBVIOUS
  <2>7. Replaying!Folded(to, base, Append(u, b))
          = Result(running(run_8, buffer, later.coder), r.out \o later.out)
    BY <2>1, <2>2, <2>3
  <2>. HIDE DEF base, r, t, later
  <2>8. After(Append(u, b)) = Result(running(run_8, buffer, later.coder), r.out \o later.out)
    BY <2>4, <2>5
  <2>. QED
    BY <2>6, <2>7, <2>8
<1>. HIDE DEF S
<1>3. bytes \in S
  BY <1>1, <1>2, Replaying!SequenceInduction
<1>. QED
  BY <1>3 DEF S

\* The bytes that are in the buffer of one that waits, up to the current one.
pending(s, buffer) == [n \in 1 .. s.byte_no + 1 |-> buffer[n - 1]]

\* What run8_start leaves and writes.
LEMMA Run8Start ==
  ASSUME NEW to \in Encodings, NEW s, NEW buffer, NEW copy_buffer \in BOOLEAN,
         NEW bytes \in Seq(Byte),
         copy_buffer = TRUE => bytes = pending(s, buffer),
         copy_buffer = FALSE => bytes = <<>>
  PROVE  run8_start(to, waiting(s, buffer), copy_buffer)
           = Result(running(run_8, buffer, fed(8, to, bytes).coder), fed(8, to, bytes).out)
<1>. DEFINE t == waiting(s, buffer)
            input == [t EXCEPT !.variant = alternative(8, to), !.state = run_8]
            copied == IF copy_buffer THEN [n \in 1 .. t.state.byte_no + 1 |-> t.buffer[n - 1]]
                      ELSE <<>>
<1>1. run8_start(to, t, copy_buffer) = Replaying!Folded(to, Result(input, <<>>), copied)
  <2>. HIDE DEF t
  <2>. QED
    BY Zenon
    DEF run8_start, Replaying!Folded, Replaying!FoldLeft, Replaying!MapThenFoldSet,
        Replaying!Max, FoldLeft, MapThenFoldSet, Max
<1>2. input = running(run_8, buffer, transcoder(8, to))
  <2>1. input = emplaced(t, 8, to, run_8)
    <3>. HIDE DEF t
    <3>. QED
      BY DEF emplaced
  <2>2. emplaced(t, 8, to, run_8) = running(run_8, buffer, transcoder(8, to))
    BY EmplacedRun8
  <2>. HIDE DEF input, t
  <2>. QED
    BY <2>1, <2>2
<1>4. copied = bytes
  <2>1. t.state = s /\ t.buffer = buffer
    BY WaitingFields
  <2>2. CASE copy_buffer = TRUE
    <3>. HIDE DEF t
    <3>. QED
      BY <2>1, <2>2 DEF pending
  <2>3. CASE copy_buffer = FALSE
    <3>. HIDE DEF t
    <3>. QED
      BY <2>3
  <2>. QED
    BY <2>2, <2>3
<1>. HIDE DEF t, input, copied
<1>3. Replaying!Folded(to, Result(running(run_8, buffer, transcoder(8, to)), <<>>), bytes)
        = Result(running(run_8, buffer, fed(8, to, bytes).coder), fed(8, to, bytes).out)
  BY ReplayIsFed
<1>. QED
  BY <1>1, <1>2, <1>3, <1>4 DEF t

\* When it is not to copy the buffer, and when it is.
LEMMA Run8StartEmpty ==
  ASSUME NEW to \in Encodings, NEW s, NEW buffer
  PROVE  run8_start(to, waiting(s, buffer), FALSE)
           = Result(running(run_8, buffer, fed(8, to, <<>>).coder), fed(8, to, <<>>).out)
<1>1. <<>> \in Seq(Byte) /\ FALSE \in BOOLEAN
  OBVIOUS
<1>. QED
  BY <1>1, Run8Start

\* The bytes of the abandoned mark go to the UTF-8 transcoder.
LEMMA Run8StartPending ==
  ASSUME NEW to \in Encodings, NEW s, NEW buffer, pending(s, buffer) \in Seq(Byte)
  PROVE  LET r == fed(8, to, pending(s, buffer))
         IN  run8_start(to, waiting(s, buffer), TRUE) = Result(running(run_8, buffer, r.coder), r.out)
<1>1. TRUE \in BOOLEAN
  OBVIOUS
<1>. QED
  BY <1>1, Run8Start, ZenonT(60)

\* The marks that are looked for, byte by byte.
LEMMA BomValues ==
  /\ boms(8, "be")[1] = 239 /\ boms(16, "be")[1] = 254
  /\ boms(16, "le")[1] = 255 /\ boms(32, "be")[1] = 0
  /\ bom_value(utf8_bom_byte1) = 187 /\ bom_value(utf8_bom_byte2) = 191
  /\ bom_value(utf16_be_bom_byte1) = 255
  /\ bom_value(utf32_or_16_be_bom_byte1) = 0 /\ bom_value(utf32_be_bom_byte2) = 254
  /\ bom_value(utf32_be_bom_byte3) = 255
  /\ bom_value(utf32_or_16_le_bom_byte1) = 254 /\ bom_value(utf32_or_16_le_bom_byte2) = 0
  /\ bom_value(utf32_le_bom_byte3) = 0
  BY SMT DEF boms, bom_value, state, utf8_bom_byte1, utf8_bom_byte2, utf16_be_bom_byte1,
     utf32_or_16_be_bom_byte1, utf32_be_bom_byte2, utf32_be_bom_byte3,
     utf32_or_16_le_bom_byte1, utf32_or_16_le_bom_byte2, utf32_le_bom_byte3

\* The states of the marks differ from one another, and from those of run mode.
LEMMA BomState ==
  ASSUME NEW s \in BomStates
  PROVE  /\ s.mode = "bom" /\ s.byte_no \in 0 .. 3
         /\ s.byte_no = 3 <=> s \in {utf32_be_bom_byte3, utf32_le_bom_byte3}
         /\ s.byte_no = 0 <=> s = start
         /\ utf8_bom_byte2 # utf16_be_bom_byte1
         /\ start # utf32_or_16_le_bom_byte2
  BY DEF BomStates, state, start, utf8_bom_byte1, utf8_bom_byte2, utf16_be_bom_byte1,
     utf32_or_16_be_bom_byte1, utf32_be_bom_byte2, utf32_be_bom_byte3,
     utf32_or_16_le_bom_byte1, utf32_or_16_le_bom_byte2, utf32_le_bom_byte3

\* After the byte b, the mark may go on, ...
GoesOn(r, n, buffer) == r = Result(waiting(n, buffer), <<>>)
\* ... or it has been found, ...
Found(to, r, n, buffer) == r = Result(running(n, buffer, transcoder(n.encoding, to)), <<>>)
\* ... or there is none and the bytes up to this one are UTF-8.
GivesUp(to, r, s, buffer) == r = run8_start(to, waiting(s, buffer), TRUE)

\* The first bytes of the marks.
LEMMA FirstBytes ==
  ASSUME NEW to, NEW t, NEW b
  PROVE  /\ b = 239 => start_state(to, t, b) = in_state(t, utf8_bom_byte1)
         /\ b = 254 => start_state(to, t, b) = in_state(t, utf16_be_bom_byte1)
         /\ b = 255 => start_state(to, t, b) = in_state(t, utf32_or_16_le_bom_byte1)
         /\ b = 0 => start_state(to, t, b) = in_state(t, utf32_or_16_be_bom_byte1)
         /\ b \notin {0, 239, 254, 255} => start_state(to, t, b) = run8_start(to, t, TRUE)
<1>1. ASSUME b = 239 PROVE start_state(to, t, b) = in_state(t, utf8_bom_byte1)
  <2>1. b = boms(8, "be")[1]
    BY <1>1, BomValues
  <2>2. b # boms(16, "be")[1] /\ b # boms(16, "le")[1] /\ b # boms(32, "be")[1]
    BY <1>1, BomValues
  <2>. QED
    BY <2>1, <2>2 DEF start_state
<1>2. ASSUME b = 254 PROVE start_state(to, t, b) = in_state(t, utf16_be_bom_byte1)
  <2>1. b = boms(16, "be")[1]
    BY <1>2, BomValues
  <2>2. b # boms(8, "be")[1] /\ b # boms(16, "le")[1] /\ b # boms(32, "be")[1]
    BY <1>2, BomValues
  <2>. QED
    BY <2>1, <2>2 DEF start_state
<1>3. ASSUME b = 255 PROVE start_state(to, t, b) = in_state(t, utf32_or_16_le_bom_byte1)
  <2>1. b = boms(16, "le")[1]
    BY <1>3, BomValues
  <2>2. b # boms(8, "be")[1] /\ b # boms(16, "be")[1] /\ b # boms(32, "be")[1]
    BY <1>3, BomValues
  <2>. QED
    BY <2>1, <2>2 DEF start_state
<1>4. ASSUME b = 0 PROVE start_state(to, t, b) = in_state(t, utf32_or_16_be_bom_byte1)
  <2>1. b = boms(32, "be")[1]
    BY <1>4, BomValues
  <2>2. b # boms(8, "be")[1] /\ b # boms(16, "be")[1] /\ b # boms(16, "le")[1]
    BY <1>4, BomValues
  <2>. QED
    BY <2>1, <2>2 DEF start_state
<1>5. ASSUME b \notin {0, 239, 254, 255} PROVE start_state(to, t, b) = run8_start(to, t, TRUE)
  <2>1. /\ b # boms(8, "be")[1] /\ b # boms(16, "be")[1]
        /\ b # boms(16, "le")[1] /\ b # boms(32, "be")[1]
    BY <1>5, BomValues
  <2>. QED
    BY <2>1 DEF start_state
<1>. QED
  BY <1>1, <1>2, <1>3, <1>4, <1>5

\* What the first byte of a stream does.
LEMMA StartCall ==
  ASSUME NEW to, NEW buffer, NEW b, NEW r, r = byte_call(to, waiting(start, buffer), b),
         NEW kept, kept = with_byte(buffer, 0, b)
  PROVE  /\ b = 239 => GoesOn(r, utf8_bom_byte1, kept)
         /\ b = 254 => GoesOn(r, utf16_be_bom_byte1, kept)
         /\ b = 255 => GoesOn(r, utf32_or_16_le_bom_byte1, kept)
         /\ b = 0 => GoesOn(r, utf32_or_16_be_bom_byte1, kept)
         /\ b \notin {0, 239, 254, 255} => GivesUp(to, r, start, kept)
<1>. DEFINE t == waiting(start, buffer)
            w == waiting(start, kept)
<1>1. t.state = start
  BY WaitingFields
<1>2. buffered(t, b) = w
  <2>1. buffered(t, b) = waiting(start, with_byte(buffer, start.byte_no, b))
    BY WaitingBuffered
  <2>2. start.byte_no = 0
    BY DEF start, state
  <2>. QED
    BY <2>1, <2>2
<1>3. ASSUME NEW n PROVE in_state(w, n) = Result(waiting(n, kept), <<>>)
  <2>1. [w EXCEPT !.state = n] = waiting(n, kept)
    BY WaitingChanged
  <2>. QED
    BY <2>1 DEF in_state
<1>4. r = byte_call(to, t, b)
  OBVIOUS
<1>. HIDE DEF t, w
<1>5. byte_call(to, t, b) = start_state(to, w, b)
  <2>1. start # utf32_or_16_le_bom_byte2 /\ start.mode # "run"
    BY DEF start, utf32_or_16_le_bom_byte2, state
  <2>. QED
    BY <1>1, <1>2, <2>1 DEF byte_call
<1>6. b = 239 => GoesOn(r, utf8_bom_byte1, kept)
  <2>1. b = 239 => r = in_state(w, utf8_bom_byte1)
    BY <1>4, <1>5, FirstBytes
  <2>. QED
    BY <2>1, <1>3 DEF GoesOn
<1>7. b = 254 => GoesOn(r, utf16_be_bom_byte1, kept)
  <2>1. b = 254 => r = in_state(w, utf16_be_bom_byte1)
    BY <1>4, <1>5, FirstBytes
  <2>. QED
    BY <2>1, <1>3 DEF GoesOn
<1>8. b = 255 => GoesOn(r, utf32_or_16_le_bom_byte1, kept)
  <2>1. b = 255 => r = in_state(w, utf32_or_16_le_bom_byte1)
    BY <1>4, <1>5, FirstBytes
  <2>. QED
    BY <2>1, <1>3 DEF GoesOn
<1>9. b = 0 => GoesOn(r, utf32_or_16_be_bom_byte1, kept)
  <2>1. b = 0 => r = in_state(w, utf32_or_16_be_bom_byte1)
    BY <1>4, <1>5, FirstBytes
  <2>. QED
    BY <2>1, <1>3 DEF GoesOn
<1>10. b \notin {0, 239, 254, 255} => GivesUp(to, r, start, kept)
  <2>1. b \notin {0, 239, 254, 255} => r = run8_start(to, w, TRUE)
    BY <1>4, <1>5, FirstBytes
  <2>. QED
    BY <2>1 DEF GivesUp, w
<1>. QED
  BY <1>6, <1>7, <1>8, <1>9, <1>10

\* What a later byte of a mark does, and one that is none.
LEMMA BomBranch ==
  ASSUME NEW to, NEW s \in BomStates, s # start, NEW buffer, NEW b,
         s # utf32_or_16_le_bom_byte2 \/ b = 0
  PROVE  byte_call(to, waiting(s, buffer), b) =
           IF b = bom_value(s) THEN matched_bom_byte(to, waiting(s, with_byte(buffer, s.byte_no, b)))
           ELSE run8_start(to, waiting(s, with_byte(buffer, s.byte_no, b)), TRUE)
<1>. DEFINE t == waiting(s, buffer)
            w == waiting(s, with_byte(buffer, s.byte_no, b))
<1>1. t.state = s /\ w.state = s
  BY WaitingFields
<1>2. buffered(t, b) = w
  BY WaitingBuffered
<1>3. s.mode = "bom"
  BY BomState
<1>4. ~ (s = utf32_or_16_le_bom_byte2 /\ b # bom_value(s))
  BY BomValues
<1>. HIDE DEF t, w
<1>5. byte_call(to, t, b) = bom_byte(to, w, b)
  BY <1>1, <1>2, <1>3, <1>4 DEF byte_call
<1>. QED
  BY <1>1, <1>5 DEF bom_byte, t, w

\* The last byte of each mark, and the ones before it.
LEMMA Matched ==
  ASSUME NEW to, NEW s \in BomStates, s # start, NEW buffer
  PROVE  LET r == matched_bom_byte(to, waiting(s, buffer))
         IN  /\ s = utf8_bom_byte2 => r = run8_start(to, waiting(s, buffer), FALSE)
             /\ s = utf16_be_bom_byte1 => Found(to, r, state(16, "be", "run", 0), buffer)
             /\ s = utf32_be_bom_byte3 => Found(to, r, state(32, "be", "run", 0), buffer)
             /\ s = utf32_le_bom_byte3 => Found(to, r, state(32, "le", "run", 0), buffer)
             /\ s \notin {utf8_bom_byte2, utf16_be_bom_byte1,
                          utf32_be_bom_byte3, utf32_le_bom_byte3} =>
                  GoesOn(r, next_byte(s), buffer)
<1>. DEFINE w == waiting(s, buffer)
            r == matched_bom_byte(to, w)
<1>1. w.state = s
  BY WaitingFields
<1>0. ASSUME NEW n PROVE in_state(w, n) = Result(waiting(n, buffer), <<>>)
  <2>1. [w EXCEPT !.state = n] = waiting(n, buffer)
    BY WaitingChanged
  <2>. QED
    BY <2>1 DEF in_state
<1>2. \A n, e : n.encoding = e => emplaced(w, e, to, n) = running(n, buffer, transcoder(n.encoding, to))
  BY Emplaced
<1>. HIDE DEF w
<1>3. ASSUME s = utf8_bom_byte2 PROVE r = run8_start(to, w, FALSE)
  <2>1. s # utf16_be_bom_byte1 /\ s.byte_no # 3
    BY <1>3 DEF state, utf8_bom_byte2, utf16_be_bom_byte1
  <2>. QED
    BY <1>1, <1>3, <2>1 DEF matched_bom_byte
<1>4. ASSUME s = utf16_be_bom_byte1 PROVE Found(to, r, state(16, "be", "run", 0), buffer)
  <2>1. s # utf8_bom_byte2 /\ s.byte_no # 3 /\ s.endian = "be"
    BY <1>4 DEF state, utf8_bom_byte2, utf16_be_bom_byte1
  <2>2. r = Result(run16_start(to, w), <<>>)
    BY <1>1, <1>4, <2>1 DEF matched_bom_byte
  <2>3. run16_start(to, w) = emplaced(w, 16, to, state(16, "be", "run", 0))
    BY <1>1, <2>1 DEF run16_start, emplaced
  <2>4. state(16, "be", "run", 0).encoding = 16
    BY StateFields
  <2>. QED
    BY <1>2, <2>2, <2>3, <2>4 DEF Found
<1>5. ASSUME NEW e \in {"be", "le"}, s = state(32, e, "bom", 3)
      PROVE  Found(to, r, state(32, e, "run", 0), buffer)
  <2>1. s.byte_no = 3 /\ s # utf8_bom_byte2 /\ s # utf16_be_bom_byte1
    BY <1>5 DEF state, utf8_bom_byte2, utf16_be_bom_byte1
  <2>2. r = Result(run32_start(to, w), <<>>)
    BY <1>1, <2>1 DEF matched_bom_byte
  <2>3. set_run_mode(set_byte(s, 0)) = state(32, e, "run", 0)
    BY <1>5, StateFields
  <2>4. run32_start(to, w) = emplaced(w, 32, to, state(32, e, "run", 0))
    BY <1>1, <2>3 DEF run32_start, emplaced
  <2>5. state(32, e, "run", 0).encoding = 32
    BY StateFields
  <2>. QED
    BY <1>2, <2>2, <2>4, <2>5 DEF Found
<1>6. ASSUME s \notin {utf8_bom_byte2, utf16_be_bom_byte1, utf32_be_bom_byte3, utf32_le_bom_byte3}
      PROVE  GoesOn(r, next_byte(s), buffer)
  <2>1. s.byte_no # 3
    BY <1>6, BomState
  <2>2. r = in_state(w, next_byte(s))
    BY <1>1, <1>6, <2>1 DEF matched_bom_byte
  <2>. QED
    BY <1>0, <2>2 DEF GoesOn
<1>7. utf32_be_bom_byte3 = state(32, "be", "bom", 3) /\ utf32_le_bom_byte3 = state(32, "le", "bom", 3)
  BY DEF utf32_be_bom_byte3, utf32_le_bom_byte3
<1>. QED
  BY <1>3, <1>4, <1>5, <1>6, <1>7 DEF w

\* After FF FE, a byte other than 00 is the first of a code unit of UTF-16.
LEMMA FoundUtf16LE ==
  ASSUME NEW to, NEW buffer, NEW b, b # 0, NEW r,
         r = byte_call(to, waiting(utf32_or_16_le_bom_byte2, buffer), b)
  PROVE  Found(to, r, state(16, "le", "run", 1), with_byte(buffer, 0, b))
<1>. DEFINE s == utf32_or_16_le_bom_byte2
            t == waiting(s, buffer)
            u == running(state(16, "le", "run", 0), buffer, transcoder(16, to))
            n == state(16, "le", "run", 1)
            kept == [buffer EXCEPT ![0] = b]
<1>1. t.state = s
  BY WaitingFields
<1>2. s # start /\ s.mode = "bom" /\ s.endian = "le"
  BY DEF utf32_or_16_le_bom_byte2, start, state
<1>3. b # bom_value(s)
  BY BomValues
<1>4. byte_call(to, t, b) = utf16_after_bom(to, t, b)
  <2>. HIDE DEF t
  <2>. QED
    BY <1>1, <1>2, <1>3 DEF byte_call
<1>5. run16_start(to, t) = u
  <2>1. run16_start(to, t) = emplaced(t, 16, to, state(16, "le", "run", 0))
    <3>. HIDE DEF t
    <3>. QED
      BY <1>1, <1>2 DEF run16_start, emplaced
  <2>2. state(16, "le", "run", 0).encoding = 16
    BY StateFields
  <2>. QED
    BY <2>1, <2>2, Emplaced
<1>6. [u EXCEPT !.state = n, !.buffer[0] = b] = running(n, kept, transcoder(16, to))
  <2>. DEFINE c == transcoder(16, to)
              v == [from |-> 16, coder |-> c]
  <2>1. u = [state |-> state(16, "le", "run", 0), buffer |-> buffer, variant |-> v]
    BY StateFields DEF running
  <2>2. running(n, kept, c) = [state |-> n, buffer |-> kept, variant |-> v]
    BY StateFields DEF running
  <2>. HIDE DEF u, n, v
  <2>3. [u EXCEPT !.state = n, !.buffer[0] = b] = [[u EXCEPT !.state = n] EXCEPT !.buffer[0] = b]
    OBVIOUS
  <2>4. [u EXCEPT !.state = n] = [state |-> n, buffer |-> buffer, variant |-> v]
    BY <2>1
  <2>5. [[state |-> n, buffer |-> buffer, variant |-> v] EXCEPT !.buffer[0] = b]
          = [state |-> n, buffer |-> kept, variant |-> v]
    OBVIOUS
  <2>. QED
    BY <2>2, <2>3, <2>4, <2>5
<1>7. utf16_after_bom(to, t, b) = Result([u EXCEPT !.state = n, !.buffer[0] = b], <<>>)
  <2>. HIDE DEF t, u
  <2>. QED
    BY <1>5 DEF utf16_after_bom
<1>8. n.encoding = 16
  BY StateFields
<1>. QED
  BY <1>4, <1>6, <1>7, <1>8 DEF Found, with_byte

\* end_cp() of an object that waits, and of one that runs.
LEMMA EndOfStream ==
  ASSUME NEW to, NEW s, NEW buffer, NEW coder
  PROVE  /\ byte_end_cp(to, waiting(s, buffer)) = run8_start(to, waiting(s, buffer), s # start)
         /\ s \in RunStates =>
              byte_end_cp(to, running(s, buffer, coder))
                = Result(running(s, buffer, end_cp(s.encoding, to, coder).coder),
                         end_cp(s.encoding, to, coder).out)
<1>1. byte_end_cp(to, waiting(s, buffer)) = run8_start(to, waiting(s, buffer), s # start)
  <2>. DEFINE t == waiting(s, buffer)
  <2>1. t.state = s /\ t.variant = monostate
    BY WaitingFields
  <2>. HIDE DEF t
  <2>2. byte_end_cp(to, t) = run8_start(to, t, s # start)
    BY <2>1 DEF byte_end_cp
  <2>. QED
    BY <2>2 DEF t
<1>2. ASSUME s \in RunStates
      PROVE  byte_end_cp(to, running(s, buffer, coder))
               = Result(running(s, buffer, end_cp(s.encoding, to, coder).coder),
                        end_cp(s.encoding, to, coder).out)
  <2>. DEFINE t == running(s, buffer, coder)
              r == end_cp(s.encoding, to, coder)
  <2>1. t.variant.from = s.encoding /\ t.variant.coder = coder
    BY RunningFields
  <2>2. t.variant # monostate
    <3>1. s.encoding # 0
      BY <1>2, RunState DEF Encodings
    <3>2. monostate.from = 0
      BY DEF monostate
    <3>. QED
      BY <2>1, <3>1, <3>2
  <2>3. [t EXCEPT !.variant.coder = r.coder] = running(s, buffer, r.coder)
    BY RunningChanged
  <2>. HIDE DEF t
  <2>4. byte_end_cp(to, t) = held_after(t, r)
    BY <2>1, <2>2 DEF byte_end_cp
  <2>5. held_after(t, r) = Result(running(s, buffer, r.coder), r.out)
    BY <2>3 DEF held_after
  <2>. QED
    BY <2>4, <2>5 DEF t
<1>. QED
  BY <1>1, <1>2

-----------------------------------------------------------------------------
(***************************************************************************)
(* Whatever is called on it, a byte transcoder is an object that waits or  *)
(* one that runs, and what it writes are code units.                       *)
(***************************************************************************)
\* run8_start leaves an object that runs.
LEMMA Run8Returned ==
  ASSUME NEW to \in Encodings, NEW s, s.byte_no \in 0 .. 3, NEW buffer \in Buffer,
         NEW copy_buffer \in BOOLEAN
  PROVE  Returned(RunningObject(to), to, run8_start(to, waiting(s, buffer), copy_buffer))
<1>. DEFINE bytes == IF copy_buffer THEN pending(s, buffer) ELSE <<>>
            r == fed(8, to, bytes)
<1>1. bytes \in Seq(Byte)
  <2>1. pending(s, buffer) \in [1 .. s.byte_no + 1 -> Byte]
    BY DEF pending, Buffer
  <2>2. s.byte_no + 1 \in Nat
    OBVIOUS
  <2>3. pending(s, buffer) \in Seq(Byte)
    BY <2>1, <2>2
  <2>4. <<>> \in Seq(Byte)
    OBVIOUS
  <2>. QED
    BY <2>3, <2>4
<1>2. run8_start(to, waiting(s, buffer), copy_buffer)
        = Result(running(run_8, buffer, r.coder), r.out)
  <2>1. CASE copy_buffer = TRUE
    <3>1. bytes = pending(s, buffer)
      BY <2>1
    <3>. HIDE DEF bytes
    <3>. QED
      BY <1>1, <2>1, <3>1, Run8StartPending
  <2>2. CASE copy_buffer = FALSE
    <3>1. bytes = <<>>
      BY <2>2
    <3>. HIDE DEF bytes
    <3>. QED
      BY <2>2, <3>1, Run8StartEmpty
  <2>. QED
    BY <2>1, <2>2
<1>3. Returned(Object(8, to), to, r)
  <2>1. CodeUnit(8) = Byte /\ 8 \in Encodings
    BY DEF CodeUnit, Encodings
  <2>. HIDE DEF bytes
  <2>. QED
    BY <1>1, <2>1, FedReturned
<1>. HIDE DEF r
<1>4. running(run_8, buffer, r.coder) \in RunningObject(to)
  <2>1. run_8 \in RunStates /\ run_8.encoding = 8
    BY RunStateOf, StateFields
  <2>. QED
    BY <1>3, <2>1 DEF RunningObject, Returned
<1>5. /\ Result(running(run_8, buffer, r.coder), r.out).coder = running(run_8, buffer, r.coder)
      /\ Result(running(run_8, buffer, r.coder), r.out).out = r.out
  BY ResultFields
<1>. QED
  BY <1>2, <1>3, <1>4, <1>5 DEF Returned

\* The bytes of a code unit, in the order they came in and in that of the state.
LEMMA GivenBytes ==
  ASSUME NEW s \in RunStates, NEW buffer \in Buffer, NEW coder, NEW b \in Byte, is_last_byte(s)
  PROVE  LET t == running(s, buffer, coder)
         IN  /\ s.encoding = 16 =>
                  /\ given_bytes(t, b) = <<buffer[0], b>>
                  /\ Reverse(given_bytes(t, b)) = <<b, buffer[0]>>
             /\ s.encoding = 32 =>
                  /\ given_bytes(t, b) = <<buffer[0], buffer[1], buffer[2], b>>
                  /\ Reverse(given_bytes(t, b)) = <<b, buffer[2], buffer[1], buffer[0]>>
<1>. DEFINE t == running(s, buffer, coder)
<1>1. t.state = s /\ t.buffer = buffer
  BY RunningFields
<1>. HIDE DEF t
<1>2. ASSUME s.encoding = 16
      PROVE  /\ given_bytes(t, b) = <<buffer[0], b>>
             /\ Reverse(given_bytes(t, b)) = <<b, buffer[0]>>
  <2>1. s.byte_no = 1
    BY <1>2 DEF is_last_byte
  <2>2. given_bytes(t, b) = [n \in 1 .. 2 |-> IF n = 2 THEN b ELSE buffer[n - 1]]
    BY <1>1, <2>1 DEF given_bytes
  <2>3. given_bytes(t, b) = <<buffer[0], b>>
    BY <2>2
  <2>. QED
    BY <2>3 DEF Reverse
<1>3. ASSUME s.encoding = 32
      PROVE  /\ given_bytes(t, b) = <<buffer[0], buffer[1], buffer[2], b>>
             /\ Reverse(given_bytes(t, b)) = <<b, buffer[2], buffer[1], buffer[0]>>
  <2>1. s.byte_no = 3
    BY <1>3 DEF is_last_byte
  <2>2. given_bytes(t, b) = [n \in 1 .. 4 |-> IF n = 4 THEN b ELSE buffer[n - 1]]
    BY <1>1, <2>1 DEF given_bytes
  <2>3. given_bytes(t, b) = <<buffer[0], buffer[1], buffer[2], b>>
    BY <2>2
  <2>. QED
    BY <2>3 DEF Reverse
<1>. QED
  BY <1>2, <1>3 DEF t

\* A code unit that is made of bytes is one of its encoding.
LEMMA MadeOfBytes ==
  ASSUME NEW s \in RunStates, s # run_8, NEW buffer \in Buffer, NEW coder, NEW b \in Byte,
         is_last_byte(s)
  PROVE  char_from_buffer(running(s, buffer, coder), b) \in CodeUnit(s.encoding)
<1>. DEFINE t == running(s, buffer, coder)
            c == code_unit_bytes(t, b)
<1>1. t.state = s
  BY RunningFields
<1>2. \A n \in 0 .. 3 : buffer[n] \in Byte
  BY DEF Buffer
<1>3. s.encoding \in {16, 32}
  BY RunState DEF Encodings
<1>. HIDE DEF t
<1>4. c = IF s.endian = "be" THEN given_bytes(t, b) ELSE Reverse(given_bytes(t, b))
  BY <1>1 DEF code_unit_bytes
<1>5. CASE s.encoding = 16
  <2>1. c[1] \in Byte /\ c[2] \in Byte
    <3>1. c = <<buffer[0], b>> \/ c = <<b, buffer[0]>>
      BY <1>4, <1>5, GivenBytes DEF t
    <3>. QED
      BY <3>1, <1>2
  <2>2. char_from_buffer(t, b) = 256 * c[1] + c[2]
    BY <1>1, <1>5 DEF char_from_buffer, char16_from_buffer
  <2>. HIDE DEF c
  <2>3. 256 * c[1] + c[2] \in Int /\ 0 <= 256 * c[1] + c[2] /\ 256 * c[1] + c[2] <= 65535
    BY <2>1, ByteRange, SMT
  <2>4. char_from_buffer(t, b) \in CodeUnit16
    BY <2>2, <2>3, UnitRange, SMT
  <2>. QED
    BY <2>4, <1>5 DEF CodeUnit, t
<1>6. CASE s.encoding = 32
  <2>1. c[1] \in Byte /\ c[2] \in Byte /\ c[3] \in Byte /\ c[4] \in Byte
    <3>1. \/ c = <<buffer[0], buffer[1], buffer[2], b>>
          \/ c = <<b, buffer[2], buffer[1], buffer[0]>>
      BY <1>4, <1>6, GivenBytes DEF t
    <3>. QED
      BY <3>1, <1>2
  <2>2. char_from_buffer(t, b) = char32_from_buffer(t, b)
    BY <1>1, <1>6 DEF char_from_buffer
  <2>3. char32_from_buffer(t, b)
          = IF c[1] > 127 THEN 2147483647
            ELSE 16777216 * c[1] + 65536 * c[2] + 256 * c[3] + c[4]
    BY SMT DEF char32_from_buffer
  <2>. HIDE DEF c
  <2>4. char32_from_buffer(t, b) \in Nat
    BY <2>1, <2>3, ByteRange, SMT
  <2>. QED
    BY <2>2, <2>4, <1>6 DEF CodeUnit, t
<1>. QED
  BY <1>3, <1>5, <1>6

\* An object of either kind, and the call that leaves it.
LEMMA ByteObjectIs ==
  ASSUME NEW to
  PROVE  /\ \A s \in BomStates, buffer \in Buffer : waiting(s, buffer) \in WaitingObject
         /\ \A s \in RunStates, buffer \in Buffer :
              \A c \in Object(s.encoding, to) : running(s, buffer, c) \in RunningObject(to)
  BY DEF WaitingObject, RunningObject

\* A result with no output.
LEMMA SilentlyReturned ==
  ASSUME NEW objects, NEW to, NEW t \in objects
  PROVE  Returned(objects, to, Result(t, <<>>))
<1>1. Result(t, <<>>).coder = t /\ Result(t, <<>>).out = <<>>
  BY ResultFields
<1>2. <<>> \in Seq(EncodedUnit(to))
  OBVIOUS
<1>. QED
  BY <1>1, <1>2 DEF Returned

\* A byte given to one that runs is kept, or the held transcoder is called with
\* the code unit that it completes.
LEMMA RunningCall ==
  ASSUME NEW to \in Encodings, NEW s \in RunStates, NEW buffer \in Buffer,
         NEW coder \in Object(s.encoding, to), NEW b \in Byte
  PROVE  LET r == byte_call(to, running(s, buffer, coder), b)
         IN  \E n \in RunStates, kept \in Buffer :
               /\ n.encoding = s.encoding
               /\ \/ r = Result(running(n, kept, coder), <<>>)
                  \/ \E unit \in CodeUnit(s.encoding) :
                       r = Result(running(n, kept, call(s.encoding, to, coder, unit).coder),
                                  call(s.encoding, to, coder, unit).out)
<1>. DEFINE t == running(s, buffer, coder)
<1>1. s.encoding \in Encodings /\ s.byte_no \in 0 .. 3
  BY RunState
<1>2. CASE s # run_8 /\ ~ is_last_byte(s)
  <2>. DEFINE kept == with_byte(buffer, s.byte_no, b)
  <2>1. kept \in Buffer
    BY <1>1, StillBuffer
  <2>2. byte_call(to, t, b) = Result(running(next_byte(s), kept, coder), <<>>)
    BY <1>2, RunKeeps
  <2>3. next_byte(s) \in RunStates /\ next_byte(s).encoding = s.encoding
    <3>1. s = state(s.encoding, s.endian, "run", s.byte_no) /\ s.endian \in {"be", "le"}
          /\ s.encoding # 8
      BY <1>2, RunState
    <3>2. next_byte(s) = state(s.encoding, s.endian, "run", s.byte_no + 1)
      BY <3>1, StateFields
    <3>3. s.encoding = 16 => s.byte_no + 1 \in 0 .. 1
      BY <1>1, <1>2, RunState DEF is_last_byte
    <3>4. s.encoding = 32 => s.byte_no + 1 \in 0 .. 3
      BY <1>1, <1>2, RunState DEF is_last_byte
    <3>5. next_byte(s) \in RunStates
      BY <1>1, <3>1, <3>2, <3>3, <3>4, RunStateOf DEF Encodings
    <3>. QED
      BY <3>2, <3>5, StateFields
  <2>. HIDE DEF kept, t
  <2>. QED
    BY <2>1, <2>2, <2>3 DEF t
<1>3. CASE s = run_8 \/ is_last_byte(s)
  <2>. DEFINE unit == completed(s, buffer, coder, b)
              r == call(s.encoding, to, coder, unit)
  <2>1. unit \in CodeUnit(s.encoding)
    <3>1. CASE s = run_8
      <4>1. s.encoding = 8
        BY <3>1, RunState
      <4>. QED
        BY <3>1, <4>1 DEF CodeUnit, completed
    <3>2. CASE s # run_8
      <4>1. char_from_buffer(running(s, buffer, coder), b) \in CodeUnit(s.encoding)
        BY <1>3, <3>2, MadeOfBytes
      <4>. QED
        BY <3>2, <4>1 DEF completed
    <3>. QED
      BY <3>1, <3>2
  <2>2. Returned(Object(s.encoding, to), to, r)
    BY <1>1, <2>1, CallReturned
  <2>3. <<>> \o r.out = r.out
    BY <2>2 DEF Returned
  <2>4. byte_call(to, t, b) = Result(running(set_byte(s, 0), buffer, r.coder), r.out)
    BY <1>3, <2>3, RunPasses
  <2>5. set_byte(s, 0) \in RunStates /\ set_byte(s, 0).encoding = s.encoding
    <3>1. s = state(s.encoding, s.endian, "run", s.byte_no) /\ s.endian \in {"be", "le"}
          /\ (s.encoding = 8 => s.endian = "be")
      BY RunState
    <3>2. set_byte(s, 0) = state(s.encoding, s.endian, "run", 0)
      BY <3>1, StateFields
    <3>3. set_byte(s, 0) \in RunStates
      BY <1>1, <3>1, <3>2, RunStateOf DEF Encodings
    <3>. QED
      BY <3>2, <3>3, StateFields
  <2>. HIDE DEF unit, t
  <2>. QED
    BY <2>1, <2>4, <2>5 DEF t
<1>. QED
  BY <1>2, <1>3

\* A call of one that runs leaves one that runs.
LEMMA RunningReturned ==
  ASSUME NEW to \in Encodings, NEW t \in RunningObject(to)
  PROVE  /\ \A b \in Byte : Returned(RunningObject(to), to, byte_call(to, t, b))
         /\ Returned(RunningObject(to), to, byte_end_cp(to, t))
<1>1. PICK s \in RunStates, buffer \in Buffer :
        \E c \in Object(s.encoding, to) : t = running(s, buffer, c)
  BY DEF RunningObject
<1>2. PICK coder \in Object(s.encoding, to) : t = running(s, buffer, coder)
  BY <1>1
<1>3. s.encoding \in Encodings
  BY RunState
<1>4. ASSUME NEW n \in RunStates, n.encoding = s.encoding, NEW kept \in Buffer, NEW r,
             Returned(Object(s.encoding, to), to, r)
      PROVE  Returned(RunningObject(to), to, Result(running(n, kept, r.coder), r.out))
  <2>1. r.coder \in Object(n.encoding, to) /\ r.out \in Seq(EncodedUnit(to))
    BY <1>4 DEF Returned
  <2>2. running(n, kept, r.coder) \in RunningObject(to)
    BY <2>1, ByteObjectIs
  <2>3. /\ Result(running(n, kept, r.coder), r.out).coder = running(n, kept, r.coder)
        /\ Result(running(n, kept, r.coder), r.out).out = r.out
    BY ResultFields
  <2>. QED
    BY <2>1, <2>2, <2>3 DEF Returned
<1>5. ASSUME NEW b \in Byte PROVE Returned(RunningObject(to), to, byte_call(to, t, b))
  <2>. DEFINE r == byte_call(to, t, b)
              q(unit) == call(s.encoding, to, coder, unit)
  <2>1. PICK n \in RunStates, kept \in Buffer :
          /\ n.encoding = s.encoding
          /\ \/ r = Result(running(n, kept, coder), <<>>)
             \/ \E unit \in CodeUnit(s.encoding) :
                  r = Result(running(n, kept, q(unit).coder), q(unit).out)
    BY <1>2, RunningCall
  <2>2. CASE r = Result(running(n, kept, coder), <<>>)
    <3>1. running(n, kept, coder) \in RunningObject(to)
      BY <2>1, ByteObjectIs
    <3>. QED
      BY <2>2, <3>1, SilentlyReturned
  <2>3. ASSUME NEW unit \in CodeUnit(s.encoding), r = Result(running(n, kept, q(unit).coder), q(unit).out)
        PROVE  Returned(RunningObject(to), to, r)
    <3>1. Returned(Object(s.encoding, to), to, q(unit))
      BY <1>3, CallReturned
    <3>. HIDE DEF q
    <3>. QED
      BY <1>4, <2>1, <2>3, <3>1
  <2>. QED
    BY <2>1, <2>2, <2>3
<1>6. Returned(RunningObject(to), to, byte_end_cp(to, t))
  <2>. DEFINE r == end_cp(s.encoding, to, coder)
  <2>1. Returned(Object(s.encoding, to), to, r)
    BY <1>3, CallReturned
  <2>2. byte_end_cp(to, t) = Result(running(s, buffer, r.coder), r.out)
    BY <1>2, EndOfStream
  <2>. HIDE DEF r
  <2>. QED
    BY <1>4, <2>1, <2>2
<1>. QED
  BY <1>5, <1>6

\* The state that follows within a mark.
LEMMA NextBomState ==
  /\ next_byte(utf8_bom_byte1) = utf8_bom_byte2
  /\ next_byte(utf32_or_16_be_bom_byte1) = utf32_be_bom_byte2
  /\ next_byte(utf32_be_bom_byte2) = utf32_be_bom_byte3
  /\ next_byte(utf32_or_16_le_bom_byte1) = utf32_or_16_le_bom_byte2
  /\ next_byte(utf32_or_16_le_bom_byte2) = utf32_le_bom_byte3
  BY DEF next_byte, set_byte, state, utf8_bom_byte1, utf8_bom_byte2, utf32_or_16_be_bom_byte1,
     utf32_be_bom_byte2, utf32_be_bom_byte3, utf32_or_16_le_bom_byte1,
     utf32_or_16_le_bom_byte2, utf32_le_bom_byte3

\* A call of one that waits leaves one that waits, and has written nothing, or
\* one that runs; the end of the stream always does the latter.
LEMMA WaitingReturned ==
  ASSUME NEW to \in Encodings, NEW t \in WaitingObject
  PROVE  /\ \A b \in Byte : \/ /\ byte_call(to, t, b).coder \in WaitingObject
                               /\ byte_call(to, t, b) = Result(byte_call(to, t, b).coder, <<>>)
                            \/ Returned(RunningObject(to), to, byte_call(to, t, b))
         /\ Returned(RunningObject(to), to, byte_end_cp(to, t))
<1>1. PICK s \in BomStates, buffer \in Buffer : t = waiting(s, buffer)
  BY DEF WaitingObject
<1>2. s.byte_no \in 0 .. 3
  BY BomState
<1>3. ASSUME NEW b \in Byte
      PROVE  \/ /\ byte_call(to, t, b).coder \in WaitingObject
                /\ byte_call(to, t, b) = Result(byte_call(to, t, b).coder, <<>>)
             \/ Returned(RunningObject(to), to, byte_call(to, t, b))
  <2>. DEFINE r == byte_call(to, t, b)
              kept == with_byte(buffer, s.byte_no, b)
              Fine == \/ r.coder \in WaitingObject /\ r = Result(r.coder, <<>>)
                      \/ Returned(RunningObject(to), to, r)
  <2>. SUFFICES Fine
    OBVIOUS
  <2>0. kept = with_byte(buffer, s.byte_no, b) /\ r = byte_call(to, t, b)
    OBVIOUS
  <2>1. kept \in Buffer /\ with_byte(buffer, 0, b) \in Buffer
    BY <1>2, StillBuffer
  <2>2. ASSUME NEW n \in BomStates, GoesOn(r, n, kept) PROVE Fine
    <3>1. waiting(n, kept) \in WaitingObject
      BY <2>1, ByteObjectIs
    <3>2. r.coder = waiting(n, kept)
      BY <2>2, ResultFields DEF GoesOn
    <3>. QED
      BY <2>2, <3>1, <3>2 DEF GoesOn
  <2>3. ASSUME NEW n \in RunStates, NEW k \in Buffer, Found(to, r, n, k) PROVE Fine
    <3>1. transcoder(n.encoding, to) \in Object(n.encoding, to)
      BY RunState, CallReturned
    <3>2. running(n, k, transcoder(n.encoding, to)) \in RunningObject(to)
      BY <3>1, ByteObjectIs
    <3>. HIDE DEF r
    <3>3. r = Result(running(n, k, transcoder(n.encoding, to)), <<>>)
      BY <2>3 DEF Found
    <3>4. Returned(RunningObject(to), to, r)
      BY <3>2, <3>3, SilentlyReturned
    <3>. QED
      BY <3>4
  <2>4. ASSUME NEW copy_buffer \in BOOLEAN, r = run8_start(to, waiting(s, kept), copy_buffer)
        PROVE  Fine
    <3>1. Returned(RunningObject(to), to, r)
      BY <1>2, <2>1, <2>4, Run8Returned
    <3>. QED
      BY <3>1
  <2>5. CASE s = start
    <3>1. kept = with_byte(buffer, 0, b)
      BY <2>5 DEF start, state
    <3>2. /\ utf8_bom_byte1 \in BomStates /\ utf16_be_bom_byte1 \in BomStates
          /\ utf32_or_16_le_bom_byte1 \in BomStates /\ utf32_or_16_be_bom_byte1 \in BomStates
      BY DEF BomStates
    <3>3. r = byte_call(to, waiting(start, buffer), b)
      BY <1>1, <2>5
    <3>. HIDE DEF r, kept, Fine
    <3>4. /\ b = 239 => GoesOn(r, utf8_bom_byte1, kept)
          /\ b = 254 => GoesOn(r, utf16_be_bom_byte1, kept)
          /\ b = 255 => GoesOn(r, utf32_or_16_le_bom_byte1, kept)
          /\ b = 0 => GoesOn(r, utf32_or_16_be_bom_byte1, kept)
          /\ b \notin {0, 239, 254, 255} => GivesUp(to, r, start, kept)
      BY <3>1, <3>3, StartCall
    <3>5. CASE b \in {0, 239, 254, 255}
      BY <2>2, <3>2, <3>4, <3>5
    <3>6. CASE b \notin {0, 239, 254, 255}
      <4>1. r = run8_start(to, waiting(s, kept), TRUE)
        BY <2>5, <3>4, <3>6 DEF GivesUp
      <4>. QED
        BY <2>4, <4>1
    <3>. QED
      BY <3>5, <3>6
  <2>6. CASE s = utf32_or_16_le_bom_byte2 /\ b # 0
    <3>1. Found(to, r, state(16, "le", "run", 1), with_byte(buffer, 0, b))
      BY <1>1, <2>6, FoundUtf16LE
    <3>2. state(16, "le", "run", 1) \in RunStates
      BY RunStateOf
    <3>. HIDE DEF r, Fine
    <3>. QED
      BY <2>1, <2>3, <3>1, <3>2
  <2>7. CASE s # start /\ (s # utf32_or_16_le_bom_byte2 \/ b = 0)
    <3>. HIDE DEF r, kept, Fine
    <3>1. r = IF b = bom_value(s) THEN matched_bom_byte(to, waiting(s, kept))
              ELSE run8_start(to, waiting(s, kept), TRUE)
      BY <1>1, <2>0, <2>7, BomBranch
    <3>2. CASE b # bom_value(s)
      BY <2>4, <3>1, <3>2
    <3>3. CASE b = bom_value(s)
      <4>1. r = matched_bom_byte(to, waiting(s, kept))
        BY <3>1, <3>3
      <4>2. CASE s = utf8_bom_byte2
        <5>1. r = run8_start(to, waiting(s, kept), FALSE)
          BY <2>7, <4>1, <4>2, Matched
        <5>. QED
          BY <2>4, <5>1
      <4>3. CASE s = utf16_be_bom_byte1
        <5>1. Found(to, r, state(16, "be", "run", 0), kept)
          BY <2>7, <4>1, <4>3, Matched
        <5>. QED
          BY <2>1, <2>3, <5>1, RunStateOf
      <4>4. CASE s = utf32_be_bom_byte3
        <5>1. Found(to, r, state(32, "be", "run", 0), kept)
          BY <2>7, <4>1, <4>4, Matched
        <5>. QED
          BY <2>1, <2>3, <5>1, RunStateOf
      <4>5. CASE s = utf32_le_bom_byte3
        <5>1. Found(to, r, state(32, "le", "run", 0), kept)
          BY <2>7, <4>1, <4>5, Matched
        <5>. QED
          BY <2>1, <2>3, <5>1, RunStateOf
      <4>6. CASE s \notin {utf8_bom_byte2, utf16_be_bom_byte1,
                           utf32_be_bom_byte3, utf32_le_bom_byte3}
        <5>1. GoesOn(r, next_byte(s), kept)
          BY <2>7, <4>1, <4>6, Matched
        <5>2. next_byte(s) \in BomStates
          BY <2>7, <4>6, NextBomState DEF BomStates
        <5>. QED
          BY <2>2, <5>1, <5>2
      <4>. QED
        BY <4>2, <4>3, <4>4, <4>5, <4>6
    <3>. QED
      BY <3>2, <3>3
  <2>. QED
    BY <2>5, <2>6, <2>7
<1>4. Returned(RunningObject(to), to, byte_end_cp(to, t))
  <2>1. byte_end_cp(to, t) = run8_start(to, waiting(s, buffer), s # start)
    BY <1>1, EndOfStream
  <2>2. (s # start) \in BOOLEAN
    OBVIOUS
  <2>. QED
    BY <1>2, <2>1, <2>2, Run8Returned
<1>. QED
  BY <1>3, <1>4

-----------------------------------------------------------------------------
(***************************************************************************)
(* The transcoders of both kinds behind one interface: their objects, the  *)
(* units they are given, and what their calls return.                      *)
(***************************************************************************)
AnyObject(from, to) == IF from = std_byte THEN WaitingObject \union RunningObject(to) ELSE Object(from, to)
AnyUnit(from) == IF from = std_byte THEN Byte ELSE CodeUnit(from)

\* What a call of one that runs has returned, said of every object.
LEMMA ReturnedToo ==
  ASSUME NEW to, NEW r, Returned(RunningObject(to), to, r)
  PROVE  Returned(WaitingObject \union RunningObject(to), to, r)
  BY DEF Returned

\* A constructed transcoder is one of the objects, and every call leaves one.
LEMMA AnyReturned ==
  ASSUME NEW from \in InputTypes, NEW to \in Encodings
  PROVE  /\ any_transcoder(from, to) \in AnyObject(from, to)
         /\ \A t \in AnyObject(from, to) :
              /\ \A unit \in AnyUnit(from) :
                   Returned(AnyObject(from, to), to, any_call(from, to, t, unit))
              /\ Returned(AnyObject(from, to), to, any_end_cp(from, to, t))
<1>1. CASE from # std_byte
  <2>1. from \in Encodings
    BY <1>1 DEF InputTypes
  <2>2. /\ transcoder(from, to) \in Object(from, to)
        /\ \A t \in Object(from, to) :
             /\ \A unit \in CodeUnit(from) :
                  Returned(Object(from, to), to, call(from, to, t, unit))
             /\ Returned(Object(from, to), to, end_cp(from, to, t))
    BY <2>1, CallReturned
  <2>. QED
    BY <1>1, <2>2 DEF any_transcoder, any_call, any_end_cp, AnyObject, AnyUnit
<1>2. CASE from = std_byte
  <2>. DEFINE objects == WaitingObject \union RunningObject(to)
  <2>1. byte_transcoder \in objects
    <3>. DEFINE zeros == [n \in 0 .. 3 |-> 0]
    <3>1. zeros \in Buffer
      BY ByteRange DEF Buffer
    <3>2. byte_transcoder = waiting(start, zeros)
      BY DEF byte_transcoder, waiting
    <3>3. start \in BomStates
      BY DEF BomStates
    <3>. HIDE DEF zeros
    <3>. QED
      BY <3>1, <3>2, <3>3, ByteObjectIs
  <2>2. ASSUME NEW t \in objects, NEW b \in Byte
        PROVE  Returned(objects, to, byte_call(to, t, b))
    <3>1. CASE t \in RunningObject(to)
      <4>1. Returned(RunningObject(to), to, byte_call(to, t, b))
        BY <3>1, RunningReturned
      <4>. QED
        BY <4>1, ReturnedToo
    <3>2. CASE t \in WaitingObject
      <4>. DEFINE r == byte_call(to, t, b)
      <4>1. \/ r.coder \in WaitingObject /\ r = Result(r.coder, <<>>)
            \/ Returned(RunningObject(to), to, r)
        BY <3>2, WaitingReturned
      <4>. HIDE DEF r
      <4>2. CASE r.coder \in WaitingObject /\ r = Result(r.coder, <<>>)
        <5>1. r.coder \in objects
          BY <4>2
        <5>2. Returned(objects, to, Result(r.coder, <<>>))
          <6>. HIDE DEF objects
          <6>. QED
            BY <5>1, SilentlyReturned
        <5>3. Returned(objects, to, r)
          BY <4>2, <5>2
        <5>. QED
          BY <5>3 DEF r
      <4>3. CASE Returned(RunningObject(to), to, r)
        <5>1. Returned(objects, to, r)
          BY <4>3, ReturnedToo
        <5>. QED
          BY <5>1 DEF r
      <4>. QED
        BY <4>1, <4>2, <4>3
    <3>. QED
      BY <3>1, <3>2
  <2>3. ASSUME NEW t \in objects PROVE Returned(objects, to, byte_end_cp(to, t))
    <3>1. Returned(RunningObject(to), to, byte_end_cp(to, t))
      BY RunningReturned, WaitingReturned
    <3>. QED
      BY <3>1, ReturnedToo
  <2>. QED
    BY <1>2, <2>1, <2>2, <2>3 DEF any_transcoder, any_call, any_end_cp, AnyObject, AnyUnit
<1>. QED
  BY <1>1, <1>2

\* What a conversion by hand has written, and the object it leaves.
LEMMA AnyFedReturned ==
  ASSUME NEW from \in InputTypes, NEW to \in Encodings, NEW units \in Seq(AnyUnit(from))
  PROVE  /\ Returned(AnyObject(from, to), to, fed(from, to, units))
         /\ Returned(AnyObject(from, to), to, fed_all(from, to, units))
<1>. DEFINE objects == AnyObject(from, to)
            S == {u \in Seq(AnyUnit(from)) : Returned(objects, to, fed(from, to, u))}
<1>1. <<>> \in S
  <2>1. fed(from, to, <<>>) = Result(any_transcoder(from, to), <<>>)
    BY FedNothing
  <2>2. any_transcoder(from, to) \in objects
    BY AnyReturned
  <2>. HIDE DEF objects
  <2>3. Returned(objects, to, Result(any_transcoder(from, to), <<>>))
    BY <2>2, SilentlyReturned
  <2>4. <<>> \in Seq(AnyUnit(from))
    OBVIOUS
  <2>. QED
    BY <2>1, <2>3, <2>4
<1>2. ASSUME NEW u \in Seq(AnyUnit(from)), NEW x \in AnyUnit(from), u \in S
      PROVE  Append(u, x) \in S
  <2>. DEFINE r == fed(from, to, u)
              later == any_call(from, to, r.coder, x)
  <2>1. Returned(objects, to, r)
    BY <1>2
  <2>2. r.coder \in objects
    BY <2>1 DEF Returned
  <2>3. Returned(objects, to, later)
    BY <2>2, AnyReturned
  <2>4. fed(from, to, Append(u, x)) = then(r, later)
    BY FedAppend
  <2>. HIDE DEF r, later, objects
  <2>5. Returned(objects, to, then(r, later))
    BY <2>1, <2>3, ThenReturned DEF Returned
  <2>6. Append(u, x) \in Seq(AnyUnit(from))
    OBVIOUS
  <2>. QED
    BY <2>4, <2>5, <2>6
<1>. HIDE DEF S
<1>3. units \in S
  BY <1>1, <1>2, Feeding!SequenceInduction
<1>4. Returned(objects, to, fed(from, to, units))
  BY <1>3 DEF S
<1>5. Returned(objects, to, fed_all(from, to, units))
  <2>. DEFINE r == fed(from, to, units)
              later == any_end_cp(from, to, r.coder)
  <2>1. r.coder \in objects
    BY <1>4 DEF Returned
  <2>2. Returned(objects, to, later)
    BY <2>1, AnyReturned
  <2>3. fed_all(from, to, units) = then(r, later)
    BY DEF fed_all, ended_by_hand
  <2>4. Returned(objects, to, r)
    BY <1>4
  <2>. HIDE DEF r, later, objects
  <2>5. r.out \in Seq(EncodedUnit(to))
    BY <2>4 DEF Returned
  <2>6. Returned(objects, to, then(r, later))
    BY <2>2, <2>5, ThenReturned
  <2>. QED
    BY <2>3, <2>6
<1>. QED
  BY <1>4, <1>5

-----------------------------------------------------------------------------
(***************************************************************************)
(* The byte order marks, from their definition.                            *)
(***************************************************************************)
selection(e, n) == [encoding |-> e, endian |-> n]

\* A sequence of one sequence, flattened.
LEMMA FlattenOne == ASSUME NEW x PROVE FlattenSeq(<<x>>) = x
<1>. DEFINE f == [i \in 1 .. 1 |-> x]
            Flattens(g) == g = [i \in 1 .. Len(<<x>>) |-> IF i = 1 THEN <<x>>[i]
                                                          ELSE g[i - 1] \o <<x>>[i]]
            chosen == CHOOSE g : Flattens(g)
<1>1. Flattens(f)
  OBVIOUS
<1>2. Flattens(chosen)
  BY <1>1
<1>3. FlattenSeq(<<x>>) = chosen[Len(<<x>>)]
  BY DEF FlattenSeq
<1>4. chosen[1] = x
  BY <1>2
<1>. QED
  BY <1>3, <1>4

\* And one of three.
LEMMA FlattenThree ==
  ASSUME NEW x, NEW y, NEW z
  PROVE  FlattenSeq(<<x, y, z>>) = (x \o y) \o z
<1>. DEFINE s == <<x, y, z>>
            f == [i \in 1 .. 3 |-> IF i = 1 THEN x ELSE IF i = 2 THEN x \o y ELSE (x \o y) \o z]
            Flattens(g) == g = [i \in 1 .. Len(s) |-> IF i = 1 THEN s[i] ELSE g[i - 1] \o s[i]]
            chosen == CHOOSE g : Flattens(g)
<1>1. Flattens(f)
  OBVIOUS
<1>2. Flattens(chosen)
  BY <1>1
<1>3. FlattenSeq(s) = chosen[Len(s)]
  BY DEF FlattenSeq
<1>5. Len(s) = 3 /\ s[1] = x /\ s[2] = y /\ s[3] = z
  OBVIOUS
<1>. HIDE DEF s, chosen
<1>6. chosen = [i \in 1 .. 3 |-> IF i = 1 THEN s[i] ELSE chosen[i - 1] \o s[i]]
  BY <1>2, <1>5
<1>. HIDE DEF Flattens
<1>4. chosen[1] = x /\ chosen[2] = chosen[1] \o y /\ chosen[3] = chosen[2] \o z
  <2>1. \A i \in 1 .. 3 : chosen[i] = IF i = 1 THEN s[i] ELSE chosen[i - 1] \o s[i]
    BY <1>6
  <2>2. chosen[1] = s[1]
    BY <2>1
  <2>6. 2 \in 1 .. 3 /\ 3 \in 1 .. 3 /\ 2 # 1 /\ 3 # 1
    OBVIOUS
  <2>3. chosen[2] = chosen[2 - 1] \o s[2]
    BY <2>1, <2>6, Zenon
  <2>4. chosen[3] = chosen[3 - 1] \o s[3]
    BY <2>1, <2>6, Zenon
  <2>5. 2 - 1 = 1 /\ 3 - 1 = 2
    OBVIOUS
  <2>. QED
    BY <1>5, <2>2, <2>3, <2>4, <2>5
<1>. QED
  BY <1>3, <1>4, <1>5 DEF s

\* One element after the other.
LEMMA Chained ==
  ASSUME NEW x \in Nat, NEW y \in Nat, NEW z \in Nat
  PROVE  <<x>> \o <<y>> = <<x, y>> /\ <<x, y>> \o <<z>> = <<x, y, z>>
<1>1. <<x>> \o <<y>> = <<x, y>>
  <2>. DEFINE s == <<x>> \o <<y>>
  <2>1. <<x>> \in Seq(Nat) /\ <<y>> \in Seq(Nat) /\ Len(<<x>>) = 1 /\ Len(<<y>>) = 1
    OBVIOUS
  <2>2. s \in Seq(Nat) /\ Len(s) = 2 /\ s[1] = <<x>>[1] /\ s[2] = <<y>>[1]
    BY <2>1, ConcatProperties
  <2>3. <<x, y>> \in Seq(Nat) /\ Len(<<x, y>>) = 2 /\ <<x, y>>[1] = x /\ <<x, y>>[2] = y
    OBVIOUS
  <2>. HIDE DEF s
  <2>4. \A i \in 1 .. 2 : s[i] = <<x, y>>[i]
    BY <2>2, <2>3
  <2>5. s = <<x, y>>
    BY <2>2, <2>3, <2>4, SeqEqual
  <2>. QED
    BY <2>5 DEF s
<1>2. <<x, y>> \o <<z>> = <<x, y, z>>
  <2>. DEFINE s == <<x, y>> \o <<z>>
  <2>1. <<x, y>> \in Seq(Nat) /\ <<z>> \in Seq(Nat) /\ Len(<<x, y>>) = 2 /\ Len(<<z>>) = 1
    OBVIOUS
  <2>2. /\ s \in Seq(Nat) /\ Len(s) = 3
        /\ s[1] = <<x, y>>[1] /\ s[2] = <<x, y>>[2] /\ s[3] = <<z>>[1]
    BY <2>1, ConcatProperties
  <2>3. /\ <<x, y, z>> \in Seq(Nat) /\ Len(<<x, y, z>>) = 3
        /\ <<x, y, z>>[1] = x /\ <<x, y, z>>[2] = y /\ <<x, y, z>>[3] = z
    OBVIOUS
  <2>. HIDE DEF s
  <2>4. \A i \in 1 .. 3 : s[i] = <<x, y, z>>[i]
    BY <2>2, <2>3
  <2>5. s = <<x, y, z>>
    BY <2>2, <2>3, <2>4, SeqEqual
  <2>. QED
    BY <2>5 DEF s
<1>. QED
  BY <1>1, <1>2

\* U+FEFF as code units.
LEMMA MarkUnits ==
  /\ encode(8, byte_order_mark) = <<239, 187, 191>>
  /\ encode(16, byte_order_mark) = <<65279>>
  /\ encode(32, byte_order_mark) = <<65279>>
<1>1. byte_order_mark = 65279
  BY SMT DEF byte_order_mark
<1>2. encode(8, 65279) = utf8(65279) /\ encode(16, 65279) = utf16(65279)
  BY DEF encode
<1>3. encode(32, 65279) = <<65279>>
  BY DEF encode
<1>4. utf8(65279) = write3(65279)
  BY SMT DEF utf8
<1>5. write3(65279) = <<239, 187, 191>>
  BY SMT DEF write3, tail_byte
<1>6. utf16(65279) = <<65279>>
  BY SMT DEF utf16
<1>. QED
  BY <1>1, <1>2, <1>3, <1>4, <1>5, <1>6

\* And those as bytes.
LEMMA Marks ==
  /\ Mark(selection(8, "be")) = <<239, 187, 191>>
  /\ Mark(selection(16, "be")) = <<254, 255>>
  /\ Mark(selection(16, "le")) = <<255, 254>>
  /\ Mark(selection(32, "be")) = <<0, 0, 254, 255>>
  /\ Mark(selection(32, "le")) = <<255, 254, 0, 0>>
<1>1. ASSUME NEW e, NEW n, NEW u, encode(e, byte_order_mark) = <<u>>
      PROVE  Mark(selection(e, n)) = Serialized(selection(e, n), u)
  <2>. DEFINE s == selection(e, n)
              units == encode(s.encoding, byte_order_mark)
  <2>1. s.encoding = e
    BY DEF selection
  <2>. HIDE DEF s
  <2>2. [i \in DOMAIN units |-> Serialized(s, units[i])] = <<Serialized(s, u)>>
    BY <1>1, <2>1
  <2>3. Mark(s) = FlattenSeq(<<Serialized(s, u)>>)
    BY <2>2 DEF Mark
  <2>. QED
    BY <2>3, FlattenOne DEF s
<1>2. Mark(selection(8, "be")) = <<239, 187, 191>>
  <2>. DEFINE s == selection(8, "be")
              units == encode(s.encoding, byte_order_mark)
  <2>1. s.encoding = 8 /\ s.endian = "be"
    BY DEF selection
  <2>. HIDE DEF s
  <2>2. \A u : Serialized(s, u) = <<u>>
    BY <2>1 DEF Serialized
  <2>3. units = <<239, 187, 191>>
    BY <2>1, MarkUnits
  <2>4. [i \in DOMAIN units |-> Serialized(s, units[i])] = <<<<239>>, <<187>>, <<191>>>>
    BY <2>2, <2>3
  <2>5. Mark(s) = FlattenSeq(<<<<239>>, <<187>>, <<191>>>>)
    BY <2>4 DEF Mark
  <2>6. FlattenSeq(<<<<239>>, <<187>>, <<191>>>>) = (<<239>> \o <<187>>) \o <<191>>
    BY FlattenThree
  <2>7. <<239>> \o <<187>> = <<239, 187>> /\ <<239, 187>> \o <<191>> = <<239, 187, 191>>
    BY Chained
  <2>. QED
    BY <2>5, <2>6, <2>7 DEF s
<1>3. 65279 \div 256 = 254 /\ 65279 % 256 = 255 /\ 65279 \div 65536 = 0 /\ 254 % 256 = 254
  BY SMT
<1>4. /\ Serialized(selection(16, "be"), 65279) = <<254, 255>>
      /\ Serialized(selection(32, "be"), 65279) = <<0, 0, 254, 255>>
  BY <1>3 DEF Serialized, selection
<1>5. Serialized(selection(16, "le"), 65279) = <<255, 254>>
  <2>1. Serialized(selection(16, "le"), 65279) = Reverse(<<254, 255>>)
    BY <1>3 DEF Serialized, selection
  <2>. QED
    BY <2>1 DEF Reverse
<1>6. Serialized(selection(32, "le"), 65279) = <<255, 254, 0, 0>>
  <2>1. Serialized(selection(32, "le"), 65279) = Reverse(<<0, 0, 254, 255>>)
    BY <1>3 DEF Serialized, selection
  <2>. QED
    BY <2>1 DEF Reverse
<1>. QED
  BY <1>1, <1>2, <1>4, <1>5, <1>6, MarkUnits

\* The selections there are.
LEMMA SelectionsAre ==
  /\ Selections = {selection(8, "be"), selection(16, "be"), selection(16, "le"),
                   selection(32, "be"), selection(32, "le")}
  /\ \A e, n : selection(e, n).encoding = e /\ selection(e, n).endian = n
<1>1. \A s : s \in Selections <=>
        \/ \E e \in Encodings : s = selection(e, "be")
        \/ \E e \in {16, 32} : s = selection(e, "le")
  BY DEF Selections, selection
<1>2. \A s : s \in Selections <=>
        s \in {selection(8, "be"), selection(16, "be"), selection(16, "le"),
               selection(32, "be"), selection(32, "le")}
  BY <1>1 DEF Encodings
<1>3. \A e, n : selection(e, n).encoding = e /\ selection(e, n).endian = n
  BY DEF selection
<1>. QED
  BY <1>2, <1>3

\* A prefix, element by element.
LEMMA PrefixIs ==
  ASSUME NEW s \in Seq(Nat), NEW u \in Seq(Nat)
  PROVE  IsPrefix(s, u) <=> Len(s) <= Len(u) /\ \A i \in 1 .. Len(s) : s[i] = u[i]
<1>1. SubSeq(s, 1, Len(s)) = s
  BY SubSeqFull
<1>2. ASSUME Len(s) <= Len(u)
      PROVE  SubSeq(u, 1, Len(s)) = s <=> \A i \in 1 .. Len(s) : s[i] = u[i]
  <2>. DEFINE front == SubSeq(u, 1, Len(s))
  <2>1. /\ front \in Seq(Nat) /\ Len(front) = Len(s)
        /\ \A i \in 1 .. Len(s) : front[i] = u[i]
    BY <1>2
  <2>. HIDE DEF front
  <2>2. front = s <=> \A i \in 1 .. Len(s) : s[i] = front[i]
    BY <2>1, SeqEqual
  <2>. QED
    BY <2>1, <2>2 DEF front
<1>. QED
  BY <1>1, <1>2 DEF IsPrefix

\* Of two sequences that begin alike, the shorter is a prefix; one longer by an
\* element is so either of the sequence or together with its last element.
LEMMA PrefixOfAppended ==
  ASSUME NEW s \in Seq(Nat), NEW mark \in Seq(Nat), NEW x \in Nat
  PROVE  /\ IsPrefix(mark, Append(s, x)) <=> IsPrefix(mark, s) \/ mark = Append(s, x)
         /\ IsPrefix(Append(s, x), mark) => IsStrictPrefix(s, mark)
         /\ IsPrefix(mark, s) => ~ IsStrictPrefix(s, mark)
<1>. DEFINE longer == Append(s, x)
            n == Len(s)
            m == Len(mark)
<1>1. /\ longer \in Seq(Nat) /\ Len(longer) = n + 1 /\ longer[n + 1] = x
      /\ \A i \in 1 .. n : longer[i] = s[i]
  OBVIOUS
<1>2. n \in Nat /\ m \in Nat
  OBVIOUS
<1>. HIDE DEF longer
<1>3. /\ IsPrefix(mark, s) <=> m <= n /\ \A i \in 1 .. m : mark[i] = s[i]
      /\ IsPrefix(mark, longer) <=> m <= n + 1 /\ \A i \in 1 .. m : mark[i] = longer[i]
      /\ IsPrefix(longer, mark) <=> n + 1 <= m /\ \A i \in 1 .. n + 1 : longer[i] = mark[i]
      /\ IsPrefix(s, mark) <=> n <= m /\ \A i \in 1 .. n : s[i] = mark[i]
  BY <1>1, PrefixIs
<1>4. mark = longer <=> m = n + 1 /\ \A i \in 1 .. m : mark[i] = longer[i]
  BY <1>1, SeqEqual
<1>. HIDE DEF n, m
<1>5. m <= n => (IsPrefix(mark, longer) <=> IsPrefix(mark, s))
  BY <1>1, <1>2, <1>3
<1>6. m > n => (IsPrefix(mark, longer) <=> mark = longer) /\ ~ IsPrefix(mark, s)
  BY <1>2, <1>3, <1>4
<1>7. m <= n => mark # longer
  BY <1>2, <1>4
<1>8. IsPrefix(mark, longer) <=> IsPrefix(mark, s) \/ mark = longer
  BY <1>2, <1>5, <1>6, <1>7
<1>9. IsPrefix(longer, mark) => IsPrefix(s, mark) /\ s # mark
  <2>1. IsPrefix(longer, mark) => IsPrefix(s, mark)
    BY <1>1, <1>2, <1>3
  <2>2. IsPrefix(longer, mark) => s # mark
    BY <1>2, <1>3 DEF n, m
  <2>. QED
    BY <2>1, <2>2
<1>10. IsPrefix(mark, s) /\ IsPrefix(s, mark) => s = mark
  <2>1. IsPrefix(mark, s) /\ IsPrefix(s, mark) => n = m
    BY <1>2, <1>3
  <2>. QED
    BY <1>3, <2>1, SeqEqual DEF n, m
<1>. QED
  BY <1>8, <1>9, <1>10 DEF longer, IsStrictPrefix

\* A mark is a sequence of bytes.
LEMMA MarkIsBytes == ASSUME NEW s \in Selections PROVE Mark(s) \in Seq(Byte) /\ Mark(s) \in Seq(Nat)
<1>1. {0, 187, 191, 239, 254, 255} \subseteq Byte /\ Byte \subseteq Nat
  BY ByteRange
<1>5. /\ Mark(selection(8, "be")) \in Seq(Byte) /\ Mark(selection(16, "be")) \in Seq(Byte)
      /\ Mark(selection(16, "le")) \in Seq(Byte) /\ Mark(selection(32, "be")) \in Seq(Byte)
      /\ Mark(selection(32, "le")) \in Seq(Byte)
  <2>1. Mark(selection(8, "be")) \in Seq(Byte)
    <3>1. Mark(selection(8, "be")) = <<239, 187, 191>>
      BY Marks
    <3>2. <<239, 187, 191>> \in Seq(Byte)
      BY <1>1
    <3>. QED
      BY <3>1, <3>2
  <2>2. Mark(selection(16, "be")) \in Seq(Byte)
    <3>1. Mark(selection(16, "be")) = <<254, 255>>
      BY Marks
    <3>2. <<254, 255>> \in Seq(Byte)
      BY <1>1
    <3>. QED
      BY <3>1, <3>2
  <2>3. Mark(selection(16, "le")) \in Seq(Byte)
    <3>1. Mark(selection(16, "le")) = <<255, 254>>
      BY Marks
    <3>2. <<255, 254>> \in Seq(Byte)
      BY <1>1
    <3>. QED
      BY <3>1, <3>2
  <2>4. Mark(selection(32, "be")) \in Seq(Byte)
    <3>1. Mark(selection(32, "be")) = <<0, 0, 254, 255>>
      BY Marks
    <3>2. <<0, 0, 254, 255>> \in Seq(Byte)
      BY <1>1
    <3>. QED
      BY <3>1, <3>2
  <2>5. Mark(selection(32, "le")) \in Seq(Byte)
    <3>1. Mark(selection(32, "le")) = <<255, 254, 0, 0>>
      BY Marks
    <3>2. <<255, 254, 0, 0>> \in Seq(Byte)
      BY <1>1
    <3>. QED
      BY <3>1, <3>2
  <2>. QED
    BY <2>1, <2>2, <2>3, <2>4, <2>5
<1>6. \/ s = selection(8, "be") \/ s = selection(16, "be") \/ s = selection(16, "le")
      \/ s = selection(32, "be") \/ s = selection(32, "le")
  BY SelectionsAre
<1>3. Mark(s) \in Seq(Byte)
  BY <1>5, <1>6
<1>4. \A u \in Seq(Byte) : u \in Seq(Nat)
  BY <1>1, SeqMonotonic
<1>. QED
  BY <1>3, <1>4

\* Once the mark has been decided upon, no byte that follows changes what the
\* stream begins with.
LEMMA Decided ==
  ASSUME NEW bytes \in Seq(Byte), NEW b \in Byte, ~ Undecided(bytes)
  PROVE  /\ ~ Undecided(Append(bytes, b))
         /\ Marked(Append(bytes, b)) = Marked(bytes)
         /\ Announced(Append(bytes, b)) = Announced(bytes)
         /\ Misread(Append(bytes, b)) <=> Misread(bytes)
<1>0. bytes \in Seq(Nat) /\ b \in Nat /\ b \in Int
  <2>1. Byte \subseteq Nat
    BY ByteRange
  <2>2. bytes \in Seq(Nat)
    BY <2>1, SeqMonotonic
  <2>3. b \in Nat
    BY <2>1
  <2>. QED
    BY <2>2, <2>3
<1>1. ASSUME NEW s \in Selections
      PROVE  /\ ~ IsPrefix(Append(bytes, b), Mark(s))
             /\ IsPrefix(Mark(s), Append(bytes, b)) <=> IsPrefix(Mark(s), bytes)
  <2>. DEFINE mark == Mark(s)
  <2>1. mark \in Seq(Nat)
    BY MarkIsBytes
  <2>2. ~ IsStrictPrefix(bytes, mark)
    BY DEF Undecided
  <2>. HIDE DEF mark
  <2>3. ~ IsPrefix(Append(bytes, b), mark)
    BY <1>0, <2>1, <2>2, PrefixOfAppended
  <2>4. IsPrefix(Append(bytes, b), Append(bytes, b))
    BY DEF IsPrefix
  <2>5. mark # Append(bytes, b)
    BY <2>3, <2>4
  <2>6. IsPrefix(mark, Append(bytes, b)) <=> IsPrefix(mark, bytes)
    BY <1>0, <2>1, <2>5, PrefixOfAppended
  <2>. QED
    BY <2>3, <2>6 DEF mark
<1>2. ~ Undecided(Append(bytes, b))
  BY <1>1 DEF Undecided, IsStrictPrefix
<1>3. Marked(Append(bytes, b)) = Marked(bytes)
  BY <1>1 DEF Marked
<1>4. Announced(Append(bytes, b)) = Announced(bytes)
  BY <1>3 DEF Announced
<1>5. Misread(Append(bytes, b)) <=> Misread(bytes)
  <2>. DEFINE longer == Append(bytes, b)
              n == Len(bytes)
              Same == Misread(longer) <=> Misread(bytes)
  <2>. SUFFICES Same
    OBVIOUS
  <2>1. n \in Nat /\ Len(longer) = n + 1 /\ \A i \in 1 .. n : longer[i] = bytes[i]
    OBVIOUS
  <2>2. n >= 4 => longer[4] = bytes[4]
    BY <2>1
  <2>3. n >= 3 => SubSeq(longer, 1, 3) = SubSeq(bytes, 1, 3)
    BY <2>1
  <2>4. ASSUME n = 3 PROVE SubSeq(longer, 1, 3) # <<255, 254, 0>>
    <3>1. SubSeq(longer, 1, 3) = bytes
      BY <2>3, <2>4, SubSeqFull
    <3>2. bytes # <<255, 254, 0>>
      <4>. SUFFICES ASSUME bytes = <<255, 254, 0>> PROVE FALSE
        OBVIOUS
      <4>1. selection(32, "le") \in Selections /\ Mark(selection(32, "le")) = <<255, 254, 0, 0>>
        BY SelectionsAre, Marks
      <4>2. IsPrefix(<<255, 254, 0>>, <<255, 254, 0, 0>>)
        <5>1. <<255, 254, 0>> \in Seq(Nat) /\ <<255, 254, 0, 0>> \in Seq(Nat)
          OBVIOUS
        <5>2. /\ Len(<<255, 254, 0>>) = 3 /\ Len(<<255, 254, 0, 0>>) = 4
              /\ \A i \in 1 .. 3 : <<255, 254, 0>>[i] = <<255, 254, 0, 0>>[i]
          OBVIOUS
        <5>. DEFINE short == <<255, 254, 0>>
                    long == <<255, 254, 0, 0>>
        <5>3. /\ short \in Seq(Nat) /\ long \in Seq(Nat) /\ Len(short) <= Len(long)
              /\ \A i \in 1 .. Len(short) : short[i] = long[i]
          BY <5>1, <5>2
        <5>. HIDE DEF short, long
        <5>4. IsPrefix(short, long)
          BY <5>3, PrefixIs
        <5>. QED
          BY <5>4 DEF short, long
      <4>3. <<255, 254, 0>> # <<255, 254, 0, 0>>
        OBVIOUS
      <4>. QED
        BY <4>1, <4>2, <4>3 DEF Undecided, IsStrictPrefix
    <3>. QED
      BY <3>1, <3>2
  <2>. HIDE DEF longer
  <2>5. Misread(longer) <=> n + 1 >= 4 /\ SubSeq(longer, 1, 3) = <<255, 254, 0>> /\ longer[4] # 0
    BY <2>1 DEF Misread
  <2>6. Misread(bytes) <=> n >= 4 /\ SubSeq(bytes, 1, 3) = <<255, 254, 0>> /\ bytes[4] # 0
    BY DEF Misread
  <2>. DEFINE three == <<255, 254, 0>>
  <2>11. /\ Misread(longer) <=> n + 1 >= 4 /\ SubSeq(longer, 1, 3) = three /\ longer[4] # 0
         /\ Misread(bytes) <=> n >= 4 /\ SubSeq(bytes, 1, 3) = three /\ bytes[4] # 0
         /\ n = 3 => SubSeq(longer, 1, 3) # three
    BY <2>4, <2>5, <2>6
  <2>. HIDE DEF n, three
  <2>7. n >= 4 => Same
    BY <2>1, <2>2, <2>3, <2>11
  <2>8. n = 3 => Same
    BY <2>1, <2>11
  <2>9. n < 3 => Same
    BY <2>1, <2>11
  <2>10. n >= 4 \/ n = 3 \/ n < 3
    BY <2>1
  <2>. HIDE DEF Same
  <2>. QED
    BY <2>7, <2>8, <2>9, <2>10
<1>. QED
  BY <1>2, <1>3, <1>4, <1>5

\* What it takes to begin with a mark, and to be the beginning of one.
LEMMA BeginsWith ==
  ASSUME NEW bytes \in Seq(Nat), NEW mark \in Seq(Nat)
  PROVE  /\ IsPrefix(mark, bytes) <=>
              Len(mark) <= Len(bytes) /\ \A i \in 1 .. Len(mark) : bytes[i] = mark[i]
         /\ IsStrictPrefix(bytes, mark) <=>
              Len(bytes) < Len(mark) /\ \A i \in 1 .. Len(bytes) : bytes[i] = mark[i]
<1>. DEFINE n == Len(bytes)
            m == Len(mark)
<1>1. n \in Nat /\ m \in Nat
  OBVIOUS
<1>2. /\ IsPrefix(mark, bytes) <=> m <= n /\ \A i \in 1 .. m : mark[i] = bytes[i]
      /\ IsPrefix(bytes, mark) <=> n <= m /\ \A i \in 1 .. n : bytes[i] = mark[i]
  BY PrefixIs
<1>3. n = m /\ (\A i \in 1 .. n : bytes[i] = mark[i]) <=> bytes = mark
  BY SeqEqual
<1>. HIDE DEF n, m
<1>4. IsStrictPrefix(bytes, mark) <=> n < m /\ \A i \in 1 .. n : bytes[i] = mark[i]
  BY <1>1, <1>2, <1>3 DEF IsStrictPrefix
<1>5. IsPrefix(mark, bytes) <=> m <= n /\ \A i \in 1 .. m : bytes[i] = mark[i]
  BY <1>2
<1>. QED
  BY <1>4, <1>5 DEF n, m

\* The same for marks of two, three and four bytes.
LEMMA BeginsWithTwo ==
  ASSUME NEW bytes \in Seq(Nat), NEW a \in Nat, NEW b \in Nat
  PROVE  /\ IsPrefix(<<a, b>>, bytes) <=> Len(bytes) >= 2 /\ bytes[1] = a /\ bytes[2] = b
         /\ IsStrictPrefix(bytes, <<a, b>>) <=>
              Len(bytes) < 2 /\ (Len(bytes) >= 1 => bytes[1] = a)
<1>. DEFINE m == <<a, b>>
            n == Len(bytes)
<1>1. m \in Seq(Nat) /\ Len(m) = 2 /\ m[1] = a /\ m[2] = b /\ n \in Nat
  OBVIOUS
<1>. HIDE DEF m
<1>2. /\ IsPrefix(m, bytes) <=> 2 <= n /\ \A i \in 1 .. 2 : bytes[i] = m[i]
      /\ IsStrictPrefix(bytes, m) <=> n < 2 /\ \A i \in 1 .. n : bytes[i] = m[i]
  BY <1>1, BeginsWith
<1>. HIDE DEF n
<1>3. IsPrefix(m, bytes) <=> n >= 2 /\ bytes[1] = a /\ bytes[2] = b
  BY <1>1, <1>2
<1>4. IsStrictPrefix(bytes, m) <=> n < 2 /\ (n >= 1 => bytes[1] = a)
  BY <1>1, <1>2
<1>. QED
  BY <1>3, <1>4 DEF m, n

\* Three bytes.
LEMMA BeginsWithThree ==
  ASSUME NEW bytes \in Seq(Nat), NEW a \in Nat, NEW b \in Nat, NEW c \in Nat
  PROVE  /\ IsPrefix(<<a, b, c>>, bytes) <=>
              Len(bytes) >= 3 /\ bytes[1] = a /\ bytes[2] = b /\ bytes[3] = c
         /\ IsStrictPrefix(bytes, <<a, b, c>>) <=>
              /\ Len(bytes) < 3 /\ (Len(bytes) >= 1 => bytes[1] = a)
              /\ Len(bytes) >= 2 => bytes[2] = b
<1>. DEFINE m == <<a, b, c>>
            n == Len(bytes)
<1>1. m \in Seq(Nat) /\ Len(m) = 3 /\ m[1] = a /\ m[2] = b /\ m[3] = c /\ n \in Nat
  OBVIOUS
<1>. HIDE DEF m
<1>2. /\ IsPrefix(m, bytes) <=> 3 <= n /\ \A i \in 1 .. 3 : bytes[i] = m[i]
      /\ IsStrictPrefix(bytes, m) <=> n < 3 /\ \A i \in 1 .. n : bytes[i] = m[i]
  BY <1>1, BeginsWith
<1>. HIDE DEF n
<1>3. IsPrefix(m, bytes) <=> n >= 3 /\ bytes[1] = a /\ bytes[2] = b /\ bytes[3] = c
  BY <1>1, <1>2
<1>4. IsStrictPrefix(bytes, m) <=>
        n < 3 /\ (n >= 1 => bytes[1] = a) /\ (n >= 2 => bytes[2] = b)
  BY <1>1, <1>2
<1>. QED
  BY <1>3, <1>4 DEF m, n

\* Four bytes.
LEMMA BeginsWithFour ==
  ASSUME NEW bytes \in Seq(Nat), NEW a \in Nat, NEW b \in Nat, NEW c \in Nat, NEW d \in Nat
  PROVE  /\ IsPrefix(<<a, b, c, d>>, bytes) <=>
              Len(bytes) >= 4 /\ bytes[1] = a /\ bytes[2] = b /\ bytes[3] = c /\ bytes[4] = d
         /\ IsStrictPrefix(bytes, <<a, b, c, d>>) <=>
              /\ Len(bytes) < 4 /\ (Len(bytes) >= 1 => bytes[1] = a)
              /\ Len(bytes) >= 2 => bytes[2] = b
              /\ Len(bytes) >= 3 => bytes[3] = c
<1>. DEFINE m == <<a, b, c, d>>
            n == Len(bytes)
<1>1. /\ m \in Seq(Nat) /\ Len(m) = 4 /\ n \in Nat
      /\ m[1] = a /\ m[2] = b /\ m[3] = c /\ m[4] = d
  OBVIOUS
<1>. HIDE DEF m
<1>2. /\ IsPrefix(m, bytes) <=> 4 <= n /\ \A i \in 1 .. 4 : bytes[i] = m[i]
      /\ IsStrictPrefix(bytes, m) <=> n < 4 /\ \A i \in 1 .. n : bytes[i] = m[i]
  BY <1>1, BeginsWith
<1>. HIDE DEF n
<1>3. IsPrefix(m, bytes) <=>
        n >= 4 /\ bytes[1] = a /\ bytes[2] = b /\ bytes[3] = c /\ bytes[4] = d
  BY <1>1, <1>2
<1>4. IsStrictPrefix(bytes, m) <=>
        n < 4 /\ (n >= 1 => bytes[1] = a) /\ (n >= 2 => bytes[2] = b) /\ (n >= 3 => bytes[3] = c)
  BY <1>1, <1>2
<1>. QED
  BY <1>3, <1>4 DEF m, n

\* The marks that bytes begin with, and those they may be the beginning of.
LEMMA MarkTable ==
  ASSUME NEW bytes \in Seq(Byte)
  PROVE  LET n == Len(bytes)
         IN  /\ selection(8, "be") \in Marked(bytes) <=>
                  n >= 3 /\ bytes[1] = 239 /\ bytes[2] = 187 /\ bytes[3] = 191
             /\ selection(16, "be") \in Marked(bytes) <=>
                  n >= 2 /\ bytes[1] = 254 /\ bytes[2] = 255
             /\ selection(16, "le") \in Marked(bytes) <=>
                  n >= 2 /\ bytes[1] = 255 /\ bytes[2] = 254
             /\ selection(32, "be") \in Marked(bytes) <=>
                  n >= 4 /\ bytes[1] = 0 /\ bytes[2] = 0 /\ bytes[3] = 254 /\ bytes[4] = 255
             /\ selection(32, "le") \in Marked(bytes) <=>
                  n >= 4 /\ bytes[1] = 255 /\ bytes[2] = 254 /\ bytes[3] = 0 /\ bytes[4] = 0
             /\ Undecided(bytes) <=>
                  \/ n < 3 /\ (n >= 1 => bytes[1] = 239) /\ (n >= 2 => bytes[2] = 187)
                  \/ n < 2 /\ (n >= 1 => bytes[1] \in {254, 255})
                  \/ /\ n < 4 /\ (n >= 1 => bytes[1] = 0) /\ (n >= 2 => bytes[2] = 0)
                     /\ n >= 3 => bytes[3] = 254
                  \/ /\ n < 4 /\ (n >= 1 => bytes[1] = 255) /\ (n >= 2 => bytes[2] = 254)
                     /\ n >= 3 => bytes[3] = 0
<1>. DEFINE n == Len(bytes)
            u8 == Mark(selection(8, "be"))
            b16 == Mark(selection(16, "be"))
            l16 == Mark(selection(16, "le"))
            b32 == Mark(selection(32, "be"))
            l32 == Mark(selection(32, "le"))
<1>0. bytes \in Seq(Nat) /\ n \in Nat
  <2>1. Byte \subseteq Nat
    BY ByteRange
  <2>2. bytes \in Seq(Nat)
    BY <2>1, SeqMonotonic
  <2>. QED
    BY <2>2
<1>1. /\ IsPrefix(u8, bytes) <=> n >= 3 /\ bytes[1] = 239 /\ bytes[2] = 187 /\ bytes[3] = 191
      /\ IsStrictPrefix(bytes, u8) <=>
           n < 3 /\ (n >= 1 => bytes[1] = 239) /\ (n >= 2 => bytes[2] = 187)
  BY <1>0, Marks, BeginsWithThree
<1>2. /\ IsPrefix(b16, bytes) <=> n >= 2 /\ bytes[1] = 254 /\ bytes[2] = 255
      /\ IsStrictPrefix(bytes, b16) <=> n < 2 /\ (n >= 1 => bytes[1] = 254)
  BY <1>0, Marks, BeginsWithTwo
<1>3. /\ IsPrefix(l16, bytes) <=> n >= 2 /\ bytes[1] = 255 /\ bytes[2] = 254
      /\ IsStrictPrefix(bytes, l16) <=> n < 2 /\ (n >= 1 => bytes[1] = 255)
  BY <1>0, Marks, BeginsWithTwo
<1>4. /\ IsPrefix(b32, bytes) <=>
           n >= 4 /\ bytes[1] = 0 /\ bytes[2] = 0 /\ bytes[3] = 254 /\ bytes[4] = 255
      /\ IsStrictPrefix(bytes, b32) <=>
           /\ n < 4 /\ (n >= 1 => bytes[1] = 0) /\ (n >= 2 => bytes[2] = 0)
           /\ n >= 3 => bytes[3] = 254
  BY <1>0, Marks, BeginsWithFour
<1>5. /\ IsPrefix(l32, bytes) <=>
           n >= 4 /\ bytes[1] = 255 /\ bytes[2] = 254 /\ bytes[3] = 0 /\ bytes[4] = 0
      /\ IsStrictPrefix(bytes, l32) <=>
           /\ n < 4 /\ (n >= 1 => bytes[1] = 255) /\ (n >= 2 => bytes[2] = 254)
           /\ n >= 3 => bytes[3] = 0
  BY <1>0, Marks, BeginsWithFour
<1>6. \A s \in Selections : s \in Marked(bytes) <=> IsPrefix(Mark(s), bytes)
  BY DEF Marked
<1>7. /\ selection(8, "be") \in Selections
      /\ selection(16, "be") \in Selections /\ selection(16, "le") \in Selections
      /\ selection(32, "be") \in Selections /\ selection(32, "le") \in Selections
  BY SelectionsAre
<1>8. Undecided(bytes) <=>
        \/ IsStrictPrefix(bytes, u8) \/ IsStrictPrefix(bytes, b16) \/ IsStrictPrefix(bytes, l16)
        \/ IsStrictPrefix(bytes, b32) \/ IsStrictPrefix(bytes, l32)
  BY SelectionsAre DEF Undecided
<1>9. /\ selection(8, "be") \in Marked(bytes) <=> IsPrefix(u8, bytes)
      /\ selection(16, "be") \in Marked(bytes) <=> IsPrefix(b16, bytes)
      /\ selection(16, "le") \in Marked(bytes) <=> IsPrefix(l16, bytes)
      /\ selection(32, "be") \in Marked(bytes) <=> IsPrefix(b32, bytes)
      /\ selection(32, "le") \in Marked(bytes) <=> IsPrefix(l32, bytes)
  BY <1>6, <1>7
<1>. HIDE DEF n, u8, b16, l16, b32, l32
<1>10. Undecided(bytes) <=>
         \/ n < 3 /\ (n >= 1 => bytes[1] = 239) /\ (n >= 2 => bytes[2] = 187)
         \/ n < 2 /\ (n >= 1 => bytes[1] \in {254, 255})
         \/ /\ n < 4 /\ (n >= 1 => bytes[1] = 0) /\ (n >= 2 => bytes[2] = 0)
            /\ n >= 3 => bytes[3] = 254
         \/ /\ n < 4 /\ (n >= 1 => bytes[1] = 255) /\ (n >= 2 => bytes[2] = 254)
            /\ n >= 3 => bytes[3] = 0
  BY <1>1, <1>2, <1>3, <1>4, <1>5, <1>8
<1>. QED
  BY <1>1, <1>2, <1>3, <1>4, <1>5, <1>9, <1>10 DEF n

\* The entries of the table of marks that are looked for, and their number.
LEMMA BomTable ==
  /\ boms(8, "be")[1] = 239 /\ boms(8, "be")[2] = 187 /\ boms(8, "be")[3] = 191
  /\ boms(16, "be")[1] = 254 /\ boms(16, "be")[2] = 255
  /\ boms(32, "be")[1] = 0 /\ boms(32, "be")[2] = 0
  /\ boms(32, "be")[3] = 254 /\ boms(32, "be")[4] = 255
  /\ boms(32, "le")[1] = 255 /\ boms(32, "le")[2] = 254
  /\ boms(32, "le")[3] = 0 /\ boms(32, "le")[4] = 0
  BY SMT DEF boms

-----------------------------------------------------------------------------
(***************************************************************************)
(* What is selected for the bytes of a stream, once they decide it, and    *)
(* what of them follows the mark.                                          *)
(***************************************************************************)
utf8_selected == selection(8, "be")

selected_for(bytes) == IF Misread(bytes) THEN utf8_selected ELSE Announced(bytes)

after_mark(s, bytes) ==
  IF s \in Marked(bytes) THEN SubSeq(bytes, Len(Mark(s)) + 1, Len(bytes)) ELSE bytes

\* Misread streams, element by element.
LEMMA MisreadIs ==
  ASSUME NEW bytes \in Seq(Byte)
  PROVE  Misread(bytes) <=>
           /\ Len(bytes) >= 4
           /\ bytes[1] = 255 /\ bytes[2] = 254 /\ bytes[3] = 0 /\ bytes[4] # 0
<1>. SUFFICES ASSUME Len(bytes) >= 4
              PROVE  SubSeq(bytes, 1, 3) = <<255, 254, 0>> <=>
                       bytes[1] = 255 /\ bytes[2] = 254 /\ bytes[3] = 0
  BY DEF Misread
<1>. DEFINE front == SubSeq(bytes, 1, 3)
            three == <<255, 254, 0>>
<1>1. /\ front \in Seq(Byte) /\ Len(front) = 3
      /\ front[1] = bytes[1] /\ front[2] = bytes[2] /\ front[3] = bytes[3]
  OBVIOUS
<1>2. three \in Seq(Nat) /\ Len(three) = 3 /\ three[1] = 255 /\ three[2] = 254 /\ three[3] = 0
  OBVIOUS
<1>3. front \in Seq(Nat)
  <2>1. Byte \subseteq Nat
    BY ByteRange
  <2>. HIDE DEF front
  <2>. QED
    BY <1>1, <2>1, SeqMonotonic
<1>. HIDE DEF front, three
<1>4. ASSUME \A i \in 1 .. 3 : front[i] = three[i] PROVE front = three
  <2>1. \A i \in 1 .. Len(front) : front[i] = three[i]
    BY <1>1, <1>4
  <2>2. Len(front) = Len(three)
    BY <1>1, <1>2
  <2>3. three \in Seq(Nat)
    BY <1>2
  <2>. QED
    BY <1>3, <2>1, <2>2, <2>3, SeqEqual
<1>5. front = three <=> front[1] = three[1] /\ front[2] = three[2] /\ front[3] = three[3]
  BY <1>4
<1>. QED
  BY <1>1, <1>2, <1>5 DEF front, three

\* Where there is no mark, or it is misread, UTF-8 is selected for all the bytes.
LEMMA SelectsUtf8 ==
  ASSUME NEW bytes, utf8_selected \notin Marked(bytes), Marked(bytes) = {} \/ Misread(bytes)
  PROVE  selected_for(bytes) = utf8_selected /\ after_mark(utf8_selected, bytes) = bytes
<1>1. Marked(bytes) = {} => Announced(bytes) = utf8_selected
  BY DEF Announced, utf8_selected, selection
<1>. QED
  BY <1>1 DEF selected_for, after_mark

\* Where there is a mark, the longest is what they announce.
LEMMA SelectsLongest ==
  ASSUME NEW bytes, NEW s \in Marked(bytes), ~ Misread(bytes),
         \A o \in Marked(bytes) : o # s => Len(Mark(o)) < Len(Mark(s))
  PROVE  selected_for(bytes) = s
<1>. DEFINE Longest(x) == x \in Marked(bytes)
                            /\ \A o \in Marked(bytes) : Len(Mark(o)) <= Len(Mark(x))
            chosen == CHOOSE x : Longest(x)
<1>1. \A o \in Marked(bytes) : o \in Selections /\ Len(Mark(o)) \in Nat
  BY MarkIsBytes DEF Marked
<1>2. Longest(s)
  BY <1>1
<1>3. \A x : Longest(x) => x = s
  BY <1>1
<1>4. Announced(bytes) = CHOOSE x \in Marked(bytes) :
                           \A o \in Marked(bytes) : Len(Mark(o)) <= Len(Mark(x))
  BY DEF Announced
<1>5. Announced(bytes) = s
  BY <1>2, <1>3, <1>4
<1>. QED
  BY <1>5 DEF selected_for

\* There is no mark if there is none of the five.
LEMMA NoMark ==
  ASSUME NEW bytes, selection(8, "be") \notin Marked(bytes),
         selection(16, "be") \notin Marked(bytes), selection(16, "le") \notin Marked(bytes),
         selection(32, "be") \notin Marked(bytes), selection(32, "le") \notin Marked(bytes)
  PROVE  Marked(bytes) = {}
<1>1. \A s \in Marked(bytes) : s \in Selections
  BY DEF Marked
<1>. QED
  BY <1>1, SelectionsAre

-----------------------------------------------------------------------------
(***************************************************************************)
(* A machine that waits for the rest of a mark has read what its state     *)
(* says, and has it in its buffer.                                         *)
(***************************************************************************)
Reading(s, bytes) ==
  /\ Len(bytes) = s.byte_no
  /\ \A i \in 1 .. s.byte_no : bytes[i] = boms(s.encoding, s.endian)[i]

filled(bytes) == [n \in 0 .. 3 |-> IF n < Len(bytes) THEN bytes[n + 1] ELSE 0]

\* What it has read, state by state.
LEMMA ReadingTable ==
  ASSUME NEW bytes \in Seq(Byte), NEW s \in BomStates, Reading(s, bytes)
  PROVE  LET n == Len(bytes)
         IN  \/ s = start /\ n = 0
             \/ s = utf8_bom_byte1 /\ n = 1 /\ bytes[1] = 239
             \/ s = utf8_bom_byte2 /\ n = 2 /\ bytes[1] = 239 /\ bytes[2] = 187
             \/ s = utf16_be_bom_byte1 /\ n = 1 /\ bytes[1] = 254
             \/ s = utf32_or_16_be_bom_byte1 /\ n = 1 /\ bytes[1] = 0
             \/ s = utf32_be_bom_byte2 /\ n = 2 /\ bytes[1] = 0 /\ bytes[2] = 0
             \/ s = utf32_be_bom_byte3 /\ n = 3 /\ bytes[1] = 0 /\ bytes[2] = 0 /\ bytes[3] = 254
             \/ s = utf32_or_16_le_bom_byte1 /\ n = 1 /\ bytes[1] = 255
             \/ s = utf32_or_16_le_bom_byte2 /\ n = 2 /\ bytes[1] = 255 /\ bytes[2] = 254
             \/ s = utf32_le_bom_byte3 /\ n = 3 /\ bytes[1] = 255 /\ bytes[2] = 254 /\ bytes[3] = 0
<1>1. ASSUME s = utf8_bom_byte1 PROVE Len(bytes) = 1 /\ bytes[1] = 239
  BY <1>1, BomTable DEF Reading, utf8_bom_byte1, state
<1>2. ASSUME s = utf8_bom_byte2 PROVE Len(bytes) = 2 /\ bytes[1] = 239 /\ bytes[2] = 187
  BY <1>2, BomTable DEF Reading, utf8_bom_byte2, state
<1>3. ASSUME s = utf16_be_bom_byte1 PROVE Len(bytes) = 1 /\ bytes[1] = 254
  BY <1>3, BomTable DEF Reading, utf16_be_bom_byte1, state
<1>4. ASSUME s = utf32_or_16_be_bom_byte1 PROVE Len(bytes) = 1 /\ bytes[1] = 0
  BY <1>4, BomTable DEF Reading, utf32_or_16_be_bom_byte1, state
<1>5. ASSUME s = utf32_be_bom_byte2 PROVE Len(bytes) = 2 /\ bytes[1] = 0 /\ bytes[2] = 0
  BY <1>5, BomTable DEF Reading, utf32_be_bom_byte2, state
<1>6. ASSUME s = utf32_be_bom_byte3
      PROVE  Len(bytes) = 3 /\ bytes[1] = 0 /\ bytes[2] = 0 /\ bytes[3] = 254
  BY <1>6, BomTable DEF Reading, utf32_be_bom_byte3, state
<1>7. ASSUME s = utf32_or_16_le_bom_byte1 PROVE Len(bytes) = 1 /\ bytes[1] = 255
  BY <1>7, BomTable DEF Reading, utf32_or_16_le_bom_byte1, state
<1>8. ASSUME s = utf32_or_16_le_bom_byte2 PROVE Len(bytes) = 2 /\ bytes[1] = 255 /\ bytes[2] = 254
  BY <1>8, BomTable DEF Reading, utf32_or_16_le_bom_byte2, state
<1>9. ASSUME s = utf32_le_bom_byte3
      PROVE  Len(bytes) = 3 /\ bytes[1] = 255 /\ bytes[2] = 254 /\ bytes[3] = 0
  BY <1>9, BomTable DEF Reading, utf32_le_bom_byte3, state
<1>10. ASSUME s = start PROVE Len(bytes) = 0
  BY <1>10 DEF Reading, start, state
<1>. QED
  BY <1>1, <1>2, <1>3, <1>4, <1>5, <1>6, <1>7, <1>8, <1>9, <1>10 DEF BomStates

\* And the other way round.
LEMMA ReadingOf ==
  ASSUME NEW bytes \in Seq(Byte)
  PROVE  LET n == Len(bytes)
         IN  /\ n = 0 => Reading(start, bytes)
             /\ n = 1 /\ bytes[1] = 239 => Reading(utf8_bom_byte1, bytes)
             /\ n = 2 /\ bytes[1] = 239 /\ bytes[2] = 187 => Reading(utf8_bom_byte2, bytes)
             /\ n = 1 /\ bytes[1] = 254 => Reading(utf16_be_bom_byte1, bytes)
             /\ n = 1 /\ bytes[1] = 0 => Reading(utf32_or_16_be_bom_byte1, bytes)
             /\ n = 2 /\ bytes[1] = 0 /\ bytes[2] = 0 => Reading(utf32_be_bom_byte2, bytes)
             /\ n = 3 /\ bytes[1] = 0 /\ bytes[2] = 0 /\ bytes[3] = 254 =>
                  Reading(utf32_be_bom_byte3, bytes)
             /\ n = 1 /\ bytes[1] = 255 => Reading(utf32_or_16_le_bom_byte1, bytes)
             /\ n = 2 /\ bytes[1] = 255 /\ bytes[2] = 254 => Reading(utf32_or_16_le_bom_byte2, bytes)
             /\ n = 3 /\ bytes[1] = 255 /\ bytes[2] = 254 /\ bytes[3] = 0 =>
                  Reading(utf32_le_bom_byte3, bytes)
<1>. DEFINE n == Len(bytes)
<1>1. ASSUME n = 0 PROVE Reading(start, bytes)
  BY <1>1 DEF Reading, start, state
<1>2. ASSUME n = 1, bytes[1] = 239 PROVE Reading(utf8_bom_byte1, bytes)
  BY <1>2, BomTable DEF Reading, utf8_bom_byte1, state
<1>3. ASSUME n = 2, bytes[1] = 239, bytes[2] = 187 PROVE Reading(utf8_bom_byte2, bytes)
  BY <1>3, BomTable DEF Reading, utf8_bom_byte2, state
<1>4. ASSUME n = 1, bytes[1] = 254 PROVE Reading(utf16_be_bom_byte1, bytes)
  BY <1>4, BomTable DEF Reading, utf16_be_bom_byte1, state
<1>5. ASSUME n = 1, bytes[1] = 0 PROVE Reading(utf32_or_16_be_bom_byte1, bytes)
  BY <1>5, BomTable DEF Reading, utf32_or_16_be_bom_byte1, state
<1>6. ASSUME n = 2, bytes[1] = 0, bytes[2] = 0 PROVE Reading(utf32_be_bom_byte2, bytes)
  BY <1>6, BomTable DEF Reading, utf32_be_bom_byte2, state
<1>7. ASSUME n = 3, bytes[1] = 0, bytes[2] = 0, bytes[3] = 254
      PROVE  Reading(utf32_be_bom_byte3, bytes)
  BY <1>7, BomTable DEF Reading, utf32_be_bom_byte3, state
<1>8. ASSUME n = 1, bytes[1] = 255 PROVE Reading(utf32_or_16_le_bom_byte1, bytes)
  BY <1>8, BomTable DEF Reading, utf32_or_16_le_bom_byte1, state
<1>9. ASSUME n = 2, bytes[1] = 255, bytes[2] = 254 PROVE Reading(utf32_or_16_le_bom_byte2, bytes)
  BY <1>9, BomTable DEF Reading, utf32_or_16_le_bom_byte2, state
<1>10. ASSUME n = 3, bytes[1] = 255, bytes[2] = 254, bytes[3] = 0
       PROVE  Reading(utf32_le_bom_byte3, bytes)
  BY <1>10, BomTable DEF Reading, utf32_le_bom_byte3, state
<1>. QED
  BY <1>1, <1>2, <1>3, <1>4, <1>5, <1>6, <1>7, <1>8, <1>9, <1>10

\* A longer stream, element by element.
LEMMA Longer ==
  ASSUME NEW bytes \in Seq(Byte), NEW b \in Byte
  PROVE  LET n == Len(bytes)
         IN  /\ Append(bytes, b) \in Seq(Byte) /\ n \in Nat
             /\ Len(Append(bytes, b)) = n + 1 /\ Append(bytes, b)[n + 1] = b
             /\ \A i \in 1 .. n : Append(bytes, b)[i] = bytes[i]
  OBVIOUS

\* While it waits, the mark may go on.
LEMMA StillUndecided ==
  ASSUME NEW bytes \in Seq(Byte), NEW s \in BomStates, Reading(s, bytes)
  PROVE  Undecided(bytes)
<1>. DEFINE n == Len(bytes)
<1>1. \/ n = 0
      \/ n = 1 /\ bytes[1] = 239
      \/ n = 2 /\ bytes[1] = 239 /\ bytes[2] = 187
      \/ n = 1 /\ bytes[1] = 254
      \/ n = 1 /\ bytes[1] = 0
      \/ n = 2 /\ bytes[1] = 0 /\ bytes[2] = 0
      \/ n = 3 /\ bytes[1] = 0 /\ bytes[2] = 0 /\ bytes[3] = 254
      \/ n = 1 /\ bytes[1] = 255
      \/ n = 2 /\ bytes[1] = 255 /\ bytes[2] = 254
      \/ n = 3 /\ bytes[1] = 255 /\ bytes[2] = 254 /\ bytes[3] = 0
  BY ReadingTable
<1>2. Undecided(bytes) <=>
        \/ n < 3 /\ (n >= 1 => bytes[1] = 239) /\ (n >= 2 => bytes[2] = 187)
        \/ n < 2 /\ (n >= 1 => bytes[1] \in {254, 255})
        \/ /\ n < 4 /\ (n >= 1 => bytes[1] = 0) /\ (n >= 2 => bytes[2] = 0)
           /\ n >= 3 => bytes[3] = 254
        \/ /\ n < 4 /\ (n >= 1 => bytes[1] = 255) /\ (n >= 2 => bytes[2] = 254)
           /\ n >= 3 => bytes[3] = 0
  BY MarkTable
<1>. HIDE DEF n
<1>. QED
  BY <1>1, <1>2

\* The byte that goes on with a mark is read in the next state.
LEMMA GoesOnHere ==
  ASSUME NEW bytes \in Seq(Byte), NEW s \in BomStates, Reading(s, bytes), NEW b \in Byte
  PROVE  /\ s = start /\ b = 239 => Reading(utf8_bom_byte1, Append(bytes, b))
         /\ s = start /\ b = 254 => Reading(utf16_be_bom_byte1, Append(bytes, b))
         /\ s = start /\ b = 255 => Reading(utf32_or_16_le_bom_byte1, Append(bytes, b))
         /\ s = start /\ b = 0 => Reading(utf32_or_16_be_bom_byte1, Append(bytes, b))
         /\ /\ s \notin {start, utf8_bom_byte2, utf16_be_bom_byte1,
                         utf32_be_bom_byte3, utf32_le_bom_byte3}
            /\ b = bom_value(s)
            => next_byte(s) \in BomStates /\ Reading(next_byte(s), Append(bytes, b))
<1>. DEFINE longer == Append(bytes, b)
<1>1. /\ longer \in Seq(Byte) /\ Len(longer) = Len(bytes) + 1 /\ longer[Len(bytes) + 1] = b
      /\ \A i \in 1 .. Len(bytes) : longer[i] = bytes[i]
  BY Longer
<1>2. s = start => Len(bytes) = 0
  BY DEF Reading, start, state
<1>. HIDE DEF longer
<1>3. /\ s = start /\ b = 239 => Reading(utf8_bom_byte1, longer)
      /\ s = start /\ b = 254 => Reading(utf16_be_bom_byte1, longer)
      /\ s = start /\ b = 255 => Reading(utf32_or_16_le_bom_byte1, longer)
      /\ s = start /\ b = 0 => Reading(utf32_or_16_be_bom_byte1, longer)
  <2>1. s = start => Len(longer) = 1 /\ longer[1] = b
    BY <1>1, <1>2
  <2>. QED
    BY <1>1, <2>1, ReadingOf
<1>4. ASSUME s \notin {start, utf8_bom_byte2, utf16_be_bom_byte1,
                       utf32_be_bom_byte3, utf32_le_bom_byte3},
             b = bom_value(s)
      PROVE  next_byte(s) \in BomStates /\ Reading(next_byte(s), longer)
  <2>1. \/ s = utf8_bom_byte1 \/ s = utf32_or_16_be_bom_byte1 \/ s = utf32_be_bom_byte2
        \/ s = utf32_or_16_le_bom_byte1 \/ s = utf32_or_16_le_bom_byte2
    BY <1>4 DEF BomStates
  <2>2. ASSUME s = utf8_bom_byte1
        PROVE  next_byte(s) = utf8_bom_byte2 /\ Reading(utf8_bom_byte2, longer)
    <3>1. Len(bytes) = 1 /\ bytes[1] = 239 /\ b = 187
      BY <1>4, <2>2, BomTable, BomValues DEF Reading, utf8_bom_byte1, state
    <3>2. Len(longer) = 2 /\ longer[1] = 239 /\ longer[2] = 187
      BY <1>1, <3>1
    <3>. QED
      BY <1>1, <2>2, <3>2, ReadingOf, NextBomState
  <2>3. ASSUME s = utf32_or_16_be_bom_byte1
        PROVE  next_byte(s) = utf32_be_bom_byte2 /\ Reading(utf32_be_bom_byte2, longer)
    <3>1. Len(bytes) = 1 /\ bytes[1] = 0 /\ b = 0
      BY <1>4, <2>3, BomTable, BomValues DEF Reading, utf32_or_16_be_bom_byte1, state
    <3>2. Len(longer) = 2 /\ longer[1] = 0 /\ longer[2] = 0
      BY <1>1, <3>1
    <3>. QED
      BY <1>1, <2>3, <3>2, ReadingOf, NextBomState
  <2>4. ASSUME s = utf32_be_bom_byte2
        PROVE  next_byte(s) = utf32_be_bom_byte3 /\ Reading(utf32_be_bom_byte3, longer)
    <3>1. Len(bytes) = 2 /\ bytes[1] = 0 /\ bytes[2] = 0 /\ b = 254
      BY <1>4, <2>4, BomTable, BomValues DEF Reading, utf32_be_bom_byte2, state
    <3>2. Len(longer) = 3 /\ longer[1] = 0 /\ longer[2] = 0 /\ longer[3] = 254
      BY <1>1, <3>1
    <3>. QED
      BY <1>1, <2>4, <3>2, ReadingOf, NextBomState
  <2>5. ASSUME s = utf32_or_16_le_bom_byte1
        PROVE  next_byte(s) = utf32_or_16_le_bom_byte2 /\ Reading(utf32_or_16_le_bom_byte2, longer)
    <3>1. Len(bytes) = 1 /\ bytes[1] = 255 /\ b = 254
      BY <1>4, <2>5, BomTable, BomValues DEF Reading, utf32_or_16_le_bom_byte1, state
    <3>2. Len(longer) = 2 /\ longer[1] = 255 /\ longer[2] = 254
      BY <1>1, <3>1
    <3>. QED
      BY <1>1, <2>5, <3>2, ReadingOf, NextBomState
  <2>6. ASSUME s = utf32_or_16_le_bom_byte2
        PROVE  next_byte(s) = utf32_le_bom_byte3 /\ Reading(utf32_le_bom_byte3, longer)
    <3>1. Len(bytes) = 2 /\ bytes[1] = 255 /\ bytes[2] = 254 /\ b = 0
      BY <1>4, <2>6, BomTable, BomValues DEF Reading, utf32_or_16_le_bom_byte2, state
    <3>2. Len(longer) = 3 /\ longer[1] = 255 /\ longer[2] = 254 /\ longer[3] = 0
      BY <1>1, <3>1
    <3>. QED
      BY <1>1, <2>6, <3>2, ReadingOf, NextBomState
  <2>7. /\ utf8_bom_byte2 \in BomStates /\ utf32_be_bom_byte2 \in BomStates
        /\ utf32_be_bom_byte3 \in BomStates /\ utf32_or_16_le_bom_byte2 \in BomStates
        /\ utf32_le_bom_byte3 \in BomStates
    BY DEF BomStates
  <2>. QED
    BY <2>1, <2>2, <2>3, <2>4, <2>5, <2>6, <2>7
<1>. QED
  BY <1>3, <1>4 DEF longer

\* A byte that is not of the mark: nothing is marked, or the marked is misread.
LEMMA GivesUpHere ==
  ASSUME NEW bytes \in Seq(Byte), NEW s \in BomStates, Reading(s, bytes), NEW b \in Byte,
         s = start => b \notin {0, 239, 254, 255},
         s # start => b # bom_value(s),
         s # utf32_or_16_le_bom_byte2
  PROVE  LET longer == Append(bytes, b)
         IN  /\ ~ Undecided(longer)
             /\ utf8_selected \notin Marked(longer)
             /\ Marked(longer) = {} \/ Misread(longer)
<1>. DEFINE u == Append(bytes, b)
            n == Len(bytes)
            m == Len(u)
<1>1. /\ u \in Seq(Byte) /\ n \in Nat /\ m = n + 1 /\ u[n + 1] = b
      /\ \A i \in 1 .. n : u[i] = bytes[i]
  BY Longer
<1>2. \/ s = start /\ n = 0
      \/ s = utf8_bom_byte1 /\ n = 1 /\ bytes[1] = 239
      \/ s = utf8_bom_byte2 /\ n = 2 /\ bytes[1] = 239 /\ bytes[2] = 187
      \/ s = utf16_be_bom_byte1 /\ n = 1 /\ bytes[1] = 254
      \/ s = utf32_or_16_be_bom_byte1 /\ n = 1 /\ bytes[1] = 0
      \/ s = utf32_be_bom_byte2 /\ n = 2 /\ bytes[1] = 0 /\ bytes[2] = 0
      \/ s = utf32_be_bom_byte3 /\ n = 3 /\ bytes[1] = 0 /\ bytes[2] = 0 /\ bytes[3] = 254
      \/ s = utf32_or_16_le_bom_byte1 /\ n = 1 /\ bytes[1] = 255
      \/ s = utf32_le_bom_byte3 /\ n = 3 /\ bytes[1] = 255 /\ bytes[2] = 254 /\ bytes[3] = 0
  BY ReadingTable
<1>3. /\ s = utf8_bom_byte1 => b # 187
      /\ s = utf8_bom_byte2 => b # 191
      /\ s = utf16_be_bom_byte1 => b # 255
      /\ s = utf32_or_16_be_bom_byte1 => b # 0
      /\ s = utf32_be_bom_byte2 => b # 254
      /\ s = utf32_be_bom_byte3 => b # 255
      /\ s = utf32_or_16_le_bom_byte1 => b # 254
      /\ s = utf32_le_bom_byte3 => b # 0
  <2>1. /\ start # utf8_bom_byte1 /\ start # utf8_bom_byte2 /\ start # utf16_be_bom_byte1
        /\ start # utf32_or_16_be_bom_byte1 /\ start # utf32_be_bom_byte2
        /\ start # utf32_be_bom_byte3 /\ start # utf32_or_16_le_bom_byte1
        /\ start # utf32_le_bom_byte3
    BY DEF start, state, utf8_bom_byte1, utf8_bom_byte2, utf16_be_bom_byte1,
       utf32_or_16_be_bom_byte1, utf32_be_bom_byte2, utf32_be_bom_byte3,
       utf32_or_16_le_bom_byte1, utf32_le_bom_byte3
  <2>. QED
    BY <2>1, BomValues
<1>. HIDE DEF u, n, m
<1>4. \/ m = 1 /\ u[1] \notin {0, 239, 254, 255}
      \/ m = 2 /\ u[1] = 239 /\ u[2] # 187
      \/ m = 3 /\ u[1] = 239 /\ u[2] = 187 /\ u[3] # 191
      \/ m = 2 /\ u[1] = 254 /\ u[2] # 255
      \/ m = 2 /\ u[1] = 0 /\ u[2] # 0
      \/ m = 3 /\ u[1] = 0 /\ u[2] = 0 /\ u[3] # 254
      \/ m = 4 /\ u[1] = 0 /\ u[2] = 0 /\ u[3] = 254 /\ u[4] # 255
      \/ m = 2 /\ u[1] = 255 /\ u[2] # 254
      \/ m = 4 /\ u[1] = 255 /\ u[2] = 254 /\ u[3] = 0 /\ u[4] # 0
  BY <1>1, <1>2, <1>3
<1>5. /\ selection(8, "be") \in Marked(u) <=>
           m >= 3 /\ u[1] = 239 /\ u[2] = 187 /\ u[3] = 191
      /\ selection(16, "be") \in Marked(u) <=> m >= 2 /\ u[1] = 254 /\ u[2] = 255
      /\ selection(16, "le") \in Marked(u) <=> m >= 2 /\ u[1] = 255 /\ u[2] = 254
      /\ selection(32, "be") \in Marked(u) <=>
           m >= 4 /\ u[1] = 0 /\ u[2] = 0 /\ u[3] = 254 /\ u[4] = 255
      /\ selection(32, "le") \in Marked(u) <=>
           m >= 4 /\ u[1] = 255 /\ u[2] = 254 /\ u[3] = 0 /\ u[4] = 0
  BY <1>1, MarkTable DEF m
<1>6. Undecided(u) <=>
        \/ m < 3 /\ (m >= 1 => u[1] = 239) /\ (m >= 2 => u[2] = 187)
        \/ m < 2 /\ (m >= 1 => u[1] \in {254, 255})
        \/ /\ m < 4 /\ (m >= 1 => u[1] = 0) /\ (m >= 2 => u[2] = 0)
           /\ m >= 3 => u[3] = 254
        \/ /\ m < 4 /\ (m >= 1 => u[1] = 255) /\ (m >= 2 => u[2] = 254)
           /\ m >= 3 => u[3] = 0
  BY <1>1, MarkTable DEF m
<1>7. Misread(u) <=> m >= 4 /\ u[1] = 255 /\ u[2] = 254 /\ u[3] = 0 /\ u[4] # 0
  BY <1>1, MisreadIs DEF m
<1>8. ~ Undecided(u)
  BY <1>4, <1>6
<1>9. selection(8, "be") \notin Marked(u)
  BY <1>4, <1>5
<1>10. CASE m = 4 /\ u[1] = 255
  <2>1. Misread(u)
    BY <1>4, <1>7, <1>10
  <2>. QED
    BY <1>8, <1>9, <2>1 DEF utf8_selected, u
<1>11. CASE ~ (m = 4 /\ u[1] = 255)
  <2>1. selection(16, "be") \notin Marked(u)
    BY <1>4, <1>5, <1>11
  <2>2. selection(16, "le") \notin Marked(u)
    BY <1>4, <1>5, <1>11
  <2>3. selection(32, "be") \notin Marked(u)
    BY <1>4, <1>5, <1>11
  <2>4. selection(32, "le") \notin Marked(u)
    BY <1>4, <1>5, <1>11
  <2>5. Marked(u) = {}
    BY <1>9, <2>1, <2>2, <2>3, <2>4, NoMark
  <2>. QED
    BY <1>8, <1>9, <2>5 DEF utf8_selected, u
<1>. QED
  BY <1>10, <1>11

\* The lengths of the marks.
LEMMA MarkLengths ==
  /\ Len(Mark(selection(8, "be"))) = 3
  /\ Len(Mark(selection(16, "be"))) = 2 /\ Len(Mark(selection(16, "le"))) = 2
  /\ Len(Mark(selection(32, "be"))) = 4 /\ Len(Mark(selection(32, "le"))) = 4
<1>1. /\ Len(<<239, 187, 191>>) = 3 /\ Len(<<254, 255>>) = 2 /\ Len(<<255, 254>>) = 2
      /\ Len(<<0, 0, 254, 255>>) = 4 /\ Len(<<255, 254, 0, 0>>) = 4
  OBVIOUS
<1>. QED
  BY <1>1, Marks

\* The selections differ.
LEMMA SelectionsDiffer ==
  ASSUME NEW e, NEW n, NEW f, NEW m
  PROVE  selection(e, n) = selection(f, m) <=> e = f /\ n = m
  BY DEF selection

\* A piece of one element.
LEMMA OneElement ==
  ASSUME NEW T, NEW u \in Seq(T), NEW k \in 1 .. Len(u)
  PROVE  SubSeq(u, k, k) = <<u[k]>>
<1>. DEFINE one == SubSeq(u, k, k)
            x == u[k]
<1>1. one \in Seq(T) /\ Len(one) = 1 /\ one[1] = x
  BY SubSeqProperties
<1>2. x \in T
  OBVIOUS
<1>. HIDE DEF one, x
<1>3. <<x>> \in Seq(T) /\ Len(<<x>>) = 1 /\ <<x>>[1] = x
  BY <1>2
<1>4. \A i \in 1 .. Len(one) : one[i] = <<x>>[i]
  BY <1>1, <1>3
<1>5. one = <<x>>
  BY <1>1, <1>3, <1>4, SeqEqual
<1>. QED
  BY <1>5 DEF one, x

\* What the bytes that are all of a mark select, and what follows it.
LEMMA WholeMark ==
  ASSUME NEW u \in Seq(Byte), NEW s \in Marked(u), ~ Misread(u),
         \A o \in Marked(u) : o # s => Len(Mark(o)) < Len(Mark(s))
  PROVE  /\ s \in Selections /\ selected_for(u) = s
         /\ Len(u) = Len(Mark(s)) => after_mark(s, u) = <<>>
         /\ Len(u) = Len(Mark(s)) + 1 => after_mark(s, u) = <<u[Len(u)]>>
<1>1. selected_for(u) = s
  BY SelectsLongest
<1>2. s \in Selections
  BY DEF Marked
<1>3. after_mark(s, u) = SubSeq(u, Len(Mark(s)) + 1, Len(u))
  BY DEF after_mark
<1>4. Len(u) \in Nat
  OBVIOUS
<1>5. ASSUME Len(u) = Len(Mark(s)) PROVE after_mark(s, u) = <<>>
  <2>1. SubSeq(u, Len(u) + 1, Len(u)) = <<>>
    OBVIOUS
  <2>. QED
    BY <1>3, <1>5, <2>1
<1>6. ASSUME Len(u) = Len(Mark(s)) + 1 PROVE after_mark(s, u) = <<u[Len(u)]>>
  <2>1. Len(u) >= 1
    BY <1>2, <1>6, MarkIsBytes
  <2>2. SubSeq(u, Len(u), Len(u)) = <<u[Len(u)]>>
    BY <2>1, OneElement
  <2>. QED
    BY <1>3, <1>6, <2>2
<1>. QED
  BY <1>1, <1>2, <1>5, <1>6

\* Bytes that are all of a mark, or the UTF-16 LE mark and no longer one.
LEMMA FoundMark ==
  ASSUME NEW u \in Seq(Byte)
  PROVE  LET m == Len(u)
             Is(s, rest) == /\ ~ Undecided(u) /\ selected_for(u) = s
                            /\ s \in Selections /\ after_mark(s, u) = rest
         IN  /\ m = 3 /\ u[1] = 239 /\ u[2] = 187 /\ u[3] = 191 => Is(selection(8, "be"), <<>>)
             /\ m = 2 /\ u[1] = 254 /\ u[2] = 255 => Is(selection(16, "be"), <<>>)
             /\ m = 4 /\ u[1] = 0 /\ u[2] = 0 /\ u[3] = 254 /\ u[4] = 255 =>
                  Is(selection(32, "be"), <<>>)
             /\ m = 4 /\ u[1] = 255 /\ u[2] = 254 /\ u[3] = 0 /\ u[4] = 0 =>
                  Is(selection(32, "le"), <<>>)
             /\ m = 3 /\ u[1] = 255 /\ u[2] = 254 /\ u[3] # 0 => Is(selection(16, "le"), <<u[3]>>)
<1>. DEFINE m == Len(u)
            Is(s, rest) == /\ ~ Undecided(u) /\ selected_for(u) = s
                           /\ s \in Selections /\ after_mark(s, u) = rest
            Others(s) == \A o \in Marked(u) : o # s => Len(Mark(o)) < Len(Mark(s))
            u8 == selection(8, "be")
            b16 == selection(16, "be")
            l16 == selection(16, "le")
            b32 == selection(32, "be")
            l32 == selection(32, "le")
<1>1. /\ u8 \in Marked(u) <=> m >= 3 /\ u[1] = 239 /\ u[2] = 187 /\ u[3] = 191
      /\ b16 \in Marked(u) <=> m >= 2 /\ u[1] = 254 /\ u[2] = 255
      /\ l16 \in Marked(u) <=> m >= 2 /\ u[1] = 255 /\ u[2] = 254
      /\ b32 \in Marked(u) <=> m >= 4 /\ u[1] = 0 /\ u[2] = 0 /\ u[3] = 254 /\ u[4] = 255
      /\ l32 \in Marked(u) <=> m >= 4 /\ u[1] = 255 /\ u[2] = 254 /\ u[3] = 0 /\ u[4] = 0
  BY MarkTable
<1>2. Undecided(u) <=>
        \/ m < 3 /\ (m >= 1 => u[1] = 239) /\ (m >= 2 => u[2] = 187)
        \/ m < 2 /\ (m >= 1 => u[1] \in {254, 255})
        \/ /\ m < 4 /\ (m >= 1 => u[1] = 0) /\ (m >= 2 => u[2] = 0)
           /\ m >= 3 => u[3] = 254
        \/ /\ m < 4 /\ (m >= 1 => u[1] = 255) /\ (m >= 2 => u[2] = 254)
           /\ m >= 3 => u[3] = 0
  BY MarkTable
<1>3. Misread(u) <=> m >= 4 /\ u[1] = 255 /\ u[2] = 254 /\ u[3] = 0 /\ u[4] # 0
  BY MisreadIs
<1>4. \A o \in Marked(u) : o = u8 \/ o = b16 \/ o = l16 \/ o = b32 \/ o = l32
  BY SelectionsAre DEF Marked
<1>5. /\ Len(Mark(u8)) = 3 /\ Len(Mark(b16)) = 2 /\ Len(Mark(l16)) = 2
      /\ Len(Mark(b32)) = 4 /\ Len(Mark(l32)) = 4
  BY MarkLengths
<1>6. m \in Nat
  OBVIOUS
<1>7. ASSUME NEW s \in Marked(u), ~ Misread(u), ~ Undecided(u), Others(s)
      PROVE  /\ m = Len(Mark(s)) => Is(s, <<>>)
             /\ m = Len(Mark(s)) + 1 => Is(s, <<u[m]>>)
  BY <1>7, WholeMark
<1>. HIDE DEF m, Is, u8, b16, l16, b32, l32
<1>8. ASSUME m = 3, u[1] = 239, u[2] = 187, u[3] = 191 PROVE Is(u8, <<>>)
  <2>1. u8 \in Marked(u) /\ ~ Misread(u) /\ ~ Undecided(u)
    BY <1>1, <1>2, <1>3, <1>8
  <2>2. b16 \notin Marked(u) /\ l16 \notin Marked(u) /\ b32 \notin Marked(u) /\ l32 \notin Marked(u)
    BY <1>1, <1>8
  <2>3. Others(u8)
    BY <1>4, <2>2
  <2>. QED
    BY <1>5, <1>7, <1>8, <2>1, <2>3
<1>9. ASSUME m = 2, u[1] = 254, u[2] = 255 PROVE Is(b16, <<>>)
  <2>1. b16 \in Marked(u) /\ ~ Misread(u) /\ ~ Undecided(u)
    BY <1>1, <1>2, <1>3, <1>9
  <2>2. u8 \notin Marked(u) /\ l16 \notin Marked(u) /\ b32 \notin Marked(u) /\ l32 \notin Marked(u)
    BY <1>1, <1>9
  <2>3. Others(b16)
    BY <1>4, <2>2
  <2>. QED
    BY <1>5, <1>7, <1>9, <2>1, <2>3
<1>10. ASSUME m = 4, u[1] = 0, u[2] = 0, u[3] = 254, u[4] = 255 PROVE Is(b32, <<>>)
  <2>1. b32 \in Marked(u) /\ ~ Misread(u) /\ ~ Undecided(u)
    BY <1>1, <1>2, <1>3, <1>10
  <2>2. u8 \notin Marked(u) /\ b16 \notin Marked(u) /\ l16 \notin Marked(u) /\ l32 \notin Marked(u)
    BY <1>1, <1>10
  <2>3. Others(b32)
    BY <1>4, <2>2
  <2>. QED
    BY <1>5, <1>7, <1>10, <2>1, <2>3
<1>11. ASSUME m = 4, u[1] = 255, u[2] = 254, u[3] = 0, u[4] = 0 PROVE Is(l32, <<>>)
  <2>1. l32 \in Marked(u) /\ ~ Misread(u) /\ ~ Undecided(u)
    BY <1>1, <1>2, <1>3, <1>11
  <2>2. u8 \notin Marked(u) /\ b16 \notin Marked(u) /\ b32 \notin Marked(u)
    BY <1>1, <1>11
  <2>3. Others(l32)
    BY <1>4, <1>5, <2>2
  <2>. QED
    BY <1>5, <1>7, <1>11, <2>1, <2>3
<1>12. ASSUME m = 3, u[1] = 255, u[2] = 254, u[3] # 0 PROVE Is(l16, <<u[3]>>)
  <2>1. l16 \in Marked(u) /\ ~ Misread(u) /\ ~ Undecided(u)
    BY <1>1, <1>2, <1>3, <1>12
  <2>2. u8 \notin Marked(u) /\ b16 \notin Marked(u) /\ b32 \notin Marked(u) /\ l32 \notin Marked(u)
    BY <1>1, <1>12
  <2>3. Others(l16)
    BY <1>4, <2>2
  <2>4. m = Len(Mark(l16)) + 1
    BY <1>5, <1>12
  <2>5. Is(l16, <<u[m]>>)
    BY <1>7, <2>1, <2>3, <2>4
  <2>. QED
    BY <1>12, <2>5
<1>. QED
  BY <1>8, <1>9, <1>10, <1>11, <1>12 DEF m, Is, u8, b16, l16, b32, l32

\* The last byte of each mark, in the state that has read the others; and the
\* byte after the UTF-16 LE mark that says it is no longer one.
LEMMA FindsHere ==
  ASSUME NEW bytes \in Seq(Byte), NEW s \in BomStates, Reading(s, bytes), NEW b \in Byte
  PROVE  LET u == Append(bytes, b)
             Is(sel, rest) == /\ ~ Undecided(u) /\ selected_for(u) = sel
                              /\ sel \in Selections /\ after_mark(sel, u) = rest
         IN  /\ s = utf8_bom_byte2 /\ b = 191 => Is(selection(8, "be"), <<>>)
             /\ s = utf16_be_bom_byte1 /\ b = 255 => Is(selection(16, "be"), <<>>)
             /\ s = utf32_be_bom_byte3 /\ b = 255 => Is(selection(32, "be"), <<>>)
             /\ s = utf32_le_bom_byte3 /\ b = 0 => Is(selection(32, "le"), <<>>)
             /\ s = utf32_or_16_le_bom_byte2 /\ b # 0 => Is(selection(16, "le"), <<b>>)
<1>. DEFINE u == Append(bytes, b)
            n == Len(bytes)
            m == Len(u)
            Is(sel, rest) == /\ ~ Undecided(u) /\ selected_for(u) = sel
                             /\ sel \in Selections /\ after_mark(sel, u) = rest
<1>1. /\ u \in Seq(Byte) /\ n \in Nat /\ m = n + 1 /\ u[n + 1] = b
      /\ \A i \in 1 .. n : u[i] = bytes[i]
  BY Longer
<1>2. /\ s = utf8_bom_byte2 => n = 2 /\ bytes[1] = 239 /\ bytes[2] = 187
      /\ s = utf16_be_bom_byte1 => n = 1 /\ bytes[1] = 254
      /\ s = utf32_be_bom_byte3 => n = 3 /\ bytes[1] = 0 /\ bytes[2] = 0 /\ bytes[3] = 254
      /\ s = utf32_or_16_le_bom_byte2 => n = 2 /\ bytes[1] = 255 /\ bytes[2] = 254
      /\ s = utf32_le_bom_byte3 => n = 3 /\ bytes[1] = 255 /\ bytes[2] = 254 /\ bytes[3] = 0
  BY BomTable DEF Reading, state, utf8_bom_byte2, utf16_be_bom_byte1, utf32_be_bom_byte3,
     utf32_or_16_le_bom_byte2, utf32_le_bom_byte3
<1>. HIDE DEF u
<1>3. /\ m = 3 /\ u[1] = 239 /\ u[2] = 187 /\ u[3] = 191 => Is(selection(8, "be"), <<>>)
      /\ m = 2 /\ u[1] = 254 /\ u[2] = 255 => Is(selection(16, "be"), <<>>)
      /\ m = 4 /\ u[1] = 0 /\ u[2] = 0 /\ u[3] = 254 /\ u[4] = 255 => Is(selection(32, "be"), <<>>)
      /\ m = 4 /\ u[1] = 255 /\ u[2] = 254 /\ u[3] = 0 /\ u[4] = 0 => Is(selection(32, "le"), <<>>)
      /\ m = 3 /\ u[1] = 255 /\ u[2] = 254 /\ u[3] # 0 => Is(selection(16, "le"), <<u[3]>>)
  BY <1>1, FoundMark
<1>. HIDE DEF n, m, Is
<1>4. ASSUME s = utf8_bom_byte2, b = 191 PROVE Is(selection(8, "be"), <<>>)
  BY <1>1, <1>2, <1>3, <1>4
<1>5. ASSUME s = utf16_be_bom_byte1, b = 255 PROVE Is(selection(16, "be"), <<>>)
  BY <1>1, <1>2, <1>3, <1>5
<1>6. ASSUME s = utf32_be_bom_byte3, b = 255 PROVE Is(selection(32, "be"), <<>>)
  BY <1>1, <1>2, <1>3, <1>6
<1>7. ASSUME s = utf32_le_bom_byte3, b = 0 PROVE Is(selection(32, "le"), <<>>)
  BY <1>1, <1>2, <1>3, <1>7
<1>8. ASSUME s = utf32_or_16_le_bom_byte2, b # 0 PROVE Is(selection(16, "le"), <<b>>)
  <2>1. m = 3 /\ u[1] = 255 /\ u[2] = 254 /\ u[3] = b
    BY <1>1, <1>2, <1>8
  <2>. QED
    BY <1>3, <1>8, <2>1
<1>. QED
  BY <1>4, <1>5, <1>6, <1>7, <1>8 DEF Is, u

\* The buffer of one that waits holds the bytes it has read, and they are given
\* to the UTF-8 transcoder when it gives up: with the byte after them, which at
\* the end of the stream is a 0 that was never received.
LEMMA Filled ==
  ASSUME NEW bytes \in Seq(Byte), NEW s \in BomStates, Reading(s, bytes)
  PROVE  /\ filled(bytes) \in Buffer /\ Len(bytes) = s.byte_no /\ s.byte_no \in 0 .. 3
         /\ pending(s, filled(bytes)) = Append(bytes, 0)
         /\ \A b \in Byte :
              /\ with_byte(filled(bytes), s.byte_no, b) = filled(Append(bytes, b))
              /\ pending(s, filled(Append(bytes, b))) = Append(bytes, b)
<1>. DEFINE n == Len(bytes)
<1>1. n = s.byte_no /\ n \in 0 .. 3
  BY BomState DEF Reading
<1>2. 0 \in Byte
  BY ByteRange
<1>3. filled(bytes) \in Buffer
  BY <1>2 DEF filled, Buffer
<1>4. ASSUME NEW b \in Byte
      PROVE  /\ with_byte(filled(bytes), n, b) = filled(Append(bytes, b))
             /\ pending(s, filled(Append(bytes, b))) = Append(bytes, b)
  <2>. DEFINE u == Append(bytes, b)
  <2>1. /\ u \in Seq(Byte) /\ Len(u) = n + 1 /\ u[n + 1] = b
        /\ \A i \in 1 .. n : u[i] = bytes[i]
    BY Longer
  <2>2. \A i \in 0 .. 3 : filled(u)[i] = IF i < n + 1 THEN u[i + 1] ELSE 0
    <3>. HIDE DEF u
    <3>. QED
      BY <2>1 DEF filled
  <2>3. \A i \in 0 .. 3 : filled(bytes)[i] = IF i < n THEN bytes[i + 1] ELSE 0
    BY DEF filled
  <2>. HIDE DEF u, n
  <2>4. with_byte(filled(bytes), n, b) = filled(u)
    <3>1. \A i \in 0 .. 3 : with_byte(filled(bytes), n, b)[i] = filled(u)[i]
      <4>1. \A i \in 0 .. 3 :
              with_byte(filled(bytes), n, b)[i] = IF i = n THEN b ELSE filled(bytes)[i]
        BY DEF with_byte, filled
      <4>. QED
        BY <1>1, <2>1, <2>2, <2>3, <4>1
    <3>2. /\ with_byte(filled(bytes), n, b) = [i \in 0 .. 3 |-> with_byte(filled(bytes), n, b)[i]]
          /\ filled(u) = [i \in 0 .. 3 |-> filled(u)[i]]
      BY DEF with_byte, filled
    <3>. QED
      BY <3>1, <3>2
  <2>5. pending(s, filled(u)) = u
    <3>1. pending(s, filled(u)) = [i \in 1 .. n + 1 |-> filled(u)[i - 1]]
      BY <1>1 DEF pending
    <3>2. \A i \in 1 .. n + 1 : filled(u)[i - 1] = u[i]
      BY <1>1, <2>2
    <3>3. u = [i \in 1 .. n + 1 |-> u[i]]
      BY <2>1
    <3>. QED
      BY <3>1, <3>2, <3>3
  <2>. QED
    BY <2>4, <2>5 DEF u
<1>5. filled(Append(bytes, 0)) = filled(bytes)
  <2>. DEFINE u == Append(bytes, 0)
  <2>1. /\ Len(u) = n + 1 /\ u[n + 1] = 0
        /\ \A i \in 1 .. n : u[i] = bytes[i]
    OBVIOUS
  <2>2. \A i \in 0 .. 3 : (IF i < n + 1 THEN u[i + 1] ELSE 0) = IF i < n THEN bytes[i + 1] ELSE 0
    <3>. HIDE DEF u, n
    <3>. QED
      BY <1>1, <2>1
  <2>. HIDE DEF u
  <2>. QED
    BY <2>1, <2>2 DEF filled, u
<1>6. pending(s, filled(bytes)) = Append(bytes, 0)
  BY <1>2, <1>4, <1>5
<1>. QED
  BY <1>1, <1>3, <1>4, <1>6

-----------------------------------------------------------------------------
(***************************************************************************)
(* The code units that bytes make, in the encoding and the byte order of   *)
(* a selection, and a machine that runs: its transcoder has been given     *)
(* those of the bytes that follow the mark, and its buffer holds the rest. *)
(***************************************************************************)
width(s) == s.encoding \div 8

unit_of(s, bytes) ==
  LET b == IF s.endian = "be" THEN bytes ELSE Reverse(bytes)
  IN  CASE s.encoding = 8  -> b[1]
        [] s.encoding = 16 -> 256 * b[1] + b[2]
        [] s.encoding = 32 ->
             IF b[1] > 127 THEN \h7FFFFFFF ELSE 65536 * (256 * b[1] + b[2]) + 256 * b[3] + b[4]

units_of(s, body) ==
  [k \in 1 .. Len(body) \div width(s) |->
     unit_of(s, SubSeq(body, width(s) * (k - 1) + 1, width(s) * k))]

run_state(s, body) == state(s.encoding, s.endian, "run", Len(body) % width(s))

Kept(s, body, buffer) ==
  \A i \in 1 .. Len(body) % width(s) :
    buffer[i - 1] = body[(Len(body) - (Len(body) % width(s))) + i]

RunsWith(r, s, body, buffer, x, out) ==
  x = running(run_state(s, body), buffer, r.coder) /\ out = r.out

RunsOn(e, s, body, x, out) ==
  \E buffer \in Buffer :
    /\ Kept(s, body, buffer)
    /\ RunsWith(fed(s.encoding, e, units_of(s, body)), s, body, buffer, x, out)

HasEnded(e, s, body, x, out) ==
  \E buffer \in Buffer : RunsWith(fed_all(s.encoding, e, units_of(s, body)), s, body, buffer, x, out)

\* A selection by its fields.
LEMMA SelectionFields ==
  ASSUME NEW s \in Selections
  PROVE  /\ s = selection(s.encoding, s.endian)
         /\ s.encoding \in Encodings /\ s.endian \in {"be", "le"}
         /\ s.encoding = 8 => s.endian = "be"
         /\ \/ (s.encoding = 8 /\ width(s) = 1)
            \/ (s.encoding = 16 /\ width(s) = 2)
            \/ (s.encoding = 32 /\ width(s) = 4)
<1>1. \/ s = selection(8, "be") \/ s = selection(16, "be") \/ s = selection(16, "le")
      \/ s = selection(32, "be") \/ s = selection(32, "le")
  BY SelectionsAre
<1>2. 8 \div 8 = 1 /\ 16 \div 8 = 2 /\ 32 \div 8 = 4
  BY SMT
<1>. QED
  BY <1>1, <1>2, SelectionsAre DEF width, Encodings

\* The quotient and the remainder of the next number.
LEMMA Remainders ==
  ASSUME NEW n \in Nat, NEW w \in {1, 2, 4}
  PROVE  /\ n % w \in 0 .. w - 1 /\ n \div w \in Nat /\ n = w * (n \div w) + (n % w)
         /\ (n % w < w - 1 => (n + 1) % w = (n % w) + 1 /\ (n + 1) \div w = n \div w)
         /\ (n % w = w - 1 => /\ (n + 1) % w = 0 /\ (n + 1) \div w = (n \div w) + 1
                              /\ n + 1 = w * ((n \div w) + 1))
<1>1. CASE w = 1
  BY <1>1, SMT
<1>2. CASE w = 2
  BY <1>2, SMT
<1>3. CASE w = 4
  BY <1>3, SMT
<1>. QED
  BY <1>1, <1>2, <1>3

\* The bytes of a code unit are some of those there are.
LEMMA UnitInBody ==
  ASSUME NEW n \in Nat, NEW w \in {1, 2, 4}, NEW k \in 1 .. n \div w
  PROVE  w * (k - 1) + 1 \in 1 .. n /\ w * k \in 1 .. n /\ w * k - (w * (k - 1) + 1) + 1 = w
<1>1. CASE w = 1
  BY <1>1, SMT
<1>2. CASE w = 2
  BY <1>2, SMT
<1>3. CASE w = 4
  BY <1>3, SMT
<1>. QED
  BY <1>1, <1>2, <1>3

\* A piece of a sequence is one of the longer sequence.
LEMMA PieceOfLonger ==
  ASSUME NEW body \in Seq(Byte), NEW b \in Byte, NEW m \in 1 .. Len(body), NEW n \in 1 .. Len(body)
  PROVE  SubSeq(Append(body, b), m, n) = SubSeq(body, m, n)
<1>. DEFINE u == Append(body, b)
<1>1. u \in Seq(Byte) /\ Len(u) = Len(body) + 1 /\ \A i \in 1 .. Len(body) : u[i] = body[i]
  BY Longer
<1>2. Len(body) \in Nat
  OBVIOUS
<1>. HIDE DEF u
<1>3. /\ SubSeq(u, m, n) = [i \in 1 .. (n - m) + 1 |-> u[(i + m) - 1]]
      /\ SubSeq(body, m, n) = [i \in 1 .. (n - m) + 1 |-> body[(i + m) - 1]]
  BY <1>1
<1>4. \A i \in 1 .. (n - m) + 1 : (i + m) - 1 \in 1 .. Len(body)
  BY <1>2
<1>5. \A i \in 1 .. (n - m) + 1 : u[(i + m) - 1] = body[(i + m) - 1]
  BY <1>1, <1>4
<1>. QED
  BY <1>3, <1>5 DEF u

\* A byte that completes no code unit makes no difference to those there are.
LEMMA UnitsKept ==
  ASSUME NEW s \in Selections, NEW body \in Seq(Byte), NEW b \in Byte,
         Len(body) % width(s) < width(s) - 1
  PROVE  units_of(s, Append(body, b)) = units_of(s, body)
<1>. DEFINE u == Append(body, b)
            n == Len(body)
            w == width(s)
            piece(q, k) == SubSeq(q, w * (k - 1) + 1, w * k)
<1>1. w \in {1, 2, 4} /\ n \in Nat /\ Len(u) = n + 1
  BY SelectionFields
<1>2. (n + 1) \div w = n \div w
  <2>. HIDE DEF n, w
  <2>. QED
    BY <1>1, Remainders DEF n, w
<1>3. ASSUME NEW k \in 1 .. n \div w PROVE piece(u, k) = piece(body, k)
  <2>1. w * (k - 1) + 1 \in 1 .. n /\ w * k \in 1 .. n
    <3>. HIDE DEF n, w
    <3>. QED
      BY <1>1, UnitInBody
  <2>. HIDE DEF w
  <2>. QED
    BY <2>1, PieceOfLonger
<1>4. /\ units_of(s, u) = [k \in 1 .. Len(u) \div w |-> unit_of(s, piece(u, k))]
      /\ units_of(s, body) = [k \in 1 .. n \div w |-> unit_of(s, piece(body, k))]
  BY DEF units_of
<1>. HIDE DEF u, n, w, piece
<1>5. [k \in 1 .. n \div w |-> unit_of(s, piece(u, k))] = [k \in 1 .. n \div w |-> unit_of(s, piece(body, k))]
  BY <1>3
<1>. QED
  BY <1>1, <1>2, <1>4, <1>5 DEF u

\* The last bytes of a stream that ends with a whole code unit.
last_unit(s, bytes) ==
  unit_of(s, SubSeq(bytes, Len(bytes) - width(s) + 1, Len(bytes)))

\* The code units of bytes are a sequence.
LEMMA UnitsAreSeq ==
  ASSUME NEW s \in Selections, NEW body \in Seq(Byte), NEW T,
         \A k \in 1 .. Len(body) \div width(s) : units_of(s, body)[k] \in T
  PROVE  units_of(s, body) \in Seq(T) /\ Len(units_of(s, body)) = Len(body) \div width(s)
<1>. DEFINE m == Len(body) \div width(s)
            f == units_of(s, body)
<1>1. m \in Nat
  <2>1. width(s) \in {1, 2, 4} /\ Len(body) \in Nat
    BY SelectionFields
  <2>. QED
    BY <2>1, Remainders
<1>2. f = [k \in 1 .. m |-> f[k]]
  BY DEF units_of
<1>3. \A k \in 1 .. m : f[k] \in T
  OBVIOUS
<1>. HIDE DEF m, f
<1>4. f \in [1 .. m -> T]
  BY <1>2, <1>3
<1>5. f \in Seq(T)
  BY <1>1, <1>4
<1>6. Len(f) = m
  BY <1>1, <1>4, <1>5
<1>. QED
  BY <1>5, <1>6 DEF m, f

\* A sequence and one more element.
LEMMA AppendIs ==
  ASSUME NEW T, NEW f \in Seq(T), NEW x \in T
  PROVE  Append(f, x) = [k \in 1 .. Len(f) + 1 |-> IF k = Len(f) + 1 THEN x ELSE f[k]]
<1>. DEFINE g == [k \in 1 .. Len(f) + 1 |-> IF k = Len(f) + 1 THEN x ELSE f[k]]
            m == Len(f)
<1>1. m \in Nat /\ \A k \in 1 .. m : f[k] \in T
  OBVIOUS
<1>2. /\ Append(f, x) \in Seq(T) /\ Len(Append(f, x)) = m + 1 /\ Append(f, x)[m + 1] = x
      /\ \A k \in 1 .. m : Append(f, x)[k] = f[k]
  OBVIOUS
<1>3. \A k \in 1 .. m + 1 : g[k] = IF k = m + 1 THEN x ELSE f[k]
  OBVIOUS
<1>4. g \in [1 .. m + 1 -> T]
  <2>. HIDE DEF m
  <2>1. \A k \in 1 .. m + 1 : k # m + 1 => k \in 1 .. m
    BY <1>1
  <2>. QED
    BY <1>1, <2>1 DEF m
<1>. HIDE DEF g, m
<1>5. g \in Seq(T) /\ Len(g) = m + 1
  BY <1>1, <1>4
<1>6. \A k \in 1 .. m + 1 : Append(f, x)[k] = g[k]
  BY <1>1, <1>2, <1>3
<1>7. Append(f, x) = g
  BY <1>2, <1>5, <1>6, SeqEqual
<1>. QED
  BY <1>7 DEF g

\* One that completes a code unit adds it.
LEMMA UnitsAppended ==
  ASSUME NEW s \in Selections, NEW body \in Seq(Byte), NEW b \in Byte,
         Len(body) % width(s) = width(s) - 1,
         NEW T, units_of(s, body) \in Seq(T), last_unit(s, Append(body, b)) \in T
  PROVE  units_of(s, Append(body, b)) = Append(units_of(s, body), last_unit(s, Append(body, b)))
<1>. DEFINE u == Append(body, b)
            n == Len(body)
            w == width(s)
            m == n \div w
            piece(q, k) == SubSeq(q, w * (k - 1) + 1, w * k)
            f == units_of(s, body)
            x == last_unit(s, u)
<1>1. w \in {1, 2, 4} /\ n \in Nat /\ Len(u) = n + 1
  BY SelectionFields
<1>2. (n + 1) \div w = m + 1 /\ n + 1 = w * (m + 1) /\ m \in Nat
  <2>. HIDE DEF n, w
  <2>. QED
    BY <1>1, Remainders DEF n, w
<1>3. ASSUME NEW k \in 1 .. m PROVE piece(u, k) = piece(body, k)
  <2>1. w * (k - 1) + 1 \in 1 .. n /\ w * k \in 1 .. n
    <3>. HIDE DEF n, w
    <3>. QED
      BY <1>1, UnitInBody
  <2>. HIDE DEF w
  <2>. QED
    BY <2>1, PieceOfLonger
<1>4. /\ units_of(s, u) = [k \in 1 .. Len(u) \div w |-> unit_of(s, piece(u, k))]
      /\ f = [k \in 1 .. m |-> unit_of(s, piece(body, k))]
  BY DEF units_of
<1>5. x = unit_of(s, piece(u, m + 1))
  <2>1. w * ((m + 1) - 1) + 1 = (n + 1) - w + 1 /\ w * (m + 1) = n + 1
    <3>1. w * ((m + 1) - 1) = w * (m + 1) - w
      <4>. HIDE DEF m, w
      <4>1. CASE w = 1
        BY <1>2, <4>1
      <4>2. CASE w = 2
        BY <1>2, <4>2
      <4>3. CASE w = 4
        BY <1>2, <4>3
      <4>. QED
        BY <1>1, <4>1, <4>2, <4>3
    <3>. HIDE DEF m, w, n
    <3>. QED
      BY <1>2, <3>1
  <2>. HIDE DEF n, w, m
  <2>. QED
    BY <1>1, <2>1 DEF last_unit, w
<1>. HIDE DEF u, n, w, piece, x, m
<1>6. units_of(s, u) = [k \in 1 .. m + 1 |-> unit_of(s, piece(u, k))]
  BY <1>1, <1>2, <1>4
<1>7. Len(f) = m
  <2>. HIDE DEF f
  <2>. QED
    BY <1>2, <1>4
<1>8. \A k \in 1 .. m + 1 : unit_of(s, piece(u, k)) = IF k = m + 1 THEN x ELSE f[k]
  <2>. SUFFICES ASSUME NEW k \in 1 .. m + 1 PROVE unit_of(s, piece(u, k)) = IF k = m + 1 THEN x ELSE f[k]
    OBVIOUS
  <2>1. CASE k = m + 1
    BY <1>5, <2>1
  <2>2. CASE k # m + 1
    <3>1. k \in 1 .. m
      BY <1>2, <2>2
    <3>. HIDE DEF f
    <3>. QED
      BY <1>3, <1>4, <2>2, <3>1
  <2>. QED
    BY <2>1, <2>2
<1>9. f \in Seq(T) /\ x \in T
  BY DEF x, u
<1>. HIDE DEF f
<1>10. Append(f, x) = [k \in 1 .. m + 1 |-> IF k = m + 1 THEN x ELSE f[k]]
  BY <1>7, <1>9, AppendIs
<1>11. units_of(s, u) = [k \in 1 .. m + 1 |-> IF k = m + 1 THEN x ELSE f[k]]
  BY <1>6, <1>8
<1>. QED
  BY <1>10, <1>11 DEF f, x, u

\* Where there are fewer bytes than a code unit has, there is none.
LEMMA UnitsOfFew ==
  ASSUME NEW s \in Selections, NEW body \in Seq(Byte), Len(body) < width(s)
  PROVE  units_of(s, body) = <<>> /\ Len(body) % width(s) = Len(body)
<1>1. width(s) \in {1, 2, 4}
  BY SelectionFields
<1>2. Len(body) \div width(s) = 0 /\ Len(body) % width(s) = Len(body)
  <2>. DEFINE n == Len(body)
              w == width(s)
  <2>1. n \in Nat /\ n < w
    OBVIOUS
  <2>. HIDE DEF n, w
  <2>2. CASE w = 1
    BY <2>1, <2>2, SMT DEF n, w
  <2>3. CASE w = 2
    BY <2>1, <2>3, SMT DEF n, w
  <2>4. CASE w = 4
    BY <2>1, <2>4, SMT DEF n, w
  <2>. QED
    BY <1>1, <2>2, <2>3, <2>4 DEF w
<1>3. units_of(s, body) = [k \in 1 .. 0 |-> unit_of(s, SubSeq(body, width(s) * (k - 1) + 1, width(s) * k))]
  BY <1>2 DEF units_of
<1>4. 1 .. 0 = {}
  OBVIOUS
<1>. QED
  BY <1>2, <1>3, <1>4

\* The code units of UTF-8 are the bytes.
LEMMA UnitsOfUtf8 ==
  ASSUME NEW body \in Seq(Byte)
  PROVE  units_of(utf8_selected, body) = body /\ Len(body) % width(utf8_selected) = 0
<1>. DEFINE s == utf8_selected
            n == Len(body)
<1>1. s \in Selections /\ s.encoding = 8 /\ s.endian = "be" /\ width(s) = 1
  <2>1. 8 \div 8 = 1
    BY SMT
  <2>. QED
    BY <2>1, SelectionsAre DEF utf8_selected, width
<1>2. n \in Nat
  OBVIOUS
<1>3. n \div 1 = n /\ n % 1 = 0
  <2>. HIDE DEF n
  <2>. QED
    BY <1>2, SMT
<1>4. units_of(s, body) = [k \in 1 .. n |-> unit_of(s, SubSeq(body, 1 * (k - 1) + 1, 1 * k))]
  BY <1>1, <1>3 DEF units_of
<1>5. ASSUME NEW k \in 1 .. n PROVE unit_of(s, SubSeq(body, 1 * (k - 1) + 1, 1 * k)) = body[k]
  <2>1. 1 * (k - 1) + 1 = k /\ 1 * k = k
    OBVIOUS
  <2>2. SubSeq(body, k, k) = <<body[k]>>
    BY OneElement
  <2>3. unit_of(s, <<body[k]>>) = <<body[k]>>[1]
    <3>. DEFINE piece == <<body[k]>>
    <3>. HIDE DEF piece
    <3>. QED
      BY <1>1 DEF unit_of, piece
  <2>. QED
    BY <2>1, <2>2, <2>3
<1>6. body = [k \in 1 .. n |-> body[k]]
  OBVIOUS
<1>. HIDE DEF s, n
<1>7. units_of(s, body) = [k \in 1 .. n |-> body[k]]
  BY <1>4, <1>5
<1>. QED
  BY <1>1, <1>3, <1>6, <1>7 DEF s, n

\* A piece of a sequence of bytes.
LEMMA Piece ==
  ASSUME NEW u \in Seq(Byte), NEW m \in 1 .. Len(u), NEW n \in 1 .. Len(u), m <= n
  PROVE  /\ SubSeq(u, m, n) \in Seq(Byte) /\ Len(SubSeq(u, m, n)) = (n - m) + 1
         /\ \A i \in 1 .. (n - m) + 1 : SubSeq(u, m, n)[i] = u[(m + i) - 1]
  BY SubSeqProperties

\* The state of the machine that runs is one of the run states.
LEMMA RunStateIs ==
  ASSUME NEW s \in Selections, NEW body \in Seq(Byte)
  PROVE  LET n == run_state(s, body)
             k == Len(body) % width(s)
         IN  /\ n \in RunStates /\ n.encoding = s.encoding /\ n.endian = s.endian
             /\ n.mode = "run" /\ n.byte_no = k /\ k \in 0 .. width(s) - 1
             /\ width(s) = 1 => n = run_8
             /\ is_last_byte(n) <=> k = width(s) - 1
             /\ next_byte(n) = state(s.encoding, s.endian, "run", k + 1)
             /\ set_byte(n, 0) = state(s.encoding, s.endian, "run", 0)
<1>. DEFINE k == Len(body) % width(s)
            n == run_state(s, body)
<1>1. /\ s.encoding \in Encodings /\ s.endian \in {"be", "le"}
      /\ s.encoding = 8 => s.endian = "be"
      /\ \/ (s.encoding = 8 /\ width(s) = 1)
         \/ (s.encoding = 16 /\ width(s) = 2)
         \/ (s.encoding = 32 /\ width(s) = 4)
  BY SelectionFields
<1>2. k \in 0 .. width(s) - 1
  <2>1. width(s) \in {1, 2, 4} /\ Len(body) \in Nat
    BY <1>1
  <2>. QED
    BY <2>1, Remainders
<1>3. n = state(s.encoding, s.endian, "run", k)
  BY DEF run_state
<1>. HIDE DEF k, n
<1>4. /\ n.encoding = s.encoding /\ n.endian = s.endian /\ n.mode = "run" /\ n.byte_no = k
      /\ next_byte(n) = state(s.encoding, s.endian, "run", k + 1)
      /\ set_byte(n, 0) = state(s.encoding, s.endian, "run", 0)
  BY <1>3, StateFields
<1>5. is_last_byte(n) <=> k = width(s) - 1
  BY <1>4 DEF is_last_byte, width
<1>6. width(s) = 1 => n = run_8
  <2>1. width(s) = 1 => s.encoding = 8 /\ s.endian = "be" /\ k = 0
    BY <1>1, <1>2
  <2>. QED
    BY <1>3, <2>1 DEF run_8
<1>7. n \in RunStates
  <2>1. CASE width(s) = 1
    BY <1>6, <2>1, RunStateOf
  <2>2. CASE width(s) = 2
    <3>1. s.encoding = 16 /\ k \in 0 .. 1
      BY <1>1, <1>2, <2>2
    <3>. QED
      BY <1>1, <1>3, <3>1, RunStateOf
  <2>3. CASE width(s) = 4
    <3>1. s.encoding = 32 /\ k \in 0 .. 3
      BY <1>1, <1>2, <2>3
    <3>. QED
      BY <1>1, <1>3, <3>1, RunStateOf
  <2>. QED
    BY <1>1, <2>1, <2>2, <2>3
<1>. QED
  BY <1>2, <1>4, <1>5, <1>6, <1>7 DEF k, n

\* The code unit a byte completes is the last one of the bytes up to it.
LEMMA LastUnit ==
  ASSUME NEW s \in Selections, NEW body \in Seq(Byte), NEW b \in Byte,
         Len(body) % width(s) = width(s) - 1,
         NEW buffer \in Buffer, Kept(s, body, buffer), NEW coder
  PROVE  LET n == run_state(s, body)
         IN  /\ last_unit(s, Append(body, b)) = completed(n, buffer, coder, b)
             /\ completed(n, buffer, coder, b) \in CodeUnit(s.encoding)
<1>. DEFINE u == Append(body, b)
            m == Len(body)
            n == run_state(s, body)
            t0 == running(n, buffer, coder)
            w == width(s)
            piece == SubSeq(u, ((m + 1) - w) + 1, m + 1)
            c == code_unit_bytes(t0, b)
            p == IF s.endian = "be" THEN piece ELSE Reverse(piece)
<1>1. /\ n \in RunStates /\ n.encoding = s.encoding /\ n.endian = s.endian
      /\ n.byte_no = w - 1 /\ is_last_byte(n) /\ (w = 1 => n = run_8)
  BY RunStateIs
<1>2. /\ u \in Seq(Byte) /\ m \in Nat /\ Len(u) = m + 1 /\ u[m + 1] = b
      /\ \A i \in 1 .. m : u[i] = body[i]
  BY Longer
<1>3. \/ (s.encoding = 8 /\ w = 1) \/ (s.encoding = 16 /\ w = 2) \/ (s.encoding = 32 /\ w = 4)
  BY SelectionFields
<1>4. \A i \in 1 .. w - 1 : buffer[i - 1] = body[(m - (w - 1)) + i]
  BY DEF Kept
<1>5. m >= w - 1
  <2>1. w \in {1, 2, 4} /\ m % w = w - 1
    BY <1>3
  <2>. HIDE DEF m, w
  <2>2. m = w * (m \div w) + (m % w) /\ m \div w \in Nat
    BY <1>2, <2>1, Remainders
  <2>3. CASE w = 1
    BY <1>2, <2>3
  <2>4. CASE w = 2
    BY <2>1, <2>2, <2>4
  <2>5. CASE w = 4
    BY <2>1, <2>2, <2>5
  <2>. QED
    BY <2>1, <2>3, <2>4, <2>5
<1>6. t0.state = n
  BY RunningFields
<1>7. last_unit(s, u) = unit_of(s, piece)
  BY <1>2 DEF last_unit
<1>8. \A i \in 0 .. 3 : buffer[i] \in Byte
  BY DEF Buffer
<1>. HIDE DEF u, m, n, t0, w, piece
<1>9. /\ piece \in Seq(Byte) /\ Len(piece) = w
      /\ \A i \in 1 .. w - 1 : piece[i] = buffer[i - 1]
      /\ piece[w] = b
  <2>1. /\ ((m + 1) - w) + 1 \in 1 .. Len(u) /\ m + 1 \in 1 .. Len(u)
        /\ ((m + 1) - w) + 1 <= m + 1 /\ (m + 1) - (((m + 1) - w) + 1) + 1 = w
    BY <1>2, <1>3, <1>5
  <2>. DEFINE first == ((m + 1) - w) + 1
              last == m + 1
  <2>2. /\ SubSeq(u, first, last) \in Seq(Byte) /\ Len(SubSeq(u, first, last)) = (last - first) + 1
        /\ \A i \in 1 .. (last - first) + 1 : SubSeq(u, first, last)[i] = u[(first + i) - 1]
    <3>. HIDE DEF first, last
    <3>1. first \in 1 .. Len(u) /\ last \in 1 .. Len(u) /\ first <= last
      BY <2>1 DEF first, last
    <3>. QED
      BY <1>2, <3>1, Piece
  <2>3. piece \in Seq(Byte) /\ Len(piece) = w /\ \A i \in 1 .. w : piece[i] = u[((m + 1) - w) + i]
    <3>1. piece = SubSeq(u, first, last)
      BY DEF piece
    <3>2. (last - first) + 1 = w
      BY <1>2, <1>3
    <3>3. \A i \in 1 .. w : (first + i) - 1 = ((m + 1) - w) + i
      BY <1>2, <1>3
    <3>. HIDE DEF first, last
    <3>. QED
      BY <2>2, <3>1, <3>2, <3>3
  <2>4. piece[w] = b
    BY <1>2, <1>3, <2>3
  <2>5. ASSUME NEW i \in 1 .. w - 1 PROVE piece[i] = buffer[i - 1]
    <3>1. ((m + 1) - w) + i \in 1 .. m /\ ((m + 1) - w) + i = (m - (w - 1)) + i
      BY <1>2, <1>3, <1>5
    <3>2. i \in 1 .. w
      BY <1>3
    <3>. QED
      BY <1>2, <1>4, <2>3, <3>1, <3>2
  <2>. QED
    BY <2>3, <2>4, <2>5
<1>10. unit_of(s, piece) =
         CASE s.encoding = 8  -> p[1]
           [] s.encoding = 16 -> 256 * p[1] + p[2]
           [] s.encoding = 32 ->
                IF p[1] > 127 THEN 2147483647 ELSE 65536 * (256 * p[1] + p[2]) + 256 * p[3] + p[4]
  <2>1. \h7FFFFFFF = 2147483647
    BY SMT
  <2>. QED
    BY <2>1 DEF unit_of
<1>11. c = IF s.endian = "be" THEN given_bytes(t0, b) ELSE Reverse(given_bytes(t0, b))
  BY <1>1, <1>6 DEF code_unit_bytes
<1>12. \A i \in 1 .. w : Reverse(piece)[i] = piece[(w - i) + 1]
  BY <1>9 DEF Reverse
<1>13. CASE w = 1
  <2>1. n = run_8 /\ s.encoding = 8 /\ s.endian = "be"
    BY <1>1, <1>3, <1>13, SelectionFields
  <2>2. p[1] = b
    BY <1>9, <1>13, <2>1
  <2>3. unit_of(s, piece) = b
    BY <1>10, <2>1, <2>2
  <2>4. completed(n, buffer, coder, b) = b
    BY <2>1 DEF completed
  <2>5. b \in CodeUnit(8)
    BY DEF CodeUnit
  <2>. QED
    BY <1>7, <2>1, <2>3, <2>4, <2>5 DEF n, u
<1>14. CASE w = 2
  <2>1. s.encoding = 16 /\ n # run_8
    <3>1. s.encoding = 16
      BY <1>3, <1>14
    <3>. QED
      BY <1>1, <3>1, RunState
  <2>2. completed(n, buffer, coder, b) = char_from_buffer(t0, b)
    BY <2>1 DEF completed, t0
  <2>3. char_from_buffer(t0, b) = 256 * c[1] + c[2]
    BY <1>1, <1>6, <2>1 DEF char_from_buffer, char16_from_buffer
  <2>4. given_bytes(t0, b) = <<buffer[0], b>> /\ Reverse(given_bytes(t0, b)) = <<b, buffer[0]>>
    BY <1>1, <2>1, GivenBytes DEF t0
  <2>5. piece[1] = buffer[0] /\ piece[2] = b /\ Reverse(piece)[1] = b /\ Reverse(piece)[2] = buffer[0]
    <3>1. piece[1] = buffer[0] /\ piece[2] = b
      BY <1>9, <1>14
    <3>. QED
      BY <1>12, <1>14, <3>1
  <2>6. p[1] = c[1] /\ p[2] = c[2]
    <3>1. CASE s.endian = "be"
      <4>1. c = <<buffer[0], b>> /\ p = piece
        BY <1>11, <2>4, <3>1
      <4>. QED
        BY <2>5, <4>1
    <3>2. CASE s.endian # "be"
      <4>1. c = <<b, buffer[0]>> /\ p = Reverse(piece)
        BY <1>11, <2>4, <3>2
      <4>. QED
        BY <2>5, <4>1
    <3>. QED
      BY <3>1, <3>2
  <2>. HIDE DEF p, c
  <2>7. unit_of(s, piece) = 256 * c[1] + c[2]
    BY <1>10, <2>1, <2>6
  <2>8. char_from_buffer(t0, b) \in CodeUnit(16)
    BY <1>1, <2>1, MadeOfBytes DEF t0
  <2>. QED
    BY <1>7, <2>1, <2>2, <2>3, <2>7, <2>8 DEF n, u
<1>15. CASE w = 4
  <2>1. s.encoding = 32 /\ n # run_8
    <3>1. s.encoding = 32
      BY <1>3, <1>15
    <3>. QED
      BY <1>1, <3>1, RunState
  <2>2. completed(n, buffer, coder, b) = char_from_buffer(t0, b)
    BY <2>1 DEF completed, t0
  <2>3. char_from_buffer(t0, b) = IF c[1] > 127 THEN 2147483647
                                  ELSE 16777216 * c[1] + 65536 * c[2] + 256 * c[3] + c[4]
    <3>1. char_from_buffer(t0, b) = char32_from_buffer(t0, b)
      BY <1>1, <1>6, <2>1 DEF char_from_buffer
    <3>. QED
      BY <3>1, SMT DEF char32_from_buffer
  <2>4. /\ given_bytes(t0, b) = <<buffer[0], buffer[1], buffer[2], b>>
        /\ Reverse(given_bytes(t0, b)) = <<b, buffer[2], buffer[1], buffer[0]>>
    BY <1>1, <2>1, GivenBytes DEF t0
  <2>5. /\ piece[1] = buffer[0] /\ piece[2] = buffer[1] /\ piece[3] = buffer[2] /\ piece[4] = b
        /\ Reverse(piece)[1] = b /\ Reverse(piece)[2] = buffer[2]
        /\ Reverse(piece)[3] = buffer[1] /\ Reverse(piece)[4] = buffer[0]
    <3>1. piece[1] = buffer[0] /\ piece[2] = buffer[1] /\ piece[3] = buffer[2] /\ piece[4] = b
      BY <1>9, <1>15
    <3>. QED
      BY <1>12, <1>15, <3>1
  <2>6. /\ p[1] = c[1] /\ p[2] = c[2] /\ p[3] = c[3] /\ p[4] = c[4]
        /\ c[1] \in Int /\ c[2] \in Int /\ c[3] \in Int /\ c[4] \in Int
    <3>0. buffer[0] \in Int /\ buffer[1] \in Int /\ buffer[2] \in Int /\ b \in Int
      <4>1. 0 \in 0 .. 3 /\ 1 \in 0 .. 3 /\ 2 \in 0 .. 3
        OBVIOUS
      <4>2. buffer[0] \in Byte /\ buffer[1] \in Byte /\ buffer[2] \in Byte
        BY <1>8, <4>1, Zenon
      <4>. QED
        BY <4>2, ByteRange
    <3>1. CASE s.endian = "be"
      <4>1. c = <<buffer[0], buffer[1], buffer[2], b>> /\ p = piece
        BY <1>11, <2>4, <3>1
      <4>. QED
        BY <2>5, <3>0, <4>1
    <3>2. CASE s.endian # "be"
      <4>1. c = <<b, buffer[2], buffer[1], buffer[0]>> /\ p = Reverse(piece)
        BY <1>11, <2>4, <3>2
      <4>. QED
        BY <2>5, <3>0, <4>1
    <3>. QED
      BY <3>1, <3>2
  <2>. HIDE DEF p, c
  <2>7. unit_of(s, piece) = IF c[1] > 127 THEN 2147483647
                            ELSE 16777216 * c[1] + 65536 * c[2] + 256 * c[3] + c[4]
    <3>1. unit_of(s, piece) = IF c[1] > 127 THEN 2147483647
                              ELSE 65536 * (256 * c[1] + c[2]) + 256 * c[3] + c[4]
      BY <1>10, <2>1, <2>6
    <3>2. 65536 * (256 * c[1] + c[2]) + 256 * c[3] + c[4]
            = 16777216 * c[1] + 65536 * c[2] + 256 * c[3] + c[4]
      BY <2>6, SMT
    <3>. QED
      BY <3>1, <3>2
  <2>8. char_from_buffer(t0, b) \in CodeUnit(32)
    BY <1>1, <2>1, MadeOfBytes DEF t0
  <2>. QED
    BY <1>7, <2>1, <2>2, <2>3, <2>7, <2>8 DEF n, u
<1>. QED
  BY <1>3, <1>13, <1>14, <1>15

\* What a conversion of the code units writes and leaves.
LEMMA UnitsFed ==
  ASSUME NEW e \in Encodings, NEW s \in Selections, NEW body \in Seq(Byte),
         units_of(s, body) \in Seq(CodeUnit(s.encoding)),
         NEW r, r = fed(s.encoding, e, units_of(s, body))
  PROVE  /\ s.encoding \in Encodings /\ Returned(Object(s.encoding, e), e, r)
         /\ \A unit \in CodeUnit(s.encoding) :
              LET later == call(s.encoding, e, r.coder, unit)
              IN  /\ fed(s.encoding, e, Append(units_of(s, body), unit)) = then(r, later)
                  /\ Returned(Object(s.encoding, e), e, later)
                  /\ <<>> \o later.out = later.out
<1>1. s.encoding \in Encodings /\ s.encoding # std_byte
  BY SelectionFields DEF Encodings, std_byte
<1>2. Returned(Object(s.encoding, e), e, r)
  BY <1>1, FedReturned
<1>3. ASSUME NEW unit \in CodeUnit(s.encoding)
      PROVE  LET later == call(s.encoding, e, r.coder, unit)
             IN  /\ fed(s.encoding, e, Append(units_of(s, body), unit)) = then(r, later)
                 /\ Returned(Object(s.encoding, e), e, later)
                 /\ <<>> \o later.out = later.out
  <2>. DEFINE f == s.encoding
              later == call(f, e, r.coder, unit)
              units == units_of(s, body)
  <2>1. fed(f, e, Append(units, unit)) = then(r, any_call(f, e, r.coder, unit))
    <3>. HIDE DEF units
    <3>. QED
      BY FedAppend DEF units
  <2>2. any_call(f, e, r.coder, unit) = later
    BY <1>1 DEF any_call
  <2>3. Returned(Object(f, e), e, later)
    BY <1>1, <1>2, CallReturned DEF Returned
  <2>. HIDE DEF later
  <2>4. later.out \in Seq(EncodedUnit(e))
    BY <2>3 DEF Returned
  <2>5. ASSUME NEW o, o \in Seq(EncodedUnit(e)) PROVE <<>> \o o = o
    BY <2>5
  <2>6. <<>> \o later.out = later.out
    BY <2>4, <2>5
  <2>. QED
    BY <2>1, <2>2, <2>3, <2>6 DEF later
<1>. QED
  BY <1>1, <1>2, <1>3

\* The code units of bytes are code units: of every prefix, by induction.
LEMMA UnitsOfType ==
  ASSUME NEW s \in Selections, NEW body \in Seq(Byte)
  PROVE  units_of(s, body) \in Seq(CodeUnit(s.encoding))
<1>. DEFINE S == {u \in Seq(Byte) : units_of(s, u) \in Seq(CodeUnit(s.encoding))}
<1>1. <<>> \in S
  <2>1. <<>> \in Seq(Byte) /\ Len(<<>>) = 0 /\ 0 < width(s)
    BY SelectionFields
  <2>2. units_of(s, <<>>) = <<>>
    BY <2>1, UnitsOfFew
  <2>3. <<>> \in Seq(CodeUnit(s.encoding))
    OBVIOUS
  <2>4. units_of(s, <<>>) \in Seq(CodeUnit(s.encoding))
    BY <2>2, <2>3, Zenon
  <2>. QED
    BY <2>1, <2>4
<1>2. ASSUME NEW u \in Seq(Byte), NEW b \in Byte, u \in S PROVE Append(u, b) \in S
  <2>. DEFINE k == Len(u) % width(s)
  <2>1. Append(u, b) \in Seq(Byte) /\ units_of(s, u) \in Seq(CodeUnit(s.encoding))
    BY <1>2
  <2>2. k \in 0 .. width(s) - 1 /\ width(s) \in Nat
    BY RunStateIs, SelectionFields
  <2>3. CASE k < width(s) - 1
    BY <2>1, <2>3, UnitsKept
  <2>4. CASE k = width(s) - 1
    <3>. DEFINE bytes == [i \in 0 .. 3 |-> IF i + 1 \in 1 .. k THEN u[(Len(u) - k) + (i + 1)] ELSE b]
    <3>1. k <= Len(u)
      <4>1. width(s) \in {1, 2, 4} /\ Len(u) \in Nat
        BY SelectionFields
      <4>. DEFINE m == Len(u)
                  w == width(s)
      <4>. HIDE DEF m, w
      <4>2. m % w <= m
        <5>1. CASE w = 1
          BY <4>1, <5>1, SMT DEF m
        <5>2. CASE w = 2
          BY <4>1, <5>2, SMT DEF m
        <5>3. CASE w = 4
          BY <4>1, <5>3, SMT DEF m
        <5>. QED
          BY <4>1, <5>1, <5>2, <5>3 DEF w
      <4>. QED
        BY <4>2 DEF m, w
    <3>2. \A i \in 0 .. 3 : bytes[i] \in Byte
      <4>. SUFFICES ASSUME NEW i \in 0 .. 3 PROVE bytes[i] \in Byte
        OBVIOUS
      <4>1. CASE i + 1 \in 1 .. k
        <5>1. (Len(u) - k) + (i + 1) \in 1 .. Len(u)
          <6>. HIDE DEF k
          <6>1. Len(u) \in Nat
            OBVIOUS
          <6>. QED
            BY <2>2, <3>1, <4>1, <6>1
        <5>. HIDE DEF k
        <5>. QED
          BY <4>1, <5>1
      <4>2. CASE i + 1 \notin 1 .. k
        <5>. HIDE DEF k
        <5>. QED
          BY <4>2
      <4>. QED
        BY <4>1, <4>2
    <3>3. bytes = [i \in 0 .. 3 |-> bytes[i]]
      OBVIOUS
    <3>4. Kept(s, u, bytes)
      <4>1. \A i \in 1 .. k : bytes[i - 1] = u[(Len(u) - k) + i]
        <5>. HIDE DEF k
        <5>1. width(s) \in {1, 2, 4}
          BY SelectionFields
        <5>2. ASSUME NEW i \in 1 .. k
              PROVE  i - 1 \in 0 .. 3 /\ (i - 1) + 1 \in 1 .. k /\ (i - 1) + 1 = i
          BY <2>2, <5>1
        <5>. QED
          BY <5>2
      <4>. HIDE DEF bytes
      <4>. QED
        BY <4>1 DEF Kept
    <3>. HIDE DEF bytes
    <3>5. bytes \in Buffer
      BY <3>2, <3>3 DEF Buffer
    <3>6. last_unit(s, Append(u, b)) \in CodeUnit(s.encoding)
      BY <2>4, <3>4, <3>5, LastUnit
    <3>. QED
      BY <2>1, <2>4, <3>6, UnitsAppended
  <2>. QED
    BY <2>2, <2>3, <2>4
<1>. HIDE DEF S
<1>3. body \in S
  BY <1>1, <1>2, Feeding!SequenceInduction
<1>. QED
  BY <1>3 DEF S

\* A machine that runs goes on running, with the byte in its transcoder or in its
\* buffer.
LEMMA RunningStep ==
  ASSUME NEW e \in Encodings, NEW s \in Selections, NEW body \in Seq(Byte), NEW b \in Byte,
         NEW x, NEW out, RunsOn(e, s, body, x, out),
         NEW r, r = byte_call(e, x, b)
  PROVE  RunsOn(e, s, Append(body, b), r.coder, out \o r.out)
<1>. DEFINE f == s.encoding
            units == units_of(s, body)
            u == Append(body, b)
            done == fed(f, e, units)
            n == run_state(s, body)
            k == Len(body) % width(s)
            m == Len(body)
            w == width(s)
<1>1. PICK buffer \in Buffer : Kept(s, body, buffer) /\ RunsWith(done, s, body, buffer, x, out)
  BY DEF RunsOn
<1>2. x = running(n, buffer, done.coder) /\ out = done.out
  BY <1>1 DEF RunsWith
<1>3. units \in Seq(CodeUnit(f))
  BY UnitsOfType
<1>4. /\ Returned(Object(f, e), e, done)
      /\ \A unit \in CodeUnit(f) :
           LET later == call(f, e, done.coder, unit)
           IN  /\ fed(f, e, Append(units, unit)) = then(done, later)
               /\ Returned(Object(f, e), e, later)
               /\ <<>> \o later.out = later.out
  BY <1>3, UnitsFed
<1>5. /\ n \in RunStates /\ n.encoding = f /\ n.byte_no = k /\ k \in 0 .. w - 1
      /\ (w = 1 => n = run_8)
      /\ (is_last_byte(n) <=> k = w - 1)
      /\ next_byte(n) = state(f, s.endian, "run", k + 1)
      /\ set_byte(n, 0) = state(f, s.endian, "run", 0)
  BY RunStateIs
<1>6. w \in {1, 2, 4} /\ m \in Nat /\ Len(u) = m + 1 /\ u \in Seq(Byte)
  BY SelectionFields
<1>7. /\ k < w - 1 => (m + 1) % w = k + 1
      /\ k = w - 1 => (m + 1) % w = 0
  <2>. HIDE DEF m, w
  <2>. QED
    BY <1>6, Remainders DEF m, w
<1>8. CASE k < w - 1
  <2>. DEFINE kept == with_byte(buffer, n.byte_no, b)
  <2>1. n # run_8 /\ ~ is_last_byte(n)
    <3>1. w # 1
      <4>. HIDE DEF w, k
      <4>. QED
        BY <1>5, <1>8
    <3>2. f # 8
      BY <3>1, SelectionFields
    <3>. HIDE DEF n, k, w
    <3>. QED
      BY <1>5, <1>8, <3>2, RunState
  <2>2. r = Result(running(next_byte(n), kept, done.coder), <<>>)
    <3>. HIDE DEF n, done
    <3>. QED
      BY <1>2, <1>5, <2>1, RunKeeps
  <2>3. run_state(s, u) = next_byte(n)
    <3>1. Len(u) % w = k + 1
      BY <1>6, <1>7, <1>8
    <3>. QED
      BY <1>5, <3>1 DEF run_state
  <2>4. kept \in Buffer
    <3>1. n.byte_no \in 0 .. 3
      <4>. HIDE DEF w, k, n
      <4>. QED
        BY <1>5, <1>6
    <3>. HIDE DEF n
    <3>. QED
      BY <3>1, StillBuffer
  <2>5. Kept(s, u, kept)
    <3>1. \A i \in 0 .. 3 : kept[i] = IF i = k THEN b ELSE buffer[i]
      BY <1>5 DEF with_byte, Buffer
    <3>2. \A i \in 1 .. k : buffer[i - 1] = body[(m - k) + i]
      BY <1>1 DEF Kept
    <3>3. u[m + 1] = b /\ \A i \in 1 .. m : u[i] = body[i]
      BY Longer
    <3>6. k <= m
      <4>1. m = w * (m \div w) + k /\ m \div w \in Nat
        <5>. HIDE DEF m, w
        <5>. QED
          BY <1>6, Remainders DEF k, m, w
      <4>. DEFINE q == m \div w
      <4>. HIDE DEF m, w, k, q
      <4>2. CASE w = 1
        BY <1>5, <1>6, <4>1, <4>2 DEF q
      <4>3. CASE w = 2
        BY <1>5, <1>6, <4>1, <4>3 DEF q
      <4>4. CASE w = 4
        BY <1>5, <1>6, <4>1, <4>4 DEF q
      <4>. QED
        BY <1>6, <4>2, <4>3, <4>4
    <3>. HIDE DEF kept, k, m, w, u, n
    <3>4. \A i \in 1 .. k + 1 : kept[i - 1] = u[((m + 1) - (k + 1)) + i]
      <4>. SUFFICES ASSUME NEW i \in 1 .. k + 1 PROVE kept[i - 1] = u[((m + 1) - (k + 1)) + i]
        OBVIOUS
      <4>1. i - 1 \in 0 .. 3 /\ ((m + 1) - (k + 1)) + i = (m - k) + i
        BY <1>5, <1>6, <1>8
      <4>2. CASE i = k + 1
        <5>1. i - 1 = k /\ (m - k) + i = m + 1
          BY <1>5, <1>6, <4>2
        <5>. QED
          BY <3>1, <3>3, <4>1, <5>1
      <4>3. CASE i # k + 1
        <5>1. i \in 1 .. k /\ i - 1 # k /\ (m - k) + i \in 1 .. m
          BY <1>5, <1>6, <3>6, <4>3
        <5>. QED
          BY <3>1, <3>2, <3>3, <4>1, <5>1
      <4>. QED
        BY <4>2, <4>3
    <3>5. Len(u) % width(s) = k + 1 /\ Len(u) = m + 1
      BY <1>6, <1>7, <1>8 DEF w
    <3>. QED
      BY <3>4, <3>5 DEF Kept
  <2>6. units_of(s, u) = units
    BY <1>8, UnitsKept
  <2>7. r.coder = running(next_byte(n), kept, done.coder) /\ r.out = <<>>
    <3>. HIDE DEF n, kept, done
    <3>. QED
      BY <2>2, ResultFields
  <2>8. out \o r.out = done.out
    <3>1. out \in Seq(EncodedUnit(e))
      BY <1>2, <1>4 DEF Returned
    <3>2. out \o <<>> = out
      BY <3>1
    <3>. QED
      BY <1>2, <2>7, <3>2
  <2>. HIDE DEF kept, n, u
  <2>9. RunsWith(done, s, u, kept, r.coder, out \o r.out)
    <3>. HIDE DEF done
    <3>. QED
      BY <2>3, <2>7, <2>8 DEF RunsWith
  <2>. QED
    BY <2>4, <2>5, <2>6, <2>9 DEF RunsOn, u
<1>9. CASE k = w - 1
  <2>. DEFINE unit == completed(n, buffer, done.coder, b)
              later == call(f, e, done.coder, unit)
  <2>1. last_unit(s, u) = unit /\ unit \in CodeUnit(f)
    <3>. HIDE DEF done
    <3>. QED
      BY <1>1, <1>9, LastUnit
  <2>2. /\ fed(f, e, Append(units, unit)) = then(done, later)
        /\ Returned(Object(f, e), e, later)
        /\ <<>> \o later.out = later.out
    <3>. HIDE DEF unit, done
    <3>. QED
      BY <1>4, <2>1
  <2>3. is_last_byte(n)
    BY <1>5, <1>9
  <2>4. r = Result(running(set_byte(n, 0), buffer, later.coder), later.out)
    <3>. HIDE DEF n, done, f
    <3>. QED
      BY <1>2, <1>5, <2>2, <2>3, RunPasses
  <2>5. units_of(s, u) = Append(units, unit)
    <3>. HIDE DEF unit
    <3>. QED
      BY <1>3, <1>9, <2>1, UnitsAppended
  <2>6. run_state(s, u) = set_byte(n, 0)
    <3>1. Len(u) % w = 0
      BY <1>6, <1>7, <1>9
    <3>. QED
      BY <1>5, <3>1 DEF run_state
  <2>7. Kept(s, u, buffer)
    <3>1. Len(u) % width(s) = 0
      BY <1>6, <1>7, <1>9
    <3>2. 1 .. 0 = {}
      OBVIOUS
    <3>. HIDE DEF u
    <3>. QED
      BY <3>1, <3>2 DEF Kept
  <2>8. r.coder = running(set_byte(n, 0), buffer, later.coder) /\ r.out = later.out
    <3>. HIDE DEF n, later
    <3>. QED
      BY <2>4, ResultFields
  <2>9. then(done, later).coder = later.coder /\ then(done, later).out = done.out \o later.out
    <3>. HIDE DEF done, later
    <3>. QED
      BY ResultFields DEF then
  <2>10. fed(f, e, units_of(s, u)) = then(done, later)
    BY <2>2, <2>5
  <2>. HIDE DEF later, done, n, u, unit
  <2>11. RunsWith(then(done, later), s, u, buffer, r.coder, out \o r.out)
    BY <1>2, <2>6, <2>8, <2>9 DEF RunsWith
  <2>12. RunsWith(fed(s.encoding, e, units_of(s, u)), s, u, buffer, r.coder, out \o r.out)
    BY <2>10, <2>11
  <2>. QED
    BY <2>7, <2>12 DEF RunsOn, u
<1>10. k < w - 1 \/ k = w - 1
  <2>. HIDE DEF k, w
  <2>. QED
    BY <1>5, <1>6
<1>. QED
  BY <1>8, <1>9, <1>10

-----------------------------------------------------------------------------
(***************************************************************************)
(* What a conversion by hand promises, and where it is at rest.            *)
(***************************************************************************)
\* A byte 0 ends whatever the UTF-8 decoder was reading.
LEMMA NullRests ==
  ASSUME NEW d \in Decoder(8)
  PROVE  decoder_call(8, d, 0).coder.state = accept
<1>1. d \in T8_32 /\ d.state \in State /\ 0 \in Byte
  BY ByteRange DEF Decoder, T8_32
<1>2. class(0) = 0 /\ class(0) \in 0 .. 11
  BY <1>1, LeadClass, ClassOfByte
<1>3. transition(d.state, 0) \in {accept, reject}
  <2>1. 0 \in 0 .. 11
    OBVIOUS
  <2>2. 0 \notin any_tail /\ 0 \notin E0_tail /\ 0 \notin ED_tail /\ 0 \notin F0_tail /\ 0 \notin F4_tail
    BY DEF any_tail, E0_tail, ED_tail, F0_tail, F4_tail
  <2>. QED
    BY <1>1, <2>1, <2>2, RowOfAccept, RowsOfTails DEF State
<1>4. decoder_call(8, d, 0) = t8_32_call(d, 0)
  BY DEF decoder_call
<1>5. ASSUME transition(d.state, 0) = accept PROVE t8_32_call(d, 0).coder.state = accept
  <2>. DEFINE c == [code_point |-> shifted(d, 0), well_formed |-> d.well_formed, state |-> accept]
  <2>1. t8_32_call(d, 0) = Result(c, <<shifted(d, 0)>>)
    BY <1>1, <1>2, <1>5, Call8
  <2>2. c.state = accept
    OBVIOUS
  <2>. HIDE DEF c
  <2>. QED
    BY <2>1, <2>2, ResultFields
<1>6. ASSUME transition(d.state, 0) = reject PROVE t8_32_call(d, 0).coder.state = accept
  <2>. DEFINE c == [code_point |-> shifted(d, 0), well_formed |-> FALSE, state |-> accept]
  <2>1. t8_32_call(d, 0) = Result(c, <<replacement_char>>)
    BY <1>1, <1>2, <1>6, Call8
  <2>2. c.state = accept
    OBVIOUS
  <2>. HIDE DEF c
  <2>. QED
    BY <2>1, <2>2, ResultFields
<1>. QED
  BY <1>3, <1>4, <1>5, <1>6

\* Where the decoder is at rest, end_cp() changes and writes nothing.
LEMMA EndAtRest ==
  ASSUME NEW e \in Encodings, NEW d \in Decoder(8), d.state = accept
  PROVE  end_cp(8, e, object(8, e, d)) = Result(object(8, e, d), <<>>)
<1>1. decoder_end_cp(8, d) = Result(d, <<>>)
  BY DEF decoder_end_cp, t8_32_end_cp
<1>2. 8 \in Encodings
  BY DEF Encodings
<1>3. end_cp(8, e, object(8, e, d))
        = Result(object(8, e, Result(d, <<>>).coder), encoded(e, Result(d, <<>>).out))
  BY <1>1, <1>2, EndCpEncodes
<1>4. Result(d, <<>>).coder = d /\ Result(d, <<>>).out = <<>> /\ encoded(e, <<>>) = <<>>
  BY ResultFields, EncodedAppend
<1>. QED
  BY <1>3, <1>4

\* Hence the end of a UTF-8 stream of nothing, or after a byte 0, adds nothing.
LEMMA EndAfterNull ==
  ASSUME NEW e \in Encodings, NEW bytes \in Seq(Byte)
  PROVE  /\ fed_all(8, e, <<>>) = fed(8, e, <<>>)
         /\ fed_all(8, e, Append(bytes, 0)) = fed(8, e, Append(bytes, 0))
<1>1. 8 \in Encodings /\ 8 # std_byte /\ 0 \in Byte /\ CodeUnit(8) = Byte
  BY ByteRange DEF Encodings, std_byte, CodeUnit
<1>2. ASSUME NEW units, NEW d \in Decoder(8), d.state = accept,
             NEW r, r = fed(8, e, units), r.coder = object(8, e, d),
             r.out \in Seq(EncodedUnit(e)), r = Result(r.coder, r.out)
      PROVE  fed_all(8, e, units) = r
  <2>1. fed_all(8, e, units) = then(r, any_end_cp(8, e, r.coder))
    BY <1>2 DEF fed_all, ended_by_hand
  <2>2. any_end_cp(8, e, r.coder) = Result(r.coder, <<>>)
    BY <1>1, <1>2, EndAtRest DEF any_end_cp
  <2>3. then(r, Result(r.coder, <<>>)) = Result(r.coder, r.out \o <<>>)
    BY ResultFields DEF then
  <2>4. ASSUME NEW o, o \in Seq(EncodedUnit(e)) PROVE o \o <<>> = o
    BY <2>4
  <2>5. r.out \o <<>> = r.out
    BY <1>2, <2>4
  <2>. QED
    BY <1>2, <2>1, <2>2, <2>3, <2>5
<1>3. fed_all(8, e, <<>>) = fed(8, e, <<>>)
  <2>. DEFINE r == fed(8, e, <<>>)
              d == decoder(8)
  <2>1. r = Result(transcoder(8, e), <<>>)
    BY <1>1, FedNothing DEF any_transcoder
  <2>2. transcoder(8, e) = object(8, e, d) /\ d \in Decoder(8) /\ ~ decoder_partial(8, d)
    BY <1>1, ConstructedObject
  <2>3. d.state = accept
    <3>. HIDE DEF d
    <3>1. decoder_partial(8, d) = (d.state # accept)
      BY DecoderPartial
    <3>. QED
      BY <2>2, <3>1
  <2>4. r.coder = transcoder(8, e) /\ r.out = <<>> /\ r = Result(r.coder, r.out)
    BY <2>1, ResultFields
  <2>5. <<>> \in Seq(EncodedUnit(e))
    OBVIOUS
  <2>6. r = fed(8, e, <<>>)
    OBVIOUS
  <2>. HIDE DEF r, d
  <2>7. r.out \in Seq(EncodedUnit(e))
    BY <2>4, <2>5, Zenon
  <2>. QED
    BY <1>2, <2>2, <2>3, <2>4, <2>6, <2>7
<1>4. fed_all(8, e, Append(bytes, 0)) = fed(8, e, Append(bytes, 0))
  <2>. DEFINE r == fed(8, e, bytes)
              later == call(8, e, r.coder, 0)
              all == fed(8, e, Append(bytes, 0))
  <2>1. Returned(Object(8, e), e, r)
    BY <1>1, FedReturned
  <2>2. PICK d \in Decoder(8) : r.coder = object(8, e, d)
    BY <2>1 DEF Returned, Object
  <2>. DEFINE q == decoder_call(8, d, 0)
  <2>3. q.coder.state = accept
    BY NullRests
  <2>4. q.coder \in Decoder(8)
    BY <1>1, DecoderDecodes DEF Decodes
  <2>5. later = Result(object(8, e, q.coder), encoded(e, q.out))
    BY <1>1, <2>2, CallEncodes
  <2>6. all = then(r, later)
    <3>1. all = then(r, any_call(8, e, r.coder, 0))
      BY <1>1, FedAppend
    <3>. QED
      BY <1>1, <3>1 DEF any_call
  <2>7. Append(bytes, 0) \in Seq(Byte)
    BY <1>1
  <2>8. Returned(Object(8, e), e, all)
    BY <1>1, <2>7, FedReturned
  <2>9. all = fed(8, e, Append(bytes, 0))
    OBVIOUS
  <2>. HIDE DEF r, later, q, all
  <2>10. all.coder = object(8, e, q.coder)
    BY <2>5, <2>6, ResultFields DEF then
  <2>11. all.out \in Seq(EncodedUnit(e)) /\ all = Result(all.coder, all.out)
    BY <2>8 DEF Returned
  <2>12. fed_all(8, e, Append(bytes, 0)) = all
    BY <1>2, <2>3, <2>4, <2>9, <2>10, <2>11
  <2>. QED
    BY <2>9, <2>12
<1>. QED
  BY <1>3, <1>4

\* What is written for a code point or two is something.
LEMMA EncodesSomething ==
  ASSUME NEW e \in Encodings, NEW f \in Encodings, NEW units, MayWrite(f, units), units # <<>>
  PROVE  encoded(e, units) # <<>>
<1>1. ASSUME NEW o \in Seq(EncodedUnit(e)), 1 <= Len(o) PROVE o # <<>>
  BY <1>1
<1>2. ASSUME NEW x \in Scalar, units = <<x>> PROVE encoded(e, units) # <<>>
  <2>1. encoded(e, units) = encode(e, x)
    BY <1>2, EncodedLength
  <2>2. encode(e, x) \in Seq(EncodedUnit(e)) /\ 1 <= Len(encode(e, x))
    BY EncodeType
  <2>. QED
    BY <1>1, <2>1, <2>2
<1>3. ASSUME NEW x \in Scalar, units = <<replacement_char, x>> PROVE encoded(e, units) # <<>>
  <2>. DEFINE first == encoded(e, <<replacement_char>>)
              second == encode(e, x)
  <2>1. replacement_char \in Scalar
    BY ScalarMember
  <2>2. <<replacement_char>> \in Seq(Scalar) /\ units = Append(<<replacement_char>>, x)
    BY <1>3, <2>1
  <2>3. encoded(e, units) = first \o second
    BY <2>2, EncodedAppend
  <2>4. first \in Seq(EncodedUnit(e))
    BY <2>2, CopyEncodes
  <2>5. second \in Seq(EncodedUnit(e)) /\ 1 <= Len(second)
    BY EncodeType
  <2>. HIDE DEF first, second
  <2>6. first \o second \in Seq(EncodedUnit(e)) /\ 1 <= Len(first \o second)
    BY <2>4, <2>5
  <2>. QED
    BY <1>1, <2>3, <2>6
<1>. QED
  BY <1>2, <1>3 DEF MayWrite

\* An object that is not well formed has had something written before.
Accounted(from, e, r) ==
  /\ well_formed(from, e, r.coder) \in BOOLEAN
  /\ r.out \in Seq(EncodedUnit(e))
  /\ ~ well_formed(from, e, r.coder) => r.out # <<>>

\* A call keeps that.
LEMMA AccountedStep ==
  ASSUME NEW from \in Encodings, NEW e \in Encodings, NEW d \in Decoder(from),
         NEW r, r.coder = object(from, e, d), Accounted(from, e, r),
         NEW q, Decodes(from, d, q),
         NEW later, later = Result(object(from, e, q.coder), encoded(e, q.out))
  PROVE  Accounted(from, e, then(r, later))
<1>1. q.coder \in Decoder(from) /\ MayWrite(from, q.out) /\ Reports(d, q)
  BY DEF Decodes
<1>2. well_formed(from, e, r.coder) = d.well_formed
  BY ObjectObserved
<1>3. later.coder = object(from, e, q.coder) /\ later.out = encoded(e, q.out)
  BY ResultFields
<1>4. well_formed(from, e, later.coder) = q.coder.well_formed
  BY <1>1, <1>3, ObjectObserved
<1>5. q.coder.well_formed \in BOOLEAN
  BY <1>1 DEF Decoder, T8_32, T16_32, T32_X, Encodings
<1>6. later.out \in Seq(EncodedUnit(e))
  BY <1>1, <1>3, EncodedLength
<1>7. ~ q.coder.well_formed => r.out # <<>> \/ later.out # <<>>
  <2>1. CASE q.coder.well_formed = d.well_formed
    BY <1>2, <2>1 DEF Accounted
  <2>2. CASE q.out # <<>>
    BY <1>1, <1>3, <2>2, EncodesSomething
  <2>. QED
    BY <1>1, <2>1, <2>2 DEF Reports
<1>8. then(r, later).coder = later.coder /\ then(r, later).out = r.out \o later.out
  BY ResultFields DEF then
<1>9. r.out \in Seq(EncodedUnit(e))
  BY DEF Accounted
<1>10. ASSUME NEW o1 \in Seq(EncodedUnit(e)), NEW o2 \in Seq(EncodedUnit(e))
       PROVE  /\ o1 \o o2 \in Seq(EncodedUnit(e))
              /\ o1 # <<>> \/ o2 # <<>> => o1 \o o2 # <<>>
  BY ConcatProperties
<1>11. /\ r.out \o later.out \in Seq(EncodedUnit(e))
       /\ r.out # <<>> \/ later.out # <<>> => r.out \o later.out # <<>>
  BY <1>6, <1>9, <1>10
<1>. QED
  BY <1>4, <1>5, <1>7, <1>8, <1>11 DEF Accounted

\* And so it is of every conversion, ended or not.
LEMMA FedAccounted ==
  ASSUME NEW from \in Encodings, NEW e \in Encodings, NEW units \in Seq(CodeUnit(from))
  PROVE  Accounted(from, e, fed(from, e, units)) /\ Accounted(from, e, fed_all(from, e, units))
<1>. DEFINE S == {u \in Seq(CodeUnit(from)) : Accounted(from, e, fed(from, e, u))}
<1>0. from # std_byte
  BY DEF Encodings, std_byte
<1>1. <<>> \in S
  <2>1. fed(from, e, <<>>) = Result(transcoder(from, e), <<>>)
    BY <1>0, FedNothing DEF any_transcoder
  <2>2. /\ transcoder(from, e) = object(from, e, decoder(from))
        /\ decoder(from) \in Decoder(from) /\ decoder(from).well_formed
    BY ConstructedObject
  <2>3. well_formed(from, e, transcoder(from, e)) = decoder(from).well_formed
    BY <2>2, ObjectObserved
  <2>4. decoder(from).well_formed \in BOOLEAN
    BY <2>2 DEF Decoder, T8_32, T16_32, T32_X, Encodings
  <2>5. <<>> \in Seq(EncodedUnit(e)) /\ <<>> \in Seq(CodeUnit(from))
    OBVIOUS
  <2>6. fed(from, e, <<>>).coder = transcoder(from, e) /\ fed(from, e, <<>>).out = <<>>
    BY <2>1, ResultFields
  <2>7. Accounted(from, e, fed(from, e, <<>>))
    BY <2>2, <2>3, <2>4, <2>5, <2>6, Zenon DEF Accounted
  <2>. QED
    BY <2>5, <2>7
<1>2. ASSUME NEW u \in Seq(CodeUnit(from)), NEW x \in CodeUnit(from), u \in S
      PROVE  Append(u, x) \in S
  <2>. DEFINE r == fed(from, e, u)
              later == call(from, e, r.coder, x)
  <2>1. Accounted(from, e, r)
    BY <1>2
  <2>2. Returned(Object(from, e), e, r)
    BY FedReturned
  <2>3. PICK d \in Decoder(from) : r.coder = object(from, e, d)
    BY <2>2 DEF Returned, Object
  <2>4. Decodes(from, d, decoder_call(from, d, x))
    BY DecoderDecodes
  <2>5. later = Result(object(from, e, decoder_call(from, d, x).coder),
                       encoded(e, decoder_call(from, d, x).out))
    BY <2>3, CallEncodes
  <2>6. fed(from, e, Append(u, x)) = then(r, later)
    <3>1. fed(from, e, Append(u, x)) = then(r, any_call(from, e, r.coder, x))
      BY FedAppend
    <3>. QED
      BY <1>0, <3>1 DEF any_call
  <2>. HIDE DEF r, later
  <2>7. Accounted(from, e, then(r, later))
    BY <2>1, <2>3, <2>4, <2>5, AccountedStep
  <2>8. Append(u, x) \in Seq(CodeUnit(from))
    OBVIOUS
  <2>. QED
    BY <2>6, <2>7, <2>8
<1>. HIDE DEF S
<1>3. units \in S
  BY <1>1, <1>2, Feeding!SequenceInduction
<1>4. Accounted(from, e, fed(from, e, units))
  BY <1>3 DEF S
<1>5. Accounted(from, e, fed_all(from, e, units))
  <2>. DEFINE r == fed(from, e, units)
              later == end_cp(from, e, r.coder)
  <2>2. Returned(Object(from, e), e, r)
    BY FedReturned
  <2>3. PICK d \in Decoder(from) : r.coder = object(from, e, d)
    BY <2>2 DEF Returned, Object
  <2>4. Decodes(from, d, decoder_end_cp(from, d))
    BY DecoderDecodes
  <2>5. later = Result(object(from, e, decoder_end_cp(from, d).coder),
                       encoded(e, decoder_end_cp(from, d).out))
    BY <2>3, EndCpEncodes
  <2>6. fed_all(from, e, units) = then(r, later)
    BY <1>0 DEF fed_all, ended_by_hand, any_end_cp
  <2>. HIDE DEF r, later
  <2>7. Accounted(from, e, then(r, later))
    BY <1>4, <2>3, <2>4, <2>5, AccountedStep DEF r
  <2>. QED
    BY <2>6, <2>7
<1>. QED
  BY <1>4, <1>5

-----------------------------------------------------------------------------
(***************************************************************************)
(* The steps of a machine that waits.                                      *)
(***************************************************************************)
\* A machine that has found its mark runs, its transcoder as constructed.
LEMMA StartsRunning ==
  ASSUME NEW e \in Encodings, NEW s \in Selections, NEW body \in Seq(Byte), Len(body) < width(s),
         NEW buffer \in Buffer, Kept(s, body, buffer),
         NEW r, Found(e, r, run_state(s, body), buffer)
  PROVE  RunsOn(e, s, body, r.coder, r.out)
<1>. DEFINE n == run_state(s, body)
<1>1. units_of(s, body) = <<>>
  BY UnitsOfFew
<1>2. n.encoding = s.encoding
  BY RunStateIs
<1>3. s.encoding # std_byte
  BY SelectionFields DEF Encodings, std_byte
<1>4. fed(s.encoding, e, <<>>) = Result(transcoder(s.encoding, e), <<>>)
  BY <1>3, FedNothing DEF any_transcoder
<1>. HIDE DEF n
<1>5. r = Result(running(n, buffer, transcoder(s.encoding, e)), <<>>)
  BY <1>2 DEF Found, n
<1>6. /\ r.coder = running(n, buffer, transcoder(s.encoding, e)) /\ r.out = <<>>
      /\ fed(s.encoding, e, <<>>).coder = transcoder(s.encoding, e)
      /\ fed(s.encoding, e, <<>>).out = <<>>
  BY <1>4, <1>5, ResultFields
<1>7. RunsWith(fed(s.encoding, e, <<>>), s, body, buffer, r.coder, r.out)
  BY <1>6 DEF RunsWith, n
<1>. QED
  BY <1>1, <1>7 DEF RunsOn

\* And so does one that takes its bytes for UTF-8.
LEMMA RunsUtf8 ==
  ASSUME NEW e \in Encodings, NEW bytes \in Seq(Byte), NEW buffer \in Buffer, NEW r,
         r = Result(running(run_8, buffer, fed(8, e, bytes).coder), fed(8, e, bytes).out)
  PROVE  /\ RunsOn(e, utf8_selected, bytes, r.coder, r.out)
         /\ fed_all(8, e, bytes) = fed(8, e, bytes) =>
              HasEnded(e, utf8_selected, bytes, r.coder, r.out)
<1>. DEFINE s == utf8_selected
            done == fed(8, e, bytes)
<1>1. s \in Selections /\ s.encoding = 8 /\ s.endian = "be"
  BY SelectionsAre DEF utf8_selected
<1>2. units_of(s, bytes) = bytes /\ Len(bytes) % width(s) = 0
  BY UnitsOfUtf8
<1>3. run_state(s, bytes) = run_8
  BY <1>1, <1>2 DEF run_state, run_8
<1>4. Kept(s, bytes, buffer)
  <2>1. 1 .. 0 = {}
    OBVIOUS
  <2>. HIDE DEF s
  <2>. QED
    BY <1>2, <2>1 DEF Kept
<1>. HIDE DEF s, done
<1>5. r.coder = running(run_8, buffer, done.coder) /\ r.out = done.out
  BY ResultFields DEF done
<1>6. RunsWith(done, s, bytes, buffer, r.coder, r.out)
  BY <1>3, <1>5 DEF RunsWith
<1>7. RunsOn(e, s, bytes, r.coder, r.out)
  BY <1>1, <1>2, <1>4, <1>6 DEF RunsOn, done
<1>8. ASSUME fed_all(8, e, bytes) = done PROVE HasEnded(e, s, bytes, r.coder, r.out)
  BY <1>1, <1>2, <1>6, <1>8 DEF HasEnded
<1>. QED
  BY <1>7, <1>8 DEF s, done

\* What has been made of a stream so far: it may yet go on as a mark, or the
\* encoding has been selected and what follows the mark converted.
Waits(bytes, x, out) ==
  /\ Undecided(bytes) /\ out = <<>>
  /\ \E s \in BomStates : Reading(s, bytes) /\ x = waiting(s, filled(bytes))

Converts(e, bytes, x, out) ==
  /\ ~ Undecided(bytes)
  /\ selected_for(bytes) \in Selections
  /\ RunsOn(e, selected_for(bytes), after_mark(selected_for(bytes), bytes), x, out)

\* A byte more of what may go on as a mark.
LEMMA WaitingStep ==
  ASSUME NEW e \in Encodings, NEW bytes \in Seq(Byte), NEW b \in Byte,
         NEW x, Waits(bytes, x, <<>>), NEW r, r = byte_call(e, x, b)
  PROVE  \/ Waits(Append(bytes, b), r.coder, r.out)
         \/ Converts(e, Append(bytes, b), r.coder, r.out)
<1>. DEFINE u == Append(bytes, b)
            Fine == Waits(u, r.coder, r.out) \/ Converts(e, u, r.coder, r.out)
<1>. SUFFICES Fine
  OBVIOUS
<1>1. PICK s \in BomStates : Reading(s, bytes) /\ x = waiting(s, filled(bytes))
  BY DEF Waits
<1>. DEFINE kept == filled(u)
<1>2. /\ filled(bytes) \in Buffer
      /\ with_byte(filled(bytes), s.byte_no, b) = kept
      /\ pending(s, kept) = u
  BY <1>1, Filled
<1>3. u \in Seq(Byte)
  BY Longer
<1>4. kept \in Buffer
  BY <1>1, <1>2, Filled, StillBuffer
<1>5. \A n : GoesOn(r, n, kept) => r.coder = waiting(n, kept) /\ r.out = <<>>
  BY ResultFields DEF GoesOn
<1>6. ASSUME NEW n \in BomStates, Reading(n, u), GoesOn(r, n, kept)
      PROVE  Fine
  <2>1. Undecided(u)
    BY <1>3, <1>6, StillUndecided
  <2>. QED
    BY <1>5, <1>6, <2>1 DEF Waits
<1>7. ASSUME GivesUp(e, r, s, kept), ~ Undecided(u), utf8_selected \notin Marked(u),
             Marked(u) = {} \/ Misread(u)
      PROVE  Fine
  <2>1. r = Result(running(run_8, kept, fed(8, e, u).coder), fed(8, e, u).out)
    <3>1. r = run8_start(e, waiting(s, kept), TRUE)
      BY <1>7 DEF GivesUp
    <3>. HIDE DEF u, kept
    <3>. QED
      BY <1>2, <1>3, <3>1, Run8StartPending
  <2>2. RunsOn(e, utf8_selected, u, r.coder, r.out)
    BY <1>3, <1>4, <2>1, RunsUtf8
  <2>3. selected_for(u) = utf8_selected /\ after_mark(utf8_selected, u) = u
    BY <1>7, SelectsUtf8
  <2>4. utf8_selected \in Selections
    BY SelectionsAre DEF utf8_selected
  <2>. QED
    BY <1>7, <2>2, <2>3, <2>4 DEF Converts
<1>8. ASSUME NEW sel \in Selections, NEW rest \in Seq(Byte), Len(rest) < width(sel),
             ~ Undecided(u), selected_for(u) = sel, after_mark(sel, u) = rest,
             NEW buffer \in Buffer, Kept(sel, rest, buffer),
             Found(e, r, run_state(sel, rest), buffer)
      PROVE  Fine
  <2>1. RunsOn(e, sel, rest, r.coder, r.out)
    BY <1>8, StartsRunning
  <2>. QED
    BY <1>8, <2>1 DEF Converts
<1>9. ASSUME NEW sel \in Selections, ~ Undecided(u), selected_for(u) = sel,
             after_mark(sel, u) = <<>>, sel.encoding # 8,
             Found(e, r, state(sel.encoding, sel.endian, "run", 0), kept)
      PROVE  Fine
  <2>1. <<>> \in Seq(Byte) /\ Len(<<>>) = 0 /\ 0 < width(sel)
    BY SelectionFields
  <2>2. Len(<<>>) % width(sel) = 0
    BY <2>1, UnitsOfFew
  <2>3. run_state(sel, <<>>) = state(sel.encoding, sel.endian, "run", 0)
    BY <2>2 DEF run_state
  <2>4. 1 .. 0 = {}
    OBVIOUS
  <2>5. Kept(sel, <<>>, kept)
    BY <2>2, <2>4 DEF Kept
  <2>6. Len(<<>>) < width(sel)
    BY <2>1
  <2>. HIDE DEF kept, u, Fine
  <2>. QED
    BY <1>4, <1>8, <1>9, <2>1, <2>3, <2>5, <2>6
<1>10. CASE s = start
  <2>1. s.byte_no = 0
    BY <1>10, BomState
  <2>2. kept = with_byte(filled(bytes), 0, b)
    BY <1>2, <2>1
  <2>3. r = byte_call(e, waiting(start, filled(bytes)), b)
    BY <1>1, <1>10
  <2>. HIDE DEF kept, u, Fine
  <2>4. /\ b = 239 => GoesOn(r, utf8_bom_byte1, kept)
        /\ b = 254 => GoesOn(r, utf16_be_bom_byte1, kept)
        /\ b = 255 => GoesOn(r, utf32_or_16_le_bom_byte1, kept)
        /\ b = 0 => GoesOn(r, utf32_or_16_be_bom_byte1, kept)
        /\ b \notin {0, 239, 254, 255} => GivesUp(e, r, start, kept)
    BY <2>2, <2>3, StartCall
  <2>5. /\ b = 239 => Reading(utf8_bom_byte1, u)
        /\ b = 254 => Reading(utf16_be_bom_byte1, u)
        /\ b = 255 => Reading(utf32_or_16_le_bom_byte1, u)
        /\ b = 0 => Reading(utf32_or_16_be_bom_byte1, u)
    BY <1>1, <1>10, GoesOnHere DEF u
  <2>6. /\ utf8_bom_byte1 \in BomStates /\ utf16_be_bom_byte1 \in BomStates
        /\ utf32_or_16_le_bom_byte1 \in BomStates /\ utf32_or_16_be_bom_byte1 \in BomStates
    BY DEF BomStates
  <2>7. CASE b = 239
    BY <1>6, <2>4, <2>5, <2>6, <2>7
  <2>8. CASE b = 254
    BY <1>6, <2>4, <2>5, <2>6, <2>8
  <2>9. CASE b = 255
    BY <1>6, <2>4, <2>5, <2>6, <2>9
  <2>10. CASE b = 0
    BY <1>6, <2>4, <2>5, <2>6, <2>10
  <2>11. CASE b \notin {0, 239, 254, 255}
    <3>1. GivesUp(e, r, s, kept)
      BY <1>10, <2>4, <2>11
    <3>2. s # utf32_or_16_le_bom_byte2
      BY <1>10, BomState
    <3>3. ~ Undecided(u) /\ utf8_selected \notin Marked(u) /\ (Marked(u) = {} \/ Misread(u))
      BY <1>1, <1>10, <2>11, <3>2, GivesUpHere DEF u
    <3>. QED
      BY <1>7, <3>1, <3>3
  <2>. QED
    BY <2>7, <2>8, <2>9, <2>10, <2>11
<1>11. CASE s = utf32_or_16_le_bom_byte2 /\ b # 0
  <2>. DEFINE sel == selection(16, "le")
              buffer == with_byte(filled(bytes), 0, b)
              rest == <<b>>
  <2>1. Found(e, r, state(16, "le", "run", 1), buffer)
    BY <1>1, <1>11, FoundUtf16LE
  <2>2. ~ Undecided(u) /\ selected_for(u) = sel /\ sel \in Selections /\ after_mark(sel, u) = rest
    BY <1>1, <1>11, FindsHere
  <2>3. sel.encoding = 16 /\ sel.endian = "le" /\ width(sel) = 2
    <3>1. sel.encoding = 16 /\ sel.endian = "le"
      BY SelectionsAre
    <3>. QED
      BY <3>1, SelectionFields, <2>2
  <2>4. rest \in Seq(Byte) /\ Len(rest) = 1 /\ rest[1] = b
    OBVIOUS
  <2>5. buffer \in Buffer
    BY <1>2, StillBuffer
  <2>6. buffer[0] = b
    BY DEF with_byte, filled
  <2>. HIDE DEF kept, u, Fine, sel, rest, buffer
  <2>7. Len(rest) % width(sel) = 1
    BY <2>2, <2>3, <2>4, UnitsOfFew
  <2>8. run_state(sel, rest) = state(16, "le", "run", 1)
    BY <2>3, <2>7 DEF run_state
  <2>9. Kept(sel, rest, buffer)
    <3>1. \A i \in 1 .. 1 : buffer[i - 1] = rest[(1 - 1) + i]
      BY <2>4, <2>6
    <3>. QED
      BY <2>4, <2>7, <3>1 DEF Kept
  <2>10. Len(rest) < width(sel)
    BY <2>3, <2>4
  <2>. QED
    BY <1>8, <2>1, <2>2, <2>4, <2>5, <2>8, <2>9, <2>10
<1>12. CASE s # start /\ (s # utf32_or_16_le_bom_byte2 \/ b = 0)
  <2>1. r = IF b = bom_value(s) THEN matched_bom_byte(e, waiting(s, kept))
            ELSE run8_start(e, waiting(s, kept), TRUE)
    BY <1>1, <1>2, <1>12, BomBranch
  <2>2. CASE b # bom_value(s)
    <3>1. s # utf32_or_16_le_bom_byte2
      BY <1>12, <2>2, BomValues
    <3>2. GivesUp(e, r, s, kept)
      BY <2>1, <2>2 DEF GivesUp
    <3>3. ~ Undecided(u) /\ utf8_selected \notin Marked(u) /\ (Marked(u) = {} \/ Misread(u))
      BY <1>1, <1>12, <2>2, <3>1, GivesUpHere
    <3>. HIDE DEF kept, u, Fine
    <3>. QED
      BY <1>7, <3>2, <3>3
  <2>3. CASE b = bom_value(s)
    <3>1. r = matched_bom_byte(e, waiting(s, kept))
      BY <2>1, <2>3
    <3>. HIDE DEF kept
    <3>2. /\ s = utf8_bom_byte2 => r = run8_start(e, waiting(s, kept), FALSE)
          /\ s = utf16_be_bom_byte1 => Found(e, r, state(16, "be", "run", 0), kept)
          /\ s = utf32_be_bom_byte3 => Found(e, r, state(32, "be", "run", 0), kept)
          /\ s = utf32_le_bom_byte3 => Found(e, r, state(32, "le", "run", 0), kept)
          /\ s \notin {utf8_bom_byte2, utf16_be_bom_byte1,
                       utf32_be_bom_byte3, utf32_le_bom_byte3} => GoesOn(r, next_byte(s), kept)
      BY <1>12, <3>1, Matched
    <3>3. /\ s = utf8_bom_byte2 => b = 191
          /\ s = utf16_be_bom_byte1 => b = 255
          /\ s = utf32_be_bom_byte3 => b = 255
          /\ s = utf32_le_bom_byte3 => b = 0
      BY <2>3, BomValues
    <3>. DEFINE Is(sel, rest) == /\ ~ Undecided(u) /\ selected_for(u) = sel
                                 /\ sel \in Selections /\ after_mark(sel, u) = rest
    <3>4. /\ s = utf8_bom_byte2 => Is(selection(8, "be"), <<>>)
          /\ s = utf16_be_bom_byte1 => Is(selection(16, "be"), <<>>)
          /\ s = utf32_be_bom_byte3 => Is(selection(32, "be"), <<>>)
          /\ s = utf32_le_bom_byte3 => Is(selection(32, "le"), <<>>)
      BY <1>1, <3>3, FindsHere
    <3>5. /\ selection(16, "be").encoding = 16 /\ selection(16, "be").endian = "be"
          /\ selection(32, "be").encoding = 32 /\ selection(32, "be").endian = "be"
          /\ selection(32, "le").encoding = 32 /\ selection(32, "le").endian = "le"
      BY SelectionsAre
    <3>6. CASE s = utf8_bom_byte2
      <4>1. r = run8_start(e, waiting(s, kept), FALSE)
        BY <3>2, <3>6
      <4>2. <<>> \in Seq(Byte)
        OBVIOUS
      <4>3. r = Result(running(run_8, kept, fed(8, e, <<>>).coder), fed(8, e, <<>>).out)
        BY <4>1, Run8StartEmpty
      <4>4. RunsOn(e, utf8_selected, <<>>, r.coder, r.out)
        BY <1>4, <4>2, <4>3, RunsUtf8 DEF kept
      <4>5. Is(utf8_selected, <<>>)
        BY <3>4, <3>6 DEF utf8_selected
      <4>. QED
        BY <4>4, <4>5 DEF Converts
    <3>7. CASE s = utf16_be_bom_byte1
      <4>1. Is(selection(16, "be"), <<>>) /\ Found(e, r, state(16, "be", "run", 0), kept)
        BY <3>2, <3>4, <3>7
      <4>. HIDE DEF u, Fine
      <4>. QED
        BY <1>9, <3>5, <4>1
    <3>8. CASE s = utf32_be_bom_byte3
      <4>1. Is(selection(32, "be"), <<>>) /\ Found(e, r, state(32, "be", "run", 0), kept)
        BY <3>2, <3>4, <3>8
      <4>. HIDE DEF u, Fine
      <4>. QED
        BY <1>9, <3>5, <4>1
    <3>9. CASE s = utf32_le_bom_byte3
      <4>1. Is(selection(32, "le"), <<>>) /\ Found(e, r, state(32, "le", "run", 0), kept)
        BY <3>2, <3>4, <3>9
      <4>. HIDE DEF u, Fine
      <4>. QED
        BY <1>9, <3>5, <4>1
    <3>10. CASE s \notin {utf8_bom_byte2, utf16_be_bom_byte1,
                          utf32_be_bom_byte3, utf32_le_bom_byte3}
      <4>1. GoesOn(r, next_byte(s), kept)
        BY <3>2, <3>10
      <4>2. next_byte(s) \in BomStates /\ Reading(next_byte(s), u)
        BY <1>1, <1>12, <2>3, <3>10, GoesOnHere
      <4>. HIDE DEF u, Fine
      <4>. QED
        BY <1>6, <4>1, <4>2
    <3>. QED
      BY <3>6, <3>7, <3>8, <3>9, <3>10
  <2>. QED
    BY <2>2, <2>3
<1>. HIDE DEF Fine
<1>. QED
  BY <1>10, <1>11, <1>12

-----------------------------------------------------------------------------
(***************************************************************************)
(* The steps of a machine that runs, and the end of the stream.            *)
(***************************************************************************)
\* What follows the mark are bytes, and a byte more is one of them.
LEMMA AfterMark ==
  ASSUME NEW s \in Selections, NEW bytes \in Seq(Byte), NEW b \in Byte
  PROVE  /\ after_mark(s, bytes) \in Seq(Byte)
         /\ ~ Undecided(bytes) =>
              after_mark(s, Append(bytes, b)) = Append(after_mark(s, bytes), b)
<1>. DEFINE n == Len(bytes)
            m == Len(Mark(s))
            u == Append(bytes, b)
            tail == SubSeq(bytes, m + 1, n)
            long == SubSeq(u, m + 1, n + 1)
<1>1. bytes \in Seq(Nat) /\ n \in Nat /\ m \in Nat /\ Mark(s) \in Seq(Nat)
  <2>1. Byte \subseteq Nat
    BY ByteRange
  <2>2. bytes \in Seq(Nat)
    BY <2>1, SeqMonotonic
  <2>. QED
    BY <2>2, MarkIsBytes
<1>2. CASE s \notin Marked(bytes)
  <2>1. after_mark(s, bytes) = bytes
    BY <1>2 DEF after_mark
  <2>2. ~ Undecided(bytes) => after_mark(s, u) = u
    BY <1>2, Decided DEF after_mark
  <2>. QED
    BY <2>1, <2>2
<1>3. CASE s \in Marked(bytes)
  <2>1. m <= n
    BY <1>1, <1>3, PrefixIs DEF Marked
  <2>2. after_mark(s, bytes) = tail
    BY <1>3 DEF after_mark
  <2>3. u \in Seq(Byte) /\ Len(u) = n + 1 /\ u[n + 1] = b /\ \A i \in 1 .. n : u[i] = bytes[i]
    BY Longer
  <2>4. ~ Undecided(bytes) => after_mark(s, u) = long
    BY <1>3, <2>3, Decided DEF after_mark
  <2>5. /\ tail \in Seq(Byte) /\ Len(tail) = n - m
        /\ \A i \in 1 .. n - m : tail[i] = bytes[m + i]
    <3>. HIDE DEF m
    <3>. QED
      BY <1>1, <2>1
  <2>6. /\ long \in Seq(Byte) /\ Len(long) = (n + 1) - m
        /\ \A i \in 1 .. (n + 1) - m : long[i] = u[m + i]
    <3>. HIDE DEF m, n, u
    <3>. QED
      BY <1>1, <2>1, <2>3
  <2>. DEFINE k == n - m
  <2>7. k \in Nat /\ (n + 1) - m = k + 1 /\ m + (k + 1) = n + 1
    <3>. HIDE DEF m, n
    <3>. QED
      BY <1>1, <2>1
  <2>8. /\ Append(tail, b) \in Seq(Byte) /\ Len(Append(tail, b)) = k + 1
        /\ Append(tail, b)[k + 1] = b /\ \A i \in 1 .. k : Append(tail, b)[i] = tail[i]
    <3>. HIDE DEF tail
    <3>1. Len(tail) = k
      BY <2>5
    <3>. HIDE DEF k
    <3>. QED
      BY <2>5, <3>1, Longer
  <2>9. \A i \in 1 .. k + 1 : long[i] = Append(tail, b)[i]
    <3>. SUFFICES ASSUME NEW i \in 1 .. k + 1 PROVE long[i] = Append(tail, b)[i]
      OBVIOUS
    <3>1. long[i] = u[m + i]
      BY <2>6, <2>7
    <3>2. CASE i = k + 1
      BY <2>3, <2>7, <2>8, <3>1, <3>2
    <3>3. CASE i # k + 1
      <4>1. i \in 1 .. k /\ m + i \in 1 .. n
        <5>. HIDE DEF m, n
        <5>. QED
          BY <1>1, <2>1, <3>3
      <4>. QED
        BY <2>3, <2>5, <2>8, <3>1, <4>1
    <3>. QED
      BY <3>2, <3>3
  <2>10. long = Append(tail, b)
    <3>1. Len(long) = k + 1
      BY <2>6, <2>7
    <3>. HIDE DEF long, tail, k
    <3>. QED
      BY <2>6, <2>8, <2>9, <3>1, SeqEqual
  <2>. HIDE DEF long, tail
  <2>. QED
    BY <2>2, <2>4, <2>5, <2>10
<1>. QED
  BY <1>2, <1>3

\* A byte more, where the encoding has been selected.
LEMMA ConvertsStep ==
  ASSUME NEW e \in Encodings, NEW bytes \in Seq(Byte), NEW b \in Byte,
         NEW x, NEW out, Converts(e, bytes, x, out),
         NEW r, r = byte_call(e, x, b)
  PROVE  Converts(e, Append(bytes, b), r.coder, out \o r.out)
<1>. DEFINE s == selected_for(bytes)
            u == Append(bytes, b)
            body == after_mark(s, bytes)
<1>1. ~ Undecided(bytes) /\ s \in Selections /\ RunsOn(e, s, body, x, out)
  BY DEF Converts
<1>2. ~ Undecided(u) /\ selected_for(u) = s
  BY <1>1, Decided DEF selected_for
<1>3. body \in Seq(Byte) /\ after_mark(s, u) = Append(body, b)
  BY <1>1, AfterMark
<1>4. RunsOn(e, s, Append(body, b), r.coder, out \o r.out)
  <2>. HIDE DEF s, body
  <2>. QED
    BY <1>1, <1>3, RunningStep
<1>. HIDE DEF s, u, body
<1>5. RunsOn(e, s, after_mark(s, u), r.coder, out \o r.out)
  BY <1>3, <1>4
<1>. QED
  BY <1>1, <1>2, <1>5 DEF Converts, u

\* The end of a stream whose encoding has been selected: the transcoder's end_cp().
LEMMA EndsRunning ==
  ASSUME NEW e \in Encodings, NEW s \in Selections, NEW body \in Seq(Byte),
         NEW x, NEW out, RunsOn(e, s, body, x, out),
         NEW r, r = byte_end_cp(e, x)
  PROVE  HasEnded(e, s, body, r.coder, out \o r.out)
<1>. DEFINE f == s.encoding
            units == units_of(s, body)
            done == fed(f, e, units)
            n == run_state(s, body)
            later == end_cp(f, e, done.coder)
<1>1. PICK buffer \in Buffer : RunsWith(done, s, body, buffer, x, out)
  BY DEF RunsOn
<1>2. x = running(n, buffer, done.coder) /\ out = done.out
  BY <1>1 DEF RunsWith
<1>3. n \in RunStates /\ n.encoding = f
  BY RunStateIs
<1>4. f \in Encodings /\ f # std_byte
  BY SelectionFields DEF Encodings, std_byte
<1>5. fed_all(f, e, units) = then(done, later)
  BY <1>4 DEF fed_all, ended_by_hand, any_end_cp
<1>6. r = Result(running(n, buffer, later.coder), later.out)
  <2>. HIDE DEF n, done, f
  <2>. QED
    BY <1>2, <1>3, EndOfStream
<1>. HIDE DEF n, later, done, f, units
<1>7. r.coder = running(n, buffer, later.coder) /\ r.out = later.out
  BY <1>6, ResultFields
<1>8. then(done, later).coder = later.coder /\ then(done, later).out = done.out \o later.out
  BY ResultFields DEF then
<1>9. RunsWith(then(done, later), s, body, buffer, r.coder, out \o r.out)
  BY <1>2, <1>7, <1>8 DEF RunsWith, n
<1>. QED
  BY <1>1, <1>5, <1>9 DEF HasEnded, f, units

\* What the end of a stream that may go on as a mark is converted as.
as_utf8(bytes) == IF bytes = <<>> THEN <<>> ELSE Append(bytes, 0)

\* The end of such a stream: the bytes that the buffer holds, and one that is not there.
LEMMA EndsWaiting ==
  ASSUME NEW e \in Encodings, NEW bytes \in Seq(Byte), NEW x, Waits(bytes, x, <<>>),
         NEW r, r = byte_end_cp(e, x)
  PROVE  HasEnded(e, utf8_selected, as_utf8(bytes), r.coder, r.out)
<1>1. PICK s \in BomStates : Reading(s, bytes) /\ x = waiting(s, filled(bytes))
  BY DEF Waits
<1>. DEFINE buffer == filled(bytes)
            u == as_utf8(bytes)
<1>2. /\ buffer \in Buffer /\ Len(bytes) = s.byte_no /\ s.byte_no \in 0 .. 3
      /\ pending(s, buffer) = Append(bytes, 0)
  BY <1>1, Filled
<1>3. s # start <=> bytes # <<>>
  BY <1>2, BomState
<1>4. r = run8_start(e, waiting(s, buffer), s # start)
  BY <1>1, EndOfStream
<1>5. u \in Seq(Byte)
  <2>1. 0 \in Byte
    BY ByteRange
  <2>2. <<>> \in Seq(Byte) /\ Append(bytes, 0) \in Seq(Byte)
    BY <2>1
  <2>. QED
    BY <2>2 DEF as_utf8
<1>6. u = IF s # start THEN pending(s, buffer) ELSE <<>>
  BY <1>2, <1>3 DEF as_utf8
<1>7. fed_all(8, e, u) = fed(8, e, u)
  BY EndAfterNull DEF as_utf8
<1>8. r = Result(running(run_8, buffer, fed(8, e, u).coder), fed(8, e, u).out)
  <2>1. CASE s = start
    <3>1. r = run8_start(e, waiting(s, buffer), FALSE)
      BY <1>4, <2>1
    <3>2. u = <<>>
      BY <1>6, <2>1
    <3>. HIDE DEF buffer, u
    <3>3. r = Result(running(run_8, buffer, fed(8, e, u).coder), fed(8, e, u).out)
      BY <3>1, <3>2, Run8StartEmpty
    <3>. QED
      BY <3>3
  <2>2. CASE s # start
    <3>1. r = run8_start(e, waiting(s, buffer), TRUE)
      BY <1>4, <2>2
    <3>2. u = pending(s, buffer)
      BY <1>6, <2>2
    <3>. HIDE DEF buffer, u
    <3>3. r = Result(running(run_8, buffer, fed(8, e, u).coder), fed(8, e, u).out)
      BY <1>5, <3>1, <3>2, Run8StartPending
    <3>. QED
      BY <3>3
  <2>. QED
    BY <2>1, <2>2
<1>. HIDE DEF u, buffer
<1>9. HasEnded(e, utf8_selected, u, r.coder, r.out)
  BY <1>2, <1>5, <1>7, <1>8, RunsUtf8
<1>. QED
  BY <1>9 DEF u

\* Nothing, and what is then written.
LEMMA NothingBefore ==
  ASSUME NEW e \in Encodings, NEW s \in Selections, NEW body \in Seq(Byte), NEW x, NEW out,
         RunsOn(e, s, body, x, out) \/ HasEnded(e, s, body, x, out)
  PROVE  <<>> \o out = out
<1>. DEFINE f == s.encoding
            units == units_of(s, body)
<1>1. f \in Encodings /\ units \in Seq(CodeUnit(f))
  BY SelectionFields, UnitsOfType
<1>2. Accounted(f, e, fed(f, e, units)) /\ Accounted(f, e, fed_all(f, e, units))
  <2>. HIDE DEF f, units
  <2>. QED
    BY <1>1, FedAccounted
<1>3. out = fed(f, e, units).out \/ out = fed_all(f, e, units).out
  BY DEF RunsOn, HasEnded, RunsWith
<1>4. out \in Seq(EncodedUnit(e))
  <2>. HIDE DEF f, units
  <2>. QED
    BY <1>2, <1>3 DEF Accounted
<1>. QED
  BY <1>4

\* A stream that has not begun.
LEMMA InitiallyWaits ==
  Waits(<<>>, byte_transcoder, <<>>)
<1>1. start \in BomStates /\ start.byte_no = 0
  <2>1. start \in BomStates
    BY DEF BomStates
  <2>. QED
    BY <2>1, BomState
<1>2. Reading(start, <<>>)
  BY <1>1 DEF Reading
<1>3. <<>> \in Seq(Byte)
  OBVIOUS
<1>4. Undecided(<<>>)
  BY <1>1, <1>2, <1>3, StillUndecided
<1>5. filled(<<>>) = [n \in 0 .. 3 |-> 0]
  BY DEF filled
<1>6. byte_transcoder = waiting(start, [n \in 0 .. 3 |-> 0])
  BY DEF byte_transcoder, waiting
<1>. QED
  BY <1>1, <1>2, <1>4, <1>5, <1>6 DEF Waits
=============================================================================
