------------------------- MODULE Utf16Decoder_proofs -------------------------
(***************************************************************************)
(* Proofs about the UTF-16 decoder, for every set of code units and every  *)
(* sequence of calls: its invariants, and that it implements Utf16Stream.  *)
(***************************************************************************)
EXTENDS Utf16Decoder, Transcoders_proofs, SequenceTheorems

(***************************************************************************)
(* The inductive invariant is the conjunction of the three that are        *)
(* checked: what a pair combines to depends on the range of high_.         *)
(***************************************************************************)
IInv == TypeOK /\ OutIsScalar /\ NoStaleHigh

\* A constructed object satisfies the invariant.
LEMMA InitIInv == Init => IInv
<1>. SUFFICES ASSUME Init PROVE IInv
  OBVIOUS
<1>1. PICK wf \in BOOLEAN : coder = t16_32(wf)
  BY DEF Init
<1>2. 0 \in HighField
  BY HighRange, SMT
<1>3. coder \in T16_32 /\ coder.high = 0
  BY <1>1, <1>2 DEF t16_32, T16_32
<1>4. out = <<>>
  BY DEF Init
<1>. QED
  BY <1>3, <1>4, Written, ReplacementIsScalar DEF IInv, TypeOK, OutIsScalar, NoStaleHigh

\* What operator() does when no high surrogate is waiting.
LEMMA CallWithoutHigh ==
  ASSUME coder \in T16_32, ~ coder.has_high, NEW u \in Int, Call(u)
  PROVE  \/ /\ is_high_surrogate(u)
            /\ coder' = holding(coder, u) /\ out' = <<>>
         \/ /\ is_low_surrogate(u)
            /\ coder' = ill_formed(coder) /\ out' = <<replacement_char>>
         \/ /\ ~ is_surrogate(u)
            /\ coder' = coder /\ out' = <<u>>
  BY WithoutHigh DEF Call, Returns, Result

\* What it does after a high surrogate.
LEMMA CallWithHigh ==
  ASSUME coder \in T16_32, coder.has_high, NEW u \in Int, Call(u)
  PROVE  \/ /\ is_low_surrogate(u)
            /\ coder' = released(coder) /\ out' = <<combined(coder.high, u)>>
         \/ /\ is_high_surrogate(u)
            /\ coder' = ill_formed(holding(coder, u)) /\ out' = <<replacement_char>>
         \/ /\ ~ is_surrogate(u)
            /\ coder' = ill_formed(released(coder)) /\ out' = <<replacement_char, u>>
  BY WithHigh DEF Call, Returns, Result

\* operator() preserves the invariant.
LEMMA CallIInv ==
  ASSUME IInv, NEW u \in CodeUnit16, Call(u)
  PROVE  IInv'
<1>1. coder \in T16_32 /\ u \in Int
  BY UnitIsScalar DEF IInv, TypeOK
<1>2. IsScalar(replacement_char)
  BY ReplacementIsScalar
<1>3. CASE ~ coder.has_high
  <2>1. CASE is_high_surrogate(u) /\ coder' = holding(coder, u) /\ out' = <<>>
    BY <1>1, <1>2, <2>1, Holding, Written DEF IInv, TypeOK, OutIsScalar, NoStaleHigh
  <2>2. CASE coder' = ill_formed(coder) /\ out' = <<replacement_char>>
    BY <1>1, <1>2, <2>2, IllFormed, Written DEF IInv, TypeOK, OutIsScalar, NoStaleHigh
  <2>3. CASE ~ is_surrogate(u) /\ coder' = coder /\ out' = <<u>>
    BY <2>3, UnitIsScalar, Written DEF IInv, TypeOK, OutIsScalar, NoStaleHigh
  <2>. QED
    BY <1>1, <1>3, <2>1, <2>2, <2>3, CallWithoutHigh
<1>4. CASE coder.has_high
  <2>1. CASE /\ is_low_surrogate(u)
             /\ coder' = released(coder) /\ out' = <<combined(coder.high, u)>>
    <3>1. IsScalar(combined(coder.high, u))
      BY <1>1, <2>1, Fields, CombinedRange, ScalarRange, SMT
    <3>. QED
      BY <1>1, <2>1, <3>1, Released, Written DEF IInv, TypeOK, OutIsScalar, NoStaleHigh
  <2>2. CASE /\ is_high_surrogate(u)
             /\ coder' = ill_formed(holding(coder, u)) /\ out' = <<replacement_char>>
    <3>1. holding(coder, u) \in T16_32 /\ holding(coder, u).has_high
      BY <1>1, <2>2, Holding
    <3>2. coder' \in T16_32 /\ coder'.has_high
      BY <2>2, <3>1, IllFormed
    <3>. QED
      BY <1>2, <2>2, <3>2, Written DEF IInv, TypeOK, OutIsScalar, NoStaleHigh
  <2>3. CASE /\ ~ is_surrogate(u)
             /\ coder' = ill_formed(released(coder)) /\ out' = <<replacement_char, u>>
    BY <1>1, <1>2, <2>3, UnitIsScalar, Released, IllFormed, Written
       DEF IInv, TypeOK, OutIsScalar, NoStaleHigh
  <2>. QED
    BY <1>1, <1>4, <2>1, <2>2, <2>3, CallWithHigh
<1>. QED
  BY <1>3, <1>4

\* What end_cp() does.
LEMMA EndCpOutcome ==
  ASSUME EndCp
  PROVE  \/ /\ coder.has_high
            /\ coder' = ill_formed(released(coder)) /\ out' = <<replacement_char>>
         \/ ~ coder.has_high /\ coder' = coder /\ out' = <<>>
  BY DEF EndCp, Returns, t16_32_end_cp, Result

\* end_cp() preserves the invariant.
LEMMA EndCpIInv ==
  ASSUME IInv, EndCp
  PROVE  IInv'
<1>1. coder \in T16_32
  BY DEF IInv, TypeOK
<1>2. CASE coder' = ill_formed(released(coder)) /\ out' = <<replacement_char>>
  BY <1>1, <1>2, ReplacementIsScalar, Released, IllFormed, Written
     DEF IInv, TypeOK, OutIsScalar, NoStaleHigh
<1>3. CASE coder' = coder /\ out' = <<>>
  BY <1>3, ReplacementIsScalar, Written DEF IInv, TypeOK, OutIsScalar, NoStaleHigh
<1>. QED
  BY <1>2, <1>3, EndCpOutcome

(***************************************************************************)
(* For every set of code units the program may send, in every order and    *)
(* with any calls of end_cp() between them, the bit-fields hold values of  *)
(* their widths, what is written are scalar values, at most two of them,   *)
(* and no high surrogate is left behind.                                   *)
(***************************************************************************)
THEOREM Invariance == Spec => []IInv
<1>1. IInv /\ [Next]_vars => IInv'
  <2>. SUFFICES ASSUME IInv, [Next]_vars PROVE IInv'
    OBVIOUS
  <2>1. ASSUME NEW u \in Units, Call(u) PROVE IInv'
    BY <2>1, CallIInv, UnitsAssumption
  <2>2. CASE EndCp
    BY <2>2, EndCpIInv
  <2>3. CASE UNCHANGED vars
    BY <2>3 DEF vars, IInv, TypeOK, OutIsScalar, NoStaleHigh
  <2>. QED
    BY <2>1, <2>2, <2>3 DEF Next
<1>. QED
  BY <1>1, InitIInv, PTL DEF Spec

\* Type correctness of the decoder (t16_32's bit-fields, two units a call).
THEOREM TypeCorrect == Spec => []TypeOK
  BY Invariance, PTL DEF IInv

\* Only Unicode scalar values are ever written.
THEOREM WritesScalars == Spec => []OutIsScalar
  BY Invariance, PTL DEF IInv

\* A high surrogate that has been used or replaced is forgotten.
THEOREM HighForgotten == Spec => []NoStaleHigh
  BY Invariance, PTL DEF IInv

-----------------------------------------------------------------------------
(***************************************************************************)
(* The refinement.  First what Utf16Stream's operators say of one unit and *)
(* of two.                                                                 *)
(***************************************************************************)
\* The vocabulary of the instance is that of the decoder.
LEMMA SameScalars ==
  ASSUME NEW n
  PROVE  Stream!IsScalar(n) <=> IsScalar(n)
<1>1. Stream!max_code_point = max_code_point
  BY SMT DEF Stream!max_code_point, max_code_point
<1>2. /\ Stream!first_high_surrogate = first_high_surrogate
      /\ Stream!last_high_surrogate = last_high_surrogate
      /\ Stream!first_low_surrogate = first_low_surrogate
      /\ Stream!last_low_surrogate = last_low_surrogate
  BY SMT DEF Stream!first_high_surrogate, first_high_surrogate, Stream!last_high_surrogate,
     last_high_surrogate, Stream!first_low_surrogate, first_low_surrogate,
     Stream!last_low_surrogate, last_low_surrogate
<1>. QED
  BY <1>1, <1>2, Zenon DEF Stream!IsScalar, IsScalar, Stream!CodePoint, CodePoint,
     Stream!is_surrogate, is_surrogate, Stream!is_high_surrogate, is_high_surrogate,
     Stream!is_low_surrogate, is_low_surrogate

\* One unit is an encoding unless it is a surrogate.
LEMMA SingleEncoding ==
  ASSUME NEW u \in CodeUnit16
  PROVE  /\ Stream!bits(<<u>>) = u
         /\ Stream!IsEncoding(<<u>>) <=> ~ is_surrogate(u)
<1>1. Stream!bits(<<u>>) = u
  BY DEF Stream!bits
<1>2. Stream!utf16(u) = <<u>>
  BY UnitRange, SMT DEF Stream!utf16
<1>. QED
  BY <1>1, <1>2, SameScalars, UnitIsScalar DEF Stream!IsEncoding

\* Two are one if they are a high and a low surrogate.
LEMMA PairEncoding ==
  ASSUME NEW h \in CodeUnit16, NEW l \in CodeUnit16
  PROVE  /\ Stream!bits(<<h, l>>) = 1024 * (h - 55296) + (l - 56320) + 65536
         /\ Stream!IsEncoding(<<h, l>>) <=> is_high_surrogate(h) /\ is_low_surrogate(l)
<1>. DEFINE cp == 1024 * (h - 55296) + (l - 56320) + 65536
<1>1. Stream!bits(<<h, l>>) = cp
  BY SMT DEF Stream!bits, Stream!first_high_surrogate, Stream!first_low_surrogate
<1>2. /\ h \in Int /\ 0 <= h /\ h <= 65535
      /\ l \in Int /\ 0 <= l /\ l <= 65535
      /\ cp \in Int
  BY UnitRange, SMT
<1>3. Stream!utf16(cp) = IF cp <= 65535 THEN <<cp>>
                         ELSE <<55232 + cp \div 1024, 56320 + (cp % 1024)>>
  BY <1>2, SMT DEF Stream!utf16, Stream!first_high_surrogate, Stream!first_low_surrogate
<1>4. Stream!IsEncoding(<<h, l>>) <=> IsScalar(cp) /\ Stream!utf16(cp) = <<h, l>>
  BY <1>1, SameScalars DEF Stream!IsEncoding
<1>5. Stream!utf16(cp) = <<h, l>> <=>
        cp > 65535 /\ h = 55232 + cp \div 1024 /\ l = 56320 + (cp % 1024)
  BY <1>2, <1>3, SMT
<1>6. ASSUME is_high_surrogate(h), is_low_surrogate(l)
      PROVE  IsScalar(cp) /\ cp > 65535 /\ h = 55232 + cp \div 1024 /\ l = 56320 + (cp % 1024)
  BY <1>2, <1>6, SurrogateRange, ScalarRange, SMT
<1>7. ASSUME IsScalar(cp), cp > 65535, h = 55232 + cp \div 1024, l = 56320 + (cp % 1024)
      PROVE  is_high_surrogate(h) /\ is_low_surrogate(l)
  BY <1>2, <1>7, SurrogateRange, ScalarRange, SMT
<1>. QED
  BY <1>1, <1>4, <1>5, <1>6, <1>7

\* A unit appended to another.
LEMMA AppendSecond ==
  ASSUME NEW S, NEW a \in S, NEW b \in S
  PROVE  Append(<<a>>, b) = <<a, b>>
<1>. DEFINE s == Append(<<a>>, b)
            t == <<a, b>>
<1>1. s \in Seq(S) /\ t \in Seq(S)
  OBVIOUS
<1>2. Len(s) = 2 /\ Len(t) = 2
  OBVIOUS
<1>3. s[1] = a /\ s[2] = b /\ t[1] = a /\ t[2] = b
  BY SMT
<1>. HIDE DEF s, t
<1>4. \A i \in 1 .. Len(s) : s[i] = t[i]
  BY <1>2, <1>3, SMT
<1>5. s = t
  BY <1>1, <1>2, <1>4, SeqEqual
<1>. QED
  BY <1>5 DEF s, t

\* One unit is the beginning of an encoding if it is a high surrogate.
LEMMA SinglePrefix ==
  ASSUME NEW u \in CodeUnit16
  PROVE  Stream!IsPrefixOfEncoding(<<u>>) <=> is_high_surrogate(u)
<1>1. first_low_surrogate \in CodeUnit16 /\ is_low_surrogate(first_low_surrogate)
  <2>1. first_low_surrogate = 56320
    BY SMT DEF first_low_surrogate
  <2>. QED
    BY <2>1, UnitRange, SurrogateRange, SMT
<1>2. Stream!first_low_surrogate = first_low_surrogate
  BY SMT DEF Stream!first_low_surrogate, first_low_surrogate
<1>3. Append(<<u>>, Stream!first_low_surrogate) = <<u, first_low_surrogate>>
  BY <1>1, <1>2, AppendSecond
<1>4. Len(<<u>>) = 1
  BY SMT
<1>5. Stream!IsEncoding(<<u, first_low_surrogate>>) <=> is_high_surrogate(u)
  BY <1>1, PairEncoding
<1>6. Stream!IsEncoding(Append(<<u>>, Stream!first_low_surrogate)) <=> is_high_surrogate(u)
  BY <1>3, <1>5
<1>. QED
  BY <1>4, <1>6, Zenon DEF Stream!IsPrefixOfEncoding

\* The unit that is recovered from high_.
LEMMA PendingUnit ==
  ASSUME NEW t \in T16_32
  PROVE  /\ first_high_surrogate + t.high \in CodeUnit16
         /\ first_high_surrogate + t.high = 55296 + t.high
         /\ is_high_surrogate(first_high_surrogate + t.high)
  BY Fields, UnitRange, SurrogateRange, SMT DEF first_high_surrogate

\* A call that finds no high surrogate waiting is a step of Utf16Stream.
LEMMA CallWithoutHighRefines ==
  ASSUME coder \in T16_32, ~ coder.has_high, NEW u \in Units, u \in CodeUnit16, Call(u)
  PROVE  Stream!Next
<1>1. Pending = <<>> /\ Append(Pending, u) = <<u>> /\ u \in Int
  BY UnitIsScalar, SMT DEF Pending
<1>2. given' = <<u>>
  BY DEF Call
<1>3. CASE is_high_surrogate(u) /\ coder' = holding(coder, u) /\ out' = <<>>
  <2>1. coder'.has_high /\ coder'.high = u - 55296 /\ coder'.well_formed = coder.well_formed
    BY <1>1, <1>3, Holding
  <2>2. Pending' = <<u>>
    <3>1. first_high_surrogate + coder'.high = u
      BY <1>1, <2>1, SMT DEF first_high_surrogate
    <3>. QED
      BY <2>1, <3>1 DEF Pending
  <2>3. Stream!Extend(u)
    BY <1>1, <1>2, <1>3, <2>1, <2>2, SinglePrefix DEF Stream!Extend
  <2>. QED
    BY <2>3 DEF Stream!Next
<1>4. CASE is_low_surrogate(u) /\ coder' = ill_formed(coder) /\ out' = <<replacement_char>>
  <2>1. ~ coder'.has_high /\ coder'.well_formed = FALSE
    BY <1>4, IllFormed
  <2>2. Pending' = <<>>
    BY <2>1 DEF Pending
  <2>3. is_surrogate(u) /\ ~ is_high_surrogate(u)
    BY <1>1, <1>4, SurrogateRange, SMT DEF is_surrogate
  <2>4. Stream!replacement_char = replacement_char
    BY SMT DEF Stream!replacement_char, replacement_char
  <2>5. Stream!Replace(u)
    BY <1>1, <1>2, <1>4, <2>1, <2>2, <2>3, <2>4, SinglePrefix, SingleEncoding, Zenon
       DEF Stream!Replace
  <2>. QED
    BY <2>5 DEF Stream!Next
<1>5. CASE ~ is_surrogate(u) /\ coder' = coder /\ out' = <<u>>
  <2>1. Pending' = <<>> /\ coder'.well_formed = coder.well_formed
    BY <1>5 DEF Pending
  <2>2. Stream!Complete(u)
    BY <1>1, <1>2, <1>5, <2>1, SingleEncoding, Zenon DEF Stream!Complete
  <2>. QED
    BY <2>2 DEF Stream!Next
<1>. QED
  BY <1>1, <1>3, <1>4, <1>5, CallWithoutHigh

\* So is one that finds a high surrogate.
LEMMA CallWithHighRefines ==
  ASSUME coder \in T16_32, coder.has_high, NEW u \in Units, u \in CodeUnit16, Call(u)
  PROVE  Stream!Next
<1>. DEFINE h == first_high_surrogate + coder.high
<1>1. h \in CodeUnit16 /\ is_high_surrogate(h) /\ u \in Int
  BY PendingUnit, UnitIsScalar
<1>2. Pending = <<h>> /\ Append(Pending, u) = <<h, u>> /\ Pending # <<>>
  <2>1. Pending = <<h>>
    BY DEF Pending
  <2>2. <<h>> # <<>>
    BY SMT
  <2>. HIDE DEF h
  <2>. QED
    BY <1>1, <2>1, <2>2, AppendSecond
<1>8. Stream!IsEncoding(Append(Pending, u)) <=> is_low_surrogate(u)
  <2>. HIDE DEF h
  <2>1. Stream!IsEncoding(<<h, u>>) <=> is_low_surrogate(u)
    BY <1>1, PairEncoding
  <2>. QED
    BY <1>2, <2>1
<1>3. given' = <<u>>
  BY DEF Call
<1>4. Stream!replacement_char = replacement_char
  BY SMT DEF Stream!replacement_char, replacement_char
<1>5. CASE /\ is_low_surrogate(u)
           /\ coder' = released(coder) /\ out' = <<combined(coder.high, u)>>
  <2>1. ~ coder'.has_high /\ coder'.well_formed = coder.well_formed
    BY <1>5, Released
  <2>2. Pending' = <<>>
    BY <2>1 DEF Pending
  <2>3. Stream!bits(<<h, u>>) = combined(coder.high, u)
    <3>1. h = 55296 + coder.high
      BY PendingUnit
    <3>. QED
      BY <1>1, <1>5, <3>1, PairEncoding, CombinedRange, Fields, SMT
  <2>. HIDE DEF h
  <2>4. Stream!Complete(u)
    BY <1>2, <1>3, <1>5, <1>8, <2>1, <2>2, <2>3 DEF Stream!Complete
  <2>. QED
    BY <2>4 DEF Stream!Next
<1>6. CASE /\ is_high_surrogate(u)
           /\ coder' = ill_formed(holding(coder, u)) /\ out' = <<replacement_char>>
  <2>1. coder'.has_high /\ coder'.high = u - 55296 /\ coder'.well_formed = FALSE
    <3>1. /\ holding(coder, u) \in T16_32
          /\ holding(coder, u).has_high
          /\ holding(coder, u).high = u - 55296
      BY <1>1, <1>6, Holding
    <3>. QED
      BY <1>6, <3>1, IllFormed
  <2>2. Pending' = <<u>>
    <3>1. first_high_surrogate + coder'.high = u
      BY <1>1, <2>1, SMT DEF first_high_surrogate
    <3>. QED
      BY <2>1, <3>1 DEF Pending
  <2>3. ~ is_low_surrogate(u)
    BY <1>1, <1>6, SurrogateRange, SMT
  <2>4. Stream!ReplacePending(u)
    BY <1>2, <1>3, <1>4, <1>6, <1>8, <2>1, <2>2, <2>3, SinglePrefix DEF Stream!ReplacePending
  <2>. QED
    BY <2>4 DEF Stream!Next
<1>7. CASE /\ ~ is_surrogate(u)
           /\ coder' = ill_formed(released(coder)) /\ out' = <<replacement_char, u>>
  <2>1. ~ coder'.has_high /\ coder'.well_formed = FALSE
    <3>1. released(coder) \in T16_32 /\ ~ released(coder).has_high
      BY Released
    <3>. QED
      BY <1>7, <3>1, IllFormed
  <2>2. Pending' = <<>>
    BY <2>1 DEF Pending
  <2>3. ~ is_low_surrogate(u)
    BY <1>7 DEF is_surrogate
  <2>4. Stream!ReplacePending(u)
    BY <1>2, <1>3, <1>4, <1>7, <1>8, <2>1, <2>2, <2>3, SingleEncoding DEF Stream!ReplacePending
  <2>. QED
    BY <2>4 DEF Stream!Next
<1>. QED
  BY <1>1, <1>5, <1>6, <1>7, CallWithHigh

\* And so is end_cp().
LEMMA EndCpRefines ==
  ASSUME coder \in T16_32, EndCp
  PROVE  Stream!Next
<1>1. given' = <<>>
  BY DEF EndCp
<1>2. Stream!replacement_char = replacement_char
  BY SMT DEF Stream!replacement_char, replacement_char
<1>3. CASE /\ coder.has_high
           /\ coder' = ill_formed(released(coder)) /\ out' = <<replacement_char>>
  <2>1. ~ coder'.has_high /\ coder'.well_formed = FALSE
    <3>1. released(coder) \in T16_32 /\ ~ released(coder).has_high
      BY Released
    <3>. QED
      BY <1>3, <3>1, IllFormed
  <2>2. Pending # <<>>
    BY <1>3, SMT DEF Pending
  <2>3. Pending' = <<>>
    BY <2>1 DEF Pending
  <2>. QED
    BY <1>1, <1>2, <1>3, <2>1, <2>2, <2>3 DEF Stream!EndCut, Stream!Next
<1>4. CASE ~ coder.has_high /\ coder' = coder /\ out' = <<>>
  <2>1. Pending = <<>> /\ Pending' = <<>>
    BY <1>4 DEF Pending
  <2>. QED
    BY <1>1, <1>4, <2>1 DEF Stream!End, Stream!Next
<1>. QED
  BY <1>3, <1>4, EndCpOutcome

(***************************************************************************)
(* For every set of code units and every sequence of calls the decoder     *)
(* implements Utf16Stream: it accepts the pairs of surrogates t32_16       *)
(* writes and no others, and replaces, without dropping the unit that      *)
(* follows, every surrogate that is not of a pair.                         *)
(***************************************************************************)
THEOREM ImplementsStream == Spec => StreamSpec
<1>1. Init => Stream!Init
  <2>. SUFFICES ASSUME Init PROVE Stream!Init
    OBVIOUS
  <2>1. PICK wf \in BOOLEAN : coder = t16_32(wf)
    BY DEF Init
  <2>2. ~ coder.has_high /\ coder.well_formed \in BOOLEAN
    BY <2>1 DEF t16_32
  <2>. QED
    BY <2>2 DEF Init, Stream!Init, Pending
<1>2. IInv /\ [Next]_vars => [Stream!Next]_Stream!vars
  <2>. SUFFICES ASSUME IInv, [Next]_vars PROVE [Stream!Next]_Stream!vars
    OBVIOUS
  <2>1. coder \in T16_32
    BY DEF IInv, TypeOK
  <2>2. ASSUME NEW u \in Units, Call(u) PROVE Stream!Next
    BY <2>1, <2>2, UnitsAssumption, CallWithHighRefines, CallWithoutHighRefines
  <2>3. CASE EndCp
    BY <2>1, <2>3, EndCpRefines
  <2>4. CASE UNCHANGED vars
    BY <2>4 DEF vars, Stream!vars, Pending
  <2>. QED
    BY <2>2, <2>3, <2>4 DEF Next
<1>. QED
  BY <1>1, <1>2, Invariance, PTL DEF Spec, StreamSpec, Stream!Spec
=============================================================================
