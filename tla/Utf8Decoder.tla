----------------------------- MODULE Utf8Decoder -----------------------------
(***************************************************************************)
(* One t8_32 object and the program that drives it: the program calls      *)
(* operator() with any byte and end_cp(), in any order.                    *)
(***************************************************************************)
EXTENDS Utf8

CONSTANT Bytes              \* the bytes the program may pass to operator()
ASSUME BytesAssumption == Bytes \subseteq Byte

VARIABLES
  coder,        \* the transcoder object
  given,        \* the byte the last call passed, if it was to operator()
  out           \* the UTF-32 code units written by the last call

vars == <<coder, given, out>>

Init ==
  /\ \E wf \in BOOLEAN : coder = t8_32(wf)
  /\ given = <<>> /\ out = <<>>

Returns(result) == coder' = result.coder /\ out' = result.out

Call(b) == given' = <<b>> /\ Returns(t8_32_call(coder, b))

EndCp == given' = <<>> /\ Returns(t8_32_end_cp(coder))

Next ==
  \/ \E b \in Bytes : Call(b)
  \/ EndCp

Spec == Init /\ [][Next]_vars

\* A program that never stops feeding the transcoder.
FairSpec == Spec /\ WF_vars(\E b \in Bytes : Call(b))

-----------------------------------------------------------------------------
(***************************************************************************)
(* The fields hold values of their bit-fields, and a call of operator() or *)
(* end_cp() writes at most one UTF-32 code unit.                           *)
(***************************************************************************)
TypeOK ==
  /\ coder \in T8_32
  /\ out \in Seq(CodePoint) /\ Len(out) <= 1

(***************************************************************************)
(* What is written is a Unicode scalar value: no input, however malformed, *)
(* makes the decoder produce half of a surrogate pair or a value past the  *)
(* last code point.                                                        *)
(***************************************************************************)
OutIsScalar == \A i \in DOMAIN out : IsScalar(out[i])

(***************************************************************************)
(* The 21 bits of code_point_ are enough: no shift of a code point being   *)
(* assembled, nor the one that follows end_cp(), loses a bit.              *)
(***************************************************************************)
NothingTruncated ==
  coder.state # accept => 64 * coder.code_point + 63 < code_point_limit

(***************************************************************************)
(* The value assembled so far is one that the bytes consumed by the state  *)
(* can have: no overlong form, no surrogate and nothing past U+10FFFF can  *)
(* come of it.  It is the inductive invariant behind the two above.        *)
(***************************************************************************)
PartialValue == MayHold(coder.state, coder.code_point)

(***************************************************************************)
(* A program that never stops feeding bytes never stops receiving code     *)
(* units: no input keeps the automaton away from accept and reject.        *)
(***************************************************************************)
EndlessOutput == []<>(out # <<>>)

-----------------------------------------------------------------------------
(***************************************************************************)
(* The decoder implements Utf8Stream: the bytes that wait are recovered    *)
(* from the state and the value assembled so far.                          *)
(***************************************************************************)
tail(cp) == \h80 + (cp % 64)

Pending ==
  LET cp == coder.code_point
  IN  CASE coder.state = tail1 /\ cp < 32    -> <<\hC0 + cp>>
        [] coder.state = tail1 /\ cp \in 32 .. 1023
                                             -> <<\hE0 + cp \div 64, tail(cp)>>
        [] coder.state = tail1 /\ cp > 1023  -> <<\hF0 + cp \div 4096, tail(cp \div 64), tail(cp)>>
        [] coder.state = tail2 /\ cp < 16    -> <<\hE0 + cp>>
        [] coder.state = tail2 /\ cp >= 16   -> <<\hF0 + cp \div 64, tail(cp)>>
        [] coder.state = afterE0             -> <<\hE0>>
        [] coder.state = afterED             -> <<\hED>>
        [] coder.state \in {afterF0, tail3, afterF4} -> <<\hF0 + cp>>
        [] OTHER                             -> <<>>

Stream == INSTANCE Utf8Stream WITH
            pending     <- Pending,
            cut         <- coder.state = reject,
            well_formed <- coder.well_formed

(***************************************************************************)
(* Every call of the table-driven decoder is a step Utf8Stream allows: it  *)
(* accepts the encodings t32_8 writes and no others, and replaces the rest.*)
(***************************************************************************)
StreamSpec == Stream!Spec
=============================================================================
