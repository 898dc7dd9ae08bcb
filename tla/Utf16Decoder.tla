---------------------------- MODULE Utf16Decoder -----------------------------
(***************************************************************************)
(* One t16_32 object and the program that drives it: the program calls     *)
(* operator() with any code unit and end_cp(), in any order.               *)
(***************************************************************************)
EXTENDS Utf16

CONSTANT Units              \* the code units the program may pass to operator()
ASSUME UnitsAssumption == Units \subseteq CodeUnit16

VARIABLES
  coder,        \* the transcoder object
  given,        \* the unit the last call passed, if it was to operator()
  out           \* the UTF-32 code units written by the last call

vars == <<coder, given, out>>

Init ==
  /\ \E wf \in BOOLEAN : coder = t16_32(wf)
  /\ given = <<>> /\ out = <<>>

Returns(result) == coder' = result.coder /\ out' = result.out

Call(u) == given' = <<u>> /\ Returns(t16_32_call(coder, u))

EndCp == given' = <<>> /\ Returns(t16_32_end_cp(coder))

Next ==
  \/ \E u \in Units : Call(u)
  \/ EndCp

Spec == Init /\ [][Next]_vars

-----------------------------------------------------------------------------
(***************************************************************************)
(* The fields hold values of their bit-fields (adjusted_high fits in ten   *)
(* bits), and one call writes at most two UTF-32 code units: the size of   *)
(* the buffers that the triangulator and the view give it.                 *)
(***************************************************************************)
TypeOK ==
  /\ coder \in T16_32
  /\ out \in Seq(CodePoint) /\ Len(out) <= 2

(***************************************************************************)
(* What is written is a Unicode scalar value: an unpaired surrogate never  *)
(* gets through, and a pair never combines to something past U+10FFFF.     *)
(***************************************************************************)
OutIsScalar == \A i \in DOMAIN out : IsScalar(out[i])

(***************************************************************************)
(* high_ is not left behind: once its surrogate has been combined or       *)
(* replaced, no later low surrogate can be combined with it.               *)
(***************************************************************************)
NoStaleHigh == ~ coder.has_high => coder.high = 0

-----------------------------------------------------------------------------
\* The unit that waits is recovered from high_.
Pending == IF coder.has_high THEN <<first_high_surrogate + coder.high>> ELSE <<>>

Stream == INSTANCE Utf16Stream WITH
            pending     <- Pending,
            well_formed <- coder.well_formed

(***************************************************************************)
(* Every call of the decoder is a step Utf16Stream allows: it accepts the  *)
(* encodings t32_16 writes and no others, replaces the rest, and never     *)
(* drops a well-formed unit that follows an unpaired surrogate.            *)
(***************************************************************************)
StreamSpec == Stream!Spec
=============================================================================
