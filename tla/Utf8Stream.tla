----------------------------- MODULE Utf8Stream ------------------------------
(***************************************************************************)
(* What a UTF-8 to UTF-32 transcoder promises, without a table or states:  *)
(* the bytes that wait are a proper prefix of the UTF-8 encoding of some   *)
(* scalar value; the byte that completes an encoding yields its scalar     *)
(* value; a byte that can neither complete nor extend what waits yields    *)
(* U+FFFD, is dropped with what waited, and marks the input ill formed.    *)
(* "The encoding" is what the encoder of the same library (t32_8) writes.  *)
(***************************************************************************)
EXTENDS Utf32

CONSTANT Bytes              \* the bytes that may be received

VARIABLES
  pending,      \* the bytes received of an incomplete encoding
  cut,          \* whether end_cp() ended the input within an encoding
  well_formed,
  given,        \* the byte received last, <<>> when the input was ended
  out           \* the UTF-32 code units written by the last call

vars == <<pending, cut, well_formed, given, out>>

\* The bits that a sequence of one to four bytes carries as UTF-8.
bits(s) ==
  CASE Len(s) = 1 -> s[1]
    [] Len(s) = 2 -> 64 * (s[1] - \hC0) + (s[2] - \h80)
    [] Len(s) = 3 -> 4096 * (s[1] - \hE0) + 64 * (s[2] - \h80) + (s[3] - \h80)
    [] OTHER      -> 262144 * (s[1] - \hF0) + 4096 * (s[2] - \h80)
                       + 64 * (s[3] - \h80) + (s[4] - \h80)

\* s is the encoding of a scalar value.
IsEncoding(s) == IsScalar(bits(s)) /\ utf8(bits(s)) = s

(***************************************************************************)
(* s is a proper prefix of the encoding of a scalar value.  The code       *)
(* points that s begins form an interval, and the ones that are not        *)
(* scalar values, or have a shorter form, lie at one end of it: it is      *)
(* enough to try the lowest and the highest continuation.                  *)
(***************************************************************************)
Continuations == UNION {[1 .. n -> {\h80, \hBF}] : n \in 1 .. 3}
IsPrefixOfEncoding(s) ==
  \E more \in Continuations : Len(s) + Len(more) <= 4 /\ IsEncoding(s \o more)

Init ==
  /\ pending = <<>>
  /\ cut = FALSE
  /\ well_formed \in BOOLEAN
  /\ given = <<>> /\ out = <<>>

Complete(b) ==
  /\ given' = <<b>>
  /\ ~ cut
  /\ IsEncoding(Append(pending, b))
  /\ out' = <<bits(Append(pending, b))>>
  /\ pending' = <<>>
  /\ UNCHANGED <<cut, well_formed>>

Extend(b) ==
  /\ given' = <<b>>
  /\ ~ cut
  /\ IsPrefixOfEncoding(Append(pending, b))
  /\ out' = <<>>
  /\ pending' = Append(pending, b)
  /\ UNCHANGED <<cut, well_formed>>

Replace(b) ==
  /\ given' = <<b>>
  /\ \/ cut
     \/ ~ IsEncoding(Append(pending, b)) /\ ~ IsPrefixOfEncoding(Append(pending, b))
  /\ out' = <<replacement_char>>
  /\ pending' = <<>>
  /\ cut' = FALSE
  /\ well_formed' = FALSE

\* Ending the input between two encodings changes nothing.
End ==
  /\ given' = <<>>
  /\ pending = <<>> /\ ~ cut
  /\ out' = <<>>
  /\ UNCHANGED <<pending, cut, well_formed>>

\* Ending it within one replaces the incomplete encoding; the object stays cut.
EndCut ==
  /\ given' = <<>>
  /\ pending # <<>> \/ cut
  /\ out' = <<replacement_char>>
  /\ pending' = <<>>
  /\ cut' = TRUE
  /\ well_formed' = FALSE

Next ==
  \/ \E b \in Bytes : Complete(b) \/ Extend(b) \/ Replace(b)
  \/ End
  \/ EndCut

Spec == Init /\ [][Next]_vars
=============================================================================
