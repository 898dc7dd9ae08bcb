----------------------------- MODULE Utf16Stream -----------------------------
(***************************************************************************)
(* What a UTF-16 to UTF-32 transcoder promises: the unit that waits is the *)
(* first of a surrogate pair; the unit that completes an encoding yields   *)
(* its scalar value; a waiting unit that is not completed yields U+FFFD,   *)
(* and the unit that follows it is then read as if nothing had waited.     *)
(***************************************************************************)
EXTENDS Utf32

CONSTANT Units              \* the code units that may be received

VARIABLES
  pending,      \* the units received of an incomplete encoding
  well_formed,
  given,        \* the unit received last, <<>> when the input was ended
  out           \* the UTF-32 code units written by the last call

vars == <<pending, well_formed, given, out>>

\* The scalar value of one unit, or of a pair of surrogates.
bits(s) ==
  IF Len(s) = 1 THEN s[1]
  ELSE 1024 * (s[1] - first_high_surrogate) + (s[2] - first_low_surrogate) + \h10000

IsEncoding(s) == IsScalar(bits(s)) /\ utf16(bits(s)) = s

\* A unit that some second unit makes a pair.
IsPrefixOfEncoding(s) == Len(s) = 1 /\ IsEncoding(Append(s, first_low_surrogate))

Init ==
  /\ pending = <<>>
  /\ well_formed \in BOOLEAN
  /\ given = <<>> /\ out = <<>>

Complete(u) ==
  /\ given' = <<u>>
  /\ IsEncoding(Append(pending, u))
  /\ out' = <<bits(Append(pending, u))>>
  /\ pending' = <<>>
  /\ UNCHANGED well_formed

Extend(u) ==
  /\ given' = <<u>>
  /\ IsPrefixOfEncoding(Append(pending, u))
  /\ out' = <<>>
  /\ pending' = Append(pending, u)
  /\ UNCHANGED well_formed

\* A unit that neither begins nor ends an encoding stands for nothing.
Replace(u) ==
  /\ given' = <<u>>
  /\ pending = <<>>
  /\ ~ IsEncoding(<<u>>) /\ ~ IsPrefixOfEncoding(<<u>>)
  /\ out' = <<replacement_char>>
  /\ well_formed' = FALSE
  /\ UNCHANGED pending

\* The waiting unit is replaced and u is read in its own right.
ReplacePending(u) ==
  /\ given' = <<u>>
  /\ pending # <<>>
  /\ ~ IsEncoding(Append(pending, u))
  /\ \/ IsEncoding(<<u>>) /\ out' = <<replacement_char, u>> /\ pending' = <<>>
     \/ IsPrefixOfEncoding(<<u>>) /\ out' = <<replacement_char>> /\ pending' = <<u>>
  /\ well_formed' = FALSE

End ==
  /\ given' = <<>>
  /\ pending = <<>>
  /\ out' = <<>>
  /\ UNCHANGED <<pending, well_formed>>

EndCut ==
  /\ given' = <<>>
  /\ pending # <<>>
  /\ out' = <<replacement_char>>
  /\ pending' = <<>>
  /\ well_formed' = FALSE

Next ==
  \/ \E u \in Units : Complete(u) \/ Extend(u) \/ Replace(u) \/ ReplacePending(u)
  \/ End
  \/ EndCut

Spec == Init /\ [][Next]_vars
=============================================================================
