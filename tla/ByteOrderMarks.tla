---------------------------- MODULE ByteOrderMarks ----------------------------
(***************************************************************************)
(* What a byte order mark is, and what one that bytes begin with means,    *)
(* said without the machine that looks for it: the vocabulary in which     *)
(* properties of that machine, and of what is built on it, are stated.     *)
(***************************************************************************)
EXTENDS AnyTranscoder

(***************************************************************************)
(* The marks, from their definition: U+FEFF in each of the five encodings, *)
(* as bytes.                                                               *)
(***************************************************************************)
Selections ==
  {[encoding |-> e, endian |-> "be"] : e \in Encodings}
    \union {[encoding |-> e, endian |-> "le"] : e \in {16, 32}}

Serialized(s, unit) ==
  LET big == CASE s.encoding = 8  -> <<unit>>
               [] s.encoding = 16 -> <<unit \div 256, unit % 256>>
               [] s.encoding = 32 -> <<0, unit \div 65536, (unit \div 256) % 256, unit % 256>>
  IN  IF s.endian = "be" THEN big ELSE Reverse(big)

Mark(s) ==
  LET units == encode(s.encoding, byte_order_mark)
  IN  FlattenSeq([i \in DOMAIN units |-> Serialized(s, units[i])])

\* The selections whose mark these bytes begin with, and the longest's.
Marked(bytes) == {s \in Selections : IsPrefix(Mark(s), bytes)}

Announced(bytes) ==
  IF Marked(bytes) = {} THEN [encoding |-> 8, endian |-> "be"]
  ELSE CHOOSE s \in Marked(bytes) : \A o \in Marked(bytes) : Len(Mark(o)) <= Len(Mark(s))

\* More bytes may still complete a mark, or a longer one.
Undecided(bytes) == \E s \in Selections : IsStrictPrefix(bytes, Mark(s))

(***************************************************************************)
(* The UTF-16 LE mark and a code unit whose low byte is 00: the machine    *)
(* takes the first three bytes for the UTF-32 LE mark and gives it up.     *)
(***************************************************************************)
Misread(bytes) == Len(bytes) >= 4 /\ SubSeq(bytes, 1, 3) = <<\hFF, \hFE, 0>> /\ bytes[4] # 0

(***************************************************************************)
(* The machine has started on a mark and has had to give it up.            *)
(***************************************************************************)
Abandoned(bytes) ==
  /\ bytes # <<>> /\ Undecided(<<bytes[1]>>)
  /\ Marked(bytes) = {} \/ Misread(bytes) \/ Undecided(bytes)
=============================================================================
