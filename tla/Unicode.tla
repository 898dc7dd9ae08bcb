------------------------------- MODULE Unicode -------------------------------
(***************************************************************************)
(* The vocabulary of icubaby.hpp: the constants of the Unicode code space, *)
(* the surrogate predicates, the code-point-start predicates and the two   *)
(* utilities built on them, length() and index().  Code units, bytes and   *)
(* code points are naturals; a char32_t is any value below 2^32.           *)
(***************************************************************************)
EXTENDS Integers, Sequences, FiniteSets

replacement_char == \hFFFD
byte_order_mark == \hFEFF
code_point_bits == 21

first_high_surrogate == \hD800
last_high_surrogate == \hDBFF
first_low_surrogate == \hDC00
last_low_surrogate == \hDFFF
max_code_point == \h10FFFF

Byte == 0 .. 255
max_code_unit16 == \hFFFF
CodeUnit16 == 0 .. max_code_unit16
CodePoint == 0 .. max_code_point

is_high_surrogate(cp) == first_high_surrogate <= cp /\ cp <= last_high_surrogate
is_low_surrogate(cp) == first_low_surrogate <= cp /\ cp <= last_low_surrogate
is_surrogate(cp) == is_high_surrogate(cp) \/ is_low_surrogate(cp)

\* A Unicode scalar value: what one valid UTF-32 code unit may hold.
IsScalar(cp) == cp \in CodePoint /\ ~ is_surrogate(cp)

(***************************************************************************)
(* The three encodings, by the width of their code unit, and the longest   *)
(* legal sequence of each.                                                 *)
(***************************************************************************)
Encodings == {8, 16, 32}

longest_sequence(encoding) ==
  CASE encoding = 8  -> 4
    [] encoding = 16 -> 2
    [] encoding = 32 -> 1

starts_at_low_surrogate(encoding, unit) ==
  CASE encoding = 8  -> unit \div 64 # 2
    [] encoding = 16 -> ~ is_high_surrogate(unit)
    [] encoding = 32 -> ~ is_surrogate(unit) /\ unit <= max_code_point
is_code_point_start(encoding, unit) ==
  CASE encoding = 8  -> unit \div 64 # 2
    [] encoding = 16 -> ~ is_low_surrogate(unit)
    [] encoding = 32 -> ~ is_surrogate(unit) /\ unit <= max_code_point

(***************************************************************************)
(* length() counts the code-point starts of a sequence; index() returns    *)
(* the position of the start preceded by exactly pos others, and "last",   *)
(* here Len(units) + 1, when there is none.                                *)
(***************************************************************************)
Starts(encoding, units) ==
  {i \in DOMAIN units : is_code_point_start(encoding, units[i])}

length(encoding, units) == Cardinality(Starts(encoding, units))

index(encoding, units, pos) ==
  LET starts == Starts(encoding, units)
      found  == {i \in starts : Cardinality({j \in starts : j < i}) = pos}
  IN  IF found = {} THEN Len(units) + 1 ELSE CHOOSE i \in found : TRUE

(***************************************************************************)
(* The transcoder interface: operator() and end_cp() return the object     *)
(* they leave and the code units they wrote through the output iterator.   *)
(***************************************************************************)
Result(coder, out) == [coder |-> coder, out |-> out]
=============================================================================
