---------------------------- MODULE ByteTranscoder ----------------------------
(***************************************************************************)
(* The class transcoder<std::byte, ToEncoding>: it finds the encoding of a *)
(* stream of bytes from a leading byte order mark and converts the rest    *)
(* with the transcoder for that encoding.  An object is a record of its    *)
(* members: the state of its machine, the four bytes of buffer_, and the   *)
(* transcoder its variant holds.                                           *)
(***************************************************************************)
EXTENDS Transcoders

(***************************************************************************)
(* A state is made of fields, as the bits of the source's enumeration are: *)
(* the encoding (8, 16 or 32 bits; 0 when unknown), the byte order, bom or *)
(* run mode, and the byte of the mark or of the code unit expected next.   *)
(***************************************************************************)
state(encoding, endian, mode, byte_no) ==
  [encoding |-> encoding, endian |-> endian, mode |-> mode, byte_no |-> byte_no]

start                    == state(0, "be", "bom", 0)
utf8_bom_byte1           == state(8, "be", "bom", 1)
utf8_bom_byte2           == state(8, "be", "bom", 2)
utf16_be_bom_byte1       == state(16, "be", "bom", 1)
utf32_or_16_be_bom_byte1 == state(32, "be", "bom", 1)
utf32_be_bom_byte2       == state(32, "be", "bom", 2)
utf32_be_bom_byte3       == state(32, "be", "bom", 3)
utf32_or_16_le_bom_byte1 == state(32, "le", "bom", 1)
utf32_or_16_le_bom_byte2 == state(32, "le", "bom", 2)
utf32_le_bom_byte3       == state(32, "le", "bom", 3)
run_8                    == state(8, "be", "run", 0)

BomStates ==
  {start, utf8_bom_byte1, utf8_bom_byte2, utf16_be_bom_byte1, utf32_or_16_be_bom_byte1,
   utf32_be_bom_byte2, utf32_be_bom_byte3, utf32_or_16_le_bom_byte1,
   utf32_or_16_le_bom_byte2, utf32_le_bom_byte3}

RunStates ==
  {run_8} \union {state(16, e, "run", n) : e \in {"be", "le"}, n \in 0 .. 1}
          \union {state(32, e, "run", n) : e \in {"be", "le"}, n \in 0 .. 3}

(***************************************************************************)
(* The source packs these fields in the bits of one byte, reads them with  *)
(* masks and shifts and rewrites them in place: `bits` is what a mask      *)
(* leaves, and `with_bits` what is or-ed into the place it has cleared.    *)
(***************************************************************************)
bits(b, place, range) == (b \div place) % range
with_bits(b, place, range, value) == b + place * (value - bits(b, place, range))

encoding_bits(encoding) ==
  CASE encoding = 16 -> 0 [] encoding = 32 -> 1 [] encoding = 8 -> 2 [] encoding = 0 -> 3

underlying(s) ==
  16 * encoding_bits(s.encoding) + (IF s.endian = "le" THEN 8 ELSE 0)
    + (IF s.mode = "run" THEN 4 ELSE 0) + s.byte_no

get_byte_no_of_one_bit(b) == bits(b, 1, 2)
get_byte_no(b) == bits(b, 1, 4)
is_run_mode(b) == bits(b, 4, 2) = 1
is_little_endian(b) == bits(b, 8, 2) = 1
packed_set_byte(b, n) == with_bits(b, 1, 4, n)
packed_next_byte(b) == packed_set_byte(b, get_byte_no(b) + 1)
packed_set_run_mode(b) == with_bits(b, 4, 2, 1)
packed_run16_start(b) == 8 * bits(b, 8, 2) + 4

set_byte(s, n) == [s EXCEPT !.byte_no = n]
next_byte(s) == set_byte(s, s.byte_no + 1)
set_run_mode(s) == [s EXCEPT !.mode = "run"]

is_past_last_byte(s) == s.byte_no = s.encoding \div 8
is_last_byte(s) == s.byte_no = (s.encoding \div 8) - 1

(***************************************************************************)
(* The table of byte order marks; its unused entries are zero.             *)
(***************************************************************************)
boms(encoding, endian) ==
  CASE encoding = 16 /\ endian = "be" -> <<\hFE, \hFF, 0, 0>>
    [] encoding = 16 /\ endian = "le" -> <<\hFF, \hFE, 0, 0>>
    [] encoding = 32 /\ endian = "be" -> <<0, 0, \hFE, \hFF>>
    [] encoding = 32 /\ endian = "le" -> <<\hFF, \hFE, 0, 0>>
    [] encoding = 8                   -> <<\hEF, \hBB, \hBF, 0>>

\* The rows of boms as they lie in memory, where the code finds them: the upper
\* bits of a state, unmasked, are the number of a row.
boms_in_order ==
  <<boms(16, "be"), boms(16, "le"), boms(32, "be"), boms(32, "le"), boms(8, "be")>>
packed_bom_value(b) == boms_in_order[b \div 8 + 1][get_byte_no(b) + 1]

bom_value_after(s) == boms(s.encoding, s.endian)[(s.byte_no % 3) + 2]
bom_value(s) == boms(s.encoding, s.endian)[s.byte_no + 1]

(***************************************************************************)
(* The variant holds monostate until the encoding has been selected.       *)
(***************************************************************************)
monostate == [from |-> 0]
alternative(from, to) == [from |-> from, coder |-> transcoder(from, to)]

byte_transcoder == [state |-> start, buffer |-> [n \in 0 .. 3 |-> 0], variant |-> monostate]

buffered(t, value) == [t EXCEPT !.buffer[t.state.byte_no] = value]

\* The held transcoder is given one more code unit.
held_after(t, r) == Result([t EXCEPT !.variant.coder = r.coder], r.out)

passed_to_variant(to, r, unit) ==
  then(r, held_after(r.coder, call(r.coder.variant.from, to, r.coder.variant.coder, unit)))

\* run8_start: the bytes up to and with the current one are in buffer_.
run8_start(to, t, copy_buffer) ==
  LET bytes == IF copy_buffer THEN [n \in 1 .. t.state.byte_no + 1 |-> t.buffer[n - 1]] ELSE <<>>
      utf8_input == [t EXCEPT !.variant = alternative(8, to), !.state = run_8]
  IN  FoldLeft(LAMBDA r, b : passed_to_variant(to, r, b), Result(utf8_input, <<>>), bytes)

run16_start_no_emplace(to, t) == [t EXCEPT !.state = state(16, t.state.endian, "run", 0)]
run16_start(to, t) ==
  [t EXCEPT !.variant = alternative(16, to), !.state = state(16, t.state.endian, "run", 0)]

run32_start_big_endian(to, t) ==
  [t EXCEPT !.variant = alternative(32, to), !.state = state(32, "be", "run", 0)]
run32_start(to, t) ==
  [t EXCEPT !.variant = alternative(32, to), !.state = set_run_mode(set_byte(t.state, 0))]

in_state(t, s) == Result([t EXCEPT !.state = s], <<>>)

\* start_state, the first byte being in the buffer.
start_state(to, t, value) ==
  CASE value = boms(8, "be")[1]  -> in_state(t, utf8_bom_byte1)
    [] value = boms(16, "be")[1] -> in_state(t, utf16_be_bom_byte1)
    [] value = boms(16, "le")[1] -> in_state(t, utf32_or_16_le_bom_byte1)
    [] value = boms(32, "be")[1] -> in_state(t, utf32_or_16_be_bom_byte1)
    [] OTHER                     -> run8_start(to, t, TRUE)

\* The rest of the BOM states, value being in the buffer of t.
matched_bom_byte(to, t) ==
  CASE t.state = utf8_bom_byte2     -> run8_start(to, t, FALSE)
    [] t.state = utf16_be_bom_byte1 -> Result(run16_start(to, t), <<>>)
    [] t.state.byte_no = 3          -> Result(run32_start(to, t), <<>>)
    [] OTHER                        -> in_state(t, next_byte(t.state))

bom_byte(to, t, value) ==
  IF value = bom_value(t.state) THEN matched_bom_byte(to, t) ELSE run8_start(to, t, TRUE)

\* After FF FE, what is not 00 is the first byte of a UTF-16 code unit.
utf16_after_bom(to, t, value) ==
  Result([run16_start(to, t) EXCEPT !.state = state(16, "le", "run", 1), !.buffer[0] = value],
         <<>>)

(***************************************************************************)
(* A code unit of UTF-16 or UTF-32 from the buffered bytes and the last.   *)
(* A char32_t with its top bit set, which no transcoder tells from another *)
(* value beyond max_code_point, is represented by the largest without it.  *)
(***************************************************************************)
given_bytes(t, value) ==
  [n \in 1 .. t.state.byte_no + 1 |-> IF n = t.state.byte_no + 1 THEN value ELSE t.buffer[n - 1]]

code_unit_bytes(t, value) ==
  IF t.state.endian = "be" THEN given_bytes(t, value) ELSE Reverse(given_bytes(t, value))

char16_from_buffer(t, value) ==
  LET b == code_unit_bytes(t, value) IN 256 * b[1] + b[2]

char32_from_buffer(t, value) ==
  LET b == code_unit_bytes(t, value)
  IN  IF b[1] > 127 THEN \h7FFFFFFF ELSE 16777216 * b[1] + 65536 * b[2] + 256 * b[3] + b[4]

char_from_buffer(t, value) ==
  IF t.state.encoding = 16 THEN char16_from_buffer(t, value) ELSE char32_from_buffer(t, value)

run_byte(to, t, value) ==
  LET s == t.state
      Whole(unit) == passed_to_variant(to, Result([t EXCEPT !.state = set_byte(s, 0)], <<>>), unit)
  IN  CASE s = run_8                            -> passed_to_variant(to, Result(t, <<>>), value)
        [] s # run_8 /\ ~ is_last_byte(s)       -> in_state(buffered(t, value), next_byte(s))
        [] s # run_8 /\ is_last_byte(s)         -> Whole(char_from_buffer(t, value))

(***************************************************************************)
(* The interface of the class.                                             *)
(***************************************************************************)
byte_call(to, t, value) ==
  LET s == t.state
  IN  CASE s = start                                              ->
             start_state(to, buffered(t, value), value)
        [] s = utf32_or_16_le_bom_byte2 /\ value # bom_value(s)   ->
             utf16_after_bom(to, t, value)
        [] s.mode = "run"                                         ->
             run_byte(to, t, value)
        [] OTHER                                                  ->
             bom_byte(to, buffered(t, value), value)

byte_end_cp_restarts(to, t) == Result([t EXCEPT !.state = start], <<>>)
byte_end_cp(to, t) ==
  IF t.variant = monostate
  THEN run8_start(to, t, t.state # start)
  ELSE held_after(t, end_cp(t.variant.from, to, t.variant.coder))

byte_partial(to, t) ==
  IF t.variant = monostate
  THEN t.state # start
  ELSE partial(t.variant.from, to, t.variant.coder)

byte_well_formed(to, t) ==
  t.variant # monostate => well_formed(t.variant.from, to, t.variant.coder)

unknown == [encoding |-> 0, endian |-> "be"]
selected_encoding(t) ==
  IF t.state.mode = "run"
  THEN [encoding |-> t.state.encoding, endian |-> t.state.endian]
  ELSE unknown
=============================================================================
