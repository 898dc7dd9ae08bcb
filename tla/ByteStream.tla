------------------------------ MODULE ByteStream ------------------------------
(***************************************************************************)
(* A program that converts a stream of bytes of unknown encoding: it feeds *)
(* one transcoder<std::byte, ToEncoding> byte by byte and may end the      *)
(* stream, with end_cp(), after any of them.                               *)
(***************************************************************************)
EXTENDS ByteOrderMarks

CONSTANT Inputs     \* the streams of bytes, with every prefix of each

ASSUME InputsAssumption ==
  \A s \in Inputs : /\ \A i \in DOMAIN s : s[i] \in Byte
                    /\ s # <<>> => Front(s) \in Inputs

\* The bytes they are made of.
Bytes == UNION {Range(s) : s \in Inputs}

VARIABLES
  to,         \* ToEncoding
  t,          \* the transcoder
  seen,       \* the bytes it has been given
  written,    \* the code units it has written
  ended       \* end_cp has been called

vars == <<to, t, seen, written, ended>>

Init ==
  /\ to \in Encodings
  /\ t = byte_transcoder
  /\ seen = <<>> /\ written = <<>>
  /\ ended = FALSE

\* The transcoder as a call leaves it, and what the call has written.
Leaves(r) == t' = r.coder /\ written' = written \o r.out

Call(value) ==
  /\ ~ ended /\ Append(seen, value) \in Inputs
  /\ seen' = Append(seen, value)
  /\ Leaves(byte_call(to, t, value))
  /\ UNCHANGED <<to, ended>>

EndCp ==
  /\ ~ ended /\ ended' = TRUE
  /\ Leaves(byte_end_cp(to, t))
  /\ UNCHANGED <<to, seen>>

Next == EndCp \/ \E value \in Bytes : Call(value)

Spec == Init /\ [][Next]_vars

-----------------------------------------------------------------------------
selected == selected_encoding(t)

\* The bytes of an incomplete code unit wait in buffer_.
InUnit == t.state.mode = "run" /\ t.state.byte_no # 0

\* The machine is in one of its named states; the rest is of its type.
TypeOK ==
  /\ t.state \in BomStates \union RunStates
  /\ t.buffer \in [0 .. 3 -> Byte]
  /\ t.variant.from \in {0} \union Encodings

(***************************************************************************)
(* Where the machine is in run mode the variant holds the transcoder of    *)
(* its encoding, and monostate elsewhere: what operator(), run8_start,     *)
(* run16_start, run16 and run32 assert and std::get_if relies on.          *)
(***************************************************************************)
VariantFollowsState ==
  t.variant.from = IF t.state.mode = "run" THEN t.state.encoding ELSE 0

(***************************************************************************)
(* The one byte that packs the fields of a state is as good as the fields: *)
(* the masks read them back, rewriting one of them leaves the others, also *)
(* where a carry could reach them, and the row of boms that the upper bits *)
(* number is that of the encoding and byte order.                          *)
(***************************************************************************)
StateIsPacked ==
  LET s == t.state
      b == underlying(s)
  IN  /\ get_byte_no(b) = s.byte_no
      /\ is_run_mode(b) <=> s.mode = "run"
      /\ is_little_endian(b) <=> s.endian = "le"
      /\ bits(b, 16, 4) = encoding_bits(s.encoding)
      /\ packed_set_byte(b, 0) = underlying(set_byte(s, 0))
      /\ s.byte_no < 3 => packed_next_byte(b) = underlying(next_byte(s))
      /\ s.mode = "bom" => packed_set_run_mode(b) = underlying(set_run_mode(s))
      /\ packed_run16_start(b) = underlying(state(16, s.endian, "run", 0))
      /\ s.mode = "bom" /\ s # start => packed_bom_value(b) = bom_value(s)

(***************************************************************************)
(* The encoding is selected as soon as the bytes decide it, never earlier, *)
(* and it is the one their mark announces, UTF-8 without one; Misread      *)
(* streams are the exception, and are taken for UTF-8.                     *)
(***************************************************************************)
SelectsAnnounced ==
  /\ ~ ended => (selected = unknown <=> Undecided(seen))
  /\ selected # unknown =>
       selected = IF Undecided(seen) \/ Misread(seen)
                  THEN [encoding |-> 8, endian |-> "be"] ELSE Announced(seen)

(***************************************************************************)
(* What a transcoder of the selected encoding writes for the code units    *)
(* that follow its mark; a last, incomplete code unit is not given to it.  *)
(* The end of a stream that might have gone on as a mark has the byte of   *)
(* buffer_ replayed that was never received: a 0.                          *)
(***************************************************************************)
Body ==
  CASE selected \in Marked(seen)               -> SubSeq(seen, Len(Mark(selected)) + 1, Len(seen))
    [] ended /\ Undecided(seen) /\ seen # <<>> -> Append(seen, 0)
    [] OTHER                                   -> seen

UnitAt(bytes) ==
  LET b == IF selected.endian = "be" THEN bytes ELSE Reverse(bytes)
  IN  CASE selected.encoding = 8  -> b[1]
        [] selected.encoding = 16 -> 256 * b[1] + b[2]
        [] selected.encoding = 32 ->
             IF b[1] > 127 THEN \h7FFFFFFF ELSE 65536 * (256 * b[1] + b[2]) + 256 * b[3] + b[4]

CodeUnits ==
  LET width == selected.encoding \div 8
  IN  [k \in 1 .. Len(Body) \div width |-> UnitAt(SubSeq(Body, width * (k - 1) + 1, width * k))]

ByHand ==
  IF ended THEN fed_all(selected.encoding, to, CodeUnits)
  ELSE fed(selected.encoding, to, CodeUnits)

(***************************************************************************)
(* No byte is lost, repeated or reordered between the mark, buffer_ and    *)
(* the transcoder: once the encoding is selected, what has been written    *)
(* and the report of malformed input are those of a conversion by hand of  *)
(* the complete code units, and between two of them so is partial().       *)
(***************************************************************************)
ConvertsAsSelected ==
  selected # unknown =>
    /\ written = ByHand.out
    /\ byte_well_formed(to, t) = well_formed(selected.encoding, to, ByHand.coder)
    /\ ~ InUnit => byte_partial(to, t) = partial(selected.encoding, to, ByHand.coder)

(***************************************************************************)
(* While the mark may go on nothing is written and the stream is partial;  *)
(* nothing is reported as malformed before something has been written.     *)
(***************************************************************************)
WaitsForMark ==
  /\ ~ ended /\ Undecided(seen) =>
       written = <<>> /\ (byte_partial(to, t) <=> seen # <<>>)
  /\ ~ byte_well_formed(to, t) => written # <<>>

(***************************************************************************)
(* A selection is final: no later byte, and no end, changes the encoding   *)
(* or the byte order; the end of a stream always selects one.              *)
(***************************************************************************)
SelectionIsFinal ==
  [][ /\ selected # unknown => selected' = selected
      /\ ended' => selected' # unknown ]_vars

-----------------------------------------------------------------------------
(***************************************************************************)
(* What the documentation says and the class does not do.                  *)
(***************************************************************************)
(***************************************************************************)
(* "If present, a leading byte-order-mark is interpreted to select the     *)
(* source encoding; if not present, UTF-8 encoding is assumed": said of    *)
(* every stream, Misread ones too.                                         *)
(***************************************************************************)
EveryMarkSelects ==
  selected # unknown /\ ~ Undecided(seen) => selected = Announced(seen)

(***************************************************************************)
(* The same sentence, of a stream that ends where a mark might have gone   *)
(* on: it has no mark, and is converted as the UTF-8 text it is.           *)
(***************************************************************************)
UnfinishedMarkIsUtf8 ==
  ended /\ Undecided(seen) /\ Marked(seen) = {} => written = fed_all(8, to, seen).out

(***************************************************************************)
(* partial() is "true if a partial code-point has been passed", and end_cp *)
(* "ensures that the sequence did not end with a partial code point": of a *)
(* stream that ends within a code unit partial() says so before the end,   *)
(* and well_formed() after it.  What is stated is the least of this, that  *)
(* one of the two tells; a step that breaks it breaks both sentences.      *)
(***************************************************************************)
CutUnitIsNoticed ==
  [][ ~ ended /\ ended' /\ InUnit =>
        byte_partial(to, t) \/ ~ byte_well_formed(to, t') ]_vars
=============================================================================
