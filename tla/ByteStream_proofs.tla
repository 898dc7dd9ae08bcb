-------------------------- MODULE ByteStream_proofs ---------------------------
(***************************************************************************)
(* Theorems about streams of bytes of unknown encoding, of any length and  *)
(* to every encoding.  While the mark may go on, the inductive invariant   *)
(* says which bytes have been seen and that they are in the buffer; once   *)
(* the machine runs, that what follows the mark is in its transcoder, as   *)
(* far as it makes code units, and in the buffer, as far as it does not.   *)
(***************************************************************************)
EXTENDS ByteStream, Transcoders_proofs

-----------------------------------------------------------------------------
(***************************************************************************)
(* The inductive invariant: before the end a stream waits for the rest of  *)
(* a mark or is being converted; at its end what is waited for is taken    *)
(* for UTF-8, and the last transcoder has been told of the end.            *)
(***************************************************************************)
Seen == seen \in Seq(Byte) /\ to \in Encodings /\ ended \in BOOLEAN

Goes == ~ ended => Waits(seen, t, written) \/ Converts(to, seen, t, written)

EndsAsUtf8 == ended /\ Undecided(seen) => HasEnded(to, utf8_selected, as_utf8(seen), t, written)

EndsAsSelected ==
  ended /\ ~ Undecided(seen) =>
    LET s == selected_for(seen)
    IN  s \in Selections /\ HasEnded(to, s, after_mark(s, seen), t, written)

BInv == Seen /\ Goes /\ EndsAsUtf8 /\ EndsAsSelected

\* The first byte of what is left of a stream is one.
LEMMA InputBytes ==
  ASSUME NEW bytes \in Seq(Byte), NEW b, Append(bytes, b) \in Inputs
  PROVE  b \in Byte
<1>1. Len(bytes) + 1 \in DOMAIN Append(bytes, b) /\ Append(bytes, b)[Len(bytes) + 1] = b
  OBVIOUS
<1>. QED
  BY <1>1, InputsAssumption

\* No byte, and no end of the stream, leaves the invariant.
LEMMA BInvStep == BInv /\ [Next]_vars => BInv'
<1>. SUFFICES ASSUME BInv, [Next]_vars PROVE BInv'
  OBVIOUS
<1>0. seen \in Seq(Byte) /\ to \in Encodings /\ ended \in BOOLEAN
  BY DEF BInv, Seen
<1>1. ASSUME NEW b, Call(b) PROVE BInv'
  <2>. DEFINE u == Append(seen, b)
              r == byte_call(to, t, b)
  <2>1. ~ ended /\ u \in Inputs /\ seen' = u /\ to' = to /\ ended' = ended
    BY <1>1 DEF Call
  <2>2. t' = r.coder /\ written' = written \o r.out
    BY <1>1 DEF Call, Leaves
  <2>3. b \in Byte
    BY <1>0, <2>1, InputBytes
  <2>4. u \in Seq(Byte)
    BY <1>0, <2>3
  <2>5. Waits(u, t', written') \/ Converts(to, u, t', written')
    <3>1. CASE Waits(seen, t, written)
      <4>1. written = <<>>
        BY <3>1 DEF Waits
      <4>2. Waits(seen, t, <<>>)
        BY <3>1, <4>1
      <4>3. Waits(u, r.coder, r.out) \/ Converts(to, u, r.coder, r.out)
        BY <1>0, <2>3, <4>2, WaitingStep
      <4>4. <<>> \o r.out = r.out
        <5>1. CASE Waits(u, r.coder, r.out)
          <6>1. r.out = <<>> /\ <<>> \o <<>> = <<>>
            BY <5>1 DEF Waits
          <6>. QED
            BY <6>1
        <5>2. CASE Converts(to, u, r.coder, r.out)
          <6>. DEFINE s == selected_for(u)
                      body == after_mark(s, u)
                      x == r.coder
                      o == r.out
          <6>1. s \in Selections /\ RunsOn(to, s, body, x, o)
            BY <5>2 DEF Converts
          <6>2. body \in Seq(Byte)
            <7>. HIDE DEF u, s
            <7>. QED
              BY <2>3, <2>4, <6>1, AfterMark
          <6>. HIDE DEF s, body, x, o
          <6>3. <<>> \o o = o
            BY <1>0, <6>1, <6>2, NothingBefore
          <6>. QED
            BY <6>3 DEF o
        <5>. QED
          BY <4>3, <5>1, <5>2
      <4>5. written' = r.out
        BY <2>2, <4>1, <4>4
      <4>. QED
        BY <2>2, <4>3, <4>5
    <3>2. CASE Converts(to, seen, t, written)
      <4>1. Converts(to, u, r.coder, written \o r.out)
        BY <1>0, <2>3, <3>2, ConvertsStep
      <4>. QED
        BY <2>2, <4>1
    <3>. QED
      BY <2>1, <3>1, <3>2 DEF BInv, Goes
  <2>. QED
    BY <1>0, <2>1, <2>4, <2>5 DEF BInv, Seen, Goes, EndsAsUtf8, EndsAsSelected
<1>2. ASSUME EndCp PROVE BInv'
  <2>. DEFINE r == byte_end_cp(to, t)
  <2>1. ~ ended /\ ended' /\ ended' \in BOOLEAN /\ seen' = seen /\ to' = to
    BY <1>2 DEF EndCp
  <2>2. t' = r.coder /\ written' = written \o r.out
    BY <1>2 DEF EndCp, Leaves
  <2>3. CASE Waits(seen, t, written)
    <3>1. Undecided(seen) /\ written = <<>> /\ Waits(seen, t, <<>>)
      <4>1. Undecided(seen) /\ written = <<>>
        BY <2>3 DEF Waits
      <4>. QED
        BY <2>3, <4>1
    <3>. DEFINE u == as_utf8(seen)
    <3>2. HasEnded(to, utf8_selected, u, r.coder, r.out)
      BY <1>0, <3>1, EndsWaiting
    <3>3. u \in Seq(Byte) /\ utf8_selected \in Selections
      <4>1. 0 \in Byte
        BY ByteRange
      <4>2. <<>> \in Seq(Byte) /\ Append(seen, 0) \in Seq(Byte)
        BY <1>0, <4>1
      <4>. QED
        BY <4>2, SelectionsAre DEF as_utf8, utf8_selected
    <3>4. <<>> \o r.out = r.out
      <4>. DEFINE x == r.coder
                  o == r.out
      <4>1. HasEnded(to, utf8_selected, u, x, o)
        BY <3>2
      <4>. HIDE DEF x, o, u
      <4>2. <<>> \o o = o
        BY <1>0, <3>3, <4>1, NothingBefore
      <4>. QED
        BY <4>2 DEF o
    <3>5. HasEnded(to, utf8_selected, u, t', written')
      BY <2>2, <3>1, <3>2, <3>4
    <3>6. Undecided(seen')
      BY <2>1, <3>1
    <3>7. EndsAsUtf8'
      BY <2>1, <3>5 DEF EndsAsUtf8
    <3>. QED
      BY <1>0, <2>1, <3>6, <3>7 DEF BInv, Seen, Goes, EndsAsSelected
  <2>4. CASE Converts(to, seen, t, written)
    <3>. DEFINE s == selected_for(seen)
                body == after_mark(s, seen)
    <3>1. ~ Undecided(seen) /\ s \in Selections /\ RunsOn(to, s, body, t, written)
      BY <2>4 DEF Converts
    <3>2. body \in Seq(Byte)
      <4>1. 0 \in Byte
        BY ByteRange
      <4>. HIDE DEF s
      <4>. QED
        BY <1>0, <3>1, <4>1, AfterMark
    <3>3. HasEnded(to, s, body, r.coder, written \o r.out)
      <4>. HIDE DEF s, body
      <4>. QED
        BY <1>0, <3>1, <3>2, EndsRunning
    <3>4. HasEnded(to, s, body, t', written')
      BY <2>2, <3>3
    <3>5. EndsAsSelected'
      BY <2>1, <3>1, <3>4 DEF EndsAsSelected
    <3>6. ~ Undecided(seen')
      BY <2>1, <3>1
    <3>. QED
      BY <1>0, <2>1, <3>5, <3>6 DEF BInv, Seen, Goes, EndsAsUtf8
  <2>. QED
    BY <2>1, <2>3, <2>4 DEF BInv, Goes
<1>3. CASE UNCHANGED vars
  BY <1>3 DEF vars, BInv, Seen, Goes, EndsAsUtf8, EndsAsSelected
<1>. QED
  BY <1>1, <1>2, <1>3 DEF Next

(***************************************************************************)
(* Of every stream of bytes, to every encoding, wherever it is ended: what *)
(* the machine is in and what it has written are what the bytes say.       *)
(***************************************************************************)
THEOREM Invariance == Spec => []BInv
<1>1. Init => BInv
  <2>. SUFFICES ASSUME Init PROVE BInv
    OBVIOUS
  <2>1. to \in Encodings /\ t = byte_transcoder /\ seen = <<>> /\ written = <<>> /\ ended = FALSE
    BY DEF Init
  <2>2. <<>> \in Seq(Byte)
    OBVIOUS
  <2>3. seen \in Seq(Byte)
    BY <2>1, <2>2
  <2>4. Waits(seen, t, written)
    BY <2>1, InitiallyWaits
  <2>. QED
    BY <2>1, <2>3, <2>4 DEF BInv, Seen, Goes, EndsAsUtf8, EndsAsSelected
<1>. QED
  BY <1>1, BInvStep, PTL DEF Spec

-----------------------------------------------------------------------------
(***************************************************************************)
(* The properties: first what the invariant says of the state, of a        *)
(* machine that waits and of one that runs.                                *)
(***************************************************************************)
reads == IF Undecided(seen) THEN utf8_selected ELSE selected_for(seen)

text == IF Undecided(seen) THEN as_utf8(seen) ELSE after_mark(reads, seen)

conversion ==
  IF ended THEN fed_all(reads.encoding, to, units_of(reads, text))
  ELSE fed(reads.encoding, to, units_of(reads, text))

\* A machine whose stream has ended runs, and so does one whose encoding is decided.
LEMMA Runs ==
  ASSUME BInv, ended \/ ~ Undecided(seen)
  PROVE  /\ reads \in Selections /\ text \in Seq(Byte)
         /\ \E buffer \in Buffer : RunsWith(conversion, reads, text, buffer, t, written)
<1>0. seen \in Seq(Byte) /\ to \in Encodings /\ ended \in BOOLEAN /\ 0 \in Byte
  BY ByteRange DEF BInv, Seen
<1>1. CASE ended /\ Undecided(seen)
  <2>1. reads = utf8_selected /\ text = as_utf8(seen)
    BY <1>1 DEF reads, text
  <2>2. reads \in Selections
    BY <2>1, SelectionsAre DEF utf8_selected
  <2>3. text \in Seq(Byte)
    <3>1. <<>> \in Seq(Byte) /\ Append(seen, 0) \in Seq(Byte)
      BY <1>0
    <3>. QED
      BY <2>1, <3>1 DEF as_utf8
  <2>4. HasEnded(to, reads, text, t, written)
    BY <1>1, <2>1 DEF BInv, EndsAsUtf8
  <2>5. conversion = fed_all(reads.encoding, to, units_of(reads, text))
    BY <1>1 DEF conversion
  <2>6. \E buffer \in Buffer : RunsWith(conversion, reads, text, buffer, t, written)
    BY <2>4, <2>5, Zenon DEF HasEnded
  <2>. QED
    BY <2>2, <2>3, <2>6
<1>2. CASE ~ Undecided(seen)
  <2>1. reads = selected_for(seen) /\ text = after_mark(reads, seen)
    BY <1>2 DEF reads, text
  <2>2. CASE ended
    <3>1. reads \in Selections /\ HasEnded(to, reads, text, t, written)
      BY <1>2, <2>1, <2>2 DEF BInv, EndsAsSelected
    <3>2. text \in Seq(Byte)
      BY <1>0, <2>1, <3>1, AfterMark
    <3>3. conversion = fed_all(reads.encoding, to, units_of(reads, text))
      BY <2>2 DEF conversion
    <3>4. \E buffer \in Buffer : RunsWith(conversion, reads, text, buffer, t, written)
      BY <3>1, <3>3, Zenon DEF HasEnded
    <3>. QED
      BY <3>1, <3>2, <3>4
  <2>3. CASE ~ ended
    <3>1. Converts(to, seen, t, written)
      BY <1>2, <2>3 DEF BInv, Goes, Waits
    <3>2. reads \in Selections /\ RunsOn(to, reads, text, t, written)
      BY <2>1, <3>1 DEF Converts
    <3>3. text \in Seq(Byte)
      BY <1>0, <2>1, <3>2, AfterMark
    <3>4. conversion = fed(reads.encoding, to, units_of(reads, text))
      BY <2>3 DEF conversion
    <3>5. \E buffer \in Buffer : RunsWith(conversion, reads, text, buffer, t, written)
      BY <3>2, <3>4, Zenon DEF RunsOn
    <3>. QED
      BY <3>2, <3>3, <3>5
  <2>. QED
    BY <2>2, <2>3
<1>. QED
  BY <1>1, <1>2

\* The fields of one that runs.
LEMMA RunsFields ==
  ASSUME BInv, ended \/ ~ Undecided(seen)
  PROVE  /\ t.state \in RunStates /\ t.state.mode = "run" /\ t.buffer \in Buffer
         /\ t.state.encoding = reads.encoding /\ reads.encoding \in Encodings
         /\ t.variant # monostate /\ t.variant.from = reads.encoding
         /\ t.variant.coder = conversion.coder /\ written = conversion.out
         /\ selected = reads /\ selected # unknown
<1>1. reads \in Selections /\ text \in Seq(Byte)
  BY Runs
<1>2. PICK buffer \in Buffer : RunsWith(conversion, reads, text, buffer, t, written)
  BY Runs
<1>. DEFINE n == run_state(reads, text)
<1>3. t = running(n, buffer, conversion.coder) /\ written = conversion.out
  BY <1>2 DEF RunsWith
<1>4. /\ n \in RunStates /\ n.encoding = reads.encoding /\ n.endian = reads.endian
      /\ n.mode = "run"
  BY <1>1, RunStateIs
<1>. HIDE DEF n
<1>5. /\ t.state = n /\ t.buffer = buffer /\ t.variant.from = reads.encoding
      /\ t.variant.coder = conversion.coder
  BY <1>3, <1>4, RunningFields
<1>6. reads.encoding \in Encodings /\ reads = selection(reads.encoding, reads.endian)
  BY <1>1, SelectionFields
<1>7. t.variant # monostate
  BY <1>5, <1>6 DEF monostate, Encodings
<1>8. selected = selection(reads.encoding, reads.endian)
  BY <1>4, <1>5 DEF selected, selected_encoding, selection
<1>9. selected # unknown
  BY <1>6, <1>8, SelectionsAre DEF unknown, Encodings
<1>. QED
  BY <1>2, <1>3, <1>4, <1>5, <1>6, <1>7, <1>8, <1>9

\* And of one that waits.
LEMMA WaitsFields ==
  ASSUME BInv, ~ ended, Undecided(seen)
  PROVE  /\ t.state \in BomStates /\ t.state.mode = "bom" /\ t.buffer \in Buffer
         /\ t.variant = monostate /\ selected = unknown /\ written = <<>>
         /\ t.state # start <=> seen # <<>>
<1>0. seen \in Seq(Byte)
  BY DEF BInv, Seen
<1>1. Waits(seen, t, written)
  BY DEF BInv, Goes, Converts
<1>2. PICK s \in BomStates : Reading(s, seen) /\ t = waiting(s, filled(seen))
  BY <1>1 DEF Waits
<1>3. t.state = s /\ t.buffer = filled(seen) /\ t.variant = monostate
  BY <1>2, WaitingFields
<1>4. filled(seen) \in Buffer /\ Len(seen) = s.byte_no
  BY <1>0, <1>2, Filled
<1>5. s.mode = "bom" /\ (s.byte_no = 0 <=> s = start)
  BY BomState
<1>6. selected = unknown
  BY <1>3, <1>5 DEF selected, selected_encoding
<1>7. s # start <=> seen # <<>>
  BY <1>0, <1>4, <1>5
<1>. QED
  BY <1>1, <1>3, <1>4, <1>5, <1>6, <1>7 DEF Waits

\* The machine is always in one of its named states, with a buffer of bytes.
THEOREM TypeCorrect == Spec => []TypeOK
<1>1. BInv => TypeOK
  <2>. SUFFICES ASSUME BInv PROVE TypeOK
    OBVIOUS
  <2>1. CASE ~ ended /\ Undecided(seen)
    <3>1. t.state \in BomStates /\ t.buffer \in Buffer /\ t.variant = monostate
      BY <2>1, WaitsFields
    <3>. QED
      BY <3>1 DEF TypeOK, Buffer, monostate
  <2>2. CASE ended \/ ~ Undecided(seen)
    <3>1. /\ t.state \in RunStates /\ t.buffer \in Buffer
          /\ t.variant.from = reads.encoding /\ reads.encoding \in Encodings
      BY <2>2, RunsFields
    <3>. QED
      BY <3>1 DEF TypeOK, Buffer
  <2>. QED
    BY <2>1, <2>2
<1>. QED
  BY <1>1, Invariance, PTL

\* The variant holds the transcoder of the state's encoding in run mode, and none
\* elsewhere: no std::get_if of the class finds another one.
THEOREM VariantAlwaysFollows == Spec => []VariantFollowsState
<1>1. BInv => VariantFollowsState
  <2>. SUFFICES ASSUME BInv PROVE VariantFollowsState
    OBVIOUS
  <2>1. CASE ~ ended /\ Undecided(seen)
    <3>1. t.state.mode = "bom" /\ t.variant = monostate
      BY <2>1, WaitsFields
    <3>. QED
      BY <3>1 DEF VariantFollowsState, monostate
  <2>2. CASE ended \/ ~ Undecided(seen)
    <3>1. /\ t.state.mode = "run" /\ t.state.encoding = reads.encoding
          /\ t.variant.from = reads.encoding
      BY <2>2, RunsFields
    <3>. QED
      BY <3>1 DEF VariantFollowsState
  <2>. QED
    BY <2>1, <2>2
<1>. QED
  BY <1>1, Invariance, PTL

\* The encoding is selected where the bytes decide it, and it is the one that
\* the longest mark they begin with announces, but for Misread streams.
THEOREM AnnouncedIsSelected == Spec => []SelectsAnnounced
<1>1. BInv => SelectsAnnounced
  <2>. SUFFICES ASSUME BInv PROVE SelectsAnnounced
    OBVIOUS
  <2>1. CASE ~ ended /\ Undecided(seen)
    <3>1. selected = unknown
      BY <2>1, WaitsFields
    <3>. QED
      BY <2>1, <3>1 DEF SelectsAnnounced
  <2>2. CASE ended \/ ~ Undecided(seen)
    <3>1. selected = reads /\ selected # unknown
      BY <2>2, RunsFields
    <3>2. utf8_selected = [encoding |-> 8, endian |-> "be"]
      BY DEF utf8_selected, selection
    <3>3. reads = IF Undecided(seen) \/ Misread(seen)
                  THEN [encoding |-> 8, endian |-> "be"] ELSE Announced(seen)
      BY <3>2 DEF reads, selected_for
    <3>. QED
      BY <2>2, <3>1, <3>3 DEF SelectsAnnounced
  <2>. QED
    BY <2>1, <2>2
<1>. QED
  BY <1>1, Invariance, PTL

\* Nothing is written while the mark may go on, and whatever is reported as
\* malformed has been written about.
THEOREM NothingWrittenEarly == Spec => []WaitsForMark
<1>1. BInv => WaitsForMark
  <2>. SUFFICES ASSUME BInv PROVE WaitsForMark
    OBVIOUS
  <2>1. CASE ~ ended /\ Undecided(seen)
    <3>1. written = <<>> /\ t.variant = monostate /\ (t.state # start <=> seen # <<>>)
      BY <2>1, WaitsFields
    <3>2. byte_partial(to, t) = (t.state # start) /\ byte_well_formed(to, t)
      BY <3>1 DEF byte_partial, byte_well_formed
    <3>. QED
      BY <3>1, <3>2 DEF WaitsForMark
  <2>2. CASE ended \/ ~ Undecided(seen)
    <3>1. /\ t.variant # monostate /\ t.variant.from = reads.encoding
          /\ t.variant.coder = conversion.coder /\ written = conversion.out
      BY <2>2, RunsFields
    <3>2. Accounted(reads.encoding, to, conversion)
      <4>. DEFINE units == units_of(reads, text)
      <4>1. reads.encoding \in Encodings /\ units \in Seq(CodeUnit(reads.encoding))
        BY <2>2, Runs, RunsFields, UnitsOfType
      <4>2. to \in Encodings
        BY DEF BInv, Seen
      <4>. HIDE DEF units
      <4>. QED
        BY <4>1, <4>2, FedAccounted DEF conversion, units
    <3>3. ~ byte_well_formed(to, t) => ~ well_formed(reads.encoding, to, conversion.coder)
      BY <3>1 DEF byte_well_formed
    <3>4. ~ byte_well_formed(to, t) => written # <<>>
      BY <3>1, <3>2, <3>3 DEF Accounted
    <3>. QED
      BY <2>2, <3>4 DEF WaitsForMark
  <2>. QED
    BY <2>1, <2>2
<1>. QED
  BY <1>1, Invariance, PTL

\* UTF-8 is not marked where more of a mark may follow.
LEMMA UndecidedIsNotUtf8 ==
  ASSUME NEW bytes \in Seq(Byte), Undecided(bytes)
  PROVE  utf8_selected \notin Marked(bytes)
<1>. DEFINE n == Len(bytes)
<1>1. n \in Nat
  OBVIOUS
<1>2. utf8_selected \in Marked(bytes) <=>
        n >= 3 /\ bytes[1] = 239 /\ bytes[2] = 187 /\ bytes[3] = 191
  BY MarkTable DEF utf8_selected
<1>3. \/ n < 3
      \/ n >= 1 /\ bytes[1] \in {0, 254, 255}
  <2>. DEFINE a == bytes[1]
  <2>1. \/ n < 3
        \/ n < 4 /\ (n >= 1 => a = 0)
        \/ n < 4 /\ (n >= 1 => a = 255)
    BY MarkTable
  <2>. HIDE DEF n, a
  <2>2. n < 3 \/ (n >= 1 /\ a \in {0, 254, 255})
    BY <1>1, <2>1
  <2>. QED
    BY <2>2 DEF a
<1>. HIDE DEF n
<1>. QED
  BY <1>1, <1>2, <1>3

\* What masks and shifts find in a byte that packs an encoding (x), a byte order
\* (y), a mode (z) and a byte number (n), and what rewriting a field leaves.
LEMMA PackedBits ==
  ASSUME NEW x \in 0 .. 3, NEW y \in 0 .. 1, NEW z \in 0 .. 1, NEW n \in 0 .. 3
  PROVE  LET b == 16 * x + 8 * y + 4 * z + n
         IN  /\ bits(b, 1, 4) = n /\ bits(b, 4, 2) = z /\ bits(b, 8, 2) = y
             /\ bits(b, 16, 4) = x /\ b \div 8 = 2 * x + y
             /\ \A m \in 0 .. 3 : packed_set_byte(b, m) = 16 * x + 8 * y + 4 * z + m
             /\ packed_set_run_mode(b) = 16 * x + 8 * y + 4 + n
<1>. DEFINE b == 16 * x + 8 * y + 4 * z + n
<1>1. b \in Nat /\ b \div 1 = b
  OBVIOUS
<1>2. bits(b, 1, 4) = n
  BY <1>1 DEF bits
<1>3. bits(b, 4, 2) = z
  <2>1. b \div 4 = 4 * x + 2 * y + z
    OBVIOUS
  <2>. QED
    BY <2>1 DEF bits
<1>4. b \div 8 = 2 * x + y
  OBVIOUS
<1>5. bits(b, 8, 2) = y
  BY <1>4 DEF bits
<1>6. bits(b, 16, 4) = x
  <2>1. b \div 16 = x
    OBVIOUS
  <2>. QED
    BY <2>1 DEF bits
<1>7. \A m \in 0 .. 3 : packed_set_byte(b, m) = 16 * x + 8 * y + 4 * z + m
  BY <1>2 DEF packed_set_byte, with_bits
<1>8. packed_set_run_mode(b) = 16 * x + 8 * y + 4 + n
  BY <1>3 DEF packed_set_run_mode, with_bits
<1>. QED
  BY <1>2, <1>3, <1>4, <1>5, <1>6, <1>7, <1>8

\* The fields of a named state.
LEMMA NamedStateFields ==
  ASSUME NEW s \in BomStates \union RunStates
  PROVE  /\ s = state(s.encoding, s.endian, s.mode, s.byte_no)
         /\ s.encoding \in {0, 8, 16, 32} /\ s.endian \in {"be", "le"}
         /\ s.mode \in {"bom", "run"} /\ s.byte_no \in 0 .. 3
         /\ s.mode = "bom" /\ s # start =>
              s.encoding # 0 /\ (s.encoding = 8 => s.endian = "be")
<1>1. CASE s \in BomStates
  <2>1. CASE s = start
    BY <2>1 DEF start, state
  <2>2. CASE s = utf8_bom_byte1
    BY <2>2 DEF start, utf8_bom_byte1, state
  <2>3. CASE s = utf8_bom_byte2
    BY <2>3 DEF start, utf8_bom_byte2, state
  <2>4. CASE s = utf16_be_bom_byte1
    BY <2>4 DEF start, utf16_be_bom_byte1, state
  <2>5. CASE s = utf32_or_16_be_bom_byte1
    BY <2>5 DEF start, utf32_or_16_be_bom_byte1, state
  <2>6. CASE s = utf32_be_bom_byte2
    BY <2>6 DEF start, utf32_be_bom_byte2, state
  <2>7. CASE s = utf32_be_bom_byte3
    BY <2>7 DEF start, utf32_be_bom_byte3, state
  <2>8. CASE s = utf32_or_16_le_bom_byte1
    BY <2>8 DEF start, utf32_or_16_le_bom_byte1, state
  <2>9. CASE s = utf32_or_16_le_bom_byte2
    BY <2>9 DEF start, utf32_or_16_le_bom_byte2, state
  <2>10. CASE s = utf32_le_bom_byte3
    BY <2>10 DEF start, utf32_le_bom_byte3, state
  <2>. QED
    BY <1>1, <2>1, <2>2, <2>3, <2>4, <2>5, <2>6, <2>7, <2>8, <2>9, <2>10 DEF BomStates
<1>2. CASE s \in RunStates
  BY <1>2, RunState DEF Encodings
<1>. QED
  BY <1>1, <1>2

(***************************************************************************)
(* The byte that state_ is stands for the fields: masks read them, and     *)
(* rewriting one leaves the others, in every state the machine can be in.  *)
(***************************************************************************)
THEOREM PackingKeepsFields == Spec => []StateIsPacked
<1>1. TypeOK => StateIsPacked
  <2>. SUFFICES ASSUME TypeOK PROVE StateIsPacked
    OBVIOUS
  <2>. DEFINE s == t.state
              x == encoding_bits(s.encoding)
              y == IF s.endian = "le" THEN 1 ELSE 0
              z == IF s.mode = "run" THEN 1 ELSE 0
              n == s.byte_no
              b == 16 * x + 8 * y + 4 * z + n
  <2>1. s \in BomStates \union RunStates
    BY DEF TypeOK
  <2>. HIDE DEF s
  <2>2. /\ s = state(s.encoding, s.endian, s.mode, s.byte_no)
        /\ s.encoding \in {0, 8, 16, 32} /\ s.endian \in {"be", "le"}
        /\ s.mode \in {"bom", "run"} /\ n \in 0 .. 3
        /\ s.mode = "bom" /\ s # start =>
             s.encoding # 0 /\ (s.encoding = 8 => s.endian = "be")
    BY <2>1, NamedStateFields
  <2>3. x \in 0 .. 3 /\ y \in 0 .. 1 /\ z \in 0 .. 1 /\ underlying(s) = b
    BY <2>2 DEF encoding_bits, underlying
  <2>. DEFINE Reads(a) == /\ bits(a, 1, 4) = n /\ bits(a, 4, 2) = z /\ bits(a, 8, 2) = y
                          /\ bits(a, 16, 4) = x /\ a \div 8 = 2 * x + y
                          /\ \A m \in 0 .. 3 : packed_set_byte(a, m) = 16 * x + 8 * y + 4 * z + m
                          /\ packed_set_run_mode(a) = 16 * x + 8 * y + 4 + n
  <2>4. Reads(b)
    <3>. HIDE DEF x, y, z, n
    <3>. QED
      BY <2>2, <2>3, PackedBits
  <2>5. \A m \in 0 .. 3 : underlying(set_byte(s, m)) = 16 * x + 8 * y + 4 * z + m
    <3>1. \A m : set_byte(s, m) = state(s.encoding, s.endian, s.mode, m)
      BY <2>2 DEF set_byte, state
    <3>. QED
      BY <2>2, <3>1 DEF underlying, state, encoding_bits
  <2>6. s.mode = "bom" => underlying(set_run_mode(s)) = 16 * x + 8 * y + 4 + n
    <3>1. set_run_mode(s) = state(s.encoding, s.endian, "run", n)
      BY <2>2 DEF set_run_mode, state
    <3>. QED
      BY <2>2, <3>1 DEF underlying, state, encoding_bits
  <2>7. underlying(state(16, s.endian, "run", 0)) = 8 * y + 4
    BY <2>2 DEF underlying, state, encoding_bits
  <2>. DEFINE a == underlying(s)
  <2>8. Reads(a)
    BY <2>3, <2>4
  <2>. HIDE DEF a, b, n, x, y, z
  <2>9. /\ get_byte_no(a) = n /\ (is_run_mode(a) <=> z = 1) /\ (is_little_endian(a) <=> y = 1)
        /\ bits(a, 16, 4) = x
    BY <2>8 DEF get_byte_no, is_run_mode, is_little_endian
  <2>10. packed_set_byte(a, 0) = underlying(set_byte(s, 0))
    BY <2>5, <2>8
  <2>11. n < 3 => packed_next_byte(a) = underlying(next_byte(s))
    <3>1. n < 3 => n + 1 \in 0 .. 3
      BY <2>2
    <3>2. next_byte(s) = set_byte(s, n + 1) /\ packed_next_byte(a) = packed_set_byte(a, n + 1)
      BY <2>9 DEF next_byte, packed_next_byte, n
    <3>. QED
      BY <2>5, <2>8, <3>1, <3>2
  <2>12. s.mode = "bom" => packed_set_run_mode(a) = underlying(set_run_mode(s))
    BY <2>6, <2>8
  <2>13. s.mode = "bom" /\ s # start => packed_bom_value(a) = bom_value(s)
    <3>. SUFFICES ASSUME s.mode = "bom", s # start
                  PROVE  packed_bom_value(a) = bom_value(s)
      OBVIOUS
    <3>1. a \div 8 + 1 = 2 * x + y + 1
      BY <2>3, <2>8
    <3>2. boms_in_order[2 * x + y + 1] = boms(s.encoding, s.endian)
      BY <2>2 DEF x, y, encoding_bits, boms_in_order, boms
    <3>. QED
      BY <2>9, <3>1, <3>2 DEF packed_bom_value, bom_value, n
  <2>14. packed_run16_start(a) = 8 * y + 4
    BY <2>8 DEF packed_run16_start
  <2>15. (z = 1 <=> s.mode = "run") /\ (y = 1 <=> s.endian = "le")
    BY DEF y, z
  <2>. QED
    BY <2>7, <2>9, <2>10, <2>11, <2>12, <2>13, <2>14, <2>15 DEF StateIsPacked, a, n, x, s
<1>. QED
  BY <1>1, TypeCorrect, PTL

\* No byte is lost, repeated or reordered between the mark, the buffer and the
\* transcoder: what is written, and what the observers answer, is what a
\* conversion of the code units after the mark by hand has.
THEOREM ConvertsByHand == Spec => []ConvertsAsSelected
<1>1. BInv => ConvertsAsSelected
  <2>. SUFFICES ASSUME BInv, selected # unknown
                PROVE  /\ written = ByHand.out
                       /\ byte_well_formed(to, t) = well_formed(selected.encoding, to, ByHand.coder)
                       /\ byte_partial(to, t) = partial(selected.encoding, to, ByHand.coder)
    BY Zenon DEF ConvertsAsSelected
  <2>0. seen \in Seq(Byte) /\ to \in Encodings
    BY DEF BInv, Seen
  <2>1. ended \/ ~ Undecided(seen)
    BY WaitsFields
  <2>2. /\ t.variant # monostate /\ t.variant.from = reads.encoding
        /\ t.variant.coder = conversion.coder /\ written = conversion.out
        /\ selected = reads /\ reads.encoding \in Encodings
    BY <2>1, RunsFields
  <2>3. Body = text
    <3>1. CASE Undecided(seen)
      <4>1. selected \notin Marked(seen) /\ text = as_utf8(seen) /\ ended
        BY <2>0, <2>1, <2>2, <3>1, UndecidedIsNotUtf8 DEF reads, text
      <4>2. CASE seen = <<>>
        BY <3>1, <4>1, <4>2 DEF Body, as_utf8
      <4>3. CASE seen # <<>>
        BY <3>1, <4>1, <4>3 DEF Body, as_utf8
      <4>. QED
        BY <4>2, <4>3
    <3>2. CASE ~ Undecided(seen)
      <4>1. text = after_mark(selected, seen)
        BY <2>2, <3>2 DEF text
      <4>2. CASE selected \in Marked(seen)
        BY <3>2, <4>1, <4>2 DEF Body, after_mark
      <4>3. CASE selected \notin Marked(seen)
        BY <3>2, <4>1, <4>3 DEF Body, after_mark
      <4>. QED
        BY <4>2, <4>3
    <3>. QED
      BY <3>1, <3>2
  <2>4. CodeUnits = units_of(reads, text)
    <3>1. \A bytes : UnitAt(bytes) = unit_of(selected, bytes)
      BY SMT DEF UnitAt, unit_of
    <3>2. CodeUnits = units_of(selected, Body)
      BY <3>1, Zenon DEF CodeUnits, units_of, width
    <3>. QED
      BY <2>2, <2>3, <3>2
  <2>5. ByHand = conversion
    BY <2>2, <2>4, Zenon DEF ByHand, conversion
  <2>6. well_formed(reads.encoding, to, conversion.coder) \in BOOLEAN
    <3>. DEFINE units == units_of(reads, text)
    <3>1. units \in Seq(CodeUnit(reads.encoding))
      BY <2>1, Runs, UnitsOfType
    <3>. HIDE DEF units
    <3>. QED
      BY <2>0, <2>2, <3>1, FedAccounted DEF conversion, units, Accounted
  <2>7. byte_well_formed(to, t) = well_formed(reads.encoding, to, conversion.coder)
    BY <2>2, <2>6 DEF byte_well_formed
  <2>8. byte_partial(to, t) = partial(reads.encoding, to, conversion.coder)
    BY <2>2 DEF byte_partial
  <2>. QED
    BY <2>2, <2>5, <2>7, <2>8
<1>. QED
  BY <1>1, Invariance, PTL

\* Neither a byte nor the end of the stream changes a selection, and the end
\* always leaves one.
THEOREM SelectionNeverChanges == Spec => SelectionIsFinal
<1>. DEFINE Selected == /\ (ended \/ ~ Undecided(seen)) => selected = reads /\ selected # unknown
                        /\ ~ ended /\ Undecided(seen) => selected = unknown
            Final == /\ selected # unknown => selected' = selected
                     /\ ended' => selected' # unknown
<1>1. BInv => Selected
  <2>. SUFFICES ASSUME BInv PROVE Selected
    OBVIOUS
  <2>. QED
    BY RunsFields, WaitsFields
<1>2. BInv /\ Selected /\ Selected' /\ [Next]_vars => [Final]_vars
  <2>. SUFFICES ASSUME BInv, Selected, Selected', Next PROVE Final
    OBVIOUS
  <2>1. seen \in Seq(Byte)
    BY DEF BInv, Seen
  <2>2. CASE EndCp
    <3>1. ended' /\ seen' = seen
      BY <2>2 DEF EndCp
    <3>2. reads' = reads
      BY <3>1 DEF reads
    <3>. QED
      BY <3>1, <3>2
  <2>3. ASSUME NEW b, Call(b) PROVE Final
    <3>1. ~ ended /\ ~ ended' /\ seen' = Append(seen, b) /\ Append(seen, b) \in Inputs
      BY <2>3 DEF Call
    <3>2. b \in Byte
      BY <2>1, <3>1, InputBytes
    <3>3. ~ Undecided(seen) => ~ Undecided(seen') /\ reads' = reads
      BY <2>1, <3>1, <3>2, Decided DEF reads, selected_for
    <3>. QED
      BY <3>1, <3>3
  <2>. QED
    BY <2>2, <2>3 DEF Next
<1>. HIDE DEF Selected
<1>. QED
  BY <1>1, <1>2, Invariance, PTL DEF Spec, SelectionIsFinal
=============================================================================
