------------------------------ MODULE Conversion ------------------------------
(***************************************************************************)
(* A program that converts text with one transcoder object and has what it *)
(* wrote read back: `coder` converts; `reader` decodes to UTF-32 every     *)
(* code unit `coder` writes; `reference` decodes the program's input       *)
(* itself.  The pair of encodings is chosen at the start; input that is of *)
(* more than one encoding is converted by one object after another.        *)
(***************************************************************************)
EXTENDS Transcoders, EncodedChars

CONSTANTS
  Pairs,        \* the pairs <<from, to>> of encodings converted between
  Units         \* Units[from]: the code units the program may pass

ASSUME PairsAssumption == Pairs \subseteq Encodings \X Encodings
ASSUME UnitsAssumption ==
  /\ Units[8] \subseteq Byte
  /\ Units[16] \subseteq CodeUnit16
  /\ \A unit \in Units[32] : unit \in Nat

VARIABLES
  from, to,     \* the encodings of the input and of the output
  coder,        \* the transcoder<from, to> object
  out,          \* the code units written by its last call
  reader,       \* a transcoder<to, UTF-32> fed with `out` by every call
  read,         \* what the reader wrote for them
  reference,    \* a transcoder<from, UTF-32> fed with the program's input
  expected      \* what it wrote in the last call

vars == <<from, to, coder, out, reader, read, reference, expected>>

Init ==
  /\ \E pair \in Pairs : from = pair[1] /\ to = pair[2]
  /\ coder = transcoder(from, to)
  /\ reader = decoder(to)
  /\ reference = decoder(from)
  /\ out = <<>> /\ read = <<>> /\ expected = <<>>

\* Feeding a sequence of code units to a decoder, in order.
decoded(encoding, d, units) ==
  FoldLeft(LAMBDA r, unit : then(r, decoder_call(encoding, r.coder, unit)),
           Result(d, <<>>), units)

\* coder and reference have each been called, and the reader reads.
Writes(converted, referred) ==
  LET seen == decoded(to, reader, converted.out)
  IN  /\ coder' = converted.coder   /\ out' = converted.out
      /\ reference' = referred.coder /\ expected' = referred.out
      /\ reader' = seen.coder        /\ read' = seen.out
      /\ UNCHANGED to

Call(unit) ==
  /\ Writes(call(from, to, coder, unit), decoder_call(from, reference, unit))
  /\ UNCHANGED from

EndCp ==
  /\ Writes(end_cp(from, to, coder), decoder_end_cp(from, reference))
  /\ UNCHANGED from

(***************************************************************************)
(* "A stream of data which may be using different encodings": the program  *)
(* ends one encoding and goes on in another with a new object, constructed *)
(* with what well_formed() of the old one said.  The constructor that      *)
(* takes it exists for the conversions between UTF-8 or UTF-16 and UTF-32. *)
(***************************************************************************)
constructed_well_formed(f, wf) == decoder(f)
constructed_with(f, wf) == CASE f = 8 -> t8_32(wf) [] f = 16 -> t16_32(wf)

GoOnIn(f) ==
  /\ to = 32 /\ from # 32 /\ f # 32 /\ <<f, to>> \in Pairs
  /\ \E last \in {end_cp(from, to, coder)}, referred \in {decoder_end_cp(from, reference)} :
       Writes(Result(constructed_with(f, well_formed(from, to, last.coder)), last.out),
              Result(constructed_with(f, referred.coder.well_formed), referred.out))
  /\ from' = f

Next ==
  \/ \E unit \in Units[from] : Call(unit)
  \/ EndCp
  \/ \E f \in Encodings : GoOnIn(f)

Spec == Init /\ [][Next]_vars

(***************************************************************************)
(* A program that never stops feeding its transcoders.  The formula is     *)
(* WF_vars of the action, which is enabled at all times.                   *)
(***************************************************************************)
FairSpec == Spec /\ []<><<\E unit \in Units[from] : Call(unit)>>_vars

-----------------------------------------------------------------------------
CoderType(f, t) ==
  LET D(e) == CASE e = 8 -> T8_32 [] e = 16 -> T16_32 [] e = 32 -> T32_X
  IN  IF is_triangulator(f, t) THEN [intermediate : D(f), output : T32_X] ELSE D(f)

\* Objects of the classes chosen, and code units of the encoding written.
TypeOK ==
  /\ <<from, to>> \in Pairs
  /\ coder \in CoderType(from, to)
  /\ \A i \in DOMAIN out :
       out[i] \in CASE to = 8 -> Byte [] to = 16 -> CodeUnit16 [] to = 32 -> CodePoint

(***************************************************************************)
(* No call writes more code units than the buffer that transcode_view      *)
(* keeps for the output of one fill.                                       *)
(***************************************************************************)
WithinBuffer == Len(out) <= max_output_bytes(from, to)

(***************************************************************************)
(* Every call writes whole code points: whatever the input, what has been  *)
(* written can be cut after any call and is well-formed text.              *)
(***************************************************************************)
WholeCodePoints == reader.well_formed /\ ~ decoder_partial(to, reader)

(***************************************************************************)
(* Conversion preserves the text: what is written, decoded again, is what  *)
(* decoding the input gives, call by call, U+FFFD for U+FFFD.              *)
(***************************************************************************)
TextPreserved == read = expected

(***************************************************************************)
(* And it is the encoding that the authors of the tests expect: what is    *)
(* written for the characters they name is what they have written out,     *)
(* whichever encoding these were in before.                                *)
(***************************************************************************)
AsTestsExpect ==
  (\A i \in DOMAIN expected : expected[i] \in NamedChars) =>
    out = FlattenSeq([i \in DOMAIN expected |-> encoded_char(expected[i], to)])

(***************************************************************************)
(* length() and index() agree with the decoders on well-formed text: one   *)
(* start per code point written, and decoding from the k-th start yields   *)
(* everything from the k-th code point on.                                 *)
(***************************************************************************)
StartsAgreeWithDecoding ==
  /\ length(to, out) = Len(read)
  /\ \A k \in 0 .. Len(read) :
       decoded(to, decoder(to), SubSeq(out, index(to, out, k), Len(out))).out
         = SubSeq(read, k + 1, Len(read))

(***************************************************************************)
(* Both observers tell of the input alone: a conversion through UTF-32     *)
(* reports malformed and unfinished input exactly when its first stage     *)
(* does, its second stage never being given anything malformed.            *)
(***************************************************************************)
ObserversAgree ==
  /\ well_formed(from, to, coder) = reference.well_formed
  /\ partial(from, to, coder) = decoder_partial(from, reference)

(***************************************************************************)
(* The report of malformed input is never taken back, not by a change of   *)
(* encoding either, and always comes with a U+FFFD written by the same     *)
(* call.                                                                   *)
(***************************************************************************)
MalformedIsReported ==
  [][ /\ well_formed(from, to, coder)' => well_formed(from, to, coder)
      /\ (well_formed(from, to, coder) /\ ~ well_formed(from, to, coder)')
           => \E i \in DOMAIN read' : read'[i] = replacement_char ]_vars

(***************************************************************************)
(* A program that never stops feeding code units, in whatever encodings,   *)
(* never stops receiving some, malformed as its input may be.              *)
(***************************************************************************)
EndlessOutput == []<>(out # <<>>)
=============================================================================
