# Formal models of icubaby

icubaby is a header-only C++ library (`src/include/icubaby/icubaby.hpp`, 2404
lines) that converts text between UTF-8, UTF-16 and UTF-32, one code unit at a
time.  This directory models its run-time behaviour in TLA+, model-checks it with
TLC and, but for one comparison with a table, proves its safety properties with
TLAPS.  `PROJECT.json` maps each definition to the lines it models and lists runs,
mutants, hazards, findings and theorems.

## Inventory

The library keeps no global state and starts no threads.  What is hard is the
state that objects carry *between calls*: a program may call `operator()` and
`end_cp()` at any moment, on any code units, through several layers of objects
that each buffer something, and every sequence of calls must leave a sensible
state.  Every object below owns the one under it; calls go down, code units come
back up through an output iterator.

| Component | State | Operations | What makes it correct |
|---|---|---|---|
| Unicode vocabulary | none | surrogate and code-point-start predicates, `length`, `index` | starts agree with what the decoders take for code points |
| `t8_32` | `code_point_` (21 bits), `state_` (a row of the table `utf8d_`), `well_formed_` | `operator()`, `end_cp`, `partial`, `well_formed` | accepts exactly the encodings of scalar values, writes nothing else, loses no bits, cannot fall silent |
| `t16_32` | `high_` (10 bits), `has_high_`, `well_formed_` | the same | combines only adjacent pairs, drops no unit after an unpaired surrogate |
| `t32_8`, `t32_16`, `t32_32` | `well_formed_` | the same | write the one legal encoding of a scalar value |
| triangulators (`t8_8`, `t8_16`, `t16_8`, `t16_16`) | a decoder and an encoder | the same | preserve text, observers speak for the whole |
| byte transcoder (`tx_8`, `tx_16`, `tx_32`) | `state_` (19 states in 6 bits), `buffer_` (4 bytes), a variant with the transcoder selected | the same and `selected_encoding` | selects what the byte order mark announces, loses no byte on the way |
| `transcode_view`, its iterators | the view: `base_`, `mutable well_formed_`; an iterator: `parent_`, `current_`, `next_`, `out_`, `first_`, `last_`, a transcoder | `begin`, `end`, `*`, `++`, `==`; copies of views and of iterators | iterators yield the conversion, lazily; loops end; `out_` does not overflow and has an element when it is read |
| `icubaby::iterator` | a pointer to a transcoder, a copy of the destination iterator | `=`, `*`, `++`, `base`, `end_cp (it)`, copy | the destination ends up holding the conversion |

The transcoders between UTF-8 or UTF-16 and UTF-32, and the encoders, also have a
constructor that takes the value of `well_formed` of another object, for input
that changes its encoding.

The hard behaviours, each listed at its line under `hazards`: long input that
drives the UTF-8 table into a wrong entry; values at the ends of ranges and of
bit-fields; state left by `end_cp()` or by a broken pair and used later; buffers
sized by hand for the worst malformed input; two objects that must agree (state
and variant, intermediate and output transcoder); a byte order mark that is a
prefix of another; iterators that are copied in the middle of a code point and
share the view's flag, while copies of the view do not; a view of bytes, whose
transcoder may hold four bytes back; a range that can be passed over only once.

Not modelled: type lists, concepts and configuration macros (compile time only);
the range adaptor objects, which only construct a view; `valueless_by_exception`,
which static assertions rule out; the clamp for machines with bytes of more than
eight bits; iterators kept beyond the life of their view; more calls of a byte
transcoder after its `end_cp()`; what a program compiled with NDEBUG does after an
overflow of `out_`; the iconv and performance programs.  Of the tests and examples,
the table of expected encodings and the conversion by hand serve as references.

## Modules

| Module | Models |
|---|---|
| `Unicode` | constants, predicates, `length`, `index` |
| `Utf8`, `Utf16`, `Utf32` | the transcoder classes as pure operators: an object is a record of its fields, a call is a function to `Result(object left, code units written)` |
| `Utf8Stream`, `Utf16Stream` | what the decoders promise, without table or fields: code units wait as long as they are a prefix of an encoding the library's own *encoder* writes |
| `Utf8Decoder`, `Utf16Decoder` | one decoder and a program that calls it in any order; refine the two above |
| `Transcoders` | all nine transcoders behind one interface, triangulators included |
| `EncodedChars` | the characters of the unit tests and the encodings their authors expect |
| `Conversion` | transcoders whose output is read back, against decoders of their input, which may change its encoding |
| `ByteTranscoder` | the byte transcoder |
| `AnyTranscoder` | `transcoder<From, To>` for every input type, `std::byte` included; the conversion by hand |
| `ByteOrderMarks` | what a byte order mark means, stated without the machine that looks for one |
| `ByteStream` | a stream of bytes that may end anywhere |
| `LazyView` | what a view promises: its elements are the conversion, and no more input is looked at than the next of them needs |
| `TranscodeView` | a view of code units or bytes, copies of it, and iterators over them; refines `LazyView` |
| `OutputIterator` | copies of an `icubaby::iterator` over an appending or positional destination |
| `MC*` | the finite instances that the `.cfg` files check |

| Module of proofs | Proves |
|---|---|
| `FoldTheorems` | laws of `FoldLeft` for sequences of every length, for any operation |
| `Transcoders_proofs` | facts about the transcoders as operators: ranges, the table, bit-fields, what one call does, that decoding undoes encoding, which objects of the byte transcoder there are, what it makes of each beginning of a stream |
| `Utf8Decoder_proofs`, `Utf16Decoder_proofs` | the invariants of the two decoders and that they implement their streams |
| `Conversion_proofs`, `ByteStream_proofs`, `OutputIterator_proofs` | the invariants of these three programs and their action properties; `length` and `index` of any text |
| `TranscodeView_proofs` | the invariants of views, and that views implement `LazyView` |

Layers: `Unicode` ← `Utf8`, `Utf16`, `Utf32` ← `Transcoders` ← `Conversion` (with
`EncodedChars`), `ByteTranscoder` ← `AnyTranscoder` ← `OutputIterator`,
`ByteOrderMarks` ← `ByteStream`, `TranscodeView`.  The abstract specifications know
no machine: `Utf8Stream` and `Utf16Stream` only an encoder, and `LazyView` takes the
conversion by hand as parameters, for which `TranscodeView` puts that of
`AnyTranscoder`.  No module declares a RECURSIVE operator, so that all can be proved
about.

Correspondence with the code.  `accept`, `tail1`, … are the rows of `utf8d_`, by
the byte offset that `state_` holds; `class` and `transition` are the table's two
parts, written as the sets of bytes and of classes that share an entry.
Bit-fields are kept to their width (`code_point_limit`, `high_limit`).  In the two
decoders `given` and `out` record the last call's code unit and output, so that the
stream specifications tell a call of `operator()` from one of `end_cp()`.  The
byte transcoder's states are records of the fields that the source packs into the
bits of one byte; `underlying` packs them, and `packed_set_byte`, … do what the masks
and shifts do, which `StateIsPacked` compares with the records.  In
`TranscodeView` a position in the underlying range is a number, the output array
is the sequence of the valid elements, and `fill` is one definition: the number of
code units consumed is the least that writes something, or all.  Its assertions are
the variable `failed`, after which the program has stopped.  Of a single-pass range
all iterators are at the end together, so `current_`, a copy of `next_` taken
before it moves, is (`at_end`).  The parent of an iterator is the view it was begun
from; comparing iterators of different views is left to `equal`.  A `char32_t` with
its top bit set, which no transcoder distinguishes from another value beyond
U+10FFFF, is represented by 7FFFFFFF, TLC's integers having 32 bits.

A few definitions that no other uses (`unmasked`, `all_110_leads`, `longest_for`,
…) are deliberately wrong versions of the definition that follows them.  Put in its
place they make the property named under `mutants` fail, which shows that the
property depends on it.

## Runs

| Run | Question | Bounds |
|---|---|---|
| `utf8_decoder` | fields, scalar output, nothing truncated, refinement of `Utf8Stream`; does output ever stop? | both ends of every byte class (24 bytes), unbounded input: the state space is finite; fairness: the program goes on calling `operator()` |
| `utf16_decoder` | the same as the first, for UTF-16 | units at and inside the surrogate ranges, unbounded input |
| `conversion` | does text survive all nine conversions, and a change of encoding on the way? is it what the tests expect? does output ever stop? | units at the ends of the encoders' ranges, the characters of the tests, unbounded input; fairness: the program goes on feeding |
| `view` | iterators over views: do they yield the conversion, lazily? do loops end? | every text of up to 3 code units (2 of UTF-32) over 4 and four-byte UTF-8 texts; marks, whole or cut, each followed by nothing, text or part of a unit; a view and a copy, two iterators; fairness: loops go on |
| `byte_stream` | selection and conversion of byte streams; the packed state | all streams of up to 3 bytes of the marks, each mark followed by up to 4 bytes or two UTF-32 units, ended after any byte |
| `output_iterator` | does the destination hold the conversion? | an iterator and a copy; 4 assignments, enough for the longest sequence and a unit that breaks it |
| `view_equality`, `view_bytes`, `view_single_pass`, `byte_mark`, `byte_end`, `byte_cut` | the statements under Findings | the instances above; for views, fewer texts |

`output_iterator` leaves out `*it++ = unit` where the destination is a position, for
which `HoldsConversion` is false; what happens there is proved (see Proofs).

The bounds suffice because the decoders' reaction to a byte depends on its class
only (each has its ends among the bytes), an encoder's on the range of the code
point, and no object remembers more than four units; a view's array is refilled
at least twice within the texts checked, and two iterators, of one view or of two,
are enough for one to overtake the other and for their flags to differ.

Fairness.  The library starts nothing on its own, so fairness is the program's: a
loop that feeds a transcoder (`FairSpec` of `Utf8Decoder` and of `Conversion`) or
increments an iterator until it reaches the end (`FairSpec` of `TranscodeView`)
goes on.  The last two are weak fairness with the enabling condition written out,
always true for `Conversion` and `CanRead` for a view, since evaluating ENABLED
through the whole conversion is costly.

CHECK_DEADLOCK is off where the program may end its stream (`ByteStream`,
`OutputIterator`) and for views, where a failed assertion stops it; everywhere else
every state must have a successor.

What the passing runs show, property by property, is in the comment on each
property.  The main ones:

- `StreamSpec` (both decoders): a decoder accepts what the encoder writes and
  nothing else, and answers each code unit, for every order of calls, `end_cp()` in
  mid-sequence included.
- `TextPreserved`, `WholeCodePoints`: a converted text, read back, is the
  decoded input, after every call; `AsTestsExpect`: it is the text that the unit
  tests have written out; `EndlessOutput`: endless input, malformed or not, is
  answered through both stages of a triangulator.
- `SameAsByHand`, `ViewKnows`, `LoopsEnd`: whatever is done with other iterators,
  each yields nothing but the conversion, and all of it if the range can be passed
  over again (for the other ranges see `view_single_pass`); the flag they share is right.
- `LazySpec`: views implement `LazyView`: an element is made of, and malformed input
  reported for, the shortest beginning of the text that decides it, and a view and
  its copy report separately.
- `OverflowsInBytesOnly`, `NeverEmpty`: the assertions of `fill`, `front` and
  `advance` hold, except for bytes, in the cases named there.
- `ConvertsAsSelected`: the byte transcoder converts exactly the bytes after the
  mark with the encoding it selected, replaying an abandoned mark; `well_formed()`
  speaks for the complete code units, and so does `partial()` between two of them
  (within one, see `byte_cut`).

## Findings

Six runs check a statement of the documentation that the code does not keep:

- `view_equality`: an iterator and a copy that has advanced within the output of
  one code point compare equal (only `current_` is compared).
- `view_bytes`: a view of `std::byte` has the general, small `out_`, but giving up a
  mark replays up to four bytes: FF FE to UTF-8 or 00 41 to UTF-32 writes past its
  end.  So does malformed UTF-16 after its mark, for which one call may write two code
  points: FE FF D8 00 00 41 to UTF-32.  And where a text is a mark alone, or ends within a code unit (FE FF 00 41
  00), an iterator that is not at the end has no element, on which `front` asserts.
- `byte_mark`: FF FE 00 41, the UTF-16 LE mark and U+4100, is converted as UTF-8.
  `SelectsAnnounced` shows that this (`Misread`) is the only wrong selection of a
  stream that has not ended.
- `byte_end`: ending a stream that consists of the first bytes of a mark replays
  one byte of `buffer_` that was never received.
- `byte_cut`: of a stream that ends within a UTF-16 or UTF-32 code unit (FE FF 00)
  nobody is told: `partial()`, which asks the held transcoder only, is false before
  the end, `end_cp` writes nothing, and `well_formed()` is true after it.  The two
  sentences about `partial()` and `end_cp` are refuted by the same step.
- `view_single_pass`: an iterator over a single-pass range, which the concepts admit,
  is equal to the end as soon as the input is used up, so that the elements of its
  last array are never read: a view of one byte yields nothing.

A seventh is a theorem instead, `PostIncrementRewrites`: over a position, every
`*it++ = unit` writes at the beginning of the destination, since `operator++ (int)`
returns a copy and only the copy moves, although the class is declared an output
iterator; with `std::back_inserter`, as in the library's README, it works.

Seen while modelling, without a run of their own: a copied view, as range adaptors make,
has a `well_formed_` of its own, so that the original does not learn what iterating
over a pipeline finds (`LazySpec`); and `docs/byte_transcoder.dot` exchanges the transitions that leave
`utf32_or_16_le_bom_byte2`, where the code takes 00, not other bytes, for the
UTF-32 mark.

## Proofs

Everything below holds for every value of the constants, sequences of calls of
every length and, where a destination or a stream is involved, of every size.
The assumptions are the `ASSUME`s of the modules, which say that a program passes
what the C++ types admit and nothing more: bytes (`BytesAssumption`), 16-bit code
units (`UnitsAssumption` of `Utf16Decoder`), code units of the encoding that is
read (`PairsAssumption` and `UnitsAssumption` of `Conversion`), streams that make
such code units, or of bytes (`InputsAssumption`), iterator programs of the forms there
are, and a natural bound on the number of assignments (`ProgramsAssumption`,
`UnitsAssumption`, `BoundAssumption` of `OutputIterator`), a first view
(`ViewsAssumption`) and texts of code units of their encoding, or of bytes
(`SourcesAssumption` of `TranscodeView`).

### The decoders

`Utf8Decoder_proofs`: `TypeCorrect` (`[]TypeOK`), `WritesScalars`
(`[]OutIsScalar`), `PartialValueHolds` (`[]PartialValue`), `NoBitLost`
(`[]NothingTruncated`) and `ImplementsStream` (`Spec => StreamSpec`).  Neither
`TypeOK` nor `OutIsScalar` is inductive: that an accepted value is a scalar value
depends on what was assembled before the last byte.  The inductive invariant
`IInv` adds `PartialValue`, the interval of values each row of the table may hold
(with 13 left out two bytes before the end of a three-byte sequence, and 864–895
one byte before, where surrogates would come of it).  Lemmas give the table row by
row (`ClassOfByte`, `LeadClass`, `RowOfAccept`, `RowsOfTails`) and the arithmetic
of one shift (`ShiftIn`, `LeadValue`); `NextValue` combines them into one step;
`CallIInv` and `EndCpIInv` are the two actions.

The refinement says that the table accepts what the *encoder* writes, which the
table knows nothing of.  `Encoding1`–`4` and `Prefix1`–`4` work out, from the
encoder's arithmetic, which one to four bytes are an encoding or begin one
(`Second`: the restricted second bytes after E0, ED, F0 and F4 come out of it);
`bytes_of` recovers the waiting bytes from state and value; `TableReads` then shows,
state by state, that the table's next state is the right answer for them and the
byte received, and `CallRefines`, `CallWhenCutRefines` and `EndCpRefines` turn this
into steps of `Utf8Stream`.

`Utf16Decoder_proofs`: `TypeCorrect`, `WritesScalars`, `HighForgotten`
(`[]NoStaleHigh`), together inductive, and `ImplementsStream`, by what `Utf16Stream`
takes for encodings (`SingleEncoding`, `SinglePrefix`, `PairEncoding`) and one lemma
for each branch of `operator()` and `end_cp()`.

### Text of every length

What a transcoder makes of a text is a fold over it, so statements about texts
need induction.  The library's induction rules take an operator as a parameter,
which the provers cannot instantiate; `FoldTheorems` therefore states induction for
a *set* of naturals (a non-empty one has a least element), which follows from the
well-foundedness of strict inclusion of finite sets, and proves the laws of
`FoldLeft` that are needed (`FoldAppend`, `FoldConcat`, …) for one operation `Step`,
a CONSTANT.  Each folded operation is an instance: `Copying` (triangulator::copy),
`Decoding`, `Feeding`, `Replaying` (the byte transcoder's `buffer_`).

`Transcoders_proofs!RoundTrip` is the central fact about the operators: for every
sequence of scalar values and each encoding, a decoder at rest that is given what
the encoders write for it writes the same sequence, and is at rest again.

### Conversions

`Conversion_proofs` proves `TypeOK`, `WithinBuffer`, `WholeCodePoints`,
`TextPreserved`, `ObserversAgree` and the action property `MalformedIsReported`, for
all nine transcoders.  The inductive invariant `CInv` says that the transcoder is
its reference decoder with an encoder behind it (`ConvertsReference`), that what
the last call wrote is the encoding of what the reference wrote (`WritesEncoded`), and
that the reader has read just that and is between two encodings (`ReadsBack`).
`CallEncodes` and `EndCpEncodes` establish the first two for each call, `RoundTrip`
the third.  Before `CInv`, `WholeCodePoints` is not inductive: that the reader is at rest
says nothing of what the transcoder will write next.

`StartsAgreeWithDecoding` follows from `StartsOfText`, about every text in each
encoding.  `OnlyFirstStarts` reads off the encoder's arithmetic that the first unit
of an encoding is a code point start and no later one is; by induction over the text
there are as many starts as code points (`LengthOfText`), and as the starts of a
concatenation are those of its parts (`StartsOfConcat`), the one that `index` finds
is where the text may be cut in two (`IndexOfCut`).  `RoundTrip` does the rest.

### Streams of bytes

What a machine makes of each beginning of a stream is in `Transcoders_proofs`, for
views of bytes to use as well: the marks byte by byte (`MarkTable`), the machine that
waits and the one that runs.  `ByteStream_proofs` proves `TypeOK`, `StateIsPacked`,
`VariantFollowsState`, `SelectsAnnounced`, `ConvertsAsSelected`, `WaitsForMark` and the action property `SelectionIsFinal`.  The
inductive invariant `BInv` distinguishes two phases.  While the mark may go on
(`Waits`), the machine's state is that of the bytes received, which are the beginning
of a mark and lie in `buffer_`; from then on (`Converts`), the transcoder in the
variant is one that has been given exactly the complete code units of the bytes after
the mark, and `buffer_` holds the bytes of the incomplete one (`RunsOn`).
`EndsAsUtf8` and `EndsAsSelected` are the same after the end of the stream in either
phase.  `StateIsPacked` follows from `TypeOK`, state by state, by the arithmetic of
`PackedBits`.  `SelectsAnnounced` keeps its exception `Misread`, as the code does (see
Findings).

### The output iterator

`OutputIterator_proofs` proves `TypeOK`, `HoldsConversion` and the action property
`NothingOverwritten`, for any number of iterators and assignments.  `OInv` says that
the shared transcoder has been given exactly what was assigned, in order
(`TranscoderGivenAll`), that the destination holds what it wrote
(`StoresConversion`) and that usable iterators stand at its end (`StandsAtEnd`).
The last two properties have the hypothesis `NoneRewrites`: no program assigns to an array
position through `it++`, the use in which the code does not keep them:
`PostIncrementRewrites` says what it does instead, from the invariant `Unmoved` that no
iterator leaves the beginning before the end.

### Views

`TranscodeView_proofs` proves `TypeOK`, `OverflowsInBytesOnly`, `NeverEmpty`,
`SameAsByHand`, `ViewKnows` and `Spec => LazySpec`, for every text, any number of
copies of the view and any number of iterators.

`SameAsByHand` is proved as it is stated: a beginning of the conversion for every
range, and all of it for those that can be passed over again.  It is not inductive: it
says nothing of the transcoders that will make the next elements.  The inductive
invariant `IInv` says where each iterator that is held stands (`Stands`): its
transcoder is the one that converts by hand the units
consumed (`upto`), or all of them and the end; what has been read, followed by the rest
of the array, is what that wrote (`Midway`, `AtLast`); what had been consumed before
the last unit did not make an element more than those already read (`IsLazy`); and
an iterator with an empty array is at the end, unless the view is of bytes
(`IsFull`).  Further, the array is within its size; the transcoders of the iterators of
a view that says well formed say so too; and one that does not is a view of
malformed input (`AccusesMalformed`).

Two facts about folds carry the proof: conversion by hand only ever appends
(`UptoGrows`), and what its transcoder has found malformed stays so (`UptoKnows`).
`Unfolds` shows that the function `after` inside `fill` is that conversion, so that
`FillMakes` and `FillAtEnd` give what a refill leaves, and `ConstructedStands`,
`AdvancedStands`, `RefilledStands` and `EndedStands` the iterator after each thing it
can do.

For the size of the array `LastWrites` bounds what a call and the end after it write
together, decoder by decoder.  In a view of bytes `ByteArrayFits` follows the machine
through the stream: while a mark may go on nothing is written, nor by the byte that
completes one, and from then on the bound is that of the encoding selected, one code
point but for malformed UTF-16.  `MayOverflow` is just what remains, and both of its
cases do overflow (see `view_bytes` under Findings).

The refinement maps the flags of the views to `accused` and the iterators' parents to
`parent`; positions, arrays and transcoders are forgotten.  `ConsumesWhatIsNeeded`
shows, from `IsLazy` and `UptoGrows`, that an iterator knows of malformed input just what
the units say that `LazyView` looks at, and `ReadsElements` that the element read is the
next of the conversion; then there is one lemma for each action (`BeginIsLazy`,
`ReadIsLazy`, `CopyViewIsLazy`, `CopyIsLazy`).  A step whose array overflows is a
stutter (`BecomesStutter`).

### Only model-checked

- Liveness (`EndlessOutput`, `LoopsEnd`): out of the prover's reach.
- `AsTestsExpect` of `Conversion`, which compares with a table of examples.
- The six findings: a violated statement needs a counterexample, not a proof.

## Plan

Done: the layers above, in the order vocabulary, decoders, encoders, conversions,
view, byte transcoder, output iterator; views of bytes, of single-pass ranges and
copies of views; changes of encoding; proofs of the three refinements and of all
safety properties but the comparison with the tests' table.

Next:

1. Calls of a byte transcoder after its `end_cp()`, as for the other transcoders.
2. A view of a view (`transcode<8, 16> | transcode<16, 32>`): laziness through both.
