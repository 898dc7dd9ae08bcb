----------------------------- MODULE Transcoders ------------------------------
(***************************************************************************)
(* The nine transcoders between UTF-8, UTF-16 and UTF-32 behind the one    *)
(* interface that the class template transcoder<From, To> gives them.  The *)
(* ones to UTF-32 and from UTF-32 are classes of their own; the other four *)
(* are a triangulator: a transcoder to UTF-32 followed by one from it.     *)
(***************************************************************************)
EXTENDS Utf8, Utf16, Utf32, SequencesExt

is_triangulator(from, to) == from # 32 /\ to # 32

\* The transcoders to UTF-32, by the encoding they read.
decoder(from) ==
  CASE from = 8 -> t8_32(TRUE) [] from = 16 -> t16_32(TRUE) [] from = 32 -> t32_x(TRUE)

decoder_call(from, d, unit) ==
  CASE from = 8  -> t8_32_call(d, unit)
    [] from = 16 -> t16_32_call(d, unit)
    [] from = 32 -> t32_x_call(32, d, unit)

decoder_end_cp(from, d) ==
  CASE from = 8  -> t8_32_end_cp(d)
    [] from = 16 -> t16_32_end_cp(d)
    [] from = 32 -> Result(d, <<>>)

decoder_partial(from, d) ==
  CASE from = 8  -> t8_32_partial(d)
    [] from = 16 -> t16_32_partial(d)
    [] from = 32 -> FALSE

\* What a later call returned, after what r has written.
then(r, later) == Result(later.coder, r.out \o later.out)

(***************************************************************************)
(* triangulator::copy: each intermediate UTF-32 code unit goes through the *)
(* output transcoder, in order.                                            *)
(***************************************************************************)
copy(to, output, units) ==
  FoldLeft(LAMBDA r, unit : then(r, t32_x_call(to, r.coder, unit)), Result(output, <<>>), units)

\* A triangulator passes on what its intermediate transcoder has written.
composed(decoder_left, copied) ==
  Result([intermediate |-> decoder_left, output |-> copied.coder], copied.out)

passed_on(to, t, intermediate) ==
  composed(intermediate.coder, copy(to, t.output, intermediate.out))

(***************************************************************************)
(* The interface: a constructed object, operator(), end_cp(), the two      *)
(* observers, and the most code units one call may write.                  *)
(***************************************************************************)
transcoder(from, to) ==
  IF is_triangulator(from, to)
  THEN [intermediate |-> decoder(from), output |-> t32_x(TRUE)]
  ELSE decoder(from)

call(from, to, t, unit) ==
  CASE is_triangulator(from, to) -> passed_on(to, t, decoder_call(from, t.intermediate, unit))
    [] from = 32                 -> t32_x_call(to, t, unit)
    [] OTHER                     -> decoder_call(from, t, unit)

end_cp(from, to, t) ==
  IF is_triangulator(from, to)
  THEN passed_on(to, t, decoder_end_cp(from, t.intermediate))
  ELSE decoder_end_cp(from, t)

well_formed(from, to, t) ==
  IF is_triangulator(from, to)
  THEN t.intermediate.well_formed /\ t.output.well_formed
  ELSE t.well_formed

partial_unless_triangulator(from, to, t) ==
  ~ is_triangulator(from, to) /\ decoder_partial(from, t)
partial(from, to, t) ==
  IF is_triangulator(from, to)
  THEN decoder_partial(from, t.intermediate)
  ELSE decoder_partial(from, t)

longest_for(from, to) == longest_sequence(to)
max_output_bytes(from, to) ==
  CASE from = 16 /\ to = 8  -> 6
    [] from = 16 /\ to = 32 -> 2
    [] OTHER                -> longest_sequence(to)
=============================================================================
