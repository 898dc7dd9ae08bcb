---------------------------- MODULE AnyTranscoder -----------------------------
(***************************************************************************)
(* transcoder<FromEncoding, ToEncoding> for every FromEncoding there is:   *)
(* the three encodings, and std::byte, whose class finds the encoding out. *)
(* This is what transcode_view and icubaby::iterator are templates over.   *)
(***************************************************************************)
EXTENDS ByteTranscoder

std_byte == 0

InputTypes == Encodings \union {std_byte}

any_transcoder(from, to) ==
  IF from = std_byte THEN byte_transcoder ELSE transcoder(from, to)

any_call(from, to, t, unit) ==
  IF from = std_byte THEN byte_call(to, t, unit) ELSE call(from, to, t, unit)

any_end_cp(from, to, t) ==
  IF from = std_byte THEN byte_end_cp(to, t) ELSE end_cp(from, to, t)

any_well_formed(from, to, t) ==
  IF from = std_byte THEN byte_well_formed(to, t) ELSE well_formed(from, to, t)

(***************************************************************************)
(* A conversion by hand: a transcoder is given the units one by one, and   *)
(* then told of their end.                                                 *)
(***************************************************************************)
fed(from, to, units) ==
  FoldLeft(LAMBDA r, unit : then(r, any_call(from, to, r.coder, unit)),
           Result(any_transcoder(from, to), <<>>), units)

ended_by_hand(from, to, r) == then(r, any_end_cp(from, to, r.coder))
fed_all(from, to, units) == ended_by_hand(from, to, fed(from, to, units))
=============================================================================
