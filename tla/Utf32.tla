-------------------------------- MODULE Utf32 --------------------------------
(***************************************************************************)
(* The three classes that read UTF-32: transcoder<char32_t, char8>,        *)
(* transcoder<char32_t, char16_t> and transcoder<char32_t, char32_t>.      *)
(* Their only state is well_formed_; partial() is always false and         *)
(* end_cp() writes nothing and changes nothing.                            *)
(***************************************************************************)
EXTENDS Unicode

t32_x(wf) == [well_formed |-> wf]

T32_X == [well_formed : BOOLEAN]

\* write_continuation's byte: six bits of the code point under 10xxxxxx.
tail_byte_unmasked(bits) == \h80 + bits
tail_byte(bits) == \h80 + (bits % 64)

write2(cp) == <<\hC0 + cp \div 64, tail_byte(cp)>>
write3_tails_swapped(cp) == <<\hE0 + cp \div 4096, tail_byte(cp), tail_byte(cp \div 64)>>
write3(cp) == <<\hE0 + cp \div 4096, tail_byte(cp \div 64), tail_byte(cp)>>
write4(cp) == <<\hF0 + cp \div 262144, tail_byte(cp \div 4096),
                tail_byte(cp \div 64), tail_byte(cp)>>

\* The code units written for a scalar value, by t32_8 and t32_16.
utf8(cp) ==
  CASE cp < \h80                         -> <<cp>>
    [] \h80 <= cp /\ cp < \h800          -> write2(cp)
    [] \h800 <= cp /\ cp < \h10000       -> write3(cp)
    [] OTHER                             -> write4(cp)

utf16_low_first(cp) ==
  IF cp <= \hFFFF THEN <<cp>>
  ELSE <<first_low_surrogate + (cp % 1024), first_high_surrogate - 64 + cp \div 1024>>
utf16(cp) ==
  IF cp <= \hFFFF THEN <<cp>>
  ELSE <<first_high_surrogate - 64 + cp \div 1024, first_low_surrogate + (cp % 1024)>>

encode(encoding, cp) ==
  CASE encoding = 8  -> utf8(cp)
    [] encoding = 16 -> utf16(cp)
    [] encoding = 32 -> <<cp>>

\* operator() of the three classes: what is not a scalar value is replaced.
t32_x_call(to, t, unit) ==
  IF IsScalar(unit)
  THEN Result(t, encode(to, unit))
  ELSE Result(t32_x(FALSE), encode(to, replacement_char))
=============================================================================
