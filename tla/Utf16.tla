-------------------------------- MODULE Utf16 --------------------------------
(***************************************************************************)
(* The class transcoder<char16_t, char32_t> ("t16_32"): a UTF-16 decoder.  *)
(* An object is a record of its three bit-fields; operator() and end_cp()  *)
(* are functions to the object they leave and the code units they write.   *)
(***************************************************************************)
EXTENDS Unicode

t16_32(wf) == [high |-> 0, has_high |-> FALSE, well_formed |-> wf]

\* high_ has ten bits.
high_limit == 1024
HighField == 0 .. (high_limit - 1)

T16_32 == [high : HighField, has_high : BOOLEAN, well_formed : BOOLEAN]

adjusted_from_1(unit) == unit - first_high_surrogate + 1
adjusted_high(unit) == unit - first_high_surrogate

\* The object that remembers a high surrogate, and the one that has none.
holding(t, unit) == [t EXCEPT !.high = adjusted_high(unit), !.has_high = TRUE]
unmarked(t) == [t EXCEPT !.has_high = FALSE]
released(t) == [t EXCEPT !.high = 0, !.has_high = FALSE]
ill_formed(t) == [t EXCEPT !.well_formed = FALSE]

combined(high, low) == 1024 * high + (low - first_low_surrogate) + \h10000

\* A unit that is a code point, and a low surrogate with no high one before it.
passed_through(t, unit) == Result(t, <<unit>>)
lone_low(t, unit) == Result(ill_formed(t), <<replacement_char>>)

\* operator() when no high surrogate is waiting.
call_without_high(t, unit) ==
  CASE is_high_surrogate(unit) -> Result(holding(t, unit), <<>>)
    [] is_low_surrogate(unit)  -> lone_low(t, unit)
    [] OTHER                   -> passed_through(t, unit)

\* What follows a high surrogate that is not the low one of its pair.
replaced_alone(t, unit) == Result(ill_formed(released(t)), <<replacement_char>>)
dropped_before(t, unit) == Result(ill_formed(released(t)), <<unit>>)
replaced_before(t, unit) == Result(ill_formed(released(t)), <<replacement_char, unit>>)

\* operator() after a high surrogate.
call_with_high(t, unit) ==
  CASE is_low_surrogate(unit)  -> Result(released(t), <<combined(t.high, unit)>>)
    [] is_high_surrogate(unit) -> Result(ill_formed(holding(t, unit)), <<replacement_char>>)
    [] OTHER                   -> replaced_before(t, unit)

t16_32_call(t, unit) ==
  IF t.has_high THEN call_with_high(t, unit) ELSE call_without_high(t, unit)

t16_32_end_cp(t) ==
  IF t.has_high
  THEN Result(ill_formed(released(t)), <<replacement_char>>)
  ELSE Result(t, <<>>)

t16_32_partial(t) == t.has_high
=============================================================================
