--------------------------------- MODULE Utf8 ---------------------------------
(***************************************************************************)
(* The class transcoder<char8, char32_t> ("t8_32"): a UTF-8 decoder driven *)
(* by the table utf8d_.  An object of the class is a record of its three   *)
(* bit-fields; operator() and end_cp() are functions from an object (and a *)
(* code unit) to the object they leave and the code units they write.      *)
(***************************************************************************)
EXTENDS Unicode

(***************************************************************************)
(* The states, by their row in utf8d_ (the value of state_).  A state is   *)
(* named for what may follow: one, two or three continuation bytes, or a   *)
(* continuation byte restricted by the lead byte seen.                     *)
(***************************************************************************)
accept   == 0
reject   == 12
tail1    == 24
tail2    == 36
afterE0  == 48
afterED  == 60
afterF0  == 72
tail3    == 84
afterF4  == 96

State == {accept, reject, tail1, tail2, afterE0, afterED, afterF0, tail3, afterF4}

(***************************************************************************)
(* The first part of utf8d_: the class of each of the 256 bytes.           *)
(***************************************************************************)
all_110_leads  == \hC0 .. \hDF          \* with the two leads of overlong forms
two_byte_leads == \hC2 .. \hDF

class(b) ==
  CASE b \in \h00 .. \h7F                -> 0
    [] b \in \h80 .. \h8F                -> 1
    [] b \in \h90 .. \h9F                -> 9
    [] b \in \hA0 .. \hBF                -> 7
    [] b \in two_byte_leads              -> 2
    [] b = \hE0                          -> 10
    [] b = \hED                          -> 4
    [] b \in (\hE1 .. \hEF) \ {\hED}     -> 3
    [] b = \hF0                          -> 11
    [] b \in \hF1 .. \hF3                -> 6
    [] b = \hF4                          -> 5
    [] OTHER                             -> 8

(***************************************************************************)
(* The second part of utf8d_, by the state each pair <<state, class>>      *)
(* leads to; every pair that is not listed rejects.  First, the classes    *)
(* of continuation byte that may follow each kind of lead byte.            *)
(***************************************************************************)
any_tail == {1, 7, 9}                   \* 80..BF
E0_tail  == {7}                         \* A0..BF
ED_tail  == {1, 9}                      \* 80..9F
F0_tail  == {7, 9}                      \* 90..BF
F4_tail  == {1}                         \* 80..8F

transition(state, type) ==
  CASE \/ state = accept /\ type = 0
       \/ state = tail1 /\ type \in any_tail       -> accept
    [] \/ state = accept /\ type = 2
       \/ state = tail2 /\ type \in any_tail
       \/ state = afterE0 /\ type \in E0_tail
       \/ state = afterED /\ type \in ED_tail      -> tail1
    [] \/ state = accept /\ type = 3
       \/ state = tail3 /\ type \in any_tail
       \/ state = afterF0 /\ type \in F0_tail
       \/ state = afterF4 /\ type \in F4_tail      -> tail2
    [] state = accept /\ type = 10                 -> afterE0
    [] state = accept /\ type = 4                  -> afterED
    [] state = accept /\ type = 11                 -> afterF0
    [] state = accept /\ type = 6                  -> tail3
    [] state = accept /\ type = 5                  -> afterF4
    [] OTHER                                       -> reject

\* (0xFF >> type) & b: the payload bits of a lead byte of this class.
unmasked(type, b) == b
lead_payload(type, b) ==
  CASE type = 0 -> b
    [] type = 1 -> b % 128
    [] type = 2 -> b % 64
    [] type = 3 -> b % 32
    [] type = 4 -> b % 16
    [] type = 5 -> b % 8
    [] type = 6 -> b % 4
    [] type = 7 -> b % 2
    [] OTHER    -> 0

\* A constructed object; the explicit constructor chooses well_formed.
t8_32(wf) == [code_point |-> 0, well_formed |-> wf, state |-> accept]

\* The values of the bit-field code_point_: code_point_bits bits.
code_point_limit == 2097152
CodePointField == 0 .. code_point_limit - 1

T8_32 == [code_point : CodePointField, well_formed : BOOLEAN, state : State]

(***************************************************************************)
(* The values that code_point_ may have in each state: those from which    *)
(* the bytes that may follow make neither an overlong form nor a surrogate *)
(* nor anything past U+10FFFF.  After end_cp() what was assembled is left. *)
(***************************************************************************)
MayHold(state, cp) ==
  \/ state = accept /\ cp < code_point_limit
  \/ state = reject /\ cp <= 17407
  \/ state = tail1 /\ 2 <= cp /\ cp <= 17407 /\ ~ (864 <= cp /\ cp <= 895)
  \/ state = tail2 /\ 1 <= cp /\ cp <= 271 /\ cp # 13
  \/ state \in {afterE0, afterF0} /\ cp = 0
  \/ state = afterED /\ cp = 13
  \/ state = tail3 /\ 1 <= cp /\ cp <= 3
  \/ state = afterF4 /\ cp = 4

\* code_point_ after a byte, truncated to its 21 bits.
shifted(t, b) ==
  IF t.state # accept
  THEN (64 * t.code_point + (b % 64)) % code_point_limit
  ELSE lead_payload(class(b), b)

\* The two ways a code point ends: it is written, or U+FFFD is in its place.
accepted(t, cp) == Result([t EXCEPT !.code_point = cp, !.state = accept], <<cp>>)

rejected_with(cp, units) ==
  Result([code_point |-> cp, state |-> accept, well_formed |-> FALSE], units)
rejected_silently(cp) == rejected_with(cp, <<>>)
rejected(cp) == rejected_with(cp, <<replacement_char>>)

t8_32_call(t, b) ==
  LET cp == shifted(t, b)
      s  == transition(t.state, class(b))
  IN  CASE s = accept -> accepted(t, cp)
        [] s = reject -> rejected(cp)
        [] OTHER      -> Result([t EXCEPT !.code_point = cp, !.state = s], <<>>)

t8_32_end_cp(t) ==
  IF t.state # accept
  THEN Result([t EXCEPT !.state = reject, !.well_formed = FALSE], <<replacement_char>>)
  ELSE Result(t, <<>>)

t8_32_partial(t) == t.state # accept
=============================================================================
