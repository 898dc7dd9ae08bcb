--------------------------- MODULE MCOutputIterator ---------------------------
(***************************************************************************)
(* Every pair of encodings, and bytes to each; units that write nothing,   *)
(* one code unit, several, and U+FFFD; four assignments, enough for a      *)
(* four-byte sequence; an iterator and a copy.                             *)
(***************************************************************************)
EXTENDS OutputIterator

CONSTANTS o1, o2
MCObjects == {o1, o2}
MCSymmetry == Permutations(MCObjects)

MCUnits == [encoding \in InputTypes |->
  CASE encoding = 8  -> {\h41, \hC3, \hA9, \hF0, \h9F}
    [] encoding = 16 -> {\h41, \h20AC, \hD83D, \hDE00}
    [] encoding = 32 -> {\h41, \h1F600, \hD800}
    [] encoding = std_byte -> {\h00, \h41, \hFE, \hFF}]

\* Not *it++ = unit where out_ is a position.
MCForms == {<<"appends", "pre">>, <<"appends", "post">>, <<"position", "pre">>}

MCPrograms ==
  {<<f, t, form[1], form[2]>> : f \in InputTypes, t \in Encodings, form \in MCForms}
=============================================================================
