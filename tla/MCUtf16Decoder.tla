--------------------------- MODULE MCUtf16Decoder ----------------------------
(***************************************************************************)
(* Both ends of the ranges of high and low surrogates, values inside them, *)
(* and the units just outside.                                             *)
(***************************************************************************)
EXTENDS Utf16Decoder

MCUnits ==
  {\h0, \h41, \h7FF, \h800, \hD7FF, \hE000, \hE001, \hFEFF, \hFFFD, \hFFFF,
   \hD800, \hD801, \hD83D, \hD900, \hDBFE, \hDBFF,
   \hDC00, \hDC01, \hDD00, \hDFFE, \hDFFF}
=============================================================================
