---------------------------- MODULE MCConversion -----------------------------
(***************************************************************************)
(* All nine transcoders.  The bytes give every class of utf8d_; the units  *)
(* and code points lie at the ends of the ranges the encoders distinguish; *)
(* with characters of the tests among them, all of those in UTF-32.        *)
(***************************************************************************)
EXTENDS Conversion

MCPairs == Encodings \X Encodings

MCUnits == [encoding \in Encodings |->
  CASE encoding = 8  -> {\h41, \h80, \h9F, \hA0, \hC0, \hC2, \hDF, \hE0, \hE1,
                         \hED, \hF0, \hF1, \hF4, \h24, \hA2}
    [] encoding = 16 -> {\h7F, \h80, \h7FF, \h800, \hD7FF, \hE000, \hFFFF,
                         \hD800, \hDBFF, \hDC00, \hDFFF, \hD83D, \hDCA9, \h754C}
    [] encoding = 32 -> {\h7F, \h80, \h7FF, \h800, \hD7FF, \hD800, \hDFFF, \hE000,
                         \h110000, \h7FFFFFFF} \union NamedChars]
=============================================================================
