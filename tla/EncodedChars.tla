----------------------------- MODULE EncodedChars -----------------------------
(***************************************************************************)
(* encoded_char: the characters the unit tests name, and what their        *)
(* authors expect each of them to be in the three encodings, written out   *)
(* by hand there and here.  It owes nothing to the transcoders.            *)
(***************************************************************************)
EXTENDS TLC, Sequences

one_byte_chars == {\h1, \h2, \hA, \h24, \h30, \h31, \h32, \h33}

longer_utf8 ==
  \h80 :> <<\hC2, \h80>> @@ \hA2 :> <<\hC2, \hA2>> @@
  \hB6 :> <<\hC2, \hB6>> @@ \h939 :> <<\hE0, \hA4, \hB9>> @@
  \h2603 :> <<\hE2, \h98, \h83>> @@ \h3044 :> <<\hE3, \h81, \h84>> @@
  \h3046 :> <<\hE3, \h81, \h86>> @@ \h304A :> <<\hE3, \h81, \h8A>> @@
  \h3053 :> <<\hE3, \h81, \h93>> @@ \h3054 :> <<\hE3, \h81, \h94>> @@
  \h3056 :> <<\hE3, \h81, \h96>> @@ \h3059 :> <<\hE3, \h81, \h99>> @@
  \h3061 :> <<\hE3, \h81, \hA1>> @@ \h306B :> <<\hE3, \h81, \hAB>> @@
  \h306F :> <<\hE3, \h81, \hAF>> @@ \h307E :> <<\hE3, \h81, \hBE>> @@
  \h3088 :> <<\hE3, \h82, \h88>> @@ \h3093 :> <<\hE3, \h82, \h93>> @@
  \h4E16 :> <<\hE4, \hB8, \h96>> @@ \h754C :> <<\hE7, \h95, \h8C>> @@
  \hFFFD :> <<\hEF, \hBF, \hBD>> @@ \hFFFF :> <<\hEF, \hBF, \hBF>> @@
  \h10000 :> <<\hF0, \h90, \h80, \h80>> @@ \h10348 :> <<\hF0, \h90, \h8D, \h88>> @@
  \h12345 :> <<\hF0, \h92, \h8D, \h85>> @@ \h1F4A9 :> <<\hF0, \h9F, \h92, \hA9>> @@
  \h2070E :> <<\hF0, \hA0, \h9C, \h8E>> @@ \h20731 :> <<\hF0, \hA0, \h9C, \hB1>> @@
  \h20779 :> <<\hF0, \hA0, \h9D, \hB9>> @@ \h20C53 :> <<\hF0, \hA0, \hB1, \h93>> @@
  \h10FFFF :> <<\hF4, \h8F, \hBF, \hBF>>

surrogate_pairs ==
  \h10000 :> <<\hD800, \hDC00>> @@ \h10348 :> <<\hD800, \hDF48>> @@
  \h12345 :> <<\hD808, \hDF45>> @@ \h1F4A9 :> <<\hD83D, \hDCA9>> @@
  \h2070E :> <<\hD841, \hDF0E>> @@ \h20731 :> <<\hD841, \hDF31>> @@
  \h20779 :> <<\hD841, \hDF79>> @@ \h20C53 :> <<\hD843, \hDC53>> @@
  \h10FFFF :> <<\hDBFF, \hDFFF>>

NamedChars == one_byte_chars \union DOMAIN longer_utf8

encoded_char(cp, encoding) ==
  CASE encoding = 8 /\ cp \in DOMAIN longer_utf8      -> longer_utf8[cp]
    [] encoding = 16 /\ cp \in DOMAIN surrogate_pairs -> surrogate_pairs[cp]
    [] OTHER                                          -> <<cp>>
=============================================================================
