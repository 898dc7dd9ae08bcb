---------------------------- MODULE MCUtf8Decoder ----------------------------
(***************************************************************************)
(* Every boundary of the byte classes of utf8d_, from both sides.          *)
(***************************************************************************)
EXTENDS Utf8Decoder

MCBytes ==
  {\h00, \h7F, \h80, \h8F, \h90, \h9F, \hA0, \hBF,
   \hC0, \hC1, \hC2, \hDF, \hE0, \hE1, \hEC, \hED, \hEE, \hEF,
   \hF0, \hF1, \hF3, \hF4, \hF5, \hFF}
=============================================================================
