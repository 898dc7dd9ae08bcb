----------------------------- MODULE MCByteStream -----------------------------
(***************************************************************************)
(* Streams that begin like a mark, or like none: all sequences of up to    *)
(* three bytes of the marks; and each mark followed by up to four bytes,   *)
(* that make characters, surrogate pairs in either byte order, values      *)
(* beyond U+10FFFF and incomplete code units, or by U+0041 U+1F600 in      *)
(* UTF-32, in either byte order.                                           *)
(***************************************************************************)
EXTENDS ByteStream

AnyOf(bytes, n) == UNION {[1 .. k -> bytes] : k \in 0 .. n}

MCMarks ==
  {<<\hEF, \hBB, \hBF>>, <<\hFE, \hFF>>, <<\hFF, \hFE>>,
   <<0, 0, \hFE, \hFF>>, <<\hFF, \hFE, 0, 0>>}

MCPayloads ==
  AnyOf({0, \h41, \hD8, \hDC}, 4)
    \union Prefixes(<<0, 0, 0, \h41, 0, 1, \hF6, 0>>)
    \union Prefixes(<<\h41, 0, 0, 0, 0, \hF6, 1, 0>>)

MCInputs ==
  AnyOf({0, \h41, \hBB, \hBF, \hEF, \hFE, \hFF}, 3)
    \union UNION {Prefixes(mark) : mark \in MCMarks}
    \union {mark \o payload : mark \in MCMarks, payload \in MCPayloads}
=============================================================================
