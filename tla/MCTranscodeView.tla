--------------------------- MODULE MCTranscodeView ----------------------------
(***************************************************************************)
(* Every text of up to three code units from a few that begin, continue,   *)
(* end and break an encoding, and four-byte UTF-8 texts, into each of the  *)
(* three encodings; marked and unmarked bytes; a view and a copy, and two  *)
(* iterators.                                                              *)
(***************************************************************************)
EXTENDS TranscodeView

CONSTANTS i1, i2, v1, v2
MCIterators == {i1, i2}
MCViews == {v1, v2}

Texts(units, n) == UNION {[1 .. k -> units] : k \in 0 .. n}

MCTexts(encoding) ==
  CASE encoding = 8  -> Texts({\h41, \hC3, \hE0, \hA0}, 3)
                          \union {<<\hF0, b, \hA0, c>> : b \in {\h80, \h90}, c \in {\h41, \hA0}}
    [] encoding = 16 -> Texts({\h41, \hFFFF, \hD800, \hDFFF}, 3)
    [] encoding = 32 -> Texts({\h41, \h7FF, \hD800, \h10FFFF}, 2)

\* Streams of bytes: one of each mark, whole, cut short or broken off, with
\* text, an incomplete code unit or nothing after it; and none.
MCMarks ==
  {<<\hEF, \hBB, \hBF>>, <<\hFE, \hFF>>, <<\hFF, \hFE>>,
   <<0, 0, \hFE, \hFF>>, <<\hFF, \hFE, 0, 0>>}

MCRests ==
  {<<>>, <<\h41>>, <<0, \h41>>, <<\hC3, \hA9>>, <<\hD8, 0, \h41>>, <<\hD8, 0, 0, \h41>>,
   <<0, 0, 0, \h41>>}

MCByteTexts ==
  UNION {{cut \o rest : cut \in Prefixes(mark), rest \in MCRests} : mark \in MCMarks}

\* Texts for a range that can be passed over once only.
MCPassedOnce ==
  {<<8, t, s>> : t \in Encodings, s \in Texts({\h41, \hC3, \hA0}, 3)}
    \union {<<16, 8, s>> : s \in Texts({\h41, \hD800, \hDFFF}, 3)}
    \union {<<std_byte, t, s>> : t \in Encodings, s \in MCByteTexts}

MCOnceSources == {Append(s, TRUE) : s \in MCPassedOnce}

MCSources ==
  UNION {{<<f, t, s, FALSE>> : t \in Encodings, s \in MCTexts(f)} : f \in Encodings}
    \union {<<std_byte, t, s, FALSE>> : t \in Encodings, s \in MCByteTexts}
    \union MCOnceSources

\* Fewer: texts that write on the way, at the end, and never.
MCFewSources ==
  {<<8, t, s, FALSE>> : t \in {16, 32}, s \in Texts({\h41, \hC3, \hA0}, 3)}
    \union {<<16, 8, s, FALSE>> : s \in Texts({\h41, \hD800, \hDFFF}, 3)}

\* Streams of bytes only.
MCByteSources == {<<std_byte, t, s, FALSE>> : t \in Encodings, s \in MCByteTexts}
=============================================================================
