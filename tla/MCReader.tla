------------------------------ MODULE MCReader ------------------------------
(***************************************************************************)
(* Reader on every short text.                                             *)
(***************************************************************************)
EXTENDS ReaderText

\* Every text of parentheses, quotes, dots and atoms of up to six tokens, and
\* every one with literals and malformed tokens of up to four.
Structured == BoundedSeq({"(", ")", "'", ".", "a"}, 6)
Literal ==
    {t \in BoundedSeq({"(", ")", "'", "s", "cut", "bad", "big"}, 4) :
        \A i \in 1 .. Len(t) - 1 : t[i] # "cut"}

AllTexts == Structured \cup Literal
DottedTexts == BoundedSeq({"(", ".", "a"}, 4)
=============================================================================
