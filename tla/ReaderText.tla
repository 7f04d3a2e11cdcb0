----------------------------- MODULE ReaderText -----------------------------
(***************************************************************************)
(* What the reader makes of a text, against the grammar of the text.       *)
(***************************************************************************)
EXTENDS Reader, Grammar

\* t is the beginning of a form: an atom at most and then closing parentheses
\* complete it.  An unterminated string can be terminated.
Closed(t) == [i \in DOMAIN t |-> IF t[i] = "cut" THEN "s" ELSE t[i]]
Completable(t) ==
    \E n \in 0 .. Len(t), middle \in {<<>>, <<"a">>} :
        LET whole == Closed(t) \o middle \o [i \in 1 .. n |-> ")"]
        IN  \E f \in Forms(whole, 1, MaxReadDepth) : f[1] = Len(whole) + 1

-----------------------------------------------------------------------------
(***************************************************************************)
(* Properties.                                                             *)
(***************************************************************************)
\* What is read is what the text says: the forms of the grammar as far as it
\* has any, and OK exactly if the text has nothing else.
ReadsAsWritten ==
    Done /\ outcome # "NOMEM" =>
        /\ Data(text, 1, MaxReadDepth) = {data}
        /\ outcome = "OK" <=> start > Len(text)

\* The text of the form that was refused, up to where the reader stopped.
Refused == SubSeq(text, start, IF pos > Len(text) THEN Len(text) ELSE pos)

\* A caller that gets READ_TRUNCATED may ask for more text: what it has is the
\* beginning of a form.  READ_SYNTAX short of the end of the text is final: no
\* text could go on from there (microlisp.h:80-87).
ErrorsTellApart ==
    /\ outcome = "READ_TRUNCATED" => pos > Len(text) /\ Completable(Refused)
    /\ outcome = "READ_SYNTAX" /\ pos <= Len(text) => ~Completable(Refused)

\* microlisp.h:85-86: end of input in mid-form is READ_TRUNCATED.
TruncatedMidForm ==
    Done /\ pos > Len(text) /\ start <= Len(text) /\ Completable(SubSeq(text, start, Len(text)))
        => outcome = "READ_TRUNCATED"
=============================================================================
