------------------------------ MODULE Grammar ------------------------------
(***************************************************************************)
(* What a text means, as the sets of all its readings: the grammar that    *)
(* the reader follows and the printer writes for.                          *)
(*                                                                         *)
(* A text is a sequence of tokens without the white space and comments     *)
(* between them: parentheses, the quote mark, a dot that stands alone, an   *)
(* atom by its name, a string literal by the name of its content.          *)
(***************************************************************************)
EXTENDS Heap

Symbols == {"a", "b", "quote", "."}
Strings == {"s", "t"}
Atoms == Symbols \cup Strings \cup {"1", "#t", "#f"}

\* A dot is a symbol wherever it is not an item of a list.
Denotes(token) ==
    CASE token = "1" -> Fix(1)
      [] token = "#t" -> True
      [] token = "#f" -> False
      [] token \in Strings -> Str(token)
      [] OTHER -> Sym(token)

At(t, i) == IF i <= Len(t) THEN t[i] ELSE "end"

\* Every <<j, term>> such that the tokens of t from i to j - 1 are a form that
\* opens at most `levels` nested lists.
RECURSIVE Forms(_, _, _), Items(_, _, _)
Forms(t, i, levels) ==
    CASE At(t, i) \in Atoms -> {<<i + 1, Denotes(t[i])>>}
      [] At(t, i) = "'" -> {<<f[1], <<"LIST", <<QuoteSymbol, f[2]>>, Nil>>>> : f \in Forms(t, i + 1, levels)}
      [] At(t, i) = "(" /\ At(t, i + 1) # "." /\ levels > 0 ->
            {<<l[1], ListTerm(l[2], l[3])>> : l \in Items(t, i + 1, levels - 1)}
      [] OTHER -> {}

\* Every <<j, elements, tail>> such that the tokens from i to j - 1 are what may
\* follow an opening parenthesis and its first elements.
Items(t, i, levels) ==
    CASE At(t, i) = ")" -> {<<i + 1, <<>>, Nil>>}
      [] At(t, i) = "." ->
            {<<f[1] + 1, <<>>, f[2]>> : f \in {x \in Forms(t, i + 1, levels) : At(t, x[1]) = ")"}}
      [] OTHER ->
            UNION {{<<l[1], <<f[2]>> \o l[2], l[3]>> : l \in Items(t, f[1], levels)} :
                    f \in Forms(t, i, levels)}

\* The forms of t from i on, up to the first that is not one.
RECURSIVE Data(_, _, _)
Data(t, i, levels) ==
    UNION {{<<f[2]>> \o rest : rest \in Data(t, f[1], levels)} : f \in Forms(t, i, levels)}
    \cup (IF Forms(t, i, levels) = {} THEN {<<>>} ELSE {})
=============================================================================
