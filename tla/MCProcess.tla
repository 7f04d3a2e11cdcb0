----------------------------- MODULE MCProcess -----------------------------
(***************************************************************************)
(* Instances of CommandLine for TLC: two special forms and two primitives, *)
(* first capacities that these exceed, and command lines of up to three    *)
(* arguments.                                                              *)
(***************************************************************************)
EXTENDS CommandLine

MCSpecialForms == <<"quote", "if">>
MCBuiltins == <<"car", "list">>

Caller(w, a, t, s, p, b) ==
    [who |-> w, args |-> a, table |-> t, source |-> s, prompts |-> p, breaks |-> b]
Mains(a, s, p) == Caller("main", a, "whole", s, p, {"stdout"})
Forms == {"value", "define", "show", "wrong"}
Vectors == SeqOf({"--", "-h", "-e", "-x", "-", "f"}, 3)
Modes == {<<"-e", "x">>, <<"f">>, <<"-">>, <<>>}

MCCallers ==
    {Mains(a, <<>>, FALSE) : a \in Vectors}
    \cup {Mains(a, s, FALSE) : a \in Modes, s \in SeqOf(Forms, 2)}
    \cup {Mains(<<>>, s, TRUE) : s \in SeqOf(Forms, 2)}
    \cup {Caller("embedder", <<>>, "whole", s, p, {b}) :
            s \in SeqOf(Forms, 1) \cup {<<"define", "show">>}, p \in BOOLEAN, b \in {"stdout", "log"}}
    \cup {Caller("embedder", <<>>, t, <<>>, FALSE, {}) : t \in {"partial", "misaligned"}}

\* The REPL in a pipe.
MCPipe == {Mains(<<>>, s, FALSE) : s \in SeqOf(Forms, 1)}
=============================================================================
