------------------------------ MODULE Interner ------------------------------
(***************************************************************************)
(* What the symbol table promises (microlisp_internal.h:234-241): a name   *)
(* has at most one symbol and a symbol one name, for the whole life of the *)
(* state, so that two symbols are the same name exactly when they are      *)
(* equal.                                                                  *)
(***************************************************************************)
CONSTANTS Name, Symbol, NoSymbol

VARIABLES
    known,  \* the pairs <<name, symbol>> that have been issued
    reply   \* the symbol the last call gave, or NoSymbol when it failed

vars == <<known, reply>>

Agree(p, q) == p[1] = q[1] <=> p[2] = q[2]

Init == known = {} /\ reply = NoSymbol

\* Interning gives the name's symbol, and a symbol nobody else has if it is new.
Intern(name, symbol) ==
    /\ \A p \in known : Agree(p, <<name, symbol>>)
    /\ known' = known \cup {<<name, symbol>>}
    /\ reply' = symbol

\* A call that fails issues nothing and takes nothing back.
Fail == reply' = NoSymbol /\ UNCHANGED known

Next == Fail \/ \E name \in Name, symbol \in Symbol : Intern(name, symbol)

Spec == Init /\ [][Next]_vars
=============================================================================
