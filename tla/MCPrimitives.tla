---------------------------- MODULE MCPrimitives ----------------------------
(***************************************************************************)
(* Instances of Primitives for TLC: numbers of four bits in words of       *)
(* seven, all lists of few pairs, and limits that these exceed.            *)
(***************************************************************************)
EXTENDS Primitives

Words == {NilValue} \cup {Pack(n) : n \in FixMin .. FixMax}
Corners == {NilValue} \cup {Pack(n) : n \in {FixMin, FixMin + 1, -1, 0, 1, 2, FixMax}}

Two == [1 .. 2 -> Words]
Operands == {<<>>} \cup [1 .. 1 -> Words] \cup Two \cup [1 .. 3 -> Corners]
Digits == UNION {[1 .. n -> {0, 1, 3, 6, 7, 8, 9}] : n \in 1 .. 3}

MCCalls ==
    [op : {"+", "*"}, args : Operands]
    \cup [op : {"-", "/"}, args : Operands \ {<<>>}]
    \cup [op : {"quotient", "remainder", "modulo"}, args : Two]
    \cup [op : Comparisons, args : {a \in Operands : Len(a) >= 2}]
    \cup [op : Literals, args : Digits]

\* All lists of at most n pairs over some atoms, dotted ones among them.
RECURSIVE Terms(_, _)
Terms(atoms, n) ==
    atoms \cup
    (IF n = 0 THEN {} ELSE
     UNION {{ListTerm(<<a>>, d) : a \in Terms(atoms, i), d \in Terms(atoms, n - 1 - i)} :
            i \in 0 .. n - 1})

List(n) == <<"LIST", [i \in 1 .. n |-> Fix(1)], Nil>>
RECURSIVE Nested(_)
Nested(n) == IF n = 0 THEN Fix(1) ELSE <<"LIST", <<Nested(n - 1)>>, Nil>>

Case(left, right, shared) == [left |-> left, right |-> right, shared |-> shared]
Primitive == Ref(1)

Equated == Terms({Str("s"), Str("t")}, 2) \cup {Nil, Fix(1), Primitive}
Printed ==
    Terms({Nil, Str("t")}, 2) \cup Terms({Sym("a"), Sym(".")}, 3)
    \cup {Sym("quote"), Fix(1), True, Undef, Str("s"), Primitive}
    \cup {ListTerm(<<v>>, Nil) : v \in {Undef, Primitive, Sym("quote")}}

MCCases ==
    {Case(a, b, Undef) : a \in Equated, b \in Equated}
    \cup {Case(a, Nil, Undef) : a \in Printed}
    \cup {Case(a, b, s) : a \in {Fix(1), Str("s")}, b \in {Fix(1), Str("s")}, s \in {Nil, List(3), Nested(4)}}
    \cup {Case(List(m), List(n), Undef) : m \in 2 .. 4, n \in 2 .. 4}
    \cup {Case(Nested(m), Nested(n), Undef) : m \in 2 .. 4, n \in 2 .. 4}
=============================================================================
