-------------------------------- MODULE Heap --------------------------------
(***************************************************************************)
(* Values and heap cells, as pure operators over a heap h.                 *)
(*                                                                         *)
(* A value is a pair of a tag and a payload, as the low bits of an mvalue  *)
(* are (microlisp_internal.h:43-121).  A cell keeps its outgoing values in *)
(* `refs`: a pair its car and cdr, a closure its params, body and env, a   *)
(* frame its parent and then the bound values, whose names are in `names`. *)
(* A primitive has its name in `names`.                                    *)
(*                                                                         *)
(* Text is abstracted: a datum that the reader would produce is a term,    *)
(* an atom, a string by the name of its content, or                        *)
(* <<"LIST", elements, tail>>.                                             *)
(***************************************************************************)
EXTENDS Integers, Sequences, FiniteSetsExt, SequencesExt, Functions

CONSTANT HeapSize  \* the number of cells the model's memory has

ASSUME HeapAssumption == HeapSize \in Nat

Addr == 1 .. HeapSize

Sym(x) == <<"SYM", x>>
Fix(n) == <<"FIX", n>>
Ref(a) == <<"OBJ", a>>
Nil == <<"IMM", "nil">>
True == <<"IMM", "#t">>
False == <<"IMM", "#f">>
Undef == <<"IMM", "undef">>
Bool(b) == IF b THEN True ELSE False
Str(x) == <<"STR", x>>
QuoteSymbol == Sym("quote")

Cell(kind, refs, names) == [kind |-> kind, refs |-> refs, names |-> names]
Free == Cell("FREE", <<>>, <<>>)

IsSym(v) == v[1] = "SYM"
IsObj(v) == v[1] = "OBJ"
IsA(h, v, kind) == IsObj(v) /\ h[v[2]].kind = kind
IsPair(h, v) == IsA(h, v, "PAIR")
Truthy(v) == v # False

Car(h, v) == h[v[2]].refs[1]
Cdr(h, v) == h[v[2]].refs[2]

\* The address the embedder's allocator returns next.
Room(h) == \E a \in Addr : h[a] = Free
NextFree(h) == CHOOSE a \in Addr : h[a] = Free /\ \A b \in 1 .. a - 1 : h[b] # Free
Put(h, cell) == [h EXCEPT ![NextFree(h)] = cell]

-----------------------------------------------------------------------------
(***************************************************************************)
(* Collection, in the one step that GcHeap's CollectsAtomically justifies. *)
(***************************************************************************)
Addresses(vs) == {v[2] : v \in {x \in vs : IsObj(x)}}

\* The cells that can be reached from those at the addresses as.
Reach(h, as) ==
    LET reach[from \in SUBSET Addr] ==
            LET more == from \cup UNION {Addresses(Range(h[a].refs)) : a \in from}
            IN  IF more = from THEN from ELSE reach[more]
    IN  reach[as]

Swept(h, roots) ==
    LET reached == Reach(h, Addresses(roots))
    IN  [a \in Addr |-> IF a \in reached THEN h[a] ELSE Free]

-----------------------------------------------------------------------------
(***************************************************************************)
(* Terms.                                                                  *)
(***************************************************************************)

\* A list with a list for its tail is one list.
ListTerm(elements, tail) ==
    IF elements = <<>> THEN Nil
    ELSE IF tail[1] = "LIST" THEN <<"LIST", elements \o tail[2], tail[3]>>
    ELSE <<"LIST", elements, tail>>

\* The term a value denotes: what is written when the value is printed.  A
\* procedure denotes itself.
Datum(h, v) ==
    LET term[a \in Addr] ==
            LET Part(w) == IF IsObj(w) THEN term[w[2]] ELSE w
            IN  CASE h[a].kind = "PAIR" ->
                        ListTerm(<<Part(h[a].refs[1])>>, Part(h[a].refs[2]))
                  [] h[a].kind = "STRING" -> Str(h[a].names[1])
                  [] OTHER -> Ref(a)
    IN  IF IsObj(v) THEN term[v[2]] ELSE v
=============================================================================
