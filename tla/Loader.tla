------------------------------- MODULE Loader -------------------------------
(***************************************************************************)
(* What reading a term does to the heap: the cells it takes and the value  *)
(* it gives, for the modules that need no more of the reader than that.    *)
(***************************************************************************)
EXTENDS Heap

\* The cell in the memory that there is: nothing is to be had when it is full.
Allocated(h, cell) ==
    IF Room(h) THEN {[heap |-> Put(h, cell), value |-> Ref(NextFree(h))]} ELSE {}

\* What reading a term leaves: the heap with its cells, and the value that
\* denotes it (the one element of a set, so that it is computed once).
RECURSIVE Load(_, _)
Load(h, t) ==
    IF t[1] = "STR" THEN Allocated(h, Cell("STRING", <<>>, <<t[2]>>))
    ELSE IF t[1] # "LIST" THEN {[heap |-> h, value |-> t]}
    ELSE IF t[2] = <<>> THEN {[heap |-> h, value |-> t[3]]}
    ELSE UNION {UNION {Allocated(first.heap, Cell("PAIR", <<first.value, rest.value>>, <<>>)) :
                           first \in Load(rest.heap, Head(t[2]))} :
                rest \in Load(h, <<"LIST", Tail(t[2]), t[3]>>)}
=============================================================================
