------------------------------ MODULE Equality ------------------------------
(***************************************************************************)
(* Equality of values: eqv? and equal? of src/src/value.c.                 *)
(*                                                                         *)
(* equal? allocates nothing and calls nothing but itself, so it is an      *)
(* operator from a heap and the value of s->equal_depth to its status,     *)
(* *out_equal and the new value of s->equal_depth.                         *)
(***************************************************************************)
EXTENDS Heap

CONSTANT MaxEqualDepth  \* s->max_equal_depth

ASSUME EqualityAssumption == MaxEqualDepth \in Nat \ {0}

Compared(status, equal, depth) == [status |-> status, equal |-> equal, depth |-> depth]
Leave(answer) == [answer EXCEPT !.depth = @ - 1]

\* Fault: strings are compared like any other object.
EqvByAddress(h, a, b) == a = b

\* ml_value_eqv: the same value, or strings of the same content.
Eqv(h, a, b) ==
    \/ a = b
    \/ /\ IsA(h, a, "STRING") /\ IsA(h, b, "STRING")
       /\ h[a[2]].names = h[b[2]].names

RECURSIVE Equal(_, _, _, _)

\* The cars, then the cdrs, one level further down.
EqualPairs(h, a, b, depth) ==
    LET car == Equal(h, Car(h, a), Car(h, b), depth + 1)
    IN  IF car.status # "OK" \/ ~car.equal THEN Leave(car)
        ELSE Leave(Equal(h, Cdr(h, a), Cdr(h, b), car.depth))

\* ml_value_equal: the limit is checked on every call, atoms included.
Equal(h, a, b, depth) ==
    IF depth >= MaxEqualDepth THEN Compared("EQUAL_DEPTH", FALSE, depth)
    ELSE IF Eqv(h, a, b) THEN Compared("OK", TRUE, depth)
    ELSE IF IsPair(h, a) /\ IsPair(h, b) THEN EqualPairs(h, a, b, depth)
    ELSE Compared("OK", FALSE, depth)
=============================================================================
