------------------------------- MODULE Tagged -------------------------------
(***************************************************************************)
(* Integers as tagged words (src/src/microlisp_internal.h), and the calls  *)
(* of numeric primitives that the evaluator makes with such words.         *)
(***************************************************************************)
EXTENDS Integers, Sequences

CONSTANTS
    FixMax, \* M_FIX_MAX, which is 2^59 - 1
    IntMax, \* INT64_MAX
    Calls   \* the calls to make, each [op, args]

FixMin == -FixMax - 1
IntMin == -IntMax - 1
Word == 2 * (IntMax + 1)

Comparisons == {"=", "<", ">", "<=", ">="}
Dividing == {"/", "quotient", "remainder", "modulo"}
Literals == {"literal", "-literal"}
Ops == {"+", "-", "*"} \cup Dividing \cup Comparisons \cup Literals

\* An integer has room for a fixnum and the three tag bits, and for a digit.
ASSUME FixnumAssumption ==
    /\ FixMax \in Nat \ {0} /\ IntMax \in Nat
    /\ 8 * (FixMax + 1) <= IntMax + 1
    /\ (IntMax + 1) % 8 = 0
    /\ IntMax > 9
    /\ \A c \in Calls :
        /\ c.op \in Ops
        /\ c.args \in Seq(IF c.op \in Literals THEN 0 .. 9 ELSE 0 .. Word - 1)
        /\ c.op \in {"-", "/"} \cup Literals => Len(c.args) >= 1
        /\ c.op \in Comparisons => Len(c.args) >= 2
        /\ c.op \in Dividing \ {"/"} => Len(c.args) = 2

-----------------------------------------------------------------------------
Fits(x) == FixMin <= x /\ x <= FixMax
InInt(x) == IntMin <= x /\ x <= IntMax

\* ml_make_fix shifts an unsigned word; ml_fix_int shifts a signed one.
Pack(x) == (8 * x + 1) % Word
Unpack(v) == (IF v > IntMax THEN v - Word ELSE v) \div 8
IsFix(v) == v % 8 = 1

NilValue == 2
TrueValue == 10
FalseValue == 18
=============================================================================
