------------------------------- MODULE Fixnum -------------------------------
(***************************************************************************)
(* Arithmetic on tagged integers: the numeric primitives of                *)
(* src/src/primitives.c and the integer literals of src/src/reader.c.      *)
(*                                                                         *)
(* A call has the operands on which the evaluator makes it, as mvalues;    *)
(* one step is one round of the primitive's loop.  Integers of the C code  *)
(* are int64_t: a plain operation whose result is not one is undefined     *)
(* behaviour, which `defined` records.  A literal is a call whose operands *)
(* are its digits.                                                         *)
(***************************************************************************)
EXTENDS Tagged

VARIABLES
    call,    \* the call being made
    next,    \* the operand the loop is at
    acc,     \* acc, prev or value of the primitive
    status,  \* "running", then the status it returns
    value,   \* *out
    defined  \* no operation so far had an undefined result

numbers == <<call, next, acc, status, value, defined>>

-----------------------------------------------------------------------------
\* Division and remainder of C truncate toward zero.
Magnitude(x) == IF x < 0 THEN -x ELSE x
CDiv(a, b) ==
    LET q == Magnitude(a) \div Magnitude(b)
    IN  IF (a < 0) = (b < 0) THEN q ELSE -q
CRem(a, b) == a - b * CDiv(a, b)

-----------------------------------------------------------------------------
NumberInit ==
    /\ call \in Calls
    /\ next = 1
    /\ acc = IF call.op = "*" THEN 1 ELSE 0
    /\ status = "running"
    /\ value = 0
    /\ defined = TRUE

Op == call.op
Args == call.args
Arg == Unpack(Args[next])
Last1 == Len(Args) = 1

Requires(results) == defined' = (defined /\ \A r \in results : InInt(r))
Carry(x) == acc' = x /\ next' = next + 1 /\ UNCHANGED <<call, status, value>>
End(st, v) == status' = st /\ value' = v /\ UNCHANGED <<call, next, acc>>
Fail(st) == End(st, 0)

\* The loop is at an operand that is a number.
AtNumber(ops) == status = "running" /\ Op \in ops /\ next <= Len(Args) /\ IsFix(Args[next])

\* EXPECT_FIX.
NotANumber ==
    /\ status = "running" /\ Op \notin Literals /\ next <= Len(Args)
    /\ ~IsFix(Args[next])
    /\ Fail("TYPE")
    /\ UNCHANGED defined

\* All but + and * begin with their first operand.
FirstOperand ==
    /\ AtNumber(Ops \ ({"+", "*"} \cup Literals)) /\ next = 1
    /\ Op \in {"-", "/"} => ~Last1
    /\ Carry(Arg)
    /\ UNCHANGED defined

Negate ==
    /\ AtNumber({"-"}) /\ Last1
    /\ Requires({-Arg})
    /\ IF Fits(-Arg) THEN End("OK", Pack(-Arg)) ELSE Fail("OVERFLOW")

\* 1/v is 0 except for 1 and -1.
Reciprocal ==
    /\ AtNumber({"/"}) /\ Last1
    /\ IF Arg = 0 THEN Fail("DIV_ZERO")
       ELSE End("OK", Pack(IF Arg \in {1, -1} THEN Arg ELSE 0))
    /\ UNCHANGED defined

Exact(a, v) == CASE Op = "+" -> a + v [] Op = "-" -> a - v [] Op = "*" -> a * v

\* Fault: the product is not made by the checked builtin.
AccumulateUnchecked ==
    /\ AtNumber({"+", "-", "*"}) /\ (Op = "-" => next > 1)
    /\ Requires({Exact(acc, Arg)})
    /\ IF Fits(Exact(acc, Arg)) THEN Carry(Exact(acc, Arg)) ELSE Fail("OVERFLOW")

\* The checked builtins, then the narrower range.
Accumulate ==
    /\ AtNumber({"+", "-", "*"}) /\ (Op = "-" => next > 1)
    /\ IF InInt(Exact(acc, Arg)) /\ Fits(Exact(acc, Arg))
       THEN Carry(Exact(acc, Arg))
       ELSE Fail("OVERFLOW")
    /\ UNCHANGED defined

\* Fault: only int64's own quotient out of range is refused.
DivideWide ==
    /\ AtNumber({"/", "quotient"}) /\ next > 1
    /\ IF Arg = 0 THEN Fail("DIV_ZERO") /\ UNCHANGED defined
       ELSE /\ Requires({CDiv(acc, Arg)})
            /\ IF InInt(CDiv(acc, Arg)) THEN Carry(CDiv(acc, Arg)) ELSE Fail("OVERFLOW")

Divide ==
    /\ AtNumber({"/", "quotient"}) /\ next > 1
    /\ IF Arg = 0 THEN Fail("DIV_ZERO") /\ UNCHANGED defined
       ELSE /\ Requires({CDiv(acc, Arg)})
            /\ IF Fits(CDiv(acc, Arg)) THEN Carry(CDiv(acc, Arg)) ELSE Fail("OVERFLOW")

Remainder ==
    /\ AtNumber({"remainder"}) /\ next > 1
    /\ IF Arg = 0 THEN Fail("DIV_ZERO") /\ UNCHANGED defined
       ELSE IF acc = IntMin /\ Arg = -1 THEN Carry(0) /\ UNCHANGED defined
       ELSE Requires({CDiv(acc, Arg)}) /\ Carry(CRem(acc, Arg))

\* The divisor is added when the remainder has the other sign.
Modulo ==
    /\ AtNumber({"modulo"}) /\ next > 1
    /\ IF Arg = 0 THEN Fail("DIV_ZERO") /\ UNCHANGED defined
       ELSE LET r == CRem(acc, Arg)
                m == IF r # 0 /\ (r < 0) # (Arg < 0) THEN r + Arg ELSE r
            IN  Requires({CDiv(acc, Arg), m}) /\ Carry(m)

Holds(a, b) ==
    CASE Op = "=" -> a = b [] Op = "<" -> a < b [] Op = ">" -> a > b
      [] Op = "<=" -> a <= b [] Op = ">=" -> a >= b

\* cmp_chain stops at the first pair that fails.
Compare ==
    /\ AtNumber(Comparisons) /\ next > 1
    /\ IF Holds(acc, Arg) THEN Carry(Arg) ELSE End("OK", FalseValue)
    /\ UNCHANGED defined

\* read_number: digits are consumed while they fit an int64.
Digit ==
    /\ status = "running" /\ Op \in Literals /\ next <= Len(Args)
    /\ IF InInt(10 * acc) /\ InInt(10 * acc + Args[next])
       THEN Carry(10 * acc + Args[next])
       ELSE Fail("OVERFLOW")
    /\ UNCHANGED defined

\* The sign is applied, then the range of fixnums checked.
EndOfLiteral ==
    /\ status = "running" /\ Op \in Literals /\ next > Len(Args)
    /\ LET x == IF Op = "-literal" THEN -acc ELSE acc
       IN  /\ Requires({x})
           /\ IF Fits(x) THEN End("OK", Pack(x)) ELSE Fail("OVERFLOW")

EndOfOperands ==
    /\ status = "running" /\ Op \notin Literals /\ next > Len(Args)
    /\ End("OK", IF Op \in Comparisons THEN TrueValue ELSE Pack(acc))
    /\ UNCHANGED defined

NumberNext ==
    \/ NotANumber \/ FirstOperand \/ Negate \/ Reciprocal \/ Accumulate \/ Divide
    \/ Remainder \/ Modulo \/ Compare \/ Digit \/ EndOfLiteral \/ EndOfOperands

NumberSpec == NumberInit /\ [][NumberNext]_numbers

-----------------------------------------------------------------------------
(***************************************************************************)
(* What the operations mean, on integers without bounds.                   *)
(***************************************************************************)
Operand(n) == Unpack(Args[n])
OperandValues == [n \in DOMAIN Args |-> Operand(n)]

\* Of the integers in xs from the i-th to the n-th, and of the first n digits.
SumFrom(xs, i, n) ==
    LET sum[k \in 0 .. Len(xs)] == IF k < i THEN 0 ELSE sum[k - 1] + xs[k]
    IN  sum[n]
ProductFrom(xs, i, n) ==
    LET product[k \in 0 .. Len(xs)] == IF k < i THEN 1 ELSE product[k - 1] * xs[k]
    IN  product[n]
Decimal(digits, n) ==
    LET decimal[k \in 0 .. Len(digits)] ==
            IF k < 1 THEN 0 ELSE 10 * decimal[k - 1] + digits[k]
    IN  decimal[n]

\* The quotient that leaves a remainder smaller than b, of a's sign.
Quotient(a, b) ==
    CHOOSE q \in FixMin .. FixMax + 1 :
        /\ Magnitude(a - q * b) < Magnitude(b)
        /\ a - q * b # 0 => (a - q * b > 0) = (a > 0)
\* The multiple of b that leaves one of b's sign.
FloorQuotient(a, b) ==
    CHOOSE q \in FixMin - 1 .. FixMax + 1 :
        /\ Magnitude(a - q * b) < Magnitude(b)
        /\ a - q * b # 0 => (a - q * b > 0) = (b > 0)

\* The value of the first n of the integers xs under the operation.
Meaning(op, xs, n) ==
    IF n = 1 /\ Len(xs) > 1 THEN xs[1]
    ELSE CASE op = "+" -> SumFrom(xs, 1, n)
           [] op = "*" -> ProductFrom(xs, 1, n)
           [] op = "-" -> IF n = 1 THEN -xs[1] ELSE xs[1] - SumFrom(xs, 2, n)
           [] op = "/" -> IF n = 1 THEN Quotient(1, xs[1]) ELSE Quotient(xs[1], ProductFrom(xs, 2, n))
           [] op = "quotient" -> Quotient(xs[1], ProductFrom(xs, 2, n))
           [] op = "remainder" -> xs[1] - xs[2] * Quotient(xs[1], xs[2])
           [] op = "modulo" -> xs[1] - xs[2] * FloorQuotient(xs[1], xs[2])

\* What is wrong with the n-th operand, given the ones before it.
Verdict(n) ==
    IF ~IsFix(Args[n]) THEN "TYPE"
    ELSE IF Op \in Dividing /\ (n > 1 \/ Last1) /\ Operand(n) = 0 THEN "DIV_ZERO"
    ELSE IF Fits(Meaning(Op, OperandValues, n)) THEN "OK" ELSE "OVERFLOW"

ExactArithmetic ==
    IF status = "OK"
    THEN /\ \A n \in DOMAIN Args : Verdict(n) = "OK"
         /\ IsFix(value)
         /\ Unpack(value) = IF Args = <<>> THEN (IF Op = "*" THEN 1 ELSE 0)
                            ELSE Meaning(Op, OperandValues, Len(Args))
    ELSE /\ \A n \in 1 .. next - 1 : Verdict(n) = "OK"
         /\ status = Verdict(next)

ExactComparison ==
    LET Ordered(n) == Holds(Operand(n), Operand(n + 1))
    IN  /\ \A n \in 1 .. next - 1 : IsFix(Args[n]) /\ (n + 1 < next => Ordered(n))
        /\ IF status = "TYPE" THEN ~IsFix(Args[next])
           ELSE IF value = TrueValue THEN next > Len(Args)
           ELSE value = FalseValue /\ IsFix(Args[next]) /\ ~Ordered(next - 1)

ExactLiteral ==
    LET magnitude == Decimal(Args, Len(Args))
        x == IF Op = "-literal" THEN -magnitude ELSE magnitude
    IN  IF Fits(x) THEN status = "OK" /\ IsFix(value) /\ Unpack(value) = x
        ELSE status = "OVERFLOW"

-----------------------------------------------------------------------------
(***************************************************************************)
(* Properties.                                                             *)
(***************************************************************************)

\* A numeric primitive returns what the integers say, or an error at the first
\* operand at which they say one, and never a wrapped number; a literal is read
\* exactly or refused (primitives.c:18-19, 132-134, reader.c:239).
ArithmeticExact ==
    Op \in Ops /\ status # "running" =>
        CASE Op \in Comparisons -> ExactComparison
          [] Op \in Literals -> ExactLiteral
          [] OTHER -> ExactArithmetic

\* No int64_t operation has an undefined result: the plain ones are made only
\* on operands so far inside the range that their results are in it too.
NeverUndefined == defined
=============================================================================
