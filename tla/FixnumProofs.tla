---------------------------- MODULE FixnumProofs ----------------------------
(***************************************************************************)
(* Theorems about module Fixnum, for words of every width that has room    *)
(* for the fixnums and their tag.                                          *)
(***************************************************************************)
EXTENDS Fixnum, Lemmas

\* One more than the largest integer that a tagged word can carry.
Payload == (IntMax + 1) \div 8

-----------------------------------------------------------------------------
(***************************************************************************)
(* Words.                                                                  *)
(***************************************************************************)

\* The sizes of words, integers and fixnums.
LEMMA Widths ==
    /\ Payload \in Nat /\ IntMax \in Nat /\ FixMax \in Nat
    /\ IntMax + 1 = 8 * Payload
    /\ Word = 16 * Payload
    /\ FixMax + 1 <= Payload
    /\ 2 <= Payload
<1>1. /\ FixMax \in Nat /\ IntMax \in Nat
      /\ 8 * (FixMax + 1) <= IntMax + 1
      /\ (IntMax + 1) % 8 = 0
      /\ IntMax > 9
  BY FixnumAssumption
<1>2. Payload \in Nat /\ IntMax + 1 = 8 * Payload
  BY <1>1, SMT DEF Payload
<1> QED BY <1>1, <1>2, SMT DEF Word

\* Reduction modulo a word of an integer less than a word away from zero.
LEMMA SmallModulus ==
    ASSUME NEW w \in Nat, NEW x \in Int, -w <= x, x < w
    PROVE  x % w = IF x >= 0 THEN x ELSE x + w
BY SMT

\* ml_fix_int yields an integer far inside int64_t.
LEMMA UnpackSmall ==
    ASSUME NEW v \in 0 .. Word - 1
    PROVE  Unpack(v) \in Int /\ -Payload <= Unpack(v) /\ Unpack(v) < Payload
BY Widths, SMT DEF Unpack

\* ml_make_fix and ml_fix_int are inverse on every integer that a word can
\* carry, and the tag stays (microlisp_internal.h:76-88).
THEOREM PackLosesNothing ==
    ASSUME NEW x \in Int, -Payload <= x, x < Payload
    PROVE  Pack(x) \in 0 .. Word - 1 /\ IsFix(Pack(x)) /\ Unpack(Pack(x)) = x
<1>1. Pack(x) = IF 8 * x + 1 >= 0 THEN 8 * x + 1 ELSE 8 * x + 1 + Word
  <2>1. Word \in Nat /\ 8 * x + 1 \in Int /\ -Word <= 8 * x + 1 /\ 8 * x + 1 < Word
    BY Widths, SMT
  <2> QED BY <2>1, SmallModulus DEF Pack
<1>2. CASE x >= 0
  <2>1. Pack(x) = 8 * x + 1
    BY <1>1, <1>2, SMT
  <2> QED BY <1>2, <2>1, Widths, SMT DEF IsFix, Unpack
<1>3. CASE x < 0
  <2>1. Pack(x) = 8 * x + 1 + 16 * Payload
    BY <1>1, <1>3, Widths, SMT
  <2> QED BY <1>3, <2>1, Widths, SMT DEF IsFix, Unpack
<1> QED BY <1>2, <1>3, SMT

-----------------------------------------------------------------------------
(***************************************************************************)
(* Division.                                                               *)
(***************************************************************************)

\* Division of natural numbers leaves less than the divisor.
LEMMA NatDivision ==
    ASSUME NEW a \in Nat, NEW b \in Nat, b > 0
    PROVE  /\ a \div b \in Nat
           /\ a \div b <= a
           /\ a - b * (a \div b) \in 0 .. b - 1
<1>1. a \div b \in Nat
  BY SMT
<1>2. b * (a \div b) <= a /\ a - b * (a \div b) < b
  BY SMT
<1>3. a \div b <= a
  BY <1>1, <1>2, SMT
<1> QED BY <1>1, <1>2, <1>3, SMT

\* A quotient that leaves a remainder smaller than b, of the sign of s.
Divides(a, b, q, r, s) ==
    /\ a = b * q + r
    /\ Magnitude(r) < Magnitude(b)
    /\ r # 0 => (r < 0) = (s < 0)

\* Division and remainder of C.
LEMMA CDivision ==
    ASSUME NEW a \in Int, NEW b \in Int, b # 0
    PROVE  /\ CDiv(a, b) \in Int /\ CRem(a, b) \in Int
           /\ Magnitude(CDiv(a, b)) <= Magnitude(a)
           /\ Divides(a, b, CDiv(a, b), CRem(a, b), a)
<1> DEFINE m == Magnitude(a)
           n == Magnitude(b)
           q == m \div n
           r == m - n * q
<1>1. m \in Nat /\ n \in Nat /\ n > 0
  BY SMT DEF Magnitude
<1>2. q \in Nat /\ q <= m /\ r \in 0 .. n - 1
  BY <1>1, NatDivision
<1>3. CDiv(a, b) = IF (a < 0) = (b < 0) THEN q ELSE -q
  BY DEF CDiv
<1>4. CRem(a, b) = IF a < 0 THEN -r ELSE r
  <2> HIDE DEF q
  <2>1. CASE a < 0 /\ b < 0
    <3>1. m = -a /\ n = -b
      BY <2>1, SMT DEF Magnitude
    <3>2. CDiv(a, b) = q
      BY <1>3, <2>1
    <3> QED BY <3>1, <3>2, <1>2, <2>1, SMT DEF CRem
  <2>2. CASE a < 0 /\ ~(b < 0)
    <3>1. m = -a /\ n = b
      BY <2>2, SMT DEF Magnitude
    <3>2. CDiv(a, b) = -q
      BY <1>3, <2>2
    <3> QED BY <3>1, <3>2, <1>2, <2>2, SMT DEF CRem
  <2>3. CASE ~(a < 0) /\ b < 0
    <3>1. m = a /\ n = -b
      BY <2>3, SMT DEF Magnitude
    <3>2. CDiv(a, b) = -q
      BY <1>3, <2>3
    <3> QED BY <3>1, <3>2, <1>2, <2>3, SMT DEF CRem
  <2>4. CASE ~(a < 0) /\ ~(b < 0)
    <3>1. m = a /\ n = b
      BY <2>4, SMT DEF Magnitude
    <3>2. CDiv(a, b) = q
      BY <1>3, <2>4
    <3> QED BY <3>1, <3>2, <1>2, <2>4, SMT DEF CRem
  <2> QED BY <2>1, <2>2, <2>3, <2>4
<1>5. CDiv(a, b) \in Int /\ Magnitude(CDiv(a, b)) <= m
  <2> HIDE DEF q, m
  <2>1. CDiv(a, b) = q \/ CDiv(a, b) = -q
    BY <1>3
  <2> QED BY <1>1, <1>2, <2>1, SMT DEF Magnitude
<1>6. CRem(a, b) \in Int /\ a = b * CDiv(a, b) + CRem(a, b)
  <2>1. b * CDiv(a, b) \in Int
    BY <1>5, SMT
  <2> QED BY <2>1, SMT DEF CRem
<1>7. Magnitude(CRem(a, b)) < n /\ (CRem(a, b) # 0 => (CRem(a, b) < 0) = (a < 0))
  <2> HIDE DEF r, n
  <2> QED BY <1>1, <1>2, <1>4, SMT DEF Magnitude
<1> QED BY <1>5, <1>6, <1>7 DEF Divides

-----------------------------------------------------------------------------
(***************************************************************************)
(* The invariant.  A plain operation is safe because what it is made on is *)
(* at most Payload away from zero: an operand comes out of a word without  *)
(* its tag, and acc is an operand, a checked result or, in a literal, not  *)
(* negative.                                                               *)
(***************************************************************************)
Types ==
    /\ call \in Calls
    /\ next \in Nat \ {0}
    /\ acc \in Int
    /\ status \in {"running", "OK", "TYPE", "DIV_ZERO", "OVERFLOW"}

AccSmall ==
    IF Op \in Literals THEN 0 <= acc /\ acc <= IntMax
    ELSE -Payload <= acc /\ acc <= Payload

Inv == Types /\ AccSmall /\ defined = TRUE

LEMMA CallTypes ==
    ASSUME call \in Calls
    PROVE  /\ Op \in Ops
           /\ Args \in Seq(IF Op \in Literals THEN 0 .. 9 ELSE 0 .. Word - 1)
           /\ Op \in {"-", "/"} \cup Literals => Len(Args) >= 1
           /\ Op \in Comparisons => Len(Args) >= 2
           /\ Op \in Dividing \ {"/"} => Len(Args) = 2
BY FixnumAssumption DEF Op, Args

\* The elements of a sequence over S.
LEMMA ElementIn ==
    ASSUME NEW S, NEW s \in Seq(S), NEW i \in 1 .. Len(s)
    PROVE  s[i] \in S
OBVIOUS

\* The operand the loop is at, where it is a number.
LEMMA OperandSmall ==
    ASSUME Types, NEW ops, AtNumber(ops), Op \notin Literals
    PROVE  Arg \in Int /\ -Payload <= Arg /\ Arg < Payload
<1>1. Args \in Seq(0 .. Word - 1) /\ next \in 1 .. Len(Args)
  BY CallTypes, SMT DEF Types, AtNumber
<1>2. Args[next] \in 0 .. Word - 1
  BY <1>1, ElementIn
<1> QED BY <1>2, UnpackSmall DEF Arg

\* Every integer at most Payload away from zero is an int64_t.
LEMMA PayloadInInt ==
    ASSUME NEW x \in Int, -Payload <= x, x <= Payload
    PROVE  InInt(x) /\ InInt(-x)
BY Widths, SMT DEF InInt, IntMin

LEMMA FitsSmall ==
    ASSUME NEW x \in Int, Fits(x)
    PROVE  -Payload <= x /\ x < Payload
BY Widths, SMT DEF Fits, FixMin

LEMMA InvInit == NumberInit => Inv
<1> SUFFICES ASSUME NumberInit PROVE Inv
  OBVIOUS
<1>1. acc \in {0, 1}
  BY DEF NumberInit
<1> QED BY <1>1, Widths, SMT DEF NumberInit, Inv, Types, AccSmall

\* A step that ends the call keeps acc.
LEMMA InvEnd ==
    ASSUME Inv, NEW st, NEW v, End(st, v), defined' = TRUE,
           st \in {"OK", "TYPE", "DIV_ZERO", "OVERFLOW"}
    PROVE  Inv'
BY DEF Inv, Types, AccSmall, End, Op, Args

\* A step that goes on to the next operand.
LEMMA InvCarry ==
    ASSUME Inv, NEW x \in Int, Carry(x), defined' = TRUE,
           IF Op \in Literals THEN 0 <= x /\ x <= IntMax ELSE -Payload <= x /\ x <= Payload
    PROVE  Inv'
<1>1. call' = call /\ acc' = x /\ next' = next + 1 /\ status' = status
  BY DEF Carry
<1>2. Types'
  BY <1>1, SMT DEF Inv, Types
<1>3. AccSmall'
  BY <1>1 DEF AccSmall, Op
<1> QED BY <1>2, <1>3 DEF Inv

LEMMA InvNext == Inv /\ [NumberNext]_numbers => Inv'
<1> SUFFICES ASSUME Inv, [NumberNext]_numbers PROVE Inv'
  OBVIOUS
<1> USE DEF Fail
<1>0. Types /\ defined = TRUE
  BY DEF Inv
<1>1. CASE NotANumber
  BY <1>0, <1>1, InvEnd DEF NotANumber
<1>2. CASE FirstOperand
  <2>1. Op \notin Literals /\ AtNumber(Ops \ ({"+", "*"} \cup Literals)) /\ Carry(Arg) /\ defined' = TRUE
    BY <1>0, <1>2 DEF FirstOperand, AtNumber
  <2>2. Arg \in Int /\ -Payload <= Arg /\ Arg <= Payload
    BY <1>0, <2>1, OperandSmall, Widths, SMT
  <2> QED BY <2>1, <2>2, InvCarry
<1>3. CASE Negate
  <2>1. Op \notin Literals /\ AtNumber({"-"})
    BY <1>3 DEF Negate, AtNumber, Literals
  <2>2. Arg \in Int /\ -Payload <= Arg /\ Arg <= Payload
    BY <1>0, <2>1, OperandSmall, Widths, SMT
  <2>3. defined' = TRUE
    BY <1>0, <1>3, <2>2, PayloadInInt DEF Negate, Requires
  <2> QED BY <1>3, <2>3, InvEnd DEF Negate
<1>4. CASE Reciprocal
  BY <1>0, <1>4, InvEnd DEF Reciprocal
<1>5. CASE Accumulate
  <2>1. Op \in {"+", "-", "*"} /\ Op \notin Literals /\ AtNumber({"+", "-", "*"})
    BY <1>5 DEF Accumulate, AtNumber, Literals
  <2>2. defined' = TRUE
    BY <1>0, <1>5 DEF Accumulate
  <2>3. CASE Fits(Exact(acc, Arg)) /\ Carry(Exact(acc, Arg))
    <3>1. Exact(acc, Arg) \in Int
      <4>1. Arg \in Int /\ acc \in Int
        BY <1>0, <2>1, OperandSmall DEF Types
      <4>2. acc + Arg \in Int /\ acc - Arg \in Int /\ acc * Arg \in Int
        BY <4>1, SMT
      <4> QED BY <2>1, <4>2 DEF Exact
    <3>2. -Payload <= Exact(acc, Arg) /\ Exact(acc, Arg) <= Payload
      BY <2>3, <3>1, FitsSmall, Widths, SMT
    <3> QED BY <2>1, <2>2, <2>3, <3>1, <3>2, InvCarry
  <2>4. CASE Fail("OVERFLOW")
    BY <2>2, <2>4, InvEnd
  <2> QED BY <1>5, <2>3, <2>4 DEF Accumulate
<1>6. CASE Divide
  <2>1. Op \notin Literals /\ AtNumber({"/", "quotient"})
    BY <1>6 DEF Divide, AtNumber, Literals
  <2>2. Arg \in Int /\ acc \in Int /\ -Payload <= acc /\ acc <= Payload
    BY <1>0, <2>1, OperandSmall DEF Types, Inv, AccSmall
  <2>3. CASE Arg = 0
    BY <1>0, <1>6, <2>3, InvEnd DEF Divide
  <2>4. CASE Arg # 0
    <3>1. CDiv(acc, Arg) \in Int /\ Magnitude(CDiv(acc, Arg)) <= Magnitude(acc)
      BY <2>2, <2>4, CDivision
    <3>2. -Payload <= CDiv(acc, Arg) /\ CDiv(acc, Arg) <= Payload
      BY <2>2, <3>1, Widths, SMT DEF Magnitude
    <3>3. defined' = TRUE
      BY <1>0, <1>6, <2>4, <3>1, <3>2, PayloadInInt DEF Divide, Requires
    <3>4. Carry(CDiv(acc, Arg)) \/ Fail("OVERFLOW")
      BY <1>6, <2>4 DEF Divide
    <3> QED BY <2>1, <3>1, <3>2, <3>3, <3>4, InvEnd, InvCarry
  <2> QED BY <2>3, <2>4
<1>7. CASE Remainder
  <2>1. Op \notin Literals /\ AtNumber({"remainder"})
    BY <1>7 DEF Remainder, AtNumber, Literals
  <2>2. Arg \in Int /\ -Payload <= Arg /\ Arg < Payload /\ acc \in Int /\ -Payload <= acc /\ acc <= Payload
    BY <1>0, <2>1, OperandSmall DEF Types, Inv, AccSmall
  <2>3. CASE Arg = 0
    BY <1>0, <1>7, <2>3, InvEnd DEF Remainder
  <2>4. CASE Arg # 0 /\ acc = IntMin /\ Arg = -1
    BY <2>2, <2>4, Widths, SMT DEF IntMin
  <2>5. CASE Arg # 0 /\ ~(acc = IntMin /\ Arg = -1)
    <3>1. /\ CDiv(acc, Arg) \in Int /\ Magnitude(CDiv(acc, Arg)) <= Magnitude(acc)
          /\ CRem(acc, Arg) \in Int /\ Magnitude(CRem(acc, Arg)) < Magnitude(Arg)
      BY <2>2, <2>5, CDivision DEF Divides
    <3>2. /\ -Payload <= CDiv(acc, Arg) /\ CDiv(acc, Arg) <= Payload
          /\ -Payload <= CRem(acc, Arg) /\ CRem(acc, Arg) <= Payload
      BY <2>2, <3>1, Widths, SMT DEF Magnitude
    <3>3. defined' = TRUE /\ Carry(CRem(acc, Arg))
      BY <1>0, <1>7, <2>5, <3>1, <3>2, PayloadInInt DEF Remainder, Requires
    <3> QED BY <2>1, <3>1, <3>2, <3>3, InvCarry
  <2> QED BY <2>3, <2>4, <2>5
<1>8. CASE Modulo
  <2> DEFINE r == CRem(acc, Arg)
             m == IF r # 0 /\ (r < 0) # (Arg < 0) THEN r + Arg ELSE r
  <2>1. Op \notin Literals /\ AtNumber({"modulo"})
    BY <1>8 DEF Modulo, AtNumber, Literals
  <2>2. Arg \in Int /\ -Payload <= Arg /\ Arg < Payload /\ acc \in Int /\ -Payload <= acc /\ acc <= Payload
    BY <1>0, <2>1, OperandSmall DEF Types, Inv, AccSmall
  <2>3. CASE Arg = 0
    BY <1>0, <1>8, <2>3, InvEnd DEF Modulo
  <2>4. CASE Arg # 0
    <3>1. /\ CDiv(acc, Arg) \in Int /\ Magnitude(CDiv(acc, Arg)) <= Magnitude(acc)
          /\ r \in Int /\ Magnitude(r) < Magnitude(Arg)
      BY <2>2, <2>4, CDivision DEF Divides
    <3>2. Requires({CDiv(acc, Arg), m}) /\ Carry(m)
      BY <1>8, <2>4 DEF Modulo
    <3>3. m \in Int /\ -Payload <= m /\ m <= Payload
      <4> HIDE DEF r
      <4> QED BY <2>2, <3>1, Widths, SMT DEF Magnitude
    <3>4. -Payload <= CDiv(acc, Arg) /\ CDiv(acc, Arg) <= Payload
      BY <2>2, <3>1, Widths, SMT DEF Magnitude
    <3> HIDE DEF m
    <3>5. defined' = TRUE
      BY <1>0, <3>1, <3>2, <3>3, <3>4, PayloadInInt DEF Requires
    <3> QED BY <2>1, <3>2, <3>3, <3>5, InvCarry
  <2> QED BY <2>3, <2>4
<1>9. CASE Compare
  <2>1. Op \notin Literals /\ AtNumber(Comparisons) /\ defined' = TRUE
    BY <1>0, <1>9 DEF Compare, AtNumber, Literals, Comparisons
  <2>2. Arg \in Int /\ -Payload <= Arg /\ Arg <= Payload
    BY <1>0, <2>1, OperandSmall, Widths, SMT
  <2>3. Carry(Arg) \/ End("OK", FalseValue)
    BY <1>9 DEF Compare
  <2> QED BY <2>1, <2>2, <2>3, InvEnd, InvCarry
<1>10. CASE Digit
  <2>1. Op \in Literals /\ next <= Len(Args) /\ defined' = TRUE
    BY <1>0, <1>10 DEF Digit
  <2>2. Args[next] \in 0 .. 9
    BY <1>0, <2>1, CallTypes DEF Types
  <2>3. 0 <= acc /\ acc \in Int
    BY <1>0, <2>1 DEF Inv, AccSmall, Types
  <2>4. CASE InInt(10 * acc + Args[next]) /\ Carry(10 * acc + Args[next])
    <3>1. 10 * acc + Args[next] \in Int /\ 0 <= 10 * acc + Args[next] /\ 10 * acc + Args[next] <= IntMax
      BY <2>2, <2>3, <2>4, SMT DEF InInt
    <3> QED BY <2>1, <2>4, <3>1, InvCarry
  <2>5. CASE Fail("OVERFLOW")
    BY <2>1, <2>5, InvEnd
  <2> QED BY <1>10, <2>4, <2>5 DEF Digit
<1>11. CASE EndOfLiteral
  <2>1. InInt(acc) /\ InInt(-acc)
    BY <1>0, <1>11, Widths, SMT DEF EndOfLiteral, Inv, AccSmall, Types, InInt, IntMin
  <2>2. defined' = TRUE
    BY <1>0, <1>11, <2>1 DEF EndOfLiteral, Requires
  <2> QED BY <1>11, <2>2, InvEnd DEF EndOfLiteral
<1>12. CASE EndOfOperands
  BY <1>0, <1>12, InvEnd DEF EndOfOperands
<1>13. CASE UNCHANGED numbers
  BY <1>13 DEF numbers, Inv, Types, AccSmall, Op
<1> QED
  BY <1>1, <1>2, <1>3, <1>4, <1>5, <1>6, <1>7, <1>8, <1>9, <1>10, <1>11, <1>12, <1>13 DEF NumberNext

\* No primitive and no literal ever computes outside int64_t, whatever words it
\* is given and however wide they are (primitives.c:68, 135, 155, 180, 196-198,
\* reader.c:271).
THEOREM PlainOperationsAreDefined == NumberSpec => []NeverUndefined
<1>1. Inv => NeverUndefined
  BY DEF Inv, NeverUndefined
<1> QED BY InvInit, InvNext, <1>1, PTL DEF NumberSpec

-----------------------------------------------------------------------------
(***************************************************************************)
(* Comparison.                                                             *)
(***************************************************************************)
Ordered(n) == Holds(Operand(n), Operand(n + 1))

\* The operands behind the loop are numbers in order, and acc is the last.
ComparedSoFar ==
    /\ next <= Len(Args) + 1
    /\ \A n \in 1 .. next - 1 : IsFix(Args[n])
    /\ \A n \in 1 .. next - 1 : n + 1 < next => Ordered(n)
    /\ next > 1 => acc = Operand(next - 1)

ComparisonInv ==
    Op \in Comparisons =>
        /\ status = "running" => ComparedSoFar
        /\ status # "running" => ExactComparison

LEMMA ComparisonSteps ==
    ASSUME NumberNext, Op \in Comparisons
    PROVE  /\ status = "running"
           /\ NotANumber \/ FirstOperand \/ Compare \/ EndOfOperands
BY DEF NumberNext, NotANumber, FirstOperand, Negate, Reciprocal, Accumulate, Divide, Remainder,
       Modulo, Compare, Digit, EndOfLiteral, EndOfOperands, AtNumber, Comparisons, Literals

LEMMA ComparisonNext == Inv /\ ComparisonInv /\ [NumberNext]_numbers => ComparisonInv'
<1> SUFFICES ASSUME Inv, ComparisonInv, [NumberNext]_numbers, Op' \in Comparisons PROVE
               /\ status' = "running" => ComparedSoFar'
               /\ status' # "running" => ExactComparison'
  BY DEF ComparisonInv
<1>1. CASE UNCHANGED numbers
  <2>1. Op \in Comparisons
    BY <1>1 DEF numbers, Op
  <2> QED BY <1>1, <2>1 DEF numbers, ComparisonInv, ComparedSoFar, ExactComparison, Op, Args, Operand, Ordered, Holds
<1>2. CASE NumberNext
  <2>0. call' = call
    BY <1>2 DEF NumberNext, NotANumber, FirstOperand, Negate, Reciprocal, Accumulate, Divide, Remainder,
       Modulo, Compare, Digit, EndOfLiteral, EndOfOperands, Carry, End, Fail
  <2>1. Op \in Comparisons /\ Op' = Op /\ Args' = Args
    BY <2>0 DEF Op, Args
  <2>2. status = "running" /\ ComparedSoFar /\ next \in Nat \ {0} /\ Len(Args) \in Nat /\ Len(Args) >= 2
    BY <1>2, <2>1, ComparisonSteps, CallTypes DEF ComparisonInv, Inv, Types
  <2>3. CASE NotANumber
    <3>1. status' = "TYPE" /\ next' = next /\ ~IsFix(Args[next])
      BY <2>3 DEF NotANumber, Fail, End
    <3> QED BY <2>0, <2>1, <2>2, <3>1 DEF ExactComparison, ComparedSoFar, Ordered, Operand, Holds
  <2>4. CASE FirstOperand
    <3>1. next = 1 /\ next' = 2 /\ acc' = Operand(1) /\ IsFix(Args[1]) /\ status' = "running"
      BY <2>2, <2>4 DEF FirstOperand, AtNumber, Carry, Arg, Operand
    <3>2. acc' = Operand(1)' /\ next' <= Len(Args') + 1
      BY <2>1, <2>2, <3>1, SMT DEF Operand
    <3> QED BY <2>1, <2>2, <3>1, <3>2, SMT DEF ComparedSoFar
  <2>5. CASE Compare
    <3>1. next > 1 /\ next <= Len(Args) /\ IsFix(Args[next]) /\ Arg = Operand(next)
      BY <2>5 DEF Compare, AtNumber, Arg, Operand
    <3>2. acc = Operand(next - 1) /\ Holds(acc, Arg) = Ordered(next - 1)
      BY <2>2, <3>1, SMT DEF ComparedSoFar, Ordered
    <3>3. CASE Ordered(next - 1)
      <4>1. next' = next + 1 /\ acc' = Operand(next) /\ status' = "running"
        BY <2>2, <2>5, <3>1, <3>2, <3>3 DEF Compare, Carry
      <4>2. \A n : Operand(n)' = Operand(n') /\ Ordered(n)' = Ordered(n')
        BY <2>1 DEF Operand, Ordered, Holds
      <4> QED BY <2>1, <2>2, <3>1, <3>3, <4>1, <4>2, SMT DEF ComparedSoFar
    <3>4. CASE ~Ordered(next - 1)
      <4>1. status' = "OK" /\ value' = FalseValue /\ next' = next
        BY <2>5, <3>2, <3>4 DEF Compare, End
      <4>3. \A n : Holds(Operand(n), Operand(n + 1))' = Ordered(n)
        BY <2>0, <2>1 DEF Ordered, Operand, Holds
      <4>4. \A n \in 1 .. next - 1 : IsFix(Args[n]) /\ (n + 1 < next => Ordered(n))
        BY <2>2 DEF ComparedSoFar
      <4>5. ~Holds(Operand(next - 1), Operand(next - 1 + 1))'
        <5>1. ~Holds(Operand(next - 1), Operand(next - 1 + 1))
          BY <3>4 DEF Ordered
        <5> QED BY <2>0, <2>1, <4>1, <5>1 DEF Holds, Operand
      <4>6. \A n \in 1 .. next' - 1 :
                IsFix(Args[n])' /\ (n + 1 < next' => Holds(Operand(n), Operand(n + 1))')
        BY <2>1, <4>1, <4>3, <4>4
      <4> QED BY <2>1, <3>1, <4>1, <4>5, <4>6 DEF ExactComparison, TrueValue, FalseValue
    <3> QED BY <3>3, <3>4
  <2>6. CASE EndOfOperands
    <3>1. status' = "OK" /\ value' = TrueValue /\ next' = next /\ next > Len(Args)
      BY <2>1, <2>6 DEF EndOfOperands, End
    <3> QED BY <2>0, <2>1, <2>2, <3>1 DEF ExactComparison, ComparedSoFar, Ordered, Operand, Holds
  <2> QED BY <1>2, <2>1, <2>3, <2>4, <2>5, <2>6, ComparisonSteps
<1> QED BY <1>1, <1>2

\* A comparison is true when all its operands are numbers and each pair of
\* neighbours is in order, false at the first pair that is not, and an error at
\* the first operand that is no number before it (primitives.c:210-246).
THEOREM ComparisonsAreExact ==
    NumberSpec => [](Op \in Comparisons /\ status # "running" => ExactComparison)
<1>1. NumberInit => ComparisonInv
  <2> SUFFICES ASSUME NumberInit, Op \in Comparisons PROVE ComparedSoFar /\ status = "running"
    BY DEF ComparisonInv
  <2>1. next = 1 /\ status = "running" /\ Len(Args) \in Nat
    BY CallTypes DEF NumberInit
  <2> QED BY <2>1, SMT DEF ComparedSoFar
<1>2. ComparisonInv => (Op \in Comparisons /\ status # "running" => ExactComparison)
  BY DEF ComparisonInv
<1> QED BY InvInit, InvNext, <1>1, ComparisonNext, <1>2, PTL DEF NumberSpec

-----------------------------------------------------------------------------
(***************************************************************************)
(* Division of two operands.                                               *)
(***************************************************************************)
TwoOperands == Dividing \ {"/"}

\* What the operation makes of its operands.
IsResult(x) ==
    /\ Op = "quotient" => \E r \in Int : Divides(Operand(1), Operand(2), x, r, Operand(1))
    /\ Op = "remainder" => \E q \in Int : Divides(Operand(1), Operand(2), q, x, Operand(1))
    /\ Op = "modulo" => \E q \in Int : Divides(Operand(1), Operand(2), q, x, Operand(2))

DividedSoFar ==
    /\ next \in 1 .. 3
    /\ next = 2 => acc = Operand(1)
    /\ next = 3 => Operand(2) # 0 /\ IsResult(acc) /\ acc < Payload

DivisionExact ==
    /\ status = "OK" => Operand(2) # 0 /\ IsFix(value) /\ IsResult(Unpack(value))
    /\ status = "DIV_ZERO" => Operand(2) = 0
    /\ status = "OVERFLOW" =>
          /\ Op = "quotient"
          /\ \E q, r \in Int : Divides(Operand(1), Operand(2), q, r, Operand(1)) /\ ~Fits(q)

DivisionInv ==
    Op \in TwoOperands =>
        /\ status = "running" => DividedSoFar
        /\ status # "running" => DivisionExact

LEMMA DivisionSteps ==
    ASSUME NumberNext, Op \in TwoOperands
    PROVE  /\ status = "running"
           /\ NotANumber \/ FirstOperand \/ Divide \/ Remainder \/ Modulo \/ EndOfOperands
BY DEF NumberNext, NotANumber, FirstOperand, Negate, Reciprocal, Accumulate, Divide, Remainder,
       Modulo, Compare, Digit, EndOfLiteral, EndOfOperands, AtNumber, TwoOperands, Dividing,
       Comparisons, Literals

\* The remainder with the sign of the divisor.
LEMMA Flooring ==
    ASSUME NEW a \in Int, NEW b \in Int, NEW q \in Int, NEW r \in Int, b # 0,
           Divides(a, b, q, r, a)
    PROVE  LET m == IF r # 0 /\ (r < 0) # (b < 0) THEN r + b ELSE r
           IN  m \in Int /\ \E k \in Int : Divides(a, b, k, m, b)
<1>1. CASE r # 0 /\ (r < 0) # (b < 0)
  <2>1. a = b * (q - 1) + (r + b)
    <3>1. b * (q - 1) = b * q - b
      BY SMT
    <3>2. a = b * q + r /\ b * q \in Int
      BY SMT DEF Divides
    <3> QED BY <3>1, <3>2, SMT
  <2>2. Magnitude(r + b) < Magnitude(b) /\ ((r + b) < 0) = (b < 0)
    BY <1>1, SMT DEF Divides, Magnitude
  <2>3. Divides(a, b, q - 1, r + b, b) /\ q - 1 \in Int /\ r + b \in Int
    BY <2>1, <2>2 DEF Divides
  <2> QED BY <1>1, <2>3
<1>2. CASE ~(r # 0 /\ (r < 0) # (b < 0))
  <2>1. Divides(a, b, q, r, b)
    BY <1>2 DEF Divides
  <2> QED BY <1>2, <2>1
<1> QED BY <1>1, <1>2

\* A remainder fits a word with its tag.
LEMMA RemainderSmall ==
    ASSUME NEW b \in Int, NEW r \in Int, -Payload <= b, b < Payload, Magnitude(r) < Magnitude(b)
    PROVE  -Payload <= r /\ r < Payload
BY Widths, SMT DEF Magnitude

LEMMA DivisionNext == Inv /\ DivisionInv /\ [NumberNext]_numbers => DivisionInv'
<1> SUFFICES ASSUME Inv, DivisionInv, [NumberNext]_numbers, Op' \in TwoOperands PROVE
               /\ status' = "running" => DividedSoFar'
               /\ status' # "running" => DivisionExact'
  BY DEF DivisionInv
<1>1. CASE UNCHANGED numbers
  <2>1. Op \in TwoOperands
    BY <1>1 DEF numbers, Op
  <2> QED BY <1>1, <2>1 DEF numbers, DivisionInv, DividedSoFar, DivisionExact, IsResult, Op, Args, Operand
<1>2. CASE NumberNext
  <2>0. call' = call
    BY <1>2 DEF NumberNext, NotANumber, FirstOperand, Negate, Reciprocal, Accumulate, Divide, Remainder,
       Modulo, Compare, Digit, EndOfLiteral, EndOfOperands, Carry, End, Fail
  <2>1. Op \in TwoOperands /\ Op' = Op /\ Args' = Args
    BY <2>0 DEF Op, Args
  <2>2. status = "running" /\ DividedSoFar /\ Len(Args) = 2 /\ Op \notin Literals /\ Types /\ AccSmall
    BY <1>2, <2>1, DivisionSteps, CallTypes
       DEF DivisionInv, Inv, Types, TwoOperands, Dividing, Literals
  <2>3. \A n : Operand(n)' = Operand(n)
    BY <2>1 DEF Operand
  <2>4. \A x : IsResult(x)' = IsResult(x)
    BY <2>1, <2>3 DEF IsResult
  \* The loop is at the second operand.
  <2>5. ASSUME next > 1, next <= Len(Args)
        PROVE  /\ next = 2 /\ Arg = Operand(2) /\ acc = Operand(1)
               /\ Operand(1) \in Int /\ Operand(2) \in Int
               /\ -Payload <= Operand(2) /\ Operand(2) < Payload
    <3>1. next = 2
      BY <2>2, <2>5, SMT DEF DividedSoFar
    <3>2. Args \in Seq(0 .. Word - 1) /\ 2 \in 1 .. Len(Args)
      <4>1. Types /\ Op \notin Literals /\ Len(Args) = 2
        BY <2>2
      <4> QED BY <4>1, CallTypes, SMT DEF Types
    <3>3. Args[2] \in 0 .. Word - 1
      BY <3>2, ElementIn
    <3> QED BY <2>2, <3>1, <3>3, UnpackSmall DEF DividedSoFar, Arg, Operand, Types
  <2>6. CASE NotANumber
    <3>1. status' = "TYPE"
      BY <2>6 DEF NotANumber, Fail, End
    <3> QED BY <3>1 DEF DivisionExact
  <2>7. CASE FirstOperand
    <3>1. next' = 2 /\ acc' = Operand(1) /\ status' = "running"
      BY <2>2, <2>7 DEF FirstOperand, AtNumber, Carry, Arg, Operand
    <3> QED BY <2>3, <3>1, SMT DEF DividedSoFar
  <2>8. CASE Divide
    <3>1. Op = "quotient" /\ next > 1 /\ next <= Len(Args)
      BY <2>1, <2>8 DEF Divide, AtNumber, TwoOperands, Dividing
    <3>2. CASE Arg = 0
      <4>1. status' = "DIV_ZERO"
        BY <2>8, <3>2 DEF Divide, Fail, End
      <4> QED BY <2>3, <2>5, <3>1, <3>2, <4>1 DEF DivisionExact
    <3>3. CASE Arg # 0
      <4>1. CDiv(acc, Arg) \in Int /\ CRem(acc, Arg) \in Int
            /\ Divides(Operand(1), Operand(2), CDiv(acc, Arg), CRem(acc, Arg), Operand(1))
        BY <2>5, <3>1, <3>3, CDivision
      <4>2. CASE Fits(CDiv(acc, Arg))
        <5>1. acc' = CDiv(acc, Arg) /\ next' = 3 /\ status' = "running"
          BY <2>2, <2>5, <2>8, <3>1, <3>3, <4>2 DEF Divide, Carry
        <5>2. IsResult(acc') /\ acc' < Payload
          BY <3>1, <4>1, <4>2, <5>1, FitsSmall DEF IsResult
        <5> QED BY <2>3, <2>4, <2>5, <3>1, <3>3, <5>1, <5>2, SMT DEF DividedSoFar
      <4>3. CASE ~Fits(CDiv(acc, Arg))
        <5>1. status' = "OVERFLOW"
          BY <2>8, <3>3, <4>3 DEF Divide, Fail, End
        <5>2. \E q, r \in Int : Divides(Operand(1)', Operand(2)', q, r, Operand(1)') /\ ~Fits(q)
          BY <2>3, <4>1, <4>3
        <5> QED BY <2>1, <3>1, <5>1, <5>2 DEF DivisionExact, Divides, Fits, Magnitude
      <4> QED BY <4>2, <4>3
    <3> QED BY <3>2, <3>3
  <2>9. CASE Remainder
    <3>1. Op = "remainder" /\ next > 1 /\ next <= Len(Args)
      BY <2>9 DEF Remainder, AtNumber
    <3>2. CASE Arg = 0
      <4>1. status' = "DIV_ZERO"
        BY <2>9, <3>2 DEF Remainder, Fail, End
      <4> QED BY <2>3, <2>5, <3>1, <3>2, <4>1 DEF DivisionExact
    <3>3. CASE Arg # 0
      <4>1. CDiv(acc, Arg) \in Int /\ CRem(acc, Arg) \in Int
            /\ Divides(Operand(1), Operand(2), CDiv(acc, Arg), CRem(acc, Arg), Operand(1))
        BY <2>5, <3>1, <3>3, CDivision
      <4>2. ~(acc = IntMin /\ Arg = -1)
        BY <2>2, Widths, SMT DEF AccSmall, Types, IntMin
      <4>3. acc' = CRem(acc, Arg) /\ next' = 3 /\ status' = "running"
        BY <2>2, <2>5, <2>9, <3>1, <3>3, <4>2 DEF Remainder, Carry
      <4>4. IsResult(acc') /\ acc' < Payload
        BY <2>5, <3>1, <4>1, <4>3, RemainderSmall DEF IsResult, Divides
      <4> QED BY <2>3, <2>4, <2>5, <3>1, <3>3, <4>3, <4>4, SMT DEF DividedSoFar
    <3> QED BY <3>2, <3>3
  <2>10. CASE Modulo
    <3> DEFINE r == CRem(acc, Arg)
               m == IF r # 0 /\ (r < 0) # (Arg < 0) THEN r + Arg ELSE r
    <3>1. Op = "modulo" /\ next > 1 /\ next <= Len(Args)
      BY <2>10 DEF Modulo, AtNumber
    <3>2. CASE Arg = 0
      <4>1. status' = "DIV_ZERO"
        BY <2>10, <3>2 DEF Modulo, Fail, End
      <4> QED BY <2>3, <2>5, <3>1, <3>2, <4>1 DEF DivisionExact
    <3>3. CASE Arg # 0
      <4>1. CDiv(acc, Arg) \in Int /\ r \in Int
            /\ Divides(Operand(1), Operand(2), CDiv(acc, Arg), r, Operand(1))
        BY <2>5, <3>1, <3>3, CDivision
      <4>2. m \in Int /\ \E k \in Int : Divides(Operand(1), Operand(2), k, m, Operand(2))
        <5> HIDE DEF r
        <5> QED BY <2>5, <3>1, <3>3, <4>1, Flooring
      <4>3. acc' = m /\ next' = 3 /\ status' = "running"
        BY <2>2, <2>5, <2>10, <3>1, <3>3 DEF Modulo, Carry
      <4> HIDE DEF m
      <4>4. IsResult(acc') /\ acc' < Payload
        BY <2>5, <3>1, <4>2, <4>3, RemainderSmall DEF IsResult, Divides
      <4> QED BY <2>3, <2>4, <2>5, <3>1, <3>3, <4>3, <4>4, SMT DEF DividedSoFar
    <3> QED BY <3>2, <3>3
  <2>11. CASE EndOfOperands
    <3>1. status' = "OK" /\ value' = Pack(acc) /\ next = 3
      BY <2>1, <2>2, <2>11, SMT
         DEF EndOfOperands, End, DividedSoFar, TwoOperands, Dividing, Comparisons
    <3>2. Operand(2) # 0 /\ IsResult(acc) /\ acc \in Int /\ -Payload <= acc /\ acc < Payload
      BY <2>2, <3>1 DEF DividedSoFar, Types, AccSmall
    <3>3. IsFix(value') /\ Unpack(value') = acc
      BY <3>1, <3>2, PackLosesNothing
    <3> QED BY <2>3, <2>4, <3>1, <3>2, <3>3 DEF DivisionExact, IsFix
  <2> QED BY <1>2, <2>1, <2>6, <2>7, <2>8, <2>9, <2>10, <2>11, DivisionSteps
<1> QED BY <1>1, <1>2

\* quotient, remainder and modulo leave a remainder smaller than the divisor,
\* with the sign of the dividend, or for modulo of the divisor; they refuse zero,
\* and a quotient exactly when it is no fixnum (primitives.c:145-202).
THEOREM DivisionsAreExact ==
    NumberSpec => [](Op \in TwoOperands /\ status # "running" => DivisionExact)
<1>1. NumberInit => DivisionInv
  <2> SUFFICES ASSUME NumberInit, Op \in TwoOperands PROVE DividedSoFar /\ status = "running"
    BY DEF DivisionInv
  <2>1. next = 1 /\ status = "running"
    BY DEF NumberInit
  <2> QED BY <2>1, SMT DEF DividedSoFar
<1>2. DivisionInv => (Op \in TwoOperands /\ status # "running" => DivisionExact)
  BY DEF DivisionInv
<1> QED BY InvInit, InvNext, <1>1, DivisionNext, <1>2, PTL DEF NumberSpec

-----------------------------------------------------------------------------
(***************************************************************************)
(* What the operations mean: sums, products and decimals one operand at a  *)
(* time, and the quotients by what singles them out.                       *)
(***************************************************************************)
IntegerSeqs == Seq(Int)

\* A sum grows by one integer at a time.
LEMMA SumUnfolds ==
    ASSUME NEW xs \in IntegerSeqs, NEW i \in Nat \ {0}
    PROVE  \A n \in 0 .. Len(xs) :
              SumFrom(xs, i, n) \in Int /\ SumFrom(xs, i, n) = IF n < i THEN 0 ELSE SumFrom(xs, i, n - 1) + xs[n]
<1> DEFINE N == Len(xs)
           step == [k \in 1 .. N |-> [x \in Int |-> x + xs[k]]]
           Obeys(f) == f = [k \in 0 .. N |-> IF k < i THEN 0 ELSE f[k - 1] + xs[k]]
           sum == CHOOSE f : Obeys(f)
<1>1. N \in Nat /\ \A k \in 1 .. N : xs[k] \in Int
  BY DEF IntegerSeqs
<1>2. \A n : SumFrom(xs, i, n) = sum[n]
  BY DEF SumFrom
<1> HIDE DEF N
<1>3. step \in [1 .. N -> [Int -> Int]]
  BY <1>1
<1>4. PICK f \in [0 .. N -> Int] : Unrolls(f, N, i, 0, step)
  <2>1. N \in Nat /\ 0 \in Int /\ i \in Nat \ {0}
    BY <1>1
  <2> HIDE DEF step
  <2> QED BY <1>3, <2>1, UnrollingExists
<1>5. \A k \in 0 .. N : f[k] = IF k < i THEN 0 ELSE f[k - 1] + xs[k]
  <2> SUFFICES ASSUME NEW k \in 0 .. N PROVE f[k] = IF k < i THEN 0 ELSE f[k - 1] + xs[k]
    OBVIOUS
  <2>1. f[k] = IF k < i THEN 0 ELSE step[k][f[k - 1]]
    BY <1>4 DEF Unrolls
  <2>2. k >= i => k \in 1 .. N /\ k - 1 \in 0 .. N
    BY <1>1
  <2>3. k >= i => f[k - 1] \in Int
    BY <1>4, <2>2
  <2> QED BY <2>1, <2>2, <2>3
<1>6. Obeys(f)
  BY <1>4, <1>5
<1> HIDE DEF step
<1>7. Obeys(sum)
  <2> HIDE DEF Obeys
  <2> QED BY <1>6
<1>8. \A k \in 0 .. N : sum[k] = IF k < i THEN 0 ELSE sum[k - 1] + xs[k]
  <2> HIDE DEF sum
  <2> QED BY <1>7
<1> HIDE DEF sum
<1>9. \A k \in 0 .. N : sum[k] \in Int
  <2> DEFINE set == {k \in Nat : sum[k] \in Int}
  <2>1. 0 \in set
    BY <1>1, <1>8
  <2>2. \A k \in 1 .. N : k - 1 \in set => k \in set
    <3> SUFFICES ASSUME NEW k \in 1 .. N, k - 1 \in set PROVE k \in set
      OBVIOUS
    <3>1. sum[k] = IF k < i THEN 0 ELSE sum[k - 1] + xs[k]
      BY <1>8
    <3>2. xs[k] \in Int
      BY <1>1
    <3> QED BY <3>1, <3>2
  <2> HIDE DEF set
  <2>3. \A k \in 0 .. N : k \in set
    BY <1>1, <2>1, <2>2, UpTo
  <2> QED BY <2>3 DEF set
<1> QED
  BY <1>2, <1>8, <1>9 DEF N

\* A product grows by one integer at a time.
LEMMA ProductUnfolds ==
    ASSUME NEW xs \in IntegerSeqs, NEW i \in Nat \ {0}
    PROVE  \A n \in 0 .. Len(xs) :
              ProductFrom(xs, i, n) \in Int /\ ProductFrom(xs, i, n) = IF n < i THEN 1 ELSE ProductFrom(xs, i, n - 1) * xs[n]
<1> DEFINE N == Len(xs)
           step == [k \in 1 .. N |-> [x \in Int |-> x * xs[k]]]
           Obeys(f) == f = [k \in 0 .. N |-> IF k < i THEN 1 ELSE f[k - 1] * xs[k]]
           product == CHOOSE f : Obeys(f)
<1>1. N \in Nat /\ \A k \in 1 .. N : xs[k] \in Int
  BY DEF IntegerSeqs
<1>2. \A n : ProductFrom(xs, i, n) = product[n]
  BY DEF ProductFrom
<1> HIDE DEF N
<1>3. step \in [1 .. N -> [Int -> Int]]
  BY <1>1
<1>4. PICK f \in [0 .. N -> Int] : Unrolls(f, N, i, 1, step)
  <2>1. N \in Nat /\ 1 \in Int /\ i \in Nat \ {0}
    BY <1>1
  <2> HIDE DEF step
  <2> QED BY <1>3, <2>1, UnrollingExists
<1>5. \A k \in 0 .. N : f[k] = IF k < i THEN 1 ELSE f[k - 1] * xs[k]
  <2> SUFFICES ASSUME NEW k \in 0 .. N PROVE f[k] = IF k < i THEN 1 ELSE f[k - 1] * xs[k]
    OBVIOUS
  <2>1. f[k] = IF k < i THEN 1 ELSE step[k][f[k - 1]]
    BY <1>4 DEF Unrolls
  <2>2. k >= i => k \in 1 .. N /\ k - 1 \in 0 .. N
    BY <1>1
  <2>3. k >= i => f[k - 1] \in Int
    BY <1>4, <2>2
  <2> QED BY <2>1, <2>2, <2>3
<1>6. Obeys(f)
  BY <1>4, <1>5
<1> HIDE DEF step
<1>7. Obeys(product)
  <2> HIDE DEF Obeys
  <2> QED BY <1>6
<1>8. \A k \in 0 .. N : product[k] = IF k < i THEN 1 ELSE product[k - 1] * xs[k]
  <2> HIDE DEF product
  <2> QED BY <1>7
<1> HIDE DEF product
<1>9. \A k \in 0 .. N : product[k] \in Int
  <2> DEFINE set == {k \in Nat : product[k] \in Int}
  <2>1. 0 \in set
    BY <1>1, <1>8
  <2>2. \A k \in 1 .. N : k - 1 \in set => k \in set
    <3> SUFFICES ASSUME NEW k \in 1 .. N, k - 1 \in set PROVE k \in set
      OBVIOUS
    <3>1. product[k] = IF k < i THEN 1 ELSE product[k - 1] * xs[k]
      BY <1>8
    <3>2. xs[k] \in Int
      BY <1>1
    <3> QED BY <3>1, <3>2
  <2> HIDE DEF set
  <2>3. \A k \in 0 .. N : k \in set
    BY <1>1, <2>1, <2>2, UpTo
  <2> QED BY <2>3 DEF set
<1> QED
  BY <1>2, <1>8, <1>9 DEF N

\* A decimal is read one digit at a time and is never negative.
LEMMA DecimalUnfolds ==
    ASSUME NEW xs \in Seq(Nat)
    PROVE  \A n \in 0 .. Len(xs) :
              Decimal(xs, n) \in Nat /\ Decimal(xs, n) = IF n < 1 THEN 0 ELSE 10 * Decimal(xs, n - 1) + xs[n]
<1> DEFINE N == Len(xs)
           step == [k \in 1 .. N |-> [x \in Nat |-> 10 * x + xs[k]]]
           Obeys(f) == f = [k \in 0 .. N |-> IF k < 1 THEN 0 ELSE 10 * f[k - 1] + xs[k]]
           decimal == CHOOSE f : Obeys(f)
<1>1. N \in Nat /\ \A k \in 1 .. N : xs[k] \in Nat
  OBVIOUS
<1>2. \A n : Decimal(xs, n) = decimal[n]
  BY DEF Decimal
<1> HIDE DEF N
<1>3. step \in [1 .. N -> [Nat -> Nat]]
  BY <1>1
<1>4. PICK f \in [0 .. N -> Nat] : Unrolls(f, N, 1, 0, step)
  <2>1. N \in Nat /\ 0 \in Nat /\ 1 \in Nat \ {0}
    BY <1>1
  <2> HIDE DEF step
  <2> QED BY <1>3, <2>1, UnrollingExists
<1>5. \A k \in 0 .. N : f[k] = IF k < 1 THEN 0 ELSE 10 * f[k - 1] + xs[k]
  <2> SUFFICES ASSUME NEW k \in 0 .. N PROVE f[k] = IF k < 1 THEN 0 ELSE 10 * f[k - 1] + xs[k]
    OBVIOUS
  <2>1. f[k] = IF k < 1 THEN 0 ELSE step[k][f[k - 1]]
    BY <1>4 DEF Unrolls
  <2>2. k # 0 => k \in 1 .. N /\ k - 1 \in 0 .. N
    BY <1>1
  <2>3. k # 0 => f[k - 1] \in Nat
    BY <1>4, <2>2
  <2> QED BY <2>1, <2>2, <2>3
<1>6. Obeys(f)
  BY <1>4, <1>5
<1> HIDE DEF step
<1>7. Obeys(decimal)
  <2> HIDE DEF Obeys
  <2> QED BY <1>6
<1>8. \A k \in 0 .. N : decimal[k] = IF k < 1 THEN 0 ELSE 10 * decimal[k - 1] + xs[k]
  <2> HIDE DEF decimal
  <2> QED BY <1>7
<1> HIDE DEF decimal
<1>9. \A k \in 0 .. N : decimal[k] \in Nat
  <2> DEFINE set == {k \in Nat : decimal[k] \in Nat}
  <2>1. 0 \in set
    BY <1>1, <1>8
  <2>2. \A k \in 1 .. N : k - 1 \in set => k \in set
    <3> SUFFICES ASSUME NEW k \in 1 .. N, k - 1 \in set PROVE k \in set
      OBVIOUS
    <3>1. decimal[k] = IF k < 1 THEN 0 ELSE 10 * decimal[k - 1] + xs[k]
      BY <1>8
    <3>2. xs[k] \in Nat
      BY <1>1
    <3> QED BY <3>1, <3>2
  <2> HIDE DEF set
  <2>3. \A k \in 0 .. N : k \in set
    BY <1>1, <2>1, <2>2, UpTo
  <2> QED BY <2>3 DEF set
<1> QED
  BY <1>2, <1>8, <1>9 DEF N

\* The magnitude of a product.
LEMMA MagnitudeOfProduct ==
    ASSUME NEW x \in Int, NEW y \in Int
    PROVE  /\ Magnitude(x) \in Nat /\ Magnitude(y) \in Nat
           /\ Magnitude(x * y) = Magnitude(x) * Magnitude(y)
<1>1. Magnitude(x) \in Nat /\ Magnitude(y) \in Nat
  BY SMT DEF Magnitude
<1>2. CASE x >= 0 /\ y >= 0
  <2>1. x * y >= 0
    BY <1>2, SMT
  <2> QED BY <1>1, <1>2, <2>1, SMT DEF Magnitude
<1>3. CASE x < 0 /\ y < 0
  <2>1. x * y > 0 /\ (-x) * (-y) = x * y
    BY <1>3, SMT
  <2> QED BY <1>1, <1>3, <2>1, SMT DEF Magnitude
<1>4. CASE x < 0 /\ y >= 0
  <2>1. x * y <= 0 /\ (-x) * y = -(x * y)
    BY <1>4, SMT
  <2> QED BY <1>1, <1>4, <2>1, SMT DEF Magnitude
<1>5. CASE x >= 0 /\ y < 0
  <2>1. x * y <= 0 /\ x * (-y) = -(x * y)
    BY <1>5, SMT
  <2> QED BY <1>1, <1>5, <2>1, SMT DEF Magnitude
<1> QED
  BY <1>2, <1>3, <1>4, <1>5

\* The sign of a product.
LEMMA SignOfProduct ==
    ASSUME NEW x \in Int, NEW y \in Int
    PROVE  /\ x * y \in Int
           /\ (x > 0 /\ y > 0) \/ (x < 0 /\ y < 0) <=> x * y > 0
           /\ x = 0 \/ y = 0 <=> x * y = 0
<1>1. x > 0 /\ y > 0 => x * y > 0
  BY SMT
<1>2. x < 0 /\ y < 0 => x * y > 0
  BY SMT
<1>3. x > 0 /\ y < 0 => x * y < 0
  BY SMT
<1>4. x < 0 /\ y > 0 => x * y < 0
  BY SMT
<1>5. x = 0 \/ y = 0 => x * y = 0
  BY SMT
<1> QED
  BY <1>1, <1>2, <1>3, <1>4, <1>5, SMT

\* q leaves of a a remainder smaller than b, of the sign of s.
Leaves(a, b, q, s) ==
    /\ Magnitude(a - q * b) < Magnitude(b)
    /\ a - q * b # 0 => (a - q * b > 0) = (s > 0)

\* There is one such quotient at most.
LEMMA OneQuotient ==
    ASSUME NEW a \in Int, NEW b \in Int, NEW s \in Int, NEW p \in Int, NEW q \in Int,
           Leaves(a, b, p, s), Leaves(a, b, q, s)
    PROVE  p = q
<1> DEFINE d == p - q
           r == a - p * b
           t == a - q * b
<1>1. d \in Int /\ r \in Int /\ t \in Int
  BY SMT
<1>2. t - r = d * b
  BY SMT
<1>3. Magnitude(r) < Magnitude(b) /\ Magnitude(t) < Magnitude(b)
      /\ (r # 0 => (r > 0) = (s > 0)) /\ (t # 0 => (t > 0) = (s > 0))
  BY DEF Leaves
<1>4. Magnitude(d * b) = Magnitude(d) * Magnitude(b) /\ Magnitude(d) \in Nat /\ Magnitude(b) \in Nat
  BY <1>1, MagnitudeOfProduct
<1> HIDE DEF r, t
<1>5. Magnitude(t - r) < Magnitude(b)
  BY <1>1, <1>3, SMT DEF Magnitude
<1>6. Magnitude(d) = 0
  <2> DEFINE m == Magnitude(d)
             n == Magnitude(b)
  <2>1. m \in Nat /\ n \in Nat /\ m * n < n
    BY <1>2, <1>4, <1>5
  <2> HIDE DEF m, n
  <2>2. m >= 1 => m * n >= n
    BY <2>1, SMT
  <2>3. m = 0
    BY <2>1, <2>2, SMT
  <2> QED BY <2>3 DEF m
<1> QED
  BY <1>1, <1>6, SMT DEF Magnitude

\* Division of C is one.
LEMMA CDivLeaves ==
    ASSUME NEW a \in Int, NEW b \in Int, b # 0
    PROVE  CDiv(a, b) \in Int /\ Leaves(a, b, CDiv(a, b), a)
<1> DEFINE q == CDiv(a, b)
           r == CRem(a, b)
<1>1. q \in Int /\ r \in Int /\ Magnitude(q) <= Magnitude(a) /\ Divides(a, b, q, r, a)
  BY CDivision
<1>2. a - q * b = r
  <2> HIDE DEF q, r
  <2>1. a = b * q + r
    BY <1>1 DEF Divides
  <2> QED BY <1>1, <2>1, SMT
<1>3. r # 0 => (r > 0) = (a > 0)
  <2> HIDE DEF q, r
  <2>1. a = 0 => r = 0
    <3>1. Magnitude(0) = 0
      BY SMT DEF Magnitude
    <3>2. a = 0 => q = 0
      BY <1>1, <3>1, SMT DEF Magnitude
    <3>3. a = 0 /\ q = 0 => r = 0
      BY <1>1, <1>2, SMT
    <3> QED BY <3>2, <3>3
  <2>2. r # 0 => (r < 0) = (a < 0)
    BY <1>1 DEF Divides
  <2> QED BY <1>1, <2>1, <2>2, SMT
<1> QED
  BY <1>1, <1>2, <1>3 DEF Leaves, Divides

\* A factor that is not zero does not make a magnitude smaller.
LEMMA NoSmaller ==
    ASSUME NEW x \in Int, NEW y \in Int, x # 0
    PROVE  Magnitude(y) <= Magnitude(x * y) /\ Magnitude(y) <= Magnitude(y * x)
<1> DEFINE m == Magnitude(x)
           n == Magnitude(y)
<1>1. m \in Nat /\ n \in Nat /\ Magnitude(x * y) = m * n /\ Magnitude(y * x) = n * m
  BY MagnitudeOfProduct
<1>2. m >= 1
  BY SMT DEF Magnitude
<1> HIDE DEF m, n
<1>3. n <= m * n /\ n <= n * m
  BY <1>1, <1>2, SMT
<1> QED
  BY <1>1, <1>3 DEF n

\* To divide twice is to divide by the product.
LEMMA DividedTwice ==
    ASSUME NEW a \in Int, NEW b \in Int, NEW c \in Int, b # 0, c # 0
    PROVE  CDiv(CDiv(a, b), c) = CDiv(a, b * c)
<1> DEFINE q == CDiv(a, b)
           r == a - q * b
           p == CDiv(q, c)
           t == q - p * c
           u == a - p * (b * c)
<1>1. q \in Int /\ r \in Int /\ Leaves(a, b, q, a)
  <2>1. q \in Int /\ Leaves(a, b, q, a)
    BY CDivLeaves
  <2> HIDE DEF q
  <2> QED BY <2>1, SMT
<1>2. p \in Int /\ t \in Int /\ Leaves(q, c, p, q)
  <2>1. p \in Int /\ Leaves(q, c, p, q)
    BY <1>1, CDivLeaves
  <2> HIDE DEF p, q
  <2> QED BY <1>1, <2>1, SMT
<1> HIDE DEF p, q
<1>3. u = b * t + r
  BY <1>1, <1>2, SMT
<1>4. /\ Magnitude(r) < Magnitude(b) /\ (r # 0 => (r > 0) = (a > 0))
      /\ Magnitude(t) < Magnitude(c) /\ (t # 0 => (t > 0) = (q > 0))
  BY <1>1, <1>2 DEF Leaves
<1>5. a = q * b + r /\ q = p * c + t
  BY <1>1, <1>2, SMT
<1>6. b * c \in Int /\ b * c # 0 /\ b * t \in Int /\ q * b \in Int
  BY <1>1, <1>2, SMT
<1> HIDE DEF r, t
<1>7. Magnitude(u) < Magnitude(b * c)
  <2> DEFINE m == Magnitude(b)
             n == Magnitude(c)
             k == Magnitude(t)
             j == Magnitude(r)
  <2>1. /\ m \in Nat /\ n \in Nat /\ k \in Nat /\ j \in Nat
        /\ Magnitude(b * c) = m * n /\ Magnitude(b * t) = m * k
    BY <1>1, <1>2, MagnitudeOfProduct
  <2>2. Magnitude(u) <= Magnitude(b * t) + j
    BY <1>1, <1>3, <1>6, SMT DEF Magnitude
  <2>3. j < m /\ k < n
    BY <1>4
  <2> HIDE DEF m, n, k, j
  <2>4. m * k + j < m * n
    <3>1. m * k + m <= m * n
      <4> DEFINE e == n - 1 - k
      <4>1. e \in Nat /\ n = k + 1 + e
        BY <2>1, <2>3, SMT
      <4> HIDE DEF e
      <4>2. m * e >= 0 /\ m * n = m * k + m + m * e
        BY <2>1, <4>1, SMT
      <4> QED BY <2>1, <4>1, <4>2, SMT
    <3>2. m * k \in Int /\ m * n \in Int
      BY <2>1, SMT
    <3> QED BY <2>1, <2>3, <3>1, <3>2, SMT
  <2>5. m * k \in Int /\ m * n \in Int /\ Magnitude(u) \in Int
    <3>1. u \in Int
      BY <1>1, <1>3, <1>6, SMT
    <3> HIDE DEF u
    <3> QED BY <2>1, <3>1, SMT DEF Magnitude
  <2> QED BY <2>1, <2>2, <2>4, <2>5, SMT
<1>8. u # 0 => (u > 0) = (a > 0)
  <2>1. CASE t = 0
    <3>1. u = r
      BY <1>1, <1>3, <2>1, SMT
    <3> QED BY <1>4, <3>1
  <2>2. CASE t # 0
    <3>1. (b * t > 0) = (q * b > 0) /\ b * t # 0 /\ q * b # 0
      <4>1. q # 0
        <5>1. q = 0 => p = 0
          <6>1. q = 0 => Magnitude(q) = 0
            BY SMT DEF Magnitude
          <6>2. Magnitude(p) <= Magnitude(q)
            BY <1>1, CDivision DEF p
          <6> QED BY <1>2, <6>1, <6>2, SMT DEF Magnitude
        <5>2. q = 0 /\ p = 0 => t = 0
          BY <1>2, <1>5, SMT
        <5> QED BY <2>2, <5>1, <5>2
      <4>2. (t > 0) = (q > 0)
        BY <1>4, <2>2
      <4>3. /\ (b > 0 /\ t > 0) \/ (b < 0 /\ t < 0) <=> b * t > 0
            /\ b = 0 \/ t = 0 <=> b * t = 0
            /\ (q > 0 /\ b > 0) \/ (q < 0 /\ b < 0) <=> q * b > 0
            /\ q = 0 \/ b = 0 <=> q * b = 0
        BY <1>1, <1>2, SignOfProduct
      <4> QED BY <1>1, <1>2, <2>2, <4>1, <4>2, <4>3, SMT
    <3>2. Magnitude(q * b) >= Magnitude(b) /\ Magnitude(b * t) >= Magnitude(b)
      <4>1. q # 0
        BY <1>1, <3>1, SMT
      <4>2. Magnitude(b) <= Magnitude(q * b)
        BY <1>1, <4>1, NoSmaller
      <4>3. Magnitude(b) <= Magnitude(b * t)
        BY <1>2, <2>2, NoSmaller
      <4>4. Magnitude(b) \in Int /\ Magnitude(q * b) \in Int /\ Magnitude(b * t) \in Int
        BY <1>6, SMT DEF Magnitude
      <4> QED BY <4>2, <4>3, <4>4, SMT
    <3>3. (a > 0) = (q * b > 0)
      BY <1>1, <1>4, <1>5, <1>6, <3>1, <3>2, SMT DEF Magnitude
    <3>4. (u > 0) = (b * t > 0)
      BY <1>1, <1>3, <1>4, <1>6, <3>1, <3>2, SMT DEF Magnitude
    <3> QED BY <3>1, <3>3, <3>4
  <2> QED BY <2>1, <2>2
<1>9. Leaves(a, b * c, p, a)
  BY <1>7, <1>8 DEF Leaves
<1>10. CDiv(a, b * c) \in Int /\ Leaves(a, b * c, CDiv(a, b * c), a)
  BY <1>6, CDivLeaves
<1>11. p = CDiv(a, b * c)
  BY <1>2, <1>6, <1>9, <1>10, OneQuotient
<1> QED
  BY <1>11 DEF p, q

\* The model's quotient of a fixnum is the one of C.
LEMMA QuotientIs ==
    ASSUME NEW a \in Int, NEW b \in Int, b # 0, Fits(a)
    PROVE  Quotient(a, b) = CDiv(a, b)
<1> DEFINE range == FixMin .. FixMax + 1
           q == CHOOSE p \in range : Leaves(a, b, p, a)
<1>1. Quotient(a, b) = q
  BY DEF Quotient, Leaves
<1>2. CDiv(a, b) \in Int /\ Leaves(a, b, CDiv(a, b), a)
  BY CDivLeaves
<1>3. CDiv(a, b) \in range
  <2>1. Magnitude(CDiv(a, b)) <= Magnitude(a)
    BY CDivision
  <2> QED BY <1>2, <2>1, Widths, SMT DEF Magnitude, Fits, FixMin
<1>4. q \in range /\ Leaves(a, b, q, a)
  <2> HIDE DEF range, Leaves
  <2>1. \E p \in range : Leaves(a, b, p, a)
    BY <1>2, <1>3
  <2> QED BY <2>1
<1>5. q \in Int
  <2> HIDE DEF q
  <2> QED BY <1>4, Widths, SMT DEF FixMin
<1> HIDE DEF q
<1> QED
  BY <1>1, <1>2, <1>4, <1>5, OneQuotient

\* The remainder with the sign of the divisor belongs to the model's floored
\* quotient.
LEMMA FloorQuotientIs ==
    ASSUME NEW a \in Int, NEW b \in Int, b # 0, Fits(a)
    PROVE  LET r == CRem(a, b)
               m == IF r # 0 /\ (r < 0) # (b < 0) THEN r + b ELSE r
           IN  m = a - b * FloorQuotient(a, b) /\ m \in Int /\ Magnitude(m) < Magnitude(b)
<1> DEFINE c == CDiv(a, b)
           r == CRem(a, b)
           floored == r # 0 /\ (r < 0) # (b < 0)
           m == IF floored THEN r + b ELSE r
           k == IF floored THEN c - 1 ELSE c
           range == FixMin - 1 .. FixMax + 1
           q == CHOOSE p \in range : Leaves(a, b, p, b)
<1>1. FloorQuotient(a, b) = q
  BY DEF FloorQuotient, Leaves
<1>2. /\ c \in Int /\ r \in Int /\ Magnitude(c) <= Magnitude(a)
      /\ a = b * c + r /\ Magnitude(r) < Magnitude(b)
  BY CDivision DEF Divides
<1> HIDE DEF c, r
<1>3. k \in Int /\ m \in Int
  BY <1>2, SMT
<1>4. a - k * b = m
  BY <1>2, SMT
<1>5. Magnitude(m) < Magnitude(b) /\ (m # 0 => (m > 0) = (b > 0))
  BY <1>2, SMT DEF Magnitude
<1>6. k \in range
  BY <1>2, Widths, SMT DEF Magnitude, Fits, FixMin
<1>7. Leaves(a, b, k, b)
  BY <1>4, <1>5 DEF Leaves
<1>8. q \in range /\ Leaves(a, b, q, b)
  <2> HIDE DEF range, Leaves, k
  <2>1. \E p \in range : Leaves(a, b, p, b)
    BY <1>6, <1>7
  <2> QED BY <2>1
<1>9. q \in Int
  <2> HIDE DEF q
  <2> QED BY <1>8, Widths, SMT DEF FixMin
<1> HIDE DEF q, k, m
<1>10. q = k
  BY <1>3, <1>7, <1>8, <1>9, OneQuotient
<1>11. m = a - b * k
  BY <1>3, <1>4, SMT
<1> QED
  BY <1>1, <1>3, <1>5, <1>10, <1>11 DEF m, r

-----------------------------------------------------------------------------
(***************************************************************************)
(* Arithmetic.                                                             *)
(***************************************************************************)

\* The operands of the evaluator's calls that are numbers are fixnums:
\* ml_make_fix has no other integers to pack.
FixnumOperands ==
    \A c \in Calls : c.op \notin Literals =>
        \A n \in DOMAIN c.args : IsFix(c.args[n]) => Fits(Unpack(c.args[n]))

Arithmetic == {"+", "-", "*"} \cup Dividing
Means(n) == Meaning(Op, OperandValues, n)
Unit == IF Op = "*" THEN 1 ELSE 0

\* The operands as integers.
LEMMA ValuesAre ==
    ASSUME call \in Calls, Op \notin Literals
    PROVE  /\ OperandValues \in IntegerSeqs /\ Len(OperandValues) = Len(Args)
           /\ Len(Args) \in Nat /\ DOMAIN Args = 1 .. Len(Args)
           /\ \A n \in 1 .. Len(Args) : OperandValues[n] = Operand(n) /\ Operand(n) \in Int
<1>1. Args \in Seq(0 .. Word - 1)
  BY CallTypes
<1>2. Len(Args) \in Nat /\ DOMAIN Args = 1 .. Len(Args)
  BY <1>1
<1>3. \A n \in 1 .. Len(Args) : Operand(n) \in Int
  <2> SUFFICES ASSUME NEW n \in 1 .. Len(Args) PROVE Operand(n) \in Int
    OBVIOUS
  <2>1. Args[n] \in 0 .. Word - 1
    BY <1>1, ElementIn
  <2> QED BY <2>1, UnpackSmall DEF Operand
<1>4. OperandValues = [n \in 1 .. Len(Args) |-> Operand(n)]
  BY <1>2 DEF OperandValues
<1>5. OperandValues \in IntegerSeqs /\ Len(OperandValues) = Len(Args)
  <2> HIDE DEF Operand
  <2> QED BY <1>2, <1>3, <1>4 DEF IntegerSeqs
<1> QED
  BY <1>2, <1>3, <1>4, <1>5

\* The first of several operands, and a call that is accumulated.
LEMMA AccumulatedMeans ==
    ASSUME call \in Calls, Op \in {"+", "-", "*"}, NEW n \in 1 .. Len(Args), Op = "-" => n > 1
    PROVE  Means(n) = Exact(IF n = 1 THEN Unit ELSE Means(n - 1), Operand(n))
<1> DEFINE xs == OperandValues
<1>0. Op \notin Literals
  BY DEF Literals
<1>1. /\ xs \in IntegerSeqs /\ Len(xs) = Len(Args) /\ Len(Args) \in Nat
      /\ \A k \in 1 .. Len(Args) : xs[k] = Operand(k) /\ Operand(k) \in Int
  BY <1>0, ValuesAre
<1> HIDE DEF xs
<1>2. \A k : Means(k) = Meaning(Op, xs, k)
  BY DEF Means, xs
<1>3. n \in 0 .. Len(xs) /\ n - 1 \in 0 .. Len(xs) /\ 0 \in 0 .. Len(xs) /\ 1 \in 0 .. Len(xs)
  BY <1>1
<1>4. CASE Op = "+"
  <2>1. \A k \in 0 .. Len(xs) :
           SumFrom(xs, 1, k) \in Int
           /\ SumFrom(xs, 1, k) = IF k < 1 THEN 0 ELSE SumFrom(xs, 1, k - 1) + xs[k]
    BY <1>1, SumUnfolds
  <2>2. SumFrom(xs, 1, 0) = 0 /\ SumFrom(xs, 1, 1) = xs[1]
    BY <1>1, <1>3, <2>1
  <2>3. \A k \in 1 .. Len(xs) : Means(k) = SumFrom(xs, 1, k)
    <3> SUFFICES ASSUME NEW k \in 1 .. Len(xs) PROVE Means(k) = SumFrom(xs, 1, k)
      OBVIOUS
    <3>1. Means(k) = IF k = 1 /\ Len(xs) > 1 THEN xs[1] ELSE SumFrom(xs, 1, k)
      BY <1>2, <1>4 DEF Meaning
    <3> QED BY <2>2, <3>1
  <2>4. SumFrom(xs, 1, n) = SumFrom(xs, 1, n - 1) + xs[n]
    BY <1>3, <2>1
  <2>5. SumFrom(xs, 1, n - 1) = IF n = 1 THEN Unit ELSE Means(n - 1)
    <3>1. n # 1 => n - 1 \in 1 .. Len(xs)
      BY <1>1
    <3>2. Unit = 0
      BY <1>4 DEF Unit
    <3>3. n = 1 => SumFrom(xs, 1, n - 1) = 0
      BY <2>2
    <3> QED BY <2>3, <3>1, <3>2, <3>3
  <2>6. Means(n) = SumFrom(xs, 1, n) /\ xs[n] = Operand(n)
    BY <1>1, <2>3
  <2> QED BY <1>4, <2>4, <2>5, <2>6 DEF Exact
<1>5. CASE Op = "*"
  <2>1. \A k \in 0 .. Len(xs) :
           ProductFrom(xs, 1, k) \in Int
           /\ ProductFrom(xs, 1, k) = IF k < 1 THEN 1 ELSE ProductFrom(xs, 1, k - 1) * xs[k]
    BY <1>1, ProductUnfolds
  <2>2. ProductFrom(xs, 1, 0) = 1 /\ ProductFrom(xs, 1, 1) = xs[1]
    <3>1. ProductFrom(xs, 1, 0) = 1
      BY <1>3, <2>1
    <3>2. ProductFrom(xs, 1, 1) = ProductFrom(xs, 1, 0) * xs[1] /\ xs[1] \in Int
      <4>1. 1 \in 1 .. Len(Args)
        BY <1>1
      <4> QED BY <1>1, <1>3, <2>1, <4>1
    <3> QED BY <3>1, <3>2
  <2>3. \A k \in 1 .. Len(xs) : Means(k) = ProductFrom(xs, 1, k)
    <3> SUFFICES ASSUME NEW k \in 1 .. Len(xs) PROVE Means(k) = ProductFrom(xs, 1, k)
      OBVIOUS
    <3>1. Means(k) = IF k = 1 /\ Len(xs) > 1 THEN xs[1] ELSE ProductFrom(xs, 1, k)
      BY <1>2, <1>5 DEF Meaning
    <3> QED BY <2>2, <3>1
  <2>4. ProductFrom(xs, 1, n) = ProductFrom(xs, 1, n - 1) * xs[n]
    BY <1>3, <2>1
  <2>5. ProductFrom(xs, 1, n - 1) = IF n = 1 THEN Unit ELSE Means(n - 1)
    <3>1. n # 1 => n - 1 \in 1 .. Len(xs)
      BY <1>1
    <3>2. Unit = 1
      BY <1>5 DEF Unit
    <3>3. n = 1 => ProductFrom(xs, 1, n - 1) = 1
      BY <2>2
    <3> QED BY <2>3, <3>1, <3>2, <3>3
  <2>6. Means(n) = ProductFrom(xs, 1, n) /\ xs[n] = Operand(n)
    BY <1>1, <2>3
  <2> QED BY <1>5, <2>4, <2>5, <2>6 DEF Exact
<1>6. CASE Op = "-"
  <2>1. \A k \in 0 .. Len(xs) :
           SumFrom(xs, 2, k) \in Int
           /\ SumFrom(xs, 2, k) = IF k < 2 THEN 0 ELSE SumFrom(xs, 2, k - 1) + xs[k]
    BY <1>1, SumUnfolds
  <2>2. n > 1 /\ Len(xs) > 1
    BY <1>1, <1>6
  <2>3. \A k \in 1 .. Len(xs) : Means(k) = xs[1] - SumFrom(xs, 2, k)
    <3> SUFFICES ASSUME NEW k \in 1 .. Len(xs) PROVE Means(k) = xs[1] - SumFrom(xs, 2, k)
      OBVIOUS
    <3>1. Means(k) = IF k = 1 THEN xs[1] ELSE xs[1] - SumFrom(xs, 2, k)
      BY <1>2, <1>6, <2>2 DEF Meaning
    <3>2. k = 1 => SumFrom(xs, 2, k) = 0
      BY <1>3, <2>1
    <3>3. xs[1] \in Int
      BY <1>1, <2>2
    <3> QED BY <3>1, <3>2, <3>3
  <2>4. SumFrom(xs, 2, n) = SumFrom(xs, 2, n - 1) + xs[n]
        /\ SumFrom(xs, 2, n - 1) \in Int /\ xs[n] \in Int /\ xs[1] \in Int
    <3>1. n \in 1 .. Len(Args) /\ 1 \in 1 .. Len(Args)
      BY <1>1, <2>2
    <3> QED BY <1>1, <1>3, <2>1, <2>2, <3>1
  <2>5. Means(n) = xs[1] - SumFrom(xs, 2, n) /\ Means(n - 1) = xs[1] - SumFrom(xs, 2, n - 1)
    <3>1. n \in 1 .. Len(xs) /\ n - 1 \in 1 .. Len(xs)
      BY <1>1, <2>2
    <3> QED BY <2>3, <3>1
  <2>6. xs[n] = Operand(n)
    BY <1>1
  <2>7. Means(n) = Means(n - 1) - Operand(n)
    BY <2>4, <2>5, <2>6
  <2> QED BY <1>6, <2>2, <2>7 DEF Exact
<1> QED
  BY <1>4, <1>5, <1>6

\* A call that divides, one divisor at a time.
LEMMA DividedMeans ==
    ASSUME call \in Calls, Op \in {"/", "quotient"}, NEW n \in 2 .. Len(Args),
           \A k \in 1 .. n - 1 : Verdict(k) = "OK", Operand(n) # 0
    PROVE  Means(n) = CDiv(Means(n - 1), Operand(n))
<1> DEFINE xs == OperandValues
           product(k) == ProductFrom(xs, 2, k)
<1>0. Op \notin Literals /\ Op \in Dividing
  BY DEF Literals, Dividing
<1>1. /\ xs \in IntegerSeqs /\ Len(xs) = Len(Args) /\ Len(Args) \in Nat
      /\ \A k \in 1 .. Len(Args) : xs[k] = Operand(k) /\ Operand(k) \in Int
  BY <1>0, ValuesAre
<1>2. \A k : Means(k) = Meaning(Op, xs, k)
  BY DEF Means
<1>3. \A k \in 0 .. Len(xs) : product(k) \in Int
                              /\ product(k) = IF k < 2 THEN 1 ELSE product(k - 1) * xs[k]
  BY <1>1, ProductUnfolds
<1> HIDE DEF product, xs
<1>4. Len(xs) > 1 /\ Means(1) = xs[1] /\ xs[1] = Operand(1) /\ xs[1] \in Int
  <2>1. Len(xs) > 1 /\ 1 \in 1 .. Len(Args)
    BY <1>1
  <2> QED BY <1>1, <1>2, <2>1 DEF Meaning
<1>5. \A k \in 2 .. Len(xs) : Means(k) = Quotient(xs[1], product(k))
  BY <1>2 DEF Meaning, product
<1>6. Fits(xs[1])
  <2>1. Verdict(1) = "OK"
    OBVIOUS
  <2>2. Fits(Means(1))
    BY <2>1 DEF Verdict, Means
  <2> QED BY <1>4, <2>2
<1>7. \A k \in 1 .. n - 1 : product(k) # 0
  <2> DEFINE set == {k \in Nat : product(k + 1) # 0}
  <2>1. 0 \in set
    <3>1. 1 \in 0 .. Len(xs)
      BY <1>1, <1>4
    <3>2. product(1) = 1
      BY <1>3, <3>1
    <3> QED BY <3>2
  <2>2. ASSUME NEW k \in 1 .. n - 2, k - 1 \in set PROVE k \in set
    <3>1. k + 1 \in 0 .. Len(xs) /\ k + 1 \in 1 .. n - 1 /\ k + 1 \in 1 .. Len(Args) /\ k \in 0 .. Len(xs) /\ k + 1 > 1
      BY <1>1
    <3>2. Verdict(k + 1) = "OK"
      BY <3>1
    <3>3. Operand(k + 1) # 0
      <4> DEFINE m == k + 1
      <4>1. m > 1 /\ Verdict(m) = "OK"
        BY <3>1, <3>2
      <4> HIDE DEF m
      <4>2. Operand(m) # 0
        BY <1>0, <4>1 DEF Verdict
      <4> QED BY <4>2 DEF m
    <3>4. product(k + 1) = product(k) * xs[k + 1] /\ product(k) \in Int /\ xs[k + 1] \in Int /\ xs[k + 1] # 0
      <4>1. k + 1 - 1 = k /\ ~(k + 1 < 2)
        BY <3>1
      <4> QED BY <1>1, <1>3, <3>1, <3>3, <4>1
    <3>5. product(k) # 0
      <4>1. k - 1 + 1 = k
        OBVIOUS
      <4> QED BY <2>2, <4>1
    <3>6. product(k + 1) # 0
      BY <3>4, <3>5, SignOfProduct
    <3> QED BY <3>6
  <2> HIDE DEF set
  <2>3. \A k \in 0 .. n - 2 : k \in set
    <3>1. n - 2 \in Nat /\ \A k \in 1 .. n - 2 : k - 1 \in set => k \in set
      BY <1>1, <2>2
    <3> QED BY <2>1, <3>1, UpTo
  <2>4. ASSUME NEW k \in 1 .. n - 1 PROVE product(k) # 0
    <3>1. k - 1 \in 0 .. n - 2 /\ k - 1 + 1 = k
      BY <1>1
    <3>2. k - 1 \in set
      BY <2>3, <3>1
    <3> QED BY <3>1, <3>2 DEF set
  <2> QED BY <2>4
<1>8. product(n) = product(n - 1) * Operand(n) /\ product(n - 1) \in Int /\ product(n - 1) # 0 /\ Operand(n) \in Int
  <2>1. n \in 0 .. Len(xs) /\ n - 1 \in 0 .. Len(xs) /\ n \in 1 .. Len(Args) /\ ~(n < 2) /\ n - 1 \in 1 .. n - 1
    BY <1>1
  <2> QED BY <1>1, <1>3, <1>7, <2>1
<1>9. product(n) \in Int /\ product(n) # 0
  BY <1>8, SignOfProduct
<1>10. Means(n) = CDiv(xs[1], product(n))
  <2>1. n \in 2 .. Len(xs)
    BY <1>1
  <2> QED BY <1>4, <1>5, <1>6, <1>9, <2>1, QuotientIs
<1>11. CDiv(xs[1], product(n)) = CDiv(CDiv(xs[1], product(n - 1)), Operand(n))
  <2>1. \A b, c \in Int : b # 0 /\ c # 0 => CDiv(CDiv(xs[1], b), c) = CDiv(xs[1], b * c)
    BY <1>4, DividedTwice
  <2>2. CDiv(CDiv(xs[1], product(n - 1)), Operand(n)) = CDiv(xs[1], product(n - 1) * Operand(n))
    BY <1>8, <2>1
  <2> QED BY <1>8, <2>2
<1>12. CDiv(xs[1], product(n - 1)) = Means(n - 1)
  <2>1. CASE n = 2
    <3>1. n - 1 = 1 /\ 1 \in 0 .. Len(xs)
      BY <1>4, <2>1
    <3>2. product(1) = 1
      BY <1>3, <3>1
    <3>3. CDiv(xs[1], 1) = xs[1]
      <4>1. CDiv(xs[1], 1) \in Int /\ Leaves(xs[1], 1, CDiv(xs[1], 1), xs[1])
        BY <1>4, CDivLeaves
      <4>2. Magnitude(1) = 1
        BY SMT DEF Magnitude
      <4>3. xs[1] - CDiv(xs[1], 1) * 1 = xs[1] - CDiv(xs[1], 1)
        BY <1>4, <4>1, SMT
      <4> QED BY <1>4, <4>1, <4>2, <4>3, SMT DEF Leaves, Magnitude
    <3> QED BY <1>4, <3>1, <3>2, <3>3
  <2>2. CASE n # 2
    <3>1. n - 1 \in 2 .. Len(xs)
      BY <1>1, <2>2
    <3> QED BY <1>4, <1>5, <1>6, <1>8, <3>1, QuotientIs
  <2> QED BY <2>1, <2>2
<1> QED
  BY <1>10, <1>11, <1>12

\* The operands behind the loop have nothing wrong with them, and acc is their
\* value.
MeansSoFar ==
    /\ next <= Len(Args) + 1
    /\ \A n \in 1 .. next - 1 : Verdict(n) = "OK"
    /\ acc = IF next = 1 THEN Unit ELSE Means(next - 1)

ArithmeticInv ==
    Op \in Arithmetic =>
        /\ status = "running" => MeansSoFar
        /\ status # "running" => ExactArithmetic

LEMMA ArithmeticSteps ==
    ASSUME NumberNext, Op \in Arithmetic
    PROVE  /\ status = "running"
           /\ \/ NotANumber \/ FirstOperand \/ Negate \/ Reciprocal \/ Accumulate \/ Divide
              \/ Remainder \/ Modulo \/ EndOfOperands
BY DEF NumberNext, NotANumber, FirstOperand, Negate, Reciprocal, Accumulate, Divide, Remainder,
       Modulo, Compare, Digit, EndOfLiteral, EndOfOperands, AtNumber, Arithmetic, Dividing,
       Comparisons, Literals

\* Where the loop stops at an operand, the status says what is wrong with it.
LEMMA StopsAt ==
    ASSUME MeansSoFar, NEW st, End(st, 0), st = Verdict(next), st # "OK"
    PROVE  ExactArithmetic'
<1>1. status' = st /\ next' = next /\ call' = call
  BY DEF End
<1>2. \A n : Verdict(n)' = Verdict(n')
  BY <1>1 DEF Verdict, Op, Args, Operand, OperandValues, Last1
<1> QED BY <1>1, <1>2 DEF ExactArithmetic, MeansSoFar

\* Otherwise it goes on, with the value of one operand more.
LEMMA GoesOn ==
    ASSUME MeansSoFar, next \in 1 .. Len(Args), NEW x, Carry(x), Verdict(next) = "OK", x = Means(next)
    PROVE  MeansSoFar' /\ status' = status
<1>1. status' = status /\ next' = next + 1 /\ call' = call /\ acc' = x
  BY DEF Carry
<1>2. (\A n : Verdict(n)' = Verdict(n')) /\ (\A n : Means(n)' = Means(n')) /\ Len(Args)' = Len(Args)
  BY <1>1 DEF Verdict, Means, Op, Args, Operand, OperandValues, Last1
<1>3. next' <= Len(Args)' + 1 /\ next' # 1 /\ next' - 1 = next
  BY <1>1, <1>2
<1>4. \A n \in 1 .. next : Verdict(n) = "OK"
  <2> SUFFICES ASSUME NEW n \in 1 .. next PROVE Verdict(n) = "OK"
    OBVIOUS
  <2>1. n = next \/ n \in 1 .. next - 1
    OBVIOUS
  <2> QED BY <2>1 DEF MeansSoFar
<1>5. acc' = IF next' = 1 THEN Unit' ELSE Means(next' - 1)
  BY <1>1, <1>3
<1>6. Means(next' - 1) = Means(next - 1)'
  BY <1>2, <1>1
<1> QED BY <1>1, <1>2, <1>3, <1>4, <1>5, <1>6 DEF MeansSoFar

\* A call returns the value of all its operands.
LEMMA ReturnsValue ==
    ASSUME call \in Calls, Op \notin Literals, NEW x \in Int, Fits(x), End("OK", Pack(x)),
           \A n \in 1 .. Len(Args) : Verdict(n) = "OK",
           x = IF Args = <<>> THEN Unit ELSE Means(Len(Args))
    PROVE  ExactArithmetic'
<1>1. status' = "OK" /\ call' = call /\ value' = Pack(x)
  BY DEF End
<1>2. (\A n : Verdict(n)' = Verdict(n')) /\ Means(Len(Args))' = Means(Len(Args))
      /\ Args' = Args /\ Unit' = Unit
  BY <1>1 DEF Verdict, Means, Op, Args, Operand, OperandValues, Last1, Unit
<1>3. IsFix(value') /\ Unpack(value') = x
  BY <1>1, FitsSmall, PackLosesNothing
<1>4. DOMAIN Args = 1 .. Len(Args)
  BY ValuesAre
<1>5. \A n \in DOMAIN Args' : Verdict(n)' = "OK"
  BY <1>2, <1>4
<1>6. IsFix(value)' /\ Unpack(value)' = x
  BY <1>3 DEF IsFix
<1>7. x = IF Args' = <<>> THEN Unit' ELSE Means(Len(Args))'
  BY <1>2
<1> QED BY <1>1, <1>5, <1>6, <1>7 DEF ExactArithmetic, Unit, Means

\* An operand that is a number is a fixnum.
LEMMA FixnumAt ==
    ASSUME FixnumOperands, Types, NEW ops, AtNumber(ops), Op \notin Literals
    PROVE  /\ next \in 1 .. Len(Args) /\ IsFix(Args[next])
           /\ Arg = Operand(next) /\ Arg \in Int /\ Fits(Arg)
<1>1. next \in 1 .. Len(Args) /\ IsFix(Args[next]) /\ DOMAIN Args = 1 .. Len(Args)
  BY ValuesAre, SMT DEF AtNumber, Types
<1>2. Fits(Arg)
  BY <1>1 DEF FixnumOperands, Types, Op, Args, Arg
<1> QED BY <1>1, <1>2, OperandSmall DEF Arg, Operand

\* 1/v truncated.
LEMMA ReciprocalIs ==
    ASSUME NEW v \in Int, v # 0
    PROVE  Quotient(1, v) = IF v \in {1, -1} THEN v ELSE 0
<1> DEFINE q == IF v \in {1, -1} THEN v ELSE 0
<1>1. Fits(1)
  BY FixnumAssumption, SMT DEF Fits, FixMin
<1>2. Quotient(1, v) = CDiv(1, v)
  BY <1>1, QuotientIs
<1>3. CDiv(1, v) \in Int /\ Leaves(1, v, CDiv(1, v), 1)
  BY CDivLeaves
<1>4. q \in Int
  OBVIOUS
<1>5. Leaves(1, v, q, 1)
  <2>1. CASE v = 1
    <3>1. q = 1 /\ 1 - q * v = 0
      BY <2>1
    <3> QED BY <2>1, <3>1, SMT DEF Leaves, Magnitude
  <2>2. CASE v = -1
    <3>1. q = -1 /\ 1 - q * v = 0
      BY <2>2
    <3> QED BY <2>2, <3>1, SMT DEF Leaves, Magnitude
  <2>3. CASE v \notin {1, -1}
    <3>1. q = 0 /\ 1 - q * v = 1
      BY <2>3
    <3> QED BY <2>3, <3>1, SMT DEF Leaves, Magnitude
  <2> QED BY <2>1, <2>2, <2>3
<1> HIDE DEF q
<1>6. CDiv(1, v) = q
  BY <1>3, <1>4, <1>5, OneQuotient
<1> QED BY <1>2, <1>6 DEF q

\* A remainder by a fixnum is one.
LEMMA RemainderFits ==
    ASSUME NEW b \in Int, NEW r \in Int, Fits(b), Magnitude(r) < Magnitude(b)
    PROVE  Fits(r)
BY Widths, SMT DEF Magnitude, Fits, FixMin

LEMMA ArithmeticNext ==
    ASSUME FixnumOperands, Inv, ArithmeticInv, [NumberNext]_numbers
    PROVE  ArithmeticInv'
<1> SUFFICES ASSUME Op' \in Arithmetic PROVE
               /\ status' = "running" => MeansSoFar'
               /\ status' # "running" => ExactArithmetic'
  BY DEF ArithmeticInv
<1>1. CASE UNCHANGED numbers
  <2>1. Op \in Arithmetic /\ call' = call /\ next' = next /\ status' = status /\ acc' = acc /\ value' = value
    BY <1>1 DEF numbers, Op
  <2>2. /\ \A n : Verdict(n)' = Verdict(n') /\ Means(n)' = Means(n')
        /\ Args' = Args /\ Op' = Op /\ OperandValues' = OperandValues /\ Unit' = Unit
    BY <2>1 DEF Verdict, Means, Op, Args, Operand, OperandValues, Last1, Unit
  <2>3. MeansSoFar => MeansSoFar'
    BY <2>1, <2>2 DEF MeansSoFar
  <2>4. ExactArithmetic => ExactArithmetic'
    BY <2>1, <2>2 DEF ExactArithmetic, IsFix
  <2> QED BY <2>1, <2>3, <2>4 DEF ArithmeticInv
<1>2. CASE NumberNext
  <2>0. call' = call
    BY <1>2 DEF NumberNext, NotANumber, FirstOperand, Negate, Reciprocal, Accumulate, Divide, Remainder,
       Modulo, Compare, Digit, EndOfLiteral, EndOfOperands, Carry, End, Fail
  <2>1. Op \in Arithmetic
    BY <2>0 DEF Op
  <2>2. /\ status = "running" /\ MeansSoFar /\ Op \notin Literals /\ Op \notin Comparisons
        /\ Types /\ AccSmall /\ call \in Calls
    BY <1>2, <2>1, ArithmeticSteps
       DEF ArithmeticInv, Inv, Types, Arithmetic, Dividing, Literals, Comparisons
  <2>3. /\ Len(Args) \in Nat /\ next \in Nat \ {0}
        /\ \A n \in 1 .. Len(Args) : Operand(n) \in Int /\ OperandValues[n] = Operand(n)
        /\ Len(OperandValues) = Len(Args)
    BY <2>2, ValuesAre DEF Types
  <2>4. Op \in {"-", "/"} => Len(Args) >= 1
    BY <2>2, CallTypes
  <2>5. Op \in Dividing \ {"/"} => Len(Args) = 2
    BY <2>2, CallTypes
  \* A step that stops or goes on at the operand.
  <2>6. ASSUME NEW st, End(st, 0), st = Verdict(next), st \in {"TYPE", "DIV_ZERO", "OVERFLOW"}
        PROVE  status' # "running" /\ ExactArithmetic'
    BY <2>2, <2>6, StopsAt DEF End
  <2>7. ASSUME next \in 1 .. Len(Args), NEW x, Carry(x), Verdict(next) = "OK", x = Means(next)
        PROVE  status' = "running" /\ MeansSoFar'
    BY <2>2, <2>7, GoesOn
  <2>8. ASSUME NEW x \in Int, Fits(x), End("OK", Pack(x)), \A n \in 1 .. Len(Args) : Verdict(n) = "OK",
               x = IF Args = <<>> THEN Unit ELSE Means(Len(Args))
        PROVE  status' # "running" /\ ExactArithmetic'
    BY <2>2, <2>8, ReturnsValue DEF End
  <2>9. Len(Args) > 1 => Means(1) = Operand(1)
    <3>1. Len(Args) > 1 => 1 \in 1 .. Len(Args)
      BY <2>3
    <3> QED BY <2>3, <3>1 DEF Means, Meaning
  <2>10. Last1 => Len(Args) = 1
    BY DEF Last1
  <2>11. CASE NotANumber
    <3>1. Verdict(next) = "TYPE"
      BY <2>11 DEF NotANumber, Verdict
    <3> QED BY <2>6, <2>11, <3>1 DEF NotANumber, Fail
  <2>12. CASE FirstOperand
    <3>1. AtNumber(Ops \ ({"+", "*"} \cup Literals)) /\ next = 1 /\ Carry(Arg) /\ (Op \in {"-", "/"} => ~Last1)
      BY <2>12 DEF FirstOperand
    <3>2. next \in 1 .. Len(Args) /\ IsFix(Args[next]) /\ Arg = Operand(next) /\ Arg \in Int /\ Fits(Arg)
      BY <2>2, <3>1, FixnumAt
    <3>3. Len(Args) > 1
      <4>1. Op \in {"-"} \cup Dividing
        BY <2>1, <3>1 DEF AtNumber, Arithmetic
      <4> QED BY <2>3, <2>4, <2>5, <3>1, <4>1 DEF Last1
    <3>4. Verdict(next) = "OK"
      BY <2>3, <2>9, <2>10, <3>1, <3>2, <3>3 DEF Verdict, Means
    <3> QED BY <2>7, <2>9, <3>1, <3>2, <3>3, <3>4
  <2>13. CASE Negate
    <3>1. AtNumber({"-"}) /\ Last1 /\ Op = "-"
      BY <2>13 DEF Negate, AtNumber
    <3>2. next \in 1 .. Len(Args) /\ IsFix(Args[next]) /\ Arg = Operand(next) /\ Arg \in Int
      BY <2>2, <3>1, FixnumAt
    <3>3. Len(Args) = 1 /\ next = 1 /\ Args # <<>>
      <4>1. Len(Args) = 1
        BY <2>10, <3>1
      <4>2. Args # <<>>
        BY <4>1
      <4> QED BY <3>2, <4>1, <4>2
    <3>4. Means(1) = -Arg
      BY <2>3, <3>1, <3>2, <3>3 DEF Means, Meaning
    <3>5. Verdict(1) = IF Fits(-Arg) THEN "OK" ELSE "OVERFLOW"
      BY <3>1, <3>2, <3>3, <3>4 DEF Verdict, Means, Dividing
    <3>6. CASE Fits(-Arg)
      <4>1. End("OK", Pack(-Arg)) /\ -Arg \in Int
        BY <2>13, <3>2, <3>6 DEF Negate
      <4>2. \A n \in 1 .. Len(Args) : Verdict(n) = "OK"
        BY <3>3, <3>5, <3>6
      <4> HIDE DEF Arg
      <4> QED BY <2>8, <3>3, <3>4, <3>6, <4>1, <4>2
    <3>7. CASE ~Fits(-Arg)
      BY <2>6, <2>13, <3>3, <3>5, <3>7 DEF Negate, Fail
    <3> QED BY <3>6, <3>7
  <2>14. CASE Reciprocal
    <3>1. AtNumber({"/"}) /\ Last1 /\ Op = "/"
      BY <2>14 DEF Reciprocal, AtNumber
    <3>2. next \in 1 .. Len(Args) /\ IsFix(Args[next]) /\ Arg = Operand(next) /\ Arg \in Int /\ Fits(Arg)
      BY <2>2, <3>1, FixnumAt
    <3>3. Len(Args) = 1 /\ next = 1 /\ Args # <<>>
      <4>1. Len(Args) = 1
        BY <2>10, <3>1
      <4>2. Args # <<>>
        BY <4>1
      <4> QED BY <3>2, <4>1, <4>2
    <3>4. CASE Arg = 0
      <4>1. Verdict(1) = "DIV_ZERO"
        BY <3>1, <3>2, <3>3, <3>4 DEF Verdict, Dividing
      <4> QED BY <2>6, <2>14, <3>3, <3>4, <4>1 DEF Reciprocal, Fail
    <3>5. CASE Arg # 0
      <4> DEFINE x == IF Arg \in {1, -1} THEN Arg ELSE 0
      <4>1. Means(1) = x
        <5>1. Means(1) = Quotient(1, Arg)
          BY <2>3, <3>1, <3>2, <3>3 DEF Means, Meaning
        <5> QED BY <3>2, <3>5, <5>1, ReciprocalIs
      <4>2. x \in Int /\ Fits(x)
        BY <3>2, Widths, SMT DEF Fits, FixMin
      <4>3. End("OK", Pack(x))
        BY <2>14, <3>5 DEF Reciprocal
      <4> HIDE DEF x
      <4>4. Verdict(1) = "OK"
        BY <3>1, <3>2, <3>3, <3>5, <4>1, <4>2 DEF Verdict, Means
      <4>5. \A n \in 1 .. Len(Args) : Verdict(n) = "OK"
        BY <3>3, <4>4
      <4> QED BY <2>8, <3>3, <4>1, <4>2, <4>3, <4>5
    <3> QED BY <3>4, <3>5
  <2>15. CASE Accumulate
    <3>1. AtNumber({"+", "-", "*"}) /\ (Op = "-" => next > 1) /\ Op \in {"+", "-", "*"}
      BY <2>15 DEF Accumulate, AtNumber
    <3>2. next \in 1 .. Len(Args) /\ IsFix(Args[next]) /\ Arg = Operand(next) /\ Arg \in Int
      BY <2>2, <3>1, FixnumAt
    <3>3. Means(next) = Exact(acc, Arg)
      <4>1. Means(next) = Exact(IF next = 1 THEN Unit ELSE Means(next - 1), Operand(next))
        BY <2>2, <3>1, <3>2, AccumulatedMeans
      <4> QED BY <2>2, <3>2, <4>1 DEF MeansSoFar
    <3>4. Verdict(next) = IF Fits(Exact(acc, Arg)) THEN "OK" ELSE "OVERFLOW"
      BY <3>1, <3>2, <3>3 DEF Verdict, Means, Dividing
    <3>5. Exact(acc, Arg) \in Int
      <4>1. acc + Arg \in Int /\ acc - Arg \in Int /\ acc * Arg \in Int
        BY <2>2, <3>2, SMT DEF Types
      <4> QED BY <3>1, <4>1 DEF Exact
    <3>6. CASE Fits(Exact(acc, Arg))
      <4>1. InInt(Exact(acc, Arg))
        BY <3>5, <3>6, FitsSmall, PayloadInInt, Widths, SMT
      <4>2. Carry(Exact(acc, Arg))
        BY <2>15, <3>6, <4>1 DEF Accumulate
      <4> QED BY <2>7, <3>2, <3>3, <3>4, <3>6, <4>2
    <3>7. CASE ~Fits(Exact(acc, Arg))
      BY <2>6, <2>15, <3>4, <3>7 DEF Accumulate, Fail
    <3> QED BY <3>6, <3>7
  <2>16. CASE Divide
    <3>1. AtNumber({"/", "quotient"}) /\ next > 1 /\ Op \in {"/", "quotient"} /\ Op \in Dividing
      BY <2>16 DEF Divide, AtNumber, Dividing
    <3>2. next \in 1 .. Len(Args) /\ IsFix(Args[next]) /\ Arg = Operand(next) /\ Arg \in Int
      BY <2>2, <3>1, FixnumAt
    <3>3. CASE Arg = 0
      <4>1. Verdict(next) = "DIV_ZERO"
        BY <3>1, <3>2, <3>3 DEF Verdict
      <4> QED BY <2>6, <2>16, <3>3, <4>1 DEF Divide, Fail
    <3>4. CASE Arg # 0
      <4>1. Means(next) = CDiv(acc, Arg)
        <5>1. next \in 2 .. Len(Args) /\ next # 1
          BY <2>3, <3>1, <3>2
        <5>2. Means(next) = CDiv(Means(next - 1), Operand(next))
          BY <2>2, <3>1, <3>2, <3>4, <5>1, DividedMeans DEF MeansSoFar
        <5> QED BY <2>2, <3>2, <5>1, <5>2 DEF MeansSoFar
      <4>2. Verdict(next) = IF Fits(CDiv(acc, Arg)) THEN "OK" ELSE "OVERFLOW"
        BY <3>2, <3>4, <4>1 DEF Verdict, Means
      <4>3. CASE Fits(CDiv(acc, Arg))
        <5>1. Carry(CDiv(acc, Arg))
          BY <2>16, <3>4, <4>3 DEF Divide
        <5> QED BY <2>7, <3>2, <4>1, <4>2, <4>3, <5>1
      <4>4. CASE ~Fits(CDiv(acc, Arg))
        BY <2>6, <2>16, <3>4, <4>2, <4>4 DEF Divide, Fail
      <4> QED BY <4>3, <4>4
    <3> QED BY <3>3, <3>4
  \* The two that take a remainder, at their second operand.
  <2>17. ASSUME AtNumber({"remainder", "modulo"}), next > 1
         PROVE  /\ next \in 1 .. Len(Args) /\ next = 2 /\ IsFix(Args[2]) /\ Arg = Operand(2) /\ Arg \in Int /\ Fits(Arg)
                /\ acc = Operand(1) /\ acc \in Int /\ Fits(acc)
                /\ OperandValues[1] = acc /\ OperandValues[2] = Arg /\ Len(OperandValues) = 2
    <3>1. next \in 1 .. Len(Args) /\ IsFix(Args[next]) /\ Arg = Operand(next) /\ Arg \in Int /\ Fits(Arg)
      BY <2>2, <2>17, FixnumAt
    <3>2. Len(Args) = 2 /\ next = 2
      <4>1. Op \in Dividing \ {"/"}
        BY <2>17 DEF AtNumber, Dividing
      <4> QED BY <2>3, <2>5, <2>17, <3>1, <4>1
    <3>3. acc = Means(1) /\ Verdict(1) = "OK"
      BY <2>2, <3>2 DEF MeansSoFar
    <3>4. acc = Operand(1) /\ acc \in Int
      <4>1. 1 \in 1 .. Len(Args)
        BY <3>2
      <4> QED BY <2>3, <2>9, <3>2, <3>3, <4>1
    <3>5. Fits(acc)
      BY <3>3 DEF Verdict, Means
    <3> QED BY <2>3, <3>1, <3>2, <3>4, <3>5
  <2>18. CASE Remainder
    <3>1. AtNumber({"remainder"}) /\ next > 1 /\ Op = "remainder" /\ AtNumber({"remainder", "modulo"})
      BY <2>18 DEF Remainder, AtNumber
    <3>2. CASE Arg = 0
      <4>1. Verdict(next) = "DIV_ZERO"
        BY <2>17, <3>1, <3>2 DEF Verdict, Dividing
      <4> QED BY <2>6, <2>18, <3>2, <4>1 DEF Remainder, Fail
    <3>3. CASE Arg # 0
      <4>1. ~(acc = IntMin /\ Arg = -1)
        BY <2>17, <3>1, Widths, SMT DEF Fits, FixMin, IntMin
      <4>2. Carry(CRem(acc, Arg))
        BY <2>18, <3>3, <4>1 DEF Remainder
      <4>3. Means(2) = CRem(acc, Arg)
        <5>1. Means(2) = acc - Arg * Quotient(acc, Arg)
          BY <2>17, <3>1 DEF Means, Meaning
        <5>2. Quotient(acc, Arg) = CDiv(acc, Arg)
          BY <2>17, <3>1, <3>3, QuotientIs
        <5> QED BY <5>1, <5>2 DEF CRem
      <4>4. Fits(CRem(acc, Arg))
        <5>1. CRem(acc, Arg) \in Int /\ Magnitude(CRem(acc, Arg)) < Magnitude(Arg)
          BY <2>17, <3>1, <3>3, CDivision DEF Divides
        <5> QED BY <2>17, <3>1, <5>1, RemainderFits
      <4>5. Verdict(2) = "OK"
        BY <2>17, <3>1, <3>3, <4>3, <4>4 DEF Verdict, Means
      <4> QED BY <2>7, <2>17, <3>1, <4>2, <4>3, <4>5
    <3> QED BY <3>2, <3>3
  <2>19. CASE Modulo
    <3> DEFINE r == CRem(acc, Arg)
               m == IF r # 0 /\ (r < 0) # (Arg < 0) THEN r + Arg ELSE r
    <3>1. AtNumber({"modulo"}) /\ next > 1 /\ Op = "modulo" /\ AtNumber({"remainder", "modulo"})
      BY <2>19 DEF Modulo, AtNumber
    <3>2. CASE Arg = 0
      <4>1. Verdict(next) = "DIV_ZERO"
        BY <2>17, <3>1, <3>2 DEF Verdict, Dividing
      <4> QED BY <2>6, <2>19, <3>2, <4>1 DEF Modulo, Fail
    <3>3. CASE Arg # 0
      <4>1. Carry(m)
        BY <2>19, <3>3 DEF Modulo
      <4>2. m = acc - Arg * FloorQuotient(acc, Arg) /\ m \in Int /\ Magnitude(m) < Magnitude(Arg)
        BY <2>17, <3>1, <3>3, FloorQuotientIs
      <4> HIDE DEF m
      <4>3. Means(2) = m
        BY <2>17, <3>1, <4>2 DEF Means, Meaning
      <4>4. Fits(m)
        BY <2>17, <3>1, <4>2, RemainderFits
      <4>5. Verdict(2) = "OK"
        BY <2>17, <3>1, <3>3, <4>3, <4>4 DEF Verdict, Means
      <4> QED BY <2>7, <2>17, <3>1, <4>1, <4>3, <4>5
    <3> QED BY <3>2, <3>3
  <2>20. CASE EndOfOperands
    <3>1. End("OK", Pack(acc)) /\ next > Len(Args)
      BY <2>2, <2>20 DEF EndOfOperands
    <3>2. next = Len(Args) + 1 /\ acc \in Int
      BY <2>2, <2>3, <3>1 DEF MeansSoFar, Types
    <3>3. \A n \in 1 .. Len(Args) : Verdict(n) = "OK"
      BY <2>2, <2>3, <3>2 DEF MeansSoFar
    <3>4. acc = IF Args = <<>> THEN Unit ELSE Means(Len(Args))
      <4>1. Args = <<>> <=> Len(Args) = 0
        BY <2>2, CallTypes
      <4>2. next = 1 <=> Len(Args) = 0
        BY <2>3, <3>2
      <4>3. next - 1 = Len(Args)
        BY <2>3, <3>2
      <4> QED BY <2>2, <4>1, <4>2, <4>3 DEF MeansSoFar
    <3>5. Fits(acc)
      <4>1. CASE Args = <<>>
        BY <3>4, <4>1, FixnumAssumption, SMT DEF Unit, Fits, FixMin
      <4>2. CASE Args # <<>>
        <5>1. Len(Args) \in 1 .. Len(Args)
          BY <2>2, <2>3, <4>2, CallTypes
        <5>2. Verdict(Len(Args)) = "OK"
          BY <3>3, <5>1
        <5> QED BY <3>4, <4>2, <5>2 DEF Verdict, Means
      <4> QED BY <4>1, <4>2
    <3> QED BY <2>8, <3>1, <3>2, <3>3, <3>4, <3>5
  <2> QED BY <1>2, <2>1, <2>11, <2>12, <2>13, <2>14, <2>15, <2>16, <2>18, <2>19, <2>20, ArithmeticSteps
<1> QED BY <1>1, <1>2

-----------------------------------------------------------------------------
(***************************************************************************)
(* Literals.                                                               *)
(***************************************************************************)

\* acc is what the digits behind the loop denote.
ReadSoFar ==
    /\ next <= Len(Args) + 1
    /\ acc = Decimal(Args, next - 1)

LiteralInv ==
    Op \in Literals =>
        /\ status = "running" => ReadSoFar
        /\ status # "running" => ExactLiteral

LEMMA LiteralSteps ==
    ASSUME NumberNext, Op \in Literals
    PROVE  status = "running" /\ (Digit \/ EndOfLiteral)
BY DEF NumberNext, NotANumber, FirstOperand, Negate, Reciprocal, Accumulate, Divide, Remainder,
       Modulo, Compare, Digit, EndOfLiteral, EndOfOperands, AtNumber, Dividing, Comparisons, Literals, Ops

\* More digits denote no less.
LEMMA DecimalGrows ==
    ASSUME NEW xs \in Seq(Nat), NEW n \in 1 .. Len(xs)
    PROVE  Decimal(xs, n) \in Nat /\ Decimal(xs, Len(xs)) \in Nat /\ Decimal(xs, n) <= Decimal(xs, Len(xs))
<1> DEFINE set == {j \in Nat : Decimal(xs, n) <= Decimal(xs, n + j)}
<1>1. Len(xs) \in Nat /\ \A k \in 1 .. Len(xs) : xs[k] \in Nat
  OBVIOUS
<1>2. \A k \in 0 .. Len(xs) :
         Decimal(xs, k) \in Nat
         /\ Decimal(xs, k) = IF k < 1 THEN 0 ELSE 10 * Decimal(xs, k - 1) + xs[k]
  BY DecimalUnfolds
<1>3. 0 \in set
  <2>1. n \in 0 .. Len(xs) /\ n + 0 = n
    BY <1>1
  <2> QED BY <1>2, <2>1
<1>4. ASSUME NEW j \in 1 .. Len(xs) - n, j - 1 \in set PROVE j \in set
  <2>1. n + j \in 1 .. Len(xs) /\ n + j - 1 \in 0 .. Len(xs) /\ n + j \in 0 .. Len(xs) /\ n \in 0 .. Len(xs)
        /\ n + (j - 1) = n + j - 1
    BY <1>1
  <2>2. Decimal(xs, n) <= Decimal(xs, n + j - 1)
    BY <1>4, <2>1
  <2>3. Decimal(xs, n + j) = 10 * Decimal(xs, n + j - 1) + xs[n + j]
    BY <1>2, <2>1
  <2>4. Decimal(xs, n) \in Nat /\ Decimal(xs, n + j - 1) \in Nat /\ xs[n + j] \in Nat
    BY <1>1, <1>2, <2>1
  <2>5. Decimal(xs, n) <= Decimal(xs, n + j)
    BY <2>2, <2>3, <2>4
  <2> QED BY <2>5
<1> HIDE DEF set
<1>5. \A j \in 0 .. Len(xs) - n : j \in set
  <2>1. Len(xs) - n \in Nat /\ \A j \in 1 .. Len(xs) - n : j - 1 \in set => j \in set
    BY <1>1, <1>4
  <2> QED BY <1>3, <2>1, UpTo
<1>6. Len(xs) - n \in set
  BY <1>1, <1>5
<1>7. n + (Len(xs) - n) = Len(xs) /\ n \in 0 .. Len(xs) /\ Len(xs) \in 0 .. Len(xs)
  BY <1>1
<1> QED
  BY <1>2, <1>6, <1>7 DEF set

LEMMA LiteralNext == Inv /\ LiteralInv /\ [NumberNext]_numbers => LiteralInv'
<1> SUFFICES ASSUME Inv, LiteralInv, [NumberNext]_numbers, Op' \in Literals PROVE
               /\ status' = "running" => ReadSoFar'
               /\ status' # "running" => ExactLiteral'
  BY DEF LiteralInv
<1>1. CASE UNCHANGED numbers
  <2>1. /\ Op' = Op /\ Args' = Args /\ next' = next /\ status' = status /\ acc' = acc /\ value' = value
    BY <1>1 DEF numbers, Op, Args
  <2>2. ReadSoFar => ReadSoFar'
    BY <2>1 DEF ReadSoFar
  <2>3. ExactLiteral => ExactLiteral'
    BY <2>1 DEF ExactLiteral, IsFix
  <2> QED BY <2>1, <2>2, <2>3 DEF LiteralInv
<1>2. CASE NumberNext
  <2>0. call' = call
    BY <1>2 DEF NumberNext, NotANumber, FirstOperand, Negate, Reciprocal, Accumulate, Divide, Remainder,
       Modulo, Compare, Digit, EndOfLiteral, EndOfOperands, Carry, End, Fail
  <2>1. Op \in Literals /\ Op' = Op /\ Args' = Args
    BY <2>0 DEF Op, Args
  <2>2. status = "running" /\ ReadSoFar /\ Types /\ acc \in Nat /\ acc <= IntMax
    BY <1>2, <2>1, LiteralSteps DEF LiteralInv, Inv, Types, AccSmall
  <2>3. Args \in Seq(0 .. 9) /\ Args \in Seq(Nat) /\ Len(Args) \in Nat /\ Len(Args) >= 1 /\ next \in Nat \ {0}
    <3>1. Args \in Seq(0 .. 9) /\ Len(Args) >= 1
      BY <2>1, <2>2, CallTypes DEF Types
    <3> QED BY <2>2, <3>1 DEF Types
  <2> DEFINE all == Decimal(Args, Len(Args))
             x == IF Op = "-literal" THEN -all ELSE all
  <2>4. all \in Nat
    <3>1. Len(Args) \in 1 .. Len(Args)
      BY <2>3
    <3> QED BY <2>3, <3>1, DecimalGrows
  <2>5. ExactLiteral' <=> IF Fits(x) THEN status' = "OK" /\ IsFix(value') /\ Unpack(value') = x
                          ELSE status' = "OVERFLOW"
    BY <2>1 DEF ExactLiteral, IsFix
  <2>6. CASE Digit
    <3> DEFINE y == 10 * acc + Args[next]
    <3>1. next \in 1 .. Len(Args) /\ Args[next] \in 0 .. 9 /\ y \in Nat
      BY <2>2, <2>3, <2>6, SMT DEF Digit
    <3>2. Decimal(Args, next) = y
      <4>1. Decimal(Args, next) = 10 * Decimal(Args, next - 1) + Args[next]
        <5>1. \A k \in 0 .. Len(Args) : Decimal(Args, k) = IF k < 1 THEN 0 ELSE 10 * Decimal(Args, k - 1) + Args[k]
          BY <2>3, DecimalUnfolds
        <5>2. next \in 0 .. Len(Args) /\ ~(next < 1)
          BY <3>1
        <5> QED BY <5>1, <5>2
      <4> QED BY <2>2, <4>1 DEF ReadSoFar
    <3>3. CASE y <= IntMax
      <4>1. InInt(10 * acc) /\ InInt(y)
        BY <2>2, <3>1, <3>3, Widths, SMT DEF InInt, IntMin
      <4>2. acc' = y /\ next' = next + 1 /\ status' = status
        BY <2>6, <4>1 DEF Digit, Carry
      <4>3. next' <= Len(Args') + 1 /\ next' - 1 = next
        BY <2>1, <2>3, <3>1, <4>2
      <4>4. acc' = Decimal(Args', next' - 1)
        BY <2>1, <3>2, <4>2, <4>3
      <4> QED BY <2>2, <4>2, <4>3, <4>4 DEF ReadSoFar
    <3>4. CASE ~(y <= IntMax)
      <4>1. ~InInt(y)
        BY <3>1, <3>4, Widths, SMT DEF InInt
      <4>2. status' = "OVERFLOW"
        BY <2>6, <4>1 DEF Digit, Fail, End
      <4>3. all >= y
        BY <2>3, <3>1, <3>2, DecimalGrows
      <4>4. ~Fits(x)
        <5> HIDE DEF all, y
        <5> QED BY <2>4, <3>1, <3>4, <4>3, Widths, SMT DEF Fits, FixMin
      <4> QED BY <2>5, <4>2, <4>4
    <3> QED BY <3>3, <3>4
  <2>7. CASE EndOfLiteral
    <3>1. next = Len(Args) + 1 /\ acc = all
      <4>1. next = Len(Args) + 1 /\ next - 1 = Len(Args)
        BY <2>2, <2>3, <2>7 DEF EndOfLiteral, ReadSoFar
      <4> QED BY <2>2, <4>1 DEF ReadSoFar
    <3>2. IF Fits(x) THEN End("OK", Pack(x)) ELSE Fail("OVERFLOW")
      BY <2>7, <3>1 DEF EndOfLiteral
    <3> HIDE DEF all
    <3>3. x \in Int
      BY <2>4
    <3> HIDE DEF x
    <3>4. CASE Fits(x)
      <4>1. status' = "OK" /\ value' = Pack(x)
        BY <3>2, <3>4 DEF End
      <4>2. IsFix(value') /\ Unpack(value') = x
        BY <3>3, <3>4, <4>1, FitsSmall, PackLosesNothing
      <4> QED BY <2>5, <3>4, <4>1, <4>2 DEF x, all
    <3>5. CASE ~Fits(x)
      <4>1. status' = "OVERFLOW"
        BY <3>2, <3>5 DEF Fail, End
      <4> QED BY <2>5, <3>5, <4>1 DEF x, all
    <3> QED BY <3>4, <3>5
  <2> QED BY <1>2, <2>1, <2>6, <2>7, LiteralSteps
<1> QED BY <1>1, <1>2

ExactInv == Inv /\ ComparisonInv /\ ArithmeticInv /\ LiteralInv

LEMMA ExactInvariance ==
    ASSUME FixnumOperands
    PROVE  NumberSpec => []ExactInv
<1>1. NumberInit => ExactInv
  <2> SUFFICES ASSUME NumberInit PROVE ComparisonInv /\ ArithmeticInv /\ LiteralInv
    BY InvInit DEF ExactInv
  <2>1. next = 1 /\ status = "running" /\ acc = Unit /\ call \in Calls
    BY DEF NumberInit, Unit, Op
  <2>2. Len(Args) \in Nat
    BY <2>1, CallTypes
  <2>3. ComparisonInv
    BY <2>1, <2>2, SMT DEF ComparisonInv, ComparedSoFar
  <2>4. ArithmeticInv
    BY <2>1, <2>2, SMT DEF ArithmeticInv, MeansSoFar
  <2>5. Op \in Literals => acc = Decimal(Args, next - 1) /\ next <= Len(Args) + 1
    <3> SUFFICES ASSUME Op \in Literals PROVE acc = Decimal(Args, next - 1) /\ next <= Len(Args) + 1
      OBVIOUS
    <3>1. Args \in Seq(0 .. 9) /\ Args \in Seq(Nat)
      <4>1. Args \in Seq(0 .. 9)
        BY <2>1, CallTypes
      <4> QED BY <4>1
    <3>2. Decimal(Args, 0) = 0
      <4>1. 0 \in 0 .. Len(Args) /\ 0 < 1
        BY <2>2
      <4> QED BY <3>1, <4>1, DecimalUnfolds
    <3>3. acc = 0
      BY <2>1 DEF Unit, Literals
    <3>4. next - 1 = 0 /\ next <= Len(Args) + 1
      BY <2>1, <2>2
    <3> QED BY <3>2, <3>3, <3>4
  <2>6. LiteralInv
    BY <2>1, <2>5 DEF LiteralInv, ReadSoFar
  <2> QED BY <2>3, <2>4, <2>6
<1>2. ExactInv /\ [NumberNext]_numbers => ExactInv'
  BY InvNext, ComparisonNext, ArithmeticNext, LiteralNext DEF ExactInv
<1> QED
  BY <1>1, <1>2, PTL DEF NumberSpec

\* Every numeric primitive returns what the integers say, or an error at the
\* first operand at which they say one, and every literal is read exactly or
\* refused, for integers and fixnums of every width, every number of operands
\* and all of them (primitives.c:18-19, 132-134, 145-246, reader.c:239).
THEOREM ArithmeticIsExact ==
    ASSUME FixnumOperands
    PROVE  NumberSpec => []ArithmeticExact
<1>1. ExactInv => ArithmeticExact
  <2> SUFFICES ASSUME ExactInv, Op \in Ops, status # "running"
               PROVE  CASE Op \in Comparisons -> ExactComparison
                        [] Op \in Literals -> ExactLiteral
                        [] OTHER -> ExactArithmetic
    BY DEF ArithmeticExact
  <2>1. CASE Op \in Comparisons
    <3>1. Op \notin Literals /\ ExactComparison
      BY <2>1 DEF ExactInv, ComparisonInv, Comparisons, Literals
    <3> QED BY <2>1, <3>1
  <2>2. CASE Op \in Literals
    <3>1. Op \notin Comparisons /\ ExactLiteral
      BY <2>2 DEF ExactInv, LiteralInv, Comparisons, Literals
    <3> QED BY <2>2, <3>1
  <2>3. CASE Op \notin Comparisons /\ Op \notin Literals
    <3>1. ExactArithmetic
      BY <2>3 DEF ExactInv, ArithmeticInv, Arithmetic, Ops
    <3> QED BY <2>3, <3>1
  <2> QED BY <2>1, <2>2, <2>3
<1> QED
  BY ExactInvariance, <1>1, PTL

\* Every number that a numeric primitive or a literal yields is a fixnum, so
\* calls made on such numbers only are what ArithmeticIsExact asks for
\* (primitives.c:61, 73, 88, 104, 120, 141, 160, 180, 200, reader.c:277).
THEOREM ResultsAreFixnums ==
    ASSUME FixnumOperands
    PROVE  NumberSpec => [](status = "OK" /\ Op \notin Comparisons =>
                              IsFix(value) /\ Fits(Unpack(value)))
<1>1. ExactInv => (status = "OK" /\ Op \notin Comparisons => IsFix(value) /\ Fits(Unpack(value)))
  <2> SUFFICES ASSUME ExactInv, status = "OK", Op \notin Comparisons
               PROVE  IsFix(value) /\ Fits(Unpack(value))
    OBVIOUS
  <2>1. Op \in Ops /\ call \in Calls
    BY CallTypes DEF ExactInv, Inv, Types
  <2>2. CASE Op \in Literals
    BY <2>2 DEF ExactInv, LiteralInv, ExactLiteral
  <2>3. CASE Op \notin Literals
    <3>1. ExactArithmetic
      BY <2>1, <2>3 DEF ExactInv, ArithmeticInv, Arithmetic, Ops
    <3>2. CASE Args = <<>>
      BY <3>1, <3>2, FixnumAssumption, SMT DEF ExactArithmetic, Fits, FixMin
    <3>3. CASE Args # <<>>
      <4>1. Len(Args) \in DOMAIN Args
        BY <2>1, <3>3, CallTypes
      <4> QED BY <3>1, <3>3, <4>1 DEF ExactArithmetic, Verdict
    <3> QED BY <3>2, <3>3
  <2> QED BY <2>2, <2>3
<1> QED
  BY ExactInvariance, <1>1, PTL
=============================================================================
