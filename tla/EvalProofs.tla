----------------------------- MODULE EvalProofs -----------------------------
(***************************************************************************)
(* What Eval's accounting comes to, for every program, every limit and     *)
(* every reader: the depth counter, the slots of the protect stack and the *)
(* argv blocks are exactly those of the ml_eval invocations in progress.   *)
(*                                                                         *)
(* The steps of the machine differ in what they compute, and are only of   *)
(* four kinds in what they do to the stack: an invocation begins, ends, or *)
(* goes on with other locals, and microlisp_eval works below all of them.  *)
(* The invariant says of each pc which savepoints its frame has taken and  *)
(* where they are (Shape); one lemma for each kind of step shows that it   *)
(* keeps the invariant, and each action is then of one of the kinds.       *)
(*                                                                         *)
(* That part does not depend on what is in the heap, so it does not depend *)
(* on the finding of run eval_frames either.                               *)
(*                                                                         *)
(* The second part does: no collection frees what an invocation still      *)
(* holds.  `Sound` is inductive: the references of the cells in use are to *)
(* cells in use (GoodHeap); the slots of the protect stack hold such       *)
(* values; every local of a frame is one of its slots or is reached from   *)
(* one through pairs and closures alone (FrameOK), and what a handler      *)
(* checked of a list it still finds there (Ready).  A step writes only     *)
(* into environments or into a free cell, so it keeps the lists of all the *)
(* other frames (Keeps); a collection keeps what the slots reach.  The one *)
(* local that nothing protects is the frame of a closure whose body has    *)
(* several forms, and that is the theorems' hypothesis (BodyFrameHeld).    *)
(***************************************************************************)
EXTENDS Eval, Lemmas

-----------------------------------------------------------------------------
(***************************************************************************)
(* The invariant.                                                          *)
(***************************************************************************)
Fields == {"pc", "saves", "args", "cur", "env", "inner", "proc", "argv", "argc"}

\* Where an invocation waits for another one.
Waiting == {"if", "seq", "define", "set!", "init", "chain", "cond", "head", "arg"}

\* Which savepoints a frame has taken, and where the protect stack was.
Shape(f) ==
    LET sp == f.saves[1]
        taken == Len(f.saves)
    IN  /\ \/ /\ f.pc \in {"loop", "head"}
              /\ taken = 1 /\ f.argc = 0 /\ f.argv = <<>>
           \/ /\ f.pc \in {"let", "if", "define", "set!", "chain", "cond"}
              /\ taken = 1 /\ f.argc = 0
           \/ f.pc = "seq" /\ taken \in {1, 2} /\ f.argc = 0
           \/ f.pc \in {"closure", "init", "body"} /\ taken = 2 /\ f.argc = 0
           \/ f.pc = "arg" /\ taken = 2 /\ Sequence(f.argv) /\ Len(f.argv) < f.argc
           \/ f.pc \in {"apply", "cons", "frame"} /\ taken = 2
           \/ f.pc \in {"list", "bind"} /\ taken = 3
           \/ f.pc \in {"push", "rest"} /\ taken = 4
        /\ taken >= 2 => f.saves[2] = sp + 2
        /\ taken >= 3 => f.saves[3] = sp + 3 + f.argc
        /\ taken >= 4 => f.saves[4] = sp + 4 + f.argc

Frame(f) ==
    /\ DOMAIN f = Fields
    /\ Sequence(f.saves) /\ f.saves[1] \in Nat
    /\ f.argc \in Nat
    /\ Shape(f)

\* Where the slots of a frame end.
End(f) == f.saves[1] + Slots(f)

\* How many frames have an argv block.
Holders(s) == Cardinality({i \in DOMAIN s : s[i].argc # 0})

Layout ==
    IF stack = <<>>
    THEN Len(protect) = IF reg.mode = "idle" THEN 0 ELSE 1
    ELSE /\ stack[1].saves[1] = 1
         /\ \A i \in 1 .. Len(stack) - 1 : End(stack[i]) = stack[i + 1].saves[1]
         /\ End(stack[Len(stack)]) = Len(protect)

Control ==
    /\ reg.mode \in {"idle", "call", "run", "return"}
    /\ reg.mode = "idle" => stack = <<>>
    /\ reg.mode = "run" => stack # <<>>
    /\ reg.mode \in {"call", "return"} /\ stack # <<>> => stack[Len(stack)].pc \in Waiting
    /\ \A i \in 1 .. Len(stack) - 1 : stack[i].pc \in Waiting

Inv ==
    /\ Sequence(stack) /\ Sequence(protect)
    /\ \A i \in 1 .. Len(stack) : Frame(stack[i])
    /\ Control
    /\ Layout
    /\ eval_depth = Len(stack) /\ eval_depth <= MaxEvalDepth
    /\ raw = Holders(stack)

-----------------------------------------------------------------------------
(***************************************************************************)
(* Holders of argv blocks.                                                 *)
(***************************************************************************)

\* An invocation that begins holds what its frame holds.
LEMMA HoldersPushed ==
    ASSUME NEW s, Sequence(s), NEW f
    PROVE  /\ Holders(s) \in Nat
           /\ Holders(Append(s, f)) = Holders(s) + ArgvBlocks(f)
<1>1. PICK S : s \in Seq(S)
  BY DEF Sequence
<1>2. /\ s \in Seq(S \cup {f}) /\ f \in S \cup {f}
  BY <1>1, ElementOfSeq, LenProperties, SeqDef
<1> DEFINE T == S \cup {f}
           set == {g \in T : g.argc # 0}
<1>3. ASSUME NEW t \in Seq(T)
      PROVE  Holders(t) = Count(t, set)
  <2>1. \A i \in DOMAIN t : t[i] \in T
    BY ElementOfSeq, LenProperties
  <2>2. {i \in DOMAIN t : t[i].argc # 0} = {i \in DOMAIN t : t[i] \in set}
    BY <2>1
  <2>3. QED
    BY <2>2 DEF Holders, Count
<1>4. Append(s, f) \in Seq(T)
  BY <1>2, AppendProperties
<1>5. Holders(s) = Count(s, set) /\ Holders(Append(s, f)) = Count(Append(s, f), set)
  BY <1>2, <1>3, <1>4
<1>6. Count(s, set) \in Nat
  BY <1>2, CountType
<1>7. Count(Append(s, f), set) = Count(s, set) + (IF f \in set THEN 1 ELSE 0)
  BY <1>2, CountAppend
<1>8. (IF f \in set THEN 1 ELSE 0) = ArgvBlocks(f)
  BY <1>2 DEF ArgvBlocks
<1>9. QED
  BY <1>5, <1>6, <1>7, <1>8

\* Without its top, a stack holds what the top held less.
LEMMA HoldersPopped ==
    ASSUME NEW s, Sequence(s), s # <<>>
    PROVE  /\ Holders(Front(s)) \in Nat
           /\ Holders(s) = Holders(Front(s)) + ArgvBlocks(s[Len(s)])
<1>1. PICK t, f : t = Front(s) /\ f = s[Len(s)]
  OBVIOUS
<1>2. /\ Len(s) \in Nat \ {0} /\ Sequence(t) /\ Len(t) = Len(s) - 1
      /\ \A i \in 1 .. Len(s) - 1 : t[i] = s[i]
  BY <1>1, Popped
<1>3. /\ Len(Append(t, f)) = Len(t) + 1 /\ Sequence(Append(t, f))
      /\ \A i \in 1 .. Len(t) : Append(t, f)[i] = t[i]
      /\ Append(t, f)[Len(t) + 1] = f
  BY <1>2, Pushed
<1>4. DOMAIN s = 1 .. Len(s) /\ DOMAIN Append(t, f) = 1 .. Len(s)
  <2>1. \E S : s \in Seq(S)
    BY DEF Sequence
  <2>2. \E S : Append(t, f) \in Seq(S)
    BY <1>3 DEF Sequence
  <2>3. Len(Append(t, f)) = Len(s)
    BY <1>2, <1>3
  <2>4. QED
    BY <2>1, <2>2, <2>3, LenProperties
<1>5. \A i \in 1 .. Len(s) : Append(t, f)[i] = s[i]
  BY <1>1, <1>2, <1>3
<1>6. Holders(Append(t, f)) = Holders(s)
  <2>1. {i \in DOMAIN s : s[i].argc # 0}
            = {i \in DOMAIN Append(t, f) : Append(t, f)[i].argc # 0}
    BY <1>4, <1>5
  <2>2. QED
    BY <2>1 DEF Holders
<1>7. /\ Holders(t) \in Nat
      /\ Holders(Append(t, f)) = Holders(t) + ArgvBlocks(f)
  BY <1>2, HoldersPushed
<1>8. QED
  BY <1>1, <1>6, <1>7

\* A top that goes on with other locals.
LEMMA HoldersTopped ==
    ASSUME NEW s, Sequence(s), s # <<>>, NEW f
    PROVE  /\ Holders(s) \in Nat
           /\ Holders([s EXCEPT ![Len(s)] = f]) = Holders(s) - ArgvBlocks(s[Len(s)]) + ArgvBlocks(f)
<1>1. PICK t : t = [s EXCEPT ![Len(s)] = f]
  OBVIOUS
<1>2. /\ Sequence([s EXCEPT ![Len(s)] = f]) /\ [s EXCEPT ![Len(s)] = f] # <<>>
      /\ Len([s EXCEPT ![Len(s)] = f]) = Len(s)
      /\ \A i \in 1 .. Len(s) - 1 : [s EXCEPT ![Len(s)] = f][i] = s[i]
      /\ [s EXCEPT ![Len(s)] = f][Len(s)] = f
  BY Topped, Zenon
<1>3. /\ Sequence(t) /\ t # <<>> /\ Len(t) = Len(s)
      /\ \A i \in 1 .. Len(s) - 1 : t[i] = s[i]
      /\ t[Len(s)] = f
  BY <1>2, <1>1
<1>4. /\ Holders(Front(s)) \in Nat /\ Holders(Front(t)) \in Nat
      /\ Holders(s) = Holders(Front(s)) + ArgvBlocks(s[Len(s)])
      /\ Holders(t) = Holders(Front(t)) + ArgvBlocks(t[Len(t)])
  BY <1>3, HoldersPopped
<1>5. Front(s) = Front(t)
  <2>1. /\ Len(s) \in Nat \ {0}
        /\ Sequence(Front(s)) /\ Sequence(Front(t))
        /\ Len(Front(s)) = Len(s) - 1 /\ Len(Front(t)) = Len(s) - 1
        /\ \A i \in 1 .. Len(s) - 1 : Front(s)[i] = s[i] /\ Front(t)[i] = t[i]
    BY <1>3, Popped
  <2>2. PICK S, T : Front(s) \in Seq(S) /\ Front(t) \in Seq(T)
    BY <2>1 DEF Sequence
  <2>3. Front(s) \in Seq(S \cup T) /\ Front(t) \in Seq(S \cup T)
    BY <2>2, ElementOfSeq, LenProperties, SeqDef
  <2>4. \A i \in 1 .. Len(Front(s)) : Front(s)[i] = Front(t)[i]
    BY <1>3, <2>1
  <2>5. QED
    BY <2>1, <2>3, <2>4, SeqEqual
<1>6. ArgvBlocks(s[Len(s)]) \in {0, 1} /\ ArgvBlocks(f) \in {0, 1}
  BY DEF ArgvBlocks
<1>7. QED
  BY <1>1, <1>3, <1>4, <1>5, <1>6

-----------------------------------------------------------------------------
(***************************************************************************)
(* The four kinds of step.                                                 *)
(***************************************************************************)

\* The slots of a frame at each pc.
LEMMA SlotsAreCounted ==
    ASSUME NEW f, Frame(f)
    PROVE  /\ Slots(f) \in Nat /\ Slots(f) >= 2 /\ Len(f.saves) \in Nat
           /\ f.pc \in {"loop", "head", "let", "if", "define", "set!", "chain", "cond"} => Slots(f) = 2
           /\ f.pc = "seq" => Slots(f) = 1 + Len(f.saves)
           /\ f.pc = "closure" => Slots(f) = 5
           /\ f.pc \in {"init", "body"} => Slots(f) = 3
           /\ f.pc = "arg" => Slots(f) = 3 + Len(f.argv)
           /\ f.pc \in {"apply", "cons", "frame"} => Slots(f) = 3 + f.argc
           /\ f.pc \in {"list", "bind"} => Slots(f) = 4 + f.argc
           /\ f.pc = "push" => Slots(f) = 5 + f.argc
           /\ f.pc = "rest" => Slots(f) = 6 + f.argc
<1>1. /\ Len(f.saves) \in Nat /\ f.argc \in Nat
      /\ f.pc = "arg" => Len(f.argv) \in Nat
  <2>1. \A s : Sequence(s) => Len(s) \in Nat
    BY LenProperties DEF Sequence
  <2>2. QED
    BY <2>1 DEF Frame, Shape
<1>2. f.pc \in {"loop", "head", "let", "if", "define", "set!", "chain", "cond", "seq", "closure",
                "init", "body", "arg", "apply", "cons", "frame", "list", "bind", "push", "rest"}
  BY DEF Frame, Shape
<1>3. f.pc = "seq" => Len(f.saves) \in {1, 2}
  BY DEF Frame, Shape
<1>4. /\ f.pc \notin {"arg", "apply", "cons", "frame", "list", "bind", "push", "rest"} => Operands(f) = 0
      /\ f.pc = "arg" => Operands(f) = Len(f.argv)
      /\ f.pc \in {"apply", "cons", "frame", "list", "bind", "push", "rest"} => Operands(f) = f.argc
  BY <1>2 DEF Operands
<1>5. /\ f.pc \in {"loop", "head", "let", "if", "define", "set!", "chain", "cond"} => Slots(f) = 2 + Operands(f) + 0
      /\ f.pc = "seq" => Slots(f) = 2 + Operands(f) + (Len(f.saves) - 1)
      /\ f.pc = "closure" => Slots(f) = 2 + Operands(f) + 3
      /\ f.pc \in {"init", "body", "arg", "apply", "cons", "frame"} => Slots(f) = 2 + Operands(f) + 1
      /\ f.pc \in {"list", "bind"} => Slots(f) = 2 + Operands(f) + 2
      /\ f.pc = "push" => Slots(f) = 2 + Operands(f) + 3
      /\ f.pc = "rest" => Slots(f) = 2 + Operands(f) + 4
  BY DEF Slots
<1>6. CASE f.pc \in {"loop", "head", "let", "if", "define", "set!", "chain", "cond"}
  BY <1>1, <1>4, <1>5, <1>6
<1>7. CASE f.pc = "seq"
  <2>1. PICK n \in {1, 2} : n = Len(f.saves)
    BY <1>3, <1>7
  <2>2. Slots(f) = 2 + 0 + (n - 1)
    BY <1>4, <1>5, <1>7, <2>1
  <2>3. Slots(f) = 1 + n /\ Slots(f) \in Nat /\ Slots(f) >= 2
    BY <2>2
  <2>4. QED
    BY <1>7, <2>1, <2>3
<1>8. CASE f.pc \in {"closure", "init", "body"}
  BY <1>1, <1>4, <1>5, <1>8
<1>9. CASE f.pc = "arg"
  BY <1>1, <1>4, <1>5, <1>9
<1>10. CASE f.pc \in {"apply", "cons", "frame"}
  BY <1>1, <1>4, <1>5, <1>10
<1>11. CASE f.pc \in {"list", "bind"}
  BY <1>1, <1>4, <1>5, <1>11
<1>12. CASE f.pc \in {"push", "rest"}
  BY <1>1, <1>4, <1>5, <1>12
<1>13. QED
  BY <1>2, <1>6, <1>7, <1>8, <1>9, <1>10, <1>11, <1>12

\* What the invariant says of the invocation in control.
LEMMA TopIs ==
    ASSUME Inv, stack # <<>>
    PROVE  /\ Len(stack) \in Nat \ {0}
           /\ Top = stack[Len(stack)]
           /\ Frame(Top)
           /\ Len(protect) \in Nat /\ Len(protect) = End(Top)
           /\ reg.mode \in {"call", "return"} => Top.pc \in Waiting
           /\ raw \in Nat
<1>1. /\ Sequence(stack) /\ Sequence(protect)
      /\ \A i \in 1 .. Len(stack) : Frame(stack[i])
      /\ Control /\ Layout /\ raw = Holders(stack)
  BY DEF Inv
<1>2. Len(stack) \in Nat \ {0} /\ Last(stack) = stack[Len(stack)]
  BY <1>1, Popped
<1>3. Len(protect) \in Nat
  BY <1>1, LenProperties DEF Sequence
<1>4. Holders(stack) \in Nat
  BY <1>1, HoldersPushed
<1>5. QED
  BY <1>1, <1>2, <1>3, <1>4 DEF Top, Layout, Control

\* The top goes on with other locals.
LEMMA GoesOn ==
    ASSUME Inv, stack # <<>>, NEW f, Frame(f), f.saves[1] = Top.saves[1],
           stack' = [stack EXCEPT ![Len(stack)] = f],
           Sequence(protect'), Len(protect') = End(f),
           raw' = raw - ArgvBlocks(Top) + ArgvBlocks(f),
           eval_depth' = eval_depth,
           reg'.mode = "run" \/ (reg'.mode = "call" /\ f.pc \in Waiting)
    PROVE  Inv'
<1>1. /\ Len(stack) \in Nat \ {0} /\ Top = stack[Len(stack)]
  BY TopIs
<1>2. /\ Sequence(stack)
      /\ \A i \in 1 .. Len(stack) : Frame(stack[i])
      /\ Control /\ Layout
      /\ eval_depth = Len(stack) /\ eval_depth <= MaxEvalDepth
      /\ raw = Holders(stack)
  BY DEF Inv
<1>3. /\ Sequence([stack EXCEPT ![Len(stack)] = f]) /\ [stack EXCEPT ![Len(stack)] = f] # <<>>
      /\ Len([stack EXCEPT ![Len(stack)] = f]) = Len(stack)
      /\ \A i \in 1 .. Len(stack) - 1 : [stack EXCEPT ![Len(stack)] = f][i] = stack[i]
      /\ [stack EXCEPT ![Len(stack)] = f][Len(stack)] = f
  BY <1>2, Topped, Zenon
<1>4. /\ Sequence(stack') /\ stack' # <<>> /\ Len(stack') = Len(stack)
      /\ \A i \in 1 .. Len(stack) - 1 : stack'[i] = stack[i]
      /\ stack'[Len(stack)] = f
  BY <1>3
<1>5. Holders(stack') = raw'
  BY <1>1, <1>2, HoldersTopped
<1>6. \A i \in 1 .. Len(stack') : Frame(stack'[i])
  BY <1>1, <1>2, <1>4
<1>7. Control'
  BY <1>1, <1>2, <1>4 DEF Control
<1>8. Layout'
  <2>1. /\ stack[1].saves[1] = 1
        /\ \A i \in 1 .. Len(stack) - 1 : End(stack[i]) = stack[i + 1].saves[1]
    BY <1>2 DEF Layout
  <2>2. ASSUME NEW i \in 1 .. Len(stack)
        PROVE  stack'[i].saves[1] = stack[i].saves[1]
    <3>1. CASE i = Len(stack)
      BY <1>1, <1>4, <3>1
    <3>2. CASE i \in 1 .. Len(stack) - 1
      BY <1>4, <3>2
    <3>3. QED
      BY <1>1, <3>1, <3>2
  <2>3. 1 \in 1 .. Len(stack)
    BY <1>1
  <2>4. stack'[1].saves[1] = 1
    BY <2>1, <2>2, <2>3
  <2>5. ASSUME NEW i \in 1 .. Len(stack) - 1
        PROVE  End(stack'[i]) = stack'[i + 1].saves[1]
    <3>1. stack'[i] = stack[i]
      BY <1>4
    <3>2. i \in 1 .. Len(stack) /\ i + 1 \in 1 .. Len(stack)
      BY <1>1
    <3>3. QED
      BY <2>1, <2>2, <3>1, <3>2
  <2>6. QED
    BY <1>4, <2>4, <2>5 DEF Layout
<1>9. QED
  BY <1>2, <1>4, <1>5, <1>6, <1>7, <1>8 DEF Inv

\* The top returns.
LEMMA Returns ==
    ASSUME Inv, stack # <<>>, NEW status, NEW value, Return(status, value),
           raw' = raw - ArgvBlocks(Top)
    PROVE  Inv'
<1>1. /\ Len(stack) \in Nat \ {0} /\ Top = stack[Len(stack)] /\ Frame(Top)
      /\ Len(protect) \in Nat /\ Len(protect) = End(Top)
  BY TopIs
<1>2. /\ Sequence(stack) /\ Sequence(protect)
      /\ \A i \in 1 .. Len(stack) : Frame(stack[i])
      /\ Control /\ Layout
      /\ eval_depth = Len(stack) /\ eval_depth <= MaxEvalDepth
      /\ raw = Holders(stack)
  BY DEF Inv
<1>3. /\ protect' = SubSeq(protect, 1, Top.saves[1])
      /\ stack' = Front(stack) /\ reg'.mode = "return"
      /\ eval_depth' = eval_depth - 1
  BY DEF Return, Kept
<1>4. /\ Sequence(stack') /\ Len(stack') = Len(stack) - 1
      /\ \A i \in 1 .. Len(stack) - 1 : stack'[i] = stack[i]
  BY <1>2, <1>3, Popped
<1>5. Top.saves[1] \in Nat /\ Top.saves[1] <= Len(protect)
  BY <1>1, SlotsAreCounted DEF Frame, End
<1>6. Sequence(protect') /\ Len(protect') = Top.saves[1]
  BY <1>2, <1>3, <1>5, Cut
<1>7. \A i \in 1 .. Len(stack') : Frame(stack'[i])
  BY <1>1, <1>2, <1>4
<1>8. Control'
  <2>1. \A i \in 1 .. Len(stack) - 1 : stack[i].pc \in Waiting
    BY <1>2 DEF Control
  <2>2. \A i \in 1 .. Len(stack') : stack'[i].pc \in Waiting
    BY <1>1, <1>4, <2>1
  <2>3. stack' # <<>> => Len(stack') \in 1 .. Len(stack')
    BY <1>4, Popped
  <2>4. \A i \in 1 .. Len(stack') - 1 : i \in 1 .. Len(stack')
    BY <1>1, <1>4
  <2>5. QED
    BY <1>3, <2>2, <2>3, <2>4 DEF Control
<1>9. Layout'
  <2>1. /\ stack[1].saves[1] = 1
        /\ \A i \in 1 .. Len(stack) - 1 : End(stack[i]) = stack[i + 1].saves[1]
    BY <1>2 DEF Layout
  <2>2. CASE Len(stack) = 1
    <3>1. stack' = <<>>
      BY <1>1, <1>4, <2>2, Popped
    <3>2. Top.saves[1] = 1
      BY <1>1, <2>1, <2>2
    <3>3. QED
      BY <1>3, <1>6, <3>1, <3>2 DEF Layout
  <2>3. CASE Len(stack) # 1
    <3>1. PICK n : n = Len(stack) - 1
      OBVIOUS
    <3>2. /\ n \in 1 .. Len(stack) - 1 /\ n + 1 = Len(stack) /\ n = Len(stack')
          /\ 1 \in 1 .. Len(stack) - 1
      BY <1>1, <1>4, <2>3, <3>1
    <3>3. stack' # <<>>
      BY <3>2
    <3>4. stack'[1].saves[1] = 1
      BY <1>4, <2>1, <3>2
    <3>5. ASSUME NEW i \in 1 .. Len(stack') - 1
          PROVE  End(stack'[i]) = stack'[i + 1].saves[1]
      <4>1. i \in 1 .. Len(stack) - 1 /\ i + 1 \in 1 .. Len(stack) - 1
        BY <1>1, <1>4
      <4>2. QED
        BY <1>4, <2>1, <4>1
    <3>6. End(stack'[n]) = Len(protect')
      BY <1>1, <1>4, <1>6, <2>1, <3>2
    <3>7. QED
      BY <3>2, <3>3, <3>4, <3>5, <3>6 DEF Layout
  <2>4. QED
    BY <2>2, <2>3
<1>10. raw' = Holders(stack')
  <2>1. /\ Holders(Front(stack)) \in Nat
        /\ Holders(stack) = Holders(Front(stack)) + ArgvBlocks(stack[Len(stack)])
    BY <1>2, HoldersPopped
  <2>2. ArgvBlocks(Top) \in {0, 1}
    BY DEF ArgvBlocks
  <2>3. QED
    BY <1>1, <1>2, <1>3, <2>1, <2>2
<1>11. eval_depth' = Len(stack') /\ eval_depth' <= MaxEvalDepth
  BY <1>1, <1>2, <1>3, <1>4, EvalAssumption
<1>12. QED
  BY <1>4, <1>6, <1>7, <1>8, <1>9, <1>10, <1>11 DEF Inv

\* A frame at the head of its loop.
LEMMA LoopFrameIs ==
    ASSUME NEW sp \in Nat
    PROVE  /\ Frame(LoopFrame(sp))
           /\ LoopFrame(sp).saves[1] = sp /\ LoopFrame(sp).argc = 0
           /\ LoopFrame(sp).pc = "loop" /\ End(LoopFrame(sp)) = sp + 2
<1>1. PICK f : f = LoopFrame(sp)
  OBVIOUS
<1>2. /\ DOMAIN f = Fields
      /\ f.pc = "loop" /\ f.saves = <<sp>> /\ f.argc = 0 /\ f.argv = <<>>
  BY <1>1 DEF LoopFrame, Fields
<1>3. /\ Sequence(<<sp>>) /\ Len(<<sp>>) = 1 /\ <<sp>>[1] = sp
      /\ Sequence(<<>>)
  <2>1. <<sp>> \in Seq({sp}) /\ <<>> \in Seq({sp})
    OBVIOUS
  <2>2. QED
    BY <2>1 DEF Sequence
<1>4. Frame(f)
  BY <1>2, <1>3 DEF Frame, Shape
<1>5. End(f) = sp + 2
  BY <1>2, <1>3, <1>4, SlotsAreCounted DEF End
<1>6. QED
  BY <1>1, <1>2, <1>3, <1>4, <1>5

\* An invocation begins.
LEMMA Begins ==
    ASSUME Inv, Enter
    PROVE  Inv'
<1>1. /\ Sequence(stack) /\ Sequence(protect)
      /\ \A i \in 1 .. Len(stack) : Frame(stack[i])
      /\ Control /\ Layout
      /\ eval_depth = Len(stack) /\ eval_depth <= MaxEvalDepth
      /\ raw = Holders(stack)
  BY DEF Inv
<1>2. PICK f, top : /\ f = LoopFrame(Len(protect)) /\ top = Len(stack)
  OBVIOUS
<1>3. /\ reg.mode = "call" /\ eval_depth < MaxEvalDepth
      /\ eval_depth' = eval_depth + 1
      /\ protect' = protect \o <<reg.form, reg.env>>
      /\ stack' = Append(stack, f)
      /\ reg'.mode = "run"
      /\ raw' = raw
  BY <1>2 DEF Enter, Running
<1>4. Len(protect) \in Nat /\ top \in Nat
  BY <1>1, <1>2, LenProperties DEF Sequence
<1>5. /\ Frame(f) /\ f.saves[1] = Len(protect) /\ f.argc = 0
      /\ End(f) = Len(protect) + 2
  BY <1>2, <1>4, LoopFrameIs
<1>6. Sequence(protect') /\ Len(protect') = Len(protect) + 2
  BY <1>1, <1>3, PushedTwice
<1>7. /\ Sequence(stack') /\ stack' # <<>> /\ Len(stack') = top + 1
      /\ \A i \in 1 .. top : stack'[i] = stack[i]
      /\ stack'[top + 1] = f
  BY <1>1, <1>2, <1>3, Pushed
<1>8. \A i \in 1 .. Len(stack') : Frame(stack'[i])
  BY <1>1, <1>2, <1>4, <1>5, <1>7
<1>9. Control'
  <2>1. \A i \in 1 .. top - 1 : stack[i].pc \in Waiting
    BY <1>1, <1>2 DEF Control
  <2>2. stack # <<>> => top \in 1 .. top /\ stack[top].pc \in Waiting
    BY <1>1, <1>2, <1>3, <1>4, Popped DEF Control
  <2>3. ASSUME NEW i \in 1 .. top
        PROVE  stack'[i].pc \in Waiting
    <3>1. stack # <<>>
      BY <1>2, <1>4, EmptySeq
    <3>2. i = top \/ i \in 1 .. top - 1
      BY <1>4
    <3>3. QED
      BY <1>7, <2>1, <2>2, <3>1, <3>2
  <2>4. Len(stack') - 1 = top
    BY <1>4, <1>7
  <2>5. QED
    BY <1>3, <1>7, <2>3, <2>4 DEF Control
<1>10. Layout'
  <2>1. End(stack'[Len(stack')]) = Len(protect')
    BY <1>5, <1>6, <1>7
  <2>2. CASE stack = <<>>
    <3>1. top = 0 /\ Len(protect) = 1
      BY <1>1, <1>2, <1>3, <2>2, EmptySeq DEF Layout
    <3>2. Len(stack') = 1
      BY <1>7, <3>1
    <3>3. stack'[1].saves[1] = 1
      <4>1. stack'[1] = f
        BY <1>7, <3>1
      <4>2. QED
        BY <1>5, <3>1, <4>1
    <3>4. \A i \in 1 .. Len(stack') - 1 : FALSE
      BY <3>2
    <3>5. QED
      BY <1>7, <2>1, <3>3, <3>4 DEF Layout
  <2>3. CASE stack # <<>>
    <3>1. top \in Nat \ {0}
      BY <1>1, <1>2, <2>3, Popped
    <3>2. /\ stack[1].saves[1] = 1
          /\ \A i \in 1 .. top - 1 : End(stack[i]) = stack[i + 1].saves[1]
          /\ End(stack[top]) = Len(protect)
      BY <1>1, <1>2, <2>3 DEF Layout
    <3>3. 1 \in 1 .. top /\ top \in 1 .. top /\ Len(stack') - 1 = top
      BY <1>7, <3>1
    <3>4. stack'[1].saves[1] = 1
      BY <1>7, <3>2, <3>3
    <3>5. ASSUME NEW i \in 1 .. top
          PROVE  End(stack'[i]) = stack'[i + 1].saves[1]
      <4>1. CASE i = top
        BY <1>5, <1>7, <3>2, <3>3, <4>1
      <4>2. CASE i # top
        <5>1. i \in 1 .. top - 1 /\ i + 1 \in 1 .. top
          BY <3>1, <4>2
        <5>2. stack'[i] = stack[i] /\ stack'[i + 1] = stack[i + 1]
          BY <1>7, <5>1
        <5>3. QED
          BY <3>2, <5>1, <5>2
      <4>3. QED
        BY <4>1, <4>2
    <3>6. QED
      BY <1>7, <2>1, <3>3, <3>4, <3>5 DEF Layout
  <2>4. QED
    BY <2>2, <2>3
<1>11. raw' = Holders(stack')
  <2>1. Holders(stack) \in Nat /\ Holders(stack') = Holders(stack) + ArgvBlocks(f)
    BY <1>1, <1>3, HoldersPushed
  <2>2. ArgvBlocks(f) = 0
    BY <1>5 DEF ArgvBlocks
  <2>3. QED
    BY <1>1, <1>3, <2>1, <2>2
<1>12. eval_depth' = Len(stack') /\ eval_depth' <= MaxEvalDepth
  BY <1>1, <1>2, <1>3, <1>4, <1>7, EvalAssumption
<1>13. QED
  BY <1>6, <1>7, <1>8, <1>9, <1>10, <1>11, <1>12 DEF Inv

\* The top goes on, in control itself.
LEMMA GoKeeps ==
    ASSUME Inv, stack # <<>>, NEW f, Frame(f), f.saves[1] = Top.saves[1], Go(f),
           Sequence(protect'), Len(protect') = End(f),
           raw' = raw - ArgvBlocks(Top) + ArgvBlocks(f)
    PROVE  Inv'
BY GoesOn DEF Go, SetTop, Running

\* The top waits for an invocation.
LEMMA CallKeeps ==
    ASSUME Inv, stack # <<>>, NEW f, Frame(f), f.saves[1] = Top.saves[1],
           NEW form, NEW env, Call(f, form, env), f.pc \in Waiting,
           Sequence(protect'), Len(protect') = End(f),
           raw' = raw - ArgvBlocks(Top) + ArgvBlocks(f)
    PROVE  Inv'
BY GoesOn DEF Call, SetTop

\* The top returns, and has no argv block.
LEMMA PlainReturns ==
    ASSUME Inv, stack # <<>>, Top.argc = 0, raw' = raw,
           NEW status, NEW value, Return(status, value)
    PROVE  Inv'
<1>1. raw \in Nat
  BY TopIs
<1>2. raw' = raw - ArgvBlocks(Top)
  BY <1>1 DEF ArgvBlocks
<1>3. QED
  BY <1>2, Returns

\* The tail call: whatever the frame had on the protect stack, it is back to
\* the two slots of its form and environment.
LEMMA Continues ==
    ASSUME Inv, stack # <<>>, Top.argc = 0, raw' = raw,
           NEW frame, Keep(frame) = Top.saves[1] + 2,
           NEW form, NEW env, Continue(frame, form, env)
    PROVE  Inv'
<1>1. /\ Frame(Top) /\ Len(protect) \in Nat /\ Len(protect) = End(Top) /\ raw \in Nat
  BY TopIs
<1>2. PICK sp : sp = Top.saves[1]
  OBVIOUS
<1>3. sp \in Nat /\ sp + 2 \in Nat /\ sp + 2 <= Len(protect)
  BY <1>1, <1>2, SlotsAreCounted DEF Frame, End
<1>4. /\ Frame(LoopFrame(sp)) /\ LoopFrame(sp).saves[1] = sp /\ LoopFrame(sp).argc = 0
      /\ End(LoopFrame(sp)) = sp + 2
  BY <1>3, LoopFrameIs
<1>5. PICK kept, first : /\ kept = SubSeq(protect, 1, sp + 2)
                         /\ first = [kept EXCEPT ![sp + 1] = form]
  OBVIOUS
<1>6. protect' = [first EXCEPT ![sp + 2] = env]
  BY <1>2, <1>5 DEF Continue, Kept
<1>7. Sequence(kept) /\ Len(kept) = sp + 2
  BY <1>3, <1>5, Cut DEF Inv
<1>8. Sequence(first) /\ Len(first) = sp + 2
  <2>1. Sequence([kept EXCEPT ![sp + 1] = form]) /\ Len([kept EXCEPT ![sp + 1] = form]) = Len(kept)
    BY <1>7, Patched, Zenon
  <2>2. QED
    BY <1>5, <1>7, <2>1
<1>9. Sequence(protect') /\ Len(protect') = sp + 2
  BY <1>6, <1>8, Patched
<1>10. raw' = raw - ArgvBlocks(Top) + ArgvBlocks(LoopFrame(sp))
  BY <1>1, <1>4 DEF ArgvBlocks
<1>11. Go(LoopFrame(sp))
  BY <1>2 DEF Continue
<1>12. QED
  BY <1>2, <1>4, <1>9, <1>10, <1>11, GoKeeps

\* The frame of a special form, or of a call, that has just been dispatched.
LEMMA LoadedIs ==
    ASSUME Inv, stack # <<>>, Top.pc = "loop",
           NEW pc \in {"head", "let", "if", "define", "set!", "chain", "cond", "seq"}
    PROVE  /\ Frame(Loaded(pc)) /\ Loaded(pc).pc = pc
           /\ Loaded(pc).saves = Top.saves /\ Len(Top.saves) = 1
           /\ Loaded(pc).argc = 0 /\ Top.argc = 0
           /\ End(Loaded(pc)) = Len(protect) /\ Len(protect) = Top.saves[1] + 2
<1>1. Frame(Top) /\ Len(protect) = End(Top)
  BY TopIs
<1>2. Len(Top.saves) = 1 /\ Top.argc = 0
  BY <1>1 DEF Frame, Shape
<1>3. Top.saves[1] \in Nat /\ End(Top) = Top.saves[1] + 2
  BY <1>1, SlotsAreCounted DEF End, Frame
<1>4. PICK f : f = Loaded(pc)
  OBVIOUS
<1>5. /\ DOMAIN f = Fields
      /\ f.pc = pc /\ f.saves = Top.saves /\ f.argc = Top.argc /\ f.argv = Top.argv
  BY <1>1, <1>4 DEF Loaded, Frame, Fields
<1>6. Frame(f)
  BY <1>1, <1>2, <1>5 DEF Frame, Shape
<1>7. End(f) = Top.saves[1] + 2
  <2>1. pc = "seq" => Slots(f) = 1 + 1
    BY <1>2, <1>5, <1>6, SlotsAreCounted
  <2>2. pc # "seq" => Slots(f) = 2
    BY <1>5, <1>6, SlotsAreCounted
  <2>3. QED
    BY <1>3, <1>5, <2>1, <2>2 DEF End
<1>8. QED
  BY <1>1, <1>2, <1>3, <1>4, <1>5, <1>6, <1>7

\* begin_tco, whatever it finds: an invocation for a form that is not the last,
\* a tail call for the last, a value or an error.
LEMMA BeginTcoKeeps ==
    ASSUME Inv, stack # <<>>, Top.argc = 0, raw' = raw,
           NEW frame, Frame(frame), frame.saves = Top.saves, frame.argc = 0,
           Len(Top.saves) \in {1, 2}, Len(protect) = Top.saves[1] + 1 + Len(Top.saves),
           NEW forms, NEW env, BeginTco(frame, forms, env)
    PROVE  Inv'
<1>1. /\ Frame(Top) /\ raw \in Nat
  BY TopIs
<1>2. Top.saves[1] \in Nat
  BY <1>1 DEF Frame
<1>3. ASSUME NEW status, NEW value, Return(status, value)
      PROVE  Inv'
  BY <1>3, PlainReturns
<1>4. CASE Continue(frame, Car(heap, forms), env)
  <2>1. Keep(frame) = Top.saves[1] + 2
    BY <1>2 DEF Keep, Frame, Shape
  <2>2. QED
    BY <1>4, <2>1, Continues
<1>5. CASE /\ Call([frame EXCEPT !.pc = "seq", !.cur = forms, !.inner = env],
                   Car(heap, forms), env)
           /\ UNCHANGED protect
  <2>1. PICK f : f = [frame EXCEPT !.pc = "seq", !.cur = forms, !.inner = env]
    OBVIOUS
  <2>2. /\ DOMAIN f = Fields
        /\ f.pc = "seq" /\ f.saves = Top.saves /\ f.argc = 0 /\ f.argv = frame.argv
    BY <2>1 DEF Frame, Fields
  <2>3. Frame(f)
    BY <2>2 DEF Frame, Shape
  <2>4. End(f) = Len(protect)
    BY <1>2, <2>2, <2>3, SlotsAreCounted, SMTT(30) DEF End
  <2>5. raw' = raw - ArgvBlocks(Top) + ArgvBlocks(f)
    BY <1>1, <2>2 DEF ArgvBlocks
  <2>6. Sequence(protect') /\ Len(protect') = End(f)
    BY <1>5, <2>4 DEF Inv
  <2>7. Call(f, Car(heap, forms), env)
    BY <1>5, <2>1
  <2>8. QED
    BY <2>2, <2>3, <2>5, <2>6, <2>7, CallKeeps DEF Waiting
<1>6. QED
  BY <1>3, <1>4, <1>5 DEF BeginTco, Value, Fail

\* The cursor of a frame is not part of its accounting.
LEMMA CursorMoves ==
    ASSUME NEW f, Frame(f), NEW v
    PROVE  /\ Frame([f EXCEPT !.cur = v])
           /\ [f EXCEPT !.cur = v].pc = f.pc /\ [f EXCEPT !.cur = v].saves = f.saves
           /\ [f EXCEPT !.cur = v].argc = f.argc
           /\ End([f EXCEPT !.cur = v]) = End(f)
<1>1. PICK g : g = [f EXCEPT !.cur = v]
  OBVIOUS
<1>2. /\ DOMAIN g = Fields
      /\ g.pc = f.pc /\ g.saves = f.saves /\ g.argc = f.argc /\ g.argv = f.argv
  BY <1>1 DEF Frame, Fields
<1>3. Frame(g)
  BY <1>2 DEF Frame, Shape
<1>4. Slots(g) = Slots(f)
  BY <1>2 DEF Slots, Operands
<1>5. QED
  BY <1>1, <1>2, <1>3, <1>4 DEF End

\* The top waits for an invocation and keeps its slots.
LEMMA Waits ==
    ASSUME Inv, stack # <<>>, Top.argc = 0, raw' = raw, protect' = protect,
           NEW f, Frame(f), f.saves = Top.saves, f.argc = 0, f.pc \in Waiting,
           End(f) = Len(protect),
           NEW form, NEW env, Call(f, form, env)
    PROVE  Inv'
<1>1. raw \in Nat
  BY TopIs
<1>2. raw' = raw - ArgvBlocks(Top) + ArgvBlocks(f)
  BY <1>1 DEF ArgvBlocks
<1>3. Sequence(protect') /\ Len(protect') = End(f)
  BY DEF Inv
<1>4. QED
  BY <1>2, <1>3, CallKeeps

\* The rest of an `and` or an `or`.
LEMMA ChainKeeps ==
    ASSUME Inv, stack # <<>>, Top.argc = 0, raw' = raw,
           NEW frame, Frame(frame), frame.saves = Top.saves, frame.argc = 0,
           frame.pc = "chain", Len(protect) = Top.saves[1] + 2,
           NEW args, Chain(frame, args)
    PROVE  Inv'
<1>1. Len(frame.saves) = 1 /\ frame.saves[1] \in Nat
  BY DEF Frame, Shape
<1>2. End(frame) = Len(protect)
  BY <1>1, SlotsAreCounted DEF End
<1>3. ASSUME NEW status, NEW value, Return(status, value)
      PROVE  Inv'
  BY <1>3, PlainReturns
<1>4. CASE /\ Call([frame EXCEPT !.cur = args], Car(heap, args), frame.env)
           /\ UNCHANGED protect
  <2>1. PICK f : f = [frame EXCEPT !.cur = args]
    OBVIOUS
  <2>2. /\ Frame(f) /\ f.pc = "chain" /\ f.saves = Top.saves /\ f.argc = 0
        /\ End(f) = Len(protect)
    BY <1>2, <2>1, CursorMoves
  <2>3. Call(f, Car(heap, args), frame.env)
    BY <1>4, <2>1
  <2>4. QED
    BY <1>4, <2>2, <2>3, Waits DEF Waiting
<1>5. CASE Continue(frame, Car(heap, args), frame.env)
  <2>1. Keep(frame) = Top.saves[1] + 2
    BY <1>1 DEF Keep
  <2>2. QED
    BY <1>5, <2>1, Continues
<1>6. QED
  BY <1>3, <1>4, <1>5 DEF Chain, Value, Fail

\* The next clause of a cond.
LEMMA ClauseKeeps ==
    ASSUME Inv, stack # <<>>, Top.argc = 0, raw' = raw,
           NEW frame, Frame(frame), frame.saves = Top.saves, frame.argc = 0,
           frame.pc = "cond", Len(protect) = Top.saves[1] + 2,
           Clause(frame)
    PROVE  Inv'
<1>1. Len(frame.saves) = 1 /\ frame.saves[1] \in Nat
  BY DEF Frame, Shape
<1>2. End(frame) = Len(protect)
  BY <1>1, SlotsAreCounted DEF End
<1>3. ASSUME NEW status, NEW value, Return(status, value)
      PROVE  Inv'
  BY <1>3, PlainReturns
<1>4. ASSUME NEW forms, BeginTco(frame, forms, frame.env)
      PROVE  Inv'
  BY <1>1, <1>4, BeginTcoKeeps
<1>5. ASSUME NEW test, Call(frame, test, frame.env), UNCHANGED protect
      PROVE  Inv'
  BY <1>2, <1>5, Waits DEF Waiting
<1>6. QED
  BY <1>3, <1>4, <1>5 DEF Clause, Value, Fail

\* The next binding of a let, or its body.
LEMMA NextBindingKeeps ==
    ASSUME Inv, stack # <<>>, Top.argc = 0, raw' = raw,
           NEW frame, Frame(frame), frame.saves = Top.saves, frame.argc = 0,
           frame.pc = "init", Len(protect) = Top.saves[1] + 3,
           NextBinding(frame)
    PROVE  Inv'
<1>1. Len(frame.saves) = 2 /\ frame.saves[1] \in Nat
  BY DEF Frame, Shape
<1>2. End(frame) = Len(protect)
  BY <1>1, SlotsAreCounted DEF End
<1>3. ASSUME NEW status, NEW value, Return(status, value)
      PROVE  Inv'
  BY <1>3, PlainReturns
<1>4. ASSUME NEW forms, BeginTco(frame, forms, frame.inner)
      PROVE  Inv'
  BY <1>1, <1>4, BeginTcoKeeps
<1>5. ASSUME NEW form, NEW env, Call(frame, form, env), UNCHANGED protect
      PROVE  Inv'
  BY <1>2, <1>5, Waits DEF Waiting
<1>6. QED
  BY <1>3, <1>4, <1>5 DEF NextBinding, Fail

\* Another savepoint.
LEMMA Saved ==
    ASSUME NEW s, Sequence(s), Len(s) \in 1 .. 3, NEW n
    PROVE  /\ Sequence(Append(s, n)) /\ Len(Append(s, n)) = Len(s) + 1
           /\ Append(s, n)[1] = s[1]
           /\ Len(s) = 1 => Append(s, n)[2] = n
           /\ Len(s) >= 2 => Append(s, n)[2] = s[2]
           /\ Len(s) = 2 => Append(s, n)[3] = n
           /\ Len(s) >= 3 => Append(s, n)[3] = s[3]
           /\ Len(s) = 3 => Append(s, n)[4] = n
<1>1. PICK t : t = Append(s, n)
  OBVIOUS
<1>2. /\ Sequence(t) /\ Len(t) = Len(s) + 1
      /\ \A i \in 1 .. Len(s) : t[i] = s[i]
      /\ t[Len(s) + 1] = n
  BY <1>1, Pushed
<1>3. t[1] = s[1]
  BY <1>2
<1>4. CASE Len(s) = 1
  <2>1. t[2] = n
    BY <1>2, <1>4
  <2>2. QED
    BY <1>1, <1>2, <1>3, <1>4, <2>1
<1>5. CASE Len(s) = 2
  <2>1. t[2] = s[2] /\ t[3] = n
    BY <1>2, <1>5
  <2>2. QED
    BY <1>1, <1>2, <1>3, <1>5, <2>1
<1>6. CASE Len(s) = 3
  <2>1. t[2] = s[2] /\ t[3] = s[3] /\ t[4] = n
    BY <1>2, <1>6
  <2>2. QED
    BY <1>1, <1>2, <1>3, <1>6, <2>1
<1>7. QED
  BY <1>4, <1>5, <1>6

\* make_closure before its allocation takes three slots.
LEMMA PrepareClosureKeeps ==
    ASSUME Inv, stack # <<>>, Top.pc = "loop", raw' = raw,
           NEW params, NEW body, PrepareClosure("closure", params, body)
    PROVE  Inv'
<1>1. /\ Frame(Top) /\ Len(protect) = End(Top) /\ Len(protect) \in Nat /\ raw \in Nat
  BY TopIs
<1>2. Len(Top.saves) = 1 /\ Top.argc = 0 /\ Top.saves[1] \in Nat
  BY <1>1 DEF Frame, Shape
<1>3. Len(protect) = Top.saves[1] + 2
  BY <1>1, <1>2, SlotsAreCounted DEF End
<1>4. ASSUME NEW status, NEW value, Return(status, value)
      PROVE  Inv'
  BY <1>2, <1>4, PlainReturns
<1>5. CASE /\ Go([Loaded("closure") EXCEPT !.saves = Append(@, Len(protect))])
           /\ protect' = protect \o <<params, body, Env>>
  <2>1. PICK f : f = [Loaded("closure") EXCEPT !.saves = Append(@, Len(protect))]
    OBVIOUS
  <2>2. /\ DOMAIN f = Fields
        /\ f.pc = "closure" /\ f.saves = Append(Top.saves, Len(protect))
        /\ f.argc = 0 /\ f.argv = Top.argv
    BY <1>1, <1>2, <2>1 DEF Loaded, Frame, Fields
  <2>3. /\ Sequence(f.saves) /\ Len(f.saves) = 2
        /\ f.saves[1] = Top.saves[1] /\ f.saves[2] = Len(protect)
    <3>1. Sequence(Top.saves) /\ Len(Top.saves) \in 1 .. 3
      BY <1>1, <1>2 DEF Frame
    <3>2. QED
      BY <1>2, <2>2, <3>1, Saved
  <2>4. Frame(f)
    BY <1>1, <1>2, <1>3, <2>2, <2>3 DEF Frame, Shape
  <2>5. End(f) = Len(protect) + 3
    BY <1>2, <1>3, <2>2, <2>3, <2>4, SlotsAreCounted DEF End
  <2>6. Sequence(protect') /\ Len(protect') = Len(protect) + 3
    BY <1>5, PushedThrice DEF Inv
  <2>7. raw' = raw - ArgvBlocks(Top) + ArgvBlocks(f)
    BY <1>1, <1>2, <2>2 DEF ArgvBlocks
  <2>8. Go(f)
    BY <1>5, <2>1
  <2>9. QED
    BY <2>3, <2>4, <2>5, <2>6, <2>7, <2>8, GoKeeps
<1>6. QED
  BY <1>4, <1>5 DEF PrepareClosure, Fail

\* Forms that have just been dispatched.
LEMMA DispatchKeeps ==
    ASSUME Inv, stack # <<>>, Top.pc = "loop", raw' = raw
    PROVE  /\ \A status, value : Return(status, value) => Inv'
           /\ \A pc \in {"head", "if", "define", "set!"} : \A form, env :
                Call(Loaded(pc), form, env) /\ UNCHANGED protect => Inv'
<1>1. Top.argc = 0
  BY LoadedIs
<1>2. ASSUME NEW status, NEW value, Return(status, value)
      PROVE  Inv'
  BY <1>1, <1>2, PlainReturns
<1>3. ASSUME NEW pc \in {"head", "if", "define", "set!"}, NEW form, NEW env,
             Call(Loaded(pc), form, env), UNCHANGED protect
      PROVE  Inv'
  <2>1. PICK f : f = Loaded(pc)
    OBVIOUS
  <2>2. /\ Frame(f) /\ f.pc = pc /\ f.saves = Top.saves /\ f.argc = 0
        /\ End(f) = Len(protect)
    BY <2>1, LoadedIs
  <2>3. Call(f, form, env)
    BY <1>3, <2>1
  <2>4. QED
    BY <1>1, <1>3, <2>2, <2>3, Waits DEF Waiting
<1>4. QED
  BY <1>2, <1>3

\* The head of the loop: atoms, variables and the dispatch on the operator.
LEMMA LoopKeeps ==
    ASSUME Inv,
           Atom \/ Variable \/ Quote \/ If \/ Begin \/ Lambda \/ DefineForm \/ SetBang
           \/ Let \/ AndOr \/ Cond \/ Operator
    PROVE  Inv'
<1>1. stack # <<>> /\ Top.pc = "loop" /\ raw' = raw
  BY DEF Atom, Variable, Quote, If, Begin, Lambda, DefineForm, SetBang, Let, AndOr, Cond,
         Operator, Special, Run, At
<1>2. /\ \A status, value : Return(status, value) => Inv'
      /\ \A pc \in {"head", "if", "define", "set!"} : \A form, env :
            Call(Loaded(pc), form, env) /\ UNCHANGED protect => Inv'
  BY <1>1, DispatchKeeps
<1>3. ASSUME NEW params, NEW body, PrepareClosure("closure", params, body)
      PROVE  Inv'
  BY <1>1, <1>3, PrepareClosureKeeps
<1>4. CASE Atom \/ Variable \/ Quote
  BY <1>2, <1>4 DEF Atom, Variable, Quote, Value, Fail
<1>5. CASE If
  BY <1>2, <1>5 DEF If, Fail
<1>6. CASE SetBang
  BY <1>2, <1>6 DEF SetBang, Fail
<1>7. CASE Operator
  BY <1>2, <1>7 DEF Operator
<1>8. CASE Lambda
  BY <1>2, <1>3, <1>8 DEF Lambda, Fail
<1>9. CASE DefineForm
  BY <1>2, <1>3, <1>9 DEF DefineForm, Fail
<1>10. CASE Begin
  <2>1. PICK f : f = Loaded("seq")
    OBVIOUS
  <2>2. /\ Frame(f) /\ f.saves = Top.saves /\ f.argc = 0 /\ Top.argc = 0
        /\ Len(Top.saves) = 1 /\ Len(protect) = Top.saves[1] + 2
    BY <1>1, <2>1, LoadedIs
  <2>3. Top.saves[1] \in Nat
    BY <2>2 DEF Frame
  <2>4. Len(protect) = Top.saves[1] + 1 + Len(Top.saves)
    BY <2>2, <2>3
  <2>5. BeginTco(f, Rest, Env)
    BY <1>10, <2>1 DEF Begin
  <2>6. QED
    BY <1>1, <2>2, <2>4, <2>5, BeginTcoKeeps
<1>11. CASE AndOr
  <2>1. PICK f : f = Loaded("chain")
    OBVIOUS
  <2>2. /\ Frame(f) /\ f.pc = "chain" /\ f.saves = Top.saves /\ f.argc = 0 /\ Top.argc = 0
        /\ Len(protect) = Top.saves[1] + 2
    BY <1>1, <2>1, LoadedIs
  <2>3. Chain(f, Rest)
    BY <1>11, <2>1 DEF AndOr
  <2>4. QED
    BY <1>1, <2>2, <2>3, ChainKeeps
<1>12. CASE Cond
  <2>1. PICK f : f = Loaded("cond")
    OBVIOUS
  <2>2. /\ Frame(f) /\ f.pc = "cond" /\ f.saves = Top.saves /\ f.argc = 0 /\ Top.argc = 0
        /\ Len(protect) = Top.saves[1] + 2
    BY <1>1, <2>1, LoadedIs
  <2>3. CASE Clause(f)
    BY <1>1, <2>2, <2>3, ClauseKeeps
  <2>4. CASE Fail("SYNTAX")
    BY <1>2, <2>4 DEF Fail
  <2>5. QED
    BY <1>12, <2>1, <2>3, <2>4 DEF Cond
<1>13. CASE Let
  <2>1. PICK f, g : f = Loaded("let") /\ g = [f EXCEPT !.cur = Car(heap, Rest)]
    OBVIOUS
  <2>2. /\ Frame(f) /\ f.pc = "let" /\ f.saves = Top.saves /\ f.argc = 0 /\ Top.argc = 0
        /\ End(f) = Len(protect)
    BY <1>1, <2>1, LoadedIs
  <2>3. Frame(g) /\ g.saves = Top.saves /\ g.argc = 0 /\ End(g) = Len(protect)
    BY <2>1, <2>2, CursorMoves
  <2>4. raw' = raw - ArgvBlocks(Top) + ArgvBlocks(g)
    BY <1>1, <2>2, <2>3, TopIs DEF ArgvBlocks
  <2>5. CASE Go(g) /\ UNCHANGED protect
    <3>1. Sequence(protect') /\ Len(protect') = End(g)
      BY <2>3, <2>5 DEF Inv
    <3>2. QED
      BY <1>1, <2>3, <2>4, <2>5, <3>1, GoKeeps
  <2>6. CASE Fail("SYNTAX")
    BY <1>2, <2>6 DEF Fail
  <2>7. QED
    BY <1>13, <2>1, <2>5, <2>6 DEF Let
<1>14. QED
  BY <1>4, <1>5, <1>6, <1>7, <1>8, <1>9, <1>10, <1>11, <1>12, <1>13

\* Special forms that go on after an invocation or an allocation.
LEMMA FormKeeps ==
    ASSUME Inv,
           IfChosen \/ SeqNext \/ MakeClosure \/ DefineValue \/ SetValue \/ LetFrame
           \/ LetInit \/ LetBound \/ ChainNext \/ CondNext \/ Body
    PROVE  Inv'
<1>1. /\ stack # <<>> /\ raw' = raw
      /\ Top.pc \in {"if", "seq", "closure", "define", "set!", "let", "init", "chain", "cond", "body"}
  BY DEF IfChosen, SeqNext, MakeClosure, DefineValue, SetValue, LetFrame, LetInit, LetBound,
         ChainNext, CondNext, Body, Returned, Run, At
<1>2. /\ Frame(Top) /\ Len(protect) = End(Top) /\ Len(protect) \in Nat /\ raw \in Nat
  BY <1>1, TopIs
<1>3. Top.argc = 0 /\ Top.saves[1] \in Nat
  BY <1>1, <1>2 DEF Frame, Shape
<1>4. /\ Top.pc \in {"if", "define", "set!", "let", "chain", "cond"} =>
            Len(Top.saves) = 1 /\ Len(protect) = Top.saves[1] + 2
      /\ Top.pc \in {"init", "body"} =>
            Len(Top.saves) = 2 /\ Len(protect) = Top.saves[1] + 3
      /\ Top.pc = "seq" =>
            Len(Top.saves) \in {1, 2} /\ Len(protect) = Top.saves[1] + (1 + Len(Top.saves))
  <2>1. /\ Top.pc \in {"if", "define", "set!", "let", "chain", "cond"} => Len(Top.saves) = 1
        /\ Top.pc \in {"init", "body"} => Len(Top.saves) = 2
        /\ Top.pc = "seq" => Len(Top.saves) \in {1, 2}
    BY <1>2 DEF Frame, Shape
  <2>2. QED
    BY <1>2, <2>1, SlotsAreCounted DEF End
<1>5. Top.pc \in {"seq", "body", "cond"} =>
            /\ Len(Top.saves) \in {1, 2}
            /\ Len(protect) = Top.saves[1] + 1 + Len(Top.saves)
  <2>1. PICK sp \in Nat : sp = Top.saves[1]
    BY <1>3
  <2>2. PICK n : n = Len(Top.saves)
    OBVIOUS
  <2>3. /\ Top.pc = "cond" => n = 1 /\ Len(protect) = sp + 2
        /\ Top.pc = "body" => n = 2 /\ Len(protect) = sp + 3
        /\ Top.pc = "seq" => n \in {1, 2} /\ Len(protect) = sp + (1 + n)
    BY <1>4, <2>1, <2>2
  <2>4. Top.pc \in {"seq", "body", "cond"} => n \in {1, 2} /\ Len(protect) = sp + 1 + n
    BY <2>3
  <2>5. QED
    BY <2>1, <2>2, <2>4
<1>6. ASSUME NEW status, NEW value, Return(status, value)
      PROVE  Inv'
  BY <1>1, <1>3, <1>6, PlainReturns
<1>7. ASSUME NEW forms, NEW env, BeginTco(Top, forms, env), Top.pc \in {"seq", "body", "cond"}
      PROVE  Inv'
  <2>1. PICK f : f = Top
    OBVIOUS
  <2>2. /\ BeginTco(f, forms, env) /\ Frame(f) /\ f.saves = Top.saves /\ f.argc = 0
    BY <1>2, <1>3, <1>7, <2>1
  <2>3. QED
    BY <1>1, <1>3, <1>5, <1>7, <2>2, BeginTcoKeeps
<1>8. CASE IfChosen
  <2>1. ASSUME NEW form, Continue(Top, form, Top.env)
        PROVE  Inv'
    <3>1. PICK f, env : f = Top /\ env = Top.env
      OBVIOUS
    <3>2. Top.pc = "if"
      BY <1>8 DEF IfChosen, Returned, At
    <3>3. Keep(f) = Top.saves[1] + 2
      BY <1>4, <3>1, <3>2 DEF Keep
    <3>4. Continue(f, form, env)
      BY <2>1, <3>1
    <3>5. QED
      BY <1>1, <1>3, <3>3, <3>4, Continues
  <2>2. QED
    BY <1>6, <1>8, <2>1 DEF IfChosen, Value
<1>9. CASE SeqNext \/ Body
  <2>1. Top.pc \in {"seq", "body"}
    BY <1>9 DEF SeqNext, Body, Returned, Run, At
  <2>2. QED
    BY <1>7, <1>9, <2>1 DEF SeqNext, Body
<1>10. CASE MakeClosure \/ DefineValue \/ SetValue
  BY <1>6, <1>10 DEF MakeClosure, DefineValue, SetValue, Value, Fail
<1>11. CASE LetFrame
  <2>1. CASE Fail("SYNTAX")
    BY <1>6, <2>1 DEF Fail
  <2>2. ASSUME NEW inner,
               Go([Top EXCEPT !.pc = "init", !.inner = inner, !.saves = Append(@, Len(protect))]),
               protect' = Append(protect, inner)
        PROVE  Inv'
    <3>1. PICK f : f = [Top EXCEPT !.pc = "init", !.inner = inner, !.saves = Append(@, Len(protect))]
      OBVIOUS
    <3>2. /\ DOMAIN f = Fields
          /\ f.pc = "init" /\ f.saves = Append(Top.saves, Len(protect))
          /\ f.argc = 0 /\ f.argv = Top.argv
      BY <1>2, <1>3, <3>1 DEF Frame, Fields
    <3>3. Len(Top.saves) = 1 /\ Len(protect) = Top.saves[1] + 2
      BY <1>4, <1>11 DEF LetFrame, Run, At
    <3>4. /\ Sequence(f.saves) /\ Len(f.saves) = 2
          /\ f.saves[1] = Top.saves[1] /\ f.saves[2] = Len(protect)
      <4>1. Sequence(Top.saves) /\ Len(Top.saves) \in 1 .. 3
        BY <1>2, <3>3 DEF Frame
      <4>2. QED
        BY <3>2, <3>3, <4>1, Saved
    <3>5. Frame(f)
      BY <1>2, <1>3, <3>2, <3>3, <3>4 DEF Frame, Shape
    <3>6. End(f) = Len(protect) + 1
      BY <1>3, <3>2, <3>3, <3>4, <3>5, SlotsAreCounted DEF End
    <3>7. Sequence(protect') /\ Len(protect') = Len(protect) + 1
      BY <2>2, Pushed DEF Inv
    <3>8. raw' = raw - ArgvBlocks(Top) + ArgvBlocks(f)
      BY <1>1, <1>2, <1>3, <3>2 DEF ArgvBlocks
    <3>9. Go(f)
      BY <2>2, <3>1
    <3>10. QED
      BY <1>1, <3>4, <3>5, <3>6, <3>7, <3>8, <3>9, GoKeeps
  <2>3. QED
    BY <1>11, <2>1, <2>2 DEF LetFrame
<1>12. CASE LetInit \/ LetBound
  <2>1. Top.pc = "init"
    BY <1>12 DEF LetInit, LetBound, Returned, Run, At
  <2>2. PICK f, g : f = Top /\ g = [Top EXCEPT !.cur = Cdr(heap, Top.cur)]
    OBVIOUS
  <2>3. /\ Frame(f) /\ f.saves = Top.saves /\ f.argc = 0 /\ f.pc = "init"
        /\ Frame(g) /\ g.saves = Top.saves /\ g.argc = 0 /\ g.pc = "init"
    BY <1>2, <1>3, <2>1, <2>2, CursorMoves
  <2>4. NextBinding(f) \/ NextBinding(g)
    BY <1>12, <2>2 DEF LetInit, LetBound
  <2>5. QED
    BY <1>1, <1>3, <1>4, <2>1, <2>3, <2>4, NextBindingKeeps
<1>13. CASE ChainNext
  <2>1. PICK f : f = Top
    OBVIOUS
  <2>2. f.pc = "chain"
    BY <1>13, <2>1 DEF ChainNext, Returned, At
  <2>3. CASE Chain(Top, Cdr(heap, Top.cur))
    <3>1. Chain(f, Cdr(heap, Top.cur))
      BY <2>1, <2>3
    <3>2. QED
      BY <1>1, <1>2, <1>3, <1>4, <2>1, <2>2, <3>1, ChainKeeps
  <2>4. QED
    BY <1>6, <1>13, <2>3 DEF ChainNext, Value
<1>14. CASE CondNext
  <2>1. PICK g : g = [Top EXCEPT !.cur = Cdr(heap, Top.cur)]
    OBVIOUS
  <2>2. Top.pc = "cond"
    BY <1>14 DEF CondNext, Returned, At
  <2>3. /\ Frame(g) /\ g.saves = Top.saves /\ g.argc = 0 /\ g.pc = "cond"
    BY <1>2, <1>3, <2>1, <2>2, CursorMoves
  <2>4. CASE Clause(g)
    BY <1>1, <1>3, <1>4, <2>2, <2>3, <2>4, ClauseKeeps
  <2>5. QED
    BY <1>6, <1>7, <1>14, <2>1, <2>2, <2>4 DEF CondNext, Value
<1>15. QED
  BY <1>8, <1>9, <1>10, <1>11, <1>12, <1>13, <1>14

-----------------------------------------------------------------------------
(***************************************************************************)
(* Procedure calls.                                                        *)
(***************************************************************************)

\* A list has a length.
LEMMA LengthIsNatural ==
    ASSUME NEW h, NEW v, IsList(h, v)
    PROVE  Length(h, v) \in Nat
<1>1. \E n \in 0 .. HeapSize : Spans(h, v, n)
  BY DEF IsList
<1>2. Length(h, v) \in 0 .. HeapSize
  BY <1>1 DEF Length
<1>3. QED
  BY <1>2, HeapAssumption

\* The top returns and gives its argv block back, if it has one.
LEMMA FreeingReturns ==
    ASSUME Inv, stack # <<>>, FreeArgv, NEW status, NEW value, Return(status, value)
    PROVE  Inv'
BY Returns DEF FreeArgv

\* The operator's value is protected; a block for the operands, if there are any.
LEMMA OperatorValueKeeps ==
    ASSUME Inv, OperatorValue
    PROVE  Inv'
<1>1. stack # <<>> /\ Top.pc = "head"
  BY DEF OperatorValue, Returned, At
<1>2. /\ Frame(Top) /\ Len(protect) = End(Top) /\ Len(protect) \in Nat /\ raw \in Nat
  BY <1>1, TopIs
<1>3. /\ Sequence(Top.saves) /\ Len(Top.saves) = 1 /\ Top.saves[1] \in Nat
      /\ Top.argc = 0 /\ Top.argv = <<>>
  BY <1>1, <1>2 DEF Frame, Shape
<1>4. Len(protect) = Top.saves[1] + 2
  BY <1>1, <1>2, <1>3, SlotsAreCounted DEF End
<1>5. PICK argc, frame :
        /\ argc = Length(heap, Top.args)
        /\ frame = [Top EXCEPT !.proc = reg.form, !.argc = argc, !.saves = Append(@, Len(protect))]
  OBVIOUS
<1>6. CASE Fail("SYNTAX") /\ UNCHANGED raw
  BY <1>1, <1>3, <1>6, PlainReturns DEF Fail
<1>7. ASSUME argc \in Nat, NEW f, NEW pc \in {"apply", "arg"}, f = [frame EXCEPT !.pc = pc],
             pc = IF argc = 0 THEN "apply" ELSE "arg",
             protect' = Append(protect, reg.form)
      PROVE  /\ Frame(f) /\ f.saves[1] = Top.saves[1]
             /\ Sequence(protect') /\ Len(protect') = End(f) /\ f.argc = argc /\ f.pc = pc
  <2>1. /\ DOMAIN f = Fields
        /\ f.pc = pc /\ f.saves = Append(Top.saves, Len(protect))
        /\ f.argc = argc /\ f.argv = <<>>
    BY <1>2, <1>3, <1>5, <1>7 DEF Frame, Fields
  <2>2. /\ Sequence(f.saves) /\ Len(f.saves) = 2
        /\ f.saves[1] = Top.saves[1] /\ f.saves[2] = Len(protect)
    <3>1. Len(Top.saves) \in 1 .. 3
      BY <1>3
    <3>2. QED
      BY <1>3, <2>1, <3>1, Saved, SMTT(30)
  <2>3. Sequence(<<>>) /\ Len(<<>>) = 0
    BY EmptySeq DEF Sequence
  <2>4. argc # 0 => Sequence(f.argv) /\ Len(f.argv) < f.argc
    <3>1. f.argv = <<>> /\ f.argc = argc
      BY <2>1
    <3>2. QED
      BY <1>7, <2>3, <3>1
  <2>5. Shape(f)
    BY <1>4, <1>7, <2>1, <2>2, <2>4, SMTT(30) DEF Shape
  <2>6. Frame(f)
    BY <1>3, <1>7, <2>1, <2>2, <2>5 DEF Frame
  <2>7. Slots(f) = 3
    <3>1. CASE argc = 0
      <4>1. Slots(f) = 3 + 0
        BY <1>7, <2>1, <2>6, <3>1, SlotsAreCounted
      <4>2. QED
        BY <4>1
    <3>2. CASE argc # 0
      <4>1. Slots(f) = 3 + Len(f.argv) /\ Len(f.argv) = 0
        BY <1>7, <2>1, <2>3, <2>6, <3>2, SlotsAreCounted
      <4>2. QED
        BY <4>1
    <3>3. QED
      BY <3>1, <3>2
  <2>8. End(f) = Len(protect) + 1
    BY <1>3, <1>4, <2>2, <2>7 DEF End
  <2>9. Sequence(protect') /\ Len(protect') = Len(protect) + 1
    BY <1>7, Pushed DEF Inv
  <2>10. QED
    BY <2>1, <2>2, <2>6, <2>8, <2>9
<1>8. CASE /\ IsList(heap, Top.args) /\ argc = 0
           /\ Go([frame EXCEPT !.pc = "apply"])
           /\ protect' = Append(protect, reg.form)
           /\ UNCHANGED raw
  <2>1. PICK f : f = [frame EXCEPT !.pc = "apply"]
    OBVIOUS
  <2>2. /\ Frame(f) /\ f.saves[1] = Top.saves[1]
        /\ Sequence(protect') /\ Len(protect') = End(f) /\ f.argc = argc
    BY <1>7, <1>8, <2>1
  <2>3. raw' = raw - ArgvBlocks(Top) + ArgvBlocks(f)
    BY <1>2, <1>3, <1>8, <2>2 DEF ArgvBlocks
  <2>4. Go(f)
    BY <1>8, <2>1
  <2>5. QED
    BY <1>1, <2>2, <2>3, <2>4, GoKeeps
<1>9. CASE /\ IsList(heap, Top.args) /\ argc # 0
           /\ Call([frame EXCEPT !.pc = "arg"], Car(heap, Top.args), Top.env)
           /\ protect' = Append(protect, reg.form)
           /\ raw' = raw + 1
  <2>1. PICK f, env : f = [frame EXCEPT !.pc = "arg"] /\ env = Top.env
    OBVIOUS
  <2>2. argc \in Nat
    BY <1>5, <1>9, LengthIsNatural
  <2>3. /\ Frame(f) /\ f.saves[1] = Top.saves[1]
        /\ Sequence(protect') /\ Len(protect') = End(f) /\ f.argc = argc /\ f.pc = "arg"
    BY <1>7, <1>9, <2>1, <2>2
  <2>4. raw' = raw - ArgvBlocks(Top) + ArgvBlocks(f)
    BY <1>2, <1>3, <1>9, <2>3 DEF ArgvBlocks
  <2>5. Call(f, Car(heap, Top.args), env)
    BY <1>9, <2>1
  <2>6. QED
    BY <1>1, <2>3, <2>4, <2>5, CallKeeps DEF Waiting
<1>10. QED
  BY <1>5, <1>6, <1>8, <1>9 DEF OperatorValue

\* A frame that keeps its argv block, or still has none, leaves raw alone.
LEMMA SameBlocks ==
    ASSUME Inv, stack # <<>>, NEW f, f.argc = Top.argc, raw' = raw
    PROVE  raw' = raw - ArgvBlocks(Top) + ArgvBlocks(f)
<1>1. raw \in Nat
  BY TopIs
<1>2. ArgvBlocks(f) = ArgvBlocks(Top) /\ ArgvBlocks(f) \in {0, 1}
  BY DEF ArgvBlocks
<1>3. QED
  BY <1>1, <1>2

\* The slots, savepoints and locals of a frame between two steps of a call.
LEMMA CallFrame ==
    ASSUME Inv, stack # <<>>,
           Top.pc \in {"arg", "apply", "cons", "frame", "list", "bind", "push", "rest"}
    PROVE  /\ Frame(Top) /\ DOMAIN Top = Fields /\ Sequence(Top.saves)
           /\ Top.saves[1] \in Nat /\ Top.argc \in Nat /\ Len(protect) \in Nat
           /\ Sequence(protect)
           /\ Top.pc \in {"arg", "apply", "cons", "frame"} => Len(Top.saves) = 2
           /\ Top.pc \in {"list", "bind"} => Len(Top.saves) = 3
           /\ Top.pc \in {"push", "rest"} => Len(Top.saves) = 4
           /\ Top.saves[2] = Top.saves[1] + 2
           /\ Top.pc \in {"list", "bind", "push", "rest"} => Top.saves[3] = Top.saves[1] + 3 + Top.argc
           /\ Top.pc \in {"push", "rest"} => Top.saves[4] = Top.saves[1] + 4 + Top.argc
           /\ Top.pc = "arg" => /\ Sequence(Top.argv) /\ Len(Top.argv) \in Nat
                                /\ Len(Top.argv) < Top.argc
                                /\ Len(protect) = Top.saves[1] + (3 + Len(Top.argv))
           /\ Top.pc \in {"apply", "cons", "frame"} => Len(protect) = Top.saves[1] + (3 + Top.argc)
           /\ Top.pc \in {"list", "bind"} => Len(protect) = Top.saves[1] + (4 + Top.argc)
           /\ Top.pc = "push" => Len(protect) = Top.saves[1] + (5 + Top.argc)
           /\ Top.pc = "rest" => Len(protect) = Top.saves[1] + (6 + Top.argc)
<1>1. Frame(Top) /\ Len(protect) \in Nat /\ Len(protect) = End(Top)
  BY TopIs
<1>2. /\ DOMAIN Top = Fields /\ Sequence(Top.saves)
      /\ Top.saves[1] \in Nat /\ Top.argc \in Nat /\ Shape(Top)
  BY <1>1 DEF Frame
<1>3. /\ Top.pc \in {"arg", "apply", "cons", "frame"} => Len(Top.saves) = 2
      /\ Top.pc \in {"list", "bind"} => Len(Top.saves) = 3
      /\ Top.pc \in {"push", "rest"} => Len(Top.saves) = 4
  BY <1>2 DEF Shape
<1>4. /\ Top.saves[2] = Top.saves[1] + 2
      /\ Top.pc \in {"list", "bind", "push", "rest"} => Top.saves[3] = Top.saves[1] + 3 + Top.argc
      /\ Top.pc \in {"push", "rest"} => Top.saves[4] = Top.saves[1] + 4 + Top.argc
  BY <1>2, <1>3 DEF Shape
<1>5. Top.pc = "arg" => /\ Sequence(Top.argv) /\ Len(Top.argv) \in Nat
                        /\ Len(Top.argv) < Top.argc
  BY <1>2, LenProperties DEF Shape, Sequence
<1>6. Sequence(protect)
  BY DEF Inv
<1>7. /\ Top.pc = "arg" => Len(protect) = Top.saves[1] + (3 + Len(Top.argv))
      /\ Top.pc \in {"apply", "cons", "frame"} => Len(protect) = Top.saves[1] + (3 + Top.argc)
      /\ Top.pc \in {"list", "bind"} => Len(protect) = Top.saves[1] + (4 + Top.argc)
      /\ Top.pc = "push" => Len(protect) = Top.saves[1] + (5 + Top.argc)
      /\ Top.pc = "rest" => Len(protect) = Top.saves[1] + (6 + Top.argc)
  BY <1>1, SlotsAreCounted DEF End
<1>8. QED
  BY <1>1, <1>2, <1>3, <1>4, <1>5, <1>6, <1>7

\* The savepoints of a frame between the evaluation of the operands and the end
\* of the call, and what they make of the slots.
LEMMA CallFits ==
    ASSUME NEW f, DOMAIN f = Fields, NEW sp \in Nat, NEW argc \in Nat, f.argc = argc,
           f.pc \in {"apply", "cons", "frame", "list", "bind", "push", "rest"},
           Sequence(f.saves), f.saves[1] = sp, f.saves[2] = sp + 2,
           f.pc \in {"apply", "cons", "frame"} => Len(f.saves) = 2,
           f.pc \in {"list", "bind"} => Len(f.saves) = 3,
           f.pc \in {"push", "rest"} => Len(f.saves) = 4,
           f.pc \in {"list", "bind", "push", "rest"} => f.saves[3] = sp + 3 + argc,
           f.pc \in {"push", "rest"} => f.saves[4] = sp + 4 + argc
    PROVE  /\ Frame(f)
           /\ f.pc \in {"apply", "cons", "frame"} => End(f) = sp + (3 + argc)
           /\ f.pc \in {"list", "bind"} => End(f) = sp + (4 + argc)
           /\ f.pc = "push" => End(f) = sp + (5 + argc)
           /\ f.pc = "rest" => End(f) = sp + (6 + argc)
<1>1. PICK n : n = Len(f.saves)
  OBVIOUS
<1>2. /\ f.pc \in {"apply", "cons", "frame"} => n = 2
      /\ f.pc \in {"list", "bind"} => n = 3
      /\ f.pc \in {"push", "rest"} => n = 4
  BY <1>1
<1>3. /\ n >= 3 => f.saves[3] = sp + 3 + argc
      /\ n >= 4 => f.saves[4] = sp + 4 + argc
  BY <1>2
<1>4. Shape(f)
  BY <1>1, <1>2, <1>3 DEF Shape
<1>5. Frame(f)
  BY <1>4 DEF Frame
<1>6. QED
  BY <1>5, SlotsAreCounted DEF End

\* The same for the frame of a call whose rest list is being built.
LEMMA RestFits ==
    ASSUME NEW f, DOMAIN f = Fields, NEW sp \in Nat, NEW argc \in Nat, f.argc = argc,
           f.pc \in {"push", "rest"}, Sequence(f.saves), f.saves[1] = sp, f.saves[2] = sp + 2,
           Len(f.saves) = 4, f.saves[3] = sp + 3 + argc, f.saves[4] = sp + 4 + argc
    PROVE  /\ Frame(f)
           /\ f.pc = "push" => End(f) = sp + (5 + argc)
           /\ f.pc = "rest" => End(f) = sp + (6 + argc)
BY CallFits

\* Such a frame takes the place of the top.
LEMMA CallGoes ==
    ASSUME Inv, stack # <<>>, NEW f, Frame(f), f.saves[1] = Top.saves[1],
           f.argc = Top.argc, Go(f), raw' = raw,
           Sequence(protect'), Len(protect') = End(f)
    PROVE  Inv'
BY SameBlocks, GoKeeps

\* An operand is protected; the next one, or the call.
LEMMA OperandKeeps ==
    ASSUME Inv, Operand
    PROVE  Inv'
<1>1. stack # <<>> /\ Top.pc = "arg"
  BY DEF Operand, Returned, At
<1>2. /\ DOMAIN Top = Fields /\ Sequence(Top.saves) /\ Len(Top.saves) = 2
      /\ Top.saves[1] \in Nat /\ Top.argc \in Nat /\ Len(protect) \in Nat /\ Sequence(protect)
      /\ Top.saves[2] = Top.saves[1] + 2
      /\ Sequence(Top.argv) /\ Len(Top.argv) \in Nat /\ Len(Top.argv) < Top.argc
      /\ Len(protect) = Top.saves[1] + (3 + Len(Top.argv))
  BY <1>1, CallFrame
<1>3. PICK frame : frame = [Top EXCEPT !.argv = Append(@, reg.form), !.cur = Cdr(heap, @)]
  OBVIOUS
<1>4. /\ DOMAIN frame = Fields /\ frame.pc = "arg" /\ frame.saves = Top.saves
      /\ frame.argc = Top.argc /\ frame.argv = Append(Top.argv, reg.form)
  BY <1>1, <1>2, <1>3 DEF Fields
<1>5. Sequence(frame.argv) /\ Len(frame.argv) = Len(Top.argv) + 1
  BY <1>2, <1>4, Pushed
<1>6. Sequence(protect') /\ Len(protect') = Len(protect) + 1
  BY <1>2, Pushed DEF Operand
<1>7. raw' = raw
  BY DEF Operand
<1>8. CASE Len(frame.argv) < frame.argc
  <2>1. PICK form, env : Call(frame, form, env)
    BY <1>3, <1>8 DEF Operand
  <2>2. /\ frame.saves[1] \in Nat /\ Sequence(frame.saves) /\ Len(frame.saves) = 2
        /\ frame.saves[2] = frame.saves[1] + 2 /\ frame.argc \in Nat
    BY <1>2, <1>4
  <2>3. Shape(frame)
    BY <1>4, <1>5, <1>8, <2>2 DEF Shape
  <2>4. Frame(frame)
    BY <1>2, <1>4, <2>3 DEF Frame
  <2>5. Slots(frame) = 3 + Len(frame.argv)
    BY <1>4, <2>4, SlotsAreCounted
  <2>6. End(frame) = Len(protect) + 1
    BY <1>2, <1>4, <1>5, <2>5 DEF End
  <2>7. raw' = raw - ArgvBlocks(Top) + ArgvBlocks(frame)
    BY <1>1, <1>4, <1>7, SameBlocks
  <2>8. QED
    BY <1>1, <1>4, <1>6, <2>1, <2>4, <2>6, <2>7, CallKeeps DEF Waiting
<1>9. CASE ~(Len(frame.argv) < frame.argc)
  <2>1. PICK f : f = [frame EXCEPT !.pc = "apply"]
    OBVIOUS
  <2>2. Go(f)
    BY <1>3, <1>9, <2>1 DEF Operand
  <2>3. /\ DOMAIN f = Fields /\ f.pc = "apply" /\ f.saves = Top.saves /\ f.argc = Top.argc
    BY <1>4, <2>1 DEF Fields
  <2>4. PICK sp \in Nat, argc \in Nat : sp = Top.saves[1] /\ argc = Top.argc
    BY <1>2
  <2>5. /\ f.argc = argc /\ Sequence(f.saves) /\ Len(f.saves) = 2
        /\ f.saves[1] = sp /\ f.saves[2] = sp + 2
    BY <1>2, <2>3, <2>4
  <2>6. Frame(f) /\ End(f) = sp + (3 + argc)
    BY <2>3, <2>5, CallFits
  <2>7. argc = Len(Top.argv) + 1
    BY <1>2, <1>4, <1>5, <1>9, <2>4
  <2>8. End(f) = Len(protect) + 1
    <3>1. PICK n \in Nat : n = Len(Top.argv)
      BY <1>2
    <3>2. Len(protect) = sp + (3 + n) /\ argc = n + 1
      BY <1>2, <2>4, <2>7, <3>1
    <3>3. QED
      BY <2>6, <3>2
  <2>9. QED
    BY <1>1, <1>6, <1>7, <2>2, <2>3, <2>4, <2>6, <2>8, CallGoes
<1>10. QED
  BY <1>8, <1>9

\* A step of a call that takes no savepoint and no slot.
LEMMA CallStays ==
    ASSUME Inv, stack # <<>>, NEW f, DOMAIN f = Fields,
           f.saves = Top.saves, f.argc = Top.argc,
           \/ {Top.pc, f.pc} \subseteq {"apply", "cons", "frame"}
           \/ {Top.pc, f.pc} \subseteq {"list", "bind"},
           Go(f), raw' = raw, Sequence(protect'), Len(protect') = Len(protect)
    PROVE  Inv'
<1>1. PICK sp, argc, n : sp = Top.saves[1] /\ argc = Top.argc /\ n = Len(protect)
  OBVIOUS
<1>2. \/ Top.pc \in {"apply", "cons", "frame"} /\ f.pc \in {"apply", "cons", "frame"}
      \/ Top.pc \in {"list", "bind"} /\ f.pc \in {"list", "bind"}
  OBVIOUS
<1>3. /\ Sequence(f.saves) /\ sp \in Nat /\ argc \in Nat
      /\ f.saves[1] = sp /\ f.saves[2] = sp + 2 /\ f.argc = argc
  BY <1>1, <1>2, CallFrame
<1>4. CASE Top.pc \in {"apply", "cons", "frame"} /\ f.pc \in {"apply", "cons", "frame"}
  <2>1. Len(f.saves) = 2 /\ n = sp + (3 + argc)
    BY <1>1, <1>4, CallFrame
  <2>2. f.pc \notin {"list", "bind", "push", "rest"}
    BY <1>4
  <2>3. Frame(f) /\ End(f) = sp + (3 + argc)
    BY <1>3, <1>4, <2>1, <2>2, CallFits
  <2>4. QED
    BY <1>1, <1>3, <2>1, <2>3, CallGoes
<1>5. CASE Top.pc \in {"list", "bind"} /\ f.pc \in {"list", "bind"}
  <2>1. Len(f.saves) = 3 /\ n = sp + (4 + argc) /\ f.saves[3] = sp + 3 + argc
    BY <1>1, <1>5, CallFrame
  <2>2. f.pc \notin {"apply", "cons", "frame", "push", "rest"}
    BY <1>5
  <2>3. Frame(f) /\ End(f) = sp + (4 + argc)
    BY <1>3, <1>5, <2>1, <2>2, CallFits
  <2>4. QED
    BY <1>1, <1>3, <2>1, <2>3, CallGoes
<1>6. QED
  BY <1>2, <1>4, <1>5

\* A step of a call that protects one more value behind a savepoint.
LEMMA CallSaves ==
    ASSUME Inv, stack # <<>>, NEW f, DOMAIN f = Fields,
           f.saves = Append(Top.saves, Len(protect)), f.argc = Top.argc,
           \/ Top.pc \in {"apply", "frame"} /\ f.pc \in {"list", "bind"}
           \/ Top.pc = "bind" /\ f.pc = "push",
           Go(f), raw' = raw, NEW v, protect' = Append(protect, v)
    PROVE  Inv'
<1>1. PICK sp, argc, n : sp = Top.saves[1] /\ argc = Top.argc /\ n = Len(protect)
  OBVIOUS
<1>2. /\ Sequence(Top.saves) /\ sp \in Nat /\ argc \in Nat /\ f.argc = argc /\ n \in Nat
      /\ Top.saves[2] = sp + 2
  BY <1>1, CallFrame
<1>3. Sequence(protect') /\ Len(protect') = n + 1
  BY <1>1, Pushed DEF Inv
<1>4. CASE Top.pc \in {"apply", "frame"} /\ f.pc \in {"list", "bind"}
  <2>1. Len(Top.saves) = 2 /\ n = sp + (3 + argc)
    BY <1>1, <1>4, CallFrame
  <2>2. PICK t : t = Top.saves
    OBVIOUS
  <2>3. /\ Sequence(t) /\ Len(t) = 2 /\ t[1] = sp /\ t[2] = sp + 2
        /\ f.saves = Append(t, n) /\ Len(t) \in 1 .. 3 /\ Len(t) >= 2
    BY <1>1, <1>2, <2>1, <2>2
  <2>4. /\ Sequence(Append(t, n)) /\ Len(Append(t, n)) = 2 + 1
        /\ Append(t, n)[1] = sp /\ Append(t, n)[2] = sp + 2 /\ Append(t, n)[3] = n
    BY <2>3, Saved, Zenon
  <2>5. /\ Sequence(f.saves) /\ Len(f.saves) = 3
        /\ f.saves[1] = sp /\ f.saves[2] = sp + 2 /\ f.saves[3] = n
    BY <2>3, <2>4
  <2>6. f.saves[3] = sp + 3 + argc
    BY <1>2, <2>1, <2>5
  <2>7. f.pc \notin {"apply", "cons", "frame", "push", "rest"}
    BY <1>4
  <2>8. Frame(f) /\ End(f) = sp + (4 + argc)
    BY <1>2, <1>4, <2>5, <2>6, <2>7, CallFits, ZenonT(30)
  <2>9. End(f) = n + 1
    BY <1>2, <2>1, <2>8
  <2>10. QED
    BY <1>1, <1>3, <2>5, <2>8, <2>9, CallGoes
<1>5. CASE Top.pc = "bind" /\ f.pc = "push"
  <2>1. /\ Len(Top.saves) = 3 /\ n = sp + (4 + argc)
        /\ Top.saves[3] = sp + 3 + argc
    BY <1>1, <1>5, CallFrame
  <2>2. PICK t : t = Top.saves
    OBVIOUS
  <2>3. /\ Sequence(t) /\ Len(t) = 3 /\ t[1] = sp /\ t[2] = sp + 2 /\ t[3] = sp + 3 + argc
        /\ f.saves = Append(t, n) /\ Len(t) \in 1 .. 3 /\ Len(t) >= 2 /\ Len(t) >= 3
    <3>1. Sequence(t) /\ t[1] = sp /\ t[2] = sp + 2 /\ f.saves = Append(t, n)
      BY <1>1, <1>2, <2>2, Zenon
    <3>2. Len(t) = 3 /\ t[3] = sp + 3 + argc
      BY <2>1, <2>2, Zenon
    <3>3. Len(t) \in 1 .. 3 /\ Len(t) >= 2 /\ Len(t) >= 3
      BY <3>2
    <3>4. QED
      BY <3>1, <3>2, <3>3, Zenon
  <2>4. /\ Sequence(Append(t, n)) /\ Len(Append(t, n)) = 3 + 1
        /\ Append(t, n)[1] = sp /\ Append(t, n)[2] = sp + 2
        /\ Append(t, n)[3] = sp + 3 + argc /\ Append(t, n)[4] = n
    BY <2>3, Saved, ZenonT(30)
  <2>5. /\ Sequence(f.saves) /\ Len(f.saves) = 4
        /\ f.saves[1] = sp /\ f.saves[2] = sp + 2
        /\ f.saves[3] = sp + 3 + argc /\ f.saves[4] = n
    BY <2>3, <2>4
  <2>6. f.saves[4] = sp + 4 + argc
    BY <1>2, <2>1, <2>5
  <2>7. Frame(f) /\ End(f) = sp + (5 + argc)
    BY <1>2, <1>5, <2>5, <2>6, RestFits, ZenonT(30)
  <2>8. End(f) = n + 1
    BY <1>2, <2>1, <2>7
  <2>9. QED
    BY <1>1, <1>3, <2>5, <2>7, <2>8, CallGoes
<1>6. QED
  BY <1>4, <1>5

\* An error below ends this invocation too.
LEMMA PropagateKeeps ==
    ASSUME Inv, Propagate
    PROVE  Inv'
<1>1. stack # <<>> /\ reg.mode = "return" /\ Fail(reg.status)
  BY DEF Propagate
<1>2. Frame(Top) /\ Top.pc \in Waiting
  BY <1>1, TopIs
<1>3. CASE Top.pc = "arg"
  <2>1. FreeArgv
    BY <1>3 DEF Propagate
  <2>2. QED
    BY <1>1, <2>1, FreeingReturns DEF Fail
<1>4. CASE Top.pc # "arg"
  <2>1. raw' = raw
    BY <1>4 DEF Propagate
  <2>2. Top.argc = 0
    BY <1>2, <1>4 DEF Frame, Shape, Waiting
  <2>3. QED
    BY <1>1, <2>1, <2>2, PlainReturns DEF Fail
<1>5. QED
  BY <1>3, <1>4

\* The steps of a call that end it.
LEMMA CallEnds ==
    ASSUME Inv, PrimCons \/ PrimListDone \/ NotAProcedure
    PROVE  Inv'
<1>1. stack # <<>> /\ FreeArgv
  BY DEF PrimCons, PrimListDone, NotAProcedure, Run, At
<1>2. \E status, value : Return(status, value)
  BY DEF PrimCons, PrimListDone, NotAProcedure, Value, Fail
<1>3. QED
  BY <1>1, <1>2, FreeingReturns

\* A primitive gives its result, or goes on to allocate it.
LEMMA CallPrimitiveKeeps ==
    ASSUME Inv, CallPrimitive
    PROVE  Inv'
<1>1. stack # <<>> /\ Top.pc = "apply"
  BY DEF CallPrimitive, Procedure, Run, At
<1>2. DOMAIN Top = Fields /\ Sequence(protect)
  BY <1>1, CallFrame
<1>3. ASSUME NEW status, NEW value, Return(status, value), FreeArgv
      PROVE  Inv'
  BY <1>1, <1>3, FreeingReturns
<1>4. CASE Go([Top EXCEPT !.pc = "cons"]) /\ UNCHANGED <<protect, raw>>
  <2>1. PICK f : f = [Top EXCEPT !.pc = "cons"]
    OBVIOUS
  <2>2. DOMAIN f = Fields /\ f.pc = "cons" /\ f.saves = Top.saves /\ f.argc = Top.argc
    BY <1>2, <2>1 DEF Fields
  <2>3. Go(f)
    BY <1>4, <2>1
  <2>4. QED
    BY <1>1, <1>2, <1>4, <2>2, <2>3, CallStays
<1>5. CASE /\ Go([Top EXCEPT !.pc = "list", !.cur = Nil, !.saves = Append(@, Len(protect))])
           /\ protect' = Append(protect, Nil)
           /\ UNCHANGED raw
  <2>1. PICK f : f = [Top EXCEPT !.pc = "list", !.cur = Nil, !.saves = Append(@, Len(protect))]
    OBVIOUS
  <2>2. /\ DOMAIN f = Fields /\ f.pc = "list" /\ f.argc = Top.argc
        /\ f.saves = Append(Top.saves, Len(protect))
    BY <1>2, <2>1 DEF Fields
  <2>3. Go(f)
    BY <1>5, <2>1
  <2>4. QED
    BY <1>1, <1>5, <2>2, <2>3, CallSaves
<1>6. QED
  BY <1>3, <1>4, <1>5 DEF CallPrimitive, Fail

\* A cell of the list takes the place of the one before it.
LEMMA PrimListCellKeeps ==
    ASSUME Inv, PrimListCell
    PROVE  Inv'
<1>1. stack # <<>> /\ Top.pc = "list" /\ raw' = raw
  BY DEF PrimListCell, Run, At
<1>2. DOMAIN Top = Fields /\ Sequence(protect)
  BY <1>1, CallFrame
<1>3. PICK cell, f : /\ f = [Top EXCEPT !.cur = cell, !.argv = Front(@)]
                     /\ Go(f)
                     /\ protect' = [protect EXCEPT ![Top.saves[3] + 1] = cell]
  BY DEF PrimListCell
<1>4. DOMAIN f = Fields /\ f.pc = "list" /\ f.saves = Top.saves /\ f.argc = Top.argc
  BY <1>1, <1>2, <1>3 DEF Fields
<1>5. Sequence(protect') /\ Len(protect') = Len(protect)
  <2>1. PICK k : k = Top.saves[3] + 1
    OBVIOUS
  <2>2. Sequence([protect EXCEPT ![k] = cell]) /\ Len([protect EXCEPT ![k] = cell]) = Len(protect)
    BY <1>2, Patched, Zenon
  <2>3. QED
    BY <1>3, <2>1, <2>2
<1>6. QED
  BY <1>1, <1>3, <1>4, <1>5, CallStays

\* A closure takes as many operands, or refuses them.
LEMMA CallClosureKeeps ==
    ASSUME Inv, CallClosure
    PROVE  Inv'
<1>1. stack # <<>> /\ Top.pc = "apply"
  BY DEF CallClosure, Procedure, Run, At
<1>2. DOMAIN Top = Fields /\ Sequence(protect)
  BY <1>1, CallFrame
<1>3. CASE Fail("ARITY") /\ FreeArgv
  BY <1>1, <1>3, FreeingReturns DEF Fail
<1>4. CASE /\ Go([Top EXCEPT !.pc = "frame", !.cur = ClosureParams])
           /\ UNCHANGED <<protect, raw>>
  <2>1. PICK f : f = [Top EXCEPT !.pc = "frame", !.cur = ClosureParams]
    OBVIOUS
  <2>2. DOMAIN f = Fields /\ f.pc = "frame" /\ f.saves = Top.saves /\ f.argc = Top.argc
    BY <1>2, <2>1 DEF Fields
  <2>3. Go(f)
    BY <1>4, <2>1
  <2>4. QED
    BY <1>1, <1>2, <1>4, <2>2, <2>3, CallStays
<1>5. QED
  BY <1>3, <1>4 DEF CallClosure

\* The frame of the call, and the parameters bound in it.
LEMMA BindingKeeps ==
    ASSUME Inv, NewFrame \/ BindParameter \/ BindRest
    PROVE  Inv'
<1>1. /\ stack # <<>> /\ Top.pc \in {"frame", "bind"} /\ raw' = raw
  BY DEF NewFrame, BindParameter, BindRest, Run, At
<1>2. DOMAIN Top = Fields /\ Sequence(protect)
  BY <1>1, CallFrame
<1>3. CASE NewFrame
  <2>1. PICK inner, f :
          /\ f = [Top EXCEPT !.pc = "bind", !.inner = inner, !.saves = Append(@, Len(protect))]
          /\ Go(f)
          /\ protect' = Append(protect, inner)
    BY <1>3 DEF NewFrame
  <2>2. /\ DOMAIN f = Fields /\ f.pc = "bind" /\ f.argc = Top.argc
        /\ f.saves = Append(Top.saves, Len(protect))
    BY <1>2, <2>1 DEF Fields
  <2>3. Top.pc = "frame"
    BY <1>3 DEF NewFrame, Run, At
  <2>4. QED
    BY <1>1, <2>1, <2>2, <2>3, CallSaves
<1>4. CASE BindParameter
  <2>1. PICK f : f = [Top EXCEPT !.cur = Cdr(heap, @), !.argv = Tail(@)] /\ Go(f)
    BY <1>4 DEF BindParameter
  <2>2. Top.pc = "bind" /\ protect' = protect
    BY <1>4 DEF BindParameter, Run, At
  <2>3. DOMAIN f = Fields /\ f.pc = "bind" /\ f.saves = Top.saves /\ f.argc = Top.argc
    BY <1>2, <2>1, <2>2 DEF Fields
  <2>4. QED
    BY <1>1, <1>2, <2>1, <2>2, <2>3, CallStays
<1>5. CASE BindRest
  <2>1. PICK f :
          /\ f = [Top EXCEPT !.pc = "push", !.cur = Nil, !.saves = Append(@, Len(protect))]
          /\ Go(f)
    BY <1>5 DEF BindRest
  <2>2. Top.pc = "bind" /\ protect' = Append(protect, Nil)
    BY <1>5 DEF BindRest, Run, At
  <2>3. /\ DOMAIN f = Fields /\ f.pc = "push" /\ f.argc = Top.argc
        /\ f.saves = Append(Top.saves, Len(protect))
    BY <1>2, <2>1 DEF Fields
  <2>4. QED
    BY <1>1, <2>1, <2>2, <2>3, CallSaves
<1>6. QED
  BY <1>3, <1>4, <1>5

\* The list of the operands that are left over.
LEMMA RestKeeps ==
    ASSUME Inv, RestElement \/ RestCell \/ RestDone
    PROVE  Inv'
<1>1. stack # <<>> /\ Top.pc \in {"push", "rest"} /\ raw' = raw
  BY DEF RestElement, RestCell, RestDone, Run, At
<1>2. PICK sp, argc, n : sp = Top.saves[1] /\ argc = Top.argc /\ n = Len(protect)
  OBVIOUS
<1>3. /\ DOMAIN Top = Fields /\ Sequence(Top.saves) /\ Sequence(protect)
      /\ sp \in Nat /\ argc \in Nat /\ n \in Nat
      /\ Len(Top.saves) = 4 /\ Top.saves[1] = sp /\ Top.saves[2] = sp + 2
      /\ Top.saves[3] = sp + 3 + argc /\ Top.saves[4] = sp + 4 + argc
      /\ Top.pc = "push" => n = sp + (5 + argc)
      /\ Top.pc = "rest" => n = sp + (6 + argc)
  BY <1>1, <1>2, CallFrame
<1>4. ASSUME NEW f, DOMAIN f = Fields, f.pc \in {"push", "rest"}, f.saves = Top.saves, f.argc = Top.argc
      PROVE  /\ Frame(f) /\ f.saves[1] = Top.saves[1]
             /\ f.pc = "push" => End(f) = sp + (5 + argc)
             /\ f.pc = "rest" => End(f) = sp + (6 + argc)
  <2>1. /\ f.argc = argc /\ Sequence(f.saves) /\ Len(f.saves) = 4
        /\ f.saves[1] = sp /\ f.saves[2] = sp + 2
        /\ f.saves[3] = sp + 3 + argc /\ f.saves[4] = sp + 4 + argc
    BY <1>2, <1>3, <1>4
  <2>2. QED
    BY <1>2, <1>3, <1>4, <2>1, RestFits, ZenonT(30)
<1>5. CASE RestElement
  <2>1. PICK f : f = [Top EXCEPT !.pc = "rest"] /\ Go(f)
    BY <1>5 DEF RestElement
  <2>2. DOMAIN f = Fields /\ f.pc = "rest" /\ f.saves = Top.saves /\ f.argc = Top.argc
    BY <1>3, <2>1 DEF Fields
  <2>3. Frame(f) /\ f.saves[1] = Top.saves[1] /\ End(f) = sp + (6 + argc)
    BY <1>4, <2>2
  <2>4. Top.pc = "push" /\ protect' = Append(protect, Last(Top.argv))
    BY <1>5 DEF RestElement, Run, At
  <2>5. Sequence(protect') /\ Len(protect') = n + 1
    BY <1>2, <1>3, <2>4, Pushed
  <2>6. Len(protect') = End(f)
    BY <1>3, <2>3, <2>4, <2>5
  <2>7. QED
    BY <1>1, <2>1, <2>2, <2>3, <2>5, <2>6, CallGoes
<1>6. CASE RestCell
  <2>1. PICK cell, f, fore, k :
          /\ f = [Top EXCEPT !.pc = "push", !.cur = cell, !.argv = Front(@)]
          /\ Go(f)
          /\ fore = Front(protect) /\ k = Top.saves[4] + 1
          /\ protect' = [fore EXCEPT ![k] = cell]
    BY <1>6 DEF RestCell
  <2>2. DOMAIN f = Fields /\ f.pc = "push" /\ f.saves = Top.saves /\ f.argc = Top.argc
    BY <1>3, <2>1 DEF Fields
  <2>3. Frame(f) /\ f.saves[1] = Top.saves[1] /\ End(f) = sp + (5 + argc)
    BY <1>4, <2>2
  <2>4. Top.pc = "rest"
    BY <1>6 DEF RestCell, Run, At
  <2>5. protect # <<>>
    BY <1>2, <1>3, <2>4, EmptySeq
  <2>6. Sequence(fore) /\ Len(fore) = n - 1
    BY <1>2, <1>3, <2>1, <2>5, Popped
  <2>7. Sequence([fore EXCEPT ![k] = cell]) /\ Len([fore EXCEPT ![k] = cell]) = Len(fore)
    BY <2>6, Patched, Zenon
  <2>8. Sequence(protect') /\ Len(protect') = n - 1
    BY <2>1, <2>6, <2>7
  <2>9. Len(protect') = End(f)
    BY <1>3, <2>3, <2>4, <2>8
  <2>10. QED
    BY <1>1, <2>1, <2>2, <2>3, <2>8, <2>9, CallGoes
<1>7. CASE RestDone
  <2>1. PICK f, t : /\ f = [Top EXCEPT !.pc = "bind", !.cur = Nil, !.saves = Front(@)]
                    /\ Go(f)
                    /\ t = Top.saves
    BY <1>7 DEF RestDone
  <2>2. Top.pc = "push" /\ protect' = SubSeq(protect, 1, Top.saves[4])
    BY <1>7 DEF RestDone, Run, At, Kept
  <2>3. DOMAIN f = Fields /\ f.pc = "bind" /\ f.saves = Front(t) /\ f.argc = argc
    BY <1>2, <1>3, <2>1 DEF Fields
  <2>4. Sequence(t) /\ t # <<>> /\ Len(t) = 4
    BY <1>3, <2>1, EmptySeq
  <2>5. /\ Sequence(f.saves) /\ Len(f.saves) = 4 - 1
        /\ \A i \in 1 .. 4 - 1 : f.saves[i] = t[i]
    BY <2>3, <2>4, Popped, ZenonT(30)
  <2>6. f.saves[1] = t[1] /\ f.saves[2] = t[2] /\ f.saves[3] = t[3]
    BY <2>5
  <2>7. /\ f.saves[1] = sp /\ f.saves[2] = sp + 2 /\ f.saves[3] = sp + 3 + argc
        /\ Len(f.saves) = 3
    BY <1>3, <2>1, <2>5, <2>6
  <2>8. f.pc \notin {"apply", "cons", "frame", "push", "rest"} /\ f.pc \in {"list", "bind"}
    BY <2>3
  <2>9. Frame(f) /\ End(f) = sp + (4 + argc)
    BY <1>3, <2>3, <2>5, <2>7, <2>8, CallFits
  <2>10. Sequence(protect') /\ Len(protect') = sp + 4 + argc
    <3>1. PICK m : m = sp + 4 + argc
      OBVIOUS
    <3>2. m \in Nat /\ m <= Len(protect)
      <4>1. n = sp + (5 + argc) /\ sp \in Nat /\ argc \in Nat
        BY <1>3, <2>2
      <4>2. m \in Nat /\ m <= n
        BY <3>1, <4>1
      <4>3. QED
        BY <1>2, <4>2
    <3>3. Top.saves[4] = m
      BY <1>3, <3>1
    <3>4. protect' = SubSeq(protect, 1, m)
      BY <2>2, <3>3
    <3>5. QED
      BY <1>3, <3>1, <3>2, <3>4, Cut
  <2>11. Len(protect') = End(f)
    BY <1>3, <2>9, <2>10
  <2>12. QED
    BY <1>1, <1>2, <2>1, <2>3, <2>7, <2>9, <2>10, <2>11, CallGoes
<1>8. QED
  BY <1>5, <1>6, <1>7

\* The operands lose their slots and their block before the body begins.
LEMMA BoundKeeps ==
    ASSUME Inv, Bound
    PROVE  Inv'
<1>1. /\ stack # <<>> /\ Top.pc = "bind" /\ FreeArgv
      /\ protect' = SubSeq(protect, 1, Top.saves[3] - Top.argc)
  BY DEF Bound, Run, At, Kept
<1>2. PICK sp, argc, n, t : /\ sp = Top.saves[1] /\ argc = Top.argc /\ n = Len(protect)
                            /\ t = Top.saves
  OBVIOUS
<1>3. /\ DOMAIN Top = Fields /\ Sequence(t) /\ Sequence(protect)
      /\ sp \in Nat /\ argc \in Nat /\ n \in Nat
      /\ Len(t) = 3 /\ t[1] = sp /\ t[2] = sp + 2 /\ t[3] = sp + 3 + argc
      /\ n = sp + (4 + argc)
  BY <1>1, <1>2, CallFrame
<1>4. PICK f : /\ f = [Top EXCEPT !.pc = "body", !.args = Nil, !.argc = 0, !.saves = SubSeq(@, 1, 2)]
               /\ Go(f)
  BY DEF Bound
<1>5. DOMAIN f = Fields /\ f.pc = "body" /\ f.saves = SubSeq(t, 1, 2) /\ f.argc = 0
  BY <1>2, <1>3, <1>4 DEF Fields
<1>6. /\ Sequence(f.saves) /\ Len(f.saves) = 2
      /\ \A i \in 1 .. 2 : f.saves[i] = t[i]
  <2>1. 2 \in Nat /\ 2 <= Len(t)
    BY <1>3
  <2>2. /\ Sequence(SubSeq(t, 1, 2)) /\ Len(SubSeq(t, 1, 2)) = 2
        /\ \A i \in 1 .. 2 : SubSeq(t, 1, 2)[i] = t[i]
    BY <1>3, <2>1, Cut, Zenon
  <2>3. QED
    BY <1>5, <2>2
<1>7. f.saves[1] = sp /\ f.saves[2] = sp + 2
  <2>1. 1 \in 1 .. 2 /\ 2 \in 1 .. 2
    OBVIOUS
  <2>2. QED
    BY <1>3, <1>6, <2>1
<1>8. Frame(f)
  <2>1. Shape(f)
    BY <1>5, <1>6, <1>7 DEF Shape
  <2>2. QED
    BY <1>3, <1>5, <1>6, <1>7, <2>1 DEF Frame
<1>9. End(f) = sp + 3
  BY <1>5, <1>7, <1>8, SlotsAreCounted DEF End
<1>10. Sequence(protect') /\ Len(protect') = sp + 3
  <2>1. PICK m : m = sp + 3
    OBVIOUS
  <2>2. m \in Nat /\ m <= Len(protect)
    BY <1>2, <1>3, <2>1
  <2>3. Top.saves[3] - Top.argc = m
    BY <1>2, <1>3, <2>1
  <2>4. protect' = SubSeq(protect, 1, m)
    BY <1>1, <2>3
  <2>5. QED
    BY <1>3, <2>1, <2>2, <2>4, Cut
<1>11. raw' = raw - ArgvBlocks(Top) + ArgvBlocks(f)
  <2>1. ArgvBlocks(f) = 0 /\ ArgvBlocks(Top) \in {0, 1}
    BY <1>5 DEF ArgvBlocks
  <2>2. raw \in Nat /\ raw' = raw - ArgvBlocks(Top)
    BY <1>1, TopIs DEF FreeArgv
  <2>3. QED
    BY <2>1, <2>2
<1>12. QED
  BY <1>1, <1>2, <1>4, <1>7, <1>8, <1>9, <1>10, <1>11, GoKeeps

\* Memory runs out: whatever the invocation had is given back.
LEMMA OutOfMemoryKeeps ==
    ASSUME Inv, OutOfMemory
    PROVE  Inv'
<1>1. Fail("NOMEM") /\ reg.mode \in {"run", "return"}
  BY DEF OutOfMemory
<1>2. stack # <<>>
  BY DEF OutOfMemory, Inv, Control
<1>3. Frame(Top)
  BY <1>2, TopIs
<1>4. CASE Top.pc \in {"cons", "list", "frame", "bind", "push", "rest", "arg"}
  <2>1. FreeArgv
    BY <1>4 DEF OutOfMemory
  <2>2. QED
    BY <1>1, <1>2, <2>1, FreeingReturns DEF Fail
<1>5. CASE Top.pc \notin {"cons", "list", "frame", "bind", "push", "rest", "arg"}
  <2>1. raw' = raw
    BY <1>5 DEF OutOfMemory
  <2>2. Top.pc \in {"let", "closure", "head", "define", "set!", "init"}
    BY <1>5 DEF OutOfMemory, Allocating, Protecting
  <2>3. Top.argc = 0
    BY <1>3, <2>2 DEF Frame, Shape
  <2>4. QED
    BY <1>1, <1>2, <2>1, <2>3, PlainReturns DEF Fail
<1>6. QED
  BY <1>4, <1>5

-----------------------------------------------------------------------------
(***************************************************************************)
(* Below all invocations: microlisp_eval.                                  *)
(***************************************************************************)

\* The protect stack of an interpreter in which no invocation is in progress.
LEMMA Outermost ==
    ASSUME Inv, stack' = <<>>, eval_depth' = 0, raw' = 0,
           reg'.mode \in {"idle", "call", "return"},
           Sequence(protect'), Len(protect') = IF reg'.mode = "idle" THEN 0 ELSE 1
    PROVE  Inv'
<1>1. Sequence(<<>>) /\ Len(<<>>) = 0
  BY EmptySeq DEF Sequence
<1>2. \A i \in 1 .. Len(stack') : FALSE
  BY <1>1
<1>3. \A i \in 1 .. Len(stack') - 1 : FALSE
  BY <1>1
<1>4. Holders(stack') = 0
  <2>1. {i \in DOMAIN stack' : stack'[i].argc # 0} = {}
    OBVIOUS
  <2>2. QED
    BY <2>1, FS_EmptySet DEF Holders
<1>5. Control'
  BY <1>3 DEF Control
<1>6. Layout'
  BY DEF Layout
<1>7. eval_depth' = Len(stack') /\ eval_depth' <= MaxEvalDepth
  BY <1>1, EvalAssumption
<1>8. QED
  BY <1>1, <1>2, <1>4, <1>5, <1>6, <1>7 DEF Inv

\* With no invocation in progress nothing is counted.
LEMMA NothingHeld ==
    ASSUME Inv, stack = <<>>
    PROVE  eval_depth = 0 /\ raw = 0
<1>1. {i \in DOMAIN stack : stack[i].argc # 0} = {} /\ Len(stack) = 0
  BY EmptySeq
<1>2. QED
  BY <1>1, FS_EmptySet DEF Inv, Holders

\* The steps of microlisp_eval.
LEMMA DriverKeeps ==
    ASSUME Inv, ReadForm \/ FormEvaluated \/ EndOfSource \/ ReadFails
    PROVE  Inv'
<1>1. stack = <<>> /\ eval_depth = 0 /\ raw = 0
  BY NothingHeld DEF ReadForm, FormEvaluated, EndOfSource, ReadFails, Inv, Control
<1>2. stack' = <<>> /\ eval_depth' = 0 /\ raw' = 0
  BY <1>1 DEF ReadForm, FormEvaluated, EndOfSource, ReadFails, Finish
<1>3. Sequence(protect) /\ Len(protect) = IF reg.mode = "idle" THEN 0 ELSE 1
  BY <1>1 DEF Inv, Layout
<1>4. CASE ReadForm
  <2>1. PICK v : protect' = Append(protect, v) /\ reg'.mode = "call" /\ reg.mode = "idle"
    BY <1>4 DEF ReadForm
  <2>2. Sequence(protect') /\ Len(protect') = Len(protect) + 1
    BY <1>3, <2>1, Pushed
  <2>3. Len(protect') = 1
    BY <1>3, <2>1, <2>2
  <2>4. QED
    BY <1>2, <2>1, <2>2, <2>3, Outermost
<1>5. CASE FormEvaluated
  <2>1. protect' = <<>> /\ reg'.mode = "idle"
    BY <1>5 DEF FormEvaluated, Finish, Idle, Running
  <2>2. Sequence(protect') /\ Len(protect') = 0
    BY <2>1, EmptySeq DEF Sequence
  <2>3. QED
    BY <1>2, <2>1, <2>2, Outermost
<1>6. CASE EndOfSource \/ ReadFails
  <2>1. protect' = protect /\ reg.mode = "idle" /\ reg'.mode = "idle"
    BY <1>6 DEF EndOfSource, ReadFails, Finish, Idle, Running
  <2>2. QED
    BY <1>2, <1>3, <2>1, Outermost
<1>7. QED
  BY <1>4, <1>5, <1>6

\* A step that moves no invocation: a collection, a refused call, a stutter.
LEMMA Unmoved ==
    ASSUME Inv, UNCHANGED <<stack, protect, eval_depth, raw>>,
           \/ reg' = reg
           \/ reg.mode = "call" /\ reg'.mode = "return"
    PROVE  Inv'
BY DEF Inv, Control, Layout

\* The interpreter as the program finds it.
LEMMA Initially == Init => Inv
<1> SUFFICES ASSUME Init PROVE Inv
  OBVIOUS
<1>1. /\ stack = <<>> /\ protect = <<>> /\ eval_depth = 0 /\ raw = 0 /\ reg.mode = "idle"
  BY DEF Init, Idle, Running
<1>2. Sequence(<<>>) /\ Len(<<>>) = 0
  BY EmptySeq DEF Sequence
<1>3. \A i \in 1 .. Len(stack) : FALSE
  BY <1>1, <1>2
<1>4. \A i \in 1 .. Len(stack) - 1 : FALSE
  BY <1>1, <1>2
<1>5. Holders(stack) = 0
  <2>1. {i \in DOMAIN stack : stack[i].argc # 0} = {}
    BY <1>1
  <2>2. QED
    BY <2>1, FS_EmptySet DEF Holders
<1>6. Control /\ Layout
  BY <1>1, <1>2, <1>4 DEF Control, Layout
<1>7. QED
  BY <1>1, <1>2, <1>3, <1>5, <1>6, EvalAssumption DEF Inv

-----------------------------------------------------------------------------
(***************************************************************************)
(* The theorems.                                                           *)
(***************************************************************************)

\* Every step keeps the invariant.
LEMMA StepsKeepInv ==
    ASSUME Inv, [Next]_vars
    PROVE  Inv'
<1>1. CASE ReadForm \/ FormEvaluated \/ EndOfSource \/ ReadFails
  BY <1>1, DriverKeeps
<1>2. CASE Enter
  BY <1>2, Begins
<1>3. CASE EnterFails \/ Collect \/ UNCHANGED vars
  BY <1>3, Unmoved DEF EnterFails, Collect, vars
<1>4. CASE \/ Atom \/ Variable \/ Quote \/ If \/ Begin \/ Lambda \/ DefineForm \/ SetBang
           \/ Let \/ AndOr \/ Cond \/ Operator
  BY <1>4, LoopKeeps
<1>5. CASE \/ IfChosen \/ SeqNext \/ MakeClosure \/ DefineValue \/ SetValue \/ LetFrame
           \/ LetInit \/ LetBound \/ ChainNext \/ CondNext \/ Body
  BY <1>5, FormKeeps
<1>6. CASE OperatorValue \/ Operand
  BY <1>6, OperatorValueKeeps, OperandKeeps
<1>7. CASE Propagate \/ OutOfMemory
  BY <1>7, PropagateKeeps, OutOfMemoryKeeps
<1>8. CASE CallPrimitive \/ PrimCons \/ PrimListCell \/ PrimListDone \/ NotAProcedure
  BY <1>8, CallPrimitiveKeeps, CallEnds, PrimListCellKeeps
<1>9. CASE CallClosure \/ NewFrame \/ BindParameter \/ BindRest
  BY <1>9, CallClosureKeeps, BindingKeeps
<1>10. CASE RestElement \/ RestCell \/ RestDone \/ Bound
  BY <1>10, RestKeeps, BoundKeeps
<1>11. QED
  BY <1>1, <1>2, <1>3, <1>4, <1>5, <1>6, <1>7, <1>8, <1>9, <1>10, Zenon DEF Next, Evaluate

\* The invariant holds of every program's run, under every limit and reader.
LEMMA Invariant == Spec => []Inv
<1>1. Init => Inv
  BY Initially
<1>2. Inv /\ [Next]_vars => Inv'
  BY StepsKeepInv
<1>3. QED
  BY <1>1, <1>2, PTL DEF Spec

\* eval_depth counts the invocations in progress: ml_eval's entry and every one
\* of its exits, tail calls, errors and exhausted memory included, agree.
THEOREM EvalDepthIsExact == Spec => []DepthExact
<1>1. Inv => DepthExact
  BY DEF Inv, DepthExact
<1>2. QED
  BY <1>1, Invariant, PTL

\* The check at the entry of ml_eval is enough for the C stack: there are never
\* more invocations than max_eval_depth.
THEOREM EvalDepthIsBounded == Spec => [](Len(stack) \in 0 .. MaxEvalDepth)
<1>1. Inv => Len(stack) \in 0 .. MaxEvalDepth
  <2>1. Inv => Len(stack) \in Nat /\ Len(stack) <= MaxEvalDepth
    BY LenProperties DEF Inv, Sequence
  <2>2. QED
    BY <2>1, EvalAssumption
<1>2. QED
  BY <1>1, Invariant, PTL

\* The protect stack is the slots of the invocations in progress, whatever the
\* path of each: none leaves a slot behind or takes one of its caller's.
THEOREM EvalKeepsItsSlots == Spec => []ProtectLayout
<1>1. ASSUME Inv
      PROVE  ProtectLayout
  <2> DEFINE sp(i) == IF i = 0 THEN 0 ELSE stack[i].saves[1]
             slots(i) == IF i = 0 THEN IF reg.mode = "idle" THEN 0 ELSE 1 ELSE Slots(stack[i])
  <2> SUFFICES ASSUME NEW i \in 0 .. Len(stack)
               PROVE  sp(i) + slots(i) = IF i = Len(stack) THEN Len(protect) ELSE sp(i + 1)
    BY DEF ProtectLayout
  <2>1. Len(stack) \in Nat /\ Len(protect) \in Nat
    BY <1>1, LenProperties DEF Inv, Sequence
  <2>2. Control /\ Layout
    BY <1>1 DEF Inv
  <2>3. CASE stack = <<>>
    <3>1. Len(stack) = 0 /\ i = 0
      BY <2>1, <2>3, EmptySeq
    <3>2. QED
      BY <2>1, <2>2, <2>3, <3>1 DEF Layout
  <2>4. CASE stack # <<>>
    <3>1. Len(stack) \in Nat \ {0}
      BY <1>1, <2>4, TopIs
    <3>2. /\ stack[1].saves[1] = 1
          /\ \A j \in 1 .. Len(stack) - 1 : End(stack[j]) = stack[j + 1].saves[1]
          /\ End(stack[Len(stack)]) = Len(protect)
      BY <2>2, <2>4 DEF Layout
    <3>3. CASE i = 0
      <4>1. reg.mode # "idle" /\ i # Len(stack) /\ i + 1 = 1
        BY <2>2, <2>4, <3>1, <3>3 DEF Control
      <4>2. sp(i) = 0 /\ slots(i) = 1 /\ sp(1) = 1
        BY <3>2, <3>3, <4>1
      <4>3. QED
        BY <4>1, <4>2
    <3>4. CASE i # 0 /\ i = Len(stack)
      BY <3>2, <3>4 DEF End
    <3>5. CASE i # 0 /\ i # Len(stack)
      <4>1. i \in 1 .. Len(stack) - 1 /\ i + 1 # 0
        BY <3>1, <3>5
      <4>2. End(stack[i]) = stack[i + 1].saves[1]
        BY <3>2, <4>1
      <4>3. QED
        BY <3>5, <4>1, <4>2 DEF End
    <3>6. QED
      BY <3>3, <3>4, <3>5
  <2>5. QED
    BY <2>3, <2>4
<1>2. QED
  BY <1>1, Invariant, PTL

\* An argv block lives from eval_arg_list to the end of the call it is for: no
\* path of a primitive, of a closure or of an error leaks it or frees it twice.
THEOREM EvalFreesArgv == Spec => []ArgvExact
<1>1. ASSUME Inv
      PROVE  ArgvExact
  <2>1. DOMAIN stack = 1 .. Len(stack)
    BY <1>1, LenProperties DEF Inv, Sequence
  <2>2. ASSUME NEW i \in DOMAIN stack, stack[i].argc # 0
        PROVE  stack[i].pc \in {"arg", "apply", "cons", "list", "frame", "bind", "push", "rest"}
    <3>1. Frame(stack[i])
      BY <1>1, <2>1 DEF Inv
    <3>2. QED
      BY <2>2, <3>1 DEF Frame, Shape
  <2>3. {i \in DOMAIN stack : stack[i].argc # 0}
            = {i \in DOMAIN stack :
                  /\ stack[i].pc \in {"arg", "apply", "cons", "list", "frame",
                                      "bind", "push", "rest"}
                  /\ stack[i].argc # 0}
    BY <2>2
  <2>4. QED
    BY <1>1, <2>3 DEF Inv, Holders, ArgvExact
<1>2. QED
  BY <1>1, Invariant, PTL

\* A tail call takes no slot: however many there were, the invocation is back
\* to the two slots it began with.
THEOREM TailCallsKeepTwoSlots == Spec => []TailCallsTakeNoSlots
<1>1. ASSUME Inv
      PROVE  TailCallsTakeNoSlots
  <2> SUFFICES ASSUME Run("loop")
               PROVE  Len(protect) = Top.saves[1] + 2
    BY DEF TailCallsTakeNoSlots
  <2>1. stack # <<>> /\ Top.pc = "loop"
    BY DEF Run, At
  <2>2. Frame(Top) /\ Len(protect) = End(Top)
    BY <1>1, <2>1, TopIs
  <2>3. QED
    BY <2>1, <2>2, SlotsAreCounted DEF End
<1>2. QED
  BY <1>1, Invariant, PTL

-----------------------------------------------------------------------------
(***************************************************************************)
(* Heaps.                                                                  *)
(***************************************************************************)

\* What the cell at a refers to.
RefsOf(h, a) == Addresses(Range(h[a].refs))

\* A heap whose references are addresses.
IsHeap(h) == \A a \in Addr : RefsOf(h, a) \subseteq Addr

\* No reference leaves the set.
Closed(h, set) == \A a \in set : RefsOf(h, a) \subseteq set

\* The cells in use, and the values that name one if they name a cell.
InUse(h) == {a \in Addr : h[a].kind # "FREE"}
Within(set, v) == IsObj(v) => v[2] \in set
Good(h, v) == Within(InUse(h), v)

\* What a cell is: its kind says how many references it has and, where the
\* evaluator relies on it, what they refer to.
CellOK(h, c) ==
    /\ DOMAIN c = {"kind", "refs", "names"} /\ Sequence(c.refs) /\ Sequence(c.names)
    /\ \A i \in 1 .. Len(c.refs) : Good(h, c.refs[i])
    /\ \/ c.kind \in {"FREE", "STRING"} /\ Len(c.refs) = 0
       \/ c.kind = "PRIM" /\ Len(c.refs) = 0 /\ c.names[1] \in Range(Primitives)
       \/ c.kind = "PAIR" /\ Len(c.refs) = 2 /\ \E n \in Nat : Spans(h, c.refs[2], n)
       \/ c.kind = "CLOSURE" /\ Len(c.refs) = 3 /\ IsA(h, c.refs[3], "ENV")
       \/ /\ c.kind = "ENV" /\ Len(c.refs) = 1 + Len(c.names)
          /\ c.refs[1] = Nil \/ IsA(h, c.refs[1], "ENV")

\* No environment is outside itself.
Nested(h) ==
    \E depth \in [Addr -> Nat] : \A a \in Addr :
        h[a].kind = "ENV" /\ IsObj(h[a].refs[1]) => depth[h[a].refs[1][2]] < depth[a]

GoodHeap(h) ==
    /\ DOMAIN h = Addr
    /\ \A a \in Addr : CellOK(h, h[a])
    /\ Nested(h)

\* What is found in a root, or in the pairs and the closures that it leads to
\* without passing through an environment: those never change.
Fixed(h, set) == \A a \in set : h[a].kind # "ENV" => RefsOf(h, a) \subseteq set
Under(h, root, v) ==
    IsObj(v) => /\ IsObj(root)
                /\ \A set \in SUBSET Addr : root[2] \in set /\ Fixed(h, set) => v[2] \in set

\* The heap g has the cells of h that are in the set: the same ones, but for
\* the bindings of environments.
Keeps(h, g, set) ==
    /\ set \in SUBSET InUse(h) /\ Closed(h, set)
    /\ \A a \in set : g[a].kind = h[a].kind /\ (h[a].kind # "ENV" => g[a] = h[a])

-----------------------------------------------------------------------------
\* The references of a sequence are those of its elements.
LEMMA AddressesAre ==
    ASSUME NEW s, Sequence(s)
    PROVE  /\ Len(s) \in Nat
           /\ \A b : b \in Addresses(Range(s)) <=> \E i \in 1 .. Len(s) : IsObj(s[i]) /\ s[i][2] = b
<1>1. Len(s) \in Nat /\ DOMAIN s = 1 .. Len(s)
  BY LenProperties DEF Sequence
<1>2. Range(s) = {s[i] : i \in 1 .. Len(s)}
  BY <1>1 DEF Range
<1> QED
  BY <1>1, <1>2 DEF Addresses

\* The cells in use refer to cells in use only.
LEMMA UseIsClosed ==
    ASSUME NEW h, GoodHeap(h)
    PROVE  /\ InUse(h) \in SUBSET Addr /\ Closed(h, InUse(h)) /\ IsHeap(h)
           /\ \A a \in Addr : RefsOf(h, a) \subseteq InUse(h)
<1>1. ASSUME NEW a \in Addr PROVE RefsOf(h, a) \subseteq InUse(h)
  <2>1. Sequence(h[a].refs) /\ \A i \in 1 .. Len(h[a].refs) : Good(h, h[a].refs[i])
    BY DEF GoodHeap, CellOK
  <2>2. \A b : b \in RefsOf(h, a) => \E i \in 1 .. Len(h[a].refs) : IsObj(h[a].refs[i]) /\ h[a].refs[i][2] = b
    BY <2>1, AddressesAre DEF RefsOf
  <2> QED BY <2>1, <2>2 DEF Good, Within
<1> QED
  BY <1>1 DEF InUse, Closed, IsHeap

\* The two halves of a pair.
LEMMA PairHas ==
    ASSUME NEW h, GoodHeap(h), NEW v, IsPair(h, v), Good(h, v)
    PROVE  /\ v[2] \in Addr /\ h[v[2]].kind = "PAIR"
           /\ Good(h, Car(h, v)) /\ Good(h, Cdr(h, v))
           /\ IsObj(Car(h, v)) => Car(h, v)[2] \in RefsOf(h, v[2])
           /\ IsObj(Cdr(h, v)) => Cdr(h, v)[2] \in RefsOf(h, v[2])
           /\ \E n \in Nat : Spans(h, Cdr(h, v), n)
<1>1. v[2] \in Addr /\ h[v[2]].kind = "PAIR"
  BY DEF IsPair, IsA, Good, Within, InUse
<1>2. PICK c : c = h[v[2]]
  OBVIOUS
<1>3. CellOK(h, c) /\ c.kind = "PAIR"
  BY <1>1, <1>2 DEF GoodHeap
<1>4. /\ Sequence(c.refs) /\ Len(c.refs) = 2 /\ \E n \in Nat : Spans(h, c.refs[2], n)
      /\ \A i \in 1 .. 2 : Good(h, c.refs[i])
  BY <1>3 DEF CellOK
<1>5. Good(h, c.refs[1]) /\ Good(h, c.refs[2])
  BY <1>4
<1>6. \A b : b \in RefsOf(h, v[2]) <=> \E i \in 1 .. 2 : IsObj(c.refs[i]) /\ c.refs[i][2] = b
  BY <1>2, <1>4, AddressesAre DEF RefsOf
<1>7. Car(h, v) = c.refs[1] /\ Cdr(h, v) = c.refs[2]
  BY <1>2 DEF Car, Cdr
<1> QED
  BY <1>1, <1>4, <1>5, <1>6, <1>7

-----------------------------------------------------------------------------
(***************************************************************************)
(* What is under a root.                                                   *)
(***************************************************************************)

\* A root is under itself; a value that is no cell is under everything.
LEMMA UnderItself ==
    ASSUME NEW h, NEW v
    PROVE  Under(h, v, v) /\ \A w : ~IsObj(w) => Under(h, v, w)
BY DEF Under

\* What is under a good root is good.
LEMMA UnderIsGood ==
    ASSUME NEW h, GoodHeap(h), NEW root, Good(h, root), NEW v, Under(h, root, v)
    PROVE  Good(h, v)
<1>1. InUse(h) \in SUBSET Addr /\ Fixed(h, InUse(h))
  BY UseIsClosed DEF Closed, Fixed
<1> QED
  BY <1>1 DEF Under, Good, Within

\* The halves of a pair are under what the pair is under.
LEMMA UnderPair ==
    ASSUME NEW h, GoodHeap(h), NEW root, NEW v, Under(h, root, v), IsPair(h, v), Good(h, v)
    PROVE  Under(h, root, Car(h, v)) /\ Under(h, root, Cdr(h, v))
<1>1. /\ IsObj(v) /\ h[v[2]].kind = "PAIR"
      /\ IsObj(Car(h, v)) => Car(h, v)[2] \in RefsOf(h, v[2])
      /\ IsObj(Cdr(h, v)) => Cdr(h, v)[2] \in RefsOf(h, v[2])
  BY PairHas DEF IsPair, IsA
<1>2. \A set \in SUBSET Addr : v[2] \in set /\ Fixed(h, set) => RefsOf(h, v[2]) \subseteq set
  BY <1>1 DEF Fixed
<1> QED
  BY <1>1, <1>2 DEF Under

\* The parameters and the body of a closure are under it.
LEMMA UnderClosure ==
    ASSUME NEW h, GoodHeap(h), NEW v, IsA(h, v, "CLOSURE"), Good(h, v)
    PROVE  /\ v[2] \in Addr
           /\ Under(h, v, h[v[2]].refs[1]) /\ Under(h, v, h[v[2]].refs[2])
           /\ Good(h, h[v[2]].refs[1]) /\ Good(h, h[v[2]].refs[2]) /\ Good(h, h[v[2]].refs[3])
           /\ IsA(h, h[v[2]].refs[3], "ENV")
<1>1. IsObj(v) /\ v[2] \in Addr /\ h[v[2]].kind = "CLOSURE"
  BY DEF IsA, Good, Within, InUse
<1>2. PICK c : c = h[v[2]]
  OBVIOUS
<1>3. CellOK(h, c) /\ c.kind = "CLOSURE"
  BY <1>1, <1>2 DEF GoodHeap
<1>4. /\ Sequence(c.refs) /\ Len(c.refs) = 3 /\ IsA(h, c.refs[3], "ENV")
      /\ \A i \in 1 .. 3 : Good(h, c.refs[i])
  BY <1>3 DEF CellOK
<1>5. Good(h, c.refs[1]) /\ Good(h, c.refs[2]) /\ Good(h, c.refs[3])
  BY <1>4
<1>6. \A b : b \in RefsOf(h, v[2]) <=> \E i \in 1 .. 3 : IsObj(c.refs[i]) /\ c.refs[i][2] = b
  <2>1. RefsOf(h, v[2]) = Addresses(Range(c.refs))
    BY <1>2 DEF RefsOf
  <2>2. \A b : b \in Addresses(Range(c.refs)) <=>
                \E i \in 1 .. Len(c.refs) : IsObj(c.refs[i]) /\ c.refs[i][2] = b
    BY <1>4, AddressesAre
  <2> QED BY <1>4, <2>1, <2>2
<1>7. \A i \in {1, 2} : IsObj(c.refs[i]) => c.refs[i][2] \in RefsOf(h, v[2])
  BY <1>6
<1>8. \A set \in SUBSET Addr : v[2] \in set /\ Fixed(h, set) => RefsOf(h, v[2]) \subseteq set
  BY <1>1 DEF Fixed
<1>9. Under(h, v, c.refs[1]) /\ Under(h, v, c.refs[2])
  BY <1>1, <1>7, <1>8 DEF Under
<1> QED
  BY <1>1, <1>2, <1>4, <1>5, <1>9

-----------------------------------------------------------------------------
(***************************************************************************)
(* Lists.                                                                  *)
(***************************************************************************)

\* One element further.
Beyond(h, v) == IF IsPair(h, v) THEN Cdr(h, v) ELSE v

\* Behind obeys its recursion, and goes on from one number to the next.
LEMMA BehindUnfolds ==
    ASSUME NEW h, NEW v
    PROVE  /\ Behind(h, v, 0) = v
           /\ \A n \in Nat : Behind(h, v, n + 1) = Beyond(h, Behind(h, v, n))
<1> DEFINE Tails(f, n) == f = [k \in 0 .. n |-> IF k = 0 THEN v ELSE Beyond(h, f[k - 1])]
           tail(n) == CHOOSE f : Tails(f, n)
<1>1. ASSUME NEW n \in Nat PROVE \E f : Tails(f, n)
  <2> DEFINE set == {m \in 0 .. n : \E f : Tails(f, m)}
  <2>1. 0 \in set
    <3>1. Tails([k \in 0 .. 0 |-> v], 0)
      OBVIOUS
    <3> HIDE DEF Tails
    <3> QED BY <3>1
  <2>2. ASSUME NEW m \in 1 .. n, m - 1 \in set PROVE m \in set
    <3>1. PICK f : Tails(f, m - 1)
      BY <2>2
    <3>2. DOMAIN f = 0 .. m - 1 /\ \A k \in 0 .. m - 1 : f[k] = IF k = 0 THEN v ELSE Beyond(h, f[k - 1])
      BY <3>1
    <3> DEFINE g == [k \in 0 .. m |-> IF k = m THEN Beyond(h, f[m - 1]) ELSE f[k]]
    <3>3. \A k \in 0 .. m : g[k] = IF k = 0 THEN v ELSE Beyond(h, g[k - 1])
      <4> SUFFICES ASSUME NEW k \in 0 .. m PROVE g[k] = IF k = 0 THEN v ELSE Beyond(h, g[k - 1])
        OBVIOUS
      <4>1. k # 0 => g[k - 1] = f[k - 1]
        OBVIOUS
      <4>2. CASE k = m
        <5>1. g[k] = Beyond(h, f[m - 1])
          BY <4>2
        <5> HIDE DEF g
        <5> QED BY <4>1, <4>2, <5>1
      <4>3. CASE k # m
        <5>1. k \in 0 .. m - 1 /\ g[k] = f[k]
          BY <4>3
        <5> HIDE DEF g
        <5> QED BY <3>2, <4>1, <5>1
      <4> QED BY <4>2, <4>3
    <3>4. DOMAIN g = 0 .. m /\ g = [k \in 0 .. m |-> g[k]]
      OBVIOUS
    <3> HIDE DEF g
    <3>5. Tails(g, m)
      BY <3>3, <3>4
    <3> HIDE DEF Tails
    <3> QED BY <3>5
  <2> HIDE DEF set
  <2>3. \A m \in 0 .. n : m \in set
    BY <2>1, <2>2, UpTo
  <2>4. n \in set
    BY <2>3
  <2> QED BY <2>4 DEF set
<1>2. ASSUME NEW n \in Nat
      PROVE  \A k \in 0 .. n : tail(n)[k] = IF k = 0 THEN v ELSE Beyond(h, tail(n)[k - 1])
  <2>1. Tails(tail(n), n)
    <3> HIDE DEF Tails
    <3> QED BY <1>1
  <2> QED BY <2>1
<1>3. \A n : Behind(h, v, n) = tail(n)[n]
  BY DEF Behind, Beyond
<1> HIDE DEF tail
<1>4. ASSUME NEW n \in Nat PROVE \A k \in 0 .. n : tail(n + 1)[k] = tail(n)[k]
  <2> DEFINE set == {k \in 0 .. n : tail(n + 1)[k] = tail(n)[k]}
  <2>1. 0 \in set
    <3>1. tail(n + 1)[0] = v /\ tail(n)[0] = v
      BY <1>2
    <3> QED BY <3>1
  <2>2. ASSUME NEW k \in 1 .. n, k - 1 \in set PROVE k \in set
    <3>1. tail(n)[k] = Beyond(h, tail(n)[k - 1])
      BY <1>2
    <3>2. tail(n + 1)[k] = Beyond(h, tail(n + 1)[k - 1])
      <4>1. k \in 0 .. n + 1 /\ k # 0
        OBVIOUS
      <4> QED BY <1>2, <4>1
    <3> QED BY <2>2, <3>1, <3>2
  <2> HIDE DEF set
  <2>3. \A k \in 0 .. n : k \in set
    BY <2>1, <2>2, UpTo
  <2> QED BY <2>3 DEF set
<1>5. ASSUME NEW n \in Nat PROVE Behind(h, v, n + 1) = Beyond(h, Behind(h, v, n))
  <2>1. tail(n + 1)[n + 1] = Beyond(h, tail(n + 1)[n])
    <3>1. n + 1 \in 0 .. n + 1 /\ n + 1 # 0 /\ (n + 1) - 1 = n
      OBVIOUS
    <3> QED BY <1>2, <3>1
  <2>2. tail(n + 1)[n] = tail(n)[n]
    BY <1>4
  <2> QED BY <1>3, <2>1, <2>2
<1>6. Behind(h, v, 0) = v
  <2>1. tail(0)[0] = v
    BY <1>2
  <2> QED BY <1>3, <2>1
<1> QED
  BY <1>5, <1>6

\* What is behind a pair is behind its cdr.
LEMMA BehindShifts ==
    ASSUME NEW h, NEW v
    PROVE  /\ IsPair(h, v) => \A n \in Nat : Behind(h, v, n + 1) = Behind(h, Cdr(h, v), n)
           /\ ~IsPair(h, v) => \A n \in Nat : Behind(h, v, n) = v
<1>1. ASSUME IsPair(h, v), NEW n \in Nat PROVE Behind(h, v, n + 1) = Behind(h, Cdr(h, v), n)
  <2> DEFINE set == {m \in 0 .. n : Behind(h, v, m + 1) = Behind(h, Cdr(h, v), m)}
  <2>1. 0 \in set
    <3>1. Behind(h, v, 0 + 1) = Beyond(h, Behind(h, v, 0)) /\ Behind(h, v, 0) = v
      BY BehindUnfolds
    <3>2. Behind(h, Cdr(h, v), 0) = Cdr(h, v)
      BY BehindUnfolds
    <3> QED BY <1>1, <3>1, <3>2 DEF Beyond
  <2>2. ASSUME NEW m \in 1 .. n, m - 1 \in set PROVE m \in set
    <3>1. /\ m - 1 \in Nat /\ m \in Nat
          /\ Behind(h, v, (m - 1) + 1) = Behind(h, Cdr(h, v), m - 1)
      BY <2>2
    <3>2. /\ Behind(h, v, m + 1) = Beyond(h, Behind(h, v, m))
          /\ Behind(h, Cdr(h, v), (m - 1) + 1) = Beyond(h, Behind(h, Cdr(h, v), m - 1))
      <4>1. \A w : \A k \in Nat : Behind(h, w, k + 1) = Beyond(h, Behind(h, w, k))
        BY BehindUnfolds
      <4> QED BY <3>1, <4>1
    <3>3. (m - 1) + 1 = m
      OBVIOUS
    <3>4. Behind(h, v, m + 1) = Behind(h, Cdr(h, v), m)
      BY <3>1, <3>2, <3>3
    <3> QED BY <3>4
  <2> HIDE DEF set
  <2>3. \A m \in 0 .. n : m \in set
    BY <2>1, <2>2, UpTo
  <2> QED BY <2>3 DEF set
<1>2. ASSUME ~IsPair(h, v), NEW n \in Nat PROVE Behind(h, v, n) = v
  <2> DEFINE set == {m \in 0 .. n : Behind(h, v, m) = v}
  <2>1. 0 \in set
    BY BehindUnfolds
  <2>2. ASSUME NEW m \in 1 .. n, m - 1 \in set PROVE m \in set
    <3>1. m - 1 \in Nat /\ Behind(h, v, m - 1) = v /\ (m - 1) + 1 = m
      BY <2>2
    <3>2. Behind(h, v, (m - 1) + 1) = Beyond(h, Behind(h, v, m - 1))
      BY <3>1, BehindUnfolds
    <3>3. Behind(h, v, m) = v
      BY <1>2, <3>1, <3>2 DEF Beyond
    <3> QED BY <3>3
  <2> HIDE DEF set
  <2>3. \A m \in 0 .. n : m \in set
    BY <2>1, <2>2, UpTo
  <2> QED BY <2>3 DEF set
<1> QED
  BY <1>1, <1>2

\* A list has one length.
LEMMA SpansOnce ==
    ASSUME NEW h, NEW v, NEW m \in Nat, NEW n \in Nat, Spans(h, v, m), Spans(h, v, n)
    PROVE  m = n
BY DEF Spans

\* A list and the list behind its first pair.
LEMMA SpansShifts ==
    ASSUME NEW h, NEW v, NEW n \in Nat
    PROVE  /\ IsPair(h, v) => (Spans(h, v, n + 1) <=> Spans(h, Cdr(h, v), n))
           /\ ~IsPair(h, v) => (Spans(h, v, n) <=> n = 0)
           /\ Spans(h, v, n) /\ n # 0 => IsPair(h, v)
<1>1. Behind(h, v, 0) = v
  BY BehindUnfolds
<1>2. CASE IsPair(h, v)
  <2>1. \A m \in Nat : Behind(h, v, m + 1) = Behind(h, Cdr(h, v), m)
    BY <1>2, BehindShifts
  <2>2. ASSUME Spans(h, v, n + 1) PROVE Spans(h, Cdr(h, v), n)
    <3>1. \A m \in 0 .. n - 1 : IsPair(h, Behind(h, v, m + 1))
      BY <2>2 DEF Spans
    <3>2. ~IsPair(h, Behind(h, v, n + 1))
      BY <2>2 DEF Spans
    <3> QED BY <2>1, <3>1, <3>2 DEF Spans
  <2>3. ASSUME Spans(h, Cdr(h, v), n) PROVE Spans(h, v, n + 1)
    <3>1. ASSUME NEW m \in 0 .. n PROVE IsPair(h, Behind(h, v, m))
      <4>1. CASE m = 0
        BY <1>1, <1>2, <4>1
      <4>2. CASE m # 0
        <5>1. m - 1 \in 0 .. n - 1 /\ m - 1 \in Nat /\ (m - 1) + 1 = m
          BY <4>2
        <5> QED BY <2>1, <2>3, <5>1 DEF Spans
      <4> QED BY <4>1, <4>2
    <3>2. ~IsPair(h, Behind(h, v, n + 1))
      BY <2>1, <2>3 DEF Spans
    <3>3. (n + 1) - 1 = n
      OBVIOUS
    <3> QED BY <3>1, <3>2, <3>3 DEF Spans
  <2> QED BY <1>2, <2>2, <2>3
<1>3. CASE ~IsPair(h, v)
  <2>1. Behind(h, v, n) = v
    BY <1>3, BehindShifts
  <2>2. Spans(h, v, n) => n = 0
    BY <1>1, <1>3 DEF Spans
  <2>3. n = 0 => Spans(h, v, n)
    BY <1>1, <1>3 DEF Spans
  <2> QED BY <1>3, <2>2, <2>3
<1>4. Spans(h, v, n) /\ n # 0 => IsPair(h, v)
  BY <1>1 DEF Spans
<1> QED
  BY <1>2, <1>3, <1>4

\* What is behind a good value is good, and under what the value is under.
LEMMA BehindIsGood ==
    ASSUME NEW h, GoodHeap(h), NEW v, Good(h, v), NEW n \in Nat
    PROVE  /\ Good(h, Behind(h, v, n))
           /\ \A root : Under(h, root, v) => Under(h, root, Behind(h, v, n))
<1> DEFINE OK(m) == /\ Good(h, Behind(h, v, m))
                    /\ \A root : Under(h, root, v) => Under(h, root, Behind(h, v, m))
           set == {m \in 0 .. n : OK(m)}
<1>1. 0 \in set
  BY BehindUnfolds
<1>2. ASSUME NEW m \in 1 .. n, m - 1 \in set PROVE m \in set
  <2>1. m - 1 \in Nat /\ (m - 1) + 1 = m /\ OK(m - 1)
    BY <1>2
  <2>2. Behind(h, v, (m - 1) + 1) = Beyond(h, Behind(h, v, m - 1))
    BY <2>1, BehindUnfolds
  <2>3. OK(m)
    <3>1. PICK x : x = Behind(h, v, m - 1)
      OBVIOUS
    <3>2. /\ Good(h, x) /\ Behind(h, v, m) = Beyond(h, x)
          /\ \A root : Under(h, root, v) => Under(h, root, x)
      BY <2>1, <2>2, <3>1
    <3>3. Good(h, Beyond(h, x)) /\ \A root : Under(h, root, x) => Under(h, root, Beyond(h, x))
      <4>1. CASE IsPair(h, x)
        BY <3>2, <4>1, PairHas, UnderPair DEF Beyond
      <4>2. CASE ~IsPair(h, x)
        BY <3>2, <4>2 DEF Beyond
      <4> QED BY <4>1, <4>2
    <3> QED BY <3>2, <3>3
  <2> QED BY <2>3
<1> HIDE DEF set
<1>3. \A m \in 0 .. n : m \in set
  BY <1>1, <1>2, UpTo
<1>4. n \in set
  BY <1>3
<1> QED
  BY <1>4 DEF set

\* A list has no more pairs than there are cells, since the same pair does not
\* come twice.
LEMMA SpansIsBounded ==
    ASSUME NEW h, GoodHeap(h), NEW v, Good(h, v), NEW n \in Nat, Spans(h, v, n)
    PROVE  n \in 0 .. HeapSize
<1> DEFINE at == [m \in 1 .. n |-> Behind(h, v, m - 1)[2]]
<1>1. \A m \in Nat : Good(h, Behind(h, v, m)) /\ Behind(h, v, m + 1) = Beyond(h, Behind(h, v, m))
  BY BehindIsGood, BehindUnfolds
<1>2. \A m \in 0 .. n - 1 : IsPair(h, Behind(h, v, m))
  BY DEF Spans
<1>3. \A m \in 1 .. n : at[m] \in Addr
  <2> SUFFICES ASSUME NEW m \in 1 .. n PROVE Behind(h, v, m - 1)[2] \in Addr
    OBVIOUS
  <2>1. m - 1 \in 0 .. n - 1
    OBVIOUS
  <2> QED BY <1>1, <1>2, <2>1, PairHas
<1>4. ASSUME NEW i \in 0 .. n - 1, NEW j \in 0 .. n - 1, i < j,
             Behind(h, v, i)[2] = Behind(h, v, j)[2]
      PROVE  FALSE
  <2> DEFINE set == {k \in 0 .. n - j - 1 : Behind(h, v, i + k + 1) = Behind(h, v, j + k + 1)}
  <2>1. 0 \in set
    <3>1. IsPair(h, Behind(h, v, i)) /\ IsPair(h, Behind(h, v, j))
      BY <1>2
    <3>2. Behind(h, v, i + 1) = Cdr(h, Behind(h, v, i)) /\ Behind(h, v, j + 1) = Cdr(h, Behind(h, v, j))
      BY <1>1, <3>1 DEF Beyond
    <3>3. Behind(h, v, i + 1) = Behind(h, v, j + 1)
      BY <1>4, <3>2 DEF Cdr
    <3>4. i + 0 + 1 = i + 1 /\ j + 0 + 1 = j + 1 /\ 0 \in 0 .. n - j - 1
      OBVIOUS
    <3> QED BY <3>3, <3>4
  <2>2. ASSUME NEW k \in 1 .. n - j - 1, k - 1 \in set PROVE k \in set
    <3>1. i + (k - 1) + 1 = i + k /\ j + (k - 1) + 1 = j + k /\ i + k \in Nat /\ j + k \in Nat
          /\ k \in 0 .. n - j - 1
      OBVIOUS
    <3>2. Behind(h, v, i + k) = Behind(h, v, j + k)
      BY <2>2, <3>1
    <3>3. Behind(h, v, i + k + 1) = Behind(h, v, j + k + 1)
      BY <1>1, <3>1, <3>2
    <3> QED BY <3>1, <3>3
  <2> HIDE DEF set
  <2>3. n - j - 1 \in Nat
    BY <1>4
  <2>4. \A k \in 0 .. n - j - 1 : k \in set
    BY <2>1, <2>2, <2>3, UpTo
  <2>5. n - j - 1 \in set
    BY <2>3, <2>4
  <2>6. /\ Behind(h, v, i + (n - j - 1) + 1) = Behind(h, v, j + (n - j - 1) + 1)
    BY <2>5 DEF set
  <2>7. /\ i + (n - j - 1) + 1 \in 0 .. n - 1
        /\ j + (n - j - 1) + 1 = n
    BY <1>4
  <2> QED BY <1>2, <2>6, <2>7 DEF Spans
<1>5. at \in Injection(1 .. n, Addr)
  <2>1. at \in [1 .. n -> Addr]
    BY <1>3
  <2>2. ASSUME NEW i \in 1 .. n, NEW j \in 1 .. n, at[i] = at[j], i # j PROVE FALSE
    <3>1. i - 1 \in 0 .. n - 1 /\ j - 1 \in 0 .. n - 1 /\ (i - 1 < j - 1 \/ j - 1 < i - 1)
      BY <2>2
    <3>2. Behind(h, v, i - 1)[2] = Behind(h, v, j - 1)[2]
      BY <2>2
    <3> QED BY <1>4, <3>1, <3>2
  <2> HIDE DEF at
  <2> QED BY <2>1, <2>2 DEF Injection, IsInjective
<1> HIDE DEF at
<1>6. /\ IsFiniteSet(Addr) /\ Cardinality(Addr) = HeapSize
      /\ Cardinality(1 .. n) = n
  <2>1. /\ IsFiniteSet(1 .. HeapSize)
        /\ Cardinality(1 .. HeapSize) = IF 1 > HeapSize THEN 0 ELSE HeapSize - 1 + 1
    BY HeapAssumption, FS_Interval
  <2>2. Cardinality(1 .. n) = IF 1 > n THEN 0 ELSE n - 1 + 1
    BY FS_Interval
  <2> QED BY <2>1, <2>2, HeapAssumption DEF Addr
<1>7. n <= HeapSize
  BY <1>5, <1>6, FS_Injection
<1> QED
  BY <1>7

\* The length of what is a good value: it is a number, and that of its pairs.
LEMMA LengthIs ==
    ASSUME NEW h, GoodHeap(h), NEW v, Good(h, v)
    PROVE  /\ Length(h, v) \in 0 .. HeapSize /\ Spans(h, v, Length(h, v))
           /\ \A n \in Nat : Spans(h, v, n) => n = Length(h, v)
           /\ IsList(h, v) <=> LastCdr(h, v) = Nil
<1>1. \E n \in Nat : Spans(h, v, n)
  <2>1. CASE IsPair(h, v)
    <3>1. PICK n \in Nat : Spans(h, Cdr(h, v), n)
      BY <2>1, PairHas
    <3>2. Spans(h, v, n + 1) /\ n + 1 \in Nat
      BY <2>1, <3>1, SpansShifts
    <3> QED BY <3>2
  <2>2. CASE ~IsPair(h, v)
    <3>1. Spans(h, v, 0)
      BY <2>2, SpansShifts
    <3> QED BY <3>1
  <2> QED BY <2>1, <2>2
<1>2. \E n \in 0 .. HeapSize : Spans(h, v, n)
  BY <1>1, SpansIsBounded
<1>3. Length(h, v) \in 0 .. HeapSize /\ Spans(h, v, Length(h, v))
  BY <1>2 DEF Length
<1>4. Length(h, v) \in Nat
  BY <1>3
<1>5. \A n \in Nat : Spans(h, v, n) => n = Length(h, v)
  BY <1>3, <1>4, SpansOnce
<1>6. IsList(h, v) <=> LastCdr(h, v) = Nil
  BY <1>3, <1>5 DEF IsList, LastCdr
<1> QED
  BY <1>3, <1>5, <1>6

\* A list is nil, or a pair with a list behind it.
LEMMA ListIs ==
    ASSUME NEW h, GoodHeap(h), NEW v, Good(h, v)
    PROVE  /\ IsList(h, v) => v = Nil \/ IsPair(h, v)
           /\ IsPair(h, v) => (IsList(h, v) <=> IsList(h, Cdr(h, v)))
           /\ IsPair(h, v) => Length(h, v) = Length(h, Cdr(h, v)) + 1
           /\ ~IsPair(h, v) => Length(h, v) = 0
<1>1. /\ Length(h, v) \in Nat /\ Spans(h, v, Length(h, v))
      /\ \A n \in Nat : Spans(h, v, n) => n = Length(h, v)
      /\ IsList(h, v) <=> LastCdr(h, v) = Nil
  BY LengthIs
<1>2. CASE IsPair(h, v)
  <2>1. Good(h, Cdr(h, v))
    BY <1>2, PairHas
  <2>2. /\ Length(h, Cdr(h, v)) \in Nat /\ Spans(h, Cdr(h, v), Length(h, Cdr(h, v)))
        /\ IsList(h, Cdr(h, v)) <=> LastCdr(h, Cdr(h, v)) = Nil
    BY <2>1, LengthIs
  <2>3. Spans(h, v, Length(h, Cdr(h, v)) + 1)
    BY <1>2, <2>2, SpansShifts
  <2>4. Length(h, v) = Length(h, Cdr(h, v)) + 1
    BY <1>1, <2>2, <2>3
  <2>5. Behind(h, v, Length(h, Cdr(h, v)) + 1) = Behind(h, Cdr(h, v), Length(h, Cdr(h, v)))
    BY <1>2, <2>2, BehindShifts
  <2> QED BY <1>1, <1>2, <2>2, <2>4, <2>5 DEF LastCdr
<1>3. CASE ~IsPair(h, v)
  <2>1. Length(h, v) = 0
    BY <1>1, <1>3, SpansShifts
  <2>2. LastCdr(h, v) = v
    BY <2>1, BehindUnfolds DEF LastCdr
  <2> QED BY <1>1, <1>3, <2>1, <2>2
<1> QED
  BY <1>2, <1>3

\* The elements of a list.
LEMMA NthIs ==
    ASSUME NEW h, GoodHeap(h), NEW v, Good(h, v), NEW i \in 1 .. Length(h, v)
    PROVE  /\ IsPair(h, Behind(h, v, i - 1)) /\ Good(h, Nth(h, v, i))
           /\ \A root : Under(h, root, v) => Under(h, root, Nth(h, v, i))
<1>1. Length(h, v) \in Nat /\ Spans(h, v, Length(h, v))
  BY LengthIs
<1>2. i - 1 \in 0 .. Length(h, v) - 1 /\ i - 1 \in Nat
  BY <1>1
<1>3. IsPair(h, Behind(h, v, i - 1))
  BY <1>1, <1>2 DEF Spans
<1>4. /\ Good(h, Behind(h, v, i - 1))
      /\ \A root : Under(h, root, v) => Under(h, root, Behind(h, v, i - 1))
  BY <1>2, BehindIsGood
<1>5. Good(h, Car(h, Behind(h, v, i - 1)))
  BY <1>3, <1>4, PairHas
<1>6. \A root : Under(h, root, v) => Under(h, root, Car(h, Behind(h, v, i - 1)))
  BY <1>3, <1>4, UnderPair
<1> QED
  BY <1>3, <1>5, <1>6 DEF Nth

-----------------------------------------------------------------------------
(***************************************************************************)
(* What a change of the heap keeps.                                        *)
(***************************************************************************)

\* A value is of the same kind, and a pair has the same halves.
LEMMA KeptValue ==
    ASSUME NEW h, GoodHeap(h), NEW g, NEW set, Keeps(h, g, set), NEW v, Within(set, v)
    PROVE  /\ Good(h, v) /\ Good(g, v)
           /\ \A kind : IsA(g, v, kind) <=> IsA(h, v, kind)
           /\ IsPair(g, v) <=> IsPair(h, v)
           /\ IsPair(h, v) => /\ Car(g, v) = Car(h, v) /\ Cdr(g, v) = Cdr(h, v)
                              /\ Within(set, Car(h, v)) /\ Within(set, Cdr(h, v))
<1>1. IsObj(v) => v[2] \in set /\ v[2] \in InUse(h) /\ g[v[2]].kind = h[v[2]].kind
  BY DEF Keeps, Within
<1>2. Good(h, v) /\ Good(g, v)
  BY <1>1 DEF Good, Within, InUse
<1>3. \A kind : IsA(g, v, kind) <=> IsA(h, v, kind)
  BY <1>1 DEF IsA
<1>4. ASSUME IsPair(h, v)
      PROVE  /\ Car(g, v) = Car(h, v) /\ Cdr(g, v) = Cdr(h, v)
             /\ Within(set, Car(h, v)) /\ Within(set, Cdr(h, v))
  <2>1. /\ h[v[2]].kind = "PAIR"
        /\ IsObj(Car(h, v)) => Car(h, v)[2] \in RefsOf(h, v[2])
        /\ IsObj(Cdr(h, v)) => Cdr(h, v)[2] \in RefsOf(h, v[2])
    BY <1>2, <1>4, PairHas
  <2>2. g[v[2]] = h[v[2]] /\ RefsOf(h, v[2]) \subseteq set
    BY <1>1, <1>4, <2>1 DEF Keeps, Closed, IsPair, IsA
  <2> QED BY <2>1, <2>2 DEF Car, Cdr, Within
<1> QED
  BY <1>2, <1>3, <1>4 DEF IsPair

\* So it is with what is behind it,
LEMMA KeptBehind ==
    ASSUME NEW h, GoodHeap(h), NEW g, NEW set, Keeps(h, g, set), NEW v, Within(set, v), NEW n \in Nat
    PROVE  Behind(g, v, n) = Behind(h, v, n) /\ Within(set, Behind(h, v, n))
<1> DEFINE same == {m \in 0 .. n : Behind(g, v, m) = Behind(h, v, m) /\ Within(set, Behind(h, v, m))}
<1>1. 0 \in same
  BY BehindUnfolds
<1>2. ASSUME NEW m \in 1 .. n, m - 1 \in same PROVE m \in same
  <2>1. PICK x : x = Behind(h, v, m - 1)
    OBVIOUS
  <2>2. m - 1 \in Nat /\ (m - 1) + 1 = m /\ Behind(g, v, m - 1) = x /\ Within(set, x)
    BY <1>2, <2>1
  <2>3. Behind(h, v, m) = Beyond(h, x) /\ Behind(g, v, m) = Beyond(g, x)
    <3>1. /\ Behind(h, v, (m - 1) + 1) = Beyond(h, Behind(h, v, m - 1))
          /\ Behind(g, v, (m - 1) + 1) = Beyond(g, Behind(g, v, m - 1))
      BY <2>2, BehindUnfolds
    <3> QED BY <2>1, <2>2, <3>1
  <2>4. Beyond(g, x) = Beyond(h, x) /\ Within(set, Beyond(h, x))
    <3>1. /\ IsPair(g, x) <=> IsPair(h, x)
          /\ IsPair(h, x) => Cdr(g, x) = Cdr(h, x) /\ Within(set, Cdr(h, x))
      BY <2>2, KeptValue
    <3> QED BY <2>2, <3>1 DEF Beyond
  <2> QED BY <2>3, <2>4
<1> HIDE DEF same
<1>3. \A m \in 0 .. n : m \in same
  BY <1>1, <1>2, UpTo
<1>4. n \in same
  BY <1>3
<1> QED
  BY <1>4 DEF same

\* so a list is a list of the same length,
LEMMA KeptList ==
    ASSUME NEW h, GoodHeap(h), NEW g, NEW set, Keeps(h, g, set), NEW v, Within(set, v)
    PROVE  /\ \A n \in Nat : Spans(g, v, n) <=> Spans(h, v, n)
           /\ IsList(g, v) <=> IsList(h, v)
           /\ Length(g, v) = Length(h, v)
           /\ \A lengths : HasLength(g, v, lengths) <=> HasLength(h, v, lengths)
<1>1. ASSUME NEW n \in Nat PROVE Spans(g, v, n) <=> Spans(h, v, n)
  <2>1. ASSUME NEW m \in Nat PROVE IsPair(g, Behind(g, v, m)) <=> IsPair(h, Behind(h, v, m))
    BY KeptBehind, KeptValue
  <2>2. \A m \in 0 .. n - 1 : IsPair(g, Behind(g, v, m)) <=> IsPair(h, Behind(h, v, m))
    BY <2>1
  <2> QED BY <2>1, <2>2 DEF Spans
<1>2. IsList(g, v) <=> IsList(h, v)
  <2>1. \A n \in 0 .. HeapSize : n \in Nat
    BY HeapAssumption
  <2>2. \A n \in 0 .. HeapSize :
            (Spans(g, v, n) /\ Behind(g, v, n) = Nil) <=> (Spans(h, v, n) /\ Behind(h, v, n) = Nil)
    BY <1>1, <2>1, KeptBehind
  <2> QED BY <2>2 DEF IsList
<1>3. Length(g, v) = Length(h, v)
  <2>1. Good(h, v)
    BY KeptValue
  <2>2. Length(h, v) \in 0 .. HeapSize /\ Spans(h, v, Length(h, v))
    BY <2>1, LengthIs
  <2>3. Spans(g, v, Length(h, v)) /\ Length(h, v) \in Nat
    BY <1>1, <2>2
  <2>4. Length(g, v) \in 0 .. HeapSize /\ Spans(g, v, Length(g, v))
    BY <2>2, <2>3 DEF Length
  <2>5. Length(g, v) \in Nat
    BY <2>4
  <2> QED BY <2>3, <2>4, <2>5, SpansOnce
<1> QED
  BY <1>1, <1>2, <1>3 DEF HasLength

\* and what was under a root is under it.
LEMMA KeptUnder ==
    ASSUME NEW h, GoodHeap(h), NEW g, NEW set, Keeps(h, g, set), NEW root, Within(set, root),
           NEW v, Under(h, root, v)
    PROVE  Under(g, root, v) /\ Within(set, v)
<1>1. set \in SUBSET Addr /\ Fixed(h, set)
  BY DEF Keeps, InUse, Closed, Fixed
<1>2. Within(set, v)
  BY <1>1 DEF Under, Within
<1>3. ASSUME NEW other \in SUBSET Addr, IsObj(v), root[2] \in other, Fixed(g, other)
      PROVE  v[2] \in other
  <2>1. Fixed(h, other \cap set)
    <3> SUFFICES ASSUME NEW a \in other \cap set, h[a].kind # "ENV"
                 PROVE  RefsOf(h, a) \subseteq other \cap set
      BY DEF Fixed
    <3>1. g[a] = h[a] /\ RefsOf(h, a) \subseteq set
      BY DEF Keeps, Closed
    <3>2. RefsOf(g, a) \subseteq other
      BY <1>3, <3>1 DEF Fixed
    <3> QED BY <3>1, <3>2 DEF RefsOf
  <2>2. root[2] \in other \cap set /\ other \cap set \in SUBSET Addr
    BY <1>3 DEF Under, Within
  <2> QED BY <1>3, <2>1, <2>2 DEF Under
<1> QED
  BY <1>2, <1>3 DEF Under

-----------------------------------------------------------------------------
(***************************************************************************)
(* Allocation.                                                             *)
(***************************************************************************)

\* A cell is as good in the heap that keeps what it refers to.
LEMMA KeptCell ==
    ASSUME NEW h, GoodHeap(h), NEW g, NEW set, Keeps(h, g, set), NEW c, CellOK(h, c),
           \A i \in 1 .. Len(c.refs) : Within(set, c.refs[i])
    PROVE  CellOK(g, c)
<1>1. Len(c.refs) \in Nat
  BY LenProperties DEF CellOK, Sequence
<1>2. \A i \in 1 .. Len(c.refs) : Good(g, c.refs[i])
  BY KeptValue
<1>3. CASE c.kind = "PAIR"
  <2>1. Len(c.refs) = 2 /\ \E n \in Nat : Spans(h, c.refs[2], n)
    BY <1>3 DEF CellOK
  <2>2. Within(set, c.refs[2])
    BY <2>1
  <2>3. \E n \in Nat : Spans(g, c.refs[2], n)
    BY <2>1, <2>2, KeptList
  <2> QED BY <1>2, <1>3, <2>1, <2>3 DEF CellOK
<1>4. CASE c.kind = "CLOSURE"
  <2>1. Len(c.refs) = 3 /\ IsA(h, c.refs[3], "ENV")
    BY <1>4 DEF CellOK
  <2>2. Within(set, c.refs[3])
    BY <2>1
  <2>3. IsA(g, c.refs[3], "ENV")
    BY <2>1, <2>2, KeptValue
  <2> QED BY <1>2, <1>4, <2>1, <2>3 DEF CellOK
<1>5. CASE c.kind = "ENV"
  <2>1. Len(c.refs) = 1 + Len(c.names) /\ (c.refs[1] = Nil \/ IsA(h, c.refs[1], "ENV"))
    BY <1>5 DEF CellOK
  <2>2. Len(c.names) \in Nat
    BY LenProperties DEF CellOK, Sequence
  <2>3. Within(set, c.refs[1])
    BY <2>1, <2>2
  <2>4. c.refs[1] = Nil \/ IsA(g, c.refs[1], "ENV")
    <3>1. PICK x : x = c.refs[1]
      OBVIOUS
    <3>2. Within(set, x)
      BY <2>3, <3>1
    <3>3. \A kind : IsA(g, x, kind) <=> IsA(h, x, kind)
      BY <3>2, KeptValue
    <3> QED BY <2>1, <3>1, <3>3
  <2> QED BY <1>2, <1>5, <2>1, <2>4 DEF CellOK
<1> QED
  BY <1>2, <1>3, <1>4, <1>5 DEF CellOK

\* Room means that the allocator finds a free cell.
LEMMA NextFreeIsFree ==
    ASSUME NEW h, Room(h)
    PROVE  NextFree(h) \in Addr /\ h[NextFree(h)] = Free
<1> DEFINE free == {a \in Addr : h[a] = Free}
<1>1. free \in SUBSET Nat /\ free # {}
  BY HeapAssumption DEF Room, Addr
<1>2. PICK n \in free : \A m \in free : n <= m
  BY <1>1, LeastNatural
<1>3. \A b \in 1 .. n - 1 : h[b] # Free
  <2> SUFFICES ASSUME NEW b \in 1 .. n - 1, h[b] = Free PROVE FALSE
    OBVIOUS
  <2>1. b \in free /\ ~(n <= b)
    BY <1>2, HeapAssumption DEF Addr
  <2> QED BY <2>1, <1>2
<1>4. \E a \in Addr : h[a] = Free /\ \A b \in 1 .. a - 1 : h[b] # Free
  BY <1>2, <1>3
<1> QED
  BY <1>4 DEF NextFree

\* A new cell leaves all others as they are.
LEMMA PutIsGood ==
    ASSUME NEW h, GoodHeap(h), Room(h), NEW cell, CellOK(h, cell), cell.kind # "FREE"
    PROVE  /\ GoodHeap(Put(h, cell)) /\ Keeps(h, Put(h, cell), InUse(h))
           /\ NextFree(h) \in Addr /\ NextFree(h) \notin InUse(h)
           /\ Put(h, cell)[NextFree(h)] = cell
           /\ Good(Put(h, cell), Ref(NextFree(h)))
           /\ IsA(Put(h, cell), Ref(NextFree(h)), cell.kind)
<1> DEFINE n == NextFree(h)
           g == Put(h, cell)
<1>1. n \in Addr /\ h[n].kind = "FREE"
  BY NextFreeIsFree DEF Free, Cell
<1>2. DOMAIN h = Addr /\ \A a \in Addr : CellOK(h, h[a])
  BY DEF GoodHeap
<1>3. DOMAIN g = Addr /\ \A a \in Addr : g[a] = IF a = n THEN cell ELSE h[a]
  BY <1>1, <1>2 DEF Put
<1> HIDE DEF g, n
<1>4. n \notin InUse(h)
  BY <1>1 DEF InUse
<1>5. Keeps(h, g, InUse(h))
  BY <1>3, <1>4, UseIsClosed DEF Keeps, InUse
<1>6. ASSUME NEW a \in Addr PROVE CellOK(g, g[a])
  <2>1. CellOK(h, g[a])
    BY <1>2, <1>3
  <2>2. \A i \in 1 .. Len(g[a].refs) : Within(InUse(h), g[a].refs[i])
    BY <2>1 DEF CellOK, Good
  <2> QED BY <1>5, <2>1, <2>2, KeptCell
<1>7. Nested(g)
  <2>1. PICK depth \in [Addr -> Nat] : \A a \in Addr :
            h[a].kind = "ENV" /\ IsObj(h[a].refs[1]) => depth[h[a].refs[1][2]] < depth[a]
    BY DEF GoodHeap, Nested
  <2> DEFINE of == cell.refs[1][2]
             new == [depth EXCEPT ![n] = IF of \in Addr THEN depth[of] + 1 ELSE 0]
  <2>2. new \in [Addr -> Nat]
    BY <1>1
  <2>3. ASSUME NEW a \in Addr, g[a].kind = "ENV", IsObj(g[a].refs[1])
        PROVE  g[a].refs[1][2] \in Addr /\ g[a].refs[1][2] # n
    <3>1. CellOK(h, g[a])
      BY <1>2, <1>3
    <3>2. Len(g[a].refs) = 1 + Len(g[a].names) /\ Len(g[a].names) \in Nat
      BY <2>3, <3>1, LenProperties DEF CellOK, Sequence
    <3>3. Good(h, g[a].refs[1])
      BY <3>1, <3>2 DEF CellOK
    <3> QED BY <1>4, <2>3, <3>3 DEF Good, Within, InUse
  <2>4. ASSUME NEW a \in Addr, g[a].kind = "ENV", IsObj(g[a].refs[1])
        PROVE  new[g[a].refs[1][2]] < new[a]
    <3>1. new[g[a].refs[1][2]] = depth[g[a].refs[1][2]] /\ depth[g[a].refs[1][2]] \in Nat
      BY <2>3, <2>4
    <3>2. CASE a = n
      <4>1. new[a] = depth[g[a].refs[1][2]] + 1
        BY <1>3, <2>3, <2>4, <3>2
      <4> QED BY <3>1, <4>1
    <3>3. CASE a # n
      <4>1. new[a] = depth[a] /\ g[a] = h[a]
        BY <1>3, <3>3
      <4> QED BY <2>1, <2>4, <3>1, <4>1
    <3> QED BY <3>2, <3>3
  <2> QED BY <2>2, <2>4 DEF Nested
<1>8. GoodHeap(g)
  BY <1>3, <1>6, <1>7 DEF GoodHeap
<1>9. IsObj(Ref(n)) /\ Ref(n)[2] = n
  BY DEF IsObj, Ref
<1> QED
  BY <1>1, <1>3, <1>4, <1>5, <1>8, <1>9 DEF g, n, Good, Within, InUse, IsA

\* The cells that the evaluator makes.
LEMMA NewCells ==
    ASSUME NEW h, GoodHeap(h)
    PROVE  /\ \A car, cdr : Good(h, car) /\ Good(h, cdr) => CellOK(h, Cell("PAIR", <<car, cdr>>, <<>>))
           /\ \A a, b, env : Good(h, a) /\ Good(h, b) /\ Good(h, env) /\ IsA(h, env, "ENV")
                                => CellOK(h, Cell("CLOSURE", <<a, b, env>>, <<>>))
           /\ \A env : Good(h, env) /\ IsA(h, env, "ENV") => CellOK(h, Cell("ENV", <<env>>, <<>>))
<1>1. Sequence(<<>>) /\ \A a, b, c : Sequence(<<a>>) /\ Sequence(<<a, b>>) /\ Sequence(<<a, b, c>>)
  <2>1. <<>> \in Seq({}) /\ \A a, b, c : <<a>> \in Seq({a}) /\ <<a, b>> \in Seq({a, b}) /\ <<a, b, c>> \in Seq({a, b, c})
    OBVIOUS
  <2> QED BY <2>1, Zenon DEF Sequence
<1>2. ASSUME NEW car, NEW cdr, Good(h, car), Good(h, cdr)
      PROVE  CellOK(h, Cell("PAIR", <<car, cdr>>, <<>>))
  <2>1. \E n \in Nat : Spans(h, cdr, n)
    <3>1. Length(h, cdr) \in 0 .. HeapSize /\ Spans(h, cdr, Length(h, cdr))
      BY <1>2, LengthIs
    <3>2. Length(h, cdr) \in Nat
      BY <3>1
    <3> QED BY <3>1, <3>2
  <2>2. PICK s : s = <<car, cdr>>
    OBVIOUS
  <2>3. Sequence(s) /\ Len(s) = 2 /\ s[1] = car /\ s[2] = cdr
    BY <1>1, <2>2
  <2>4. \A i \in 1 .. Len(s) : Good(h, s[i])
    BY <1>2, <2>3
  <2>5. CellOK(h, Cell("PAIR", s, <<>>))
    BY <1>1, <2>1, <2>3, <2>4 DEF CellOK, Cell
  <2> QED BY <2>2, <2>5
<1>3. ASSUME NEW a, NEW b, NEW env, Good(h, a), Good(h, b), Good(h, env), IsA(h, env, "ENV")
      PROVE  CellOK(h, Cell("CLOSURE", <<a, b, env>>, <<>>))
  <2>1. PICK s : s = <<a, b, env>>
    OBVIOUS
  <2>2. Sequence(s) /\ Len(s) = 3 /\ s[1] = a /\ s[2] = b /\ s[3] = env
    BY <1>1, <2>1
  <2>3. \A i \in 1 .. Len(s) : Good(h, s[i])
    BY <1>3, <2>2
  <2>4. CellOK(h, Cell("CLOSURE", s, <<>>))
    BY <1>1, <1>3, <2>2, <2>3 DEF CellOK, Cell
  <2> QED BY <2>1, <2>4
<1>4. ASSUME NEW env, Good(h, env), IsA(h, env, "ENV")
      PROVE  CellOK(h, Cell("ENV", <<env>>, <<>>))
  <2>1. PICK s : s = <<env>>
    OBVIOUS
  <2>2. Sequence(s) /\ Len(s) = 1 /\ s[1] = env
    BY <1>1, <2>1
  <2>3. \A i \in 1 .. Len(s) : Good(h, s[i])
    BY <1>4, <2>2
  <2>4. Len(<<>>) = 0
    OBVIOUS
  <2>5. CellOK(h, Cell("ENV", s, <<>>))
    BY <1>1, <1>4, <2>2, <2>3, <2>4 DEF CellOK, Cell
  <2> QED BY <2>1, <2>5
<1> QED
  BY <1>2, <1>3, <1>4

-----------------------------------------------------------------------------
(***************************************************************************)
(* Bindings.                                                               *)
(***************************************************************************)

\* The index of a name is that of one of the names of the frame, or 0.
LEMMA SlotIs ==
    ASSUME NEW h, NEW env, Sequence(h[env[2]].names), NEW name
    PROVE  Slot(h, env, name) \in 0 .. Len(h[env[2]].names)
<1> DEFINE names == h[env[2]].names
           at == {i \in DOMAIN names : names[i] = name}
<1>1. DOMAIN names = 1 .. Len(names) /\ Len(names) \in Nat
  BY LenProperties DEF Sequence
<1>2. CASE at = {}
  BY <1>1, <1>2 DEF Slot
<1>3. CASE at # {}
  <2>1. at \in SUBSET Nat
    BY <1>1
  <2> HIDE DEF at
  <2>2. \E i \in at : \A j \in at : i <= j
    BY <1>3, <2>1, LeastNatural
  <2>3. Min(at) \in at
    BY <2>2 DEF Min
  <2>4. Slot(h, env, name) = Min(at)
    BY <1>3 DEF Slot, at
  <2> QED BY <1>1, <2>3, <2>4 DEF at
<1> QED
  BY <1>2, <1>3

\* A frame with other bindings, inside the same frames.
LEMMA RebindIsGood ==
    ASSUME NEW h, GoodHeap(h), NEW e \in Addr, h[e].kind = "ENV",
           NEW c, CellOK(h, c), c.kind = "ENV", c.refs[1] = h[e].refs[1],
           NEW g, g = [h EXCEPT ![e] = c]
    PROVE  GoodHeap(g) /\ Keeps(h, g, InUse(h))
<1>1. DOMAIN h = Addr /\ \A a \in Addr : CellOK(h, h[a])
  BY DEF GoodHeap
<1>2. DOMAIN g = Addr /\ \A a \in Addr : g[a] = IF a = e THEN c ELSE h[a]
  BY <1>1
<1>3. Keeps(h, g, InUse(h))
  BY <1>2, UseIsClosed DEF Keeps, InUse
<1>4. ASSUME NEW a \in Addr PROVE CellOK(g, g[a])
  <2>1. CellOK(h, g[a])
    BY <1>1, <1>2
  <2>2. \A i \in 1 .. Len(g[a].refs) : Within(InUse(h), g[a].refs[i])
    BY <2>1 DEF CellOK, Good
  <2> QED BY <1>3, <2>1, <2>2, KeptCell
<1>5. \A a \in Addr : g[a].kind = h[a].kind /\ (g[a].kind = "ENV" => g[a].refs[1] = h[a].refs[1])
  BY <1>2
<1>6. Nested(g)
  <2>1. PICK depth \in [Addr -> Nat] : \A a \in Addr :
            h[a].kind = "ENV" /\ IsObj(h[a].refs[1]) => depth[h[a].refs[1][2]] < depth[a]
    BY DEF GoodHeap, Nested
  <2>2. \A a \in Addr : g[a].kind = "ENV" /\ IsObj(g[a].refs[1]) => depth[g[a].refs[1][2]] < depth[a]
    BY <1>5, <2>1
  <2> QED BY <2>2 DEF Nested
<1> QED
  BY <1>2, <1>3, <1>4, <1>6 DEF GoodHeap

\* What a frame is.
LEMMA EnvIs ==
    ASSUME NEW h, GoodHeap(h), NEW env, IsA(h, env, "ENV"), Good(h, env)
    PROVE  /\ IsObj(env) /\ env[2] \in Addr /\ h[env[2]].kind = "ENV" /\ CellOK(h, h[env[2]])
           /\ DOMAIN h[env[2]] = {"kind", "refs", "names"}
           /\ Sequence(h[env[2]].refs) /\ Sequence(h[env[2]].names)
           /\ Len(h[env[2]].names) \in Nat
           /\ Len(h[env[2]].refs) = 1 + Len(h[env[2]].names)
           /\ \A i \in 1 .. Len(h[env[2]].refs) : Good(h, h[env[2]].refs[i])
           /\ Parent(h, env) = Nil \/ IsA(h, Parent(h, env), "ENV")
<1>1. IsObj(env) /\ env[2] \in Addr /\ h[env[2]].kind = "ENV"
  BY DEF IsA, Good, Within, InUse
<1>2. PICK c : c = h[env[2]]
  OBVIOUS
<1>3. CellOK(h, c) /\ c.kind = "ENV"
  BY <1>1, <1>2 DEF GoodHeap
<1>4. /\ DOMAIN c = {"kind", "refs", "names"} /\ Sequence(c.refs) /\ Sequence(c.names)
      /\ \A i \in 1 .. Len(c.refs) : Good(h, c.refs[i])
      /\ Len(c.refs) = 1 + Len(c.names)
      /\ c.refs[1] = Nil \/ IsA(h, c.refs[1], "ENV")
  BY <1>3 DEF CellOK
<1>5. Len(c.names) \in Nat
  BY <1>4, LenProperties DEF Sequence
<1> QED
  BY <1>1, <1>2, <1>3, <1>4, <1>5 DEF Parent

\* A binding in a frame that has the name, or a new one.
LEMMA DefineIsGood ==
    ASSUME NEW h, GoodHeap(h), NEW env, IsA(h, env, "ENV"), Good(h, env), NEW name,
           NEW value, Good(h, value)
    PROVE  /\ GoodHeap(Define(h, env, name, value))
           /\ Keeps(h, Define(h, env, name, value), InUse(h))
           /\ Slot(h, env, name) # 0 =>
                /\ GoodHeap(SetBinding(h, env, name, value))
                /\ Keeps(h, SetBinding(h, env, name, value), InUse(h))
                /\ Good(h, Lookup(h, env, name))
<1>1. PICK e, c, n, i : /\ e = env[2] /\ c = h[e] /\ n = Len(c.names)
                        /\ i = Slot(h, env, name)
  OBVIOUS
<1>2. /\ e \in Addr /\ c.kind = "ENV" /\ DOMAIN c = {"kind", "refs", "names"}
      /\ Sequence(c.refs) /\ Sequence(c.names) /\ n \in Nat /\ Len(c.refs) = 1 + n
      /\ \A k \in 1 .. Len(c.refs) : Good(h, c.refs[k])
      /\ c.refs[1] = Nil \/ IsA(h, c.refs[1], "ENV")
  BY <1>1, EnvIs DEF Parent
<1>3. i \in 0 .. n
  BY <1>1, <1>2, SlotIs
<1>4. DOMAIN h = Addr
  BY DEF GoodHeap
<1>5. ASSUME i # 0
      PROVE  /\ GoodHeap([h EXCEPT ![e].refs[i + 1] = value])
             /\ Keeps(h, [h EXCEPT ![e].refs[i + 1] = value], InUse(h))
  <2>1. PICK refs : refs = [c.refs EXCEPT ![i + 1] = value]
    OBVIOUS
  <2>2. PICK d : d = [c EXCEPT !.refs = refs]
    OBVIOUS
  <2>3. Sequence(refs) /\ Len(refs) = Len(c.refs)
    <3>1. PICK k : k = i + 1
      OBVIOUS
    <3>2. Sequence([c.refs EXCEPT ![k] = value]) /\ Len([c.refs EXCEPT ![k] = value]) = Len(c.refs)
      BY <1>2, Patched, Zenon
    <3> QED BY <2>1, <3>1, <3>2
  <2>4. \A k \in 1 .. Len(c.refs) : refs[k] = IF k = i + 1 THEN value ELSE c.refs[k]
    <3>1. DOMAIN c.refs = 1 .. Len(c.refs)
      BY <1>2, LenProperties DEF Sequence
    <3> QED BY <2>1, <3>1
  <2>5. /\ DOMAIN d = {"kind", "refs", "names"} /\ d.kind = "ENV" /\ d.refs = refs /\ d.names = c.names
    BY <1>2, <2>2
  <2>6. refs[1] = c.refs[1] /\ \A k \in 1 .. Len(refs) : Good(h, refs[k])
    BY <1>2, <1>3, <1>5, <2>3, <2>4
  <2>7. CellOK(h, d)
    BY <1>1, <1>2, <2>3, <2>5, <2>6 DEF CellOK
  <2>8. [h EXCEPT ![e].refs[i + 1] = value] = [h EXCEPT ![e] = d]
    BY <1>1, <1>2, <1>4, <2>1, <2>2
  <2> QED BY <1>1, <1>2, <2>5, <2>6, <2>7, <2>8, RebindIsGood
<1>6. ASSUME NEW d, d = [c EXCEPT !.refs = Append(@, value), !.names = Append(@, name)]
      PROVE  GoodHeap([h EXCEPT ![e] = d]) /\ Keeps(h, [h EXCEPT ![e] = d], InUse(h))
  <2>1. PICK refs, names : refs = Append(c.refs, value) /\ names = Append(c.names, name)
    OBVIOUS
  <2>2. /\ DOMAIN d = {"kind", "refs", "names"} /\ d.kind = "ENV" /\ d.refs = refs /\ d.names = names
    BY <1>2, <1>6, <2>1
  <2>3. /\ Sequence(refs) /\ Len(refs) = 2 + n /\ Sequence(names) /\ Len(names) = 1 + n
        /\ \A k \in 1 .. 1 + n : refs[k] = c.refs[k]
        /\ refs[2 + n] = value
    <3>1. /\ Sequence(refs) /\ Len(refs) = Len(c.refs) + 1
          /\ \A k \in 1 .. Len(c.refs) : refs[k] = c.refs[k]
          /\ refs[Len(c.refs) + 1] = value
      BY <1>2, <2>1, Pushed
    <3>2. Sequence(names) /\ Len(names) = Len(c.names) + 1
      BY <1>2, <2>1, Pushed
    <3> QED BY <1>1, <1>2, <3>1, <3>2
  <2>4. refs[1] = c.refs[1] /\ \A k \in 1 .. Len(refs) : Good(h, refs[k])
    BY <1>2, <2>3
  <2>5. CellOK(h, d)
    BY <1>2, <2>2, <2>3, <2>4 DEF CellOK
  <2>6. PICK g : g = [h EXCEPT ![e] = d]
    OBVIOUS
  <2>7. GoodHeap(g) /\ Keeps(h, g, InUse(h))
    BY <1>1, <1>2, <2>2, <2>4, <2>5, <2>6, RebindIsGood
  <2> QED BY <2>6, <2>7
<1>7. ASSUME i # 0
      PROVE  /\ Define(h, env, name, value) = [h EXCEPT ![e].refs[i + 1] = value]
             /\ SetBinding(h, env, name, value) = [h EXCEPT ![e].refs[i + 1] = value]
             /\ Good(h, Lookup(h, env, name))
  <2>1. Lookup(h, env, name) = c.refs[i + 1]
    BY <1>1 DEF Lookup
  <2> QED BY <1>1, <1>2, <1>3, <1>7, <2>1 DEF Define, SetBinding
<1>8. ASSUME i = 0
      PROVE  Define(h, env, name, value)
                = [h EXCEPT ![e] = [c EXCEPT !.refs = Append(@, value), !.names = Append(@, name)]]
  <2>1. Define(h, env, name, value)
            = [h EXCEPT ![e].refs = Append(@, value), ![e].names = Append(@, name)]
    BY <1>1, <1>8 DEF Define
  <2> QED BY <1>1, <1>2, <1>4, <2>1
<1>9. CASE i = 0
  BY <1>1, <1>6, <1>8, <1>9
<1>10. CASE i # 0
  BY <1>1, <1>5, <1>7, <1>10
<1> QED
  BY <1>9, <1>10

\* The search for a binding ends at a frame that binds the name, or outside all.
LEMMA BinderIs ==
    ASSUME NEW h, GoodHeap(h), NEW env, IsA(h, env, "ENV"), Good(h, env), NEW name,
           Binder(h, env, name) # Nil
    PROVE  LET frame == Binder(h, env, name) IN
           /\ IsA(h, frame, "ENV") /\ Good(h, frame) /\ Slot(h, frame, name) # 0
<1> DEFINE envs == {b \in Addr : h[b].kind = "ENV"}
           binds(a) == Slot(h, Ref(a), name) # 0
           outer(a) == Parent(h, Ref(a))
           Search(f) == [a \in envs |-> IF binds(a) THEN Ref(a)
                                        ELSE IF IsA(h, outer(a), "ENV") THEN f[outer(a)[2]]
                                        ELSE Nil]
           way(a) == {b \in envs : \A set \in SUBSET envs :
                        /\ a \in set
                        /\ \A c \in set : ~binds(c) /\ IsA(h, outer(c), "ENV") => outer(c)[2] \in set
                        => b \in set}
           hits(a) == {b \in way(a) : binds(b)}
           found == [a \in envs |-> IF hits(a) = {} THEN Nil ELSE Ref(CHOOSE b \in hits(a) : TRUE)]
           binder == CHOOSE f : f = Search(f)
<1>1. \A a \in envs : IsA(h, outer(a), "ENV") => outer(a)[2] \in envs
  <2> SUFFICES ASSUME NEW a \in envs, IsA(h, outer(a), "ENV") PROVE outer(a)[2] \in envs
    OBVIOUS
  <2>1. IsObj(Ref(a)) /\ Ref(a)[2] = a
    BY DEF IsObj, Ref
  <2>2. IsA(h, Ref(a), "ENV") /\ Good(h, Ref(a))
    BY <2>1 DEF IsA, Good, Within, InUse
  <2>3. Good(h, outer(a))
    <3>1. /\ Len(h[Ref(a)[2]].names) \in Nat
          /\ Len(h[Ref(a)[2]].refs) = 1 + Len(h[Ref(a)[2]].names)
          /\ \A i \in 1 .. Len(h[Ref(a)[2]].refs) : Good(h, h[Ref(a)[2]].refs[i])
      BY <2>2, EnvIs
    <3> QED BY <3>1 DEF Parent
  <2> QED BY <2>3 DEF IsA, Good, Within, InUse
<1>2. ASSUME NEW a \in envs
      PROVE  /\ binds(a) => hits(a) = {a}
             /\ ~binds(a) /\ IsA(h, outer(a), "ENV") => hits(a) = hits(outer(a)[2])
             /\ ~binds(a) /\ ~IsA(h, outer(a), "ENV") => hits(a) = {}
  <2> HIDE DEF binds, outer, envs
  <2>1. a \in way(a)
    OBVIOUS
  <2>2. CASE binds(a) \/ ~IsA(h, outer(a), "ENV")
    <3>1. way(a) \subseteq {a}
      BY <2>2
    <3> QED BY <2>1, <2>2, <3>1
  <2>3. CASE ~binds(a) /\ IsA(h, outer(a), "ENV")
    <3>1. PICK c \in envs : c = outer(a)[2]
      BY <1>1, <2>3
    <3>2. way(a) \subseteq way(c) \cup {a}
      <4> SUFFICES ASSUME NEW b \in way(a), b # a PROVE b \in way(c)
        OBVIOUS
      <4> SUFFICES ASSUME NEW set \in SUBSET envs, c \in set,
                          \A d \in set : ~binds(d) /\ IsA(h, outer(d), "ENV") => outer(d)[2] \in set
                   PROVE  b \in set
        OBVIOUS
      <4>1. b \in set \cup {a}
        <5>1. \A d \in set \cup {a} :
                ~binds(d) /\ IsA(h, outer(d), "ENV") => outer(d)[2] \in set \cup {a}
          BY <3>1
        <5> QED BY <5>1
      <4> QED BY <4>1
    <3>3. way(c) \subseteq way(a)
      BY <2>3, <3>1
    <3>4. hits(a) = hits(c)
      BY <2>3, <3>2, <3>3
    <3> QED BY <2>3, <3>1, <3>4
  <2> QED BY <2>2, <2>3
<1>3. found = Search(found)
  <2>1. ASSUME NEW a \in envs
        PROVE  found[a] = IF binds(a) THEN Ref(a)
                          ELSE IF IsA(h, outer(a), "ENV") THEN found[outer(a)[2]]
                          ELSE Nil
    <3> HIDE DEF binds, outer, hits
    <3>1. CASE binds(a)
      <4>1. hits(a) = {a}
        BY <1>2, <3>1
      <4> QED BY <3>1, <4>1
    <3>2. CASE ~binds(a) /\ IsA(h, outer(a), "ENV")
      <4>1. hits(a) = hits(outer(a)[2]) /\ outer(a)[2] \in envs
        BY <1>1, <1>2, <3>2
      <4> QED BY <3>2, <4>1
    <3>3. CASE ~binds(a) /\ ~IsA(h, outer(a), "ENV")
      <4>1. hits(a) = {}
        BY <1>2, <3>3
      <4> QED BY <3>3, <4>1
    <3> QED BY <3>1, <3>2, <3>3
  <2>2. found = [a \in envs |-> found[a]]
    OBVIOUS
  <2> HIDE DEF found, binds, outer
  <2> QED BY <2>1, <2>2
<1>4. binder = Search(binder)
  <2> HIDE DEF Search, found
  <2>1. \E f : f = Search(f)
    BY <1>3
  <2> QED BY <2>1
<1>5. Binder(h, env, name) = binder[env[2]] /\ env[2] \in envs
  BY EnvIs DEF Binder
<1> HIDE DEF binder, found, hits, way
<1>6. \A a \in envs : binder[a] = IF binds(a) THEN Ref(a)
                                  ELSE IF IsA(h, outer(a), "ENV") THEN binder[outer(a)[2]]
                                  ELSE Nil
  <2> HIDE DEF envs, binds, outer
  <2> QED BY <1>4
<1> DEFINE OK(a) == binder[a] = Nil \/ \E b \in envs : binder[a] = Ref(b) /\ binds(b)
<1>7. PICK depth \in [Addr -> Nat] : \A a \in Addr :
          h[a].kind = "ENV" /\ IsObj(h[a].refs[1]) => depth[h[a].refs[1][2]] < depth[a]
  BY DEF GoodHeap, Nested
<1>8. \A a \in envs : OK(a)
  <2> SUFFICES ASSUME NEW a0 \in envs, ~OK(a0) PROVE FALSE
    OBVIOUS
  <2> DEFINE bad == {n \in Nat : \E a \in envs : ~OK(a) /\ depth[a] = n}
  <2>1. depth[a0] \in bad
    OBVIOUS
  <2>2. PICK n \in bad : \A m \in bad : n <= m
    <3>1. bad \in SUBSET Nat /\ bad # {}
      BY <2>1
    <3> HIDE DEF bad
    <3> QED BY <3>1, LeastNatural
  <2>3. PICK a \in envs : ~OK(a) /\ depth[a] = n
    BY <2>2
  <2>4. ~binds(a) /\ IsA(h, outer(a), "ENV") /\ binder[a] = binder[outer(a)[2]]
    <3> HIDE DEF outer, binds
    <3> QED BY <1>6, <2>3
  <2>5. outer(a)[2] \in envs
    BY <1>1, <2>4
  <2>6. ~OK(outer(a)[2])
    BY <2>3, <2>4
  <2>7. depth[outer(a)[2]] < depth[a]
    <3>1. outer(a) = h[a].refs[1] /\ h[a].kind = "ENV" /\ IsObj(outer(a))
      BY <2>4 DEF Parent, Ref, IsA
    <3> QED BY <1>7, <3>1
  <2>8. depth[outer(a)[2]] \in bad
    BY <2>5, <2>6
  <2>9. n <= depth[outer(a)[2]] /\ n \in Nat /\ depth[outer(a)[2]] \in Nat
    BY <2>2, <2>5, <2>8
  <2> QED BY <2>3, <2>7, <2>9
<1>9. PICK b \in envs : Binder(h, env, name) = Ref(b) /\ binds(b)
  BY <1>5, <1>8
<1>10. IsObj(Ref(b)) /\ Ref(b)[2] = b
  BY DEF IsObj, Ref
<1>11. IsA(h, Ref(b), "ENV") /\ Good(h, Ref(b)) /\ Slot(h, Ref(b), name) # 0
  BY <1>9, <1>10 DEF IsA, Good, Within, InUse
<1> QED
  BY <1>9, <1>11

-----------------------------------------------------------------------------
(***************************************************************************)
(* Several changes, and a collection.                                      *)
(***************************************************************************)

\* A heap keeps its own cells, and what is kept twice is kept.
LEMMA KeepsOn ==
    ASSUME NEW h, GoodHeap(h)
    PROVE  /\ Keeps(h, h, InUse(h))
           /\ \A g, k : Keeps(h, g, InUse(h)) /\ Keeps(g, k, InUse(g)) => Keeps(h, k, InUse(h))
<1>1. InUse(h) \in SUBSET Addr /\ Closed(h, InUse(h))
  BY UseIsClosed
<1>2. Keeps(h, h, InUse(h))
  BY <1>1 DEF Keeps
<1>3. ASSUME NEW g, NEW k, Keeps(h, g, InUse(h)), Keeps(g, k, InUse(g))
      PROVE  Keeps(h, k, InUse(h))
  <2>1. \A a \in InUse(h) : a \in InUse(g)
    BY <1>3 DEF Keeps, InUse
  <2> QED BY <1>1, <1>3, <2>1 DEF Keeps
<1> QED
  BY <1>2, <1>3

\* What was good in a heap is good in one that keeps its cells.
LEMMA KeptIsGood ==
    ASSUME NEW h, GoodHeap(h), NEW g, Keeps(h, g, InUse(h)), NEW v, Good(h, v)
    PROVE  Good(g, v) /\ \A kind : IsA(g, v, kind) <=> IsA(h, v, kind)
BY KeptValue DEF Good

\* The bindings of letrec.
LEMMA PredefinedIsGood ==
    ASSUME NEW h, GoodHeap(h), NEW inner, IsA(h, inner, "ENV"), Good(h, inner),
           NEW bindings, Len(bindings) \in Nat
    PROVE  /\ GoodHeap(Predefined(h, inner, bindings))
           /\ Keeps(h, Predefined(h, inner, bindings), InUse(h))
<1> DEFINE bind(k, x) == Define(x, inner, Car(heap, bindings[k]), Undef)
           Steps(f, n) == f = [k \in 0 .. n |-> IF k = 0 THEN h ELSE bind(k, f[k - 1])]
           bound(n) == CHOOSE f : Steps(f, n)
<1> HIDE DEF bind
<1>1. ASSUME NEW n \in Nat PROVE \E f : Steps(f, n)
  <2> DEFINE set == {m \in 0 .. n : \E f : Steps(f, m)}
  <2>1. 0 \in set
    <3>1. Steps([k \in 0 .. 0 |-> h], 0)
      OBVIOUS
    <3> HIDE DEF Steps
    <3> QED BY <3>1
  <2>2. ASSUME NEW m \in 1 .. n, m - 1 \in set PROVE m \in set
    <3>1. PICK f : Steps(f, m - 1)
      BY <2>2
    <3>2. DOMAIN f = 0 .. m - 1 /\ \A k \in 0 .. m - 1 : f[k] = IF k = 0 THEN h ELSE bind(k, f[k - 1])
      BY <3>1
    <3> DEFINE g == [k \in 0 .. m |-> IF k = m THEN bind(m, f[m - 1]) ELSE f[k]]
    <3>3. \A k \in 0 .. m : g[k] = IF k = 0 THEN h ELSE bind(k, g[k - 1])
      <4> SUFFICES ASSUME NEW k \in 0 .. m PROVE g[k] = IF k = 0 THEN h ELSE bind(k, g[k - 1])
        OBVIOUS
      <4>1. k # 0 => g[k - 1] = f[k - 1]
        OBVIOUS
      <4>2. CASE k = m
        <5>1. g[k] = bind(k, f[k - 1])
          BY <4>2
        <5> HIDE DEF g
        <5> QED BY <4>1, <4>2, <5>1
      <4>3. CASE k # m
        <5>1. k \in 0 .. m - 1 /\ g[k] = f[k]
          BY <4>3
        <5> HIDE DEF g
        <5> QED BY <3>2, <4>1, <5>1
      <4> QED BY <4>2, <4>3
    <3>4. DOMAIN g = 0 .. m /\ g = [k \in 0 .. m |-> g[k]]
      OBVIOUS
    <3> HIDE DEF g
    <3>5. Steps(g, m)
      BY <3>3, <3>4
    <3> HIDE DEF Steps
    <3> QED BY <3>5
  <2> HIDE DEF set
  <2>3. \A m \in 0 .. n : m \in set
    BY <2>1, <2>2, UpTo
  <2>4. n \in set
    BY <2>3
  <2> QED BY <2>4 DEF set
<1>2. PICK n, f : n \in Nat /\ n = Len(bindings) /\ f = bound(n)
  OBVIOUS
<1>3. \A k \in 0 .. n : f[k] = IF k = 0 THEN h ELSE bind(k, f[k - 1])
  <2>1. Steps(f, n)
    <3> HIDE DEF Steps
    <3> QED BY <1>1, <1>2
  <2> QED BY <2>1
<1>4. Predefined(h, inner, bindings) = f[n]
  BY <1>2 DEF Predefined, bind
<1> HIDE DEF bound, Steps
<1> DEFINE ok == {k \in 0 .. n : GoodHeap(f[k]) /\ Keeps(h, f[k], InUse(h))}
<1>5. 0 \in ok
  BY <1>2, <1>3, KeepsOn
<1>6. ASSUME NEW k \in 1 .. n, k - 1 \in ok PROVE k \in ok
  <2>1. PICK x : x = f[k - 1]
    OBVIOUS
  <2>2. GoodHeap(x) /\ Keeps(h, x, InUse(h))
    BY <1>6, <2>1
  <2>3. IsA(x, inner, "ENV") /\ Good(x, inner) /\ Good(x, Undef)
    BY <2>2, KeptIsGood DEF Good, Within, Undef, IsObj
  <2>4. f[k] = Define(x, inner, Car(heap, bindings[k]), Undef)
    BY <1>3, <2>1 DEF bind
  <2>5. GoodHeap(f[k]) /\ Keeps(x, f[k], InUse(x))
    BY <2>2, <2>3, <2>4, DefineIsGood
  <2> QED BY <2>2, <2>5, KeepsOn
<1> HIDE DEF ok
<1>7. \A k \in 0 .. n : k \in ok
  BY <1>2, <1>5, <1>6, UpTo
<1>8. n \in ok
  BY <1>2, <1>7
<1> QED
  BY <1>4, <1>8 DEF ok

\* The recursion of Reach has a solution: a search that follows references.
LEMMA ReachSearches ==
    ASSUME NEW h, IsHeap(h)
    PROVE  \E f, more :
             /\ Growing(Addr, more) /\ Searches(f, Addr, more)
             /\ \A as \in SUBSET Addr : more[as] = as \cup UNION {RefsOf(h, a) : a \in as}
             /\ \A as \in SUBSET Addr : Reach(h, as) = f[as]
<1> DEFINE More(as) == as \cup UNION {RefsOf(h, a) : a \in as}
           Step(f) == [as \in SUBSET Addr |-> IF More(as) = as THEN as ELSE f[More(as)]]
           more == [as \in SUBSET Addr |-> More(as)]
           reach == CHOOSE f : f = Step(f)
<1>1. \A as \in SUBSET Addr : More(as) \in SUBSET Addr
  BY DEF IsHeap
<1>2. Growing(Addr, more)
  BY <1>1 DEF Growing
<1>3. \A f : Searches(f, Addr, more) <=> f = Step(f)
  <2> SUFFICES ASSUME NEW f
               PROVE  [as \in SUBSET Addr |-> IF more[as] = as THEN as ELSE f[more[as]]] = Step(f)
    BY DEF Searches
  <2>1. \A as \in SUBSET Addr : more[as] = More(as)
    OBVIOUS
  <2> HIDE DEF more, More
  <2> QED BY <2>1
<1>4. Searches(reach, Addr, more)
  <2>1. \E f : Searches(f, Addr, more)
    BY <1>2, SpreadingExists
  <2> HIDE DEF Step, more
  <2> QED BY <1>3, <2>1
<1>5. \A as \in SUBSET Addr : Reach(h, as) = reach[as]
  BY DEF Reach, RefsOf
<1>6. \A as \in SUBSET Addr : more[as] = as \cup UNION {RefsOf(h, a) : a \in as}
  OBVIOUS
<1> HIDE DEF reach, more
<1> QED
  BY <1>2, <1>4, <1>5, <1>6

\* What can be reached from some addresses holds them, no reference leaves it,
\* and it is the least such set.
LEMMA ReachIsClosed ==
    ASSUME NEW h, IsHeap(h), NEW from \in SUBSET Addr
    PROVE  /\ Reach(h, from) \in SUBSET Addr
           /\ from \subseteq Reach(h, from)
           /\ Closed(h, Reach(h, from))
           /\ \A set \in SUBSET Addr : from \subseteq set /\ Closed(h, set) => Reach(h, from) \subseteq set
<1>1. PICK f, more :
        /\ Growing(Addr, more) /\ Searches(f, Addr, more)
        /\ \A as \in SUBSET Addr : more[as] = as \cup UNION {RefsOf(h, a) : a \in as}
        /\ \A as \in SUBSET Addr : Reach(h, as) = f[as]
  BY ReachSearches
<1>2. ASSUME NEW set \in SUBSET Addr PROVE Closed(h, set) <=> more[set] = set
  <2>1. more[set] = set \cup UNION {RefsOf(h, a) : a \in set}
    BY <1>1
  <2>2. Closed(h, set) <=> UNION {RefsOf(h, a) : a \in set} \subseteq set
    BY DEF Closed
  <2> QED BY <2>1, <2>2
<1>3. IsFiniteSet(Addr)
  BY HeapAssumption, FS_Interval DEF Addr
<1>4. /\ f[from] \in SUBSET Addr /\ from \subseteq f[from] /\ more[f[from]] = f[from]
      /\ \A set \in SUBSET Addr : from \subseteq set /\ more[set] = set => f[from] \subseteq set
  BY <1>1, <1>3, SpreadingIsLeast
<1> QED
  BY <1>1, <1>2, <1>4

\* A collection keeps what the roots reach, and leaves a heap that is as good.
LEMMA SweptKeeps ==
    ASSUME NEW h, GoodHeap(h), NEW roots, \A v \in roots : Good(h, v)
    PROVE  LET reached == Reach(h, Addresses(roots)) IN
           /\ GoodHeap(Swept(h, roots)) /\ Keeps(h, Swept(h, roots), reached)
           /\ reached \in SUBSET InUse(h)
           /\ \A v \in roots : Within(reached, v)
<1>1. PICK as, reached : as = Addresses(roots) /\ reached = Reach(h, as)
  OBVIOUS
<1>2. as \in SUBSET InUse(h) /\ \A v \in roots : Within(as, v)
  BY <1>1 DEF Good, Within, Addresses
<1>3. /\ InUse(h) \in SUBSET Addr /\ Closed(h, InUse(h)) /\ IsHeap(h)
      /\ \A a \in Addr : RefsOf(h, a) \subseteq InUse(h)
  BY UseIsClosed
<1>4. /\ reached \in SUBSET Addr /\ as \subseteq reached /\ Closed(h, reached)
      /\ reached \subseteq InUse(h)
  BY <1>1, <1>2, <1>3, ReachIsClosed
<1>5. PICK g : g = Swept(h, roots)
  OBVIOUS
<1>6. DOMAIN g = Addr /\ \A a \in Addr : g[a] = IF a \in reached THEN h[a] ELSE Free
  BY <1>1, <1>5 DEF Swept
<1>7. Keeps(h, g, reached)
  BY <1>4, <1>6 DEF Keeps
<1>8. ASSUME NEW a \in Addr PROVE CellOK(g, g[a])
  <2>1. CASE a \in reached
    <3>1. PICK c : c = h[a]
      OBVIOUS
    <3>2. CellOK(h, c) /\ RefsOf(h, a) \subseteq reached
      BY <1>4, <2>1, <3>1 DEF GoodHeap, Closed
    <3>3. \A i \in 1 .. Len(c.refs) : Within(reached, c.refs[i])
      <4>1. Sequence(c.refs)
        BY <3>2 DEF CellOK
      <4>2. \A b : b \in RefsOf(h, a) <=> \E i \in 1 .. Len(c.refs) : IsObj(c.refs[i]) /\ c.refs[i][2] = b
        BY <3>1, <4>1, AddressesAre DEF RefsOf
      <4> QED BY <3>2, <4>2 DEF Within
    <3>4. CellOK(g, c)
      BY <1>7, <3>2, <3>3, KeptCell
    <3> QED BY <1>6, <2>1, <3>1, <3>4
  <2>2. CASE a \notin reached
    <3>1. g[a] = Free
      BY <1>6, <2>2
    <3>2. Sequence(<<>>) /\ Len(<<>>) = 0
      BY EmptySeq DEF Sequence
    <3> QED BY <3>1, <3>2 DEF CellOK, Free, Cell
  <2> QED BY <2>1, <2>2
<1>9. Nested(g)
  <2>1. PICK depth \in [Addr -> Nat] : \A a \in Addr :
            h[a].kind = "ENV" /\ IsObj(h[a].refs[1]) => depth[h[a].refs[1][2]] < depth[a]
    BY DEF GoodHeap, Nested
  <2>2. \A a \in Addr : g[a].kind = "ENV" => g[a] = h[a]
    BY <1>6 DEF Free, Cell
  <2> QED BY <2>1, <2>2 DEF Nested
<1>10. GoodHeap(g)
  BY <1>6, <1>8, <1>9 DEF GoodHeap
<1> QED
  BY <1>1, <1>2, <1>4, <1>5, <1>7, <1>10 DEF Within

-----------------------------------------------------------------------------
(***************************************************************************)
(* What a frame holds, and where it is protected.                          *)
(***************************************************************************)
FormOf(p, f) == p[f.saves[1] + 1]
EnvOf(p, f) == p[f.saves[1] + 2]
Third(p, f) == p[f.saves[1] + 3]

\* Where the invocation is evaluating a procedure call.
InCall == {"arg", "apply", "cons", "frame", "list", "bind", "push", "rest", "body"}

\* The cursor is inside the form, or inside the closure; a list that is being
\* built has a slot of its own.
HoldsCur(h, p, f) ==
    /\ f.pc = "seq" => \/ Under(h, FormOf(p, f), f.cur)
                       \/ Len(f.saves) = 2 /\ Under(h, Third(p, f), f.cur)
    /\ f.pc \in {"frame", "bind"} => Under(h, Third(p, f), f.cur)
    /\ f.pc = "list" => f.cur = p[f.saves[1] + 4 + f.argc]
    /\ f.pc \in {"push", "rest"} => f.cur = p[f.saves[1] + 5 + f.argc]
    /\ f.pc \notin {"seq", "frame", "bind", "list", "push", "rest"} => Under(h, FormOf(p, f), f.cur)

\* The inner frame has a slot, but for that of a closure whose body of several
\* forms is being evaluated.
HoldsInner(h, p, f) ==
    /\ f.pc \in {"bind", "push", "rest"} => f.inner = p[f.saves[1] + 4 + f.argc]
    /\ f.pc = "init" => f.inner = Third(p, f)
    /\ f.pc = "seq" => \/ f.inner = EnvOf(p, f)
                       \/ Len(f.saves) = 2 /\ f.inner = Third(p, f)
                       \/ /\ Len(f.saves) = 2 /\ IsA(h, Third(p, f), "CLOSURE")
                          /\ IsPair(h, h[Third(p, f)[2]].refs[2])
                          /\ MoreThanOne(h, h[Third(p, f)[2]].refs[2])
    /\ f.pc \in {"bind", "push", "rest", "init", "seq", "body"} =>
          IsA(h, f.inner, "ENV") /\ Good(h, f.inner)
    /\ f.pc \notin {"bind", "push", "rest", "init", "seq", "body"} => f.inner = Nil

\* The procedure and its operands have slots.
HoldsCall(h, p, f) ==
    /\ f.pc \in InCall => f.proc = Third(p, f)
    /\ f.pc \notin InCall => \/ f.proc = Nil
                             \/ f.pc = "seq" /\ Len(f.saves) = 2 /\ f.proc = Third(p, f)
    /\ f.pc \in {"frame", "bind", "push", "rest", "body"} => IsA(h, Third(p, f), "CLOSURE")
    /\ \A k \in 1 .. Len(f.argv) :
          \E i \in 1 .. Operands(f) : f.argv[k] = p[f.saves[1] + 3 + i]

\* What the handler has checked, and need not check again.
Ready(h, p, f) ==
    /\ f.pc = "if" => HasLength(h, f.args, {2, 3})
    /\ f.pc \in {"let", "init"} => IsPair(h, f.args) /\ IsList(h, f.cur)
    /\ f.pc \in {"seq", "chain"} => IsPair(h, f.cur)
    /\ f.pc = "cond" => IsList(h, f.cur) /\ IsPair(h, f.cur) /\ IsPair(h, Car(h, f.cur))
    /\ f.pc = "head" => f.cur = f.args
    /\ f.pc = "arg" => \A m \in 0 .. f.argc - Len(f.argv) - 1 : IsPair(h, Behind(h, f.cur, m))
    /\ f.pc \in {"apply", "cons", "frame"} => Len(f.argv) = f.argc
    /\ f.pc = "cons" => f.argc = 2
    /\ f.pc = "closure" => IsA(h, p[f.saves[1] + 5], "ENV")
    /\ f.pc \in {"frame", "bind"} =>
          \E n \in 0 .. Len(f.argv) : /\ Spans(h, f.cur, n)
                                      /\ Behind(h, f.cur, n) = Nil => n = Len(f.argv)
    /\ f.pc = "rest" => f.argv # <<>>

FrameOK(h, p, f) ==
    /\ Sequence(f.argv)
    /\ IsA(h, EnvOf(p, f), "ENV")
    /\ f.env = IF f.pc = "loop" THEN Nil ELSE EnvOf(p, f)
    /\ Under(h, FormOf(p, f), f.args)
    /\ HoldsCur(h, p, f) /\ HoldsInner(h, p, f) /\ HoldsCall(h, p, f) /\ Ready(h, p, f)

\* The slots of a frame.
OwnSlots(f) == f.saves[1] + 1 .. End(f)

\* The slots that the description of a frame refers to are its own.
LEMMA SlotsAre ==
    ASSUME NEW f, Frame(f)
    PROVE  /\ f.saves[1] + 1 \in OwnSlots(f) /\ f.saves[1] + 2 \in OwnSlots(f)
           /\ f.pc \in InCall \cup {"init"} => f.saves[1] + 3 \in OwnSlots(f)
           /\ f.pc = "seq" /\ Len(f.saves) = 2 => f.saves[1] + 3 \in OwnSlots(f)
           /\ f.pc = "closure" => f.saves[1] + 5 \in OwnSlots(f)
           /\ f.pc \in {"list", "bind", "push", "rest"} => f.saves[1] + 4 + f.argc \in OwnSlots(f)
           /\ f.pc \in {"push", "rest"} => f.saves[1] + 5 + f.argc \in OwnSlots(f)
           /\ \A i \in 1 .. Operands(f) : f.saves[1] + 3 + i \in OwnSlots(f)
           /\ f.pc = "arg" => Operands(f) = Len(f.argv)
           /\ f.pc \in InCall \ {"arg", "body"} => Operands(f) = f.argc
           /\ f.pc \notin InCall \ {"body"} => Operands(f) = 0
           /\ Operands(f) \in Nat
<1>1. PICK sp \in Nat, argc \in Nat : sp = f.saves[1] /\ argc = f.argc
  BY DEF Frame
<1>2. /\ f.pc \notin InCall \ {"body"} => Operands(f) = 0
      /\ f.pc = "arg" => Operands(f) = Len(f.argv)
      /\ f.pc \in InCall \ {"arg", "body"} => Operands(f) = argc
  <2>1. f.pc \in {"loop", "head", "let", "if", "define", "set!", "chain", "cond", "seq", "closure",
                  "init", "body"} \cup InCall
    BY DEF Frame, Shape, InCall
  <2> QED BY <1>1, <2>1 DEF Operands, InCall
<1>3. f.pc = "arg" => Len(f.argv) \in Nat
  BY LenProperties DEF Frame, Shape, Sequence
<1>4. PICK n \in Nat, m \in Nat : n = Operands(f) /\ m = Slots(f)
  BY <1>1, <1>2, <1>3, SlotsAreCounted DEF InCall
<1>5. /\ m >= 2
      /\ f.pc \in {"init", "body"} => m = 3
      /\ f.pc = "seq" /\ Len(f.saves) = 2 => m = 3
      /\ f.pc = "closure" => m = 5
      /\ f.pc = "arg" => m = 3 + n
      /\ f.pc \in {"apply", "cons", "frame"} => m = 3 + argc
      /\ f.pc \in {"list", "bind"} => m = 4 + argc
      /\ f.pc = "push" => m = 5 + argc
      /\ f.pc = "rest" => m = 6 + argc
  <2>1. f.pc = "seq" /\ Len(f.saves) = 2 => m = 1 + 2
    BY <1>4, SlotsAreCounted
  <2> QED BY <1>1, <1>2, <1>4, <2>1, SlotsAreCounted DEF InCall
<1>6. /\ f.pc \in InCall \cup {"init"} => m >= 3
      /\ f.pc = "seq" /\ Len(f.saves) = 2 => m >= 3
      /\ f.pc \in {"list", "bind", "push", "rest"} => m >= 4 + argc
      /\ f.pc \in {"push", "rest"} => m >= 5 + argc
  <2>1. CASE f.pc \in {"init", "body", "seq", "arg"}
    BY <1>1, <1>4, <1>5, <2>1 DEF InCall
  <2>2. CASE f.pc \in {"apply", "cons", "frame", "list", "bind"}
    BY <1>1, <1>4, <1>5, <2>2 DEF InCall
  <2>3. CASE f.pc \in {"push", "rest"}
    BY <1>1, <1>4, <1>5, <2>3 DEF InCall
  <2> QED BY <2>1, <2>2, <2>3 DEF InCall
<1>7. n # 0 => m >= 3 + n
  BY <1>1, <1>2, <1>4, <1>5 DEF InCall
<1>8. OwnSlots(f) = sp + 1 .. sp + m
  BY <1>1, <1>4 DEF OwnSlots, End
<1>9. \A i \in 1 .. n : sp + 3 + i \in OwnSlots(f)
  BY <1>7, <1>8
<1>10. \A i \in 1 .. m : sp + i \in OwnSlots(f)
  BY <1>8
<1>11. /\ sp + 1 \in OwnSlots(f) /\ sp + 2 \in OwnSlots(f)
       /\ m >= 3 => sp + 3 \in OwnSlots(f)
       /\ m >= 5 => sp + 5 \in OwnSlots(f)
       /\ m >= 4 + argc => sp + 4 + argc \in OwnSlots(f)
       /\ m >= 5 + argc => sp + 5 + argc \in OwnSlots(f)
  BY <1>5, <1>8
<1>12. f.pc = "closure" => m >= 5
  BY <1>5
<1> QED
  BY <1>1, <1>2, <1>4, <1>6, <1>9, <1>11, <1>12

\* A frame is as it was when its slots are, in a heap that keeps what they hold.
LEMMA FrameKept ==
    ASSUME NEW h, GoodHeap(h), NEW g, NEW set, Keeps(h, g, set),
           NEW p, NEW f, Frame(f), FrameOK(h, p, f), NEW q,
           \A i \in OwnSlots(f) : q[i] = p[i] /\ Within(set, p[i]),
           f.pc \in {"seq", "body"} => Within(set, f.inner)
    PROVE  FrameOK(g, q, f)
<1> DEFINE sp == f.saves[1]
           form == FormOf(p, f)
           env == EnvOf(p, f)
           third == Third(p, f)
<1>1. /\ FormOf(q, f) = form /\ Within(set, form)
      /\ EnvOf(q, f) = env /\ Within(set, env)
      /\ f.pc \in InCall \cup {"init"} => Third(q, f) = third /\ Within(set, third)
      /\ f.pc = "seq" /\ Len(f.saves) = 2 => Third(q, f) = third /\ Within(set, third)
      /\ f.pc = "closure" => q[sp + 5] = p[sp + 5] /\ Within(set, p[sp + 5])
      /\ f.pc \in {"list", "bind", "push", "rest"} =>
            q[sp + 4 + f.argc] = p[sp + 4 + f.argc] /\ Within(set, p[sp + 4 + f.argc])
      /\ f.pc \in {"push", "rest"} =>
            q[sp + 5 + f.argc] = p[sp + 5 + f.argc] /\ Within(set, p[sp + 5 + f.argc])
      /\ \A i \in 1 .. Operands(f) : q[sp + 3 + i] = p[sp + 3 + i] /\ Within(set, p[sp + 3 + i])
  BY SlotsAre DEF FormOf, EnvOf, Third
<1> HIDE DEF form, env, third
<1>2. /\ Sequence(f.argv) /\ IsA(h, env, "ENV") /\ f.env = IF f.pc = "loop" THEN Nil ELSE env
      /\ Under(h, form, f.args)
      /\ HoldsCur(h, p, f) /\ HoldsInner(h, p, f) /\ HoldsCall(h, p, f) /\ Ready(h, p, f)
  BY DEF FrameOK, form, env
<1>3. IsA(g, env, "ENV")
  BY <1>1, <1>2, KeptValue
<1>4. Under(g, form, f.args) /\ Within(set, f.args)
  BY <1>1, <1>2, KeptUnder
<1>5. HoldsCur(g, q, f) /\ Within(set, f.cur)
  <2>1. CASE f.pc = "seq"
    <3>1. Under(h, form, f.cur) \/ (Len(f.saves) = 2 /\ Under(h, third, f.cur))
      BY <1>2, <2>1 DEF HoldsCur, form, third
    <3>2. CASE Under(h, form, f.cur)
      <4>1. Under(g, form, f.cur) /\ Within(set, f.cur)
        BY <1>1, <3>2, KeptUnder
      <4> QED BY <1>1, <2>1, <4>1 DEF HoldsCur
    <3>3. CASE Len(f.saves) = 2 /\ Under(h, third, f.cur)
      <4>1. Under(g, third, f.cur) /\ Within(set, f.cur)
        BY <1>1, <2>1, <3>3, KeptUnder
      <4> QED BY <1>1, <2>1, <3>3, <4>1 DEF HoldsCur
    <3> QED BY <3>1, <3>2, <3>3
  <2>2. CASE f.pc \in {"frame", "bind"}
    <3>1. Under(h, third, f.cur)
      BY <1>2, <2>2 DEF HoldsCur, third
    <3>2. Under(g, third, f.cur) /\ Within(set, f.cur)
      BY <1>1, <2>2, <3>1, KeptUnder DEF InCall
    <3> QED BY <1>1, <2>2, <3>2 DEF HoldsCur, InCall
  <2>3. CASE f.pc \in {"list", "push", "rest"}
    BY <1>1, <1>2, <2>3 DEF HoldsCur
  <2>4. CASE f.pc \notin {"seq", "frame", "bind", "list", "push", "rest"}
    <3>1. Under(h, form, f.cur)
      BY <1>2, <2>4 DEF HoldsCur, form
    <3>2. Under(g, form, f.cur) /\ Within(set, f.cur)
      BY <1>1, <3>1, KeptUnder
    <3> QED BY <1>1, <2>4, <3>2 DEF HoldsCur
  <2> QED BY <2>1, <2>2, <2>3, <2>4
<1>6. HoldsInner(g, q, f)
  <2>1. f.pc \notin {"bind", "push", "rest", "init", "seq", "body"} => f.inner = Nil
    BY <1>2 DEF HoldsInner
  <2>2. /\ f.pc \in {"bind", "push", "rest"} => f.inner = p[sp + 4 + f.argc]
        /\ f.pc = "init" => f.inner = third
    BY <1>2 DEF HoldsInner, third
  <2>3. /\ f.pc \in {"bind", "push", "rest"} => f.inner = q[sp + 4 + f.argc]
        /\ f.pc = "init" => f.inner = Third(q, f)
    BY <1>1, <2>2
  <2>4. f.pc \in {"bind", "push", "rest", "init", "seq", "body"} =>
            IsA(g, f.inner, "ENV") /\ Good(g, f.inner)
    <3>1. f.pc \in {"bind", "push", "rest", "init", "seq", "body"} =>
              IsA(h, f.inner, "ENV") /\ Within(set, f.inner)
      BY <1>1, <1>2, <2>2 DEF HoldsInner
    <3> QED BY <3>1, KeptValue
  <2>5. f.pc = "seq" => \/ f.inner = env
                        \/ Len(f.saves) = 2 /\ f.inner = third
                        \/ /\ Len(f.saves) = 2 /\ IsA(g, third, "CLOSURE")
                           /\ IsPair(g, g[third[2]].refs[2])
                           /\ MoreThanOne(g, g[third[2]].refs[2])
    <3>1. f.pc = "seq" => \/ f.inner = env
                          \/ Len(f.saves) = 2 /\ f.inner = third
                          \/ /\ Len(f.saves) = 2 /\ IsA(h, third, "CLOSURE")
                             /\ IsPair(h, h[third[2]].refs[2])
                             /\ MoreThanOne(h, h[third[2]].refs[2])
      BY <1>2 DEF HoldsInner, env, third
    <3>2. ASSUME Within(set, third), IsA(h, third, "CLOSURE"), IsPair(h, h[third[2]].refs[2]),
                 MoreThanOne(h, h[third[2]].refs[2])
          PROVE  /\ IsA(g, third, "CLOSURE") /\ IsPair(g, g[third[2]].refs[2])
                 /\ MoreThanOne(g, g[third[2]].refs[2])
      <4>1. IsA(g, third, "CLOSURE") /\ Good(h, third)
        BY <3>2, KeptValue
      <4>2. PICK body : body = h[third[2]].refs[2]
        OBVIOUS
      <4>3. Under(h, third, body)
        BY <3>2, <4>1, <4>2, UnderClosure
      <4>4. Within(set, body)
        BY <3>2, <4>3, KeptUnder
      <4>5. g[third[2]] = h[third[2]]
        BY <3>2 DEF IsA, Within, Keeps
      <4>6. IsPair(h, body) /\ IsPair(h, Cdr(h, body))
        BY <3>2, <4>2 DEF MoreThanOne
      <4>7. IsPair(g, body) /\ Cdr(g, body) = Cdr(h, body) /\ Within(set, Cdr(h, body))
        BY <4>4, <4>6, KeptValue
      <4>8. IsPair(g, Cdr(g, body))
        BY <4>6, <4>7, KeptValue
      <4> QED BY <4>1, <4>2, <4>5, <4>7, <4>8 DEF MoreThanOne
    <3> QED BY <1>1, <3>1, <3>2
  <2> QED BY <1>1, <2>1, <2>3, <2>4, <2>5 DEF HoldsInner
<1>7. HoldsCall(g, q, f)
  <2>1. f.pc \in {"frame", "bind", "push", "rest", "body"} => IsA(g, Third(q, f), "CLOSURE")
    <3>1. f.pc \in {"frame", "bind", "push", "rest", "body"} => IsA(h, third, "CLOSURE")
      BY <1>2 DEF HoldsCall, third
    <3> QED BY <1>1, <3>1, KeptValue DEF InCall
  <2>2. \A k \in 1 .. Len(f.argv) : \E i \in 1 .. Operands(f) : f.argv[k] = q[sp + 3 + i]
    BY <1>1, <1>2 DEF HoldsCall
  <2>3. /\ f.pc \in InCall => f.proc = third
        /\ f.pc \notin InCall => f.proc = Nil \/ (f.pc = "seq" /\ Len(f.saves) = 2 /\ f.proc = third)
    BY <1>2 DEF HoldsCall, third
  <2> QED BY <1>1, <2>1, <2>2, <2>3 DEF HoldsCall
<1>8. Ready(g, q, f)
  <2>1. Ready(h, p, f)
    BY <1>2
  <2>2. /\ \A lengths : HasLength(g, f.args, lengths) <=> HasLength(h, f.args, lengths)
        /\ IsPair(g, f.args) <=> IsPair(h, f.args)
        /\ IsPair(g, f.cur) <=> IsPair(h, f.cur)
        /\ IsList(g, f.cur) <=> IsList(h, f.cur)
        /\ \A n \in Nat : Spans(g, f.cur, n) <=> Spans(h, f.cur, n)
    BY <1>4, <1>5, KeptList, KeptValue
  <2>3. f.pc = "cond" => IsPair(g, Car(g, f.cur))
    <3>1. f.pc = "cond" => IsPair(h, f.cur) /\ IsPair(h, Car(h, f.cur))
      BY <2>1 DEF Ready
    <3>2. IsPair(h, f.cur) => Car(g, f.cur) = Car(h, f.cur) /\ Within(set, Car(h, f.cur))
      BY <1>5, KeptValue
    <3> QED BY <3>1, <3>2, KeptValue
  <2>4. f.pc = "arg" => \A m \in 0 .. f.argc - Len(f.argv) - 1 : IsPair(g, Behind(g, f.cur, m))
    <3> SUFFICES ASSUME f.pc = "arg", NEW m \in 0 .. f.argc - Len(f.argv) - 1
                 PROVE  IsPair(g, Behind(g, f.cur, m))
      OBVIOUS
    <3>1. m \in Nat
      BY LenProperties DEF Frame, Shape, Sequence
    <3>2. IsPair(h, Behind(h, f.cur, m))
      BY <2>1 DEF Ready
    <3>3. Behind(g, f.cur, m) = Behind(h, f.cur, m) /\ Within(set, Behind(h, f.cur, m))
      BY <1>5, <3>1, KeptBehind
    <3> QED BY <3>2, <3>3, KeptValue
  <2>5. f.pc = "closure" => IsA(g, q[sp + 5], "ENV")
    <3>1. f.pc = "closure" => IsA(h, p[sp + 5], "ENV")
      BY <2>1 DEF Ready
    <3> QED BY <1>1, <3>1, KeptValue
  <2>6. f.pc \in {"frame", "bind"} =>
            \E n \in 0 .. Len(f.argv) : /\ Spans(g, f.cur, n)
                                        /\ Behind(g, f.cur, n) = Nil => n = Len(f.argv)
    <3>1. Len(f.argv) \in Nat
      BY <1>2, LenProperties DEF Sequence
    <3>2. \A n \in Nat : Behind(g, f.cur, n) = Behind(h, f.cur, n)
      BY <1>5, KeptBehind
    <3> QED BY <2>1, <2>2, <3>1, <3>2 DEF Ready
  <2> QED BY <2>1, <2>2, <2>3, <2>4, <2>5, <2>6 DEF Ready
<1> QED
  BY <1>1, <1>2, <1>3, <1>4, <1>5, <1>6, <1>7, <1>8 DEF FrameOK

\* What a frame holds is in the heap when its slots are.
LEMMA FrameHolds ==
    ASSUME NEW h, GoodHeap(h), NEW p, NEW f, Frame(f), FrameOK(h, p, f),
           \A i \in OwnSlots(f) : Good(h, p[i])
    PROVE  /\ Good(h, f.args) /\ Good(h, f.cur) /\ Good(h, f.env)
           /\ Good(h, f.inner) /\ Good(h, f.proc)
           /\ \A k \in 1 .. Len(f.argv) : Good(h, f.argv[k])
           /\ Good(h, FormOf(p, f)) /\ Good(h, EnvOf(p, f)) /\ IsA(h, EnvOf(p, f), "ENV")
           /\ f.pc \in InCall \cup {"init"} => Good(h, Third(p, f))
<1>1. Good(h, Nil)
  BY DEF Good, Within, Nil, IsObj
<1>2. /\ Good(h, FormOf(p, f)) /\ Good(h, EnvOf(p, f))
      /\ f.pc \in InCall \cup {"init"} => Good(h, Third(p, f))
      /\ f.pc = "seq" /\ Len(f.saves) = 2 => Good(h, Third(p, f))
      /\ f.pc \in {"list", "bind", "push", "rest"} => Good(h, p[f.saves[1] + 4 + f.argc])
      /\ f.pc \in {"push", "rest"} => Good(h, p[f.saves[1] + 5 + f.argc])
      /\ \A i \in 1 .. Operands(f) : Good(h, p[f.saves[1] + 3 + i])
  BY SlotsAre DEF FormOf, EnvOf, Third
<1>3. Good(h, f.args)
  BY <1>2, UnderIsGood DEF FrameOK
<1>4. Good(h, f.cur)
  <2>1. HoldsCur(h, p, f)
    BY DEF FrameOK
  <2>2. CASE f.pc = "seq"
    <3>1. CASE Under(h, FormOf(p, f), f.cur)
      BY <1>2, <3>1, UnderIsGood
    <3>2. CASE Len(f.saves) = 2 /\ Under(h, Third(p, f), f.cur)
      BY <1>2, <2>2, <3>2, UnderIsGood
    <3> QED BY <2>1, <2>2, <3>1, <3>2 DEF HoldsCur
  <2>3. CASE f.pc \in {"frame", "bind"}
    BY <1>2, <2>1, <2>3, UnderIsGood DEF HoldsCur, InCall
  <2>4. CASE f.pc \in {"list", "push", "rest"}
    BY <1>2, <2>1, <2>4 DEF HoldsCur
  <2>5. CASE f.pc \notin {"seq", "frame", "bind", "list", "push", "rest"}
    BY <1>2, <2>1, <2>5, UnderIsGood DEF HoldsCur
  <2> QED BY <2>2, <2>3, <2>4, <2>5
<1>5. Good(h, f.env)
  BY <1>1, <1>2 DEF FrameOK
<1>6. Good(h, f.inner)
  BY <1>1 DEF FrameOK, HoldsInner
<1>7. Good(h, f.proc)
  BY <1>1, <1>2 DEF FrameOK, HoldsCall
<1>8. \A k \in 1 .. Len(f.argv) : Good(h, f.argv[k])
  BY <1>2 DEF FrameOK, HoldsCall
<1>9. IsA(h, EnvOf(p, f), "ENV")
  BY DEF FrameOK
<1> QED
  BY <1>2, <1>3, <1>4, <1>5, <1>6, <1>7, <1>8, <1>9

-----------------------------------------------------------------------------
(***************************************************************************)
(* The state of the interpreter.                                           *)
(***************************************************************************)
Statuses == {"OK", "SYNTAX", "UNBOUND", "TYPE", "ARITY", "USER", "EVAL_DEPTH", "NOMEM"}

SoundHeap ==
    /\ GoodHeap(heap) /\ heap[1].kind = "ENV"
    /\ \A i \in 1 .. Len(protect) : Good(heap, protect[i])

SoundStack ==
    \A i \in 1 .. Len(stack) :
        /\ FrameOK(heap, protect, stack[i])
        /\ stack[i].pc = "init" /\ (i < Len(stack) \/ reg.mode # "run") => stack[i].cur # Nil

SoundReg ==
    /\ Good(heap, reg.form) /\ reg.status \in Statuses
    /\ reg.mode \in {"idle", "run"} => reg.form = Nil
    /\ reg.mode = "call" => IsA(heap, reg.env, "ENV") /\ Good(heap, reg.env)
    /\ reg.mode = "idle" /\ todo = <<>> => Good(heap, last_result)

Sound == SoundHeap /\ SoundStack /\ SoundReg

\* The frames are one behind the other on the protect stack.
LEMMA StackOrder ==
    ASSUME Inv
    PROVE  /\ Len(stack) \in Nat /\ Len(protect) \in Nat
           /\ \A i \in 1 .. Len(stack) : /\ Frame(stack[i]) /\ End(stack[i]) \in Nat
                                         /\ stack[i].saves[1] \in Nat
                                         /\ stack[i].saves[1] <= End(stack[i])
           /\ \A j \in 1 .. Len(stack) : \A i \in 1 .. j - 1 : End(stack[i]) <= stack[j].saves[1]
           /\ \A i \in 1 .. Len(stack) : End(stack[i]) <= Len(protect)
<1>1. PICK n, m : n = Len(stack) /\ m = Len(protect)
  OBVIOUS
<1>2. n \in Nat /\ m \in Nat /\ (stack = <<>> <=> n = 0)
  BY <1>1, LenProperties, EmptySeq DEF Inv, Sequence
<1>3. ASSUME NEW i \in 1 .. n
      PROVE  /\ Frame(stack[i]) /\ End(stack[i]) \in Nat /\ stack[i].saves[1] \in Nat
             /\ stack[i].saves[1] <= End(stack[i])
  <2>1. Frame(stack[i])
    BY <1>1 DEF Inv
  <2>2. Slots(stack[i]) \in Nat /\ stack[i].saves[1] \in Nat
    BY <2>1, SlotsAreCounted DEF Frame
  <2> QED BY <2>1, <2>2 DEF End
<1>4. \A i \in 1 .. n - 1 : End(stack[i]) = stack[i + 1].saves[1]
  BY <1>1, <1>2 DEF Inv, Layout
<1> DEFINE set == {j \in 0 .. n : \A i \in 1 .. j - 1 : End(stack[i]) <= stack[j].saves[1]}
<1>5. 0 \in set
  BY <1>2
<1>6. ASSUME NEW j \in 1 .. n, j - 1 \in set PROVE j \in set
  <2> SUFFICES ASSUME NEW i \in 1 .. j - 1 PROVE End(stack[i]) <= stack[j].saves[1]
    BY <1>2
  <2>1. j - 1 \in 1 .. n - 1 /\ (j - 1) + 1 = j /\ j - 1 \in 1 .. n /\ i \in 1 .. n
    BY <1>2
  <2>2. End(stack[j - 1]) = stack[j].saves[1]
    BY <1>4, <2>1
  <2>3. CASE i = j - 1
    BY <1>3, <2>1, <2>2, <2>3
  <2>4. CASE i # j - 1
    <3>1. i \in 1 .. (j - 1) - 1
      BY <1>2, <2>4
    <3>2. End(stack[i]) <= stack[j - 1].saves[1]
      BY <1>6, <3>1
    <3>3. stack[j - 1].saves[1] <= End(stack[j - 1])
      BY <1>3, <2>1
    <3>4. stack[j - 1].saves[1] \in Nat /\ End(stack[j - 1]) \in Nat /\ End(stack[i]) \in Nat
      BY <1>3, <2>1
    <3> QED BY <2>2, <3>2, <3>3, <3>4
  <2> QED BY <2>3, <2>4
<1> HIDE DEF set
<1>7. \A j \in 0 .. n : j \in set
  BY <1>2, <1>5, <1>6, UpTo
<1>8. \A j \in 1 .. n : \A i \in 1 .. j - 1 : End(stack[i]) <= stack[j].saves[1]
  BY <1>2, <1>7 DEF set
<1>9. \A i \in 1 .. n : End(stack[i]) <= m
  <2> SUFFICES ASSUME NEW i \in 1 .. n PROVE End(stack[i]) <= m
    OBVIOUS
  <2>1. n # 0 /\ End(stack[n]) = m
    BY <1>1, <1>2 DEF Inv, Layout
  <2>2. n \in 1 .. n /\ (i = n \/ i \in 1 .. n - 1)
    BY <1>2, <2>1
  <2>3. i \in 1 .. n - 1 => End(stack[i]) <= stack[n].saves[1]
    BY <1>8, <2>2
  <2>4. stack[n].saves[1] <= End(stack[n]) /\ stack[n].saves[1] \in Nat /\ End(stack[n]) \in Nat /\ End(stack[i]) \in Nat
    BY <1>3, <2>2
  <2> QED BY <2>1, <2>2, <2>3, <2>4
<1> QED
  BY <1>1, <1>2, <1>3, <1>8, <1>9

\* The first n frames are as they were when their slots are.
LEMMA FramesKept ==
    ASSUME Inv, Sound, NEW n \in 0 .. Len(stack), NEW top \in Nat, top <= Len(protect),
           \A i \in 1 .. n : End(stack[i]) <= top,
           NEW g, Keeps(heap, g, InUse(heap)), NEW q, \A i \in 1 .. top : q[i] = protect[i]
    PROVE  \A i \in 1 .. n : FrameOK(g, q, stack[i])
<1> SUFFICES ASSUME NEW i \in 1 .. n PROVE FrameOK(g, q, stack[i])
  OBVIOUS
<1>1. PICK f : f = stack[i]
  OBVIOUS
<1>2. i \in 1 .. Len(stack) /\ Len(protect) \in Nat
  BY StackOrder
<1>3. Frame(f) /\ End(f) \in Nat /\ f.saves[1] \in Nat /\ End(f) <= top
  BY <1>1, <1>2, StackOrder
<1>4. GoodHeap(heap) /\ FrameOK(heap, protect, f) /\ \A j \in 1 .. Len(protect) : Good(heap, protect[j])
  BY <1>1, <1>2 DEF Sound, SoundHeap, SoundStack
<1>5. \A j \in OwnSlots(f) : j \in 1 .. top /\ j \in 1 .. Len(protect)
  BY <1>2, <1>3 DEF OwnSlots
<1>6. \A j \in OwnSlots(f) : q[j] = protect[j] /\ Within(InUse(heap), protect[j])
  BY <1>4, <1>5 DEF Good
<1>7. f.pc \in {"seq", "body"} => Within(InUse(heap), f.inner)
  BY <1>4 DEF FrameOK, HoldsInner, Good
<1>8. FrameOK(g, q, f)
  BY <1>3, <1>4, <1>6, <1>7, FrameKept
<1> QED
  BY <1>1, <1>8

\* What is known of the invocation in control.
LEMMA TopHolds ==
    ASSUME Inv, Sound, stack # <<>>
    PROVE  /\ Len(stack) \in Nat \ {0} /\ Top = stack[Len(stack)] /\ Frame(Top)
           /\ Top.saves[1] \in Nat /\ Len(protect) \in Nat /\ Top.saves[1] + 2 <= Len(protect)
           /\ Len(protect) = End(Top)
           /\ \A i \in OwnSlots(Top) : i \in 1 .. Len(protect)
           /\ FrameOK(heap, protect, Top)
           /\ GoodHeap(heap) /\ \A i \in 1 .. Len(protect) : Good(heap, protect[i])
           /\ Good(heap, Top.args) /\ Good(heap, Top.cur) /\ Good(heap, Top.env)
           /\ Good(heap, Top.inner) /\ Good(heap, Top.proc)
           /\ \A k \in 1 .. Len(Top.argv) : Good(heap, Top.argv[k])
           /\ FormOf(protect, Top) = Form /\ EnvOf(protect, Top) = Env
           /\ Good(heap, Form) /\ Good(heap, Env) /\ IsA(heap, Env, "ENV")
           /\ Top.pc \in InCall \cup {"init"} => Good(heap, Third(protect, Top))
           /\ Good(heap, reg.form) /\ reg.status \in Statuses
           /\ Keeps(heap, heap, InUse(heap))
<1>1. /\ Len(stack) \in Nat \ {0} /\ Top = stack[Len(stack)] /\ Frame(Top)
      /\ Len(protect) \in Nat /\ Len(protect) = End(Top)
  BY TopIs
<1>2. /\ GoodHeap(heap) /\ \A i \in 1 .. Len(protect) : Good(heap, protect[i])
      /\ \A i \in 1 .. Len(stack) : FrameOK(heap, protect, stack[i])
      /\ Good(heap, reg.form) /\ reg.status \in Statuses
  BY DEF Sound, SoundHeap, SoundStack, SoundReg
<1>3. FrameOK(heap, protect, Top)
  BY <1>1, <1>2
<1>4. Top.saves[1] \in Nat /\ Slots(Top) \in Nat /\ Slots(Top) >= 2 /\ End(Top) = Top.saves[1] + Slots(Top)
  BY <1>1, SlotsAreCounted DEF Frame, End
<1>5. Top.saves[1] + 2 <= Len(protect) /\ \A i \in OwnSlots(Top) : i \in 1 .. Len(protect)
  BY <1>1, <1>4 DEF OwnSlots
<1>6. FormOf(protect, Top) = Form /\ EnvOf(protect, Top) = Env
  BY DEF FormOf, EnvOf, Form, Env
<1>7. PICK f : f = Top
  OBVIOUS
<1>8. /\ Good(heap, f.args) /\ Good(heap, f.cur) /\ Good(heap, f.env)
      /\ Good(heap, f.inner) /\ Good(heap, f.proc)
      /\ \A k \in 1 .. Len(f.argv) : Good(heap, f.argv[k])
      /\ Good(heap, FormOf(protect, f)) /\ Good(heap, EnvOf(protect, f))
      /\ IsA(heap, EnvOf(protect, f), "ENV")
      /\ f.pc \in InCall \cup {"init"} => Good(heap, Third(protect, f))
  BY <1>1, <1>2, <1>3, <1>5, <1>7, FrameHolds
<1>9. Keeps(heap, heap, InUse(heap))
  BY <1>2, KeepsOn
<1> QED
  BY <1>1, <1>2, <1>3, <1>4, <1>5, <1>6, <1>7, <1>8, <1>9, Zenon

\* The global environment stays one.
LEMMA GlobalStays ==
    ASSUME Sound, Keeps(heap, heap', InUse(heap))
    PROVE  heap'[1].kind = "ENV"
<1>1. 1 \in Addr
  BY MemoryAssumption, HeapAssumption, LenProperties DEF Addr, Primitives
<1>2. heap[1].kind = "ENV"
  BY DEF Sound, SoundHeap
<1> QED
  BY <1>1, <1>2 DEF Keeps, InUse

\* The top goes on with other locals.
LEMMA SoundGoes ==
    ASSUME Inv, Sound, stack # <<>>, NEW f, f.saves[1] = Top.saves[1],
           stack' = [stack EXCEPT ![Len(stack)] = f],
           GoodHeap(heap'), Keeps(heap, heap', InUse(heap)),
           \A i \in 1 .. Len(protect') : Good(heap', protect'[i]),
           \A i \in 1 .. Top.saves[1] : protect'[i] = protect[i],
           FrameOK(heap', protect', f), SoundReg', reg'.mode \in {"run", "call"},
           reg'.mode = "call" /\ f.pc = "init" => f.cur # Nil
    PROVE  Sound'
<1>1. PICK n, sp : n = Len(stack) /\ sp = Top.saves[1]
  OBVIOUS
<1>2. /\ n \in Nat \ {0} /\ Top = stack[n] /\ sp \in Nat /\ sp + 2 <= Len(protect) /\ Len(protect) \in Nat
  BY <1>1, TopHolds
<1>3. /\ Sequence([stack EXCEPT ![Len(stack)] = f]) /\ [stack EXCEPT ![Len(stack)] = f] # <<>>
      /\ Len([stack EXCEPT ![Len(stack)] = f]) = Len(stack)
      /\ \A i \in 1 .. Len(stack) - 1 : [stack EXCEPT ![Len(stack)] = f][i] = stack[i]
      /\ [stack EXCEPT ![Len(stack)] = f][Len(stack)] = f
  BY Topped, Zenon DEF Inv
<1>4. /\ Len(stack') = n /\ stack'[n] = f /\ \A i \in 1 .. n - 1 : stack'[i] = stack[i]
  BY <1>1, <1>3
<1>5. \A i \in 1 .. n - 1 : FrameOK(heap', protect', stack[i])
  <2>1. n \in 1 .. Len(stack) /\ n - 1 \in 0 .. Len(stack) /\ sp <= Len(protect)
    BY <1>1, <1>2
  <2>2. \A i \in 1 .. n - 1 : End(stack[i]) <= sp
    BY <1>1, <1>2, <2>1, StackOrder
  <2> QED BY <1>1, <1>2, <2>1, <2>2, FramesKept
<1>6. SoundStack'
  <2> SUFFICES ASSUME NEW i \in 1 .. Len(stack')
               PROVE  /\ FrameOK(heap', protect', stack'[i])
                      /\ stack'[i].pc = "init" /\ (i < Len(stack') \/ reg'.mode # "run") => stack'[i].cur # Nil
    BY DEF SoundStack
  <2>1. CASE i = n
    BY <1>2, <1>4, <2>1
  <2>2. CASE i # n
    <3>1. i \in 1 .. n - 1 /\ i \in 1 .. Len(stack) /\ i < Len(stack)
      BY <1>1, <1>2, <1>4, <2>2
    <3>2. stack[i].pc = "init" => stack[i].cur # Nil
      BY <3>1 DEF Sound, SoundStack
    <3> QED BY <1>4, <1>5, <3>1, <3>2
  <2> QED BY <2>1, <2>2
<1> QED
  BY <1>6, GlobalStays DEF Sound, SoundHeap

\* The top goes on, in control itself.
LEMMA SoundRuns ==
    ASSUME Inv, Sound, stack # <<>>, NEW f, f.saves[1] = Top.saves[1], Go(f),
           GoodHeap(heap'), Keeps(heap, heap', InUse(heap)),
           \A i \in 1 .. Len(protect') : Good(heap', protect'[i]),
           \A i \in 1 .. Top.saves[1] : protect'[i] = protect[i],
           FrameOK(heap', protect', f)
    PROVE  Sound'
<1>1. /\ reg' = Running /\ todo' = todo /\ stack' = [stack EXCEPT ![Len(stack)] = f]
      /\ last_result' = last_result
  BY DEF Go, SetTop, driverVars
<1>2. SoundReg' /\ reg'.mode = "run"
  BY <1>1 DEF SoundReg, Running, Good, Within, Nil, IsObj, Statuses
<1> QED
  BY <1>1, <1>2, SoundGoes

\* The top waits for an invocation.
LEMMA SoundCalls ==
    ASSUME Inv, Sound, stack # <<>>, NEW f, f.saves[1] = Top.saves[1],
           NEW form, NEW env, Call(f, form, env),
           GoodHeap(heap'), Keeps(heap, heap', InUse(heap)),
           \A i \in 1 .. Len(protect') : Good(heap', protect'[i]),
           \A i \in 1 .. Top.saves[1] : protect'[i] = protect[i],
           FrameOK(heap', protect', f),
           Good(heap, form), Good(heap, env), IsA(heap, env, "ENV"),
           f.pc = "init" => f.cur # Nil
    PROVE  Sound'
<1>1. /\ reg' = [mode |-> "call", status |-> "OK", form |-> form, env |-> env]
      /\ todo' = todo /\ stack' = [stack EXCEPT ![Len(stack)] = f]
      /\ last_result' = last_result
  BY DEF Call, SetTop, driverVars
<1>2. Good(heap', form) /\ Good(heap', env) /\ IsA(heap', env, "ENV")
  BY KeptIsGood DEF Sound, SoundHeap
<1>3. SoundReg' /\ reg'.mode = "call"
  BY <1>1, <1>2 DEF SoundReg, Statuses
<1> QED
  BY <1>1, <1>3, SoundGoes

\* The top returns.
LEMMA SoundReturns ==
    ASSUME Inv, Sound, stack # <<>>, NEW status \in Statuses, NEW value, Return(status, value),
           GoodHeap(heap'), Keeps(heap, heap', InUse(heap)), Good(heap', value)
    PROVE  Sound'
<1>1. PICK n, sp : n = Len(stack) /\ sp = Top.saves[1]
  OBVIOUS
<1>2. /\ n \in Nat \ {0} /\ Top = stack[n] /\ sp \in Nat /\ sp + 2 <= Len(protect) /\ Len(protect) \in Nat
      /\ GoodHeap(heap) /\ \A i \in 1 .. Len(protect) : Good(heap, protect[i])
  BY <1>1, TopHolds
<1>3. /\ protect' = SubSeq(protect, 1, sp) /\ stack' = Front(stack)
      /\ reg' = [mode |-> "return", status |-> status, form |-> value, env |-> Nil]
  BY <1>1 DEF Return, Kept
<1>4. Len(stack') = n - 1 /\ \A i \in 1 .. n - 1 : stack'[i] = stack[i]
  BY <1>1, <1>3, Popped DEF Inv
<1>5. sp <= Len(protect)
  BY <1>2
<1>6. Len(protect') = sp /\ \A i \in 1 .. sp : protect'[i] = protect[i]
  <2>1. /\ Len(SubSeq(protect, 1, sp)) = sp
        /\ \A i \in 1 .. sp : SubSeq(protect, 1, sp)[i] = protect[i]
    BY <1>2, <1>5, Cut DEF Inv
  <2> QED BY <1>3, <2>1
<1>7. \A i \in 1 .. Len(protect') : Good(heap', protect'[i])
  <2> SUFFICES ASSUME NEW i \in 1 .. sp PROVE Good(heap', protect'[i])
    BY <1>6
  <2>1. i \in 1 .. Len(protect)
    BY <1>2
  <2>2. Good(heap, protect[i])
    BY <1>2, <2>1
  <2>3. Good(heap', protect[i])
    BY <1>2, <2>2, KeptIsGood
  <2> QED BY <1>6, <2>3
<1>8. \A i \in 1 .. n - 1 : FrameOK(heap', protect', stack[i])
  <2>1. n \in 1 .. Len(stack) /\ n - 1 \in 0 .. Len(stack)
    BY <1>1, <1>2
  <2>2. \A i \in 1 .. n - 1 : End(stack[i]) <= sp
    BY <1>1, <1>2, <2>1, StackOrder
  <2> QED BY <1>2, <1>5, <1>6, <2>1, <2>2, FramesKept
<1>9. SoundStack'
  <2> SUFFICES ASSUME NEW i \in 1 .. Len(stack')
               PROVE  FrameOK(heap', protect', stack'[i]) /\ (stack'[i].pc = "init" => stack'[i].cur # Nil)
    BY DEF SoundStack
  <2>1. i \in 1 .. n - 1 /\ i \in 1 .. Len(stack) /\ i < Len(stack)
    BY <1>1, <1>2, <1>4
  <2>2. stack[i].pc = "init" => stack[i].cur # Nil
    BY <2>1 DEF Sound, SoundStack
  <2> QED BY <1>4, <1>8, <2>1, <2>2
<1>10. SoundReg'
  BY <1>3 DEF SoundReg
<1> QED
  BY <1>7, <1>9, <1>10, GlobalStays DEF Sound, SoundHeap

-----------------------------------------------------------------------------
(***************************************************************************)
(* The kinds of step, for the frames that the handlers make.               *)
(***************************************************************************)

\* Atoms are no cells.
LEMMA AtomsAreGood ==
    ASSUME NEW h
    PROVE  /\ Good(h, Nil) /\ Good(h, Undef) /\ \A b : Good(h, Bool(b))
           /\ \A n : Good(h, Fix(n))
           /\ \A root : Under(h, root, Nil)
BY DEF Good, Within, Under, Nil, Undef, Bool, True, False, Fix, IsObj

\* Nothing is protected, nothing is changed in the heap but bindings.
LEMMA SlotsStay ==
    ASSUME Inv, Sound, Keeps(heap, heap', InUse(heap)), protect' = protect
    PROVE  \A i \in 1 .. Len(protect') : Good(heap', protect'[i])
BY KeptIsGood DEF Sound, SoundHeap

\* One more value is protected.
LEMMA SlotsGrow ==
    ASSUME Inv, Sound, Keeps(heap, heap', InUse(heap)),
           NEW v, Good(heap', v), protect' = Append(protect, v)
    PROVE  /\ Len(protect) \in Nat /\ Len(protect') = Len(protect) + 1
           /\ \A i \in 1 .. Len(protect) : protect'[i] = protect[i]
           /\ protect'[Len(protect) + 1] = v
           /\ \A i \in 1 .. Len(protect') : Good(heap', protect'[i])
<1>1. /\ Len(protect) \in Nat /\ Len(protect') = Len(protect) + 1
      /\ \A i \in 1 .. Len(protect) : protect'[i] = protect[i]
      /\ protect'[Len(protect) + 1] = v
  BY Pushed DEF Inv
<1>2. GoodHeap(heap) /\ \A i \in 1 .. Len(protect) : Good(heap, protect[i])
  BY DEF Sound, SoundHeap
<1>3. ASSUME NEW i \in 1 .. Len(protect') PROVE Good(heap', protect'[i])
  <2>1. CASE i = Len(protect) + 1
    BY <1>1, <2>1
  <2>2. CASE i # Len(protect) + 1
    <3>1. i \in 1 .. Len(protect)
      BY <1>1, <2>2
    <3>2. Good(heap, protect[i])
      BY <1>2, <3>1
    <3>3. Good(heap', protect[i])
      BY <1>2, <3>2, KeptIsGood
    <3> QED BY <1>1, <3>1, <3>3
  <2> QED BY <2>1, <2>2
<1> QED
  BY <1>1, <1>3

\* A frame that is right in the heap before a step is right in the one after.
LEMMA FrameStays ==
    ASSUME NEW h, GoodHeap(h), NEW g, Keeps(h, g, InUse(h)), NEW p, NEW f, Frame(f),
           FrameOK(h, p, f), \A i \in OwnSlots(f) : Good(h, p[i])
    PROVE  FrameOK(g, p, f)
<1>1. f.pc \in {"seq", "body"} => Within(InUse(h), f.inner)
  BY DEF FrameOK, HoldsInner, Good
<1>2. \A i \in OwnSlots(f) : p[i] = p[i] /\ Within(InUse(h), p[i])
  BY DEF Good
<1> QED
  BY <1>1, <1>2, FrameKept

\* The top waits, with the slots it had.
LEMMA SoundWaits ==
    ASSUME Inv, Sound, stack # <<>>, NEW f, Frame(f), f.saves[1] = Top.saves[1],
           End(f) = Len(protect), FrameOK(heap, protect, f), UNCHANGED protect,
           NEW form, NEW env, Call(f, form, env),
           GoodHeap(heap'), Keeps(heap, heap', InUse(heap)),
           Good(heap, form), Good(heap, env), IsA(heap, env, "ENV"),
           f.pc = "init" => f.cur # Nil
    PROVE  Sound'
<1>1. /\ GoodHeap(heap) /\ \A i \in 1 .. Len(protect) : Good(heap, protect[i])
      /\ Top.saves[1] \in Nat /\ Len(protect) \in Nat /\ Top.saves[1] + 2 <= Len(protect)
  BY TopHolds
<1>2. \A i \in OwnSlots(f) : i \in 1 .. Len(protect)
  BY <1>1 DEF OwnSlots
<1>3. FrameOK(heap', protect, f)
  BY <1>1, <1>2, FrameStays
<1>4. FrameOK(heap', protect', f)
  BY <1>3
<1>5. \A i \in 1 .. Top.saves[1] : protect'[i] = protect[i]
  OBVIOUS
<1>6. \A i \in 1 .. Len(protect') : Good(heap', protect'[i])
  BY SlotsStay
<1> QED
  BY <1>4, <1>5, <1>6, SoundCalls

\* The tail call.
LEMMA SoundContinues ==
    ASSUME Inv, Sound, stack # <<>>, NEW frame, Keep(frame) = Top.saves[1] + 2,
           NEW form, NEW env, Continue(frame, form, env),
           GoodHeap(heap'), Keeps(heap, heap', InUse(heap)),
           Good(heap, form), Good(heap, env), IsA(heap, env, "ENV")
    PROVE  Sound'
<1>1. PICK sp : sp = Top.saves[1]
  OBVIOUS
<1>2. /\ sp \in Nat /\ Len(protect) \in Nat /\ sp + 2 <= Len(protect)
      /\ GoodHeap(heap) /\ \A i \in 1 .. Len(protect) : Good(heap, protect[i])
  BY <1>1, TopHolds
<1>3. PICK kept, f : /\ kept = SubSeq(protect, 1, sp + 2) /\ f = LoopFrame(sp)
  OBVIOUS
<1>4. protect' = [kept EXCEPT ![sp + 1] = form, ![sp + 2] = env] /\ Go(f)
  BY <1>1, <1>3 DEF Continue, Kept
<1>5. Sequence(kept) /\ Len(kept) = sp + 2 /\ \A i \in 1 .. sp + 2 : kept[i] = protect[i]
  BY <1>2, <1>3, Cut DEF Inv
<1>6. DOMAIN kept = 1 .. sp + 2
  BY <1>5, LenProperties DEF Sequence
<1>7. /\ protect'[sp + 1] = form /\ protect'[sp + 2] = env
      /\ \A i \in 1 .. sp : protect'[i] = protect[i]
  BY <1>2, <1>4, <1>5, <1>6
<1>8. Len(protect') = sp + 2
  <2>1. PICK first : first = [kept EXCEPT ![sp + 1] = form]
    OBVIOUS
  <2>2. protect' = [first EXCEPT ![sp + 2] = env]
    BY <1>4, <2>1
  <2>3. Sequence([kept EXCEPT ![sp + 1] = form]) /\ Len([kept EXCEPT ![sp + 1] = form]) = Len(kept)
    BY <1>5, Patched, Zenon
  <2>4. Sequence(first) /\ Len(first) = sp + 2
    BY <1>5, <2>1, <2>3
  <2> QED BY <2>2, <2>4, Patched
<1>9. Good(heap', form) /\ Good(heap', env) /\ IsA(heap', env, "ENV")
  BY <1>2, KeptIsGood
<1>10. ASSUME NEW i \in 1 .. Len(protect') PROVE Good(heap', protect'[i])
  <2>1. CASE i \in 1 .. sp
    <3>1. Good(heap, protect[i])
      BY <1>2, <2>1
    <3>2. Good(heap', protect[i])
      BY <1>2, <3>1, KeptIsGood
    <3> QED BY <1>7, <2>1, <3>2
  <2>2. CASE i \notin 1 .. sp
    <3>1. i = sp + 1 \/ i = sp + 2
      BY <1>2, <1>8, <2>2
    <3> QED BY <1>7, <1>9, <3>1
  <2> QED BY <2>1, <2>2
<1>11. FrameOK(heap', protect', f)
  <2>1. /\ f.pc = "loop" /\ f.saves = <<sp>> /\ f.args = Nil /\ f.cur = Nil /\ f.env = Nil
        /\ f.inner = Nil /\ f.proc = Nil /\ f.argv = <<>>
    BY <1>3 DEF LoopFrame
  <2>2. f.saves[1] = sp /\ Sequence(f.argv) /\ Len(f.argv) = 0
    BY <2>1, EmptySeq DEF Sequence
  <2>3. EnvOf(protect', f) = env
    BY <1>7, <2>2 DEF EnvOf
  <2>4. \A root : Under(heap', root, Nil)
    BY AtomsAreGood
  <2>5. HoldsCur(heap', protect', f) /\ HoldsInner(heap', protect', f) /\ Ready(heap', protect', f)
    BY <2>1, <2>4 DEF HoldsCur, HoldsInner, Ready
  <2>6. HoldsCall(heap', protect', f)
    BY <2>1, <2>2 DEF HoldsCall, InCall
  <2> QED BY <1>9, <2>1, <2>2, <2>3, <2>4, <2>5, <2>6 DEF FrameOK
<1>12. f.saves[1] = Top.saves[1]
  BY <1>1, <1>2, <1>3, LoopFrameIs
<1> QED
  BY <1>1, <1>4, <1>7, <1>10, <1>11, <1>12, SoundRuns

\* The frame of a handler that protects nothing.
LEMMA PlainFrame ==
    ASSUME NEW h, NEW p, NEW f,
           f.pc \in {"head", "let", "if", "define", "set!", "chain", "cond", "closure"},
           f.argv = <<>>, f.env = EnvOf(p, f), IsA(h, EnvOf(p, f), "ENV"),
           Under(h, FormOf(p, f), f.args), Under(h, FormOf(p, f), f.cur),
           f.inner = Nil, f.proc = Nil, Ready(h, p, f)
    PROVE  FrameOK(h, p, f)
<1>1. Sequence(f.argv) /\ Len(f.argv) = 0
  BY EmptySeq DEF Sequence
<1>2. HoldsCur(h, p, f) /\ HoldsInner(h, p, f)
  BY DEF HoldsCur, HoldsInner
<1>3. HoldsCall(h, p, f)
  BY <1>1 DEF HoldsCall, InCall
<1> QED
  BY <1>1, <1>2, <1>3 DEF FrameOK

\* begin_tco.
LEMMA SoundBeginsTco ==
    ASSUME Inv, Sound, stack # <<>>, GoodHeap(heap'), Keeps(heap, heap', InUse(heap)),
           NEW frame, Frame(frame), frame.saves = Top.saves, frame.argc = 0, frame.argv = <<>>,
           Len(Top.saves) \in {1, 2}, Len(protect) = Top.saves[1] + 1 + Len(Top.saves),
           frame.env = Env, Under(heap, Form, frame.args),
           frame.proc = Nil \/ (Len(Top.saves) = 2 /\ frame.proc = Third(protect, Top)),
           NEW forms, Good(heap, forms),
           \/ Under(heap, Form, forms)
           \/ Len(Top.saves) = 2 /\ Under(heap, Third(protect, Top), forms),
           NEW env, Good(heap, env), IsA(heap, env, "ENV"),
           \/ env = Env
           \/ Len(Top.saves) = 2 /\ env = Third(protect, Top)
           \/ /\ Len(Top.saves) = 2 /\ IsA(heap, Third(protect, Top), "CLOSURE")
              /\ IsPair(heap, forms) /\ MoreThanOne(heap, forms) =>
                    LET body == heap[Third(protect, Top)[2]].refs[2]
                    IN  IsPair(heap, body) /\ MoreThanOne(heap, body),
           BeginTco(frame, forms, env)
    PROVE  Sound'
<1>1. /\ Frame(Top) /\ Top.saves[1] \in Nat /\ Len(protect) \in Nat
      /\ GoodHeap(heap) /\ IsA(heap, Env, "ENV")
  BY TopHolds
<1>2. ASSUME NEW status \in {"OK", "SYNTAX"}, NEW value \in {Undef}, Return(status, value)
      PROVE  Sound'
  BY <1>2, SoundReturns, AtomsAreGood DEF Statuses
<1>3. CASE IsList(heap, forms) /\ forms # Nil
  <2>1. IsPair(heap, forms)
    BY <1>1, <1>3, ListIs
  <2>2. Good(heap, Car(heap, forms))
    BY <1>1, <2>1, PairHas
  <2>3. CASE Continue(frame, Car(heap, forms), env)
    <3>1. Keep(frame) = Top.saves[1] + 2
      BY <1>1 DEF Keep, Frame, Shape
    <3>2. PICK form : form = Car(heap, forms)
      OBVIOUS
    <3> QED BY <2>2, <2>3, <3>1, <3>2, SoundContinues
  <2>4. CASE /\ MoreThanOne(heap, forms) /\ UNCHANGED protect
             /\ Call([frame EXCEPT !.pc = "seq", !.cur = forms, !.inner = env], Car(heap, forms), env)
    <3>1. PICK f, form : f = [frame EXCEPT !.pc = "seq", !.cur = forms, !.inner = env] /\ form = Car(heap, forms)
      OBVIOUS
    <3>2. /\ DOMAIN f = Fields /\ f.pc = "seq" /\ f.saves = Top.saves /\ f.argc = 0 /\ f.argv = <<>>
          /\ f.cur = forms /\ f.inner = env /\ f.env = Env /\ f.args = frame.args /\ f.proc = frame.proc
      BY <3>1 DEF Frame, Fields
    <3>3. Frame(f)
      BY <3>2 DEF Frame, Shape
    <3>4. End(f) = Len(protect)
      <4>1. Slots(f) = 1 + Len(f.saves)
        BY <3>2, <3>3, SlotsAreCounted
      <4>2. f.saves = Top.saves
        BY <3>2
      <4>3. End(f) = Top.saves[1] + (1 + Len(Top.saves))
        BY <4>1, <4>2 DEF End
      <4>4. PICK sp \in Nat, k \in Nat : sp = Top.saves[1] /\ k = Len(Top.saves)
        BY <1>1
      <4>5. Len(protect) = sp + 1 + k
        BY <4>4
      <4>6. sp + (1 + k) = sp + 1 + k
        OBVIOUS
      <4> QED BY <4>3, <4>4, <4>5, <4>6
    <3>5. Sequence(f.argv) /\ Len(f.argv) = 0
      BY <3>2, EmptySeq DEF Sequence
    <3>6. FormOf(protect, f) = Form /\ EnvOf(protect, f) = Env /\ Third(protect, f) = Third(protect, Top)
      BY <3>2 DEF FormOf, EnvOf, Third, Form, Env
    <3>7. HoldsCur(heap, protect, f) /\ Ready(heap, protect, f)
      BY <2>1, <3>2, <3>6 DEF HoldsCur, Ready
    <3>8. HoldsInner(heap, protect, f)
      BY <2>1, <2>4, <3>2, <3>6 DEF HoldsInner
    <3>9. HoldsCall(heap, protect, f)
      BY <3>2, <3>5, <3>6 DEF HoldsCall, InCall
    <3>10. FrameOK(heap, protect, f)
      BY <1>1, <3>2, <3>5, <3>6, <3>7, <3>8, <3>9 DEF FrameOK
    <3>11. Call(f, form, env) /\ Good(heap, form) /\ f.saves[1] = Top.saves[1] /\ f.pc # "init"
      BY <2>2, <2>4, <3>1, <3>2
    <3> QED BY <2>4, <3>3, <3>4, <3>10, <3>11, SoundWaits
  <2> QED BY <1>3, <2>3, <2>4 DEF BeginTco
<1> QED
  BY <1>2, <1>3 DEF BeginTco, Value, Fail

\* The top returns and leaves the heap alone.
LEMMA SoundEnds ==
    ASSUME Inv, Sound, stack # <<>>, heap' = heap,
           NEW status \in Statuses, NEW value, Good(heap, value), Return(status, value)
    PROVE  Sound'
<1>1. GoodHeap(heap) /\ Keeps(heap, heap, InUse(heap))
  BY TopHolds
<1> QED
  BY <1>1, SoundReturns

\* The frame of a form or of a call that has just been dispatched.
LEMMA LoadedHolds ==
    ASSUME Inv, Sound, stack # <<>>, Top.pc = "loop", IsPair(heap, Form), NEW pc
    PROVE  /\ Loaded(pc).pc = pc /\ Loaded(pc).saves = Top.saves
           /\ Loaded(pc).args = Rest /\ Loaded(pc).cur = Rest /\ Loaded(pc).env = Env
           /\ Loaded(pc).inner = Nil /\ Loaded(pc).proc = Nil /\ Loaded(pc).argv = <<>>
           /\ Loaded(pc).argc = 0 /\ DOMAIN Loaded(pc) = Fields
           /\ FormOf(protect, Loaded(pc)) = Form /\ EnvOf(protect, Loaded(pc)) = Env
           /\ Good(heap, Rest) /\ Under(heap, Form, Rest)
           /\ Good(heap, Car(heap, Form)) /\ Under(heap, Form, Car(heap, Form))
<1>1. /\ Frame(Top) /\ FrameOK(heap, protect, Top) /\ GoodHeap(heap) /\ Good(heap, Form)
  BY TopHolds
<1>2. DOMAIN Top = Fields /\ Top.argv = <<>> /\ Top.argc = 0
  BY <1>1 DEF Frame, Shape
<1>3. Top.inner = Nil /\ Top.proc = Nil
  BY <1>1 DEF FrameOK, HoldsInner, HoldsCall, InCall
<1>4. PICK f : f = Loaded(pc)
  OBVIOUS
<1>5. /\ f.pc = pc /\ f.saves = Top.saves /\ f.args = Rest /\ f.cur = Rest /\ f.env = Env
      /\ f.inner = Top.inner /\ f.proc = Top.proc /\ f.argv = Top.argv /\ f.argc = Top.argc
      /\ DOMAIN f = Fields
  BY <1>2, <1>4 DEF Loaded, Fields
<1>6. FormOf(protect, f) = Form /\ EnvOf(protect, f) = Env
  BY <1>5 DEF FormOf, EnvOf, Form, Env
<1>7. /\ Good(heap, Rest) /\ Good(heap, Car(heap, Form))
  BY <1>1, PairHas DEF Rest
<1>8. Under(heap, Form, Form)
  BY UnderItself
<1>9. Under(heap, Form, Rest) /\ Under(heap, Form, Car(heap, Form))
  BY <1>1, <1>8, UnderPair DEF Rest
<1> QED
  BY <1>2, <1>3, <1>4, <1>5, <1>6, <1>7, <1>9

\* The rest of an `and` or an `or`.
LEMMA SoundChain ==
    ASSUME Inv, Sound, stack # <<>>, heap' = heap,
           NEW f, Frame(f), f.pc = "chain", f.saves = Top.saves,
           Len(protect) = Top.saves[1] + 2, f.argv = <<>>, f.env = Env,
           Under(heap, Form, f.args), f.inner = Nil, f.proc = Nil,
           NEW args, Good(heap, args), Under(heap, Form, args), Chain(f, args)
    PROVE  Sound'
<1>1. /\ Frame(Top) /\ Top.saves[1] \in Nat /\ Len(protect) \in Nat /\ Good(heap, Env)
      /\ GoodHeap(heap) /\ IsA(heap, Env, "ENV") /\ Keeps(heap, heap, InUse(heap))
  BY TopHolds
<1>2. ASSUME NEW status \in {"OK", "SYNTAX"}, NEW value, Good(heap, value), Return(status, value)
      PROVE  Sound'
  BY <1>2, SoundEnds DEF Statuses
<1>3. Len(f.saves) = 1 /\ f.saves[1] \in Nat
  BY DEF Frame, Shape
<1>4. CASE IsList(heap, args) /\ args # Nil
  <2>1. IsPair(heap, args)
    BY <1>1, <1>4, ListIs
  <2>2. PICK form : form = Car(heap, args)
    OBVIOUS
  <2>3. Good(heap, form)
    BY <1>1, <2>1, <2>2, PairHas
  <2>4. CASE Continue(f, form, f.env)
    <3>1. Keep(f) = Top.saves[1] + 2
      BY <1>3 DEF Keep
    <3>2. PICK env : env = f.env
      OBVIOUS
    <3> QED BY <1>1, <2>3, <2>4, <3>1, <3>2, SoundContinues
  <2>5. CASE Call([f EXCEPT !.cur = args], form, f.env) /\ UNCHANGED protect
    <3>1. PICK g : g = [f EXCEPT !.cur = args]
      OBVIOUS
    <3>2. /\ Frame(g) /\ g.pc = "chain" /\ g.saves = Top.saves /\ End(g) = End(f)
      BY <3>1, CursorMoves
    <3>3. /\ g.argv = <<>> /\ g.env = Env /\ g.args = f.args /\ g.cur = args
          /\ g.inner = Nil /\ g.proc = Nil
      BY <3>1 DEF Frame, Fields
    <3>4. End(f) = Len(protect)
      BY <1>3, SlotsAreCounted DEF End
    <3>5. FormOf(protect, g) = Form /\ EnvOf(protect, g) = Env
      BY <3>2 DEF FormOf, EnvOf, Form, Env
    <3>6. Ready(heap, protect, g)
      BY <2>1, <3>2, <3>3 DEF Ready
    <3>7. FrameOK(heap, protect, g)
      BY <1>1, <3>2, <3>3, <3>5, <3>6, PlainFrame
    <3>8. PICK env : env = f.env
      OBVIOUS
    <3>9. Call(g, form, env) /\ Good(heap, env) /\ IsA(heap, env, "ENV")
      BY <1>1, <2>5, <3>1, <3>8
    <3> QED BY <1>1, <2>3, <2>5, <3>2, <3>4, <3>7, <3>9, SoundWaits
  <2> QED BY <1>4, <2>2, <2>4, <2>5 DEF Chain
<1> QED
  BY <1>2, <1>4, AtomsAreGood DEF Chain, Value, Fail

\* The next clause of a cond.
LEMMA SoundClause ==
    ASSUME Inv, Sound, stack # <<>>, heap' = heap,
           NEW f, Frame(f), f.pc = "cond", f.saves = Top.saves,
           Len(protect) = Top.saves[1] + 2, f.argv = <<>>, f.env = Env,
           Under(heap, Form, f.args), f.inner = Nil, f.proc = Nil,
           Good(heap, f.cur), Under(heap, Form, f.cur), IsList(heap, f.cur), Clause(f)
    PROVE  Sound'
<1>1. /\ Frame(Top) /\ Top.saves[1] \in Nat /\ Len(protect) \in Nat /\ Good(heap, Env)
      /\ GoodHeap(heap) /\ IsA(heap, Env, "ENV") /\ Keeps(heap, heap, InUse(heap))
  BY TopHolds
<1>2. ASSUME NEW status \in {"OK", "SYNTAX"}, NEW value, Good(heap, value), Return(status, value)
      PROVE  Sound'
  BY <1>2, SoundEnds DEF Statuses
<1>3. Len(f.saves) = 1 /\ f.saves[1] \in Nat /\ f.argc = 0
  BY DEF Frame, Shape
<1>4. CASE f.cur # Nil /\ IsPair(heap, Car(heap, f.cur))
  <2>1. IsPair(heap, f.cur)
    BY <1>1, <1>4, ListIs
  <2>2. PICK clause : clause = Car(heap, f.cur)
    OBVIOUS
  <2>3. Good(heap, clause) /\ Under(heap, Form, clause) /\ IsPair(heap, clause)
    BY <1>1, <1>4, <2>1, <2>2, PairHas, UnderPair
  <2>4. PICK test, body, env : test = Car(heap, clause) /\ body = Cdr(heap, clause) /\ env = f.env
    OBVIOUS
  <2>5. Good(heap, test) /\ Good(heap, body) /\ Under(heap, Form, body)
    BY <1>1, <2>3, <2>4, PairHas, UnderPair
  <2>6. CASE BeginTco(f, body, env)
    <3>1. Len(Top.saves) = 1 /\ Len(protect) = Top.saves[1] + 1 + Len(Top.saves)
      BY <1>1, <1>3
    <3>2. Good(heap, env) /\ IsA(heap, env, "ENV") /\ env = Env
      BY <1>1, <2>4
    <3> QED BY <1>1, <1>3, <2>5, <2>6, <3>1, <3>2, SoundBeginsTco
  <2>7. CASE Call(f, test, env) /\ UNCHANGED protect
    <3>1. End(f) = Len(protect)
      BY <1>3, SlotsAreCounted DEF End
    <3>2. FormOf(protect, f) = Form /\ EnvOf(protect, f) = Env
      BY DEF FormOf, EnvOf, Form, Env
    <3>3. Ready(heap, protect, f)
      BY <1>4, <2>1 DEF Ready
    <3>4. FrameOK(heap, protect, f)
      BY <1>1, <3>2, <3>3, PlainFrame
    <3>5. Good(heap, env) /\ IsA(heap, env, "ENV")
      BY <1>1, <2>4
    <3> QED BY <1>1, <2>5, <2>7, <3>1, <3>4, <3>5, SoundWaits
  <2> QED BY <1>4, <2>2, <2>4, <2>6, <2>7 DEF Clause
<1> QED
  BY <1>2, <1>4, AtomsAreGood DEF Clause, Value, Fail

\* The next binding of a let, or its body.
LEMMA SoundNextBinding ==
    ASSUME Inv, Sound, stack # <<>>, GoodHeap(heap'), Keeps(heap, heap', InUse(heap)),
           NEW f, Frame(f), f.pc = "init", f.saves = Top.saves,
           Len(protect) = Top.saves[1] + 3, f.argv = <<>>, f.env = Env,
           Under(heap, Form, f.args), IsPair(heap, f.args), Good(heap, f.args), f.proc = Nil,
           f.inner = Third(protect, Top), Good(heap, f.inner), IsA(heap, f.inner, "ENV"),
           Good(heap, f.cur), Under(heap, Form, f.cur), IsList(heap, f.cur), NextBinding(f)
    PROVE  Sound'
<1>1. /\ Frame(Top) /\ Top.saves[1] \in Nat /\ Len(protect) \in Nat /\ Good(heap, Env)
      /\ GoodHeap(heap) /\ IsA(heap, Env, "ENV")
  BY TopHolds
<1>2. Len(f.saves) = 2 /\ f.saves[1] \in Nat /\ f.argc = 0
  BY DEF Frame, Shape
<1>3. CASE Fail("SYNTAX")
  BY <1>3, SoundReturns, AtomsAreGood DEF Fail, Statuses
<1>4. CASE BeginTco(f, Cdr(heap, f.args), f.inner)
  <2>1. PICK forms, env : forms = Cdr(heap, f.args) /\ env = f.inner
    OBVIOUS
  <2>2. Good(heap, forms) /\ Under(heap, Form, forms)
    BY <1>1, <2>1, PairHas, UnderPair
  <2>3. Len(Top.saves) = 2 /\ Len(protect) = Top.saves[1] + 1 + Len(Top.saves)
    BY <1>1, <1>2
  <2>4. Good(heap, env) /\ IsA(heap, env, "ENV") /\ env = Third(protect, Top) /\ BeginTco(f, forms, env)
    BY <1>4, <2>1
  <2> QED BY <1>2, <2>2, <2>3, <2>4, SoundBeginsTco
<1>5. ASSUME f.cur # Nil, WellFormed(Car(heap, f.cur)), NEW env \in {f.env, f.inner},
             Call(f, Nth(heap, Car(heap, f.cur), 2), env), UNCHANGED protect
      PROVE  Sound'
  <2>1. IsPair(heap, f.cur)
    BY <1>1, <1>5, ListIs
  <2>2. PICK binding, form : binding = Car(heap, f.cur) /\ form = Nth(heap, binding, 2)
    OBVIOUS
  <2>3. Good(heap, binding) /\ Length(heap, binding) = 2
    BY <1>1, <1>5, <2>1, <2>2, PairHas DEF WellFormed, HasLength
  <2>4. 2 \in 1 .. Length(heap, binding)
    BY <2>3
  <2>5. Good(heap, form)
    BY <1>1, <2>2, <2>3, <2>4, NthIs
  <2>6. End(f) = Len(protect)
    BY <1>2, SlotsAreCounted DEF End
  <2>7. FormOf(protect, f) = Form /\ EnvOf(protect, f) = Env /\ Third(protect, f) = Third(protect, Top)
    BY DEF FormOf, EnvOf, Third, Form, Env
  <2>8. Sequence(f.argv) /\ Len(f.argv) = 0
    BY EmptySeq DEF Sequence
  <2>9. HoldsCur(heap, protect, f) /\ HoldsInner(heap, protect, f) /\ Ready(heap, protect, f)
    BY <2>7 DEF HoldsCur, HoldsInner, Ready
  <2>10. HoldsCall(heap, protect, f)
    BY <2>8 DEF HoldsCall, InCall
  <2>11. FrameOK(heap, protect, f)
    BY <1>1, <2>7, <2>8, <2>9, <2>10 DEF FrameOK
  <2>12. Good(heap, env) /\ IsA(heap, env, "ENV")
    BY <1>1, <1>5
  <2>13. Call(f, form, env)
    BY <1>5, <2>2
  <2> QED BY <1>5, <2>5, <2>6, <2>11, <2>12, <2>13, SoundWaits
<1> QED
  BY <1>3, <1>4, <1>5 DEF NextBinding

-----------------------------------------------------------------------------
(***************************************************************************)
(* The head of the loop.                                                   *)
(***************************************************************************)

\* make_closure before its allocation takes three slots.
LEMMA SoundPreparesClosure ==
    ASSUME Inv, Sound, stack # <<>>, heap' = heap, Top.pc = "loop", IsPair(heap, Form),
           NEW params, Good(heap, params), NEW body, Good(heap, body),
           PrepareClosure("closure", params, body)
    PROVE  Sound'
<1>1. /\ Frame(Top) /\ Top.saves[1] \in Nat /\ Len(protect) \in Nat /\ Len(protect) = End(Top)
      /\ Good(heap, Env) /\ GoodHeap(heap) /\ IsA(heap, Env, "ENV")
      /\ Keeps(heap, heap, InUse(heap)) /\ \A i \in 1 .. Len(protect) : Good(heap, protect[i])
      /\ FormOf(protect, Top) = Form /\ EnvOf(protect, Top) = Env
  BY TopHolds
<1>2. Len(protect) = Top.saves[1] + 2 /\ Sequence(Top.saves) /\ Len(Top.saves) = 1
  BY <1>1, LoadedIs DEF Frame
<1>3. CASE Fail("SYNTAX")
  BY <1>3, SoundEnds, AtomsAreGood DEF Fail, Statuses
<1>4. CASE /\ Go([Loaded("closure") EXCEPT !.saves = Append(@, Len(protect))])
           /\ protect' = protect \o <<params, body, Env>>
  <2>1. PICK l, f, n : /\ l = Loaded("closure") /\ n = Len(protect)
                       /\ f = [l EXCEPT !.saves = Append(@, n)]
    OBVIOUS
  <2>2. /\ l.pc = "closure" /\ l.saves = Top.saves /\ l.args = Rest /\ l.cur = Rest /\ l.env = Env
        /\ l.inner = Nil /\ l.proc = Nil /\ l.argv = <<>> /\ DOMAIN l = Fields
        /\ Under(heap, Form, Rest)
    BY <2>1, LoadedHolds
  <2>3. /\ f.pc = "closure" /\ f.saves = Append(Top.saves, n)
        /\ f.args = Rest /\ f.cur = Rest /\ f.env = Env
        /\ f.inner = Nil /\ f.proc = Nil /\ f.argv = <<>>
    BY <2>1, <2>2 DEF Fields
  <2>4. f.saves[1] = Top.saves[1]
    BY <1>2, <2>3, Saved
  <2>5. /\ Len(protect') = n + 3 /\ \A i \in 1 .. n : protect'[i] = protect[i]
        /\ protect'[n + 1] = params /\ protect'[n + 2] = body /\ protect'[n + 3] = Env
    BY <1>4, <2>1, PushedThrice DEF Inv
  <2>6. FormOf(protect', f) = Form /\ EnvOf(protect', f) = Env /\ protect'[f.saves[1] + 5] = Env
    <3>1. /\ Top.saves[1] + 1 \in 1 .. n /\ Top.saves[1] + 2 \in 1 .. n
          /\ Top.saves[1] + 5 = n + 3
      BY <1>1, <1>2, <2>1
    <3> QED BY <2>4, <2>5, <3>1 DEF FormOf, EnvOf, Form, Env
  <2>7. \A i \in 1 .. Len(protect') : Good(heap, protect'[i])
    <3>1. \A i \in 1 .. n + 3 : i \in 1 .. n \/ i = n + 1 \/ i = n + 2 \/ i = n + 3
      BY <1>1, <2>1
    <3> QED BY <1>1, <2>1, <2>5, <3>1
  <2>8. Ready(heap, protect', f)
    BY <1>1, <2>3, <2>6 DEF Ready
  <2>9. FrameOK(heap, protect', f)
    BY <1>1, <2>2, <2>3, <2>6, <2>8, PlainFrame
  <2>10. \A i \in 1 .. Top.saves[1] : protect'[i] = protect[i]
    <3>1. \A i \in 1 .. Top.saves[1] : i \in 1 .. n
      BY <1>1, <1>2, <2>1
    <3> QED BY <2>5, <3>1
  <2>11. Go(f)
    BY <1>4, <2>1
  <2>12. FrameOK(heap', protect', f) /\ \A i \in 1 .. Len(protect') : Good(heap', protect'[i])
    BY <2>7, <2>9
  <2> QED BY <1>1, <2>4, <2>10, <2>11, <2>12, SoundRuns
<1> QED
  BY <1>3, <1>4 DEF PrepareClosure

\* A form that has just been dispatched waits for its first part.
LEMMA SoundDispatches ==
    ASSUME Inv, Sound, stack # <<>>, heap' = heap, Top.pc = "loop", IsPair(heap, Form),
           NEW pc \in {"head", "if", "define", "set!"},
           pc = "if" => HasLength(heap, Rest, {2, 3}),
           NEW form, Good(heap, form), Call(Loaded(pc), form, Env), UNCHANGED protect
    PROVE  Sound'
<1>1. /\ Good(heap, Env) /\ GoodHeap(heap) /\ IsA(heap, Env, "ENV")
      /\ Keeps(heap, heap, InUse(heap))
  BY TopHolds
<1>2. PICK f, env : f = Loaded(pc) /\ env = Env
  OBVIOUS
<1>3. /\ f.pc = pc /\ f.saves = Top.saves /\ f.args = Rest /\ f.cur = Rest /\ f.env = Env
      /\ f.inner = Nil /\ f.proc = Nil /\ f.argv = <<>>
      /\ FormOf(protect, f) = Form /\ EnvOf(protect, f) = Env
      /\ Under(heap, Form, Rest)
  BY <1>2, LoadedHolds
<1>4. Frame(f) /\ End(f) = Len(protect)
  BY <1>2, LoadedIs
<1>5. Ready(heap, protect, f)
  BY <1>3 DEF Ready
<1>6. FrameOK(heap, protect, f)
  BY <1>1, <1>3, <1>5, PlainFrame
<1>7. Call(f, form, env) /\ Good(heap, env) /\ IsA(heap, env, "ENV")
  BY <1>1, <1>2
<1> QED
  BY <1>1, <1>3, <1>4, <1>6, <1>7, SoundWaits

\* The head of the loop: atoms, variables and the dispatch on the operator.
LEMMA SoundLoops ==
    ASSUME Inv, Sound,
           Atom \/ Variable \/ Quote \/ If \/ Begin \/ Lambda \/ DefineForm \/ SetBang
           \/ Let \/ AndOr \/ Cond \/ Operator
    PROVE  Sound'
<1>1. stack # <<>> /\ Top.pc = "loop" /\ heap' = heap
  BY DEF Atom, Variable, Quote, If, Begin, Lambda, DefineForm, SetBang, Let, AndOr, Cond,
         Operator, Special, Run, At
<1>2. /\ GoodHeap(heap) /\ Good(heap, Form) /\ Good(heap, Env) /\ IsA(heap, Env, "ENV")
      /\ Keeps(heap, heap, InUse(heap)) /\ \A i \in 1 .. Len(protect) : Good(heap, protect[i])
      /\ FormOf(protect, Top) = Form /\ EnvOf(protect, Top) = Env /\ Len(protect) \in Nat
  BY <1>1, TopHolds
<1>3. ~Atom /\ ~Variable => IsPair(heap, Form)
  BY DEF Atom, Variable, Quote, If, Begin, Lambda, DefineForm, SetBang, Let, AndOr, Cond,
         Operator, Special
<1>4. IsPair(heap, Form) =>
          /\ Good(heap, Rest) /\ Under(heap, Form, Rest)
          /\ Good(heap, Car(heap, Form)) /\ Under(heap, Form, Car(heap, Form))
  BY <1>1, LoadedHolds
<1>5. ASSUME NEW status \in {"OK", "SYNTAX", "UNBOUND"}, NEW value, Good(heap, value), Return(status, value)
      PROVE  Sound'
  BY <1>1, <1>5, SoundEnds DEF Statuses
<1>6. ASSUME NEW status \in {"SYNTAX", "UNBOUND"}, Fail(status)
      PROVE  Sound'
  BY <1>5, <1>6, AtomsAreGood DEF Fail
<1>7. ASSUME NEW n \in 1 .. Length(heap, Rest), IsPair(heap, Form)
      PROVE  Good(heap, Nth(heap, Rest, n))
  BY <1>2, <1>4, <1>7, NthIs
<1>8. ASSUME IsPair(heap, Form), NEW lengths, HasLength(heap, Rest, lengths), lengths \subseteq Nat \ {0}
      PROVE  /\ IsPair(heap, Rest) /\ Good(heap, Car(heap, Rest)) /\ Length(heap, Rest) \in lengths
  <2>1. Length(heap, Rest) \in lengths /\ IsList(heap, Rest)
    BY <1>8 DEF HasLength
  <2>2. IsPair(heap, Rest)
    BY <1>2, <1>4, <1>8, <2>1, ListIs
  <2> QED BY <1>2, <1>4, <1>8, <2>1, <2>2, PairHas
<1>9. CASE Atom
  BY <1>2, <1>5, <1>9 DEF Atom, Value
<1>10. CASE Variable
  <2>1. PICK frame : frame = Binder(heap, Env, Form)
    OBVIOUS
  <2>2. CASE frame # Nil
    <3>1. PICK name, env : name = Form /\ env = Env
      OBVIOUS
    <3>2. IsA(heap, frame, "ENV") /\ Good(heap, frame) /\ Slot(heap, frame, name) # 0
      BY <1>2, <2>1, <2>2, <3>1, BinderIs
    <3>3. Good(heap, Nil)
      BY AtomsAreGood
    <3>4. Good(heap, Lookup(heap, frame, name))
      BY <1>2, <3>2, <3>3, DefineIsGood
    <3> QED BY <1>5, <1>10, <2>1, <2>2, <3>1, <3>4 DEF Variable, Value
  <2> QED BY <1>6, <1>10, <2>1, <2>2 DEF Variable
<1>11. CASE Quote
  <2>1. HasLength(heap, Rest, {1}) => Good(heap, Car(heap, Rest))
    BY <1>3, <1>8, <1>11 DEF Quote, Special
  <2> QED BY <1>5, <1>6, <1>11, <2>1 DEF Quote, Value
<1>12. CASE If
  <2>1. IsPair(heap, Form)
    BY <1>12 DEF If, Special
  <2>2. CASE HasLength(heap, Rest, {2, 3}) /\ Call(Loaded("if"), Nth(heap, Rest, 1), Env) /\ UNCHANGED protect
    <3>1. Length(heap, Rest) \in {2, 3}
      BY <1>8, <2>1, <2>2
    <3>2. 1 \in 1 .. Length(heap, Rest)
      BY <3>1
    <3>3. PICK form : form = Nth(heap, Rest, 1)
      OBVIOUS
    <3>4. Good(heap, form)
      BY <1>7, <2>1, <3>2, <3>3
    <3> QED BY <1>1, <2>1, <2>2, <3>3, <3>4, SoundDispatches
  <2> QED BY <1>6, <1>12, <2>2 DEF If
<1>13. CASE SetBang
  <2>1. IsPair(heap, Form)
    BY <1>13 DEF SetBang, Special
  <2>2. CASE HasLength(heap, Rest, {2}) /\ Call(Loaded("set!"), Nth(heap, Rest, 2), Env) /\ UNCHANGED protect
    <3>1. Length(heap, Rest) \in {2}
      BY <1>8, <2>1, <2>2
    <3>2. 2 \in 1 .. Length(heap, Rest)
      BY <3>1
    <3>3. PICK form : form = Nth(heap, Rest, 2)
      OBVIOUS
    <3>4. Good(heap, form)
      BY <1>7, <2>1, <3>2, <3>3
    <3> QED BY <1>1, <2>1, <2>2, <3>3, <3>4, SoundDispatches
  <2> QED BY <1>6, <1>13, <2>2 DEF SetBang
<1>14. CASE Operator
  <2>1. IsPair(heap, Form)
    BY <1>14 DEF Operator
  <2>2. PICK form : form = Car(heap, Form)
    OBVIOUS
  <2>3. Call(Loaded("head"), form, Env) /\ UNCHANGED protect /\ Good(heap, form)
    BY <1>4, <1>14, <2>1, <2>2 DEF Operator
  <2> QED BY <1>1, <2>1, <2>3, SoundDispatches
<1>15. CASE Lambda
  <2>1. IsPair(heap, Form)
    BY <1>15 DEF Lambda, Special
  <2>2. CASE /\ IsList(heap, Rest) /\ Length(heap, Rest) >= 2
             /\ PrepareClosure("closure", Car(heap, Rest), Cdr(heap, Rest))
    <3>1. IsPair(heap, Rest)
      BY <1>2, <1>4, <2>1, <2>2, ListIs
    <3>2. PICK params, body : params = Car(heap, Rest) /\ body = Cdr(heap, Rest)
      OBVIOUS
    <3>3. Good(heap, params) /\ Good(heap, body)
      BY <1>2, <1>4, <2>1, <3>1, <3>2, PairHas
    <3> QED BY <1>1, <2>1, <2>2, <3>2, <3>3, SoundPreparesClosure
  <2> QED BY <1>6, <1>15, <2>2 DEF Lambda
<1>16. CASE DefineForm
  <2>1. IsPair(heap, Form)
    BY <1>16 DEF DefineForm, Special
  <2>2. CASE ~IsList(heap, Rest) \/ Length(heap, Rest) < 2
    BY <1>6, <1>16, <2>2 DEF DefineForm
  <2>3. CASE IsList(heap, Rest) /\ ~(Length(heap, Rest) < 2)
    <3>1. Length(heap, Rest) \in 0 .. HeapSize
      BY <1>2, <1>4, <2>1, LengthIs
    <3>2. Length(heap, Rest) \in Nat /\ Length(heap, Rest) >= 2
      BY <2>3, <3>1, HeapAssumption
    <3>3. IsPair(heap, Rest)
      BY <1>2, <1>4, <2>1, <2>3, <3>2, ListIs
    <3>4. PICK first : first = Car(heap, Rest)
      OBVIOUS
    <3>5. Good(heap, first) /\ Good(heap, Cdr(heap, Rest))
      BY <1>2, <1>4, <2>1, <3>3, <3>4, PairHas
    <3>6. CASE Call(Loaded("define"), Nth(heap, Rest, 2), Env) /\ UNCHANGED protect
      <4>1. 2 \in 1 .. Length(heap, Rest)
        BY <3>2
      <4>2. PICK form : form = Nth(heap, Rest, 2)
        OBVIOUS
      <4>3. Good(heap, form)
        BY <1>7, <2>1, <4>1, <4>2
      <4> QED BY <1>1, <2>1, <3>6, <4>2, <4>3, SoundDispatches
    <3>7. CASE IsPair(heap, first) /\ PrepareClosure("closure", Cdr(heap, first), Cdr(heap, Rest))
      <4>1. PICK params, body : params = Cdr(heap, first) /\ body = Cdr(heap, Rest)
        OBVIOUS
      <4>2. Good(heap, params) /\ Good(heap, body)
        BY <1>2, <3>5, <3>7, <4>1, PairHas
      <4> QED BY <1>1, <2>1, <3>7, <4>1, <4>2, SoundPreparesClosure
    <3> QED BY <1>6, <1>16, <2>3, <3>4, <3>6, <3>7 DEF DefineForm
  <2> QED BY <2>2, <2>3
<1>17. CASE Begin
  <2>1. PICK f, forms, env : f = Loaded("seq") /\ forms = Rest /\ env = Env
    OBVIOUS
  <2>2. IsPair(heap, Form)
    BY <1>17 DEF Begin, Special
  <2>3. /\ Frame(f) /\ f.saves = Top.saves /\ f.argc = 0 /\ Len(Top.saves) = 1
        /\ Len(protect) = Top.saves[1] + 2 /\ Top.saves[1] \in Nat
    BY <1>1, <2>1, LoadedIs, TopHolds
  <2>4. f.argv = <<>> /\ f.env = Env /\ f.args = Rest /\ f.proc = Nil
    BY <1>1, <2>1, <2>2, LoadedHolds
  <2>5. Len(protect) = Top.saves[1] + 1 + Len(Top.saves)
    BY <2>3
  <2>6. BeginTco(f, forms, env)
    BY <1>17, <2>1 DEF Begin
  <2>7. /\ Good(heap, forms) /\ Under(heap, Form, forms) /\ Under(heap, Form, f.args)
        /\ Good(heap, env) /\ IsA(heap, env, "ENV") /\ env = Env
    BY <1>2, <1>4, <2>1, <2>2, <2>4
  <2> QED BY <1>1, <1>2, <2>3, <2>4, <2>5, <2>6, <2>7, SoundBeginsTco
<1>18. CASE AndOr
  <2>1. PICK f, args : f = Loaded("chain") /\ args = Rest
    OBVIOUS
  <2>2. IsPair(heap, Form)
    BY <1>18 DEF AndOr, Special
  <2>3. /\ Frame(f) /\ f.saves = Top.saves /\ f.pc = "chain" /\ Len(protect) = Top.saves[1] + 2
    BY <1>1, <2>1, LoadedIs
  <2>4. f.argv = <<>> /\ f.env = Env /\ f.args = Rest /\ f.proc = Nil /\ f.inner = Nil
    BY <1>1, <2>1, <2>2, LoadedHolds
  <2>5. Chain(f, args) /\ Good(heap, args) /\ Under(heap, Form, args) /\ Under(heap, Form, f.args)
    BY <1>4, <1>18, <2>1, <2>2, <2>4 DEF AndOr
  <2> QED BY <1>1, <2>3, <2>4, <2>5, SoundChain
<1>19. CASE Cond
  <2>1. PICK f : f = Loaded("cond")
    OBVIOUS
  <2>2. IsPair(heap, Form)
    BY <1>19 DEF Cond, Special
  <2>3. /\ Frame(f) /\ f.saves = Top.saves /\ f.pc = "cond" /\ Len(protect) = Top.saves[1] + 2
    BY <1>1, <2>1, LoadedIs
  <2>4. /\ f.argv = <<>> /\ f.env = Env /\ f.args = Rest /\ f.proc = Nil /\ f.inner = Nil
        /\ f.cur = Rest
    BY <1>1, <2>1, <2>2, LoadedHolds
  <2>5. CASE IsList(heap, Rest) /\ Clause(f)
    <3>1. /\ Good(heap, f.cur) /\ Under(heap, Form, f.cur) /\ Under(heap, Form, f.args) /\ IsList(heap, f.cur)
      BY <1>4, <2>2, <2>4, <2>5
    <3> QED BY <1>1, <2>3, <2>4, <2>5, <3>1, SoundClause
  <2> QED BY <1>6, <1>19, <2>1, <2>5 DEF Cond
<1>20. CASE Let
  <2>1. PICK l, f : l = Loaded("let") /\ f = [l EXCEPT !.cur = Car(heap, Rest)]
    OBVIOUS
  <2>2. IsPair(heap, Form)
    BY <1>20 DEF Let, Special
  <2>3. CASE /\ IsList(heap, Rest) /\ Length(heap, Rest) >= 2 /\ IsList(heap, Car(heap, Rest))
             /\ Go(f) /\ UNCHANGED protect
    <3>1. /\ l.saves = Top.saves /\ l.pc = "let" /\ l.args = Rest /\ l.env = Env
          /\ l.argv = <<>> /\ l.proc = Nil /\ l.inner = Nil /\ DOMAIN l = Fields
      BY <1>1, <2>1, <2>2, LoadedHolds
    <3>2. /\ f.saves = Top.saves /\ f.pc = "let" /\ f.args = Rest /\ f.env = Env
          /\ f.argv = <<>> /\ f.proc = Nil /\ f.inner = Nil /\ f.cur = Car(heap, Rest)
      BY <2>1, <3>1 DEF Fields
    <3>3. IsPair(heap, Rest)
      BY <1>2, <1>4, <2>2, <2>3, ListIs
    <3>4. Under(heap, Form, f.cur)
      BY <1>2, <1>4, <2>2, <3>2, <3>3, UnderPair
    <3>5. FormOf(protect, f) = Form /\ EnvOf(protect, f) = Env
      BY <3>2 DEF FormOf, EnvOf, Form, Env
    <3>6. Ready(heap, protect, f)
      BY <2>3, <3>2, <3>3 DEF Ready
    <3>7. Under(heap, Form, f.args)
      BY <1>4, <2>2, <3>2
    <3>8. FrameOK(heap, protect, f)
      BY <1>2, <3>2, <3>4, <3>5, <3>6, <3>7, PlainFrame
    <3>9. FrameOK(heap', protect', f) /\ \A i \in 1 .. Len(protect') : Good(heap', protect'[i])
      BY <1>1, <1>2, <2>3, <3>8
    <3>10. \A i \in 1 .. Top.saves[1] : protect'[i] = protect[i]
      BY <2>3
    <3>11. f.saves[1] = Top.saves[1]
      BY <3>2
    <3> QED BY <1>1, <1>2, <2>3, <3>9, <3>10, <3>11, SoundRuns
  <2> QED BY <1>6, <1>20, <2>1, <2>3 DEF Let
<1> QED
  BY <1>9, <1>10, <1>11, <1>12, <1>13, <1>14, <1>15, <1>16, <1>17, <1>18, <1>19, <1>20

-----------------------------------------------------------------------------
(***************************************************************************)
(* Bodies, branches and bindings.                                          *)
(***************************************************************************)

\* What is known of a form that goes on.
LEMMA FormHolds ==
    ASSUME Inv, Sound, stack # <<>>,
           Top.pc \in {"if", "seq", "closure", "define", "set!", "let", "init", "chain", "cond", "body"}
    PROVE  /\ Top.argc = 0 /\ Top.argv = <<>> /\ Top.env = Env /\ Under(heap, Form, Top.args)
           /\ Top.saves[1] \in Nat /\ Sequence(Top.saves) /\ DOMAIN Top = Fields
           /\ Top.pc \in {"if", "define", "set!", "let", "chain", "cond"} =>
                 Len(Top.saves) = 1 /\ Len(protect) = Top.saves[1] + 2 /\ Top.inner = Nil
           /\ Top.pc \in {"init", "body", "closure"} => Len(Top.saves) = 2
           /\ Top.pc \in {"init", "body"} => Len(protect) = Top.saves[1] + 3
           /\ Top.pc = "closure" => Len(protect) = Top.saves[1] + 5
           /\ Top.pc \in {"seq", "body", "cond"} =>
                 Len(Top.saves) \in {1, 2} /\ Len(protect) = Top.saves[1] + 1 + Len(Top.saves)
           /\ Top.pc \notin {"seq", "body"} => Top.proc = Nil /\ Under(heap, Form, Top.cur)
           /\ Top.pc = "body" => Under(heap, Form, Top.cur)
<1>1. /\ Frame(Top) /\ Len(protect) = End(Top) /\ FrameOK(heap, protect, Top)
      /\ FormOf(protect, Top) = Form /\ EnvOf(protect, Top) = Env /\ Top.saves[1] \in Nat
  BY TopHolds
<1>2. Top.argc = 0 /\ Sequence(Top.saves) /\ DOMAIN Top = Fields
  BY <1>1 DEF Frame, Shape
<1>3. /\ Top.pc \in {"if", "define", "set!", "let", "chain", "cond"} => Len(Top.saves) = 1
      /\ Top.pc \in {"init", "body", "closure"} => Len(Top.saves) = 2
      /\ Top.pc = "seq" => Len(Top.saves) \in {1, 2}
  BY <1>1 DEF Frame, Shape
<1>4. Top.argv = <<>>
  <2>1. Operands(Top) = 0
    BY <1>1, SlotsAre DEF InCall
  <2>2. /\ Sequence(Top.argv)
        /\ \A k \in 1 .. Len(Top.argv) : \E i \in 1 .. Operands(Top) : TRUE
    BY <1>1 DEF FrameOK, HoldsCall
  <2>3. \A k \in 1 .. Len(Top.argv) : FALSE
    BY <2>1, <2>2
  <2>4. Len(Top.argv) \in Nat
    BY <2>2, LenProperties DEF Sequence
  <2>5. Len(Top.argv) = 0
    BY <2>3, <2>4
  <2>6. PICK S : Top.argv \in Seq(S)
    BY <2>2 DEF Sequence
  <2> QED BY <2>5, <2>6, EmptySeq
<1>5. PICK sp, n : sp \in Nat /\ sp = Top.saves[1] /\ n = Len(Top.saves)
  BY <1>1
<1>6. /\ Top.pc \in {"if", "define", "set!", "let", "chain", "cond"} => n = 1 /\ Len(protect) = sp + 2
      /\ Top.pc \in {"init", "body"} => n = 2 /\ Len(protect) = sp + 3
      /\ Top.pc = "closure" => n = 2 /\ Len(protect) = sp + 5
      /\ Top.pc = "seq" => n \in {1, 2} /\ Len(protect) = sp + (1 + n)
  BY <1>1, <1>3, <1>5, SlotsAreCounted DEF End
<1>7. Top.pc \in {"seq", "body", "cond"} => n \in {1, 2} /\ Len(protect) = sp + 1 + n
  <2>1. \A k \in {1, 2} : sp + (1 + k) = sp + 1 + k
    BY <1>5
  <2> QED BY <1>6, <2>1
<1>8. /\ Top.env = Env /\ Under(heap, Form, Top.args)
      /\ Top.pc \in {"if", "define", "set!", "let", "chain", "cond"} => Top.inner = Nil
      /\ Top.pc # "seq" => Under(heap, Form, Top.cur)
      /\ Top.pc \notin {"seq", "body"} => Top.proc = Nil
  BY <1>1 DEF FrameOK, HoldsCur, HoldsInner, HoldsCall, InCall
<1> QED
  BY <1>1, <1>2, <1>4, <1>5, <1>6, <1>7, <1>8

\* begin_tco from a form of its own, or from the body of a closure.
LEMMA SoundSequence ==
    ASSUME Inv, Sound, SeqNext \/ Body
    PROVE  Sound'
<1>1. stack # <<>> /\ Top.pc \in {"seq", "body"} /\ heap' = heap
  BY DEF SeqNext, Body, Returned, Run, At
<1>2. /\ Frame(Top) /\ FrameOK(heap, protect, Top) /\ GoodHeap(heap) /\ Keeps(heap, heap, InUse(heap))
      /\ FormOf(protect, Top) = Form /\ EnvOf(protect, Top) = Env /\ Good(heap, Form)
      /\ Good(heap, Top.cur) /\ Good(heap, Top.inner)
      /\ Top.pc \in InCall \cup {"init"} => Good(heap, Third(protect, Top))
  BY <1>1, TopHolds
<1>3. /\ Top.argc = 0 /\ Top.argv = <<>> /\ Top.env = Env /\ Under(heap, Form, Top.args)
      /\ Top.pc \in {"seq", "body", "cond"} =>
            Len(Top.saves) \in {1, 2} /\ Len(protect) = Top.saves[1] + 1 + Len(Top.saves)
      /\ Top.pc \in {"init", "body", "closure"} => Len(Top.saves) = 2
  BY <1>1, FormHolds
<1>4. IsA(heap, Top.inner, "ENV")
  BY <1>1, <1>2 DEF FrameOK, HoldsInner
<1>5. Top.proc = Nil \/ (Len(Top.saves) = 2 /\ Top.proc = Third(protect, Top))
  BY <1>1, <1>2, <1>3 DEF FrameOK, HoldsCall, InCall
<1>6. PICK f, env : f = Top /\ env = Top.inner
  OBVIOUS
<1>7. /\ Frame(f) /\ f.saves = Top.saves /\ f.argc = 0 /\ f.argv = <<>> /\ f.env = Env
      /\ Under(heap, Form, f.args)
      /\ f.proc = Nil \/ (Len(Top.saves) = 2 /\ f.proc = Third(protect, Top))
      /\ Good(heap, env) /\ IsA(heap, env, "ENV")
      /\ Len(Top.saves) \in {1, 2} /\ Len(protect) = Top.saves[1] + 1 + Len(Top.saves)
  BY <1>1, <1>2, <1>3, <1>4, <1>5, <1>6
<1>8. CASE SeqNext
  <2>1. Top.pc = "seq"
    BY <1>8 DEF SeqNext, Returned, At
  <2>2. PICK forms : forms = Cdr(heap, Top.cur)
    OBVIOUS
  <2>3. BeginTco(f, forms, env)
    BY <1>6, <1>8, <2>2 DEF SeqNext
  <2>4. IsPair(heap, Top.cur)
    BY <1>2, <2>1 DEF FrameOK, Ready
  <2>5. Good(heap, forms)
    BY <1>2, <2>2, <2>4, PairHas
  <2>6. \/ Under(heap, Form, forms)
        \/ Len(Top.saves) = 2 /\ Under(heap, Third(protect, Top), forms)
    <3>1. \/ Under(heap, Form, Top.cur)
          \/ Len(Top.saves) = 2 /\ Under(heap, Third(protect, Top), Top.cur)
      BY <1>2, <2>1 DEF FrameOK, HoldsCur
    <3> QED BY <1>2, <2>2, <2>4, <3>1, UnderPair
  <2>7. \/ env = Env
        \/ Len(Top.saves) = 2 /\ env = Third(protect, Top)
        \/ /\ Len(Top.saves) = 2 /\ IsA(heap, Third(protect, Top), "CLOSURE")
           /\ IsPair(heap, forms) /\ MoreThanOne(heap, forms) =>
                 LET body == heap[Third(protect, Top)[2]].refs[2]
                 IN  IsPair(heap, body) /\ MoreThanOne(heap, body)
    BY <1>2, <1>6, <2>1 DEF FrameOK, HoldsInner
  <2> QED BY <1>1, <1>2, <1>7, <2>3, <2>5, <2>6, <2>7, SoundBeginsTco
<1>9. CASE Body
  <2>1. Top.pc = "body"
    BY <1>9 DEF Body, Run, At
  <2>2. PICK forms : forms = ClosureBody
    OBVIOUS
  <2>3. BeginTco(f, forms, env)
    BY <1>6, <1>9, <2>2 DEF Body
  <2>4. /\ Top.proc = Third(protect, Top) /\ IsA(heap, Third(protect, Top), "CLOSURE")
        /\ Good(heap, Third(protect, Top)) /\ Len(Top.saves) = 2
    BY <1>2, <1>3, <2>1 DEF FrameOK, HoldsCall, InCall
  <2>5. forms = heap[Third(protect, Top)[2]].refs[2]
    BY <2>2, <2>4 DEF ClosureBody
  <2>6. Good(heap, forms) /\ Under(heap, Third(protect, Top), forms)
    BY <1>2, <2>4, <2>5, UnderClosure
  <2>7. IsPair(heap, forms) /\ MoreThanOne(heap, forms) =>
           LET body == heap[Third(protect, Top)[2]].refs[2]
           IN  IsPair(heap, body) /\ MoreThanOne(heap, body)
    BY <2>5
  <2> QED BY <1>1, <1>2, <1>7, <2>3, <2>4, <2>6, <2>7, SoundBeginsTco
<1> QED
  BY <1>8, <1>9

\* The branch of an if, and the next step of a chain or a cond.
LEMMA SoundBranches ==
    ASSUME Inv, Sound, IfChosen \/ ChainNext \/ CondNext
    PROVE  Sound'
<1>1. stack # <<>> /\ Top.pc \in {"if", "chain", "cond"} /\ heap' = heap
  BY DEF IfChosen, ChainNext, CondNext, Returned, At
<1>2. /\ Frame(Top) /\ FrameOK(heap, protect, Top) /\ GoodHeap(heap) /\ Keeps(heap, heap, InUse(heap))
      /\ FormOf(protect, Top) = Form /\ EnvOf(protect, Top) = Env /\ Good(heap, Form)
      /\ Good(heap, Top.args) /\ Good(heap, Top.cur) /\ Good(heap, Env) /\ IsA(heap, Env, "ENV")
      /\ Good(heap, reg.form)
  BY <1>1, TopHolds
<1>3. /\ Top.argc = 0 /\ Top.argv = <<>> /\ Top.env = Env /\ Under(heap, Form, Top.args)
      /\ Top.inner = Nil /\ Top.proc = Nil /\ Under(heap, Form, Top.cur)
      /\ Len(Top.saves) = 1 /\ Len(protect) = Top.saves[1] + 2
      /\ Len(Top.saves) \in {1, 2} /\ Top.saves[1] \in Nat
  BY <1>1, FormHolds
<1>4. ASSUME NEW status \in {"OK", "SYNTAX"}, NEW value, Good(heap, value), Return(status, value)
      PROVE  Sound'
  BY <1>1, <1>4, SoundEnds DEF Statuses
<1>5. PICK f, env : f = Top /\ env = Top.env
  OBVIOUS
<1>6. CASE IfChosen
  <2>1. Top.pc = "if"
    BY <1>6 DEF IfChosen, Returned, At
  <2>2. Length(heap, Top.args) \in {2, 3}
    BY <1>2, <2>1 DEF FrameOK, Ready, HasLength
  <2>3. ASSUME NEW n \in 1 .. Length(heap, Top.args), Continue(Top, Nth(heap, Top.args, n), Top.env)
        PROVE  Sound'
    <3>1. PICK form : form = Nth(heap, Top.args, n)
      OBVIOUS
    <3>2. Good(heap, form)
      BY <1>2, <3>1, NthIs
    <3>3. Keep(f) = Top.saves[1] + 2
      BY <1>3, <1>5 DEF Keep
    <3>4. Continue(f, form, env) /\ Good(heap, env) /\ IsA(heap, env, "ENV")
      BY <1>2, <1>3, <1>5, <2>3, <3>1
    <3> QED BY <1>1, <1>2, <3>2, <3>3, <3>4, SoundContinues
  <2>4. 2 \in 1 .. Length(heap, Top.args)
    BY <2>2
  <2>5. Length(heap, Top.args) = 3 => 3 \in 1 .. Length(heap, Top.args)
    OBVIOUS
  <2> QED BY <1>4, <1>6, <2>3, <2>4, <2>5, AtomsAreGood DEF IfChosen, Value
<1>7. CASE ChainNext
  <2>1. Top.pc = "chain"
    BY <1>7 DEF ChainNext, Returned, At
  <2>2. CASE Chain(Top, Cdr(heap, Top.cur))
    <3>1. PICK args : args = Cdr(heap, Top.cur)
      OBVIOUS
    <3>2. IsPair(heap, Top.cur)
      BY <1>2, <2>1 DEF FrameOK, Ready
    <3>3. Good(heap, args) /\ Under(heap, Form, args)
      BY <1>2, <1>3, <3>1, <3>2, PairHas, UnderPair
    <3>4. /\ Frame(f) /\ f.pc = "chain" /\ f.saves = Top.saves /\ f.argv = <<>> /\ f.env = Env
          /\ Under(heap, Form, f.args) /\ f.inner = Nil /\ f.proc = Nil /\ Chain(f, args)
      BY <1>2, <1>3, <1>5, <2>1, <2>2, <3>1
    <3> QED BY <1>1, <1>3, <3>3, <3>4, SoundChain
  <2> QED BY <1>2, <1>4, <1>7, <2>2 DEF ChainNext, Value
<1>8. CASE CondNext
  <2>1. Top.pc = "cond"
    BY <1>8 DEF CondNext, Returned, At
  <2>2. IsPair(heap, Top.cur) /\ IsList(heap, Top.cur) /\ IsPair(heap, Car(heap, Top.cur))
    BY <1>2, <2>1 DEF FrameOK, Ready
  <2>3. PICK clause, rest : clause = Car(heap, Top.cur) /\ rest = Cdr(heap, Top.cur)
    OBVIOUS
  <2>4. /\ Good(heap, clause) /\ Under(heap, Form, clause) /\ IsPair(heap, clause)
        /\ Good(heap, rest) /\ Under(heap, Form, rest) /\ IsList(heap, rest)
    BY <1>2, <1>3, <2>2, <2>3, PairHas, UnderPair, ListIs
  <2>5. PICK body : body = Cdr(heap, clause)
    OBVIOUS
  <2>6. Good(heap, body) /\ Under(heap, Form, body)
    BY <1>2, <2>4, <2>5, PairHas, UnderPair
  <2>7. CASE Clause([Top EXCEPT !.cur = rest])
    <3>1. PICK g : g = [Top EXCEPT !.cur = rest]
      OBVIOUS
    <3>2. Frame(g) /\ g.pc = "cond" /\ g.saves = Top.saves
      BY <1>2, <2>1, <3>1, CursorMoves
    <3>3. /\ g.argv = <<>> /\ g.env = Env /\ g.args = Top.args /\ g.cur = rest
          /\ g.inner = Nil /\ g.proc = Nil
      BY <1>2, <1>3, <3>1 DEF Frame, Fields
    <3>4. Under(heap, Form, g.args) /\ Clause(g)
      BY <1>3, <2>7, <3>1, <3>3
    <3> QED BY <1>1, <1>3, <2>4, <3>2, <3>3, <3>4, SoundClause
  <2>8. CASE BeginTco(Top, body, Top.env)
    <3>1. /\ Frame(f) /\ f.saves = Top.saves /\ f.argc = 0 /\ f.argv = <<>> /\ f.env = Env
          /\ Under(heap, Form, f.args) /\ f.proc = Nil
          /\ Good(heap, env) /\ IsA(heap, env, "ENV") /\ env = Env
          /\ BeginTco(f, body, env)
      BY <1>2, <1>3, <1>5, <2>8
    <3>2. Len(protect) = Top.saves[1] + 1 + Len(Top.saves)
      BY <1>3
    <3> QED BY <1>1, <1>2, <1>3, <2>6, <3>1, <3>2, SoundBeginsTco
  <2> QED BY <1>2, <1>4, <1>8, <2>3, <2>5, <2>7, <2>8 DEF CondNext, Value
<1> QED
  BY <1>6, <1>7, <1>8

\* make_closure allocates: its parts have been in their slots since before.
LEMMA SoundMakesClosure ==
    ASSUME Inv, Sound, MakeClosure
    PROVE  Sound'
<1>1. stack # <<>> /\ Top.pc = "closure" /\ Room(heap)
  BY DEF MakeClosure, Run, At
<1>2. /\ Frame(Top) /\ FrameOK(heap, protect, Top) /\ GoodHeap(heap)
      /\ \A i \in 1 .. Len(protect) : Good(heap, protect[i])
      /\ Good(heap, Env) /\ IsA(heap, Env, "ENV")
  BY <1>1, TopHolds
<1>3. PICK sp, n : sp \in Nat /\ sp = Top.saves[1] /\ n = Len(protect)
  BY <1>1, FormHolds
<1>4. n = sp + 5 /\ Top.env = Env
  BY <1>1, <1>3, FormHolds
<1>5. PICK parts, made, closure, cell :
        /\ parts = SubSeq(protect, n - 2, n) /\ cell = Cell("CLOSURE", parts, <<>>)
        /\ made = Put(heap, cell) /\ closure = Ref(NextFree(heap))
  OBVIOUS
<1>6. parts = <<protect[sp + 3], protect[sp + 4], protect[sp + 5]>>
  <2>1. PICK S : protect \in Seq(S)
    BY DEF Inv, Sequence
  <2>2. PICK k \in Nat : k = sp + 3
    BY <1>3
  <2>3. n \in Nat /\ k \in Int /\ n \in Int /\ k <= n /\ n - k + 1 = 3 /\ n - 2 = k
    BY <1>3, <1>4, <2>2
  <2>4. parts = SubSeq(protect, k, n)
    BY <1>5, <2>3
  <2>5. \A i \in k .. n : protect[i] \in S
    <3>1. \A i \in k .. n : i \in 1 .. Len(protect)
      <4>1. k >= 1
        BY <1>3, <2>2
      <4>2. \A i \in k .. n : i \in 1 .. n
        BY <2>3, <4>1
      <4> QED BY <1>3, <4>2
    <3> QED BY <2>1, <3>1, ElementOfSeq
  <2>6. /\ parts \in Seq(S) /\ Len(parts) = 3
        /\ \A i \in 1 .. 3 : parts[i] = protect[k + i - 1]
    <3>1. /\ SubSeq(protect, k, n) \in Seq(S)
          /\ Len(SubSeq(protect, k, n)) = IF k <= n THEN n - k + 1 ELSE 0
          /\ \A i \in 1 .. n - k + 1 : SubSeq(protect, k, n)[i] = protect[k + i - 1]
      BY <2>3, <2>5, SubSeqProperties
    <3> QED BY <2>3, <2>4, <3>1
  <2>7. PICK a, b, c : a = protect[sp + 3] /\ b = protect[sp + 4] /\ c = protect[sp + 5]
    OBVIOUS
  <2>8. parts[1] = a /\ parts[2] = b /\ parts[3] = c
    <3>1. /\ k + 1 - 1 = sp + 3 /\ k + 2 - 1 = sp + 4 /\ k + 3 - 1 = sp + 5
      BY <1>3, <2>2
    <3> QED BY <2>6, <2>7, <3>1
  <2>9. <<a, b, c>> \in Seq({a, b, c}) /\ Len(<<a, b, c>>) = 3
    OBVIOUS
  <2>10. parts \in Seq(S \cup {a, b, c}) /\ <<a, b, c>> \in Seq(S \cup {a, b, c})
    BY <2>6, <2>9, ElementOfSeq, LenProperties, SeqDef
  <2>11. \A i \in 1 .. Len(parts) : parts[i] = <<a, b, c>>[i]
    BY <2>6, <2>8
  <2>12. parts = <<a, b, c>>
    BY <2>6, <2>9, <2>10, <2>11, SeqEqual
  <2> QED BY <2>7, <2>12
<1>7. CellOK(heap, cell)
  <2>1. sp + 3 \in 1 .. n /\ sp + 4 \in 1 .. n /\ sp + 5 \in 1 .. n
    BY <1>3, <1>4
  <2>2. IsA(heap, protect[sp + 5], "ENV")
    BY <1>1, <1>2, <1>3 DEF FrameOK, Ready
  <2>3. PICK a, b, c : a = protect[sp + 3] /\ b = protect[sp + 4] /\ c = protect[sp + 5]
    OBVIOUS
  <2>4. Good(heap, a) /\ Good(heap, b) /\ Good(heap, c) /\ IsA(heap, c, "ENV")
    BY <1>2, <1>3, <2>1, <2>2, <2>3
  <2>5. cell = Cell("CLOSURE", <<a, b, c>>, <<>>)
    BY <1>5, <1>6, <2>3
  <2> QED BY <1>2, <2>4, <2>5, NewCells
<1>8. cell.kind = "CLOSURE"
  BY <1>5 DEF Cell
<1>9. GoodHeap(made) /\ Keeps(heap, made, InUse(heap)) /\ Good(made, closure)
  BY <1>1, <1>2, <1>5, <1>7, <1>8, PutIsGood
<1>10. CASE heap' = made /\ Value(closure)
  BY <1>1, <1>9, <1>10, SoundReturns DEF Value, Statuses
<1>11. ASSUME NEW name, heap' = Define(made, Top.env, name, closure), Value(Undef)
       PROVE  Sound'
  <2>1. PICK env : env = Top.env
    OBVIOUS
  <2>2. IsA(made, env, "ENV") /\ Good(made, env)
    BY <1>2, <1>4, <1>9, <2>1, KeptIsGood
  <2>3. GoodHeap(Define(made, env, name, closure)) /\ Keeps(made, Define(made, env, name, closure), InUse(made))
    BY <1>9, <2>2, DefineIsGood
  <2>4. GoodHeap(heap') /\ Keeps(made, heap', InUse(made))
    BY <1>11, <2>1, <2>3
  <2>5. Keeps(heap, heap', InUse(heap))
    BY <1>2, <1>9, <2>4, KeepsOn
  <2> QED BY <1>1, <1>11, <2>4, <2>5, SoundReturns, AtomsAreGood DEF Value, Statuses
<1> QED
  BY <1>3, <1>5, <1>10, <1>11 DEF MakeClosure

\* A definition or an assignment gets its value.
LEMMA SoundBinds ==
    ASSUME Inv, Sound, DefineValue \/ SetValue
    PROVE  Sound'
<1>1. stack # <<>> /\ Top.pc \in {"define", "set!"}
  BY DEF DefineValue, SetValue, Returned, At
<1>2. GoodHeap(heap) /\ Good(heap, Env) /\ IsA(heap, Env, "ENV") /\ Good(heap, reg.form)
  BY <1>1, TopHolds
<1>3. PICK env, value : env = Top.env /\ value = reg.form
  OBVIOUS
<1>4. Good(heap, env) /\ IsA(heap, env, "ENV") /\ Good(heap, value)
  BY <1>1, <1>2, <1>3, FormHolds
<1>5. CASE DefineValue
  <2>1. PICK name : name = Car(heap, Top.args)
    OBVIOUS
  <2>2. GoodHeap(Define(heap, env, name, value)) /\ Keeps(heap, Define(heap, env, name, value), InUse(heap))
    BY <1>2, <1>4, DefineIsGood
  <2>3. heap' = Define(heap, env, name, value) /\ Return("OK", Undef)
    BY <1>3, <1>5, <2>1 DEF DefineValue, Value
  <2>4. GoodHeap(heap') /\ Keeps(heap, heap', InUse(heap))
    BY <2>2, <2>3
  <2> QED BY <1>1, <2>3, <2>4, SoundReturns, AtomsAreGood DEF Statuses
<1>6. CASE SetValue
  <2>1. PICK name, frame : name = Car(heap, Top.args) /\ frame = Binder(heap, env, name)
    OBVIOUS
  <2>2. CASE frame = Nil
    <3>1. Return("UNBOUND", Undef) /\ heap' = heap
      BY <1>3, <1>6, <2>1, <2>2 DEF SetValue, Fail
    <3> QED BY <1>1, <3>1, SoundEnds, AtomsAreGood DEF Statuses
  <2>3. CASE frame # Nil
    <3>1. Return("OK", Undef) /\ heap' = SetBinding(heap, frame, name, value)
      BY <1>3, <1>6, <2>1, <2>3 DEF SetValue, Value
    <3>2. IsA(heap, frame, "ENV") /\ Good(heap, frame) /\ Slot(heap, frame, name) # 0
      BY <1>2, <1>4, <2>1, <2>3, BinderIs
    <3>3. /\ GoodHeap(SetBinding(heap, frame, name, value))
          /\ Keeps(heap, SetBinding(heap, frame, name, value), InUse(heap))
      BY <1>2, <1>4, <3>2, DefineIsGood
    <3>4. GoodHeap(heap') /\ Keeps(heap, heap', InUse(heap))
      BY <3>1, <3>3
    <3> QED BY <1>1, <3>1, <3>4, SoundReturns, AtomsAreGood DEF Statuses
  <2> QED BY <2>2, <2>3
<1> QED
  BY <1>5, <1>6

\* handle_let_family allocates its frame, and letrec binds the names in it.
LEMMA SoundLetFrame ==
    ASSUME Inv, Sound, LetFrame
    PROVE  Sound'
<1>1. stack # <<>> /\ Top.pc = "let" /\ Room(heap)
  BY DEF LetFrame, Run, At
<1>2. /\ Frame(Top) /\ FrameOK(heap, protect, Top) /\ GoodHeap(heap)
      /\ \A i \in 1 .. Len(protect) : Good(heap, protect[i])
      /\ Good(heap, Env) /\ IsA(heap, Env, "ENV") /\ Good(heap, Form) /\ Len(protect) \in Nat
      /\ Good(heap, Top.cur) /\ Good(heap, Top.args)
      /\ FormOf(protect, Top) = Form /\ EnvOf(protect, Top) = Env
  BY <1>1, TopHolds
<1>3. /\ Top.argc = 0 /\ Top.argv = <<>> /\ Top.env = Env /\ Under(heap, Form, Top.args)
      /\ Top.saves[1] \in Nat /\ Sequence(Top.saves) /\ DOMAIN Top = Fields
      /\ Len(Top.saves) = 1 /\ Len(protect) = Top.saves[1] + 2
      /\ Top.proc = Nil /\ Under(heap, Form, Top.cur)
  BY <1>1, FormHolds
<1>4. PICK env, cell, made, inner :
        /\ env = Top.env /\ cell = Cell("ENV", <<env>>, <<>>)
        /\ made = Put(heap, cell) /\ inner = Ref(NextFree(heap))
  OBVIOUS
<1>5. CellOK(heap, cell) /\ cell.kind = "ENV"
  BY <1>2, <1>3, <1>4, NewCells DEF Cell
<1>6. /\ GoodHeap(made) /\ Keeps(heap, made, InUse(heap)) /\ Good(made, inner)
      /\ IsA(made, inner, "ENV")
  BY <1>1, <1>2, <1>4, <1>5, PutIsGood
<1>7. PICK bindings : bindings = Elements(heap, Top.cur)
  OBVIOUS
<1>8. Len(bindings) \in Nat
  <2>1. PICK m : m = Length(heap, Top.cur)
    OBVIOUS
  <2>2. m \in Nat
    BY <1>2, <2>1, LengthIs, HeapAssumption
  <2>3. bindings = [i \in 1 .. m |-> Nth(heap, Top.cur, i)]
    BY <1>7, <2>1 DEF Elements
  <2> QED BY <2>2, <2>3
<1>9. CASE heap' = made /\ Fail("SYNTAX")
  BY <1>1, <1>6, <1>9, SoundReturns, AtomsAreGood DEF Fail, Statuses
<1>10. CASE /\ heap' = IF Op = "letrec" THEN Predefined(made, inner, bindings) ELSE made
            /\ Go([Top EXCEPT !.pc = "init", !.inner = inner, !.saves = Append(@, Len(protect))])
            /\ protect' = Append(protect, inner)
  <2>1. /\ GoodHeap(heap') /\ Keeps(made, heap', InUse(made))
    <3>1. /\ GoodHeap(Predefined(made, inner, bindings))
          /\ Keeps(made, Predefined(made, inner, bindings), InUse(made))
      BY <1>6, <1>8, PredefinedIsGood
    <3>2. Keeps(made, made, InUse(made))
      BY <1>6, KeepsOn
    <3> QED BY <1>6, <1>10, <3>1, <3>2
  <2>2. Keeps(heap, heap', InUse(heap))
    BY <1>2, <1>6, <2>1, KeepsOn
  <2>3. Good(heap', inner) /\ IsA(heap', inner, "ENV")
    BY <1>6, <2>1, KeptIsGood
  <2>4. PICK n : n = Len(protect)
    OBVIOUS
  <2>5. /\ n \in Nat /\ Len(protect') = n + 1 /\ \A i \in 1 .. n : protect'[i] = protect[i]
        /\ protect'[n + 1] = inner
        /\ \A i \in 1 .. Len(protect') : Good(heap', protect'[i])
    BY <1>10, <2>2, <2>3, <2>4, SlotsGrow
  <2>6. PICK f : f = [Top EXCEPT !.pc = "init", !.inner = inner, !.saves = Append(@, n)]
    OBVIOUS
  <2>7. /\ f.pc = "init" /\ f.saves = Append(Top.saves, n) /\ f.inner = inner
        /\ f.args = Top.args /\ f.cur = Top.cur /\ f.env = Env /\ f.proc = Nil /\ f.argv = <<>>
    BY <1>3, <2>6 DEF Fields
  <2>8. f.saves[1] = Top.saves[1]
    BY <1>3, <2>7, Saved
  <2>9. FormOf(protect', f) = Form /\ EnvOf(protect', f) = Env /\ Third(protect', f) = inner
    <3>1. /\ Top.saves[1] + 1 \in 1 .. n /\ Top.saves[1] + 2 \in 1 .. n
          /\ Top.saves[1] + 3 = n + 1
      BY <1>3, <2>4
    <3> QED BY <2>5, <2>8, <3>1 DEF FormOf, EnvOf, Third, Form, Env
  <2>10. /\ Under(heap', Form, f.args) /\ Under(heap', Form, f.cur)
    BY <1>2, <1>3, <2>2, <2>7, KeptUnder DEF Good
  <2>11. IsPair(heap', f.args) /\ IsList(heap', f.cur)
    <3>1. IsPair(heap, f.args) /\ IsList(heap, f.cur)
      BY <1>1, <1>2, <2>7 DEF FrameOK, Ready
    <3>2. Within(InUse(heap), f.args) /\ Within(InUse(heap), f.cur)
      BY <1>2, <2>7 DEF Good
    <3> QED BY <1>2, <2>2, <3>1, <3>2, KeptValue, KeptList
  <2>12. IsA(heap', Env, "ENV")
    BY <1>2, <2>2, KeptIsGood
  <2>13. Sequence(f.argv) /\ Len(f.argv) = 0
    BY <2>7, EmptySeq DEF Sequence
  <2>14. HoldsCur(heap', protect', f) /\ HoldsInner(heap', protect', f) /\ Ready(heap', protect', f)
    BY <2>3, <2>7, <2>9, <2>10, <2>11 DEF HoldsCur, HoldsInner, Ready
  <2>15. HoldsCall(heap', protect', f)
    BY <2>7, <2>13 DEF HoldsCall, InCall
  <2>16. FrameOK(heap', protect', f)
    BY <2>7, <2>9, <2>10, <2>12, <2>13, <2>14, <2>15 DEF FrameOK
  <2>17. \A i \in 1 .. Top.saves[1] : protect'[i] = protect[i]
    <3>1. \A i \in 1 .. Top.saves[1] : i \in 1 .. n
      BY <1>3, <2>4
    <3> QED BY <2>5, <3>1
  <2>18. Go(f)
    BY <1>10, <2>4, <2>6
  <2> QED BY <1>1, <2>1, <2>2, <2>5, <2>8, <2>16, <2>17, <2>18, SoundRuns
<1> QED
  BY <1>4, <1>7, <1>9, <1>10 DEF LetFrame

\* The loop over the bindings of a let.
LEMMA SoundLetBinds ==
    ASSUME Inv, Sound, LetInit \/ LetBound
    PROVE  Sound'
<1>1. stack # <<>> /\ Top.pc = "init"
  BY DEF LetInit, LetBound, Run, Returned, At
<1>2. /\ Frame(Top) /\ FrameOK(heap, protect, Top) /\ GoodHeap(heap)
      /\ Good(heap, Top.cur) /\ Good(heap, Top.args) /\ Good(heap, Top.inner)
      /\ Good(heap, reg.form) /\ Keeps(heap, heap, InUse(heap))
      /\ Len(stack) \in Nat \ {0} /\ Top = stack[Len(stack)]
  BY <1>1, TopHolds
<1>3. /\ Top.argc = 0 /\ Top.argv = <<>> /\ Top.env = Env /\ Under(heap, Form, Top.args)
      /\ DOMAIN Top = Fields /\ Len(protect) = Top.saves[1] + 3
      /\ Top.proc = Nil /\ Under(heap, Form, Top.cur)
  BY <1>1, FormHolds
<1>4. /\ Top.inner = Third(protect, Top) /\ IsA(heap, Top.inner, "ENV")
      /\ IsPair(heap, Top.args) /\ IsList(heap, Top.cur)
  BY <1>1, <1>2 DEF FrameOK, HoldsInner, Ready
<1>5. ASSUME NEW f, Frame(f), f.pc = "init", f.saves = Top.saves, f.argv = Top.argv, f.env = Top.env,
             f.args = Top.args, f.proc = Top.proc, f.inner = Top.inner,
             Good(heap, f.cur), Under(heap, Form, f.cur), IsList(heap, f.cur), NextBinding(f),
             GoodHeap(heap'), Keeps(heap, heap', InUse(heap))
      PROVE  Sound'
  <2>1. /\ f.argv = <<>> /\ f.env = Env /\ Under(heap, Form, f.args) /\ IsPair(heap, f.args)
        /\ Good(heap, f.args) /\ f.proc = Nil /\ f.inner = Third(protect, Top)
        /\ Good(heap, f.inner) /\ IsA(heap, f.inner, "ENV") /\ Len(protect) = Top.saves[1] + 3
    BY <1>2, <1>3, <1>4, <1>5
  <2> QED BY <1>1, <1>5, <2>1, SoundNextBinding
<1>6. CASE LetInit
  <2>1. heap' = heap /\ NextBinding(Top)
    BY <1>6 DEF LetInit
  <2>2. PICK f : f = Top
    OBVIOUS
  <2>3. /\ Frame(f) /\ f.pc = "init" /\ Good(heap, f.cur) /\ Under(heap, Form, f.cur)
        /\ IsList(heap, f.cur) /\ NextBinding(f)
        /\ GoodHeap(heap') /\ Keeps(heap, heap', InUse(heap))
    BY <1>1, <1>2, <1>3, <1>4, <2>1, <2>2
  <2> QED BY <1>5, <2>2, <2>3
<1>7. CASE LetBound
  <2>1. Top.cur # Nil
    <3>1. Len(stack) \in 1 .. Len(stack) /\ reg.mode # "run"
      BY <1>2, <1>7 DEF LetBound, Returned, At
    <3> QED BY <1>1, <1>2, <3>1 DEF Sound, SoundStack
  <2>2. IsPair(heap, Top.cur)
    BY <1>2, <1>4, <2>1, ListIs
  <2>3. PICK rest, env, value, name :
          /\ rest = Cdr(heap, Top.cur) /\ env = Top.inner /\ value = reg.form
          /\ name = Car(heap, Car(heap, Top.cur))
    OBVIOUS
  <2>4. Good(heap, rest) /\ Under(heap, Form, rest) /\ IsList(heap, rest)
    BY <1>2, <1>3, <1>4, <2>2, <2>3, PairHas, UnderPair, ListIs
  <2>5. heap' = Define(heap, env, name, value) /\ NextBinding([Top EXCEPT !.cur = rest])
    BY <1>7, <2>3 DEF LetBound
  <2>6. /\ GoodHeap(Define(heap, env, name, value))
        /\ Keeps(heap, Define(heap, env, name, value), InUse(heap))
    BY <1>2, <1>4, <2>3, DefineIsGood
  <2>7. GoodHeap(heap') /\ Keeps(heap, heap', InUse(heap))
    BY <2>5, <2>6
  <2>8. PICK f : f = [Top EXCEPT !.cur = rest]
    OBVIOUS
  <2>9. Frame(f) /\ f.pc = "init" /\ f.saves = Top.saves
    BY <1>1, <1>2, <2>8, CursorMoves
  <2>10. /\ f.argv = Top.argv /\ f.env = Top.env /\ f.args = Top.args /\ f.proc = Top.proc
         /\ f.inner = Top.inner /\ f.cur = rest
    BY <1>3, <2>8 DEF Fields
  <2> QED BY <1>5, <2>4, <2>5, <2>7, <2>8, <2>9, <2>10
<1> QED
  BY <1>6, <1>7

-----------------------------------------------------------------------------
(***************************************************************************)
(* Procedure calls and what they hold.                                     *)
(***************************************************************************)

\* What is known of a call.
LEMMA CallHolds ==
    ASSUME Inv, Sound, stack # <<>>, Top.pc \in InCall \ {"body"}
    PROVE  /\ DOMAIN Top = Fields /\ Top.saves[1] \in Nat /\ Top.argc \in Nat /\ Len(protect) \in Nat
           /\ Sequence(Top.argv) /\ Len(Top.argv) \in Nat /\ Sequence(Top.saves)
           /\ Operands(Top) \in Nat /\ Top.saves[1] + 3 + Operands(Top) <= Len(protect)
           /\ Top.proc = protect[Top.saves[1] + 3]
           /\ Top.env = Env /\ Under(heap, Form, Top.args)
           /\ Top.pc = "arg" => Operands(Top) = Len(Top.argv) /\ Len(Top.argv) < Top.argc
           /\ Top.pc # "arg" => Operands(Top) = Top.argc
           /\ HoldsCur(heap, protect, Top) /\ HoldsInner(heap, protect, Top)
           /\ HoldsCall(heap, protect, Top) /\ Ready(heap, protect, Top)
           /\ \A k \in 1 .. Len(Top.argv) :
                 \E i \in 1 .. Operands(Top) : Top.argv[k] = protect[Top.saves[1] + 3 + i]
<1>1. /\ Frame(Top) /\ FrameOK(heap, protect, Top) /\ Top.saves[1] \in Nat /\ Len(protect) \in Nat
      /\ EnvOf(protect, Top) = Env /\ FormOf(protect, Top) = Form
  BY TopHolds
<1>2. /\ DOMAIN Top = Fields /\ Top.argc \in Nat /\ Sequence(Top.saves)
      /\ Top.pc = "arg" => Len(Top.argv) < Top.argc
  BY <1>1 DEF Frame, Shape
<1>3. /\ Sequence(Top.argv) /\ HoldsCur(heap, protect, Top) /\ HoldsInner(heap, protect, Top)
      /\ HoldsCall(heap, protect, Top) /\ Ready(heap, protect, Top)
      /\ Under(heap, Form, Top.args)
  BY <1>1 DEF FrameOK
<1>4. Top.env = Env
  BY <1>1 DEF FrameOK, InCall
<1>5. Top.proc = protect[Top.saves[1] + 3]
  BY <1>3 DEF HoldsCall, Third
<1>6. /\ Operands(Top) \in Nat
      /\ Top.pc = "arg" => Operands(Top) = Len(Top.argv)
      /\ Top.pc # "arg" => Operands(Top) = Top.argc
  BY <1>1, SlotsAre
<1>7. Len(Top.argv) \in Nat
  BY <1>3, LenProperties DEF Sequence
<1>8. PICK sp \in Nat, n \in Nat, m \in Nat : sp = Top.saves[1] /\ n = Operands(Top) /\ m = Len(protect)
  BY <1>1, <1>6
<1>9. sp + 3 + n <= m
  <2>1. Top.pc \in {"arg", "apply", "cons", "frame", "list", "bind", "push", "rest"}
    BY DEF InCall
  <2>2. PICK argc \in Nat : argc = Top.argc
    BY <1>2
  <2>3. /\ Top.pc = "arg" => m = sp + (3 + n)
        /\ Top.pc \in {"apply", "cons", "frame"} => m = sp + (3 + argc)
        /\ Top.pc \in {"list", "bind"} => m = sp + (4 + argc)
        /\ Top.pc = "push" => m = sp + (5 + argc)
        /\ Top.pc = "rest" => m = sp + (6 + argc)
    BY <1>6, <1>8, <2>1, <2>2, CallFrame
  <2>4. Top.pc # "arg" => n = argc
    BY <1>6, <1>8, <2>2
  <2>5. CASE Top.pc = "arg"
    BY <2>3, <2>5
  <2>6. CASE Top.pc # "arg"
    <3>1. m \in {sp + (3 + n), sp + (4 + n), sp + (5 + n), sp + (6 + n)}
      BY <2>1, <2>3, <2>4, <2>6
    <3> QED BY <3>1
  <2> QED BY <2>5, <2>6
<1>10. \A k \in 1 .. Len(Top.argv) :
          \E i \in 1 .. Operands(Top) : Top.argv[k] = protect[Top.saves[1] + 3 + i]
  BY <1>3 DEF HoldsCall
<1> QED
  BY <1>1, <1>2, <1>3, <1>4, <1>5, <1>6, <1>7, <1>8, <1>9, <1>10

\* The frame of a call that goes on, its operator and operands where they were.
LEMMA CallFrameHolds ==
    ASSUME Inv, Sound, stack # <<>>, Top.pc \in InCall \ {"body"},
           Keeps(heap, heap', InUse(heap)),
           NEW f, f.pc \in InCall \ {"body"}, f.saves[1] = Top.saves[1],
           f.args = Top.args, f.env = Top.env, f.proc = Top.proc, Sequence(f.argv),
           Operands(f) \in Nat, Operands(Top) <= Operands(f),
           \A i \in 1 .. Top.saves[1] + 3 + Operands(Top) : protect'[i] = protect[i],
           \A k \in 1 .. Len(f.argv) :
              \/ \E j \in 1 .. Len(Top.argv) : f.argv[k] = Top.argv[j]
              \/ \E i \in 1 .. Operands(f) : f.argv[k] = protect'[Top.saves[1] + 3 + i],
           f.pc \in {"frame", "bind", "push", "rest"} => IsA(heap, Top.proc, "CLOSURE"),
           HoldsCur(heap', protect', f), HoldsInner(heap', protect', f), Ready(heap', protect', f)
    PROVE  /\ FrameOK(heap', protect', f)
           /\ \A i \in 1 .. Top.saves[1] : protect'[i] = protect[i]
<1>1. /\ GoodHeap(heap) /\ Good(heap, Form) /\ Good(heap, Env) /\ IsA(heap, Env, "ENV")
      /\ Good(heap, Top.proc)
  BY TopHolds
<1>2. /\ Top.saves[1] \in Nat /\ Operands(Top) \in Nat
      /\ Top.proc = protect[Top.saves[1] + 3] /\ Top.env = Env /\ Under(heap, Form, Top.args)
      /\ \A k \in 1 .. Len(Top.argv) :
            \E i \in 1 .. Operands(Top) : Top.argv[k] = protect[Top.saves[1] + 3 + i]
  BY CallHolds
<1>3. PICK sp \in Nat, m \in Nat, n \in Nat : sp = Top.saves[1] /\ m = Operands(Top) /\ n = Operands(f)
  BY <1>2
<1>4. m <= n
  BY <1>3
<1>5. /\ sp + 1 \in 1 .. sp + 3 + m /\ sp + 2 \in 1 .. sp + 3 + m /\ sp + 3 \in 1 .. sp + 3 + m
      /\ \A i \in 1 .. m : sp + 3 + i \in 1 .. sp + 3 + m /\ i \in 1 .. n
      /\ \A i \in 1 .. sp : i \in 1 .. sp + 3 + m
  BY <1>4
<1>6. FormOf(protect', f) = Form /\ EnvOf(protect', f) = Env /\ Third(protect', f) = Top.proc
  BY <1>2, <1>3, <1>5 DEF FormOf, EnvOf, Third, Form, Env
<1>7. Under(heap', Form, f.args)
  BY <1>1, <1>2, KeptUnder DEF Good
<1>8. IsA(heap', Env, "ENV") /\ (IsA(heap, Top.proc, "CLOSURE") => IsA(heap', Top.proc, "CLOSURE"))
  BY <1>1, KeptIsGood
<1>9. \A k \in 1 .. Len(f.argv) : \E i \in 1 .. Operands(f) : f.argv[k] = protect'[f.saves[1] + 3 + i]
  <2>1. /\ Operands(f) = n /\ f.saves[1] = sp /\ Top.saves[1] = sp
    BY <1>3
  <2> SUFFICES ASSUME NEW k \in 1 .. Len(f.argv)
               PROVE  \E i \in 1 .. Operands(f) : f.argv[k] = protect'[f.saves[1] + 3 + i]
    OBVIOUS
  <2>2. CASE \E i \in 1 .. Operands(f) : f.argv[k] = protect'[Top.saves[1] + 3 + i]
    BY <2>1, <2>2
  <2>3. ASSUME NEW j \in 1 .. Len(Top.argv), f.argv[k] = Top.argv[j]
        PROVE  \E i \in 1 .. Operands(f) : f.argv[k] = protect'[f.saves[1] + 3 + i]
    <3>1. PICK i \in 1 .. m : Top.argv[j] = protect[sp + 3 + i]
      BY <1>2, <1>3
    <3>2. protect'[sp + 3 + i] = protect[sp + 3 + i]
      BY <1>3, <1>5
    <3>3. i \in 1 .. Operands(f) /\ f.argv[k] = protect'[f.saves[1] + 3 + i]
      BY <1>5, <2>1, <2>3, <3>1, <3>2
    <3> QED BY <3>3
  <2>4. \/ \E j \in 1 .. Len(Top.argv) : f.argv[k] = Top.argv[j]
        \/ \E i \in 1 .. Operands(f) : f.argv[k] = protect'[Top.saves[1] + 3 + i]
    OBVIOUS
  <2> QED BY <2>2, <2>3, <2>4
<1>10. HoldsCall(heap', protect', f)
  BY <1>6, <1>8, <1>9 DEF HoldsCall
<1> QED
  BY <1>2, <1>3, <1>5, <1>6, <1>7, <1>8, <1>10 DEF FrameOK, InCall

\* The operands of a frame past their evaluation.
LEMMA OperandsAre ==
    ASSUME NEW f, f.argc \in Nat,
           f.pc \in {"apply", "cons", "frame", "list", "bind", "push", "rest"}
    PROVE  Operands(f) = f.argc
BY DEF Operands

\* The operator has its value.
LEMMA SoundOperator ==
    ASSUME Inv, Sound, OperatorValue
    PROVE  Sound'
<1>1. stack # <<>> /\ Top.pc = "head" /\ heap' = heap
  BY DEF OperatorValue, Returned, At
<1>2. /\ Frame(Top) /\ FrameOK(heap, protect, Top) /\ GoodHeap(heap) /\ Len(protect) = End(Top)
      /\ Good(heap, Env) /\ IsA(heap, Env, "ENV") /\ Good(heap, Form) /\ Len(protect) \in Nat
      /\ Good(heap, Top.args) /\ Good(heap, reg.form) /\ Keeps(heap, heap, InUse(heap))
      /\ FormOf(protect, Top) = Form /\ EnvOf(protect, Top) = Env /\ Top.saves[1] \in Nat
  BY <1>1, TopHolds
<1>3. /\ DOMAIN Top = Fields /\ Sequence(Top.saves) /\ Len(Top.saves) = 1 /\ Top.argv = <<>>
  BY <1>1, <1>2 DEF Frame, Shape
<1>4. Len(protect) = Top.saves[1] + 2
  BY <1>1, <1>2, SlotsAreCounted DEF End
<1>5. /\ Top.env = Env /\ Under(heap, Form, Top.args) /\ Under(heap, Form, Top.cur)
      /\ Top.inner = Nil /\ Top.cur = Top.args
  BY <1>1, <1>2 DEF FrameOK, HoldsCur, HoldsInner, Ready, InCall
<1>6. PICK sp, argc, v :
        sp \in Nat /\ sp = Top.saves[1] /\ argc = Length(heap, Top.args) /\ v = reg.form
  BY <1>2
<1>7. argc \in Nat /\ Spans(heap, Top.args, argc)
  BY <1>2, <1>6, LengthIs, HeapAssumption
<1>8. CASE Fail("SYNTAX")
  BY <1>1, <1>8, SoundEnds, AtomsAreGood DEF Fail, Statuses
<1>9. ASSUME NEW pc \in {"apply", "arg"}, pc = "apply" => argc = 0, protect' = Append(protect, v),
             NEW f, f = [[Top EXCEPT !.proc = v, !.argc = argc,
                                    !.saves = Append(@, Len(protect))] EXCEPT !.pc = pc]
      PROVE  /\ FrameOK(heap', protect', f) /\ f.saves[1] = Top.saves[1] /\ f.pc = pc
             /\ \A i \in 1 .. Top.saves[1] : protect'[i] = protect[i]
             /\ \A i \in 1 .. Len(protect') : Good(heap', protect'[i])
  <2>1. /\ f.pc = pc /\ f.saves = Append(Top.saves, Len(protect)) /\ f.proc = v /\ f.argc = argc
        /\ f.args = Top.args /\ f.cur = Top.cur /\ f.env = Env /\ f.inner = Nil /\ f.argv = <<>>
    BY <1>3, <1>5, <1>9 DEF Fields
  <2>2. f.saves[1] = sp
    BY <1>3, <1>6, <2>1, Saved
  <2>3. /\ \A i \in 1 .. sp + 2 : protect'[i] = protect[i]
        /\ protect'[sp + 3] = v
        /\ \A i \in 1 .. Len(protect') : Good(heap', protect'[i])
    <3>1. /\ \A i \in 1 .. Len(protect) : protect'[i] = protect[i]
          /\ protect'[Len(protect) + 1] = v
          /\ \A i \in 1 .. Len(protect') : Good(heap', protect'[i])
      BY <1>1, <1>2, <1>6, <1>9, SlotsGrow
    <3>2. sp + 2 + 1 = sp + 3
      BY <1>6
    <3> QED BY <1>4, <1>6, <3>1, <3>2
  <2>4. FormOf(protect', f) = Form /\ EnvOf(protect', f) = Env /\ Third(protect', f) = v
    <3>1. sp + 1 \in 1 .. sp + 2 /\ sp + 2 \in 1 .. sp + 2
      BY <1>6
    <3> QED BY <1>6, <2>2, <2>3, <3>1 DEF FormOf, EnvOf, Third, Form, Env
  <2>5. Sequence(f.argv) /\ Len(f.argv) = 0
    BY <2>1, EmptySeq DEF Sequence
  <2>6. HoldsCur(heap, protect', f) /\ HoldsInner(heap, protect', f)
    BY <1>5, <2>1, <2>4 DEF HoldsCur, HoldsInner
  <2>7. HoldsCall(heap, protect', f)
    BY <2>1, <2>4, <2>5 DEF HoldsCall, InCall
  <2>8. Ready(heap, protect', f)
    <3>1. \A m \in 0 .. argc - 0 - 1 : IsPair(heap, Behind(heap, Top.args, m))
      <4>1. \A m \in 0 .. argc - 0 - 1 : m \in 0 .. argc - 1
        BY <1>7
      <4> QED BY <1>7, <4>1 DEF Spans
    <3> QED BY <1>5, <1>9, <2>1, <2>5, <3>1 DEF Ready
  <2>9. FrameOK(heap, protect', f)
    BY <1>2, <1>5, <2>1, <2>4, <2>5, <2>6, <2>7, <2>8 DEF FrameOK
  <2>10. \A i \in 1 .. Top.saves[1] : protect'[i] = protect[i]
    <3>1. \A i \in 1 .. sp : i \in 1 .. sp + 2
      BY <1>6
    <3> QED BY <1>6, <2>3, <3>1
  <2> QED BY <1>1, <1>6, <2>1, <2>2, <2>3, <2>9, <2>10
<1>10. ASSUME argc = 0, protect' = Append(protect, v),
              Go([[Top EXCEPT !.proc = v, !.argc = argc,
                              !.saves = Append(@, Len(protect))] EXCEPT !.pc = "apply"])
       PROVE  Sound'
  <2>1. PICK f : f = [[Top EXCEPT !.proc = v, !.argc = argc,
                              !.saves = Append(@, Len(protect))] EXCEPT !.pc = "apply"]
    OBVIOUS
  <2>2. Go(f)
    BY <1>10, <2>1
  <2>3. /\ FrameOK(heap', protect', f) /\ f.saves[1] = Top.saves[1] /\ f.pc = "apply"
        /\ \A i \in 1 .. Top.saves[1] : protect'[i] = protect[i]
        /\ \A i \in 1 .. Len(protect') : Good(heap', protect'[i])
    BY <1>9, <1>10, <2>1
  <2> QED BY <1>1, <1>2, <2>2, <2>3, SoundRuns
<1>11. ASSUME argc # 0, protect' = Append(protect, v),
              Call([[Top EXCEPT !.proc = v, !.argc = argc,
                              !.saves = Append(@, Len(protect))] EXCEPT !.pc = "arg"],
                   Car(heap, Top.args), Top.env)
       PROVE  Sound'
  <2>1. PICK f : f = [[Top EXCEPT !.proc = v, !.argc = argc,
                              !.saves = Append(@, Len(protect))] EXCEPT !.pc = "arg"]
    OBVIOUS
  <2>2. PICK form : form = Car(heap, Top.args)
    OBVIOUS
  <2>3. Call(f, form, Env)
    BY <1>5, <1>11, <2>1, <2>2
  <2>4. /\ FrameOK(heap', protect', f) /\ f.saves[1] = Top.saves[1] /\ f.pc = "arg"
        /\ \A i \in 1 .. Top.saves[1] : protect'[i] = protect[i]
        /\ \A i \in 1 .. Len(protect') : Good(heap', protect'[i])
    BY <1>9, <1>11, <2>1
  <2>5. Good(heap, form)
    <3>1. IsPair(heap, Top.args)
      BY <1>2, <1>6, <1>11, ListIs
    <3> QED BY <1>2, <2>2, <3>1, PairHas
  <2> QED BY <1>1, <1>2, <2>3, <2>4, <2>5, SoundCalls
<1> QED
  BY <1>6, <1>8, <1>10, <1>11 DEF OperatorValue

\* An operand has its value.
LEMMA SoundOperand ==
    ASSUME Inv, Sound, Operand
    PROVE  Sound'
<1>1. stack # <<>> /\ Top.pc = "arg" /\ heap' = heap /\ protect' = Append(protect, reg.form)
  BY DEF Operand, Returned, At
<1>2. /\ GoodHeap(heap) /\ Good(heap, Env) /\ IsA(heap, Env, "ENV") /\ Good(heap, Top.cur)
      /\ Good(heap, reg.form) /\ Keeps(heap, heap, InUse(heap))
  BY <1>1, TopHolds
<1>3. /\ DOMAIN Top = Fields /\ Top.saves[1] \in Nat /\ Top.argc \in Nat
      /\ Sequence(Top.argv) /\ Len(Top.argv) \in Nat /\ Sequence(Top.saves)
      /\ Top.env = Env /\ Operands(Top) = Len(Top.argv) /\ Len(Top.argv) < Top.argc
      /\ HoldsCur(heap, protect, Top) /\ HoldsInner(heap, protect, Top)
      /\ Ready(heap, protect, Top)
  BY <1>1, CallHolds DEF InCall
<1>4. Len(protect) = Top.saves[1] + (3 + Len(Top.argv))
  BY <1>1, CallFrame
<1>5. PICK sp \in Nat, k \in Nat, argc \in Nat :
        sp = Top.saves[1] /\ k = Len(Top.argv) /\ argc = Top.argc
  BY <1>3
<1>6. k < argc /\ Len(protect) = sp + 3 + k
  <2>1. sp + (3 + k) = sp + 3 + k
    OBVIOUS
  <2>2. Len(protect) = sp + (3 + k)
    BY <1>4, <1>5
  <2> QED BY <1>3, <1>5, <2>1, <2>2
<1>7. PICK v, cur, argv : v = reg.form /\ cur = Cdr(heap, Top.cur) /\ argv = Append(Top.argv, v)
  OBVIOUS
<1>8. /\ \A i \in 1 .. sp + 3 + k : protect'[i] = protect[i]
      /\ protect'[sp + 3 + (k + 1)] = v
      /\ \A i \in 1 .. Len(protect') : Good(heap', protect'[i])
  <2>1. /\ \A i \in 1 .. Len(protect) : protect'[i] = protect[i]
        /\ protect'[Len(protect) + 1] = v
        /\ \A i \in 1 .. Len(protect') : Good(heap', protect'[i])
    BY <1>1, <1>2, <1>7, SlotsGrow
  <2>2. sp + 3 + k + 1 = sp + 3 + (k + 1)
    OBVIOUS
  <2> QED BY <1>6, <2>1, <2>2
<1>9. /\ Sequence(argv) /\ Len(argv) = k + 1 /\ argv[k + 1] = v
      /\ \A i \in 1 .. k : argv[i] = Top.argv[i]
  BY <1>3, <1>5, <1>7, Pushed
<1>10. /\ \A m \in 0 .. argc - k - 1 : IsPair(heap, Behind(heap, Top.cur, m))
       /\ Under(heap, Form, Top.cur) /\ Top.inner = Nil
  BY <1>1, <1>2, <1>3, <1>5, TopHolds DEF Ready, HoldsCur, HoldsInner
<1>11. IsPair(heap, Top.cur)
  <2>1. 0 \in 0 .. argc - k - 1
    BY <1>6
  <2> QED BY <1>10, <2>1, BehindUnfolds
<1>12. Under(heap, Form, cur) /\ Good(heap, cur)
  BY <1>2, <1>7, <1>10, <1>11, UnderPair, PairHas
<1>13. \A m \in 0 .. argc - (k + 1) - 1 : IsPair(heap, Behind(heap, cur, m))
  <2> SUFFICES ASSUME NEW m \in 0 .. argc - (k + 1) - 1 PROVE IsPair(heap, Behind(heap, cur, m))
    OBVIOUS
  <2>1. m \in Nat /\ m + 1 \in 0 .. argc - k - 1
    OBVIOUS
  <2>2. Behind(heap, Top.cur, m + 1) = Behind(heap, cur, m)
    BY <1>7, <1>11, <2>1, BehindShifts
  <2> QED BY <1>10, <2>1, <2>2
<1>14. ASSUME NEW pc \in {"apply", "arg"}, pc = "apply" => argc = k + 1, pc = "arg" => k + 1 < argc,
             NEW f, f = [[Top EXCEPT !.argv = argv, !.cur = cur] EXCEPT !.pc = pc]
      PROVE  /\ FrameOK(heap', protect', f) /\ f.saves[1] = Top.saves[1] /\ f.pc = pc
             /\ \A i \in 1 .. Top.saves[1] : protect'[i] = protect[i]
  <2>1. /\ f.pc = pc /\ f.saves = Top.saves /\ f.proc = Top.proc /\ f.argc = argc
        /\ f.args = Top.args /\ f.cur = cur /\ f.env = Top.env /\ f.inner = Nil /\ f.argv = argv
    BY <1>3, <1>5, <1>10, <1>14 DEF Fields
  <2>2. Operands(f) = k + 1
    BY <1>9, <1>14, <2>1 DEF Operands
  <2>3. FormOf(protect', f) = Form
    <3>1. sp + 1 \in 1 .. sp + 3 + k
      OBVIOUS
    <3>2. protect'[sp + 1] = protect[sp + 1]
      BY <1>8, <3>1
    <3>3. f.saves[1] = sp
      BY <1>5, <2>1
    <3>4. FormOf(protect', f) = protect'[sp + 1]
      BY <3>3 DEF FormOf
    <3>5. Form = protect[sp + 1]
      BY <1>5 DEF Form
    <3> QED BY <3>2, <3>4, <3>5
  <2>4. HoldsCur(heap, protect', f) /\ HoldsInner(heap, protect', f)
    BY <1>12, <2>1, <2>3 DEF HoldsCur, HoldsInner
  <2>5. Ready(heap, protect', f)
    BY <1>9, <1>13, <1>14, <2>1 DEF Ready
  <2>6. \A i \in 1 .. Len(f.argv) :
            \/ \E j \in 1 .. Len(Top.argv) : f.argv[i] = Top.argv[j]
            \/ \E j \in 1 .. Operands(f) : f.argv[i] = protect'[Top.saves[1] + 3 + j]
    <3> SUFFICES ASSUME NEW i \in 1 .. Len(f.argv)
                 PROVE  \/ \E j \in 1 .. Len(Top.argv) : f.argv[i] = Top.argv[j]
                        \/ \E j \in 1 .. Operands(f) : f.argv[i] = protect'[Top.saves[1] + 3 + j]
      OBVIOUS
    <3>1. i \in 1 .. k \/ i = k + 1
      BY <1>9, <2>1
    <3>2. CASE i \in 1 .. k
      BY <1>5, <1>9, <2>1, <3>2
    <3>3. CASE i = k + 1
      <4>1. k + 1 \in 1 .. Operands(f)
        BY <2>2
      <4>2. f.argv[i] = protect'[Top.saves[1] + 3 + (k + 1)]
        BY <1>5, <1>8, <1>9, <2>1, <3>3
      <4> QED BY <4>1, <4>2
    <3> QED BY <3>1, <3>2, <3>3
  <2>7. /\ Operands(f) \in Nat /\ Operands(Top) <= Operands(f)
        /\ \A i \in 1 .. Top.saves[1] + 3 + Operands(Top) : protect'[i] = protect[i]
    BY <1>3, <1>5, <1>8, <2>2
  <2>8. FrameOK(heap', protect', f) /\ \A i \in 1 .. Top.saves[1] : protect'[i] = protect[i]
    BY <1>1, <1>2, <1>9, <2>1, <2>4, <2>5, <2>6, <2>7, CallFrameHolds DEF InCall
  <2> QED BY <2>1, <2>8
<1>15. PICK g : g = [Top EXCEPT !.argv = argv, !.cur = cur]
  OBVIOUS
<1>16. /\ g = [Top EXCEPT !.argv = Append(@, reg.form), !.cur = Cdr(heap, @)]
       /\ g.argv = argv /\ g.cur = cur /\ g.argc = argc /\ g = [g EXCEPT !.pc = "arg"]
  BY <1>1, <1>3, <1>5, <1>7, <1>15 DEF Fields
<1>17. CASE k + 1 < argc
  <2>1. Call(g, Car(heap, cur), Env)
    BY <1>3, <1>9, <1>16, <1>17 DEF Operand
  <2>2. /\ FrameOK(heap', protect', g) /\ g.saves[1] = Top.saves[1] /\ g.pc = "arg"
        /\ \A i \in 1 .. Top.saves[1] : protect'[i] = protect[i]
    BY <1>14, <1>15, <1>16, <1>17
  <2>3. Good(heap, Car(heap, cur))
    <3>1. 0 \in 0 .. argc - (k + 1) - 1
      BY <1>17
    <3>2. IsPair(heap, cur)
      BY <1>13, <3>1, BehindUnfolds
    <3> QED BY <1>2, <1>12, <3>2, PairHas
  <2> QED BY <1>1, <1>2, <1>8, <2>1, <2>2, <2>3, SoundCalls
<1>18. CASE ~(k + 1 < argc)
  <2>1. argc = k + 1
    BY <1>6, <1>18
  <2>2. PICK f : f = [g EXCEPT !.pc = "apply"]
    OBVIOUS
  <2>3. Go(f)
    BY <1>9, <1>16, <1>18, <2>2 DEF Operand
  <2>4. /\ FrameOK(heap', protect', f) /\ f.saves[1] = Top.saves[1]
        /\ \A i \in 1 .. Top.saves[1] : protect'[i] = protect[i]
    BY <1>14, <1>15, <2>1, <2>2
  <2> QED BY <1>1, <1>2, <1>8, <2>3, <2>4, SoundRuns
<1> QED
  BY <1>17, <1>18

\* The primitives have these names.
LEMMA NamesAre ==
    ASSUME NEW name \in Range(Primitives)
    PROVE  name \in {"cons", "car", "cdr", "list", "length", "null?", "pair?", "symbol?",
                     "procedure?", "boolean?", "eq?", "not", "error"}
<1>1. PICK i \in DOMAIN Primitives : name = Primitives[i]
  BY DEF Range
<1>2. i \in 1 .. 13
  BY DEF Primitives
<1> QED
  BY <1>1, <1>2 DEF Primitives

\* A primitive that allocates nothing returns a part of its operand, or an atom.
LEMMA ResultIs ==
    ASSUME GoodHeap(heap), NEW argv,
           NEW name \in Range(Primitives), name \notin {"cons", "list"},
           name # "error" => Good(heap, argv[1])
    PROVE  Result(name, argv).status \in Statuses /\ Good(heap, Result(name, argv).value)
<1>1. PICK v, result : v = argv[1] /\ result = Result(name, argv)
  OBVIOUS
<1>2. /\ Good(heap, Undef) /\ \A b : Good(heap, Bool(b)) /\ \A n : Good(heap, Fix(n))
  BY AtomsAreGood
<1>3. \A status \in Statuses : Refuses(status).status \in Statuses /\ Good(heap, Refuses(status).value)
  BY <1>2 DEF Refuses
<1>4. \A w : Good(heap, w) => Succeeds(w).status \in Statuses /\ Good(heap, Succeeds(w).value)
  BY DEF Succeeds, Statuses
<1>5. "TYPE" \in Statuses /\ "USER" \in Statuses
  BY DEF Statuses
<1>6. name # "error" => Good(heap, v)
  BY <1>1
<1>7. CASE name \in {"car", "cdr"}
  <2>1. IsPair(heap, v) => Good(heap, Car(heap, v)) /\ Good(heap, Cdr(heap, v))
    BY <1>6, <1>7, PairHas
  <2>2. CASE IsPair(heap, v)
    <3>1. result = Succeeds(Car(heap, v)) \/ result = Succeeds(Cdr(heap, v))
      BY <1>1, <1>7, <2>2 DEF Result
    <3> QED BY <1>1, <1>4, <2>1, <2>2, <3>1
  <2>3. CASE ~IsPair(heap, v)
    <3>1. result = Refuses("TYPE")
      BY <1>1, <1>7, <2>3 DEF Result
    <3> QED BY <1>1, <1>3, <1>5, <3>1
  <2> QED BY <2>2, <2>3
<1>8. CASE name = "length"
  <2>1. result = Succeeds(Fix(Length(heap, v))) \/ result = Refuses("TYPE")
    BY <1>1, <1>8 DEF Result
  <2> QED BY <1>1, <1>2, <1>3, <1>4, <1>5, <2>1
<1>9. CASE name \in {"null?", "pair?", "symbol?", "procedure?", "boolean?", "eq?", "not"}
  <2>1. \E b : result = Succeeds(Bool(b))
    <3>1. CASE name = "null?"
      BY <1>1, <3>1 DEF Result
    <3>2. CASE name = "pair?"
      BY <1>1, <3>2 DEF Result
    <3>3. CASE name = "symbol?"
      BY <1>1, <3>3 DEF Result
    <3>4. CASE name = "procedure?"
      BY <1>1, <3>4 DEF Result
    <3>5. CASE name = "boolean?"
      BY <1>1, <3>5 DEF Result
    <3>6. CASE name = "eq?"
      BY <1>1, <3>6 DEF Result
    <3>7. CASE name = "not"
      BY <1>1, <3>7 DEF Result
    <3> QED BY <1>9, <3>1, <3>2, <3>3, <3>4, <3>5, <3>6, <3>7
  <2> QED BY <1>1, <1>2, <1>4, <2>1
<1>10. CASE name = "error"
  <2>1. result = Refuses("USER")
    BY <1>1, <1>10 DEF Result
  <2> QED BY <1>1, <1>3, <1>5, <2>1
<1> QED
  BY <1>7, <1>8, <1>9, <1>10, NamesAre

\* The last of the slots that are left takes another value.
LEMMA SlotsPatched ==
    ASSUME Inv, Sound, Keeps(heap, heap', InUse(heap)), NEW n \in Nat, n # 0, n <= Len(protect),
           NEW q, Sequence(q), Len(q) = n, \A i \in 1 .. n : q[i] = protect[i],
           NEW v, Good(heap', v), protect' = [q EXCEPT ![n] = v]
    PROVE  /\ Len(protect') = n /\ protect'[n] = v
           /\ \A i \in 1 .. n - 1 : protect'[i] = protect[i]
           /\ \A i \in 1 .. Len(protect') : Good(heap', protect'[i])
<1>1. Len(protect) \in Nat
  BY StackOrder
<1>2. GoodHeap(heap) /\ \A i \in 1 .. Len(protect) : Good(heap, protect[i])
  BY DEF Sound, SoundHeap
<1>3. q # <<>>
  BY EmptySeq
<1>4. /\ Len(protect') = n /\ protect'[n] = v
      /\ \A i \in 1 .. n - 1 : protect'[i] = q[i]
  BY <1>3, Topped
<1>5. \A i \in 1 .. n - 1 : i \in 1 .. n /\ i \in 1 .. Len(protect)
  BY <1>1
<1>6. \A i \in 1 .. n - 1 : protect'[i] = protect[i] /\ Good(heap', protect'[i])
  BY <1>2, <1>4, <1>5, KeptIsGood
<1>7. \A i \in 1 .. n : i = n \/ i \in 1 .. n - 1
  OBVIOUS
<1> QED
  BY <1>4, <1>6, <1>7

\* A pair for one more element of a list that is being built.
LEMMA ListGrows ==
    ASSUME GoodHeap(heap), Room(heap), NEW argv, Sequence(argv), argv # <<>>,
           \A k \in 1 .. Len(argv) : Good(heap, argv[k]), NEW list, Good(heap, list),
           heap' = Put(heap, Cell("PAIR", <<Last(argv), list>>, <<>>))
    PROVE  /\ GoodHeap(heap') /\ Keeps(heap, heap', InUse(heap))
           /\ Good(heap', Ref(NextFree(heap)))
           /\ Sequence(Front(argv))
           /\ \A k \in 1 .. Len(Front(argv)) : \E j \in 1 .. Len(argv) : Front(argv)[k] = argv[j]
<1>1. /\ Len(argv) \in Nat \ {0} /\ Last(argv) = argv[Len(argv)]
      /\ Sequence(Front(argv)) /\ Len(Front(argv)) = Len(argv) - 1
      /\ \A i \in 1 .. Len(argv) - 1 : Front(argv)[i] = argv[i]
  BY Popped
<1>2. Good(heap, Last(argv))
  BY <1>1
<1>3. PICK cell : cell = Cell("PAIR", <<Last(argv), list>>, <<>>)
  OBVIOUS
<1>4. CellOK(heap, cell) /\ cell.kind # "FREE"
  BY <1>2, <1>3, NewCells DEF Cell
<1>5. /\ GoodHeap(heap') /\ Keeps(heap, heap', InUse(heap)) /\ Good(heap', Ref(NextFree(heap)))
  BY <1>3, <1>4, PutIsGood
<1> QED
  BY <1>1, <1>5

\* A call of a primitive, up to its allocations.
LEMMA SoundPrimitive ==
    ASSUME Inv, Sound, CallPrimitive
    PROVE  Sound'
<1>1. stack # <<>> /\ Top.pc = "apply" /\ heap' = heap /\ IsA(heap, Top.proc, "PRIM")
  BY DEF CallPrimitive, Procedure, Run, At
<1>2. /\ GoodHeap(heap) /\ Good(heap, Top.proc) /\ Keeps(heap, heap, InUse(heap))
      /\ \A k \in 1 .. Len(Top.argv) : Good(heap, Top.argv[k])
      /\ \A i \in 1 .. Len(protect) : Good(heap, protect[i])
      /\ FormOf(protect, Top) = Form
  BY <1>1, TopHolds
<1>3. /\ DOMAIN Top = Fields /\ Top.saves[1] \in Nat /\ Top.argc \in Nat
      /\ Sequence(Top.argv) /\ Sequence(Top.saves) /\ Operands(Top) = Top.argc
      /\ HoldsCur(heap, protect, Top) /\ HoldsInner(heap, protect, Top)
      /\ Ready(heap, protect, Top)
  BY <1>1, CallHolds DEF InCall
<1>4. Len(Top.saves) = 2 /\ Len(protect) = Top.saves[1] + (3 + Top.argc)
  BY <1>1, CallFrame
<1>5. PICK sp \in Nat, argc \in Nat : sp = Top.saves[1] /\ argc = Top.argc
  BY <1>3
<1>6. Len(Top.argv) = argc /\ Top.inner = Nil /\ Under(heap, Form, Top.cur)
  BY <1>1, <1>2, <1>3, <1>5 DEF Ready, HoldsInner, HoldsCur
<1>7. PICK name, result : name = heap[Top.proc[2]].names[1] /\ result = Result(name, Top.argv)
  OBVIOUS
<1>8. name \in Range(Primitives)
  BY <1>1, <1>2, <1>7 DEF GoodHeap, CellOK, IsA, Good, Within, InUse
<1>9. CASE Fail("ARITY")
  BY <1>1, <1>9, SoundEnds, AtomsAreGood DEF Fail, Statuses
<1>10. ASSUME ~(argc < Arity(name)[1]), ~(argc > Arity(name)[2]), name = "cons",
              Go([Top EXCEPT !.pc = "cons"]), UNCHANGED protect
       PROVE  Sound'
  <2>1. argc = 2
    BY <1>10 DEF Arity
  <2>2. PICK f : f = [Top EXCEPT !.pc = "cons"]
    OBVIOUS
  <2>3. /\ f.pc = "cons" /\ f.saves = Top.saves /\ f.proc = Top.proc /\ f.argc = argc
        /\ f.args = Top.args /\ f.cur = Top.cur /\ f.env = Top.env /\ f.inner = Nil
        /\ f.argv = Top.argv
    BY <1>3, <1>5, <1>6, <2>2 DEF Fields
  <2>4. Operands(f) = argc
    BY <2>3, OperandsAre
  <2>5. FormOf(protect', f) = Form
    BY <1>2, <1>10, <2>3 DEF FormOf
  <2>6. HoldsCur(heap, protect', f) /\ HoldsInner(heap, protect', f) /\ Ready(heap, protect', f)
    BY <1>6, <2>1, <2>3, <2>5 DEF HoldsCur, HoldsInner, Ready
  <2>7. Operands(f) \in Nat /\ Operands(Top) <= Operands(f)
    BY <1>3, <1>5, <2>4
  <2>8. FrameOK(heap', protect', f) /\ \A i \in 1 .. Top.saves[1] : protect'[i] = protect[i]
    BY <1>1, <1>2, <1>3, <1>10, <2>3, <2>6, <2>7, CallFrameHolds DEF InCall
  <2>9. Go(f)
    BY <1>10, <2>2
  <2> QED BY <1>1, <1>2, <1>10, <2>3, <2>8, <2>9, SoundRuns
<1>11. ASSUME Go([Top EXCEPT !.pc = "list", !.cur = Nil, !.saves = Append(@, Len(protect))]),
              protect' = Append(protect, Nil)
       PROVE  Sound'
  <2>1. PICK f : f = [Top EXCEPT !.pc = "list", !.cur = Nil, !.saves = Append(@, Len(protect))]
    OBVIOUS
  <2>2. /\ f.pc = "list" /\ f.saves = Append(Top.saves, Len(protect)) /\ f.proc = Top.proc
        /\ f.argc = argc /\ f.args = Top.args /\ f.cur = Nil /\ f.env = Top.env /\ f.inner = Nil
        /\ f.argv = Top.argv
    BY <1>3, <1>5, <1>6, <2>1 DEF Fields
  <2>3. f.saves[1] = sp
    BY <1>3, <1>4, <1>5, <2>2, Saved
  <2>4. Operands(f) = argc
    BY <2>2, OperandsAre
  <2>5. /\ \A i \in 1 .. sp + 3 + argc : protect'[i] = protect[i]
        /\ protect'[sp + 4 + argc] = Nil
        /\ \A i \in 1 .. Len(protect') : Good(heap', protect'[i])
    <3>1. /\ \A i \in 1 .. Len(protect) : protect'[i] = protect[i]
          /\ protect'[Len(protect) + 1] = Nil
          /\ \A i \in 1 .. Len(protect') : Good(heap', protect'[i])
      BY <1>1, <1>2, <1>11, SlotsGrow, AtomsAreGood
    <3>2. sp + (3 + argc) = sp + 3 + argc /\ sp + (3 + argc) + 1 = sp + 4 + argc
      OBVIOUS
    <3> QED BY <1>4, <1>5, <3>1, <3>2
  <2>6. HoldsCur(heap, protect', f) /\ HoldsInner(heap, protect', f) /\ Ready(heap, protect', f)
    BY <2>2, <2>3, <2>5 DEF HoldsCur, HoldsInner, Ready
  <2>7. /\ Operands(f) \in Nat /\ Operands(Top) <= Operands(f)
        /\ \A i \in 1 .. Top.saves[1] + 3 + Operands(Top) : protect'[i] = protect[i]
    BY <1>3, <1>5, <2>4, <2>5
  <2>8. FrameOK(heap', protect', f) /\ \A i \in 1 .. Top.saves[1] : protect'[i] = protect[i]
    BY <1>1, <1>2, <1>3, <1>5, <2>2, <2>3, <2>6, <2>7, CallFrameHolds DEF InCall
  <2>9. Go(f)
    BY <1>11, <2>1
  <2> QED BY <1>1, <1>2, <1>5, <2>3, <2>5, <2>8, <2>9, SoundRuns
<1>12. ASSUME ~(argc < Arity(name)[1]), ~(argc > Arity(name)[2]), name \notin {"cons", "list"},
              Return(result.status, result.value)
       PROVE  Sound'
  <2>1. name # "error" => Good(heap, Top.argv[1])
    <3>1. name # "error" => argc >= 1
      BY <1>12 DEF Arity
    <3> QED BY <1>2, <1>6, <3>1
  <2>2. result.status \in Statuses /\ Good(heap, result.value)
    BY <1>2, <1>7, <1>8, <1>12, <2>1, ResultIs
  <2> QED BY <1>1, <1>12, <2>2, SoundEnds
<1> QED
  BY <1>5, <1>7, <1>9, <1>10, <1>11, <1>12 DEF CallPrimitive, Argc

\* prim_cons allocates the pair.
LEMMA SoundCons ==
    ASSUME Inv, Sound, PrimCons
    PROVE  Sound'
<1>1. /\ stack # <<>> /\ Top.pc = "cons" /\ Room(heap)
      /\ heap' = Put(heap, Cell("PAIR", Top.argv, <<>>))
      /\ Return("OK", Ref(NextFree(heap)))
  BY DEF PrimCons, Run, At, Value
<1>2. GoodHeap(heap) /\ \A k \in 1 .. Len(Top.argv) : Good(heap, Top.argv[k])
  BY <1>1, TopHolds
<1>3. Sequence(Top.argv) /\ Len(Top.argv) = 2
  BY <1>1, CallHolds DEF InCall, Ready
<1>4. PICK cell : cell = Cell("PAIR", Top.argv, <<>>)
  OBVIOUS
<1>5. CellOK(heap, cell) /\ cell.kind = "PAIR"
  <2>1. PICK argv : argv = Top.argv
    OBVIOUS
  <2>2. Good(heap, argv[2])
    BY <1>2, <1>3, <2>1
  <2>3. Length(heap, argv[2]) \in Nat /\ Spans(heap, argv[2], Length(heap, argv[2]))
    BY <1>2, <2>2, LengthIs, HeapAssumption
  <2>4. Sequence(<<>>)
    BY EmptySeq DEF Sequence
  <2>5. /\ cell.kind = "PAIR" /\ cell.refs = argv /\ cell.names = <<>>
        /\ DOMAIN cell = {"kind", "refs", "names"}
    BY <1>4, <2>1 DEF Cell
  <2> QED BY <1>2, <1>3, <2>1, <2>3, <2>4, <2>5 DEF CellOK
<1>6. GoodHeap(heap') /\ Keeps(heap, heap', InUse(heap)) /\ Good(heap', Ref(NextFree(heap)))
  BY <1>1, <1>2, <1>4, <1>5, PutIsGood
<1> QED
  BY <1>1, <1>6, SoundReturns DEF Statuses

\* prim_list allocates the pair of an operand.
LEMMA SoundListCell ==
    ASSUME Inv, Sound, PrimListCell
    PROVE  Sound'
<1>1. PICK cell : cell = Ref(NextFree(heap))
  OBVIOUS
<1>2. /\ stack # <<>> /\ Top.pc = "list" /\ Room(heap) /\ Top.argv # <<>>
      /\ heap' = Put(heap, Cell("PAIR", <<Last(Top.argv), Top.cur>>, <<>>))
      /\ protect' = [protect EXCEPT ![Top.saves[3] + 1] = cell]
      /\ Go([Top EXCEPT !.cur = cell, !.argv = Front(@)])
  BY <1>1 DEF PrimListCell, Run, At
<1>3. /\ GoodHeap(heap) /\ \A k \in 1 .. Len(Top.argv) : Good(heap, Top.argv[k])
      /\ Good(heap, Top.cur)
  BY <1>2, TopHolds
<1>4. /\ DOMAIN Top = Fields /\ Top.saves[1] \in Nat /\ Top.argc \in Nat
      /\ Sequence(Top.argv) /\ Operands(Top) = Top.argc /\ HoldsInner(heap, protect, Top)
  BY <1>2, CallHolds DEF InCall
<1>5. /\ Top.saves[3] = Top.saves[1] + 3 + Top.argc /\ Len(protect) = Top.saves[1] + (4 + Top.argc)
  BY <1>2, CallFrame
<1>6. PICK sp \in Nat, argc \in Nat, n \in Nat :
        sp = Top.saves[1] /\ argc = Top.argc /\ n = sp + 4 + argc
  BY <1>4
<1>7. Top.saves[3] + 1 = n /\ Len(protect) = n
  <2>1. sp + 3 + argc + 1 = sp + 4 + argc /\ sp + (4 + argc) = sp + 4 + argc
    OBVIOUS
  <2> QED BY <1>5, <1>6, <2>1
<1>8. PICK argv : argv = Front(Top.argv)
  OBVIOUS
<1>9. /\ GoodHeap(heap') /\ Keeps(heap, heap', InUse(heap)) /\ Good(heap', cell)
      /\ Sequence(argv) /\ \A k \in 1 .. Len(argv) : \E j \in 1 .. Len(Top.argv) : argv[k] = Top.argv[j]
  <2>1. PICK old, list : old = Top.argv /\ list = Top.cur
    OBVIOUS
  <2>2. heap' = Put(heap, Cell("PAIR", <<Last(old), list>>, <<>>))
    BY <1>2, <2>1
  <2>3. /\ Sequence(old) /\ old # <<>> /\ Good(heap, list)
        /\ \A k \in 1 .. Len(old) : Good(heap, old[k])
    BY <1>2, <1>3, <1>4, <2>1
  <2>4. /\ GoodHeap(heap') /\ Keeps(heap, heap', InUse(heap)) /\ Good(heap', Ref(NextFree(heap)))
        /\ Sequence(Front(old))
        /\ \A k \in 1 .. Len(Front(old)) : \E j \in 1 .. Len(old) : Front(old)[k] = old[j]
    BY <1>2, <1>3, <2>2, <2>3, ListGrows
  <2> QED BY <1>1, <1>8, <2>1, <2>4
<1>10. /\ protect'[n] = cell
       /\ \A i \in 1 .. n - 1 : protect'[i] = protect[i]
       /\ \A i \in 1 .. Len(protect') : Good(heap', protect'[i])
  <2>1. Sequence(protect) /\ n # 0
    BY <1>6 DEF Inv
  <2>2. protect' = [protect EXCEPT ![n] = cell]
    BY <1>2, <1>7
  <2>3. n <= Len(protect)
    BY <1>7
  <2> QED BY <1>7, <1>9, <2>1, <2>2, <2>3, SlotsPatched
<1>11. PICK f : f = [Top EXCEPT !.cur = cell, !.argv = argv]
  OBVIOUS
<1>12. /\ f.pc = "list" /\ f.saves = Top.saves /\ f.proc = Top.proc /\ f.argc = argc
       /\ f.args = Top.args /\ f.cur = cell /\ f.env = Top.env /\ f.inner = Top.inner
       /\ f.argv = argv
  BY <1>2, <1>4, <1>6, <1>11 DEF Fields
<1>13. Operands(f) = argc
  BY <1>12, OperandsAre
<1>14. HoldsCur(heap', protect', f) /\ HoldsInner(heap', protect', f) /\ Ready(heap', protect', f)
  <2>1. Top.inner = Nil
    BY <1>2, <1>4 DEF HoldsInner
  <2> QED BY <1>6, <1>10, <1>12, <2>1 DEF HoldsCur, HoldsInner, Ready
<1>15. /\ Operands(f) \in Nat /\ Operands(Top) <= Operands(f)
       /\ \A i \in 1 .. Top.saves[1] + 3 + Operands(Top) : protect'[i] = protect[i]
  <2>1. n - 1 = sp + 3 + argc
    BY <1>6
  <2> QED BY <1>4, <1>6, <1>10, <1>13, <2>1
<1>16. FrameOK(heap', protect', f) /\ \A i \in 1 .. Top.saves[1] : protect'[i] = protect[i]
  BY <1>2, <1>9, <1>12, <1>14, <1>15, CallFrameHolds DEF InCall
<1>17. Go(f)
  BY <1>2, <1>8, <1>11
<1> QED
  BY <1>2, <1>9, <1>10, <1>12, <1>16, <1>17, SoundRuns

\* The list of prim_list is complete; what cannot be called.
LEMMA SoundCallEnds ==
    ASSUME Inv, Sound, PrimListDone \/ NotAProcedure
    PROVE  Sound'
<1>1. stack # <<>> /\ heap' = heap
  BY DEF PrimListDone, NotAProcedure, Run, At
<1>2. CASE PrimListDone
  <2>1. Good(heap, Top.cur)
    BY <1>1, TopHolds
  <2> QED BY <1>1, <1>2, <2>1, SoundEnds DEF PrimListDone, Value, Statuses
<1>3. CASE NotAProcedure
  BY <1>1, <1>3, SoundEnds, AtomsAreGood DEF NotAProcedure, Fail, Statuses
<1> QED
  BY <1>2, <1>3

\* A call of a closure.
LEMMA SoundClosure ==
    ASSUME Inv, Sound, CallClosure
    PROVE  Sound'
<1>1. stack # <<>> /\ Top.pc = "apply" /\ heap' = heap /\ IsA(heap, Top.proc, "CLOSURE")
  BY DEF CallClosure, Procedure, Run, At
<1>2. /\ GoodHeap(heap) /\ Good(heap, Top.proc) /\ Keeps(heap, heap, InUse(heap))
      /\ \A i \in 1 .. Len(protect) : Good(heap, protect[i])
  BY <1>1, TopHolds
<1>3. /\ DOMAIN Top = Fields /\ Top.saves[1] \in Nat /\ Top.argc \in Nat
      /\ Sequence(Top.argv) /\ Operands(Top) = Top.argc /\ Top.proc = protect[Top.saves[1] + 3]
      /\ HoldsInner(heap, protect, Top) /\ Ready(heap, protect, Top)
  BY <1>1, CallHolds DEF InCall
<1>4. PICK argc, params, least :
        /\ argc \in Nat /\ argc = Top.argc /\ params = ClosureParams
        /\ least = Length(heap, params)
  BY <1>3
<1>5. Len(Top.argv) = argc /\ Top.inner = Nil
  BY <1>1, <1>3, <1>4 DEF Ready, HoldsInner
<1>6. Under(heap, Top.proc, params) /\ Good(heap, params)
  BY <1>1, <1>2, <1>4, UnderClosure DEF ClosureParams
<1>7. least \in Nat /\ Spans(heap, params, least)
  BY <1>2, <1>4, <1>6, LengthIs, HeapAssumption
<1>8. CASE Fail("ARITY")
  BY <1>1, <1>8, SoundEnds, AtomsAreGood DEF Fail, Statuses
<1>9. ASSUME argc = least \/ (IsVariadic(params) /\ argc > least),
             Go([Top EXCEPT !.pc = "frame", !.cur = params]), UNCHANGED protect
      PROVE  Sound'
  <2>1. PICK f : f = [Top EXCEPT !.pc = "frame", !.cur = params]
    OBVIOUS
  <2>2. /\ f.pc = "frame" /\ f.saves = Top.saves /\ f.proc = Top.proc /\ f.argc = argc
        /\ f.args = Top.args /\ f.cur = params /\ f.env = Top.env /\ f.inner = Nil
        /\ f.argv = Top.argv
    BY <1>3, <1>4, <1>5, <2>1 DEF Fields
  <2>3. Operands(f) = argc
    BY <1>4, <2>2, OperandsAre
  <2>4. \E n \in 0 .. argc : /\ Spans(heap, params, n)
                             /\ Behind(heap, params, n) = Nil => n = argc
    <3>1. least \in 0 .. argc
      BY <1>4, <1>7, <1>9
    <3>2. Behind(heap, params, least) = Nil => least = argc
      <4>1. IsVariadic(params) => Behind(heap, params, least) # Nil
        BY <1>4 DEF IsVariadic, LastCdr, IsSym, Nil
      <4> QED BY <1>9, <4>1
    <3> QED BY <1>7, <3>1, <3>2
  <2>5. Ready(heap, protect', f)
    BY <1>5, <2>2, <2>4 DEF Ready
  <2>6. HoldsCur(heap, protect', f) /\ HoldsInner(heap, protect', f)
    BY <1>3, <1>6, <1>9, <2>2 DEF HoldsCur, HoldsInner, Third
  <2>7. Operands(f) \in Nat /\ Operands(Top) <= Operands(f)
    BY <1>3, <1>4, <2>3
  <2>8. FrameOK(heap', protect', f) /\ \A i \in 1 .. Top.saves[1] : protect'[i] = protect[i]
    BY <1>1, <1>2, <1>3, <1>9, <2>2, <2>5, <2>6, <2>7, CallFrameHolds DEF InCall
  <2>9. Go(f)
    BY <1>9, <2>1
  <2> QED BY <1>1, <1>2, <1>9, <2>2, <2>8, <2>9, SoundRuns
<1> QED
  BY <1>4, <1>8, <1>9 DEF CallClosure, Argc

\* There are operands for the parameters that are left, and for no more if
\* nothing takes the rest.
Enough(h, params, argv) ==
    \E n \in 0 .. Len(argv) : /\ Spans(h, params, n)
                              /\ Behind(h, params, n) = Nil => n = Len(argv)

\* It stays so,
LEMMA EnoughKept ==
    ASSUME NEW h, GoodHeap(h), NEW g, Keeps(h, g, InUse(h)), NEW params, Good(h, params),
           NEW argv, Len(argv) \in Nat, Enough(h, params, argv)
    PROVE  Enough(g, params, argv)
<1>1. Within(InUse(h), params)
  BY DEF Good
<1>2. \A n \in Nat : Behind(g, params, n) = Behind(h, params, n)
  BY <1>1, KeptBehind
<1>3. \A n \in Nat : Spans(g, params, n) <=> Spans(h, params, n)
  BY <1>1, KeptList
<1> QED
  BY <1>2, <1>3 DEF Enough

\* and when one parameter has its operand.
LEMMA EnoughShifts ==
    ASSUME NEW h, NEW params, IsPair(h, params), NEW argv, Sequence(argv), Enough(h, params, argv)
    PROVE  /\ argv # <<>> /\ Enough(h, Cdr(h, params), Tail(argv)) /\ Sequence(Tail(argv))
           /\ Len(argv) \in Nat \ {0} /\ Head(argv) = argv[1]
           /\ Len(Tail(argv)) \in Nat
           /\ \A k \in 1 .. Len(Tail(argv)) : \E j \in 1 .. Len(argv) : Tail(argv)[k] = argv[j]
<1>1. Len(argv) \in Nat
  BY LenProperties DEF Sequence
<1>2. PICK n \in 0 .. Len(argv) : Spans(h, params, n) /\ (Behind(h, params, n) = Nil => n = Len(argv))
  BY DEF Enough
<1>3. n # 0
  BY <1>2, BehindUnfolds DEF Spans
<1>4. argv # <<>>
  BY <1>1, <1>2, <1>3, EmptySeq
<1>5. PICK S : argv \in Seq(S)
  BY DEF Sequence
<1>6. /\ Tail(argv) \in Seq(S) /\ Len(Tail(argv)) = Len(argv) - 1
      /\ \A k \in 1 .. Len(Tail(argv)) : Tail(argv)[k] = argv[k + 1]
      /\ Head(argv) = argv[1]
  BY <1>4, <1>5, HeadTailProperties
<1>7. PICK m \in Nat : n = m + 1
  BY <1>1, <1>2, <1>3
<1>8. Spans(h, Cdr(h, params), m)
  BY <1>2, <1>7, SpansShifts
<1>9. Behind(h, Cdr(h, params), m) = Behind(h, params, n)
  BY <1>7, BehindShifts
<1>10. m \in 0 .. Len(Tail(argv)) /\ (n = Len(argv) => m = Len(Tail(argv)))
  <2>1. PICK l \in Nat : l = Len(argv)
    BY <1>1
  <2>2. m + 1 \in 0 .. l /\ Len(Tail(argv)) = l - 1
    BY <1>2, <1>6, <1>7, <2>1
  <2>3. m \in 0 .. l - 1 /\ (m + 1 = l => m = l - 1)
    BY <2>2
  <2> QED BY <1>7, <2>1, <2>2, <2>3
<1>11. Enough(h, Cdr(h, params), Tail(argv))
  BY <1>2, <1>8, <1>9, <1>10 DEF Enough
<1>12. \A k \in 1 .. Len(Tail(argv)) : k + 1 \in 1 .. Len(argv)
  BY <1>1, <1>6
<1>13. Len(Tail(argv)) \in Nat /\ Len(argv) # 0
  <2>1. PICK l \in Nat : l = Len(argv)
    BY <1>1
  <2>2. n \in 0 .. l /\ Len(Tail(argv)) = l - 1
    BY <1>2, <1>6, <2>1
  <2>3. l # 0 /\ l - 1 \in Nat
    BY <1>3, <2>2
  <2> QED BY <2>1, <2>2, <2>3
<1> QED
  BY <1>1, <1>4, <1>6, <1>11, <1>12, <1>13 DEF Sequence

\* apply_closure_bind allocates the frame of the call.
LEMMA SoundNewFrame ==
    ASSUME Inv, Sound, NewFrame
    PROVE  Sound'
<1>1. PICK inner : inner = Ref(NextFree(heap))
  OBVIOUS
<1>2. /\ stack # <<>> /\ Top.pc = "frame" /\ Room(heap)
      /\ heap' = Put(heap, Cell("ENV", <<ClosureEnv>>, <<>>))
      /\ protect' = Append(protect, inner)
      /\ Go([Top EXCEPT !.pc = "bind", !.inner = inner, !.saves = Append(@, Len(protect))])
  BY <1>1 DEF NewFrame, Run, At
<1>3. /\ GoodHeap(heap) /\ Good(heap, Top.proc) /\ Good(heap, Top.cur)
  BY <1>2, TopHolds
<1>4. /\ DOMAIN Top = Fields /\ Top.saves[1] \in Nat /\ Top.argc \in Nat
      /\ Sequence(Top.argv) /\ Len(Top.argv) \in Nat /\ Sequence(Top.saves)
      /\ Operands(Top) = Top.argc /\ Top.proc = protect[Top.saves[1] + 3]
      /\ HoldsCur(heap, protect, Top) /\ HoldsCall(heap, protect, Top) /\ Ready(heap, protect, Top)
  BY <1>2, CallHolds DEF InCall
<1>5. Len(Top.saves) = 2 /\ Len(protect) = Top.saves[1] + (3 + Top.argc)
  BY <1>2, CallFrame
<1>6. PICK sp \in Nat, argc \in Nat : sp = Top.saves[1] /\ argc = Top.argc
  BY <1>4
<1>7. IsA(heap, Top.proc, "CLOSURE") /\ Under(heap, Top.proc, Top.cur)
      /\ Enough(heap, Top.cur, Top.argv)
  BY <1>2, <1>4 DEF HoldsCall, HoldsCur, Ready, Third, Enough
<1>8. PICK cell : cell = Cell("ENV", <<ClosureEnv>>, <<>>)
  OBVIOUS
<1>9. CellOK(heap, cell) /\ cell.kind = "ENV"
  <2>1. Good(heap, ClosureEnv) /\ IsA(heap, ClosureEnv, "ENV")
    BY <1>3, <1>7, UnderClosure DEF ClosureEnv
  <2> QED BY <1>3, <1>8, <2>1, NewCells DEF Cell
<1>10. /\ GoodHeap(heap') /\ Keeps(heap, heap', InUse(heap)) /\ Good(heap', inner)
       /\ IsA(heap', inner, "ENV")
  BY <1>1, <1>2, <1>3, <1>8, <1>9, PutIsGood
<1>11. /\ \A i \in 1 .. sp + 3 + argc : protect'[i] = protect[i]
       /\ protect'[sp + 4 + argc] = inner
       /\ \A i \in 1 .. Len(protect') : Good(heap', protect'[i])
  <2>1. /\ \A i \in 1 .. Len(protect) : protect'[i] = protect[i]
        /\ protect'[Len(protect) + 1] = inner
        /\ \A i \in 1 .. Len(protect') : Good(heap', protect'[i])
    BY <1>2, <1>10, SlotsGrow
  <2>2. sp + (3 + argc) = sp + 3 + argc /\ sp + (3 + argc) + 1 = sp + 4 + argc
    OBVIOUS
  <2> QED BY <1>5, <1>6, <2>1, <2>2
<1>12. PICK f : f = [Top EXCEPT !.pc = "bind", !.inner = inner, !.saves = Append(@, Len(protect))]
  OBVIOUS
<1>13. /\ f.pc = "bind" /\ f.saves = Append(Top.saves, Len(protect)) /\ f.proc = Top.proc
       /\ f.argc = argc /\ f.args = Top.args /\ f.cur = Top.cur /\ f.env = Top.env
       /\ f.inner = inner /\ f.argv = Top.argv
  BY <1>4, <1>6, <1>12 DEF Fields
<1>14. f.saves[1] = sp
  BY <1>4, <1>5, <1>6, <1>13, Saved
<1>15. Operands(f) = argc
  BY <1>13, OperandsAre
<1>16. Third(protect', f) = Top.proc
  <2>1. sp + 3 \in 1 .. sp + 3 + argc
    OBVIOUS
  <2> QED BY <1>4, <1>6, <1>11, <1>14, <2>1 DEF Third
<1>17. Under(heap', Top.proc, Top.cur) /\ Enough(heap', Top.cur, Top.argv)
  BY <1>3, <1>4, <1>7, <1>10, KeptUnder, EnoughKept DEF Good
<1>18. HoldsCur(heap', protect', f) /\ HoldsInner(heap', protect', f) /\ Ready(heap', protect', f)
  BY <1>10, <1>11, <1>13, <1>14, <1>16, <1>17 DEF HoldsCur, HoldsInner, Ready, Enough
<1>19. /\ Operands(f) \in Nat /\ Operands(Top) <= Operands(f)
       /\ \A i \in 1 .. Top.saves[1] + 3 + Operands(Top) : protect'[i] = protect[i]
  BY <1>4, <1>6, <1>11, <1>15
<1>20. FrameOK(heap', protect', f) /\ \A i \in 1 .. Top.saves[1] : protect'[i] = protect[i]
  BY <1>2, <1>4, <1>6, <1>7, <1>10, <1>13, <1>14, <1>18, <1>19, CallFrameHolds DEF InCall
<1>21. Go(f)
  BY <1>2, <1>12
<1> QED
  BY <1>2, <1>6, <1>10, <1>11, <1>14, <1>20, <1>21, SoundRuns

\* A parameter is bound to its operand.
LEMMA SoundParameter ==
    ASSUME Inv, Sound, BindParameter
    PROVE  Sound'
<1>1. /\ stack # <<>> /\ Top.pc = "bind" /\ IsPair(heap, Top.cur) /\ protect' = protect
      /\ heap' = Define(heap, Top.inner, Car(heap, Top.cur), Head(Top.argv))
      /\ Go([Top EXCEPT !.cur = Cdr(heap, @), !.argv = Tail(@)])
  BY DEF BindParameter, Run, At
<1>2. /\ GoodHeap(heap) /\ Good(heap, Top.proc) /\ Good(heap, Top.cur) /\ Good(heap, Top.inner)
      /\ \A k \in 1 .. Len(Top.argv) : Good(heap, Top.argv[k])
  BY <1>1, TopHolds
<1>3. /\ DOMAIN Top = Fields /\ Top.saves[1] \in Nat /\ Top.argc \in Nat
      /\ Sequence(Top.argv) /\ Operands(Top) = Top.argc /\ Top.proc = protect[Top.saves[1] + 3]
      /\ HoldsCur(heap, protect, Top) /\ HoldsInner(heap, protect, Top)
      /\ HoldsCall(heap, protect, Top) /\ Ready(heap, protect, Top)
  BY <1>1, CallHolds DEF InCall
<1>4. PICK sp, argc, cur, argv :
        /\ sp \in Nat /\ sp = Top.saves[1] /\ argc \in Nat /\ argc = Top.argc
        /\ cur = Cdr(heap, Top.cur) /\ argv = Tail(Top.argv)
  BY <1>3
<1>5. /\ IsA(heap, Top.proc, "CLOSURE") /\ Under(heap, Top.proc, Top.cur)
      /\ Enough(heap, Top.cur, Top.argv) /\ IsA(heap, Top.inner, "ENV")
      /\ Top.inner = protect[sp + 4 + argc]
  BY <1>1, <1>3, <1>4 DEF HoldsCall, HoldsCur, HoldsInner, Ready, Third, Enough
<1>6. /\ Enough(heap, cur, argv) /\ Sequence(argv) /\ Len(argv) \in Nat
      /\ Len(Top.argv) \in Nat \ {0} /\ Head(Top.argv) = Top.argv[1]
      /\ \A k \in 1 .. Len(argv) : \E j \in 1 .. Len(Top.argv) : argv[k] = Top.argv[j]
  BY <1>1, <1>3, <1>4, <1>5, EnoughShifts
<1>7. Good(heap, Head(Top.argv))
  BY <1>2, <1>6
<1>8. Under(heap, Top.proc, cur) /\ Good(heap, cur)
  BY <1>1, <1>2, <1>4, <1>5, UnderPair, PairHas
<1>9. GoodHeap(heap') /\ Keeps(heap, heap', InUse(heap))
  BY <1>1, <1>2, <1>5, <1>7, DefineIsGood
<1>10. \A i \in 1 .. Len(protect') : Good(heap', protect'[i])
  BY <1>1, <1>9, SlotsStay
<1>11. PICK f : f = [Top EXCEPT !.cur = cur, !.argv = argv]
  OBVIOUS
<1>12. /\ f.pc = "bind" /\ f.saves = Top.saves /\ f.proc = Top.proc
       /\ f.argc = argc /\ f.args = Top.args /\ f.cur = cur /\ f.env = Top.env
       /\ f.inner = Top.inner /\ f.argv = argv
  BY <1>1, <1>3, <1>4, <1>11 DEF Fields
<1>13. Operands(f) = argc
  BY <1>4, <1>12, OperandsAre
<1>14. Third(protect', f) = Top.proc
  BY <1>1, <1>3, <1>12 DEF Third
<1>15. Under(heap', Top.proc, cur) /\ Enough(heap', cur, argv)
  BY <1>2, <1>6, <1>8, <1>9, KeptUnder, EnoughKept DEF Good
<1>16. IsA(heap', Top.inner, "ENV") /\ Good(heap', Top.inner)
  BY <1>2, <1>5, <1>9, KeptIsGood
<1>17. HoldsCur(heap', protect', f) /\ HoldsInner(heap', protect', f) /\ Ready(heap', protect', f)
  BY <1>1, <1>4, <1>5, <1>12, <1>14, <1>15, <1>16 DEF HoldsCur, HoldsInner, Ready, Enough
<1>18. Operands(f) \in Nat /\ Operands(Top) <= Operands(f)
  BY <1>3, <1>4, <1>13
<1>19. FrameOK(heap', protect', f) /\ \A i \in 1 .. Top.saves[1] : protect'[i] = protect[i]
  BY <1>1, <1>5, <1>6, <1>9, <1>12, <1>17, <1>18, CallFrameHolds DEF InCall
<1>20. Go(f)
  BY <1>1, <1>4, <1>11
<1> QED
  BY <1>1, <1>9, <1>10, <1>12, <1>19, <1>20, SoundRuns

\* What is known of a call of a closure whose frame is there.
LEMMA BindHolds ==
    ASSUME Inv, Sound, stack # <<>>, Top.pc \in {"bind", "push", "rest"}
    PROVE  /\ GoodHeap(heap) /\ Keeps(heap, heap, InUse(heap)) /\ Good(heap, Top.cur)
           /\ \A k \in 1 .. Len(Top.argv) : Good(heap, Top.argv[k])
           /\ DOMAIN Top = Fields /\ Top.saves[1] \in Nat /\ Top.argc \in Nat
           /\ Sequence(Top.argv) /\ Sequence(Top.saves)
           /\ Operands(Top) = Top.argc /\ Top.proc = protect[Top.saves[1] + 3]
           /\ IsA(heap, Top.proc, "CLOSURE") /\ Sequence(protect)
           /\ Top.inner = protect[Top.saves[1] + 4 + Top.argc]
           /\ IsA(heap, Top.inner, "ENV") /\ Good(heap, Top.inner)
<1>1. /\ GoodHeap(heap) /\ Keeps(heap, heap, InUse(heap)) /\ Good(heap, Top.cur)
      /\ \A k \in 1 .. Len(Top.argv) : Good(heap, Top.argv[k]) /\ Good(heap, Top.inner)
      /\ Good(heap, Top.inner)
  BY TopHolds
<1>2. /\ DOMAIN Top = Fields /\ Top.saves[1] \in Nat /\ Top.argc \in Nat
      /\ Sequence(Top.argv) /\ Sequence(Top.saves)
      /\ Operands(Top) = Top.argc /\ Top.proc = protect[Top.saves[1] + 3]
      /\ HoldsInner(heap, protect, Top) /\ HoldsCall(heap, protect, Top)
  BY CallHolds DEF InCall
<1>3. /\ Top.inner = protect[Top.saves[1] + 4 + Top.argc] /\ IsA(heap, Top.inner, "ENV")
      /\ IsA(heap, Top.proc, "CLOSURE")
  BY <1>2 DEF HoldsInner, HoldsCall, Third
<1> QED
  BY <1>1, <1>2, <1>3 DEF Inv

\* build_list begins.
LEMMA SoundRest ==
    ASSUME Inv, Sound, BindRest
    PROVE  Sound'
<1>1. /\ stack # <<>> /\ Top.pc = "bind" /\ heap' = heap /\ protect' = Append(protect, Nil)
      /\ Go([Top EXCEPT !.pc = "push", !.cur = Nil, !.saves = Append(@, Len(protect))])
  BY DEF BindRest, Run, At
<1>2. /\ GoodHeap(heap) /\ Keeps(heap, heap, InUse(heap))
      /\ DOMAIN Top = Fields /\ Top.saves[1] \in Nat /\ Top.argc \in Nat
      /\ Sequence(Top.argv) /\ Sequence(Top.saves) /\ Operands(Top) = Top.argc
      /\ IsA(heap, Top.proc, "CLOSURE") /\ Top.inner = protect[Top.saves[1] + 4 + Top.argc]
      /\ IsA(heap, Top.inner, "ENV") /\ Good(heap, Top.inner)
  BY <1>1, BindHolds
<1>3. Len(Top.saves) = 3 /\ Len(protect) = Top.saves[1] + (4 + Top.argc)
  BY <1>1, CallFrame
<1>4. PICK sp \in Nat, argc \in Nat : sp = Top.saves[1] /\ argc = Top.argc
  BY <1>2
<1>5. /\ \A i \in 1 .. sp + 4 + argc : protect'[i] = protect[i]
      /\ protect'[sp + 5 + argc] = Nil
      /\ \A i \in 1 .. Len(protect') : Good(heap', protect'[i])
  <2>1. /\ \A i \in 1 .. Len(protect) : protect'[i] = protect[i]
        /\ protect'[Len(protect) + 1] = Nil
        /\ \A i \in 1 .. Len(protect') : Good(heap', protect'[i])
    BY <1>1, <1>2, SlotsGrow, AtomsAreGood
  <2>2. sp + (4 + argc) = sp + 4 + argc /\ sp + (4 + argc) + 1 = sp + 5 + argc
    OBVIOUS
  <2> QED BY <1>3, <1>4, <2>1, <2>2
<1>6. PICK f : f = [Top EXCEPT !.pc = "push", !.cur = Nil, !.saves = Append(@, Len(protect))]
  OBVIOUS
<1>7. /\ f.pc = "push" /\ f.saves = Append(Top.saves, Len(protect)) /\ f.proc = Top.proc
      /\ f.argc = argc /\ f.args = Top.args /\ f.cur = Nil /\ f.env = Top.env
      /\ f.inner = Top.inner /\ f.argv = Top.argv
  BY <1>2, <1>4, <1>6 DEF Fields
<1>8. f.saves[1] = sp
  BY <1>2, <1>3, <1>4, <1>7, Saved
<1>9. Operands(f) = argc
  BY <1>7, OperandsAre
<1>10. sp + 4 + argc \in 1 .. sp + 4 + argc /\ \A i \in 1 .. sp + 3 + argc : i \in 1 .. sp + 4 + argc
  OBVIOUS
<1>11. HoldsCur(heap, protect', f) /\ HoldsInner(heap, protect', f) /\ Ready(heap, protect', f)
  <2>1. Top.inner = protect'[sp + 4 + argc]
    BY <1>2, <1>4, <1>5, <1>10
  <2> QED BY <1>2, <1>5, <1>7, <1>8, <2>1 DEF HoldsCur, HoldsInner, Ready
<1>12. /\ Operands(f) \in Nat /\ Operands(Top) <= Operands(f)
       /\ \A i \in 1 .. Top.saves[1] + 3 + Operands(Top) : protect'[i] = protect[i]
  BY <1>2, <1>4, <1>5, <1>9, <1>10
<1>13. FrameOK(heap', protect', f) /\ \A i \in 1 .. Top.saves[1] : protect'[i] = protect[i]
  BY <1>1, <1>2, <1>4, <1>7, <1>8, <1>11, <1>12, CallFrameHolds DEF InCall
<1>14. Go(f)
  BY <1>1, <1>6
<1> QED
  BY <1>1, <1>2, <1>4, <1>5, <1>8, <1>13, <1>14, SoundRuns

\* build_list protects the next element.
LEMMA SoundElement ==
    ASSUME Inv, Sound, RestElement
    PROVE  Sound'
<1>1. PICK v : v = Last(Top.argv)
  OBVIOUS
<1>2. /\ stack # <<>> /\ Top.pc = "push" /\ heap' = heap /\ protect' = Append(protect, v)
      /\ Top.argv # <<>> /\ Go([Top EXCEPT !.pc = "rest"])
  BY <1>1 DEF RestElement, Run, At
<1>3. /\ GoodHeap(heap) /\ Keeps(heap, heap, InUse(heap))
      /\ \A k \in 1 .. Len(Top.argv) : Good(heap, Top.argv[k])
      /\ DOMAIN Top = Fields /\ Top.saves[1] \in Nat /\ Top.argc \in Nat
      /\ Sequence(Top.argv) /\ Operands(Top) = Top.argc
      /\ IsA(heap, Top.proc, "CLOSURE") /\ Top.inner = protect[Top.saves[1] + 4 + Top.argc]
      /\ IsA(heap, Top.inner, "ENV") /\ Good(heap, Top.inner)
  BY <1>2, BindHolds
<1>4. Len(protect) = Top.saves[1] + (5 + Top.argc)
  BY <1>2, CallFrame
<1>5. PICK sp \in Nat, argc \in Nat : sp = Top.saves[1] /\ argc = Top.argc
  BY <1>3
<1>6. Top.cur = protect[sp + 5 + argc]
  BY <1>2, <1>5, CallHolds DEF InCall, HoldsCur
<1>7. Good(heap, v)
  <2>1. v = Top.argv[Len(Top.argv)] /\ Len(Top.argv) \in Nat \ {0}
    BY <1>1, <1>2, <1>3, Popped
  <2>2. Len(Top.argv) \in 1 .. Len(Top.argv)
    BY <2>1
  <2> QED BY <1>3, <2>1, <2>2
<1>8. /\ \A i \in 1 .. sp + 5 + argc : protect'[i] = protect[i]
      /\ \A i \in 1 .. Len(protect') : Good(heap', protect'[i])
  <2>1. /\ \A i \in 1 .. Len(protect) : protect'[i] = protect[i]
        /\ \A i \in 1 .. Len(protect') : Good(heap', protect'[i])
    BY <1>2, <1>3, <1>7, SlotsGrow
  <2>2. sp + (5 + argc) = sp + 5 + argc
    OBVIOUS
  <2> QED BY <1>4, <1>5, <2>1, <2>2
<1>9. PICK f : f = [Top EXCEPT !.pc = "rest"]
  OBVIOUS
<1>10. /\ f.pc = "rest" /\ f.saves = Top.saves /\ f.proc = Top.proc
       /\ f.argc = argc /\ f.args = Top.args /\ f.cur = Top.cur /\ f.env = Top.env
       /\ f.inner = Top.inner /\ f.argv = Top.argv
  BY <1>3, <1>5, <1>9 DEF Fields
<1>11. Operands(f) = argc
  BY <1>10, OperandsAre
<1>12. /\ sp + 4 + argc \in 1 .. sp + 5 + argc /\ sp + 5 + argc \in 1 .. sp + 5 + argc
       /\ \A i \in 1 .. sp + 3 + argc : i \in 1 .. sp + 5 + argc
  OBVIOUS
<1>13. HoldsCur(heap, protect', f) /\ HoldsInner(heap, protect', f) /\ Ready(heap, protect', f)
  <2>1. Top.inner = protect'[sp + 4 + argc] /\ Top.cur = protect'[sp + 5 + argc]
    BY <1>3, <1>5, <1>6, <1>8, <1>12
  <2> QED BY <1>2, <1>3, <1>5, <1>10, <2>1 DEF HoldsCur, HoldsInner, Ready
<1>14. /\ Operands(f) \in Nat /\ Operands(Top) <= Operands(f)
       /\ \A i \in 1 .. Top.saves[1] + 3 + Operands(Top) : protect'[i] = protect[i]
  BY <1>3, <1>5, <1>8, <1>11, <1>12
<1>15. FrameOK(heap', protect', f) /\ \A i \in 1 .. Top.saves[1] : protect'[i] = protect[i]
  BY <1>2, <1>3, <1>10, <1>13, <1>14, CallFrameHolds DEF InCall
<1>16. Go(f)
  BY <1>2, <1>9
<1> QED
  BY <1>2, <1>3, <1>8, <1>10, <1>15, <1>16, SoundRuns

\* build_list allocates the pair for it.
LEMMA SoundRestCell ==
    ASSUME Inv, Sound, RestCell
    PROVE  Sound'
<1>1. PICK cell : cell = Ref(NextFree(heap))
  OBVIOUS
<1>2. /\ stack # <<>> /\ Top.pc = "rest" /\ Room(heap)
      /\ heap' = Put(heap, Cell("PAIR", <<Last(Top.argv), Top.cur>>, <<>>))
      /\ protect' = [Front(protect) EXCEPT ![Top.saves[4] + 1] = cell]
      /\ Go([Top EXCEPT !.pc = "push", !.cur = cell, !.argv = Front(@)])
  BY <1>1 DEF RestCell, Run, At
<1>3. /\ GoodHeap(heap) /\ Good(heap, Top.cur) /\ Sequence(protect)
      /\ \A k \in 1 .. Len(Top.argv) : Good(heap, Top.argv[k])
      /\ DOMAIN Top = Fields /\ Top.saves[1] \in Nat /\ Top.argc \in Nat
      /\ Sequence(Top.argv) /\ Operands(Top) = Top.argc
      /\ IsA(heap, Top.proc, "CLOSURE") /\ Top.inner = protect[Top.saves[1] + 4 + Top.argc]
      /\ IsA(heap, Top.inner, "ENV") /\ Good(heap, Top.inner)
  BY <1>2, BindHolds
<1>4. Top.saves[4] = Top.saves[1] + 4 + Top.argc /\ Len(protect) = Top.saves[1] + (6 + Top.argc)
  BY <1>2, CallFrame
<1>5. PICK sp \in Nat, argc \in Nat, n \in Nat :
        sp = Top.saves[1] /\ argc = Top.argc /\ n = sp + 5 + argc
  BY <1>3
<1>6. Top.saves[4] + 1 = n /\ Len(protect) = n + 1
  <2>1. sp + 4 + argc + 1 = sp + 5 + argc /\ sp + (6 + argc) = sp + 5 + argc + 1
    OBVIOUS
  <2> QED BY <1>4, <1>5, <2>1
<1>7. Top.argv # <<>>
  BY <1>2, CallHolds DEF InCall, Ready
<1>8. PICK argv, q : argv = Front(Top.argv) /\ q = Front(protect)
  OBVIOUS
<1>9. /\ GoodHeap(heap') /\ Keeps(heap, heap', InUse(heap)) /\ Good(heap', cell)
      /\ Sequence(argv) /\ \A k \in 1 .. Len(argv) : \E j \in 1 .. Len(Top.argv) : argv[k] = Top.argv[j]
  <2>1. PICK old, list : old = Top.argv /\ list = Top.cur
    OBVIOUS
  <2>2. heap' = Put(heap, Cell("PAIR", <<Last(old), list>>, <<>>))
    BY <1>2, <2>1
  <2>3. /\ Sequence(old) /\ old # <<>> /\ Good(heap, list)
        /\ \A k \in 1 .. Len(old) : Good(heap, old[k])
    BY <1>2, <1>3, <1>7, <2>1
  <2>4. /\ GoodHeap(heap') /\ Keeps(heap, heap', InUse(heap)) /\ Good(heap', Ref(NextFree(heap)))
        /\ Sequence(Front(old))
        /\ \A k \in 1 .. Len(Front(old)) : \E j \in 1 .. Len(old) : Front(old)[k] = old[j]
    BY <1>2, <1>3, <2>2, <2>3, ListGrows
  <2> QED BY <1>1, <1>8, <2>1, <2>4
<1>10. /\ protect'[n] = cell
       /\ \A i \in 1 .. n - 1 : protect'[i] = protect[i]
       /\ \A i \in 1 .. Len(protect') : Good(heap', protect'[i])
  <2>1. n # 0 /\ n <= Len(protect) /\ protect # <<>>
    <3>1. n # 0 /\ n <= n + 1 /\ n + 1 # 0
      BY <1>5
    <3> QED BY <1>6, <3>1, EmptySeq
  <2>2. /\ Sequence(q) /\ Len(q) = Len(protect) - 1
        /\ \A i \in 1 .. Len(protect) - 1 : q[i] = protect[i]
    BY <1>3, <1>8, <2>1, Popped
  <2>3. Len(protect) - 1 = n
    BY <1>6
  <2>4. Len(q) = n /\ \A i \in 1 .. n : q[i] = protect[i]
    BY <2>2, <2>3
  <2>5. protect' = [q EXCEPT ![n] = cell]
    BY <1>2, <1>6, <1>8
  <2>6. Sequence(q) /\ n # 0 /\ n <= Len(protect)
    BY <2>1, <2>2
  <2>7. Keeps(heap, heap', InUse(heap)) /\ Good(heap', cell)
    BY <1>9
  <2>8. q # <<>>
    BY <2>4, <2>6, EmptySeq
  <2>9. /\ Len(protect') = n /\ protect'[n] = cell
        /\ \A i \in 1 .. n - 1 : protect'[i] = q[i]
    BY <2>4, <2>5, <2>6, <2>8, Topped
  <2>10. \A i \in 1 .. n - 1 : i \in 1 .. n /\ i \in 1 .. Len(protect)
    BY <1>6
  <2>11. \A i \in 1 .. n - 1 : protect'[i] = protect[i]
    BY <2>4, <2>9, <2>10
  <2>12. \A i \in 1 .. n - 1 : Good(heap', protect'[i])
    <3>1. \A i \in 1 .. Len(protect) : Good(heap, protect[i])
      BY <1>2, TopHolds
    <3> QED BY <1>3, <1>9, <2>10, <2>11, <3>1, KeptIsGood
  <2>13. \A i \in 1 .. n : i = n \/ i \in 1 .. n - 1
    OBVIOUS
  <2> QED BY <1>9, <2>9, <2>11, <2>12, <2>13
<1>11. PICK f : f = [Top EXCEPT !.pc = "push", !.cur = cell, !.argv = argv]
  OBVIOUS
<1>12. /\ f.pc = "push" /\ f.saves = Top.saves /\ f.proc = Top.proc
       /\ f.argc = argc /\ f.args = Top.args /\ f.cur = cell /\ f.env = Top.env
       /\ f.inner = Top.inner /\ f.argv = argv
  BY <1>3, <1>5, <1>11 DEF Fields
<1>13. Operands(f) = argc
  BY <1>12, OperandsAre
<1>14. sp + 4 + argc \in 1 .. n - 1 /\ \A i \in 1 .. sp + 3 + argc : i \in 1 .. n - 1
  BY <1>5
<1>15. HoldsCur(heap', protect', f) /\ HoldsInner(heap', protect', f) /\ Ready(heap', protect', f)
  <2>1. Top.inner = protect'[sp + 4 + argc]
    BY <1>3, <1>5, <1>10, <1>14
  <2>2. IsA(heap', Top.inner, "ENV") /\ Good(heap', Top.inner)
    BY <1>3, <1>9, KeptIsGood
  <2> QED BY <1>5, <1>10, <1>12, <2>1, <2>2 DEF HoldsCur, HoldsInner, Ready
<1>16. /\ Operands(f) \in Nat /\ Operands(Top) <= Operands(f)
       /\ \A i \in 1 .. Top.saves[1] + 3 + Operands(Top) : protect'[i] = protect[i]
  <2>1. Operands(Top) = argc /\ Top.saves[1] = sp
    BY <1>3, <1>5
  <2>2. \A i \in 1 .. sp + 3 + argc : protect'[i] = protect[i]
    BY <1>10, <1>14
  <2>3. \A i \in 1 .. Top.saves[1] + 3 + Operands(Top) : protect'[i] = protect[i]
    BY <2>1, <2>2
  <2>4. argc <= argc
    OBVIOUS
  <2> QED BY <1>13, <2>1, <2>3, <2>4
<1>17. FrameOK(heap', protect', f) /\ \A i \in 1 .. Top.saves[1] : protect'[i] = protect[i]
  BY <1>2, <1>3, <1>9, <1>12, <1>15, <1>16, CallFrameHolds DEF InCall
<1>18. Go(f)
  BY <1>2, <1>8, <1>11
<1> QED
  BY <1>2, <1>9, <1>10, <1>12, <1>17, <1>18, SoundRuns

\* The first slots are all that is left of the protect stack.
LEMMA SlotsCut ==
    ASSUME Inv, Sound, Keeps(heap, heap', InUse(heap)),
           NEW n \in Nat, n <= Len(protect), protect' = Kept(n)
    PROVE  /\ Len(protect') = n /\ \A i \in 1 .. n : protect'[i] = protect[i]
           /\ \A i \in 1 .. Len(protect') : Good(heap', protect'[i])
<1>1. Sequence(protect) /\ Len(protect) \in Nat
  BY StackOrder DEF Inv
<1>2. GoodHeap(heap) /\ \A i \in 1 .. Len(protect) : Good(heap, protect[i])
  BY DEF Sound, SoundHeap
<1>3. Len(protect') = n /\ \A i \in 1 .. n : protect'[i] = protect[i]
  BY <1>1, Cut DEF Kept
<1>4. \A i \in 1 .. n : i \in 1 .. Len(protect)
  BY <1>1
<1> QED
  BY <1>2, <1>3, <1>4, KeptIsGood

\* The rest parameter gets the list.
LEMMA SoundRestDone ==
    ASSUME Inv, Sound, RestDone
    PROVE  Sound'
<1>1. PICK name : name = LastCdr(heap, ClosureParams)
  OBVIOUS
<1>2. /\ stack # <<>> /\ Top.pc = "push" /\ Top.argv = <<>>
      /\ heap' = Define(heap, Top.inner, name, Top.cur) /\ protect' = Kept(Top.saves[4])
      /\ Go([Top EXCEPT !.pc = "bind", !.cur = Nil, !.saves = Front(@)])
  BY <1>1 DEF RestDone, Run, At
<1>3. /\ GoodHeap(heap) /\ Good(heap, Top.cur)
      /\ DOMAIN Top = Fields /\ Top.saves[1] \in Nat /\ Top.argc \in Nat
      /\ Sequence(Top.argv) /\ Sequence(Top.saves) /\ Operands(Top) = Top.argc
      /\ IsA(heap, Top.proc, "CLOSURE") /\ Top.inner = protect[Top.saves[1] + 4 + Top.argc]
      /\ IsA(heap, Top.inner, "ENV") /\ Good(heap, Top.inner)
  BY <1>2, BindHolds
<1>4. /\ Len(Top.saves) = 4
      /\ Top.saves[4] = Top.saves[1] + 4 + Top.argc /\ Len(protect) = Top.saves[1] + (5 + Top.argc)
  BY <1>2, CallFrame
<1>5. PICK sp \in Nat, argc \in Nat, n \in Nat :
        sp = Top.saves[1] /\ argc = Top.argc /\ n = sp + 4 + argc
  BY <1>3
<1>6. Top.saves[4] = n /\ n <= Len(protect)
  <2>1. n <= sp + (5 + argc)
    BY <1>5
  <2> QED BY <1>4, <1>5, <2>1
<1>7. GoodHeap(heap') /\ Keeps(heap, heap', InUse(heap))
  BY <1>2, <1>3, DefineIsGood
<1>8. /\ \A i \in 1 .. n : protect'[i] = protect[i]
      /\ \A i \in 1 .. Len(protect') : Good(heap', protect'[i])
  BY <1>2, <1>6, <1>7, SlotsCut
<1>9. PICK f : f = [Top EXCEPT !.pc = "bind", !.cur = Nil, !.saves = Front(@)]
  OBVIOUS
<1>10. /\ f.pc = "bind" /\ f.saves = Front(Top.saves) /\ f.proc = Top.proc
       /\ f.argc = argc /\ f.args = Top.args /\ f.cur = Nil /\ f.env = Top.env
       /\ f.inner = Top.inner /\ f.argv = <<>>
  BY <1>2, <1>3, <1>5, <1>9 DEF Fields
<1>11. f.saves[1] = sp
  <2>1. Top.saves # <<>>
    BY <1>4, EmptySeq
  <2>2. 1 \in 1 .. Len(Top.saves) - 1
    BY <1>4
  <2>3. Front(Top.saves)[1] = Top.saves[1]
    BY <1>3, <2>1, <2>2, Popped
  <2> QED BY <1>5, <1>10, <2>3
<1>12. Operands(f) = argc
  BY <1>10, OperandsAre
<1>13. n \in 1 .. n /\ \A i \in 1 .. sp + 3 + argc : i \in 1 .. n
  BY <1>5
<1>14. Sequence(f.argv) /\ Len(f.argv) = 0
  BY <1>10, EmptySeq DEF Sequence
<1>15. HoldsCur(heap', protect', f) /\ HoldsInner(heap', protect', f) /\ Ready(heap', protect', f)
  <2>1. Top.inner = protect'[sp + 4 + argc]
    BY <1>3, <1>5, <1>8, <1>13
  <2>2. IsA(heap', Top.inner, "ENV") /\ Good(heap', Top.inner)
    BY <1>3, <1>7, KeptIsGood
  <2>3. ~IsPair(heap', Nil)
    BY DEF IsPair, IsA, IsObj, Nil
  <2>4. Spans(heap', Nil, 0)
    BY <2>3, SpansShifts
  <2>5. \A root : Under(heap', root, Nil)
    BY AtomsAreGood
  <2>6. f.inner = protect'[f.saves[1] + 4 + f.argc]
    BY <1>10, <1>11, <2>1
  <2>7. HoldsCur(heap', protect', f)
    BY <1>10, <2>5 DEF HoldsCur
  <2>8. HoldsInner(heap', protect', f)
    BY <1>10, <2>2, <2>6 DEF HoldsInner
  <2>9. 0 \in 0 .. Len(f.argv) /\ 0 = Len(f.argv)
    BY <1>14
  <2>10. Ready(heap', protect', f)
    BY <1>10, <2>4, <2>9 DEF Ready
  <2> QED BY <2>7, <2>8, <2>10
<1>16. /\ Operands(f) \in Nat /\ Operands(Top) <= Operands(f)
       /\ \A i \in 1 .. Top.saves[1] + 3 + Operands(Top) : protect'[i] = protect[i]
  <2>1. Operands(Top) = argc /\ Top.saves[1] = sp
    BY <1>3, <1>5
  <2>2. \A i \in 1 .. sp + 3 + argc : protect'[i] = protect[i]
    BY <1>8, <1>13
  <2>3. \A i \in 1 .. Top.saves[1] + 3 + Operands(Top) : protect'[i] = protect[i]
    BY <2>1, <2>2
  <2>4. argc <= argc
    OBVIOUS
  <2> QED BY <1>12, <2>1, <2>3, <2>4
<1>17. FrameOK(heap', protect', f) /\ \A i \in 1 .. Top.saves[1] : protect'[i] = protect[i]
  <2>1. Top.pc \in InCall \ {"body"} /\ f.pc \in InCall \ {"body"}
    BY <1>2, <1>10 DEF InCall
  <2>2. /\ f.saves[1] = Top.saves[1] /\ f.args = Top.args /\ f.env = Top.env
        /\ f.proc = Top.proc /\ Sequence(f.argv)
    BY <1>5, <1>10, <1>11, <1>14
  <2>3. \A k \in 1 .. Len(f.argv) :
           \/ \E j \in 1 .. Len(Top.argv) : f.argv[k] = Top.argv[j]
           \/ \E i \in 1 .. Operands(f) : f.argv[k] = protect'[Top.saves[1] + 3 + i]
    BY <1>14
  <2> QED BY <1>2, <1>3, <1>7, <1>15, <1>16, <2>1, <2>2, <2>3, CallFrameHolds
<1>18. Go(f)
  BY <1>2, <1>9
<1> QED
  BY <1>2, <1>5, <1>7, <1>8, <1>11, <1>17, <1>18, SoundRuns

\* apply_closure_bind returns.
LEMMA SoundBound ==
    ASSUME Inv, Sound, Bound
    PROVE  Sound'
<1>1. /\ stack # <<>> /\ Top.pc = "bind" /\ Top.cur = Nil /\ heap' = heap
      /\ protect' = Kept(Top.saves[3] - Top.argc)
      /\ Go([Top EXCEPT !.pc = "body", !.args = Nil, !.argc = 0, !.saves = SubSeq(@, 1, 2)])
  BY DEF Bound, Run, At
<1>2. /\ GoodHeap(heap) /\ Keeps(heap, heap, InUse(heap))
      /\ DOMAIN Top = Fields /\ Top.saves[1] \in Nat /\ Top.argc \in Nat
      /\ Sequence(Top.argv) /\ Sequence(Top.saves) /\ Operands(Top) = Top.argc
      /\ Top.proc = protect[Top.saves[1] + 3] /\ IsA(heap, Top.proc, "CLOSURE")
      /\ IsA(heap, Top.inner, "ENV") /\ Good(heap, Top.inner)
  BY <1>1, BindHolds
<1>3. /\ Len(Top.saves) = 3
      /\ Top.saves[3] = Top.saves[1] + 3 + Top.argc /\ Len(protect) = Top.saves[1] + (4 + Top.argc)
  BY <1>1, CallFrame
<1>4. Top.env = Env /\ Ready(heap, protect, Top) /\ IsA(heap, Env, "ENV")
  BY <1>1, CallHolds, TopHolds DEF InCall
<1>5. PICK sp \in Nat, argc \in Nat : sp = Top.saves[1] /\ argc = Top.argc
  BY <1>2
<1>6. Top.saves[3] - Top.argc = sp + 3 /\ sp + 3 <= Len(protect)
  <2>1. sp + 3 + argc - argc = sp + 3 /\ sp + 3 <= sp + (4 + argc)
    OBVIOUS
  <2> QED BY <1>3, <1>5, <2>1
<1>7. /\ \A i \in 1 .. sp + 3 : protect'[i] = protect[i]
      /\ \A i \in 1 .. Len(protect') : Good(heap', protect'[i])
  <2>1. sp + 3 \in Nat /\ protect' = Kept(sp + 3)
    BY <1>1, <1>6
  <2> QED BY <1>1, <1>2, <1>6, <2>1, SlotsCut
<1>8. Top.argv = <<>>
  <2>1. PICK n \in 0 .. Len(Top.argv) : /\ Spans(heap, Nil, n)
                                        /\ Behind(heap, Nil, n) = Nil => n = Len(Top.argv)
    BY <1>1, <1>4 DEF Ready
  <2>2. ~IsPair(heap, Nil)
    BY DEF IsPair, IsA, IsObj, Nil
  <2>3. Len(Top.argv) \in Nat
    BY <1>2, LenProperties DEF Sequence
  <2>4. n \in Nat
    BY <2>1, <2>3
  <2>5. n = 0 /\ Behind(heap, Nil, n) = Nil
    BY <2>1, <2>2, <2>4, SpansShifts, BehindShifts
  <2>6. PICK S : Top.argv \in Seq(S)
    BY <1>2 DEF Sequence
  <2> QED BY <2>1, <2>5, <2>6, EmptySeq
<1>9. PICK f : f = [Top EXCEPT !.pc = "body", !.args = Nil, !.argc = 0, !.saves = SubSeq(@, 1, 2)]
  OBVIOUS
<1>10. /\ f.pc = "body" /\ f.saves = SubSeq(Top.saves, 1, 2) /\ f.proc = Top.proc
       /\ f.argc = 0 /\ f.args = Nil /\ f.cur = Nil /\ f.env = Env
       /\ f.inner = Top.inner /\ f.argv = <<>>
  BY <1>1, <1>2, <1>4, <1>8, <1>9 DEF Fields
<1>11. f.saves[1] = sp
  <2>1. 2 <= Len(Top.saves)
    BY <1>3
  <2> QED BY <1>2, <1>5, <1>10, <2>1, Cut
<1>12. EnvOf(protect', f) = Env /\ Third(protect', f) = Top.proc
  <2>1. sp + 2 \in 1 .. sp + 3 /\ sp + 3 \in 1 .. sp + 3
    OBVIOUS
  <2> QED BY <1>2, <1>5, <1>7, <1>11, <2>1 DEF EnvOf, Third, Env
<1>13. Sequence(f.argv) /\ Len(f.argv) = 0
  BY <1>10, EmptySeq DEF Sequence
<1>14. HoldsCur(heap, protect', f) /\ HoldsInner(heap, protect', f) /\ Ready(heap, protect', f)
  BY <1>2, <1>10, AtomsAreGood DEF HoldsCur, HoldsInner, Ready
<1>15. HoldsCall(heap, protect', f)
  BY <1>2, <1>10, <1>12, <1>13 DEF HoldsCall, InCall
<1>16. FrameOK(heap', protect', f)
  BY <1>1, <1>4, <1>10, <1>12, <1>13, <1>14, <1>15, AtomsAreGood DEF FrameOK
<1>17. \A i \in 1 .. Top.saves[1] : protect'[i] = protect[i]
  <2>1. \A i \in 1 .. sp : i \in 1 .. sp + 3
    OBVIOUS
  <2> QED BY <1>5, <1>7, <2>1
<1>18. Go(f)
  BY <1>1, <1>9
<1> QED
  BY <1>1, <1>2, <1>5, <1>7, <1>11, <1>16, <1>17, <1>18, SoundRuns

-----------------------------------------------------------------------------
(***************************************************************************)
(* Errors, the entry of ml_eval, microlisp_eval and the collector.         *)
(***************************************************************************)

\* An error goes up; the embedder's allocator fails.
LEMMA SoundFailures ==
    ASSUME Inv, Sound, Propagate \/ OutOfMemory
    PROVE  Sound'
<1>1. stack # <<>>
  BY DEF Propagate, OutOfMemory, Inv, Control
<1>2. GoodHeap(heap) /\ reg.status \in Statuses /\ Keeps(heap, heap, InUse(heap))
  BY <1>1, TopHolds
<1>3. CASE Propagate
  BY <1>1, <1>2, <1>3, SoundEnds, AtomsAreGood DEF Propagate, Fail
<1>4. CASE OutOfMemory
  <2>1. PICK cell : cell = Cell("PAIR", <<Nil, Nil>>, <<>>)
    OBVIOUS
  <2>2. heap' = heap \/ (Room(heap) /\ heap' = Put(heap, cell))
    BY <1>4, <2>1 DEF OutOfMemory
  <2>3. CellOK(heap, cell) /\ cell.kind # "FREE"
    BY <1>2, <2>1, NewCells, AtomsAreGood DEF Cell
  <2>4. GoodHeap(heap') /\ Keeps(heap, heap', InUse(heap))
    BY <1>2, <2>2, <2>3, PutIsGood
  <2>5. Return("NOMEM", Undef)
    BY <1>4 DEF OutOfMemory, Fail
  <2> QED BY <1>1, <2>4, <2>5, SoundReturns, AtomsAreGood DEF Statuses
<1> QED
  BY <1>3, <1>4

\* The frame of an invocation that begins.
LEMMA LoopFrameHolds ==
    ASSUME NEW h, NEW p, NEW sp, IsA(h, p[sp + 2], "ENV")
    PROVE  FrameOK(h, p, LoopFrame(sp))
<1>1. PICK f : f = LoopFrame(sp)
  OBVIOUS
<1>2. /\ f.pc = "loop" /\ f.saves = <<sp>> /\ f.args = Nil /\ f.cur = Nil /\ f.env = Nil
      /\ f.inner = Nil /\ f.proc = Nil /\ f.argv = <<>>
  BY <1>1 DEF LoopFrame
<1>3. Sequence(f.argv) /\ Len(f.argv) = 0
  BY <1>2, EmptySeq DEF Sequence
<1>4. f.saves[1] = sp
  BY <1>2
<1>5. HoldsCur(h, p, f) /\ HoldsInner(h, p, f) /\ HoldsCall(h, p, f) /\ Ready(h, p, f)
  <2>1. f.pc \notin InCall
    BY <1>2 DEF InCall
  <2>2. HoldsCur(h, p, f)
    BY <1>2, AtomsAreGood DEF HoldsCur
  <2>3. HoldsInner(h, p, f)
    BY <1>2, AtomsAreGood DEF HoldsInner
  <2>4. HoldsCall(h, p, f)
    BY <1>2, <1>3, <2>1, AtomsAreGood DEF HoldsCall
  <2>5. Ready(h, p, f)
    BY <1>2, AtomsAreGood DEF Ready
  <2> QED BY <2>2, <2>3, <2>4, <2>5
<1>6. FrameOK(h, p, f)
  BY <1>2, <1>3, <1>4, <1>5, AtomsAreGood DEF FrameOK, EnvOf
<1> QED
  BY <1>1, <1>6

\* An invocation begins, or is refused.
LEMMA SoundEnters ==
    ASSUME Inv, Sound, Enter
    PROVE  Sound'
<1>1. PICK n, m, form, env, f :
        /\ n = Len(stack) /\ m = Len(protect) /\ form = reg.form /\ env = reg.env
        /\ f = LoopFrame(m)
  OBVIOUS
<1>2. /\ reg.mode = "call" /\ protect' = protect \o <<form, env>> /\ stack' = Append(stack, f)
      /\ reg' = Running /\ heap' = heap
  BY <1>1 DEF Enter
<1>3. n \in Nat /\ m \in Nat /\ Sequence(protect) /\ Sequence(stack)
  BY <1>1, StackOrder DEF Inv
<1>4. /\ GoodHeap(heap) /\ \A i \in 1 .. m : Good(heap, protect[i])
      /\ heap[1].kind = "ENV" /\ Good(heap, form) /\ Good(heap, env) /\ IsA(heap, env, "ENV")
  BY <1>1, <1>2 DEF Sound, SoundHeap, SoundReg
<1>5. /\ Len(protect') = m + 2 /\ \A i \in 1 .. m : protect'[i] = protect[i]
      /\ protect'[m + 1] = form /\ protect'[m + 2] = env
  <2>1. PICK S : protect \in Seq(S)
    BY <1>3 DEF Sequence
  <2> QED BY <1>1, <1>2, <1>3, <2>1
<1>6. /\ Len(stack') = n + 1 /\ \A i \in 1 .. n : stack'[i] = stack[i] /\ stack'[n + 1] = f
  BY <1>1, <1>2, <1>3, Pushed
<1>7. \A i \in 1 .. m + 2 : i \in 1 .. m \/ i = m + 1 \/ i = m + 2
  BY <1>3
<1>8. SoundHeap'
  BY <1>2, <1>4, <1>5, <1>7 DEF SoundHeap
<1>9. FrameOK(heap', protect', f)
  BY <1>1, <1>2, <1>4, <1>5, LoopFrameHolds
<1>10. \A i \in 1 .. n : FrameOK(heap', protect', stack[i])
  <2>1. \A i \in 1 .. n : End(stack[i]) <= m
    BY <1>1, StackOrder
  <2>2. Keeps(heap, heap', InUse(heap))
    BY <1>2, <1>4, KeepsOn
  <2>3. n \in 0 .. Len(stack) /\ m <= Len(protect)
    BY <1>1, <1>3
  <2> QED BY <1>1, <1>3, <1>5, <2>1, <2>2, <2>3, FramesKept
<1>11. SoundStack'
  <2> SUFFICES ASSUME NEW i \in 1 .. Len(stack')
               PROVE  /\ FrameOK(heap', protect', stack'[i])
                      /\ stack'[i].pc = "init" /\ (i < Len(stack') \/ reg'.mode # "run")
                            => stack'[i].cur # Nil
    BY DEF SoundStack
  <2>1. CASE i \in 1 .. n
    <3>1. stack[i].pc = "init" => stack[i].cur # Nil
      BY <1>1, <1>2, <2>1 DEF Sound, SoundStack
    <3> QED BY <1>6, <1>10, <2>1, <3>1
  <2>2. CASE i = n + 1
    <3>1. stack'[i] = f
      <4>1. Append(stack, f)[n + 1] = f
        BY <1>1, <1>3, Pushed
      <4> QED BY <1>2, <2>2, <4>1
    <3>2. f.pc = "loop"
      BY <1>1 DEF LoopFrame
    <3> QED BY <1>9, <3>1, <3>2
  <2> QED BY <1>3, <1>6, <2>1, <2>2
<1>12. SoundReg'
  BY <1>2, AtomsAreGood DEF SoundReg, Running, Statuses
<1> QED
  BY <1>8, <1>11, <1>12 DEF Sound

\* Nothing but the call is gone.
LEMMA SoundRefuses ==
    ASSUME Sound, EnterFails
    PROVE  Sound'
<1>1. PICK status \in {"EVAL_DEPTH", "NOMEM"} :
        reg' = [mode |-> "return", status |-> status, form |-> Undef, env |-> Nil]
  BY DEF EnterFails
<1>2. /\ reg.mode = "call" /\ heap' = heap /\ protect' = protect /\ stack' = stack
      /\ reg'.mode = "return" /\ reg'.form = Undef /\ reg'.status = status
  BY <1>1 DEF EnterFails
<1>3. SoundHeap'
  BY <1>2 DEF Sound, SoundHeap
<1>4. SoundStack'
  BY <1>2 DEF Sound, SoundStack
<1>5. SoundReg'
  BY <1>2, AtomsAreGood DEF SoundReg, Statuses
<1> QED
  BY <1>3, <1>4, <1>5 DEF Sound

\* Below all invocations there is no frame.
LEMMA SoundBelow ==
    ASSUME stack' = <<>>, SoundHeap', SoundReg'
    PROVE  Sound'
<1>1. \A i \in 1 .. Len(stack') : FALSE
  BY EmptySeq
<1> QED
  BY <1>1 DEF Sound, SoundStack

\* microlisp_eval goes on with its source, or the embedder with its next call.
LEMMA SoundDrives ==
    ASSUME Inv, Sound, FormEvaluated \/ EndOfSource \/ ReadFails
    PROVE  Sound'
<1>1. stack = <<>> /\ stack' = <<>> /\ heap' = heap /\ (protect' = protect \/ protect' = <<>>)
  BY DEF FormEvaluated, EndOfSource, ReadFails, Finish, Inv, Control
<1>2. SoundHeap'
  <2>1. protect' = <<>> => \A i \in 1 .. Len(protect') : FALSE
    BY EmptySeq
  <2> QED BY <1>1, <2>1 DEF Sound, SoundHeap
<1>3. reg' = Idle
  BY DEF FormEvaluated, EndOfSource, ReadFails, Finish
<1>4. Good(heap, last_result') 
  <2>1. last_result' = Undef \/ last_result' = reg.form
    BY DEF FormEvaluated, EndOfSource, ReadFails, Finish
  <2> QED BY <2>1, AtomsAreGood DEF Sound, SoundReg
<1>5. SoundReg'
  BY <1>1, <1>3, <1>4, AtomsAreGood DEF SoundReg, Idle, Running, Statuses
<1> QED
  BY <1>1, <1>2, <1>5, SoundBelow

\* Reading a term leaves the cells there were, and a value in the cells there are.
ReadKeeps(Terms) ==
    \A h : \A t \in Terms : \A r \in Read(h, t) :
        GoodHeap(h) => GoodHeap(r.heap) /\ Keeps(h, r.heap, InUse(h)) /\ Good(r.heap, r.value)

\* A form is read and handed to ml_eval.
LEMMA SoundReads ==
    ASSUME NEW Terms, ReadKeeps(Terms), todo \in Seq(Terms), Inv, Sound, ReadForm
    PROVE  Sound'
<1>1. /\ stack = <<>> /\ stack' = <<>> /\ todo # <<>>
  BY DEF ReadForm, Inv, Control
<1>2. PICK r \in Read(heap, Head(todo)) :
        /\ heap' = r.heap /\ protect' = Append(protect, r.value)
        /\ reg' = [mode |-> "call", status |-> "OK", form |-> r.value, env |-> Global]
  BY DEF ReadForm
<1>3. Head(todo) \in Terms
  BY <1>1
<1>4. GoodHeap(heap)
  BY DEF Sound, SoundHeap
<1>5. GoodHeap(heap') /\ Keeps(heap, heap', InUse(heap)) /\ Good(heap', r.value)
  BY <1>2, <1>3, <1>4 DEF ReadKeeps
<1>6. heap'[1].kind = "ENV"
  BY <1>5, GlobalStays
<1>7. \A i \in 1 .. Len(protect') : Good(heap', protect'[i])
  BY <1>2, <1>5, SlotsGrow
<1>8. IsA(heap', Global, "ENV") /\ Good(heap', Global)
  <2>1. 1 \in Addr
    BY MemoryAssumption, HeapAssumption, LenProperties DEF Addr, Primitives
  <2> QED BY <1>6, <2>1 DEF IsA, IsObj, Good, Within, InUse, Global, Ref
<1>9. SoundReg'
  <2>1. reg'.mode = "call" /\ reg'.status = "OK" /\ reg'.form = r.value /\ reg'.env = Global
    BY <1>2
  <2> QED BY <1>5, <1>8, <2>1 DEF SoundReg, Statuses
<1> QED
  BY <1>1, <1>5, <1>6, <1>7, <1>9, SoundBelow DEF SoundHeap

\* What a collection would need and the code does not do: the new frame of a
\* closure whose body has several forms is in no slot while the forms that are
\* not the last are evaluated (the finding of run eval_frames).  A program is
\* safe from that as long as every such frame is still reachable otherwise.
BodyFrameHeld ==
    AtAllocation =>
        \A i \in 1 .. Len(stack) :
            stack[i].pc = "seq" =>
                stack[i].inner[2] \in Reach(heap, Addresses({Global} \cup Range(protect)))

\* A collection.
LEMMA SoundCollects ==
    ASSUME Inv, Sound, BodyFrameHeld, Collect
    PROVE  Sound'
<1>1. PICK roots, reached : /\ roots = {Global} \cup Range(protect)
                            /\ reached = Reach(heap, Addresses(roots))
  OBVIOUS
<1>2. /\ AtAllocation /\ heap' = Swept(heap, roots)
      /\ UNCHANGED <<driverVars, protect, stack, reg, eval_depth, raw>>
  BY <1>1 DEF Collect
<1>3. /\ GoodHeap(heap) /\ heap[1].kind = "ENV" /\ \A i \in 1 .. Len(protect) : Good(heap, protect[i])
  BY DEF Sound, SoundHeap
<1>4. \A i \in 1 .. Len(protect) : protect[i] \in roots
  <2>1. DOMAIN protect = 1 .. Len(protect)
    BY LenProperties DEF Inv, Sequence
  <2> QED BY <1>1, <2>1 DEF Range
<1>5. 1 \in Addr
  BY MemoryAssumption, HeapAssumption, LenProperties DEF Addr, Primitives
<1>6. \A v \in roots : Good(heap, v)
  <2>1. Good(heap, Global)
    BY <1>3, <1>5 DEF Good, Within, InUse, Global, Ref
  <2>2. DOMAIN protect = 1 .. Len(protect)
    BY LenProperties DEF Inv, Sequence
  <2> QED BY <1>1, <1>3, <2>1, <2>2 DEF Range
<1>7. /\ GoodHeap(heap') /\ Keeps(heap, heap', reached) /\ reached \in SUBSET InUse(heap)
      /\ \A v \in roots : Within(reached, v)
  BY <1>1, <1>2, <1>3, <1>6, SweptKeeps
<1>8. SoundHeap'
  <2>1. heap'[1].kind = "ENV"
    <3>1. Within(reached, Global)
      BY <1>1, <1>7
    <3>2. 1 \in reached
      BY <3>1 DEF Within, Global, Ref, IsObj
    <3> QED BY <1>3, <1>7, <3>2 DEF Keeps
  <2>2. \A i \in 1 .. Len(protect) : Good(heap', protect[i])
    BY <1>3, <1>4, <1>7, KeptValue
  <2> QED BY <1>2, <1>7, <2>1, <2>2 DEF SoundHeap
<1>9. ASSUME NEW i \in 1 .. Len(stack)
      PROVE  FrameOK(heap', protect, stack[i])
  <2>1. PICK f : f = stack[i]
    OBVIOUS
  <2>2. FrameOK(heap, protect, f)
    BY <2>1 DEF Sound, SoundStack
  <2>3. Frame(f) /\ f.saves[1] \in Nat /\ End(f) \in Nat /\ End(f) <= Len(protect)
    BY <2>1, StackOrder
  <2>4. \A j \in OwnSlots(f) : protect[j] = protect[j] /\ Within(reached, protect[j])
    <3>1. \A j \in OwnSlots(f) : j \in 1 .. Len(protect)
      BY <2>3, StackOrder DEF OwnSlots
    <3> QED BY <1>4, <1>7, <3>1
  <2>5. f.pc # "body"
    <3>1. stack # <<>> /\ Len(stack) \in Nat \ {0} /\ Top = stack[Len(stack)]
      <4>1. stack # <<>>
        BY EmptySeq
      <4> QED BY <4>1, TopIs
    <3>2. reg.mode = "run" /\ Top.pc \in Allocating \cup {"list"}
      BY <1>2, <3>1 DEF AtAllocation, Run, At, Inv, Control
    <3>3. i = Len(stack) \/ i \in 1 .. Len(stack) - 1
      BY <3>1
    <3> QED BY <2>1, <3>1, <3>2, <3>3 DEF Inv, Control, Waiting, Allocating
  <2>6. f.pc \in {"seq", "body"} => Within(reached, f.inner)
    BY <1>1, <1>2, <2>1, <2>5 DEF BodyFrameHeld, Within
  <2>7. FrameOK(heap', protect, f)
    BY <1>3, <1>7, <2>2, <2>3, <2>4, <2>6, FrameKept
  <2> QED BY <2>1, <2>7
<1>10. SoundStack'
  BY <1>2, <1>9 DEF Sound, SoundStack
<1>11. SoundReg'
  <2>1. reg.mode = "run" \/ (reg.mode = "idle" /\ todo # <<>>)
    BY <1>2 DEF AtAllocation, Run, At
  <2> QED BY <1>2, <2>1, AtomsAreGood DEF Sound, SoundReg, driverVars
<1> QED
  BY <1>8, <1>10, <1>11 DEF Sound

\* The state as it is created.
LEMMA SoundInitially ==
    ASSUME Init
    PROVE  Sound
<1>1. /\ heap = InitialHeap /\ protect = <<>> /\ stack = <<>> /\ reg = Idle /\ last_result = Undef
  BY DEF Init
<1>2. PICK n : n = Len(Primitives)
  OBVIOUS
<1>3. n = 13 /\ DOMAIN Primitives = 1 .. n /\ n < HeapSize /\ HeapSize \in Nat
  BY <1>2, MemoryAssumption, HeapAssumption DEF Primitives
<1>4. /\ DOMAIN heap = Addr /\ Addr = 1 .. HeapSize
      /\ heap[1] = Cell("ENV", <<Nil>> \o [i \in DOMAIN Primitives |-> Ref(i + 1)],
                               [i \in DOMAIN Primitives |-> Sym(Primitives[i])])
      /\ \A a \in 2 .. n + 1 : heap[a] = Cell("PRIM", <<>>, <<Primitives[a - 1]>>)
      /\ \A a \in Addr \ 1 .. n + 1 : heap[a] = Free
  <2>1. 1 \in Addr /\ \A a \in 2 .. n + 1 : a \in Addr /\ a # 1 /\ a - 1 \in 1 .. n
    BY <1>3 DEF Addr
  <2>2. \A a \in Addr \ 1 .. n + 1 : a # 1 /\ a - 1 \notin 1 .. n
    BY <1>3 DEF Addr
  <2> QED BY <1>1, <1>3, <2>1, <2>2 DEF InitialHeap, Addr
<1>5. PICK names, values, refs :
        /\ names = [i \in 1 .. n |-> Sym(Primitives[i])] /\ values = [i \in 1 .. n |-> Ref(i + 1)]
        /\ refs = <<Nil>> \o values
  OBVIOUS
<1>6. heap[1] = Cell("ENV", refs, names)
  BY <1>3, <1>4, <1>5
<1>7. \A a \in 2 .. n + 1 : heap[a].kind = "PRIM"
  <2> SUFFICES ASSUME NEW a \in 2 .. n + 1 PROVE heap[a].kind = "PRIM"
    OBVIOUS
  <2>1. PICK name : name = <<Primitives[a - 1]>>
    OBVIOUS
  <2>2. PICK c : c = heap[a]
    OBVIOUS
  <2>3. c = Cell("PRIM", <<>>, name)
    BY <1>4, <2>1, <2>2
  <2>4. c.kind = "PRIM"
    BY <2>3 DEF Cell
  <2> QED BY <2>2, <2>4
<1>8. /\ Sequence(names) /\ Len(names) = n /\ Sequence(refs) /\ Len(refs) = 1 + n
      /\ refs[1] = Nil /\ \A i \in 1 .. n : refs[i + 1] = Ref(i + 1)
  <2>1. n \in Nat
    BY <1>3
  <2>2. PICK T : T = Range(names)
    OBVIOUS
  <2>3. names \in Seq(T) /\ Len(names) = n
    BY <1>5, <2>1, <2>2 DEF Range
  <2>4. PICK S : S = Range(values) \cup {Nil}
    OBVIOUS
  <2>5. values \in Seq(S) /\ Len(values) = n
    BY <1>5, <2>1, <2>4 DEF Range
  <2>6. <<Nil>> \in Seq(S) /\ Len(<<Nil>>) = 1
    BY <2>4
  <2>7. refs \in Seq(S) /\ Len(refs) = 1 + n
    <3>1. PICK one : one = <<Nil>>
      OBVIOUS
    <3>2. one \in Seq(S) /\ Len(one) = 1
      BY <2>6, <3>1
    <3>3. one \o values \in Seq(S) /\ Len(one \o values) = Len(one) + Len(values)
      BY <2>5, <3>2, ConcatProperties
    <3>4. refs = one \o values
      BY <1>5, <3>1
    <3> QED BY <2>5, <3>2, <3>3, <3>4
  <2>8. refs[1] = Nil /\ \A i \in 1 .. n : refs[i + 1] = values[i]
    BY <1>5, <2>1, <2>5, <2>6
  <2> QED BY <1>5, <2>7, <2>8, <2>3 DEF Sequence
<1>9. \A a \in 1 .. n + 1 : Good(heap, Ref(a))
  <2>1. \A a \in 1 .. n + 1 : a \in Addr /\ (a = 1 \/ a \in 2 .. n + 1)
    BY <1>3, <1>4
  <2>2. \A a \in 1 .. n + 1 : heap[a].kind # "FREE"
    <3>1. heap[1].kind = "ENV"
      BY <1>6 DEF Cell
    <3>2. \A a \in 2 .. n + 1 : heap[a].kind = "PRIM"
      BY <1>7
    <3> QED BY <2>1, <3>1, <3>2
  <2> QED BY <2>1, <2>2 DEF Good, Within, InUse, Ref
<1>10. CellOK(heap, heap[1])
  <2>1. \A i \in 1 .. Len(refs) : Good(heap, refs[i])
    <3> SUFFICES ASSUME NEW i \in 1 .. 1 + n PROVE Good(heap, refs[i])
      BY <1>8
    <3>1. CASE i = 1
      BY <1>8, <3>1, AtomsAreGood
    <3>2. CASE i # 1
      <4>1. i - 1 \in 1 .. n /\ i \in 1 .. n + 1 /\ i - 1 + 1 = i
        BY <1>3, <3>2
      <4>2. refs[i] = Ref(i)
        BY <1>8, <4>1
      <4> QED BY <1>9, <4>1, <4>2
    <3> QED BY <3>1, <3>2
  <2> QED BY <1>6, <1>8, <2>1 DEF CellOK, Cell
<1>11. Sequence(<<>>) /\ Len(<<>>) = 0
  BY EmptySeq DEF Sequence
<1>12. ASSUME NEW a \in Addr PROVE CellOK(heap, heap[a])
  <2>1. CASE a = 1
    BY <1>10, <2>1
  <2>2. CASE a \in 2 .. n + 1
    <3>1. PICK name : name = Primitives[a - 1]
      OBVIOUS
    <3>2. name \in Range(Primitives)
      BY <1>3, <2>2, <3>1 DEF Range
    <3>3. Sequence(<<name>>)
      <4>1. <<name>> \in Seq({name})
        OBVIOUS
      <4> QED BY <4>1 DEF Sequence
    <3>4. PICK c : c = heap[a]
      OBVIOUS
    <3>5. c = Cell("PRIM", <<>>, <<name>>)
      BY <1>4, <2>2, <3>1, <3>4
    <3>6. /\ DOMAIN c = {"kind", "refs", "names"} /\ c.kind = "PRIM" /\ c.refs = <<>>
          /\ c.names = <<name>> /\ c.names[1] = name
      BY <3>5 DEF Cell
    <3>7. CellOK(heap, c)
      BY <1>11, <3>2, <3>3, <3>6 DEF CellOK
    <3> QED BY <3>4, <3>7
  <2>3. CASE a \notin 1 .. n + 1
    BY <1>4, <1>11, <2>3 DEF CellOK, Cell, Free
  <2> QED BY <1>3, <2>1, <2>2, <2>3 DEF Addr
<1>13. Nested(heap)
  <2>1. \A a \in Addr : heap[a].kind = "ENV" => a = 1
    <3>1. \A a \in Addr : a = 1 \/ a \in 2 .. n + 1 \/ a \in Addr \ 1 .. n + 1
      BY <1>3 DEF Addr
    <3>2. \A a \in 2 .. n + 1 : heap[a].kind = "PRIM"
      BY <1>7
    <3>3. \A a \in Addr \ 1 .. n + 1 : heap[a].kind = "FREE"
      BY <1>4 DEF Cell, Free
    <3> QED BY <3>1, <3>2, <3>3
  <2>2. ~IsObj(heap[1].refs[1])
    BY <1>6, <1>8 DEF Cell, IsObj, Nil
  <2>3. PICK depth : depth = [a \in Addr |-> 0]
    OBVIOUS
  <2>4. depth \in [Addr -> Nat]
    BY <2>3
  <2>5. \A a \in Addr : ~(heap[a].kind = "ENV" /\ IsObj(heap[a].refs[1]))
    BY <2>1, <2>2
  <2> QED BY <2>4, <2>5 DEF Nested
<1>14. GoodHeap(heap)
  BY <1>4, <1>12, <1>13 DEF GoodHeap
<1>15. heap[1].kind = "ENV"
  BY <1>6 DEF Cell
<1>16. /\ \A i \in 1 .. Len(protect) : FALSE
       /\ \A i \in 1 .. Len(stack) : FALSE
  BY <1>1, EmptySeq
<1>17. SoundReg
  BY <1>1, AtomsAreGood DEF SoundReg, Idle, Running, Statuses
<1> QED
  BY <1>14, <1>15, <1>16, <1>17 DEF Sound, SoundHeap, SoundStack

\* Nothing happens.
LEMMA SoundStays ==
    ASSUME Sound, UNCHANGED vars
    PROVE  Sound'
BY DEF Sound, SoundHeap, SoundStack, SoundReg, vars

-----------------------------------------------------------------------------
(***************************************************************************)
(* The theorems about the heap.                                            *)
(***************************************************************************)

\* The reader keeps the heap, and every program is sources made of such terms.
Readable(Terms) ==
    /\ ReadKeeps(Terms)
    /\ \A p \in Programs : p.sources \in Seq(Seq(Terms)) /\ p.sources # <<>>

\* What is left to read is terms.
Sources(Terms) ==
    /\ program.sources \in Seq(Seq(Terms))
    /\ todo \in Seq(Terms)
    /\ source \in Nat \ {0}

\* The evaluator leaves what is to be read alone.
LEMMA OnlyDrivesRead ==
    ASSUME [Next]_vars, ~ReadForm, ~FormEvaluated, ~EndOfSource, ~ReadFails
    PROVE  UNCHANGED <<program, todo, source>>
<1> USE DEF driverVars, Value, Fail, Return, Go, Call, Continue
<1>1. CASE Enter \/ EnterFails \/ Collect \/ Propagate \/ OutOfMemory \/ UNCHANGED vars
  BY <1>1 DEF Enter, EnterFails, Collect, Propagate, OutOfMemory, vars
<1>2. ASSUME NEW frame, NEW forms, NEW env, BeginTco(frame, forms, env)
      PROVE  UNCHANGED <<program, todo, source>>
  BY <1>2 DEF BeginTco
<1>3. ASSUME NEW frame, NextBinding(frame)
      PROVE  UNCHANGED <<program, todo, source>>
  BY <1>2, <1>3 DEF NextBinding
<1>4. ASSUME NEW frame, NEW args, Chain(frame, args)
      PROVE  UNCHANGED <<program, todo, source>>
  BY <1>4 DEF Chain
<1>5. ASSUME NEW frame, Clause(frame)
      PROVE  UNCHANGED <<program, todo, source>>
  BY <1>2, <1>5 DEF Clause
<1>6. ASSUME NEW pc, NEW params, NEW body, PrepareClosure(pc, params, body)
      PROVE  UNCHANGED <<program, todo, source>>
  BY <1>6 DEF PrepareClosure
<1>7. CASE Atom \/ Variable \/ Quote \/ If \/ Begin \/ Lambda
  <2>1. CASE Atom \/ Variable \/ Quote
    BY <2>1 DEF Atom, Variable, Quote
  <2>2. CASE If
    BY <2>2 DEF If
  <2>3. CASE Begin
    BY <1>2, <2>3 DEF Begin
  <2>4. CASE Lambda
    BY <1>6, <2>4 DEF Lambda
  <2> QED BY <1>7, <2>1, <2>2, <2>3, <2>4
<1>8. CASE DefineForm \/ SetBang \/ Let \/ AndOr \/ Cond \/ Operator
  <2>1. CASE DefineForm
    BY <1>6, <2>1 DEF DefineForm
  <2>2. CASE SetBang \/ Let \/ Operator
    BY <2>2 DEF SetBang, Let, Operator
  <2>3. CASE AndOr \/ Cond
    BY <1>4, <1>5, <2>3 DEF AndOr, Cond
  <2> QED BY <1>8, <2>1, <2>2, <2>3
<1>9. CASE IfChosen \/ SeqNext \/ Body \/ ChainNext \/ CondNext
  <2>1. CASE IfChosen
    BY <2>1 DEF IfChosen
  <2>2. CASE SeqNext \/ Body
    BY <1>2, <2>2 DEF SeqNext, Body
  <2>3. CASE ChainNext
    BY <1>4, <2>3 DEF ChainNext
  <2>4. CASE CondNext
    BY <1>2, <1>5, <2>4 DEF CondNext
  <2> QED BY <1>9, <2>1, <2>2, <2>3, <2>4
<1>10. CASE MakeClosure \/ DefineValue \/ SetValue \/ LetFrame \/ LetInit \/ LetBound
  <2>1. CASE MakeClosure \/ DefineValue \/ SetValue
    BY <2>1 DEF MakeClosure, DefineValue, SetValue
  <2>2. CASE LetFrame
    BY <2>2 DEF LetFrame
  <2>3. CASE LetInit \/ LetBound
    BY <1>3, <2>3 DEF LetInit, LetBound
  <2> QED BY <1>10, <2>1, <2>2, <2>3
<1>11. CASE OperatorValue \/ Operand \/ CallPrimitive \/ PrimCons \/ PrimListCell \/ PrimListDone
  <2>1. CASE OperatorValue \/ Operand
    BY <2>1 DEF OperatorValue, Operand
  <2>2. CASE CallPrimitive
    BY <2>2 DEF CallPrimitive
  <2>3. CASE PrimCons \/ PrimListCell \/ PrimListDone
    BY <2>3 DEF PrimCons, PrimListCell, PrimListDone
  <2> QED BY <1>11, <2>1, <2>2, <2>3
<1>12. CASE NotAProcedure \/ CallClosure \/ NewFrame \/ BindParameter \/ BindRest
  BY <1>12 DEF NotAProcedure, CallClosure, NewFrame, BindParameter, BindRest
<1>13. CASE RestElement \/ RestCell \/ RestDone \/ Bound
  BY <1>13 DEF RestElement, RestCell, RestDone, Bound
<1> QED
  BY <1>1, <1>7, <1>8, <1>9, <1>10, <1>11, <1>12, <1>13, Zenon DEF Next, Evaluate

\* What is left to read stays terms.
LEMMA SourcesStay ==
    ASSUME NEW Terms, Sources(Terms), [Next]_vars
    PROVE  Sources(Terms)'
<1>1. CASE ReadForm
  <2>1. todo # <<>> /\ todo' = Tail(todo) /\ UNCHANGED <<program, source>>
    BY <1>1 DEF ReadForm
  <2>2. Tail(todo) \in Seq(Terms)
    BY <2>1 DEF Sources
  <2> QED BY <2>1, <2>2 DEF Sources
<1>2. ASSUME NEW outcome, Finish(outcome)
      PROVE  Sources(Terms)'
  <2>1. /\ source' = source + 1 /\ program' = program
        /\ todo' = IF source < Len(program.sources) THEN program.sources[source + 1] ELSE <<>>
    BY <1>2 DEF Finish
  <2>2. PICK s \in Seq(Seq(Terms)) : s = program.sources
    BY DEF Sources
  <2>3. source < Len(s) => s[source + 1] \in Seq(Terms)
    BY <2>2, ElementOfSeq DEF Sources
  <2>4. <<>> \in Seq(Terms)
    OBVIOUS
  <2>5. todo' \in Seq(Terms)
    BY <2>1, <2>2, <2>3, <2>4
  <2> QED BY <2>1, <2>5 DEF Sources
<1>3. CASE FormEvaluated \/ EndOfSource \/ ReadFails
  <2>1. UNCHANGED <<program, todo, source>> \/ \E outcome : Finish(outcome)
    BY <1>3 DEF FormEvaluated, EndOfSource, ReadFails
  <2> QED BY <1>2, <2>1 DEF Sources
<1>4. CASE ~ReadForm /\ ~FormEvaluated /\ ~EndOfSource /\ ~ReadFails
  <2>1. UNCHANGED <<program, todo, source>>
    BY <1>4, OnlyDrivesRead
  <2> QED BY <2>1 DEF Sources
<1> QED
  BY <1>1, <1>3, <1>4

\* Every step keeps the heap, the frames and the value in hand sound.
LEMMA StepsKeepSound ==
    ASSUME NEW Terms, Readable(Terms), Sources(Terms), Inv, Sound, BodyFrameHeld, [Next]_vars
    PROVE  Sound'
<1>1. CASE ReadForm
  BY <1>1, SoundReads DEF Readable, Sources
<1>2. CASE FormEvaluated \/ EndOfSource \/ ReadFails
  BY <1>2, SoundDrives
<1>3. CASE Enter \/ EnterFails
  BY <1>3, SoundEnters, SoundRefuses
<1>4. CASE \/ Atom \/ Variable \/ Quote \/ If \/ Begin \/ Lambda \/ DefineForm \/ SetBang
           \/ Let \/ AndOr \/ Cond \/ Operator
  BY <1>4, SoundLoops
<1>5. CASE SeqNext \/ Body \/ IfChosen \/ ChainNext \/ CondNext
  BY <1>5, SoundSequence, SoundBranches
<1>6. CASE MakeClosure \/ DefineValue \/ SetValue \/ LetFrame \/ LetInit \/ LetBound
  BY <1>6, SoundMakesClosure, SoundBinds, SoundLetFrame, SoundLetBinds
<1>7. CASE OperatorValue \/ Operand
  BY <1>7, SoundOperator, SoundOperand
<1>8. CASE CallPrimitive \/ PrimCons \/ PrimListCell \/ PrimListDone \/ NotAProcedure
  BY <1>8, SoundPrimitive, SoundCons, SoundListCell, SoundCallEnds
<1>9. CASE CallClosure \/ NewFrame \/ BindParameter \/ BindRest
  BY <1>9, SoundClosure, SoundNewFrame, SoundParameter, SoundRest
<1>10. CASE RestElement \/ RestCell \/ RestDone \/ Bound
  BY <1>10, SoundElement, SoundRestCell, SoundRestDone, SoundBound
<1>11. CASE Propagate \/ OutOfMemory
  BY <1>11, SoundFailures
<1>12. CASE Collect
  BY <1>12, SoundCollects
<1>13. CASE UNCHANGED vars
  BY <1>13, SoundStays
<1> QED
  BY <1>1, <1>2, <1>3, <1>4, <1>5, <1>6, <1>7, <1>8, <1>9, <1>10, <1>11, <1>12, <1>13, Zenon
     DEF Next, Evaluate

\* The first source of a program is terms.
LEMMA SourcesInitially ==
    ASSUME NEW Terms, Readable(Terms), Init
    PROVE  Sources(Terms)
<1>1. PICK s \in Seq(Seq(Terms)) : s = program.sources /\ s # <<>> /\ todo = s[1] /\ source = 1
  BY DEF Init, Readable
<1>2. 1 \in 1 .. Len(s)
  BY <1>1
<1>3. s[1] \in Seq(Terms)
  BY <1>2, ElementOfSeq
<1> QED
  BY <1>1, <1>3 DEF Sources

\* So the state stays sound for as long as the body's frame is held.
LEMMA StaysSound ==
    ASSUME NEW Terms, Readable(Terms)
    PROVE  Spec /\ []BodyFrameHeld => [](Sources(Terms) /\ Sound)
<1>1. Init => Sources(Terms) /\ Sound
  BY SourcesInitially, SoundInitially
<1>2. Sources(Terms) /\ Inv /\ Sound /\ BodyFrameHeld /\ [Next]_vars => (Sources(Terms) /\ Sound)'
  BY StepsKeepSound, SourcesStay
<1> QED
  BY <1>1, <1>2, Invariant, PTL DEF Spec

\* What is in the heap survives.
LEMMA GoodIsAlive ==
    ASSUME NEW v, Good(heap, v)
    PROVE  Alive(v)
BY DEF Good, Within, InUse, Alive

\* In a sound state every local holds a live object.
LEMMA SoundIsRooted ==
    ASSUME Inv, Sound
    PROVE  Rooted
<1>1. /\ DOMAIN stack = 1 .. Len(stack) /\ DOMAIN protect = 1 .. Len(protect)
  BY LenProperties DEF Inv, Sequence
<1>2. GoodHeap(heap) /\ \A i \in 1 .. Len(protect) : Good(heap, protect[i])
  BY DEF Sound, SoundHeap
<1>3. ASSUME NEW i \in 1 .. Len(stack), NEW v \in LocalsOf(stack[i])
      PROVE  Alive(v)
  <2>1. PICK f : f = stack[i]
    OBVIOUS
  <2>2. Frame(f) /\ FrameOK(heap, protect, f) /\ End(f) <= Len(protect) /\ f.saves[1] \in Nat
        /\ End(f) \in Nat
    BY <2>1, StackOrder DEF Sound, SoundStack
  <2>3. \A j \in OwnSlots(f) : Good(heap, protect[j])
    BY <1>2, <2>2, StackOrder DEF OwnSlots
  <2>4. /\ Good(heap, f.args) /\ Good(heap, f.cur) /\ Good(heap, f.env)
        /\ Good(heap, f.inner) /\ Good(heap, f.proc)
        /\ \A k \in 1 .. Len(f.argv) : Good(heap, f.argv[k])
    BY <1>2, <2>2, <2>3, FrameHolds
  <2>5. DOMAIN f.argv = 1 .. Len(f.argv)
    BY <2>2, LenProperties DEF FrameOK, Sequence
  <2>6. v \in {f.args, f.cur, f.env, f.inner, f.proc} \/ \E k \in 1 .. Len(f.argv) : v = f.argv[k]
    BY <2>1, <2>5 DEF LocalsOf, Range
  <2>7. Good(heap, v)
    BY <2>4, <2>6
  <2> QED BY <2>7, GoodIsAlive
<1>4. Alive(reg.form) /\ (reg.mode = "idle" /\ todo = <<>> => Alive(last_result))
  BY GoodIsAlive DEF Sound, SoundReg
<1>5. \A i \in 1 .. Len(protect) : Alive(protect[i])
  BY <1>2, GoodIsAlive
<1> QED
  BY <1>1, <1>3, <1>4, <1>5 DEF Rooted

\* The handlers' discipline of protecting is enough: no collection, wherever it
\* comes, frees a form, an environment, a procedure or an operand that an
\* ml_eval in progress has yet to use, but for the frame of a closure whose body
\* has several forms, which has to be reachable some other way.
THEOREM EvalProtectsWhatItHolds ==
    ASSUME NEW Terms, Readable(Terms)
    PROVE  Spec /\ []BodyFrameHeld => []Rooted
<1>1. Inv /\ Sound => Rooted
  BY SoundIsRooted
<1> QED
  BY <1>1, StaysSound, Invariant, PTL

\* Every closure has a body of one form.
OneForm == \A a \in Addr : heap[a].kind = "CLOSURE" => ~MoreThanOne(heap, heap[a].refs[2])

\* Then the frames of closures have a slot whenever a collection may come.
LEMMA OneFormHolds ==
    ASSUME Inv, Sound, OneForm
    PROVE  BodyFrameHeld
<1>1. PICK roots, reached : /\ roots = {Global} \cup Range(protect)
                            /\ reached = Reach(heap, Addresses(roots))
  OBVIOUS
<1>2. /\ GoodHeap(heap) /\ heap[1].kind = "ENV" /\ \A i \in 1 .. Len(protect) : Good(heap, protect[i])
  BY DEF Sound, SoundHeap
<1>3. DOMAIN protect = 1 .. Len(protect)
  BY LenProperties DEF Inv, Sequence
<1>4. Good(heap, Global)
  <2>1. 1 \in Addr
    BY MemoryAssumption, HeapAssumption, LenProperties DEF Addr, Primitives
  <2> QED BY <1>2, <2>1 DEF Good, Within, InUse, Global, Ref
<1>5. \A v \in roots : Good(heap, v)
  BY <1>1, <1>2, <1>3, <1>4 DEF Range
<1>6. \A v \in roots : Within(reached, v)
  BY <1>1, <1>2, <1>5, SweptKeeps
<1>7. \A i \in 1 .. Len(protect) : Within(reached, protect[i])
  BY <1>1, <1>3, <1>6 DEF Range
<1>8. ASSUME NEW i \in 1 .. Len(stack), stack[i].pc = "seq"
      PROVE  stack[i].inner[2] \in reached
  <2>1. PICK f : f = stack[i]
    OBVIOUS
  <2>2. FrameOK(heap, protect, f) /\ f.pc = "seq"
    BY <1>8, <2>1 DEF Sound, SoundStack
  <2>3. Frame(f) /\ f.saves[1] \in Nat /\ End(f) \in Nat /\ End(f) <= Len(protect)
    BY <2>1, StackOrder
  <2>4. \A j \in OwnSlots(f) : j \in 1 .. Len(protect)
    BY <2>3, StackOrder DEF OwnSlots
  <2>5. /\ Within(reached, EnvOf(protect, f)) /\ Good(heap, EnvOf(protect, f))
        /\ Len(f.saves) = 2 => Within(reached, Third(protect, f)) /\ Good(heap, Third(protect, f))
    BY <1>2, <1>7, <2>2, <2>3, <2>4, SlotsAre DEF EnvOf, Third
  <2>6. IsA(heap, f.inner, "ENV")
    BY <2>2 DEF FrameOK, HoldsInner
  <2>7. ~(Len(f.saves) = 2 /\ IsA(heap, Third(protect, f), "CLOSURE")
            /\ MoreThanOne(heap, heap[Third(protect, f)[2]].refs[2]))
    BY <2>5 DEF OneForm, Good, Within, InUse, IsA
  <2>8. f.inner = EnvOf(protect, f) \/ (Len(f.saves) = 2 /\ f.inner = Third(protect, f))
    BY <2>2, <2>7 DEF FrameOK, HoldsInner
  <2>9. Within(reached, f.inner)
    BY <2>5, <2>8
  <2> QED BY <2>1, <2>6, <2>9 DEF Within, IsA
<1> QED
  BY <1>1, <1>8 DEF BodyFrameHeld

\* A program whose closures all have a body of one form is safe from the
\* collector, whatever it calls and wherever a collection comes.
THEOREM OneFormBodiesAreSafe ==
    ASSUME NEW Terms, Readable(Terms)
    PROVE  Spec /\ []OneForm => []Rooted
<1>1. Init => Sources(Terms) /\ Sound
  BY SourcesInitially, SoundInitially
<1>2. Sources(Terms) /\ Inv /\ Sound /\ OneForm /\ [Next]_vars => (Sources(Terms) /\ Sound)'
  BY OneFormHolds, StepsKeepSound, SourcesStay
<1>3. Inv /\ Sound => Rooted
  BY SoundIsRooted
<1> QED
  BY <1>1, <1>2, <1>3, Invariant, PTL DEF Spec

\* The variables keep their types: a pair keeps two references, a closure three
\* and an environment one per name and one for its parent, whatever is defined,
\* assigned, collected or refused for want of memory.
THEOREM EvalTypeCorrect ==
    ASSUME NEW Terms, Readable(Terms)
    PROVE  Spec /\ []BodyFrameHeld => []TypeOK
<1>1. ASSUME Inv, Sound, Sources(Terms)
      PROVE  TypeOK
  <2>1. reg.mode \in {"idle", "call", "run", "return"}
    BY <1>1 DEF Inv, Control
  <2>2. reg.status \in Statuses
    BY <1>1 DEF Sound, SoundReg
  <2>3. ASSUME NEW a \in Addr
        PROVE  /\ heap[a].kind \in {"FREE", "PAIR", "CLOSURE", "PRIM", "ENV", "STRING"}
               /\ heap[a].kind = "PAIR" => Len(heap[a].refs) = 2
               /\ heap[a].kind = "CLOSURE" => Len(heap[a].refs) = 3
               /\ heap[a].kind = "ENV" => Len(heap[a].refs) = 1 + Len(heap[a].names)
    <3>1. CellOK(heap, heap[a])
      BY <1>1 DEF Sound, SoundHeap, GoodHeap
    <3> QED BY <3>1 DEF CellOK
  <2>4. eval_depth \in 0 .. MaxEvalDepth /\ Len(stack) \in Nat
    BY <1>1, EvalAssumption, StackOrder DEF Inv
  <2>5. raw \in Nat
    <3>1. DOMAIN stack = 1 .. Len(stack)
      BY <1>1, LenProperties DEF Inv, Sequence
    <3>2. IsFiniteSet(DOMAIN stack)
      BY <2>4, <3>1, FS_Interval
    <3>3. IsFiniteSet({i \in DOMAIN stack : stack[i].argc # 0})
      BY <3>2, FS_Subset
    <3>4. Holders(stack) \in Nat
      BY <3>3, FS_CardinalityType DEF Holders
    <3> QED BY <1>1, <3>4 DEF Inv
  <2>6. source \in Nat
    BY <1>1 DEF Sources
  <2> QED BY <2>1, <2>2, <2>3, <2>4, <2>5, <2>6 DEF TypeOK, Statuses
<1> QED
  BY <1>1, StaysSound, Invariant, PTL
=============================================================================
