-------------------------------- MODULE Eval --------------------------------
(***************************************************************************)
(* The trampolined evaluator of src/src/eval.c, driven by microlisp_eval.  *)
(*                                                                         *)
(* Each ml_eval invocation in progress is a frame on `stack`; `reg` is the *)
(* call being made, or the status and value being returned, between two of *)
(* them.  A frame's pc says what it does next when reg.mode = "run", and    *)
(* which continuation takes the value when reg.mode = "return":            *)
(*                                                                         *)
(*   loop        head of the for (;;) of eval_body                         *)
(*   head, arg   the operator, an operand, of a procedure call             *)
(*   apply       operands evaluated; choose primitive, closure or error    *)
(*   cons, list  prim_cons, prim_list about to allocate                    *)
(*   frame       apply_closure_bind about to allocate the new frame        *)
(*   bind        its parameter loop; push and rest: build_list             *)
(*   body        a bound closure call about to begin its body              *)
(*   seq         a form of begin_tco that is not the last                  *)
(*   let, init   handle_let_family about to allocate; an initialiser       *)
(*   closure     make_closure about to allocate                            *)
(*   if, define, set!, chain, cond    the test or value of that form       *)
(*                                                                         *)
(* A collection may happen, or not, at every allocation: the number of     *)
(* live objects before this program started is whatever it is.             *)
(***************************************************************************)
EXTENDS SchemeHeap

CONSTANTS
    Programs,     \* programs to run, each [sources, expected]
    Starved,      \* those whose embedder's allocator may return NULL
    MaxEvalDepth, \* s->max_eval_depth
    Read(_, _)    \* what reading a term may leave of a heap, each [heap, value]

ASSUME EvalAssumption == MaxEvalDepth \in Nat /\ Starved \subseteq Programs

VARIABLES
    program,    \* the program being run
    todo,       \* the forms of the current source still to read
    source,     \* how many sources have been handed to microlisp_eval
    outcomes,   \* what microlisp_eval returned for each finished source
    last_result,\* its local of that name
    heap,
    protect,    \* s->gc_protect[0 .. gc_protect_count - 1]
    stack,      \* the ml_eval invocations in progress, outermost first
    reg,        \* the call or the return between two of them
    eval_depth, \* s->eval_depth
    raw         \* argv blocks obtained from ml_raw_alloc and not yet freed

driverVars == <<program, todo, source, outcomes, last_result>>
vars == <<program, todo, source, outcomes, last_result, heap, protect, stack,
          reg, eval_depth, raw>>

-----------------------------------------------------------------------------
(***************************************************************************)
(* The state a program starts in: a top-level environment that binds the   *)
(* primitives, at address 1.                                               *)
(***************************************************************************)
Unbounded == HeapSize

\* The primitives of the model, and their least and greatest arity.  Those on
\* numbers, equal?, display and write have modules of their own.
Primitives == <<"cons", "car", "cdr", "list", "length", "null?", "pair?", "symbol?",
                "procedure?", "boolean?", "eq?", "not", "error">>

\* The memory that creating the state took.
ASSUME MemoryAssumption == Len(Primitives) < HeapSize

Arity(name) ==
    CASE name \in {"list", "error"} -> <<0, Unbounded>>
      [] name \in {"cons", "eq?"} -> <<2, 2>>
      [] OTHER -> <<1, 1>>

Global == Ref(1)

InitialHeap ==
    [a \in Addr |->
        IF a = 1
        THEN Cell("ENV", <<Nil>> \o [i \in DOMAIN Primitives |-> Ref(i + 1)],
                         [i \in DOMAIN Primitives |-> Sym(Primitives[i])])
        ELSE IF a - 1 \in DOMAIN Primitives
        THEN Cell("PRIM", <<>>, <<Primitives[a - 1]>>)
        ELSE Free]

Running == [mode |-> "run", status |-> "OK", form |-> Nil, env |-> Nil]
Idle == [Running EXCEPT !.mode = "idle"]

Init ==
    /\ program \in Programs
    /\ source = 1
    /\ todo = program.sources[1]
    /\ outcomes = <<>>
    /\ last_result = Undef
    /\ heap = InitialHeap
    /\ protect = <<>>
    /\ stack = <<>>
    /\ reg = Idle
    /\ eval_depth = 0
    /\ raw = 0

-----------------------------------------------------------------------------
(***************************************************************************)
(* The frame in control.                                                   *)
(***************************************************************************)
MayFail == program \in Starved

Top == Last(stack)
Form == protect[Top.saves[1] + 1]
Env == protect[Top.saves[1] + 2]
Op == Car(heap, Form)[2]

At(mode, pc) == reg.mode = mode /\ stack # <<>> /\ Top.pc = pc
Run(pc) == At("run", pc)
Returned(pc) == At("return", pc) /\ reg.status = "OK"

\* A frame at the head of its loop holds nothing but the two slots.
LoopFrame(sp) ==
    [pc |-> "loop", saves |-> <<sp>>, args |-> Nil, cur |-> Nil, env |-> Nil,
     inner |-> Nil, proc |-> Nil, argv |-> <<>>, argc |-> 0]

Kept(n) == SubSeq(protect, 1, n)
SetTop(frame) == stack' = [stack EXCEPT ![Len(stack)] = frame]

\* The block of operands exists unless the call has none.
ArgvBlocks(frame) == IF frame.argc = 0 THEN 0 ELSE 1
FreeArgv == raw' = raw - ArgvBlocks(Top)

\* Carry on with this frame.
Go(frame) ==
    /\ SetTop(frame)
    /\ reg' = Running
    /\ UNCHANGED <<eval_depth, driverVars>>

\* ml_eval(form, env) from this frame.
Call(frame, form, env) ==
    /\ SetTop(frame)
    /\ reg' = [mode |-> "call", status |-> "OK", form |-> form, env |-> env]
    /\ UNCHANGED <<eval_depth, driverVars>>

\* Fault: an error path returns past the decrement of eval_depth.
ReturnKeepsDepth(status, value) ==
    /\ protect' = Kept(Top.saves[1])
    /\ stack' = Front(stack)
    /\ reg' = [mode |-> "return", status |-> status, form |-> value, env |-> Nil]
    /\ eval_depth' = IF status = "OK" THEN eval_depth - 1 ELSE eval_depth
    /\ UNCHANGED driverVars

\* return from eval_body, and from the ml_eval around it.
Return(status, value) ==
    /\ protect' = Kept(Top.saves[1])
    /\ stack' = Front(stack)
    /\ reg' = [mode |-> "return", status |-> status, form |-> value, env |-> Nil]
    /\ eval_depth' = eval_depth - 1
    /\ UNCHANGED driverVars

Value(v) == Return("OK", v)
Fail(status) == Return(status, Undef)

\* The savepoint the handler restores when begin_tco comes back; begin and
\* cond took none.
Keep(frame) == IF Len(frame.saves) > 1 THEN frame.saves[2] ELSE Len(protect)

\* Fault: what the handler protected stays on the stack.
ContinueKeepsAll(frame, form, env) ==
    /\ protect' = [protect EXCEPT ![Top.saves[1] + 1] = form, ![Top.saves[1] + 2] = env]
    /\ Go(LoopFrame(Top.saves[1]))

\* The tail call: restore, then overwrite the two slots and loop.
Continue(frame, form, env) ==
    /\ protect' = [Kept(Keep(frame)) EXCEPT ![Top.saves[1] + 1] = form,
                                            ![Top.saves[1] + 2] = env]
    /\ Go(LoopFrame(Top.saves[1]))

\* begin_tco: every form but the last for effect, the last as a tail call.
BeginTco(frame, forms, env) ==
    IF forms = Nil THEN Value(Undef)
    ELSE IF ~IsList(heap, forms) THEN Fail("SYNTAX")
    ELSE IF MoreThanOne(heap, forms)
    THEN /\ Call([frame EXCEPT !.pc = "seq", !.cur = forms, !.inner = env],
                 Car(heap, forms), env)
         /\ UNCHANGED protect
    ELSE Continue(frame, Car(heap, forms), env)

-----------------------------------------------------------------------------
(***************************************************************************)
(* microlisp_eval.                                                         *)
(***************************************************************************)

\* One form is read, protected and handed to ml_eval.
ReadForm ==
    /\ reg.mode = "idle"
    /\ todo # <<>>
    /\ \E form \in Read(heap, Head(todo)) :
       /\ heap' = form.heap
       /\ protect' = Append(protect, form.value)
       /\ reg' = [mode |-> "call", status |-> "OK", form |-> form.value, env |-> Global]
    /\ todo' = Tail(todo)
    /\ UNCHANGED <<program, source, outcomes, last_result, stack, eval_depth, raw>>

\* What microlisp_eval returns; the embedder then makes its next call.
Finish(outcome) ==
    /\ outcomes' = Append(outcomes, outcome)
    /\ source' = source + 1
    /\ todo' = IF source < Len(program.sources) THEN program.sources[source + 1] ELSE <<>>
    /\ last_result' = Undef
    /\ reg' = Idle
    /\ UNCHANGED <<program, heap, stack, eval_depth, raw>>

\* The outermost ml_eval is back.
FormEvaluated ==
    /\ reg.mode = "return" /\ stack = <<>>
    /\ protect' = <<>>
    /\ IF reg.status = "OK"
       THEN /\ last_result' = reg.form
            /\ reg' = Idle
            /\ UNCHANGED <<program, todo, source, outcomes, heap, stack, eval_depth, raw>>
       ELSE Finish([status |-> reg.status, datum |-> Undef])

\* End of input: the last result is written out.
EndOfSource ==
    /\ reg.mode = "idle" /\ todo = <<>> /\ source <= Len(program.sources)
    /\ \/ Finish([status |-> "OK", datum |-> Datum(heap, last_result)])
       \/ MayFail /\ last_result # Undef /\ Finish([status |-> "NOMEM", datum |-> Undef])
    /\ UNCHANGED protect

Finished == source > Len(program.sources)

-----------------------------------------------------------------------------
(***************************************************************************)
(* ml_eval and the head of the loop.                                       *)
(***************************************************************************)

\* Fault: the invocation is not counted.
EnterUncounted ==
    /\ reg.mode = "call"
    /\ protect' = protect \o <<reg.form, reg.env>>
    /\ stack' = Append(stack, LoopFrame(Len(protect)))
    /\ reg' = Running
    /\ UNCHANGED <<eval_depth, heap, raw, driverVars>>

Enter ==
    /\ reg.mode = "call"
    /\ eval_depth < MaxEvalDepth
    /\ eval_depth' = eval_depth + 1
    /\ protect' = protect \o <<reg.form, reg.env>>
    /\ stack' = Append(stack, LoopFrame(Len(protect)))
    /\ reg' = Running
    /\ UNCHANGED <<heap, raw, driverVars>>

\* Too deep, or one of the two protects fails: nothing has changed on return.
EnterFails ==
    /\ reg.mode = "call"
    /\ \E status \in {"EVAL_DEPTH", "NOMEM"} :
        /\ IF eval_depth >= MaxEvalDepth
           THEN status = "EVAL_DEPTH" ELSE MayFail /\ status = "NOMEM"
        /\ reg' = [mode |-> "return", status |-> status, form |-> Undef, env |-> Nil]
    /\ UNCHANGED <<protect, stack, eval_depth, heap, raw, driverVars>>

Atom ==
    /\ Run("loop") /\ ~IsSym(Form) /\ ~IsPair(heap, Form)
    /\ Value(Form)
    /\ UNCHANGED <<heap, raw>>

Variable ==
    /\ Run("loop") /\ IsSym(Form)
    /\ LET frame == Binder(heap, Env, Form) IN
       IF frame = Nil THEN Fail("UNBOUND") ELSE Value(Lookup(heap, frame, Form))
    /\ UNCHANGED <<heap, raw>>

SpecialForms == {"quote", "if", "define", "set!", "lambda", "begin", "let", "let*",
                 "letrec", "and", "or", "cond"}

IsSpecial == IsSym(Car(heap, Form)) /\ Op \in SpecialForms

\* The forms of a special form: its operands, and its frame with env loaded.
Special(names) == Run("loop") /\ IsPair(heap, Form) /\ IsSpecial /\ Op \in names
Rest == Cdr(heap, Form)
Loaded(pc) == [Top EXCEPT !.pc = pc, !.args = Rest, !.cur = Rest, !.env = Env]

-----------------------------------------------------------------------------
(***************************************************************************)
(* The special forms.                                                      *)
(***************************************************************************)
Quote ==
    /\ Special({"quote"})
    /\ IF HasLength(heap, Rest, {1}) THEN Value(Car(heap, Rest)) ELSE Fail("SYNTAX")
    /\ UNCHANGED <<heap, raw>>

If ==
    /\ Special({"if"})
    /\ IF HasLength(heap, Rest, {2, 3})
       THEN Call(Loaded("if"), Nth(heap, Rest, 1), Env) /\ UNCHANGED protect
       ELSE Fail("SYNTAX")
    /\ UNCHANGED <<heap, raw>>

IfChosen ==
    /\ Returned("if")
    /\ IF Truthy(reg.form) THEN Continue(Top, Nth(heap, Top.args, 2), Top.env)
       ELSE IF Length(heap, Top.args) = 3 THEN Continue(Top, Nth(heap, Top.args, 3), Top.env)
       ELSE Value(Undef)
    /\ UNCHANGED <<heap, raw>>

Begin ==
    /\ Special({"begin"})
    /\ BeginTco(Loaded("seq"), Rest, Env)
    /\ UNCHANGED <<heap, raw>>

\* Fault: the cursor over the forms does not move.
SeqRepeats ==
    /\ Returned("seq")
    /\ BeginTco(Top, Top.cur, Top.inner)
    /\ UNCHANGED <<heap, raw>>

\* A form of begin_tco has been evaluated for effect.
SeqNext ==
    /\ Returned("seq")
    /\ BeginTco(Top, Cdr(heap, Top.cur), Top.inner)
    /\ UNCHANGED <<heap, raw>>

\* closure_arity: the parameters, and the tail that takes the rest.
ParamsOK(params) ==
    /\ \A i \in 1 .. Length(heap, params) : IsSym(Nth(heap, params, i))
    /\ LastCdr(heap, params) = Nil \/ IsSym(LastCdr(heap, params))

\* make_closure up to its allocation: the parts go on the protect stack.
PrepareClosure(pc, params, body) ==
    IF ParamsOK(params)
    THEN /\ Go([Loaded(pc) EXCEPT !.saves = Append(@, Len(protect))])
         /\ protect' = protect \o <<params, body, Env>>
    ELSE Fail("SYNTAX")

Lambda ==
    /\ Special({"lambda"})
    /\ IF /\ IsList(heap, Rest) /\ Length(heap, Rest) >= 2
          /\ LET params == Car(heap, Rest)
             IN  IsPair(heap, params) \/ params = Nil \/ IsSym(params)
       THEN PrepareClosure("closure", Car(heap, Rest), Cdr(heap, Rest))
       ELSE Fail("SYNTAX")
    /\ UNCHANGED <<heap, raw>>

\* (define <symbol> <expr>), or the sugar for a lambda.
DefineForm ==
    /\ Special({"define"})
    /\ IF ~IsList(heap, Rest) \/ Length(heap, Rest) < 2 THEN Fail("SYNTAX")
       ELSE LET first == Car(heap, Rest) IN
            IF IsSym(first) /\ HasLength(heap, Rest, {2})
            THEN Call(Loaded("define"), Nth(heap, Rest, 2), Env) /\ UNCHANGED protect
            ELSE IF IsPair(heap, first) /\ IsSym(Car(heap, first))
            THEN PrepareClosure("closure", Cdr(heap, first), Cdr(heap, Rest))
            ELSE Fail("SYNTAX")
    /\ UNCHANGED <<heap, raw>>

\* The closure of a lambda is its value; that of a define is then bound.
MakeClosure ==
    /\ Run("closure")
    /\ Room(heap)
    /\ LET parts == SubSeq(protect, Len(protect) - 2, Len(protect))
           made == Put(heap, Cell("CLOSURE", parts, <<>>))
           closure == Ref(NextFree(heap))
           first == Car(heap, Top.args) IN
       IF Op = "lambda"
       THEN heap' = made /\ Value(closure)
       ELSE heap' = Define(made, Top.env, Car(heap, first), closure) /\ Value(Undef)
    /\ UNCHANGED raw

DefineValue ==
    /\ Returned("define")
    /\ heap' = Define(heap, Top.env, Car(heap, Top.args), reg.form)
    /\ Value(Undef)
    /\ UNCHANGED raw

SetBang ==
    /\ Special({"set!"})
    /\ IF HasLength(heap, Rest, {2}) /\ IsSym(Car(heap, Rest))
       THEN Call(Loaded("set!"), Nth(heap, Rest, 2), Env) /\ UNCHANGED protect
       ELSE Fail("SYNTAX")
    /\ UNCHANGED <<heap, raw>>

SetValue ==
    /\ Returned("set!")
    /\ LET name == Car(heap, Top.args)
           frame == Binder(heap, Top.env, name) IN
       IF frame = Nil
       THEN Fail("UNBOUND") /\ UNCHANGED heap
       ELSE heap' = SetBinding(heap, frame, name, reg.form) /\ Value(Undef)
    /\ UNCHANGED raw

\* let, let* and letrec, up to the allocation of the inner frame.
Let ==
    /\ Special({"let", "let*", "letrec"})
    /\ IF /\ IsList(heap, Rest) /\ Length(heap, Rest) >= 2
          /\ IsList(heap, Car(heap, Rest))
       THEN Go([Loaded("let") EXCEPT !.cur = Car(heap, Rest)]) /\ UNCHANGED protect
       ELSE Fail("SYNTAX")
    /\ UNCHANGED <<heap, raw>>

WellFormed(binding) == HasLength(heap, binding, {2}) /\ IsSym(Car(heap, binding))

\* Evaluate the next initialiser, or go on to the body.
NextBinding(frame) ==
    IF frame.cur = Nil THEN BeginTco(frame, Cdr(heap, frame.args), frame.inner)
    ELSE LET binding == Car(heap, frame.cur) IN
         IF WellFormed(binding)
         THEN /\ Call(frame, Nth(heap, binding, 2), IF Op = "let" THEN frame.env ELSE frame.inner)
              /\ UNCHANGED protect
         ELSE Fail("SYNTAX")

\* letrec binds every name to the undefined value first.
Predefined(h, inner, bindings) ==
    LET bound[k \in 0 .. Len(bindings)] ==
            IF k = 0 THEN h ELSE Define(bound[k - 1], inner, Car(heap, bindings[k]), Undef)
    IN  bound[Len(bindings)]

LetFrame ==
    /\ Run("let")
    /\ Room(heap)
    /\ LET inner == Ref(NextFree(heap))
           made == Put(heap, Cell("ENV", <<Top.env>>, <<>>))
           bindings == Elements(heap, Top.cur) IN
       IF Op = "letrec" /\ \E i \in DOMAIN bindings : ~WellFormed(bindings[i])
       THEN heap' = made /\ Fail("SYNTAX")
       ELSE /\ heap' = IF Op = "letrec" THEN Predefined(made, inner, bindings) ELSE made
            /\ Go([Top EXCEPT !.pc = "init", !.inner = inner, !.saves = Append(@, Len(protect))])
            /\ protect' = Append(protect, inner)
    /\ UNCHANGED raw

\* The loop over the bindings begins.
LetInit ==
    /\ Run("init")
    /\ NextBinding(Top)
    /\ UNCHANGED <<heap, raw>>

LetBound ==
    /\ Returned("init")
    /\ heap' = Define(heap, Top.inner, Car(heap, Car(heap, Top.cur)), reg.form)
    /\ NextBinding([Top EXCEPT !.cur = Cdr(heap, Top.cur)])
    /\ UNCHANGED raw

\* The rest of an `and` or an `or`, whose last element is a tail call.
Chain(frame, args) ==
    IF args = Nil THEN Value(Bool(Op = "and"))
    ELSE IF ~IsList(heap, args) THEN Fail("SYNTAX")
    ELSE IF MoreThanOne(heap, args)
    THEN /\ Call([frame EXCEPT !.cur = args], Car(heap, args), frame.env)
         /\ UNCHANGED protect
    ELSE Continue(frame, Car(heap, args), frame.env)

AndOr ==
    /\ Special({"and", "or"})
    /\ Chain(Loaded("chain"), Rest)
    /\ UNCHANGED <<heap, raw>>

ChainNext ==
    /\ Returned("chain")
    /\ IF Truthy(reg.form) = (Op = "or") THEN Value(reg.form)
       ELSE Chain(Top, Cdr(heap, Top.cur))
    /\ UNCHANGED <<heap, raw>>

\* The next clause of a cond.
Clause(frame) ==
    IF frame.cur = Nil THEN Value(Undef)
    ELSE LET clause == Car(heap, frame.cur) IN
         IF ~IsPair(heap, clause) THEN Fail("SYNTAX")
         ELSE IF Car(heap, clause) = Sym("else")
         THEN BeginTco(frame, Cdr(heap, clause), frame.env)
         ELSE Call(frame, Car(heap, clause), frame.env) /\ UNCHANGED protect

Cond ==
    /\ Special({"cond"})
    /\ IF IsList(heap, Rest) THEN Clause(Loaded("cond")) ELSE Fail("SYNTAX")
    /\ UNCHANGED <<heap, raw>>

CondNext ==
    /\ Returned("cond")
    /\ LET body == Cdr(heap, Car(heap, Top.cur)) IN
       IF ~Truthy(reg.form) THEN Clause([Top EXCEPT !.cur = Cdr(heap, Top.cur)])
       ELSE IF body = Nil THEN Value(reg.form)
       ELSE BeginTco(Top, body, Top.env)
    /\ UNCHANGED <<heap, raw>>

-----------------------------------------------------------------------------
(***************************************************************************)
(* Procedure calls.                                                        *)
(***************************************************************************)
Operator ==
    /\ Run("loop") /\ IsPair(heap, Form) /\ ~IsSpecial
    /\ Call(Loaded("head"), Car(heap, Form), Env)
    /\ UNCHANGED <<protect, heap, raw>>

\* The operator is protected; eval_arg_list checks the list and gets a block.
OperatorValue ==
    /\ Returned("head")
    /\ LET argc == Length(heap, Top.args)
           frame == [Top EXCEPT !.proc = reg.form, !.argc = argc,
                                !.saves = Append(@, Len(protect))] IN
       IF ~IsList(heap, Top.args) THEN Fail("SYNTAX") /\ UNCHANGED raw
       ELSE IF argc = 0
       THEN /\ Go([frame EXCEPT !.pc = "apply"])
            /\ protect' = Append(protect, reg.form)
            /\ UNCHANGED raw
       ELSE /\ Call([frame EXCEPT !.pc = "arg"], Car(heap, Top.args), Top.env)
            /\ protect' = Append(protect, reg.form)
            /\ raw' = raw + 1
    /\ UNCHANGED heap

\* An operand is protected and stored; on to the next one.
Operand ==
    /\ Returned("arg")
    /\ protect' = Append(protect, reg.form)
    /\ LET frame == [Top EXCEPT !.argv = Append(@, reg.form), !.cur = Cdr(heap, @)] IN
       IF Len(frame.argv) < frame.argc
       THEN Call(frame, Car(heap, frame.cur), Top.env)
       ELSE Go([frame EXCEPT !.pc = "apply"])
    /\ UNCHANGED <<heap, raw>>

\* Fault: an operand's error returns without freeing the block.
PropagateLeaks ==
    /\ reg.mode = "return" /\ reg.status # "OK" /\ stack # <<>>
    /\ Fail(reg.status)
    /\ UNCHANGED <<heap, raw>>

\* An error below this invocation: every path frees argv and restores to sp.
Propagate ==
    /\ reg.mode = "return" /\ reg.status # "OK" /\ stack # <<>>
    /\ Fail(reg.status)
    /\ IF Top.pc = "arg" THEN FreeArgv ELSE UNCHANGED raw
    /\ UNCHANGED heap

Procedure(kind) == Run("apply") /\ IsA(heap, Top.proc, kind)
Argc == Top.argc

\* A primitive that allocates nothing and keeps no state: its status and value.
Succeeds(v) == [status |-> "OK", value |-> v]
Refuses(status) == [status |-> status, value |-> Undef]
Result(name, argv) ==
    LET v == argv[1] IN
    CASE name = "car" -> IF IsPair(heap, v) THEN Succeeds(Car(heap, v)) ELSE Refuses("TYPE")
      [] name = "cdr" -> IF IsPair(heap, v) THEN Succeeds(Cdr(heap, v)) ELSE Refuses("TYPE")
      [] name = "length" ->
            IF IsList(heap, v) THEN Succeeds(Fix(Length(heap, v))) ELSE Refuses("TYPE")
      [] name = "null?" -> Succeeds(Bool(v = Nil))
      [] name = "pair?" -> Succeeds(Bool(IsPair(heap, v)))
      [] name = "symbol?" -> Succeeds(Bool(IsSym(v)))
      [] name = "procedure?" -> Succeeds(Bool(IsA(heap, v, "PRIM") \/ IsA(heap, v, "CLOSURE")))
      [] name = "boolean?" -> Succeeds(Bool(v \in {True, False}))
      [] name = "eq?" -> Succeeds(Bool(v = argv[2]))
      [] name = "not" -> Succeeds(Bool(~Truthy(v)))
      [] name = "error" -> Refuses("USER")

CallPrimitive ==
    /\ Procedure("PRIM")
    /\ LET name == heap[Top.proc[2]].names[1] IN
       IF Argc < Arity(name)[1] \/ Argc > Arity(name)[2]
       THEN Fail("ARITY") /\ FreeArgv
       ELSE IF name = "cons"
       THEN Go([Top EXCEPT !.pc = "cons"]) /\ UNCHANGED <<protect, raw>>
       ELSE IF name = "list"
       THEN /\ Go([Top EXCEPT !.pc = "list", !.cur = Nil, !.saves = Append(@, Len(protect))])
            /\ protect' = Append(protect, Nil)
            /\ UNCHANGED raw
       ELSE LET result == Result(name, Top.argv)
            IN  Return(result.status, result.value) /\ FreeArgv
    /\ UNCHANGED heap

PrimCons ==
    /\ Run("cons")
    /\ Room(heap)
    /\ heap' = Put(heap, Cell("PAIR", Top.argv, <<>>))
    /\ Value(Ref(NextFree(heap)))
    /\ FreeArgv

\* Fault: the partial list is not put back on the protect stack.
ListCellUnrefreshed ==
    /\ Run("list") /\ Top.argv # <<>>
    /\ Room(heap)
    /\ heap' = Put(heap, Cell("PAIR", <<Last(Top.argv), Top.cur>>, <<>>))
    /\ Go([Top EXCEPT !.cur = Ref(NextFree(heap)), !.argv = Front(@)])
    /\ UNCHANGED <<protect, raw>>

\* prim_list conses from the last operand to the first.
PrimListCell ==
    /\ Run("list") /\ Top.argv # <<>>
    /\ Room(heap)
    /\ LET cell == Ref(NextFree(heap)) IN
       /\ heap' = Put(heap, Cell("PAIR", <<Last(Top.argv), Top.cur>>, <<>>))
       /\ protect' = [protect EXCEPT ![Top.saves[3] + 1] = cell]
       /\ Go([Top EXCEPT !.cur = cell, !.argv = Front(@)])
    /\ UNCHANGED raw

PrimListDone ==
    /\ Run("list") /\ Top.argv = <<>>
    /\ Value(Top.cur)
    /\ FreeArgv
    /\ UNCHANGED heap

NotAProcedure ==
    /\ Run("apply") /\ ~Procedure("PRIM") /\ ~Procedure("CLOSURE")
    /\ Fail("TYPE")
    /\ FreeArgv
    /\ UNCHANGED heap

ClosureParams == heap[Top.proc[2]].refs[1]
ClosureBody == heap[Top.proc[2]].refs[2]
ClosureEnv == heap[Top.proc[2]].refs[3]
IsVariadic(params) == IsSym(LastCdr(heap, params))

CallClosure ==
    /\ Procedure("CLOSURE")
    /\ LET least == Length(heap, ClosureParams) IN
       IF Argc = least \/ (IsVariadic(ClosureParams) /\ Argc > least)
       THEN Go([Top EXCEPT !.pc = "frame", !.cur = ClosureParams]) /\ UNCHANGED <<protect, raw>>
       ELSE Fail("ARITY") /\ FreeArgv
    /\ UNCHANGED heap

NewFrame ==
    /\ Run("frame")
    /\ Room(heap)
    /\ LET inner == Ref(NextFree(heap)) IN
       /\ heap' = Put(heap, Cell("ENV", <<ClosureEnv>>, <<>>))
       /\ protect' = Append(protect, inner)
       /\ Go([Top EXCEPT !.pc = "bind", !.inner = inner, !.saves = Append(@, Len(protect))])
    /\ UNCHANGED raw

BindParameter ==
    /\ Run("bind") /\ IsPair(heap, Top.cur)
    /\ heap' = Define(heap, Top.inner, Car(heap, Top.cur), Head(Top.argv))
    /\ Go([Top EXCEPT !.cur = Cdr(heap, @), !.argv = Tail(@)])
    /\ UNCHANGED <<protect, raw>>

\* build_list begins: the rest of the operands go into a fresh list.
BindRest ==
    /\ Run("bind") /\ IsSym(Top.cur)
    /\ protect' = Append(protect, Nil)
    /\ Go([Top EXCEPT !.pc = "push", !.cur = Nil, !.saves = Append(@, Len(protect))])
    /\ UNCHANGED <<heap, raw>>

RestElement ==
    /\ Run("push") /\ Top.argv # <<>>
    /\ protect' = Append(protect, Last(Top.argv))
    /\ Go([Top EXCEPT !.pc = "rest"])
    /\ UNCHANGED <<heap, raw>>

RestCell ==
    /\ Run("rest")
    /\ Room(heap)
    /\ LET cell == Ref(NextFree(heap)) IN
       /\ heap' = Put(heap, Cell("PAIR", <<Last(Top.argv), Top.cur>>, <<>>))
       /\ protect' = [Front(protect) EXCEPT ![Top.saves[4] + 1] = cell]
       /\ Go([Top EXCEPT !.pc = "push", !.cur = cell, !.argv = Front(@)])
    /\ UNCHANGED raw

RestDone ==
    /\ Run("push") /\ Top.argv = <<>>
    /\ heap' = Define(heap, Top.inner, LastCdr(heap, ClosureParams), Top.cur)
    /\ protect' = Kept(Top.saves[4])
    /\ Go([Top EXCEPT !.pc = "bind", !.cur = Nil, !.saves = Front(@)])
    /\ UNCHANGED raw

\* Fault: the operands are not unprotected.
BoundKeepsOperands ==
    /\ Run("bind") /\ Top.cur = Nil
    /\ protect' = Kept(Top.saves[3])
    /\ Go([Top EXCEPT !.pc = "body", !.args = Nil, !.argc = 0, !.saves = SubSeq(@, 1, 2)])
    /\ FreeArgv
    /\ UNCHANGED heap

\* apply_closure_bind returns: the new frame and the operands lose their slots.
Bound ==
    /\ Run("bind") /\ Top.cur = Nil
    /\ protect' = Kept(Top.saves[3] - Top.argc)
    /\ Go([Top EXCEPT !.pc = "body", !.args = Nil, !.argc = 0, !.saves = SubSeq(@, 1, 2)])
    /\ FreeArgv
    /\ UNCHANGED heap

Body ==
    /\ Run("body")
    /\ BeginTco(Top, ClosureBody, Top.inner)
    /\ UNCHANGED <<heap, raw>>

-----------------------------------------------------------------------------
(***************************************************************************)
(* Collection and failure of the embedder's allocator.                     *)
(***************************************************************************)
Allocating == {"cons", "frame", "let", "closure", "rest"}

AtAllocation ==
    \/ reg.mode = "idle" /\ todo # <<>>
    \/ reg.mode = "run" /\ Top.pc \in Allocating
    \/ Run("list") /\ Top.argv # <<>>

Collect ==
    /\ AtAllocation
    /\ heap' = Swept(heap, {Global} \cup Range(protect))
    /\ UNCHANGED <<driverVars, protect, stack, reg, eval_depth, raw>>

\* Continuations that protect the value they are given, or bind it.
Protecting == {"head", "arg", "define", "set!", "init"}

\* Raw memory or a slot of the protect stack is not to be had.  An object may
\* have been linked before the failure; nothing reaches it.
OutOfMemory ==
    /\ MayFail
    /\ \/ /\ reg.mode = "run" /\ Top.pc \in Allocating \cup {"bind", "push", "list"}
          /\ Top.pc = "bind" => Top.cur # Nil
          /\ Top.pc = "list" => Top.argv # <<>> \/ Top.argc = 0
          /\ \/ UNCHANGED heap
             \/ /\ Top.pc \in {"frame", "let", "closure"} /\ Room(heap)
                /\ heap' = Put(heap, Cell("PAIR", <<Nil, Nil>>, <<>>))
       \/ /\ reg.mode = "return" /\ reg.status = "OK" /\ stack # <<>> /\ Top.pc \in Protecting
          /\ UNCHANGED heap
    /\ Fail("NOMEM")
    /\ IF Top.pc \in {"cons", "list", "frame", "bind", "push", "rest", "arg"}
       THEN FreeArgv ELSE UNCHANGED raw

\* Reading a form, or protecting it, meets the failure: microlisp_eval returns.
ReadFails ==
    /\ MayFail
    /\ reg.mode = "idle" /\ todo # <<>>
    /\ Finish([status |-> "NOMEM", datum |-> Undef])
    /\ UNCHANGED protect

-----------------------------------------------------------------------------
Evaluate ==
    \/ ReadForm \/ FormEvaluated \/ EndOfSource
    \/ Enter \/ EnterFails \/ Atom \/ Variable
    \/ Quote \/ If \/ IfChosen \/ Begin \/ SeqNext
    \/ Lambda \/ DefineForm \/ MakeClosure \/ DefineValue \/ SetBang \/ SetValue
    \/ Let \/ LetFrame \/ LetInit \/ LetBound \/ AndOr \/ ChainNext \/ Cond \/ CondNext
    \/ Operator \/ OperatorValue \/ Operand \/ Propagate
    \/ CallPrimitive \/ PrimCons \/ PrimListCell \/ PrimListDone \/ NotAProcedure
    \/ CallClosure \/ NewFrame \/ BindParameter \/ BindRest \/ RestElement \/ RestCell
    \/ RestDone \/ Bound \/ Body

Next == Evaluate \/ Collect \/ OutOfMemory \/ ReadFails \/ (Finished /\ UNCHANGED vars)

Spec == Init /\ [][Next]_vars

\* The one thread keeps executing.
FairSpec == Spec /\ WF_vars(Evaluate)

-----------------------------------------------------------------------------
(***************************************************************************)
(* Properties.                                                             *)
(***************************************************************************)

\* Every variable has the type its comment gives it.
TypeOK ==
    /\ reg.mode \in {"idle", "call", "run", "return"}
    /\ reg.status \in {"OK", "SYNTAX", "UNBOUND", "TYPE", "ARITY", "USER", "EVAL_DEPTH", "NOMEM"}
    /\ \A a \in Addr :
        /\ heap[a].kind \in {"FREE", "PAIR", "CLOSURE", "PRIM", "ENV", "STRING"}
        /\ heap[a].kind = "PAIR" => Len(heap[a].refs) = 2
        /\ heap[a].kind = "CLOSURE" => Len(heap[a].refs) = 3
        /\ heap[a].kind = "ENV" => Len(heap[a].refs) = 1 + Len(heap[a].names)
    /\ eval_depth \in 0 .. MaxEvalDepth
    /\ raw \in Nat
    /\ source \in Nat

Alive(v) == IsObj(v) => heap[v[2]].kind # "FREE"

LocalsOf(frame) ==
    {frame.args, frame.cur, frame.env, frame.inner, frame.proc} \cup Range(frame.argv)

\* Every handle that an ml_eval invocation in progress still holds in a C local
\* survives each collection (gc.c:17-21): no collection between two of its
\* steps frees a form, frame, procedure or operand it has yet to use.
Rooted ==
    /\ \A i \in DOMAIN stack : \A v \in LocalsOf(stack[i]) : Alive(v)
    /\ \A i \in DOMAIN protect : Alive(protect[i])
    /\ Alive(reg.form)
    /\ reg.mode = "idle" /\ todo = <<>> => Alive(last_result)

Operands(frame) ==
    CASE frame.pc = "arg" -> Len(frame.argv)
      [] frame.pc \in {"apply", "cons", "frame", "list", "bind", "push", "rest"} ->
            frame.argc
      [] OTHER -> 0

\* The slots of the protect stack an invocation is entitled to at each point.
Slots(frame) ==
    2 + Operands(frame) +
    CASE frame.pc \in {"init", "arg", "apply", "cons", "frame", "body"} -> 1
      [] frame.pc \in {"list", "bind"} -> 2
      [] frame.pc \in {"closure", "push"} -> 3
      [] frame.pc = "rest" -> 4
      [] frame.pc = "seq" -> Len(frame.saves) - 1
      [] OTHER -> 0

\* The protect stack is exactly the slots of the invocations in progress, one
\* after the other, on top of the form microlisp_eval protected: whatever the
\* path, no handler leaves a slot behind or gives up one of its caller's.
ProtectLayout ==
    LET sp(i) == IF i = 0 THEN 0 ELSE stack[i].saves[1]
        slots(i) == IF i = 0 THEN IF reg.mode = "idle" THEN 0 ELSE 1 ELSE Slots(stack[i])
    IN  \A i \in 0 .. Len(stack) :
            sp(i) + slots(i) = IF i = Len(stack) THEN Len(protect) ELSE sp(i + 1)

\* eval_depth counts the invocations in progress, whatever way they end.
DepthExact == eval_depth = Len(stack)

\* Each invocation that is between eval_arg_list and the end of its call holds
\* one argv block, and there is no other: no path leaks one or frees it twice.
ArgvExact ==
    raw = Cardinality({i \in DOMAIN stack :
                        /\ stack[i].pc \in {"arg", "apply", "cons", "list", "frame",
                                            "bind", "push", "rest"}
                        /\ stack[i].argc # 0})

\* What each source returns is what the language says, whenever collections
\* happen and whatever earlier sources failed with, short of running out of
\* memory: a definition that was lost for want of it is not there later.
AsExpected ==
    \A i \in DOMAIN outcomes :
        \/ outcomes[i] = program.expected[i]
        \/ \E j \in 1 .. i : outcomes[j].status = "NOMEM"

\* At the head of its loop, after however many tail calls, an invocation has no
\* more than the slots of its form and its environment.
TailCallsTakeNoSlots == Run("loop") => Len(protect) = Top.saves[1] + 2

\* A program never nests deeper than its non-tail calls do: a tail call takes
\* no room on the C stack or the protect stack (microlisp.h:124-126, 209-212).
TailCallsTakeNoRoom == eval_depth <= program.deepest /\ TailCallsTakeNoSlots

\* Every program that is not an endless loop comes to its end.
Terminates == <>(Finished \/ program.endless)
=============================================================================
