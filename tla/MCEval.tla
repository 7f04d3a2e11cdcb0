------------------------------- MODULE MCEval -------------------------------
(***************************************************************************)
(* Scheme programs for model checking Eval, written as terms, with what    *)
(* each source returns and the depth of ml_eval it needs.                  *)
(***************************************************************************)
EXTENDS Eval, Loader

L(ts) == <<"LIST", ts, Nil>>
Dotted(ts, t) == <<"LIST", ts, t>>
S(x) == Sym(x)
One == Fix(1)
Two == Fix(2)

Lambda_(params, body) == L(<<S("lambda"), params>> \o body)
Define_(head, body) == L(<<S("define"), head>> \o body)
If_(a, b, c) == L(<<S("if"), a, b, c>>)
Quote_(t) == L(<<S("quote"), t>>)
Apply(f, args) == L(<<S(f)>> \o args)

OK(t) == [status |-> "OK", datum |-> t]
Error(status) == [status |-> status, datum |-> Undef]

Runs(sources, expected, deepest) ==
    [sources |-> sources, expected |-> expected, deepest |-> deepest, endless |-> FALSE]

\* (define (f x) (if x (f (car x)) 1)) (f '(((#f))))
TailLoop ==
    Runs(<< <<Define_(L(<<S("f"), S("x")>>), <<If_(S("x"), Apply("f", <<Apply("car", <<S("x")>>)>>), One)>>),
              Apply("f", <<Quote_(L(<<L(<<L(<<False>>)>>)>>))>>)>> >>,
         <<OK(One)>>, 3)

\* (define (f) (f)) (f)
Endless ==
    [sources |-> << <<Define_(L(<<S("f")>>), <<Apply("f", <<>>)>>), Apply("f", <<>>)>> >>,
     expected |-> <<>>, deepest |-> 2, endless |-> TRUE]

\* (define (f x) (cons 1 (f x))) (f 1), which is too deep; then (list 1 2).
TooDeep ==
    Runs(<< <<Define_(L(<<S("f"), S("x")>>),
                      <<Apply("cons", <<One, Apply("f", <<S("x")>>)>>)>>),
              Apply("f", <<One>>)>>,
            <<Apply("list", <<One, Two>>)>> >>,
         <<Error("EVAL_DEPTH"), OK(L(<<One, Two>>))>>, MaxEvalDepth)

\* (define (g a . r) (car r) r) (g 1 2 (list 1)), and too few operands.
Variadic ==
    Runs(<< <<Define_(Dotted(<<S("g"), S("a")>>, S("r")), <<Apply("car", <<S("r")>>), S("r")>>),
              Apply("g", <<One, Two, Apply("list", <<One>>)>>)>>,
            <<Apply("g", <<>>)>> >>,
         <<OK(L(<<Two, L(<<One>>)>>)), Error("ARITY")>>, 3)

\* (let ((x 1)) (let* ((y (list x)) (z y)) (set! x 2) (cons x z)))
Lets ==
    Runs(<< <<L(<<S("let"), L(<<L(<<S("x"), One>>)>>),
                  L(<<S("let*"), L(<<L(<<S("y"), Apply("list", <<S("x")>>)>>), L(<<S("z"), S("y")>>)>>),
                      L(<<S("set!"), S("x"), Two>>),
                      Apply("cons", <<S("x"), S("z")>>)>>)>>)>> >>,
         <<OK(L(<<Two, One>>))>>, 3)

\* (letrec ((f (lambda (x) (if x (f (car x)) g))) (g 2)) (f '(#f)))
Letrec ==
    Runs(<< <<L(<<S("letrec"),
                  L(<<L(<<S("f"), Lambda_(L(<<S("x")>>),
                            <<If_(S("x"), Apply("f", <<Apply("car", <<S("x")>>)>>), S("g"))>>)>>),
                      L(<<S("g"), Two>>)>>),
                  Apply("f", <<Quote_(L(<<False>>))>>)>>)>> >>,
         <<OK(Two)>>, 3)

\* (cond (#f 1) ((and 1 (or #f #f)) 1) ((list 1)))   (cond (#f 1) (else 1 2))
\* (begin (define v 1) (set! v (or #f 2)) v)   (cond)
Conditionals ==
    Runs(<< <<L(<<S("cond"), L(<<False, One>>),
                  L(<<Apply("and", <<One, Apply("or", <<False, False>>)>>), One>>),
                  L(<<Apply("list", <<One>>)>>)>>)>>,
            <<L(<<S("cond"), L(<<False, One>>), L(<<S("else"), One, Two>>)>>)>>,
            <<Apply("begin", <<Define_(S("v"), <<One>>),
                               Apply("set!", <<S("v"), Apply("or", <<False, Two>>)>>), S("v")>>)>>,
            <<Apply("cond", <<>>)>> >>,
         <<OK(L(<<One>>)), OK(Two), OK(Two), OK(Undef)>>, 4)

\* Errors of each kind, each in a source of its own, and at last ((lambda (x) x) 1).
Errors ==
    Runs(<< <<S("nowhere")>>, <<Apply("set!", <<S("nowhere"), One>>)>>,
            <<Apply("car", <<One>>)>>, <<Apply("cons", <<One>>)>>, <<L(<<One, Two>>)>>,
            <<Apply("cons", <<One, S("nowhere")>>)>>,
            <<Dotted(<<S("cons"), One>>, Two)>>, <<Dotted(<<S("begin"), One>>, Two)>>,
            <<L(<<S("cond"), Dotted(<<True>>, One)>>)>>,
            <<L(<<S("letrec"), L(<<L(<<S("x")>>)>>), One>>)>>,
            <<L(<<Lambda_(L(<<S("x")>>), <<S("x")>>), One>>)>> >>,
         <<Error("UNBOUND"), Error("UNBOUND"), Error("TYPE"), Error("ARITY"), Error("TYPE"),
           Error("UNBOUND"), Error("SYNTAX"), Error("SYNTAX"), Error("SYNTAX"),
           Error("SYNTAX"), OK(One)>>, 2)

\* (define (g) (list 1)) (define (f x) (g) x) (f 1)
CallBeforeLast ==
    Runs(<< <<Define_(L(<<S("g")>>), <<Apply("list", <<One>>)>>),
              Define_(L(<<S("f"), S("x")>>), <<Apply("g", <<>>), S("x")>>),
              Apply("f", <<One>>)>> >>,
         <<OK(One)>>, 3)

\* (define (g) (list 1)) (let ((x (list 2))) (g) (begin (g) x))
LetBody ==
    Runs(<< <<Define_(L(<<S("g")>>), <<Apply("list", <<One>>)>>),
              L(<<S("let"), L(<<L(<<S("x"), Apply("list", <<Two>>)>>)>>),
                  Apply("g", <<>>), Apply("begin", <<Apply("g", <<>>), S("x")>>)>>)>> >>,
         <<OK(L(<<Two>>))>>, 3)

\* (define (last l) (if (null? (cdr l)) (car l) (last (cdr l))))
\* (last '(1 x))
ListLoop ==
    Runs(<< <<Define_(L(<<S("last"), S("l")>>),
                <<If_(Apply("null?", <<Apply("cdr", <<S("l")>>)>>), Apply("car", <<S("l")>>),
                      Apply("last", <<Apply("cdr", <<S("l")>>)>>))>>),
              Apply("last", <<Quote_(L(<<One, S("x")>>))>>)>> >>,
         <<OK(S("x"))>>, 4)

\* (length '(1 . 2))   (length '(1 2))   (error 1 2)   (cdr 1)
\* (boolean? (eq? car car))   (not (symbol? 'x))
Predicates ==
    Runs(<< <<Apply("length", <<Quote_(Dotted(<<One>>, Two))>>)>>,
            <<Apply("length", <<Quote_(L(<<One, Two>>))>>)>>,
            <<Apply("error", <<One, Two>>)>>,
            <<Apply("cdr", <<One>>)>>,
            <<Apply("boolean?", <<Apply("eq?", <<S("car"), S("car")>>)>>)>>,
            <<Apply("not", <<Apply("symbol?", <<Quote_(S("x"))>>)>>)>> >>,
         <<Error("TYPE"), OK(Two), Error("USER"), Error("TYPE"), OK(True), OK(False)>>, 3)

\* (list (pair? '()) (procedure? list))
Kinds ==
    Runs(<< <<Apply("list", <<Apply("pair?", <<Nil>>), Apply("procedure?", <<S("list")>>)>>)>> >>,
         <<OK(L(<<False, True>>))>>, 3)

AllPrograms ==
    {TailLoop, Endless, TooDeep, Variadic, Lets, Letrec, Conditionals, Errors, LetBody,
     ListLoop, Predicates, Kinds}
StarvedPrograms == {TailLoop, TooDeep, Variadic, Lets, LetBody}
BodyPrograms == {CallBeforeLast}
=============================================================================
