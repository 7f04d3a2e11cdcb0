----------------------------- MODULE Lifecycle -----------------------------
(***************************************************************************)
(* The blocks of an interpreter state, from microlisp_state_create to      *)
(* microlisp_state_destroy (src/src/state.c): every call of the embedder's *)
(* allocator, each of which may fail, and every block given back.          *)
(*                                                                         *)
(* Creation and evaluation are lists of operations `todo` that allocate:   *)
(*   intern    ml_sym_intern             object    an ml_gc_alloc_*        *)
(*   protect   ml_gc_protect             define    ml_env_define at the    *)
(*   restore   ml_gc_restore                       top level               *)
(*   print     ml_print_to_alloc         refuse    any error of Scheme     *)
(*   builtin   these, for a primitive    form      these, for a form       *)
(* What they compute is the business of the other modules; here they own   *)
(* blocks.  A block is the number of a place in memory; a place given back *)
(* may be handed out again.                                                *)
(***************************************************************************)
EXTENDS Integers, Sequences, FiniteSets

CONSTANTS
    MaxBlocks,     \* the places of the memory
    SpecialForms,  \* the names interned for the evaluator, in order
    Builtins,      \* the names of the primitives, in order
    FirstSymbols,  \* 32: first capacity of the symbol table,
    FirstRoots,    \* 32: of the protect stack,
    FirstBindings, \* 8: of a frame,
    FirstMarks,    \* 64: and of the mark list
    Threshold,     \* opts->gc_initial_threshold
    Floor          \* the lower bound of later thresholds, 4096 in the code

ASSUME LifecycleAssumption ==
    /\ MaxBlocks \in Nat
    /\ SpecialForms \in Seq(STRING) /\ Builtins \in Seq(STRING)
    /\ {FirstSymbols, FirstRoots, FirstBindings, FirstMarks} \subseteq Nat \ {0}
    /\ {Threshold, Floor} \subseteq Nat \ {0}

Null == 0
Blocks == 1 .. MaxBlocks

VARIABLES
    mem,     \* the allocator: the blocks in use, whether it was ever given back
             \* one that is not, whether it ever had none to give
    ml,      \* the interpreter state
    made,    \* the object a C variable holds
    todo,    \* operations of the creation or evaluation in progress
    status,  \* its status so far
    result   \* the block of *out_bytes

stateVars == <<mem, ml, made, todo, status, result>>

Op(op, name) == [op |-> op, name |-> name]
Plain(op) == Op(op, "none")

\* memset, and the fields that are not zero.
Blank(self) ==
    [self |-> self, names |-> <<>>, entries |-> Null, symcap |-> 0,
     toplevel |-> Null, arrays |-> <<Null, Null>>, envcap |-> 0, bound |-> <<>>,
     objects |-> {}, threshold |-> Threshold,
     roots |-> <<>>, protect |-> Null, protcap |-> 0, marklist |-> Null, markcap |-> 0]
NoState == [Blank(Null) EXCEPT !.threshold = 0]

StateInit ==
    /\ mem = [live |-> {}, wild |-> FALSE, denied |-> FALSE]
    /\ ml = NoState
    /\ made = Null
    /\ todo = <<>>
    /\ status = "OK"
    /\ result = Null

-----------------------------------------------------------------------------
(***************************************************************************)
(* The allocator.                                                          *)
(***************************************************************************)
Fresh(m) == CHOOSE b \in Blocks : b \notin m.live

\* What an allocation may give: a block, if there is one, or NULL.
Got(m) ==
    {[mem |-> [m EXCEPT !.denied = TRUE], block |-> Null]}
    \cup (IF Blocks \subseteq m.live THEN {}
          ELSE {[mem |-> [m EXCEPT !.live = @ \cup {Fresh(m)}], block |-> Fresh(m)]})

\* The blocks that the variables of `held` hold are given back; ml_raw_free
\* ignores NULL.
Dropped(m, held) ==
    LET given == {p \in DOMAIN held : held[p] # Null}
    IN  [m EXCEPT !.live = @ \ {held[p] : p \in given},
                  !.wild = \/ @
                           \/ \E p \in given : held[p] \notin m.live
                           \/ \E p, q \in given : p # q /\ held[p] = held[q]]

Doubled(capacity, first) == IF capacity = 0 THEN first ELSE 2 * capacity

-----------------------------------------------------------------------------
(***************************************************************************)
(* Operations.  A form is read, protected and evaluated.                   *)
(*   "value"   has a value to print      "define"  binds x to a new object *)
(*   "show"    is a call of display      "wrong"   has an error            *)
(***************************************************************************)
Body(form) ==
    CASE form = "value" -> <<Plain("object")>>
      [] form = "define" -> <<Op("intern", "x"), Plain("object"), Op("define", "x")>>
      [] form = "show" -> <<Plain("show")>>
      [] form = "wrong" -> <<Plain("refuse")>>

Steps(o) ==
    IF o.op = "builtin"
    THEN <<Plain("object"), Plain("protect"), Op("intern", o.name),
           Op("define", o.name), Plain("restore")>>
    ELSE <<Plain("object"), Plain("protect")>> \o Body(o.name) \o <<Plain("restore")>>

\* A list of operations whose first is one that allocates.
Unfolded(ops) ==
    IF ops # <<>> /\ Head(ops).op \in {"builtin", "form"} THEN Steps(Head(ops)) \o Tail(ops) ELSE ops

Doing(op) == todo # <<>> /\ Head(todo).op = op
Name == Head(todo).name
Done == todo' = Unfolded(Tail(todo)) /\ UNCHANGED <<status, result>>

\* An error ends the operation, and every caller up to microlisp_eval restores
\* the protect stack.
Fail(st, m) ==
    /\ status' = st /\ mem' = m
    /\ todo' = <<>>
    /\ ml' = [ml EXCEPT !.roots = <<>>] /\ made' = Null
    /\ UNCHANGED result

\* One allocation: `ok` says what a block changes.
Take(ok(_)) ==
    \E g \in Got(mem) :
        IF g.block = Null THEN Fail("NOMEM", g.mem) ELSE ok(g) /\ UNCHANGED made

Known == \E i \in DOMAIN ml.names : ml.names[i].name = Name
SymbolsFull == Len(ml.names) = ml.symcap

InternKnown == Doing("intern") /\ Known /\ Done /\ UNCHANGED <<mem, ml, made>>

GrowSymbols ==
    /\ Doing("intern") /\ ~Known /\ SymbolsFull
    /\ Take(LAMBDA g :
         /\ mem' = Dropped(g.mem, <<ml.entries>>)
         /\ ml' = [ml EXCEPT !.entries = g.block, !.symcap = Doubled(@, FirstSymbols)]
         /\ UNCHANGED <<todo, status, result>>)

CopyName ==
    /\ Doing("intern") /\ ~Known /\ ~SymbolsFull
    /\ Take(LAMBDA g :
         /\ mem' = g.mem
         /\ ml' = [ml EXCEPT !.names = Append(@, [name |-> Name, block |-> g.block])]
         /\ Done)

\* Objects are given back, a frame's arrays before it (free_obj); only the
\* top-level frame has any.
FreedObjects(m, s, objects) ==
    Dropped(IF s.toplevel \in objects THEN Dropped(m, s.arrays) ELSE m, [o \in objects |-> o])

Reached(s) == {s.toplevel} \cup {s.roots[i] : i \in DOMAIN s.roots}
                          \cup {s.bound[i].value : i \in DOMAIN s.bound}

Swept(c) ==
    LET kept == c.ml.objects \cap Reached(c.ml)
        double == 2 * Cardinality(kept)
    IN  [mem |-> FreedObjects(c.mem, c.ml, c.ml.objects \ kept),
         ml |-> [c.ml EXCEPT !.objects = kept,
                             !.threshold = IF double > Floor THEN double ELSE Floor]]

\* A collection is due; the mark list has no room for all that the roots may reach.
Due == Cardinality(ml.objects) >= ml.threshold
Short == ml.markcap < Cardinality(Reached(ml))

\* Marking may need more room than the mark list has: a larger one replaces it,
\* any number of times in one collection.
GrowMarks ==
    /\ Doing("object") /\ Due /\ Short
    /\ \E g \in {x \in Got(mem) : x.block # Null} :
        /\ mem' = Dropped(g.mem, <<ml.marklist>>)
        /\ ml' = [ml EXCEPT !.marklist = g.block, !.markcap = Doubled(@, FirstMarks)]
    /\ UNCHANGED <<made, todo, status, result>>

\* How maybe_collect may leave memory and state, the mark list having grown as far
\* as it does: no collection, a whole one, or one given up because the list could
\* not grow (again).
AfterCollection ==
    LET as_is == [mem |-> mem, ml |-> ml]
        whole == IF ml.markcap > 0 THEN {Swept(as_is)} ELSE {}
        given_up == IF Short THEN {[as_is EXCEPT !.mem.denied = TRUE]} ELSE {}
    IN  IF Due THEN whole \cup given_up ELSE {as_is}

\* The first object of a state is its top-level environment.
AllocObject ==
    /\ Doing("object")
    /\ \E c \in AfterCollection : \E g \in Got(c.mem) :
        LET linked == [c.ml EXCEPT !.objects = @ \cup {g.block},
                                   !.toplevel = IF @ = Null THEN g.block ELSE @]
        IN  IF g.block = Null
            THEN /\ status' = "NOMEM" /\ todo' = <<>>
                 /\ mem' = g.mem /\ ml' = [c.ml EXCEPT !.roots = <<>>]
                 /\ made' = Null /\ UNCHANGED result
            ELSE mem' = g.mem /\ ml' = linked /\ made' = g.block /\ Done

RootsFull == Len(ml.roots) = ml.protcap

GrowRoots ==
    /\ Doing("protect") /\ RootsFull
    /\ Take(LAMBDA g :
         /\ mem' = Dropped(g.mem, <<ml.protect>>)
         /\ ml' = [ml EXCEPT !.protect = g.block, !.protcap = Doubled(@, FirstRoots)]
         /\ UNCHANGED <<todo, status, result>>)

Protect ==
    /\ Doing("protect") /\ ~RootsFull
    /\ ml' = [ml EXCEPT !.roots = Append(@, made)]
    /\ Done /\ UNCHANGED <<mem, made>>

Restore ==
    /\ Doing("restore")
    /\ ml' = [ml EXCEPT !.roots = <<>>] /\ made' = Null
    /\ Done /\ UNCHANGED mem

Bound == {i \in DOMAIN ml.bound : ml.bound[i].name = Name}
BindingsFull == Len(ml.bound) = ml.envcap

Rebind ==
    /\ Doing("define") /\ Bound # {}
    /\ ml' = [ml EXCEPT !.bound = [i \in DOMAIN @ |-> IF i \in Bound THEN [@[i] EXCEPT !.value = made]
                                                      ELSE @[i]]]
    /\ Done /\ UNCHANGED <<mem, made>>

\* env_grow: two arrays or none.
GrowBindings ==
    /\ Doing("define") /\ Bound = {} /\ BindingsFull
    /\ \E names \in Got(mem) : \E values \in Got(names.mem) :
        IF names.block = Null THEN values.block = Null /\ Fail("NOMEM", names.mem)
        ELSE IF values.block = Null THEN Fail("NOMEM", Dropped(values.mem, <<names.block>>))
        ELSE /\ mem' = Dropped(values.mem, ml.arrays)
             /\ ml' = [ml EXCEPT !.arrays = <<names.block, values.block>>,
                                 !.envcap = Doubled(@, FirstBindings)]
             /\ UNCHANGED <<made, todo, status, result>>

Bind ==
    /\ Doing("define") /\ Bound = {} /\ ~BindingsFull
    /\ ml' = [ml EXCEPT !.bound = Append(@, [name |-> Name, value |-> made])]
    /\ Done /\ UNCHANGED <<mem, made>>

PrintResult ==
    /\ Doing("print")
    /\ Take(LAMBDA g :
         /\ mem' = g.mem /\ result' = g.block
         /\ todo' = Unfolded(Tail(todo)) /\ UNCHANGED <<ml, status>>)

Refuse == Doing("refuse") /\ Fail("UNBOUND", mem)

Operate ==
    \/ InternKnown \/ GrowSymbols \/ CopyName \/ GrowMarks \/ AllocObject \/ GrowRoots \/ Protect
    \/ Restore \/ Rebind \/ GrowBindings \/ Bind \/ PrintResult \/ Refuse

-----------------------------------------------------------------------------
(***************************************************************************)
(* Creation and destruction.                                               *)
(***************************************************************************)
CreationPlan ==
    [i \in 1 .. Len(SpecialForms) |-> Op("intern", SpecialForms[i])]
    \o <<Plain("object")>>
    \o [i \in 1 .. Len(Builtins) |-> Op("builtin", Builtins[i])]

Refused(st, m) == status' = st /\ mem' = m /\ UNCHANGED <<ml, made, todo, result>>

\* Up to the point from which a failure must destroy what there is.  The table
\* is "whole", lacks a function ("partial"), or gives unaligned blocks.
Create(table) ==
    IF table = "partial" THEN Refused("INVALID_ARG", mem)
    ELSE \E g \in Got(mem) :
            IF g.block = Null THEN Refused("NOMEM", g.mem)
            ELSE IF table = "misaligned" THEN Refused("INVALID_ARG", Dropped(g.mem, <<g.block>>))
            ELSE /\ mem' = g.mem
                 /\ ml' = Blank(g.block)
                 /\ todo' = Unfolded(CreationPlan)
                 /\ status' = "OK"
                 /\ UNCHANGED <<made, result>>

\* Every block of a state is given back: objects, names, and its own.
Destroyed(m, s) ==
    LET swept == FreedObjects(m, s, s.objects)
        unnamed == Dropped(swept, [i \in DOMAIN s.names |-> s.names[i].block])
    IN  Dropped(unnamed, <<s.entries, s.protect, s.marklist, s.self>>)

Destroy ==
    /\ mem' = Destroyed(mem, ml)
    /\ ml' = NoState /\ made' = Null
    /\ UNCHANGED <<todo, status, result>>
=============================================================================
