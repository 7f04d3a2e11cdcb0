# microlisp in TLA+

microlisp is an embeddable Scheme interpreter in C: one `microlisp_state`, one
thread, a mark-and-sweep heap on the embedder's allocator, and a trampolined
evaluator. This directory holds TLA+ models of its parts, TLC configurations
that check them on small instances, and proofs that TLAPS checks for every
value of the constants. Paths are relative to the repository's `src/`.

- [The system](#the-system)
- [Modules](#modules)
- [Runs](#runs)
- [Bounds](#bounds)
- [Fairness](#fairness)
- [Proofs](#proofs)
- [Where the code and its documents differ](#where-the-code-and-its-documents-differ)
- [What is not modelled](#what-is-not-modelled)
- [Plan](#plan)

## The system

There is no concurrency: `microlisp.h` requires one thread per state. What is
hard here is *when a collection happens*. Every heap allocation may first
collect (`gc.c:54-58`), a collection frees every object that the top-level
environment and the protect stack do not reach, and so each C local that holds
an object across an allocation must be on that stack. The second hard thing is
*failure*: the embedder's allocator may return NULL at every request, errors
leave the evaluator from anywhere, and the state must stay usable, since the
embedder goes on calling `microlisp_eval` with it.

| Component | State it keeps | Operations | What makes it correct |
|---|---|---|---|
| Values (`microlisp_internal.h`) | none: 64-bit words with a 3-bit tag | make, test and untag | tags tell values apart; 60-bit fixnums are not truncated |
| Collector and allocators (`gc.c`) | all-objects list, live count, threshold, mark bits, mark worklist | `ml_gc_alloc_*`, `ml_gc_collect`, `ml_gc_free_all` | frees exactly the unreachable; giving up half-way leaves no trace; the worklist is bounded; it ends |
| Protect stack (`gc.c:174-207`) | handles, count, capacity | protect, unprotect, savepoint, restore | last in, first out; never popped below a caller's slots |
| Symbol table (`symtab.c`) | array of names, count, capacity | intern, name of a symbol | one symbol per name, for ever; no leak when memory runs out |
| Environments (`env.c`) | per frame: parent, parallel arrays of names and values | define, set, lookup | lexical scope; a name is bound once in a frame; growth is all or nothing |
| Reader (`reader.c`) | position, line, column, nesting depth | read one datum | the datum the text denotes; partial lists rooted; depth limit; truncated and malformed told apart |
| Evaluator (`eval.c`) | `eval_depth`, two protect slots per invocation | every special form, procedure calls | Scheme semantics under any collection schedule; tail calls take no room; errors give everything back |
| Primitives (`primitives.c`) | none | arithmetic, comparison, lists, predicates, output | arity and type checks; overflow reported; intermediate lists rooted |
| Equality (`value.c`) | none | `eq?`, `equal?` | agrees with structural equality up to its depth limit |
| Printer (`printer.c`) | output buffer, column, nesting depth | print a datum to a buffer or a stream | what it prints reads back; depth limit; no partial result |
| State and driver (`state.c`) | everything above, last error, output stream | create, destroy, `microlisp_eval`, REPL | half-built states are released; errors leave the state usable; the output stream comes back after a REPL |
| Command line (`main.c`) | the text of a script, the exit code | run a file, an expression or the REPL | no block or file is left; the exit code is the cause of the end |
| Status strings, version (`status.c`, `version.c`) | none | table lookups | - |

Interactions. `microlisp_eval` reads a form, protects it, and calls `ml_eval`,
which calls itself for every operator, operand, test and value that is not in
tail position. `eval.c`, `reader.c` and `primitives.c` allocate through `gc.c`,
which reads their rooted values through the protect stack and through the
top-level environment. `env.c` and `symtab.c` take raw memory from the
embedder's allocator, never collect, and may fail. `printer.c` writes to a
stream or to a growing block, either of which may fail in the middle of a
value. `main.c` and the REPL write through buffered streams, so that an error
of the device may show at a write, at a flush, or only at exit.

The hazards are listed in `PROJECT.json` at the line where each bites.

## Modules

### AbstractHeap and GcHeap: the collector

`AbstractHeap` is what `gc.c` promises: a graph of objects, roots, one fresh
handle, and collections that take place in one step and keep exactly what the
roots reach. `GcHeap` is `gc.c` itself.

| Model | Code |
|---|---|
| `heap`, `linked`, `live` | the blocks, the list at `s->gc_head`, `s->gc_live_objects` |
| `marked`, `worklist`, `wcap` | mark bits, `s->gc_marklist` and its capacity |
| `pending` | the rest of the loop that is calling `gc_visit`: over the roots, or over the references of the object just popped |
| `protect`, `pcap`, `toplevel_env` | the roots |
| `request`, `fresh` | the operands of the allocator call in progress; what it returned through `*out` |
| `phase` | where the one thread is: in its caller, marking, sweeping, about to call the raw allocator |

One step is one `gc_visit`, one pop of the worklist, one object swept, or one
call of the mutator. The mutator is the most general one that keeps the rule of
`gc.c:17-21`: what it passes to an allocator is rooted. Freed addresses are
handed out again, so a dangling handle would come to denote a new object.
`VisitAborts` is `gc_visit`'s failure to grow the worklist, which clears every
mark and lets the allocation go on without a sweep.

### Heap, SchemeHeap and Eval: the evaluator

`Heap` gives values, cells, what a collection leaves and the term a value denotes,
as pure operators, for the evaluator, the reader and the printer; `SchemeHeap` adds
lists and environment frames, and `Loader` what reading a term allocates. `Eval` is
`eval.c` with the loop of `microlisp_eval` around it.

| Model | Code |
|---|---|
| `stack` | the `ml_eval` invocations in progress, with their C locals: `args`, `cur`, `env`, `inner`, `proc`, `argv`, `argc`, and the savepoints they took |
| `pc` of a frame | where in its handler the invocation is |
| `reg` | the call or the return between two invocations |
| `protect`, `eval_depth`, `raw` | the protect stack, `s->eval_depth`, the argv blocks not yet freed |
| `program`, `source`, `todo`, `outcomes`, `last_result` | the sources the embedder evaluates one after the other, and what each returned |

One action stands for the code between two points at which something else may
happen: a call of `ml_eval`, its return, or an allocation. `Collect` may happen
or not at each allocation, which covers every threshold and `gc_stress`. It is
one atomic step because `CollectsAtomically` (below) proves that `gc.c`
appears so to its callers. `OutOfMemory` is any failure of a raw allocation or
of a protect. Reading a form is one step: the constant operator `Read` says what
reading a term may leave of a heap. In the runs it is `Loader`'s `Load`; the proofs
hold for any reader. `ReadFails` is memory running out in it. Printing the result is
the conversion of a value to a term (`Datum`).

`SchemeHeap` says how long a list is by its tails: `Behind(h, v, n)` is what is left
of `v` behind `n` pairs, `Spans` that the first cdr that is no pair is behind
exactly `n`, which is the loop of `proper_list_length`. Operands in `argv` are used
up as a model's way to walk them; `argc` is the C variable, the number of slots and
the reason for a block.

### Reader, ReaderText and Grammar: the reader

`Reader` is `reader.c` with the loop of `microlisp_eval` that calls it, on a text
of tokens.

| Model | Code |
|---|---|
| `text`, `pos`, `depth` | `r->input`, `r->pos` (counted in tokens), `r->depth` |
| `stack` | the calls of `read_list`, `read_quote` and `read_string` in progress, with their locals `head`, `tail`, `elem` or `form`, and savepoints |
| `reg` | the call of `read_form` being made, or the status and value being returned |
| `protect`, `raw` | the protect stack, the scratch buffers of string literals not yet freed |
| `data`, `start`, `outcome` | the forms read, where the present one begins, how the reading ended |

Each way `read_form` can begin is an action, and so is each step of a list or a
quote between two calls or allocations. `Collect` and `OutOfMemory` are as in
`Eval`. Below the tokens the model keeps only which kind each one is: an atom,
a string, a malformed token, an integer out of range, a string cut off.
Meaning is given apart from the machine, by the module `Grammar`: `Forms(t, i,
levels)` is the set of all ways to read a form from token `i` on. `ReaderText`
states what the machine reads in those terms. The printer is held against the same
grammar.

### Tagged, Fixnum, Equality, Printer and Primitives: the primitives

`Primitives` makes the calls that the evaluator makes with evaluated operands.
Pair, list and predicate primitives are in `Eval`, where rooting matters; what
is here computes without allocating Scheme objects.

- `Tagged`: integers in words with a three-bit tag. `Pack` is `ml_make_fix`, a
  shift of an unsigned word; `Unpack` is `ml_fix_int`, a shift of a signed one.
  `FixMax` and `IntMax` stand for 2^59 - 1 and 2^63 - 1.
- `Fixnum`: one call of a numeric primitive, or one integer literal of the reader,
  an operand or a digit per step, on such words. `defined` becomes false at a plain
  C operation whose result is no `int64_t`; the operations made by the overflow
  builtins cannot do that. What the operations mean (`Meaning`, `Verdict`) is said
  on integers without bounds, division by the sign and size of its remainder and
  not by C's division.
- `Equality`: `eqv?` and `equal?` with the counter `s->equal_depth`.
- `Printer`: the walk of a value, for `display` and `write`, into a stream that
  stops accepting writes or a block that stops growing, after any number of them.
  `Tokens` lexes what was written back to the reader's tokens.

`Equality` and `Printer` change nothing but counters, sink and block, so they are
operators; `Primitives` composes two calls of them on one state, so that what the
first leaves behind meets the second.

### Lifecycle and CommandLine: the process

`Lifecycle` is every block that an interpreter state owns. Creation and evaluation
are lists of operations (`intern`, `object`, `protect`, `define`, `restore`, `print`)
which take, replace and give back blocks as the code of `symtab.c`, `gc.c`, `env.c`
and `state.c` does, any request failing. What an operation computes is left to the
other modules, which is why a collection is here only the freeing of what the
roots do not reach. The mark list doubles as often as marking may need (`GrowMarks`),
each time by a request that may fail, and a failure gives the collection up.
Places given back are handed out again first. A primitive's
installation and a form of a source are one entry of `todo` until they come first,
and then the operations they consist of (`Steps`, `Unfolded`).

`CommandLine` is who drives it: `main` with its arguments, script, expression or
REPL, or an embedder that evaluates, runs `microlisp_repl` on a log and evaluates
again. The loop of `main` over `argv` is a step per argument: `argument` is its
index `i`, `mode` what `eval_expr` and `script_path` say so far. A stream is whether bytes are `held` in its buffer, whether its device is
`broken`, and whether bytes were `lost`. A write to a broken device may still
succeed, as the buffer takes it; a flush of held bytes may not.

### Interner and Symtab: the symbol table

`Interner` is a function from names to symbols that only grows, with no more
symbols than the tag layout allows. `Symtab` has the array, its count and
capacity, and every way `ml_sym_intern` can end. A call that has to grow the array
is two steps, since the array stays grown when the name cannot be copied after it:
`grown` is the name such a call is about. `issued` remembers every symbol ever
returned, which is what the code's callers do.

### Scopes and Env: the environments

`Scopes` is nested scopes as functions from names to values. `Env` has each
frame's parallel arrays with their growth, and the calls of `env.c`. A definition
that makes the arrays grow is two steps: `env_grow` takes the new array of names
(`grows` is the definition it works for), and then either gives it back, the array
of values not being to be had, or replaces both and appends. (`Eval`
uses the same operations as operators on cells, `GcHeap` only their effect on
references, `Lifecycle` only the blocks of the top-level frame.)

## Runs

| Run | Question | Answer |
|---|---|---|
| `gc_pairs` | Do chains, cycles and sharing survive exactly when reachable, is the live count exact, is giving up clean, and is a collection atomic to its callers? | holds |
| `gc_frames` | The same for frames and closures held by the top-level environment alone, under `gc_stress`; does every allocator call return? | holds |
| `gc_threshold` | Is the threshold after a sweep what `gc.c:12-13` says? | no, see below |
| `eval_programs` | Over every special form, every primitive that is no number's and every kind of error, with collections at any allocation, and in five programs any request for memory failing: is every handle in use alive, is the protect stack exactly laid out, are results those of the language, do tail calls take no room, are slots, depth and argv blocks given back on every path, does every program end? | holds |
| `eval_frames` | Is a closure's frame alive when the second form of its body runs? | no, see below |
| `symtab` | Do names keep one symbol across growths and failures, without a leak? | holds |
| `reader_texts` | On every short text, with collections and failures anywhere: is what is read what the grammar says, do partial lists survive, does every error give everything back, is truncated told from malformed, does reading end? | holds |
| `reader_truncated` | Is a text that ends in mid-form always reported as truncated? | no, see below |
| `env` | Do nested frames with growing arrays mean what nested scopes mean? | holds |
| `primitives` | On every pair of operands of a small word, and triples at its ends: is arithmetic exact or refused, and never undefined? On small data, shared and nested beyond the limits, with any write or allocation failing: does `equal?` agree with the data, does what is written read back, is no depth, block or output left behind? | holds |
| `process` | For every command line of up to three arguments, scripts, expressions, REPLs and an embedder, any allocation, read or write failing: is every block freed exactly once, does the exit code tell the cause, does `display` follow the REPL's stream and come back? | holds |
| `lost_output` | Does exit code 0 of a REPL in a pipe mean that its output was delivered? | no, see below |

`eval_programs` leaves out one shape of program: a closure body of several forms of which one that is not the last tail-calls a closure
that allocates. `eval_frames` is that shape, and shows why.

The properties in words:

- `NoDangling`, `Rooted`: no handle that is still to be used names a freed
  object. In `GcHeap` for handles that follow the discipline, in `Eval` for the
  handles the C code really keeps in locals.
- `MarksClear`: a collection starts without marks, also after one that was
  given up.
- `WorklistBounded`: an object is pushed at most once in a cycle.
- `ProtectLayout`: the protect stack is at each moment the concatenation of
  what the invocations in progress are entitled to.
- `AsExpected`: every source returns the status and datum Scheme says, whatever
  the collections and the failures of earlier sources.
- `TailCallsTakeNoRoom`: `eval_depth` stays within what the program's non-tail
  calls need, and an invocation at the head of its loop has its two slots only.
- `ReadsAsWritten`: the text has exactly one reading, the reader finds it, and it
  returns OK exactly when nothing else is left in the text.
- `ErrorsTellApart`: READ_TRUNCATED is returned only for the beginning of a form,
  and READ_SYNTAX short of the end of the text only for what no continuation
  could repair.
- `DepthExact` (in `Reader` and in `Eval`), `ScratchExact`, `ArgvExact`: the depth
  and the raw blocks are those of the calls in progress. Slots and raw blocks are
  given back after errors too; the reader's depth is not, and need not be, since
  an error ends the reader.
- `ArithmeticExact`: a numeric primitive returns the number, or the error at the
  first operand at which the integers have one, and never a wrapped number; the
  literal of a number is that number or refused.
- `NeverUndefined`: no plain C operation on integers leaves `int64_t`, the
  quotient of the least fixnum by -1 among them.
- `EqualAgrees`: `equal?` answers as the data do, and gives up only on two values
  that both nest beyond its limit.
- `ReadsBack`: the text of `write` has one reading, the value printed, exactly if
  the value has a text of its own and nests within the reader's limit.
- `CallsLeaveNothing`: after any call, failed ones too, no depth is left counted
  and no block allocated, and output reported as made has left the buffer.
- `NothingLost`: every block in use has an owner that will give it back, and no
  block is given back twice, wherever creation, evaluation or reading a file fails.
- `ExitCodeTellsCause`: each exit code has only the causes `main.c:18-23` lists. A
  REPL's code 0 is left out of the demand on output, which `lost_output` refutes.
- `OutputFollows`: `s->output` is the REPL's stream during a REPL only, whichever
  way the REPL ends.
- `Unique`, `Stable`, `BindsOnce`, `BlocksExact`, `ArraysExact`: two-way
  agreement between names and symbols, one binding per name in a frame, and no
  raw block lost in a failed growth.

## Bounds

- `GcHeap`: three addresses. That is the least number for a cycle beside an
  unreachable object, sharing, and an address handed out again while another
  object is garbage. `WorklistInit` and `ProtectInit` are 1 so that both lists
  grow, and fail to grow, within three objects; the real 64 and 32 change only
  when that happens. `MaxProtect` and `MaxBindings` are 1; the proofs have no
  bound on any of them. `Kinds` is split over two runs, since a pair and a
  frame differ to the collector only in how many references they have.
- `Eval`: `HeapSize` 70 cells is more than any program of the runs fills, so
  that the model's memory never runs out by itself; `MaxEvalDepth` 5 is deeper
  than every program but `TooDeep`, which must reach it. The programs are
  finite: each special form in each of its outcomes is in one of them. What
  the runs show is for these programs only.
- `Reader`: all texts of up to six parentheses, quotes, dots and atoms, and all
  of up to four with literals and malformed tokens. Six tokens hold a list in a
  list with a dotted tail, or two forms of which the second is wrong.
  `MaxReadDepth` 2 is met and exceeded in them. Errors stop a call in progress
  at every place where six tokens can put it. `HeapSize` 14 is more than six
  tokens allocate, garbage included.
- `Symtab`: a first capacity of 1 gives two growths for four names, and
  `Ceiling` 2 makes the last name hit the ceiling of the tag layout.
- `Env`: two frames, three names, a first capacity of 1: two growths, a
  shadowed name, and a name bound in the outer frame only.
- `Fixnum`: `FixMax` 7 and `IntMax` 63, so that a word is a fixnum with three tag
  bits exactly as in the code. All pairs of fixnums and a non-number, triples of
  the numbers next to the ends and to zero, literals of up to three digits. The
  least fixnum times itself leaves the integer too, so that both of the code's
  overflow checks are needed; in the code most large products do.
- `Equality` and `Printer`: limits of 3 calls and a reader's limit of 2, with
  values one level below and beyond each. `MaxCalls` 2 lets one call meet what the
  other left. `FirstCap` 4 instead of 64 makes the block grow within small
  texts. The writes or allocations that succeed before one fails are 0 to 4, which
  ends inside nested lists, or none fails. `HeapSize` 12 holds the largest case.
- `Lifecycle`: two special forms and two primitives, with first capacities that
  these exceed (3 symbols, 1 root, 2 bindings, 2 marks), so that each list grows
  during creation or the first evaluation, and a `Threshold` of 2 objects, so that
  creation collects. `Floor`, the constant 4096 below which `gc.c:381` lets no later
  threshold fall, is a constant of its own, 2 here, so that later collections come
  in an evaluation. `MaxBlocks` 40 is never reached.
- `CommandLine`: all argument vectors of up to three of `--`, `-h`, `-e`, an unknown
  option, `-` and a name; sources of up to two forms, of which one may fail and one
  may print.

## Fairness

The program is one thread that computes until it returns. In `GcHeap` the
collector and the allocator call in progress go on (weak fairness of `Mark`, of
`Sweep` and of the allocation itself), while the interpreter need not make
another call. In `Eval`, `Evaluate` is weakly fair: every C function in it is
either computing or about to return. So is `Read` in `Reader`; `Terminates` then
rests on what ends the loops: within a form each step consumes the text, but a read
at its end consumes nothing and returns OK, so that the loop of `microlisp_eval` ends
only by telling the end-of-file value from a form (`state.c:261`). Nothing is assumed of collections or of
failures, which may happen or not.

## Proofs

`GcHeapProofs` holds, for any finite set of addresses, any kinds, thresholds
and capacities (`ConstantsAssumption`, `FiniteObjAssumption`):

- `TypeCorrect`, `NeverDangling`, `CyclesStartClean`, `LiveCountIsExact`,
  `WorklistIsBounded`: the invariants that `gc_pairs` checks;
- `CollectsAtomically`: `Spec => Abstract!Spec`, each step of `gc.c` is a step
  of the abstract heap or changes nothing the caller can see.

`NoDangling` is not inductive: that the sweep frees nothing reachable depends
on what the marking did. The inductive invariant `IInv` adds

- `Marking`: every object met is reachable, and each reference that leaves the
  finished (marked and popped) objects leads to a marked object or to a value
  still pending. When worklist and pending are empty, the marked set is then
  closed under references and contains the roots, so it is the reachable set;
- `Sweeping`: the objects the sweep will leave are the reachable ones, and
  removing an unreachable object changes no reachability;
- `MarksClear` and `RequestHeld`, which connect one cycle to the next: clean
  marks at the start, and operands that are still rooted at the end.

Reachability is defined by closed sets and not by recursion, so that the proofs
are about sets: the two lemmas used throughout are that the reachable set is
closed, and that it is contained in every closed set that contains the roots.

`SymtabProofs` holds, for any set of names, any first capacity and any ceiling:
`SymtabTypeCorrect`, `NamesAreUnique`, `SymbolsAreStable`, `NoBlockIsLeaked`,
and `TableInterns` (`Spec => Abstract!Spec`). `Unique` and `Stable` hold one
another up: a symbol given twice for one name is the same because the name has
one entry, and it has one entry because it is appended only when absent. That is
known from before the array grew: `GrownHasRoom` carries over the growth that the
name is still new, and that there is room for it.

`FixnumProofs` holds for every width of integer and fixnum that leaves room for
the tag (`FixnumAssumption`; the code's 64 and 60 bits are one), and for operand
words of any content:

- `PackLosesNothing`: tagging and untagging are inverse on every payload;
- `PlainOperationsAreDefined`: `[]NeverUndefined`. By itself `defined` says nothing
  of the next operation. The inductive invariant `Inv` adds `AccSmall`: the
  accumulator is at most one payload, (INT64_MAX + 1) / 8, away from zero, or in
  a literal not negative. An operand comes out of a word without its three tag
  bits, so it is that small even in a word that no primitive made; quotients and
  remainders are no larger than the dividend; sums and products are carried only
  after the narrower check;
- `ComparisonsAreExact`: `ComparisonInv` keeps that the operands already compared
  are numbers in order and that the accumulator is the last of them;
- `DivisionsAreExact`: the result of `quotient`, `remainder` and `modulo` satisfies
  the division equation with a remainder smaller than the divisor and of the
  right sign. `CDivision` derives this for C's truncating division, `Flooring` for
  the correction `modulo` makes;
- `ArithmeticIsExact`: `[]ArithmeticExact`, the whole of it. Sums, products and the
  value of a literal are recursive functions on the number of operands or digits
  already taken, unrolled once (`UnrollingExists` in `Lemmas`), so that a step of
  the code is a step of the meaning: `ArithmeticInv` and `LiteralInv` say that the
  accumulator is the meaning of what has been taken. The theorem assumes
  `FixnumOperands`: an operand tagged as a fixnum is one that fits. A word that no
  primitive made, such as 2^59 tagged, would be refused by `+` with one operand and
  not by the integers. `ResultsAreFixnums` shows that no numeric primitive and no
  literal makes such a word.

`ReaderProofs` holds for any texts, any limit of depth, any size of memory, and
collections and failures at every request (`ReaderAssumption`, `HeapAssumption`):
`ReaderTypeCorrect`, `ReaderRoots` (`Rooted`), `ReaderGivesSlotsBack`
(`ProtectLayout`), `ReaderDepthIsExact` and `ReaderFreesScratch`. `Rooted` is far
from inductive. `read_list` protects the dummy head of its list only, and goes on
to write through `tail`, which nothing protects; `IInv` says why that is safe:

- `Layout`: the slots of a call are its own, and those of the calls in progress
  are the whole stack, so that a call finds in its slots what it put there;
- `Held`: the head of a list in progress is in its slot, and its tail is a pair
  *reached* from that head whose cdr is still nil;
- `TailsDiffer`: no two lists in progress have one tail, or linking a cell to one
  would make the other's cdr something else than nil. A tail is either the cell just
  allocated, or reached by its own list alone;
- `NoDangling`: what a slot or a cell names is a cell in use, which a collection
  keeps since it keeps all that the slots reach.

The module also has what the proofs need of a collection: `ReachSearches` (the
recursive search ends, since each round adds an address: `SpreadingExists` and
`SpreadingIsLeast` in `Lemmas`), `ReachIsClosed`, `ReachIsLeast`, `ReachIsMonotonic`,
and `SweptKeeps`. It holds of any heap of `Heap`, whatever its cells.

`EnvProofs` holds for any names, values, first capacity and number of frames
(`EnvAssumption`), any growth failing: `EnvTypeCorrect`, `NamesAreDistinct`
(`BindsOnce`), `ArraysAreOwned` (`ArraysExact`) and `FramesAreScopes`
(`Spec => Abstract!Spec`). `GoodFrame` says that the names of a frame differ and
that the frame around it is an older one. The first makes the entry that the linear
search finds the only one, hence the scope of a frame a function, and a growth,
which copies the entries in use, changes nothing of it. `GoodGrowth` says that while
a frame grows its arrays are full and have no entry of the name to be appended. The second makes the search
outwards end: it is a recursive function, so `SearchExists` and `SearchIsUnique`
show, by the least frame for which it would not be so, that there is exactly one
function that searches that way, and `SameBinder` that frames and scopes have the
same one.

`EvalProofs` holds for any programs, any of them starved of memory, any limit of
depth and any reader (`EvalAssumption`, `HeapAssumption`): `EvalDepthIsExact`
(`DepthExact`), `EvalDepthIsBounded`, `EvalKeepsItsSlots` (`ProtectLayout`),
`EvalFreesArgv` (`ArgvExact`) and `TailCallsKeepTwoSlots`, the half of
`TailCallsTakeNoRoom` that is about the protect stack. `ProtectLayout` says how many
slots there are and not which of them a savepoint names, and a restore goes to a
savepoint. The inductive invariant `Inv` adds

- `Shape`: how many savepoints a frame has taken at each pc, and that each names
  the slot it should: the second is behind the form and the environment, the third
  behind the operator and the operands, the fourth behind the new frame. It also
  says that operands still missing mean a call still in `eval_arg_list`, and that
  only a call has operands;
- `Control`: every invocation but the top one is at a point where it waits for
  another, so that one that gets the status of another is at such a point too.

The 47 actions do one of four things to the stack, each with a lemma: an
invocation begins (`Begins`), returns (`Returns`), goes on with other locals
(`GoesOn`), or none is in progress (`Outermost`). A tail call goes on
(`Continues`), and so does each step of a procedure call (`CallStays`, `CallSaves`).
Nothing in this depends on what the heap holds: a frame that was freed too early
(below) spoils values, and never the accounts.

The second part of `EvalProofs` is about the heap, and about what the handlers
protect:

- `EvalProtectsWhatItHolds` (`Spec /\ []BodyFrameHeld => []Rooted`): whatever the
  program and wherever a collection comes, no form, environment, procedure or
  operand that an `ml_eval` in progress has yet to use is freed;
- `OneFormBodiesAreSafe` (`Spec /\ []OneForm => []Rooted`): so a program whose
  closures have bodies of one form is safe from the collector;
- `EvalTypeCorrect` (`Spec /\ []BodyFrameHeld => []TypeOK`): a pair keeps its two
  references, a closure its three, an environment one for each name and its parent.

The inductive invariant `Sound`, which rests on `Inv` of the first part for the
place of every slot, is

- `GoodHeap`: every reference of a cell in use leads to a cell in use; each cell has
  the references of its kind (`CellOK`), a pair ends in something that is no pair
  after some number of tails, the last reference of a closure and the first of an
  environment are environments, and no environment is outside itself (`Nested`), so
  that a lookup ends;
- `FrameOK`: for each local of each invocation, the slot that keeps it alive. `args`
  and `cur` are *under* the form or the closure: reached by pairs and closures
  alone, which no step of the evaluator changes (`HoldsCur`); operands and
  procedure have slots of their own (`HoldsCall`), and so has the inner frame, but
  for that of a closure whose body has several forms (`HoldsInner`). `Ready` is what
  a handler has checked and relies on later, such as the length of a list;
- `SoundReg`: the same of the value or the form that passes between two invocations.

`Under` is why a frame that has only its form protected may keep a cursor into the
middle of it, and `Keeps` what every step does to the cells it has no reason to
touch: kinds stay, and so does everything but the bindings of environments. Each
of the 47 actions is under a lemma (`SoundOperand`, `SoundClosure`, ...) that establishes
`FrameOK` of the one frame it changes; the frames below follow from `FramesKept`.

These three theorems have hypotheses, and these are all of them:

- `BodyFrameHeld`: at an allocation the environment of every sequence in progress is
  reachable from the protect stack or the global frame. `handle_let_family` protects
  it, and `begin` uses one that is protected; the body of a closure with several
  forms is the case in which the code does nothing for it. This is the finding of
  `eval_frames`, and the theorem says that it is the only hole: a program that keeps
  those frames reachable otherwise loses nothing. In `eval_programs` it holds, since
  a collection may come at each allocation there and would break `Rooted` if it did
  not. `OneForm` implies it (`OneFormHolds`) and can be seen in the program;
- `Readable(Terms)`: the reader, given a term, returns a value in a heap that is as
  good as the one it got and keeps the cells in use (`ReadKeeps`), and every program
  is one or more sources, sequences of such terms. `Load` of the runs does this; it
  is recursive over the term, so that is not proved. `ReaderProofs` proves of the
  reader itself that it keeps what the slots reach;
- `MemoryAssumption`: the memory is larger than the table of primitives. Creating a
  state takes that much, and fails otherwise.

`ProcessProofs` holds for any callers, with command lines and sources of any length,
any lists of special forms and primitives, any first capacities, threshold, floor
of later thresholds and size of memory (`LifecycleAssumption`, `CallersAssumption`: `main` passes the default
allocator; a source is a sequence of the four kinds of form), any request, read or
write failing:

- `AccountsKept`: the inductive invariant `Accounts`. `NothingLost` says that the
  blocks in use are the ones that have an owner, which no step can keep alone: a
  block with two owners is given back twice, and a variable overwritten loses its
  block. `Owning` adds that the objects, the names and the eight single variables
  (arrays, table, protect stack, mark list, state, result, text) hold no block in
  common, and that no frame but the top-level one has arrays. `Plans` says what is
  ahead in `todo`: creation makes the top-level frame before it binds a name, and no
  result is printed while one is held. The rest says at which stages a result, a
  text or a file can exist at all, so that at exit there is none;
- `NothingIsLost` (`NothingLost`) follows. The wrong turns it excludes are failures
  between two blocks: `env_grow`'s second array, a table that has grown for a name
  that cannot be copied, a mark list that has grown and cannot grow again, creation that ends anywhere
  and is undone by the same `microlisp_state_destroy` as a whole state;
- `OutputAlwaysFollows` (`OutputFollows`): `Streaming` ties `repl` to the stages
  between entering and leaving a REPL, and the configured stream to both;
- `ExitCodeAlwaysTellsCause` (`ExitCodeTellsCause`): `Cause` says what is known at
  each stage of `main`. While arguments are looked at, those before are pairs of
  `-e` and its operand (`ExpressionsBefore`), so that the first one that is not
  decides `WrongUsage` (`UsageIs`); while a source is evaluated, its status has a
  cause, and an error in it is still ahead in `todo` or has ended it (`Explained`);
  the output holds nothing unflushed between forms, so that nothing can be lost
  after the code was chosen (`Proper`, `Justified`).

What is ahead is data of unbounded length, so the proofs speak of it by properties
that the tail of a list inherits (`Listed`, `Anchored`, `Silent`, `Wrong`), and
`Unfolded` is the one place where a list gets longer.

`Lemmas` has the facts on numbers, sequences and counting that several of these
proofs cite.

Model-checked only:

- liveness (`AllocatorReturns`, `Terminates`): fairness and ENABLED are out of
  the prover's reach;
- `AsExpected`, and the depth that `TailCallsTakeNoRoom` allows: they are said of
  each program. `Rooted` and the part of `TypeOK` that is about cells are not true of
  every program, as `eval_frames` shows (a binding made in a frame that has been freed
  is made in whatever took its place), so they are proved under `BodyFrameHeld`;
- `ReadsAsWritten` and `ErrorsTellApart`, `EqualAgrees`, `ReadsBack` and
  `CallsLeaveNothing`: what they compare the program with is recursive over data.

## Where the code and its documents differ

- **A closure's frame can be freed while its body runs** (`eval_frames`).
  `gc.c:18` says that every handle kept across an allocation must be protected.
  `eval.c:860` keeps the new frame in a C local and passes it to `begin_tco`,
  which evaluates the leading forms of the body; nothing protects it. A leading
  form holds it only as its own `env` slot, and a tail call overwrites that
  slot. With `(define (g) (cons 1 2) (cons 3 4)) (define (f x) (g) x) (f 1)`, a
  collection during `(g)` frees the frame of `f`, and `x` is then looked up in
  it. (Bodies of `let` do not have this: `handle_let_family` protects the
  frame.)
- **The threshold forgets its initial value** (`gc_threshold`). `gc.c:12-13`
  says that it becomes `max(live * 2, initial)`; `gc.c:381` uses the constant
  4096 and not the option the embedder gave.
- **A text that ends inside a dotted pair is called malformed**
  (`reader_truncated`). `microlisp.h:85-86` says that READ_TRUNCATED means the end
  of the input in mid-form. After a dot, `read_list` takes the end-of-text value
  of `read_form` for the tail (`reader.c:346-353`), finds no `)`, and returns
  READ_SYNTAX. `(a . b` at the end of the text does this, while `(a b` is
  truncated. A caller that reads lines and asks for more on READ_TRUNCATED
  refuses the first.

- **A REPL's output can be lost with exit code 0** (`lost_output`). `main.c:21` says
  that exit code 2 is an I/O error, of writing to stdout too. `microlisp_repl`
  writes results without flushing (`state.c:376`), and a REPL in a pipe has no
  prompt whose flush would notice; `main` returns 0 and what is buffered is lost
  at exit. `eval_source` flushes for this very reason (`main.c:163-166`).

Smaller differences, without a run of their own:

- `equal?` counts a level for every pair of a flat list, since the cdr is a
  recursive call too (`value.c:65-74`), so that two alike lists of more than 1024
  elements are refused. `microlisp.h:138-142` speaks of the car axis.
- `printer.c:10-11` says that what `write` prints can be read again. The symbol `.`
  inside a list, values without a syntax, and lists nested beyond the reader's
  256 but within the printer's 1024 levels cannot. `ReadsBack` states the exact
  condition.
- `main.c:11-12` says that a script's last result is printed; only `-e` prints one.
- `microlisp -- FILE` ignores the file and starts a REPL; `-e EXPR FILE` ignores
  the file.
- An error of `fgets` is taken for the end of the input, with exit code 0.
- `microlisp_internal.h:274` says that a collection is due when live exceeds the
  threshold; `gc.c:54-58` collects when it is reached.

Two details of the reader are worth knowing. A quote is not a level of nesting,
so that the depth limit does not bound the recursion over a row of quotes. And
a dot that is the last byte of the text begins a symbol, so that `(a .` is
truncated, and malformed when a blank follows.

## What is not modelled

- Characters: how `reader.c` forms tokens other than integers out of bytes,
  escapes included, and the line and column of an error. The reader is `partly`
  modelled for this reason. The printer's escapes are modelled, byte class by
  byte class, since `ReadsBack` depends on them.
- The wording of messages, and what `error` copies into one; what goes to stderr.
- Lines of more than 4095 bytes, which the REPL splits (`state.c`), and lines of
  more than one form.
- The printed form of closures, environments and `MV_EOF`, which are fixed texts.
- The file system and raw memory below the embedder's allocator.
- In `Eval`: strings and numbers beyond constants, the numeric primitives (which
  are in `Fixnum` and never allocate), the capacities of frames (any binding may
  fail when memory may).
- `microlisp_set_*` and the getters, which assign or return one field; the status
  strings and the version, which are constant tables; tests, examples, fuzzers and
  build files, which are not part of the interpreter.

## Plan

Done: the collector, the symbol table, environments, arithmetic, the rooting of the
reader, the accounts and the rooting of the evaluator, the blocks of a state and the
process, each with proofs; what the evaluator computes, what the reader reads,
printer and equality, model-checked. To come, in order of importance:

1. `Printer` and `Equality`: that one call gives back the depth and the block it
   took. They are recursive operators now; as machines with a stack of calls, like
   `Reader`, their accounts could be proved.
2. `Eval` with the reader of `Reader` in the place of the operator `Read`, so that
   `Readable` is a theorem of the composition.
3. The fix of `eval_frames`, a slot for the frame in `eval_body`: with it
   `BodyFrameHeld` should hold of every program, and `Rooted` without a hypothesis.
