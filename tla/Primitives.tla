----------------------------- MODULE Primitives -----------------------------
(***************************************************************************)
(* Calls of the primitives that the evaluator makes with operands already  *)
(* evaluated, and of ml_print_to_alloc at the end of microlisp_eval.       *)
(*                                                                         *)
(* The numeric ones keep nothing in the state: a behaviour is one call of  *)
(* one of them, a machine of module Fixnum, or a sequence of calls of      *)
(* equal?, display, write, newline and ml_print_to_alloc on two values,    *)
(* between which s->equal_depth, s->print_depth, the output stream and the *)
(* allocator keep their state.                                             *)
(***************************************************************************)
EXTENDS Equality, Loader, Printer, Fixnum

CONSTANTS
    Cases,    \* pairs of values to call on, each [left, right, shared]
    MaxCalls, \* calls of a sequence
    MaxReadDepth

VARIABLES
    heap,
    x, y,        \* the operands
    equal_depth, \* s->equal_depth
    print_depth, \* s->print_depth
    held,        \* units in the output stream's buffer
    blocks,      \* blocks of ml_print_to_alloc not yet freed
    made,        \* calls made so far
    answer       \* of the last call: its primitive, status, and result or text

walks == <<heap, x, y, equal_depth, print_depth, held, blocks, made, answer>>
vars == <<numbers, walks>>

Answer(op, outcome, of) == [op |-> op, status |-> outcome, of |-> of]

\* The first cell is a primitive.  The two values are loaded apart, or put in
\* front of one value that both share.
Before == [a \in Addr |-> IF a = 1 THEN Cell("PRIM", <<>>, <<"car">>) ELSE Free]
Values(c) ==
    UNION {UNION {{[heap |-> r.heap, x |-> l.value, y |-> r.value] :
                    r \in Load(l.heap, IF c.shared = Undef THEN c.right
                                       ELSE <<"LIST", <<c.right>>, s.value>>)} :
                l \in Load(s.heap, IF c.shared = Undef THEN c.left
                                   ELSE <<"LIST", <<c.left>>, s.value>>)} :
            s \in Load(Before, c.shared)}

\* A behaviour without numbers.
NoNumbers ==
    /\ call = [op |-> "none", args |-> <<>>]
    /\ next = 1 /\ acc = 0 /\ status = "idle" /\ value = 0 /\ defined = TRUE

Init ==
    /\ equal_depth = 0 /\ print_depth = 0
    /\ held = <<>> /\ blocks = 0
    /\ answer = Answer("none", "OK", <<>>)
    /\ \/ NumberInit /\ made = MaxCalls /\ heap = Before /\ x = Nil /\ y = Nil
       \/ /\ NoNumbers /\ made = 0
          /\ \E c \in Cases : \E v \in Values(c) : heap = v.heap /\ x = v.x /\ y = v.y

-----------------------------------------------------------------------------
\* The embedder frees a result before it goes on.
Unfreed == answer.op = "result" /\ answer.status = "OK"

Calling ==
    /\ made < MaxCalls /\ ~Unfreed
    /\ made' = made + 1
    /\ UNCHANGED <<numbers, heap, x, y>>

PrimEqual ==
    /\ Calling
    /\ LET e == Equal(heap, x, y, equal_depth) IN
       /\ equal_depth' = e.depth
       /\ answer' = Answer("equal?", e.status, <<e.equal>>)
    /\ UNCHANGED <<print_depth, held, blocks>>

\* How many writes the stream accepts, or allocations succeed, before one fails:
\* few enough to end inside nested lists, or more than any value here takes.
Enough == 1000
Limits == 0 .. 4 \cup {Enough}

\* state_output_flush: what is buffered reaches the device, or the call fails.
FlushOutput(op, text) ==
    \/ answer' = Answer(op, "OK", text) /\ held' = <<>>
    \/ answer' = Answer(op, "IO", <<>>) /\ held' \in {<<>>, held \o text}

\* prim_display and prim_write.
PrintPrimitive(op) ==
    /\ Calling
    /\ \E left \in Limits :
       LET p == PrintValue(heap, x, op = "write", Printing("stream", print_depth, left)) IN
       /\ left < Enough => p.status = "IO"
       /\ print_depth' = p.depth
       /\ IF p.status = "OK" THEN FlushOutput(op, p.text)
          ELSE answer' = Answer(op, p.status, <<>>) /\ held' \in {<<>>, held \o p.text}
    /\ UNCHANGED <<equal_depth, blocks>>

PrimDisplay == PrintPrimitive("display")
PrimWrite == PrintPrimitive("write")

PrimNewline ==
    /\ Calling
    /\ \/ FlushOutput("newline", <<Text("newline")>>)
       \/ answer' = Answer("newline", "IO", <<>>) /\ UNCHANGED held
    /\ UNCHANGED <<equal_depth, print_depth, blocks>>

\* The result of a source is written to a block of its own, for the embedder.
PrintResult ==
    /\ Calling
    /\ \E left \in Limits :
       LET p == PrintToAlloc(heap, x, TRUE, print_depth, left) IN
       /\ left < Enough => p.status = "NOMEM"
       /\ print_depth' = p.depth
       /\ blocks' = blocks + p.raw
       /\ answer' = [op |-> "result", status |-> p.status, of |-> p.text,
                     len |-> p.len, cap |-> p.cap]
    /\ UNCHANGED <<equal_depth, held>>

\* microlisp_buffer_free, on the block just handed out.
BufferFree ==
    /\ Unfreed
    /\ blocks' = blocks - 1
    /\ answer' = Answer("freed", "OK", <<>>)
    /\ UNCHANGED <<numbers, heap, x, y, equal_depth, print_depth, held, made>>

Walk == PrimEqual \/ PrimDisplay \/ PrimWrite \/ PrimNewline \/ PrintResult \/ BufferFree
Number == NumberNext /\ UNCHANGED walks

Next == Walk \/ Number

Spec == Init /\ [][Next]_vars

-----------------------------------------------------------------------------
(***************************************************************************)
(* Properties.                                                             *)
(***************************************************************************)
Left == Datum(heap, x)
Right == Datum(heap, y)
Apart == Reach(heap, Addresses({x})) \cap Reach(heap, Addresses({y})) \subseteq {1}

\* How many calls of equal? nest below a value, were all its parts compared.
RECURSIVE Height(_)
Height(v) ==
    IF ~IsPair(heap, v) THEN 1 ELSE 1 + Max({Height(Car(heap, v)), Height(Cdr(heap, v))})

\* equal? says whether two values print alike, procedures being only like
\* themselves; it gives up only on two values that both nest beyond the limit,
\* cdrs counted like cars, and never gets to the end of two alike that do and
\* share nothing (value.c:35-74).
EqualAgrees ==
    answer.op = "equal?" =>
        IF answer.status = "OK"
        THEN /\ answer.of[1] = (Left = Right)
             /\ answer.of[1] /\ Apart => Height(x) <= MaxEqualDepth
        ELSE answer.status = "EQUAL_DEPTH" /\ Height(x) > MaxEqualDepth /\ Height(y) > MaxEqualDepth

\* What write prints, the reader reads as the value printed, but for a value
\* that has no text of its own or nests beyond the reader's limit; a value that
\* nests beyond the printer's is refused, whatever its length (printer.c:10-11,
\* 164-168).
ReadsBack ==
    answer.op \in {"write", "result"} =>
        CASE answer.status = "OK" ->
                LET tokens == Tokens(answer.of)
                IN  /\ Levels(Left) <= MaxPrintDepth
                    /\ (Forms(tokens, 1, MaxReadDepth) = {<<Len(tokens) + 1, Left>>})
                            = (HasText(Left) /\ Nesting(Left) <= MaxReadDepth)
          [] answer.status = "PRINT_DEPTH" -> Levels(Left) > MaxPrintDepth
          [] OTHER -> answer.status = IF answer.op = "write" THEN "IO" ELSE "NOMEM"

\* A call gives back every level it took, error or not, so that no later call
\* is refused for it; it hands out a block with room for the text and the
\* terminator when it succeeds and none when it fails; and output that a
\* primitive reports as made is no longer in the stream's buffer
\* (value.c:51-65, printer.c:173-176, 287-309, primitives.c:403-409).
CallsLeaveNothing ==
    /\ equal_depth = 0 /\ print_depth = 0
    /\ Unfreed => answer.len + 1 <= answer.cap
    /\ blocks = (IF Unfreed THEN 1 ELSE 0)
    /\ answer.op \in {"display", "write", "newline"} /\ answer.status = "OK" => held = <<>>
=============================================================================
