-------------------------------- MODULE Reader --------------------------------
(***************************************************************************)
(* The recursive-descent reader of src/src/reader.c, called by             *)
(* microlisp_eval for one form after the other until the text ends.        *)
(*                                                                         *)
(* The text is a sequence of tokens; white space and comments between them *)
(* are left out.  A token is                                               *)
(*   "("  ")"  "'"                                                         *)
(*   "."    a dot that a terminator byte follows; any other dot begins an  *)
(*          atom, as does one that is the last byte of the text            *)
(*   "a"    an atom: symbol, fixnum in range, #t or #f                     *)
(*   "s"    a string literal                                               *)
(*   "cut"  a string literal that the text ends in                         *)
(*   "bad"  a malformed token: unknown #, unknown or short escape, 12x     *)
(*   "big"  an integer literal beyond the fixnum range                     *)
(*                                                                         *)
(* Each call of read_list, read_quote or read_string in progress is a      *)
(* frame on `stack`.  Its pc is                                            *)
(*   head, cell           read_list about to allocate                      *)
(*   items                the head of its loop                             *)
(*   elem, tail           read_form for an element, for a dotted tail      *)
(*   quoted               read_form for what follows a quote               *)
(*   inner, outer         read_quote about to allocate                     *)
(*   string               read_string about to allocate                    *)
(***************************************************************************)
EXTENDS Heap

CONSTANTS
    Texts,        \* the texts to read
    MaxReadDepth, \* s->max_read_depth
    MayFail       \* whether the embedder's allocator may return NULL

ASSUME ReaderAssumption ==
    /\ Texts \subseteq Seq({"(", ")", "'", ".", "a", "s", "cut", "bad", "big"})
    /\ \A t \in Texts : \A i \in DOMAIN t : t[i] = "cut" => i = Len(t)
    /\ MaxReadDepth \in Nat \ {0}
    /\ MayFail \in BOOLEAN

Eof == <<"IMM", "eof">>

VARIABLES
    text,    \* r->input
    pos,     \* r->pos, in tokens
    depth,   \* r->depth
    stack,   \* the calls in progress, outermost first
    reg,     \* the call of read_form being made, or what is being returned
    heap,
    protect, \* s->gc_protect[0 .. gc_protect_count - 1]
    raw,     \* scratch buffers of string literals not yet freed
    data,    \* the forms read so far, as terms
    start,   \* where the form being read begins
    outcome  \* how the reading ended, "" until then

readerVars == <<text, data, start, outcome>>
vars == <<text, pos, depth, stack, reg, heap, protect, raw, data, start, outcome>>

Register(mode, status, value) == [mode |-> mode, status |-> status, value |-> value]
Running == Register("run", "OK", Nil)
Calling == Register("call", "OK", Nil)

Init ==
    /\ text \in Texts
    /\ pos = 1
    /\ depth = 0
    /\ stack = <<>>
    /\ reg = Register("idle", "OK", Nil)
    /\ heap = [a \in Addr |-> Free]
    /\ protect = <<>>
    /\ raw = 0
    /\ data = <<>>
    /\ start = 1
    /\ outcome = ""

-----------------------------------------------------------------------------
\* The next token, and the token after it.
Peek == IF pos <= Len(text) THEN text[pos] ELSE "end"
PeekNext == IF pos < Len(text) THEN text[pos + 1] ELSE "end"

Top == Last(stack)
Run(pc) == reg.mode = "run" /\ Top.pc = pc
Returned(pc) == reg.mode = "return" /\ reg.status = "OK" /\ stack # <<>> /\ Top.pc = pc

Frame(pc) == [pc |-> pc, sp |-> Len(protect), head |-> Nil, tail |-> Nil, item |-> Nil]
Push(frame) == stack' = Append(stack, frame)
SetTop(frame) == stack' = [stack EXCEPT ![Len(stack)] = frame]

\* Return from the call in control, which restores the protect stack.
Return(status, value) ==
    /\ stack' = Front(stack)
    /\ protect' = SubSeq(protect, 1, Top.sp)
    /\ reg' = Register("return", status, value)

Fail(status) == Return(status, Nil)

\* read_form returns without a call of its own.
Answer(status, value) ==
    /\ reg' = Register("return", status, value)
    /\ UNCHANGED <<stack, protect>>

Advance == pos' = pos + 1

-----------------------------------------------------------------------------
(***************************************************************************)
(* microlisp_eval: read until the end of the text or an error.             *)
(***************************************************************************)
ReadNext ==
    /\ reg.mode = "idle" /\ outcome = ""
    /\ reg' = Calling
    /\ start' = pos
    /\ UNCHANGED <<text, pos, depth, stack, heap, protect, raw, data, outcome>>

\* Fault: the loop takes the end of the text for one more form and reads on.
FormReadGoesOn ==
    /\ reg.mode = "return" /\ stack = <<>>
    /\ outcome' = IF reg.status = "OK" THEN "" ELSE reg.status
    /\ data' = IF reg.status = "OK" /\ reg.value # Eof
               THEN Append(data, Datum(heap, reg.value)) ELSE data
    /\ reg' = Register("idle", "OK", Nil)
    /\ UNCHANGED <<text, pos, depth, stack, heap, protect, raw, start>>

FormRead ==
    /\ reg.mode = "return" /\ stack = <<>>
    /\ IF reg.status = "OK" /\ reg.value # Eof
       THEN data' = Append(data, Datum(heap, reg.value)) /\ UNCHANGED outcome
       ELSE outcome' = reg.status /\ UNCHANGED data
    /\ reg' = Register("idle", "OK", Nil)
    /\ UNCHANGED <<text, pos, depth, stack, heap, protect, raw, start>>

Done == outcome # ""

-----------------------------------------------------------------------------
(***************************************************************************)
(* read_form.                                                              *)
(***************************************************************************)
ReadForm(tokens) == reg.mode = "call" /\ Peek \in tokens

\* The end of the text, an atom, or an error that needs no call.
EndOfText ==
    /\ ReadForm({"end"})
    /\ Answer("OK", Eof)
    /\ UNCHANGED <<pos, depth, heap, raw, readerVars>>

\* A dot is the beginning of a symbol wherever it is not an item of a list.
Atom ==
    /\ ReadForm({"a", "."})
    /\ Advance
    /\ Answer("OK", Sym(Peek))
    /\ UNCHANGED <<depth, heap, raw, readerVars>>

Malformed ==
    /\ ReadForm({"bad", "big", ")"})
    /\ IF Peek = ")" THEN UNCHANGED pos ELSE Advance
    /\ Answer(IF Peek = "big" THEN "OVERFLOW" ELSE "READ_SYNTAX", Nil)
    /\ UNCHANGED <<depth, heap, raw, readerVars>>

\* The scratch buffer of an unterminated literal is freed.
CutString ==
    /\ ReadForm({"cut"})
    /\ Advance
    /\ Answer("READ_TRUNCATED", Nil)
    /\ UNCHANGED <<depth, heap, raw, readerVars>>

StringLiteral ==
    /\ ReadForm({"s"})
    /\ Advance
    /\ Push(Frame("string"))
    /\ raw' = raw + 1
    /\ reg' = Running
    /\ UNCHANGED <<depth, heap, protect, readerVars>>

QuoteMark ==
    /\ ReadForm({"'"})
    /\ Advance
    /\ Push(Frame("quoted"))
    /\ reg' = Calling
    /\ UNCHANGED <<depth, heap, protect, raw, readerVars>>

\* Fault: the limit lets one level too many in.
OpenOneDeeper ==
    /\ ReadForm({"("})
    /\ IF depth > MaxReadDepth
       THEN Advance /\ Answer("READ_DEPTH", Nil) /\ UNCHANGED depth
       ELSE IF PeekNext = ")"
       THEN pos' = pos + 2 /\ Answer("OK", Nil) /\ UNCHANGED depth
       ELSE /\ Advance
            /\ depth' = depth + 1
            /\ Push(Frame("head"))
            /\ reg' = Running
            /\ UNCHANGED protect
    /\ UNCHANGED <<heap, raw, readerVars>>

\* Fault: the empty list returns without leaving its level.
OpenKeepsDepth ==
    /\ ReadForm({"("})
    /\ IF depth >= MaxReadDepth
       THEN Advance /\ Answer("READ_DEPTH", Nil) /\ UNCHANGED depth
       ELSE /\ depth' = depth + 1
            /\ IF PeekNext = ")"
               THEN pos' = pos + 2 /\ Answer("OK", Nil)
               ELSE /\ Advance
                    /\ Push(Frame("head"))
                    /\ reg' = Running
                    /\ UNCHANGED protect
    /\ UNCHANGED <<heap, raw, readerVars>>

\* read_list: the depth limit, the empty list, or a list with a dummy head.
Open ==
    /\ ReadForm({"("})
    /\ IF depth >= MaxReadDepth
       THEN Advance /\ Answer("READ_DEPTH", Nil) /\ UNCHANGED depth
       ELSE IF PeekNext = ")"
       THEN pos' = pos + 2 /\ Answer("OK", Nil) /\ UNCHANGED depth
       ELSE /\ Advance
            /\ depth' = depth + 1
            /\ Push(Frame("head"))
            /\ reg' = Running
            /\ UNCHANGED protect
    /\ UNCHANGED <<heap, raw, readerVars>>

-----------------------------------------------------------------------------
(***************************************************************************)
(* read_list.                                                              *)
(***************************************************************************)
Pair(car, cdr) == Put(heap, Cell("PAIR", <<car, cdr>>, <<>>))
LinkTail(h, value) == [h EXCEPT ![Top.tail[2]].refs[2] = value]

\* Fault: the dummy head is not protected.
HeadUnprotected ==
    /\ Run("head")
    /\ Room(heap)
    /\ heap' = Pair(Nil, Nil)
    /\ SetTop([Top EXCEPT !.pc = "items", !.head = Ref(NextFree(heap)), !.tail = Ref(NextFree(heap))])
    /\ UNCHANGED <<pos, depth, reg, protect, raw, readerVars>>

DummyHead ==
    /\ Run("head")
    /\ Room(heap)
    /\ LET head == Ref(NextFree(heap)) IN
       /\ heap' = Pair(Nil, Nil)
       /\ protect' = Append(protect, head)
       /\ SetTop([Top EXCEPT !.pc = "items", !.head = head, !.tail = head])
    /\ UNCHANGED <<pos, depth, reg, raw, readerVars>>

\* The closing parenthesis: the list is what the dummy head's cdr holds.
Close(h) ==
    /\ Advance
    /\ Return("OK", Cdr(h, Top.head))
    /\ depth' = depth - 1

EndInList ==
    /\ Run("items") /\ Peek = "end"
    /\ Fail("READ_TRUNCATED")
    /\ UNCHANGED <<pos, depth, heap, raw, readerVars>>

EndOfList ==
    /\ Run("items") /\ Peek = ")"
    /\ Close(heap)
    /\ UNCHANGED <<heap, raw, readerVars>>

DotItem ==
    /\ Run("items") /\ Peek = "."
    /\ Advance
    /\ IF Top.tail = Top.head
       THEN Fail("READ_SYNTAX")
       ELSE SetTop([Top EXCEPT !.pc = "tail"]) /\ reg' = Calling /\ UNCHANGED protect
    /\ UNCHANGED <<depth, heap, raw, readerVars>>

Item ==
    /\ Run("items") /\ Peek \notin {"end", ")", "."}
    /\ SetTop([Top EXCEPT !.pc = "elem"])
    /\ reg' = Calling
    /\ UNCHANGED <<pos, depth, heap, protect, raw, readerVars>>

ProtectElement ==
    /\ Returned("elem")
    /\ protect' = Append(protect, reg.value)
    /\ SetTop([Top EXCEPT !.pc = "cell", !.item = reg.value])
    /\ reg' = Running
    /\ UNCHANGED <<pos, depth, heap, raw, readerVars>>

\* Fault: the tail pointer does not move on.
CellKeepsTail ==
    /\ Run("cell")
    /\ Room(heap)
    /\ heap' = LinkTail(Pair(Top.item, Nil), Ref(NextFree(heap)))
    /\ protect' = Front(protect)
    /\ SetTop([Top EXCEPT !.pc = "items", !.item = Nil])
    /\ UNCHANGED <<pos, depth, reg, raw, readerVars>>

\* The element's cell is allocated, the element unprotected, the cell linked.
ConsElement ==
    /\ Run("cell")
    /\ Room(heap)
    /\ LET cell == Ref(NextFree(heap)) IN
       /\ heap' = LinkTail(Pair(Top.item, Nil), cell)
       /\ protect' = Front(protect)
       /\ SetTop([Top EXCEPT !.pc = "items", !.tail = cell, !.item = Nil])
    /\ UNCHANGED <<pos, depth, reg, raw, readerVars>>

\* Fault: whatever follows a dotted tail, more text is asked for.
TailTruncated ==
    /\ Returned("tail")
    /\ heap' = LinkTail(heap, reg.value)
    /\ IF Peek = ")"
       THEN Close(heap')
       ELSE Fail("READ_TRUNCATED") /\ UNCHANGED <<pos, depth>>
    /\ UNCHANGED <<raw, readerVars>>

\* The tail is stored, the end-of-text value too, and then `)` must follow.
DottedTail ==
    /\ Returned("tail")
    /\ heap' = LinkTail(heap, reg.value)
    /\ IF Peek = ")"
       THEN Close(heap')
       ELSE Fail("READ_SYNTAX") /\ UNCHANGED <<pos, depth>>
    /\ UNCHANGED <<raw, readerVars>>

-----------------------------------------------------------------------------
(***************************************************************************)
(* read_quote and read_string.                                             *)
(***************************************************************************)
Quoted ==
    /\ Returned("quoted")
    /\ IF reg.value = Eof
       THEN Fail("READ_TRUNCATED")
       ELSE /\ protect' = Append(protect, reg.value)
            /\ SetTop([Top EXCEPT !.pc = "inner", !.item = reg.value])
            /\ reg' = Running
    /\ UNCHANGED <<pos, depth, heap, raw, readerVars>>

\* The form is unprotected once the inner pair holds it and is protected.
InnerPair ==
    /\ Run("inner")
    /\ Room(heap)
    /\ LET inner == Ref(NextFree(heap)) IN
       /\ heap' = Pair(Top.item, Nil)
       /\ protect' = Append(Front(protect), inner)
       /\ SetTop([Top EXCEPT !.pc = "outer", !.item = inner])
    /\ UNCHANGED <<pos, depth, reg, raw, readerVars>>

OuterPair ==
    /\ Run("outer")
    /\ Room(heap)
    /\ heap' = Pair(QuoteSymbol, Top.item)
    /\ Return("OK", Ref(NextFree(heap)))
    /\ UNCHANGED <<pos, depth, raw, readerVars>>

MakeString ==
    /\ Run("string")
    /\ Room(heap)
    /\ heap' = Put(heap, Cell("STRING", <<>>, <<"s">>))
    /\ raw' = raw - 1
    /\ Return("OK", Ref(NextFree(heap)))
    /\ UNCHANGED <<pos, depth, readerVars>>

-----------------------------------------------------------------------------
(***************************************************************************)
(* Errors, collection, and failure of the embedder's allocator.            *)
(***************************************************************************)
\* Fault: read_list returns an element's error without ml_gc_restore.
PropagateKeepsSlots ==
    /\ reg.mode = "return" /\ reg.status # "OK" /\ stack # <<>>
    /\ stack' = Front(stack)
    /\ UNCHANGED <<pos, depth, reg, heap, protect, raw, readerVars>>

Propagate ==
    /\ reg.mode = "return" /\ reg.status # "OK" /\ stack # <<>>
    /\ Fail(reg.status)
    /\ UNCHANGED <<pos, depth, heap, raw, readerVars>>

Allocating == {"head", "cell", "inner", "outer", "string"}

Collect ==
    /\ reg.mode = "run" /\ Top.pc \in Allocating
    /\ heap' = Swept(heap, Range(protect))
    /\ UNCHANGED <<pos, depth, stack, reg, protect, raw, readerVars>>

\* Fault: the scratch buffer is not freed when the string is not to be had.
FailureLeaks ==
    /\ MayFail
    /\ \/ reg.mode = "run" /\ Top.pc \in Allocating
       \/ Returned("elem")
       \/ Returned("quoted") /\ reg.value # Eof
    /\ Fail("NOMEM")
    /\ UNCHANGED <<pos, depth, heap, raw, readerVars>>

\* An object, or a slot of the protect stack, is not to be had.
OutOfMemory ==
    /\ MayFail
    /\ \/ reg.mode = "run" /\ Top.pc \in Allocating
       \/ Returned("elem")
       \/ Returned("quoted") /\ reg.value # Eof
    /\ Fail("NOMEM")
    /\ raw' = IF Top.pc = "string" THEN raw - 1 ELSE raw
    /\ UNCHANGED <<pos, depth, heap, readerVars>>

\* A symbol cannot be interned, or a scratch buffer not obtained or not grown.
TokenFails ==
    /\ MayFail
    /\ ReadForm({"a", ".", "s", "cut", "bad"})
    /\ Advance
    /\ Answer("NOMEM", Nil)
    /\ UNCHANGED <<depth, heap, raw, readerVars>>

Read ==
    \/ ReadNext \/ FormRead
    \/ EndOfText \/ Atom \/ Malformed \/ CutString \/ StringLiteral \/ QuoteMark \/ Open
    \/ DummyHead \/ EndInList \/ EndOfList \/ DotItem \/ Item \/ ProtectElement
    \/ ConsElement \/ DottedTail
    \/ Quoted \/ InnerPair \/ OuterPair \/ MakeString \/ Propagate

Next == Read \/ Collect \/ OutOfMemory \/ TokenFails

Spec == Init /\ [][Next]_vars

\* The one thread keeps executing.
FairSpec == Spec /\ WF_vars(Read)

-----------------------------------------------------------------------------
(***************************************************************************)
(* Properties.                                                             *)
(***************************************************************************)
ListPcs == {"head", "items", "elem", "cell", "tail"}

\* Every variable has the type its comment gives it.
TypeOK ==
    /\ pos \in 1 .. Len(text) + 1
    /\ start \in 1 .. pos
    /\ depth \in 0 .. MaxReadDepth
    /\ reg.mode \in {"idle", "call", "run", "return"}
    /\ {reg.status, outcome} \subseteq {"", "OK", "NOMEM", "OVERFLOW", "READ_SYNTAX",
                                       "READ_TRUNCATED", "READ_DEPTH"}
    /\ \A i \in DOMAIN stack : stack[i].pc \in ListPcs \cup {"quoted", "inner", "outer", "string"}
    /\ \A a \in Addr : heap[a].kind \in {"FREE", "PAIR", "STRING"}
    /\ raw \in Nat

Alive(v) == IsObj(v) => heap[v[2]].kind # "FREE"

\* Whenever a collection happens, the partial lists, their tails, the element
\* or form between two allocations and the value being returned survive it
\* (reader.c:11-15).
Rooted ==
    /\ \A i \in DOMAIN stack : \A v \in {stack[i].head, stack[i].tail, stack[i].item} : Alive(v)
    /\ \A i \in DOMAIN protect : Alive(protect[i])
    /\ Alive(reg.value)

Slots(frame) ==
    CASE frame.pc \in {"items", "elem", "tail", "inner", "outer"} -> 1
      [] frame.pc = "cell" -> 2
      [] OTHER -> 0

\* The protect stack is the slots of the calls in progress and nothing else,
\* also after any error: ml_read gives back every slot it took.
ProtectLayout ==
    \A i \in 0 .. Len(stack) :
        (IF i = 0 THEN 0 ELSE stack[i].sp + Slots(stack[i]))
            = IF i = Len(stack) THEN Len(protect) ELSE stack[i + 1].sp

\* The depth counts the lists being read, so that it is back to 0 between two
\* forms of one text and the limit does not tighten as the text goes on.
DepthExact ==
    reg.status = "OK" /\ ~Done => depth = Cardinality({i \in DOMAIN stack : stack[i].pc \in ListPcs})

\* One scratch buffer per string literal being made, none after any error.
ScratchExact == raw = Cardinality({i \in DOMAIN stack : stack[i].pc = "string"})

\* microlisp_eval comes to an end on every text. A read at the end of the text
\* consumes nothing and succeeds, with the end-of-file value: the loop over the
\* forms ends only because it tells that value from a form.
Terminates == <>Done
=============================================================================
