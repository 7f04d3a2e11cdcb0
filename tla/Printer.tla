------------------------------ MODULE Printer ------------------------------
(***************************************************************************)
(* The printer of src/src/printer.c: display and write style, its depth    *)
(* limit, and the two sinks it writes to.                                  *)
(*                                                                         *)
(* Printing calls nothing that could change the heap, so it is an operator *)
(* on a printing in progress, a record of                                  *)
(*   status     so far: every error returns at once                        *)
(*   depth      s->print_depth                                             *)
(*   text       what has been written, as a sequence of units              *)
(*   sink       "stream" for state_output_sink, "buffer" for print_buf_sink *)
(*   left       fwrites, or allocations, that will still succeed           *)
(*   len, cap   of the buffer; cap = 0 when there is no block yet          *)
(*   raw        blocks obtained and not freed                              *)
(* A unit is what one emit writes: punctuation, the text of an atom, or    *)
(* inside a string literal a run of plain bytes or one escape.             *)
(***************************************************************************)
EXTENDS Grammar

CONSTANTS
    MaxPrintDepth, \* s->max_print_depth
    FirstCap       \* the capacity of the first block, 64 in the code

ASSUME PrinterAssumption ==
    MaxPrintDepth \in Nat \ {0} /\ FirstCap \in Nat \ {0}

\* The bytes of each string of the model: "x" is one that is written as it is.
Bytes ==
    [s |-> <<>>,
     t |-> <<"quote", "x", "x", "newline", "backslash", "control", "x">>]

Text(name) == [kind |-> "text", of |-> <<name>>]
RunOf(bytes) == [kind |-> "run", of |-> bytes]
Escape(byte) == [kind |-> "escape", of |-> <<byte>>]
Mark == Text("mark")

\* The number of bytes of a unit: \" and \n are two, \xHH is four.
Width(unit) ==
    CASE unit.kind = "run" -> Len(unit.of)
      [] unit.kind = "escape" -> IF unit.of[1] = "control" THEN 4 ELSE 2
      [] unit \in {Text("#t"), Text("#f"), Text("()")} -> 2
      [] unit = Text(" . ") -> 3
      [] unit = Text("quote") -> 5
      [] unit = Text("#<undefined>") -> 12
      [] unit = Text("#<procedure:car>") -> 16
      [] OTHER -> 1

-----------------------------------------------------------------------------
(***************************************************************************)
(* The sinks.                                                              *)
(***************************************************************************)
Printing(sink, depth, left) ==
    [status |-> "OK", depth |-> depth, text |-> <<>>, sink |-> sink, left |-> left,
     len |-> 0, cap |-> 0, raw |-> 0]

Stop(p, status) == [p EXCEPT !.status = status]

\* The first doubling of the capacity that has room for `need` bytes.
RECURSIVE Doubled(_, _)
Doubled(cap, need) == IF cap >= need THEN cap ELSE Doubled(2 * cap, need)

Written(p, unit) == [p EXCEPT !.text = Append(@, unit), !.len = @ + Width(unit)]

\* print_buf_sink: room for the bytes and the terminator, or a larger block
\* with a copy, after which the old one is freed.
Buffer(p, unit) ==
    LET need == p.len + Width(unit) + 1
    IN  IF need <= p.cap THEN Written(p, unit)
        ELSE IF p.left = 0 THEN Stop(p, "NOMEM")
        ELSE Written([p EXCEPT !.left = @ - 1, !.raw = 1,
                               !.cap = Doubled(IF @ = 0 THEN FirstCap ELSE @, need)], unit)

\* state_output_sink.
Stream(p, unit) ==
    IF p.left = 0 THEN Stop(p, "IO") ELSE Written([p EXCEPT !.left = @ - 1], unit)

Emit(p, unit) ==
    IF p.status # "OK" \/ Width(unit) = 0 THEN p
    ELSE IF p.sink = "buffer" THEN Buffer(p, unit)
    ELSE Stream(p, unit)

-----------------------------------------------------------------------------
(***************************************************************************)
(* The walk.                                                               *)
(***************************************************************************)

\* The `run` plain bytes before position i, if any.
Flush(p, bytes, i, run) ==
    IF run = 0 THEN p ELSE Emit(p, RunOf(SubSeq(bytes, i - run, i - 1)))

RECURSIVE Scan(_, _, _, _)

\* Fault: the run is not begun anew after an escape.
ScanKeepsRun(p, bytes, i, run) ==
    IF i > Len(bytes) THEN Flush(p, bytes, i, run)
    ELSE IF bytes[i] = "x" THEN Scan(p, bytes, i + 1, run + 1)
    ELSE Scan(Emit(Flush(p, bytes, i, run), Escape(bytes[i])), bytes, i + 1, run)

\* The loop of emit_string_quoted: a contiguous safe run, then the escape.
Scan(p, bytes, i, run) ==
    IF i > Len(bytes) THEN Flush(p, bytes, i, run)
    ELSE IF bytes[i] = "x" THEN Scan(p, bytes, i + 1, run + 1)
    ELSE Scan(Emit(Flush(p, bytes, i, run), Escape(bytes[i])), bytes, i + 1, 0)

StringText(p, bytes, write) ==
    IF write THEN Emit(Scan(Emit(p, Mark), bytes, 1, 0), Mark)
    ELSE Emit(p, RunOf(bytes))

AtomText(h, v) ==
    CASE v = Nil -> "()"
      [] v = Undef -> "#<undefined>"
      [] IsA(h, v, "PRIM") -> "#<procedure:car>"
      [] v[1] = "FIX" -> ToString(v[2])
      [] OTHER -> v[2]

RECURSIVE PrintValue(_, _, _, _), PrintChain(_, _, _, _)

\* print_pair_contents: the elements in a loop, then an improper tail.
PrintChain(h, v, write, p) ==
    LET car == PrintValue(h, Car(h, v), write, p)
        rest == Cdr(h, v)
    IN  IF IsPair(h, rest) THEN PrintChain(h, rest, write, Emit(car, Text(" ")))
        ELSE IF rest = Nil THEN car
        ELSE PrintValue(h, rest, write, Emit(car, Text(" . ")))

PrintInner(h, v, write, p) ==
    IF IsPair(h, v) THEN Emit(PrintChain(h, v, write, Emit(p, Text("("))), Text(")"))
    ELSE IF IsA(h, v, "STRING") THEN StringText(p, Bytes[h[v[2]].names[1]], write)
    ELSE Emit(p, Text(AtomText(h, v)))

\* Fault: an error returns past the decrement.
PrintValueKeepsDepth(h, v, write, p) ==
    IF p.status # "OK" THEN p
    ELSE IF p.depth >= MaxPrintDepth THEN Stop(p, "PRINT_DEPTH")
    ELSE LET q == PrintInner(h, v, write, [p EXCEPT !.depth = @ + 1])
         IN  IF q.status = "OK" THEN [q EXCEPT !.depth = @ - 1] ELSE q

\* print_value: the limit is checked on every call, and the level given back
\* whatever the outcome.
PrintValue(h, v, write, p) ==
    IF p.status # "OK" THEN p
    ELSE IF p.depth >= MaxPrintDepth THEN Stop(p, "PRINT_DEPTH")
    ELSE LET q == PrintInner(h, v, write, [p EXCEPT !.depth = @ + 1])
         IN  [q EXCEPT !.depth = @ - 1]

\* ml_print_to_alloc: on an error the block is freed.
PrintToAlloc(h, v, write, depth, left) ==
    LET p == PrintValue(h, v, write, Printing("buffer", depth, left))
    IN  IF p.status # "OK" THEN [p EXCEPT !.raw = 0, !.text = <<>>]
        ELSE IF p.cap > 0 THEN p
        ELSE IF p.left = 0 THEN Stop(p, "NOMEM")
        ELSE [p EXCEPT !.cap = 1, !.raw = 1]

-----------------------------------------------------------------------------
(***************************************************************************)
(* What a written text is to the reader.                                   *)
(***************************************************************************)
StringNamed(bytes) ==
    IF \E n \in Strings : Bytes[n] = bytes
    THEN CHOOSE n \in Strings : Bytes[n] = bytes ELSE "bad"

\* One more unit after the tokens so far; `atom`: nothing ended the last one.
LexUnit(lex, unit) ==
    IF lex.open /\ unit = Mark
    THEN [lex EXCEPT !.open = FALSE, !.bytes = <<>>,
                     !.tokens = Append(@, StringNamed(lex.bytes))]
    ELSE IF lex.open THEN [lex EXCEPT !.bytes = @ \o unit.of]
    ELSE IF unit = Mark THEN [lex EXCEPT !.open = TRUE, !.atom = FALSE]
    ELSE LET name == unit.of[1]
             tokens == CASE name = " " -> <<>>
                         [] name = " . " -> <<".">>
                         [] name = "()" -> <<"(", ")">>
                         [] lex.atom /\ name \notin {"(", ")"} -> <<"bad">>
                         [] OTHER -> <<name>>
         IN  [lex EXCEPT !.tokens = @ \o tokens,
                         !.atom = name \notin {" ", " . ", "(", ")", "()"}]

Tokens(text) ==
    FoldLeft(LexUnit, [tokens |-> <<>>, open |-> FALSE, bytes |-> <<>>, atom |-> FALSE], text).tokens

\* How many calls of print_value nest for a datum.
RECURSIVE Levels(_)
Levels(d) ==
    IF d[1] # "LIST" THEN 1
    ELSE 1 + Max({Levels(d[2][i]) : i \in DOMAIN d[2]}
                 \cup (IF d[3] = Nil THEN {0} ELSE {Levels(d[3])}))

\* How many lists of a datum's text nest.
RECURSIVE Nesting(_)
Nesting(d) ==
    IF d[1] # "LIST" THEN (IF d = Nil THEN 1 ELSE 0)
    ELSE 1 + Max({Nesting(d[2][i]) : i \in DOMAIN d[2]}
                 \cup (IF d[3] = Nil THEN {0} ELSE {Nesting(d[3])}))

\* A datum has a text of its own: no part without one, and no symbol that its
\* place in a list would make the dot of a dotted pair.
RECURSIVE HasText(_)
HasText(d) ==
    IF d[1] # "LIST" THEN d # Undef /\ ~IsObj(d)
    ELSE /\ \A i \in DOMAIN d[2] : d[2][i] # Sym(".") /\ HasText(d[2][i])
         /\ HasText(d[3])
=============================================================================
