---------------------------- MODULE CommandLine ----------------------------
(***************************************************************************)
(* The process around one interpreter state: main of src/src/main.c, and   *)
(* an embedder that runs microlisp_repl (src/src/state.c:328-396) on a     *)
(* stream of its own and evaluates sources before and after.               *)
(*                                                                         *)
(* A source is a sequence of forms.  Output streams are buffered; the      *)
(* device behind one may break at any time, after which no byte reaches it.*)
(***************************************************************************)
EXTENDS Lifecycle, SequencesExt

CONSTANT
    Callers   \* who runs, each [who, args, table, source, prompts, breaks]: args of
              \* main alone, the allocator's table, what the standard input, the file
              \* or EXPR holds, whether a REPL prompts (main: the standard input is a
              \* terminal), the output streams whose device may break

ASSUME CallersAssumption ==
    \A c \in Callers :
        /\ c.source \in Seq({"value", "define", "show", "wrong"})
        /\ c.who = "main" => c.table = "whole" /\ c.args \in Seq(STRING)

VARIABLES
    caller,    \* of Callers
    stage,     \* where the process is
    argument,  \* the argument main looks at
    mode,      \* what main decided to run
    line,      \* lines the REPL has read
    repl,      \* the REPL in progress: its out_file and whether it prompts
    output,    \* s->output
    streams,   \* for each stream: unflushed bytes, broken, and whether bytes were lost
    unread,    \* whether a read of the input failed
    file,      \* the FILE opened by fopen, "open" or "none"
    text,      \* the block that slurp filled
    code       \* the exit code, -1 until there is one

processVars == <<caller, stage, argument, mode, line, repl, output, streams, unread, file, text, code>>
vars == <<stateVars, processVars>>

Streams == {"stdout", "log"}
NoRepl == [out |-> "none", prompts |-> FALSE]
Intact == [held |-> FALSE, broken |-> FALSE, lost |-> FALSE]

Main == caller.who = "main"
Source == caller.source

Init ==
    /\ StateInit
    /\ caller \in Callers
    /\ stage = IF caller.who = "main" THEN "arguments" ELSE "create"
    /\ argument = 1 /\ mode = "none" /\ line = 0 /\ repl = NoRepl
    /\ output = "none"
    /\ streams = [f \in Streams |-> Intact]
    /\ unread = FALSE /\ file = "none" /\ text = Null /\ code = -1

-----------------------------------------------------------------------------
(***************************************************************************)
(* Output.                                                                 *)
(***************************************************************************)
\* What a write to a stream, and a flush, may do: they succeed or they do not.
Writes(s) ==
    {[ok |-> TRUE, stream |-> [s EXCEPT !.held = TRUE]]}
    \cup (IF s.broken THEN {[ok |-> FALSE, stream |-> [s EXCEPT !.held = FALSE, !.lost = TRUE]]} ELSE {})
Flushed(s) ==
    IF s.broken /\ s.held
    THEN [ok |-> FALSE, stream |-> [s EXCEPT !.held = FALSE, !.lost = TRUE]]
    ELSE [ok |-> TRUE, stream |-> [s EXCEPT !.held = FALSE]]
WritesFlushed(s) == {IF w.ok THEN Flushed(w.stream) ELSE w : w \in Writes(s)}

\* Before the first write it makes no difference when.
Breaks(f) ==
    /\ stage \notin {"arguments", "create", "creating", "exit"}
    /\ f \in caller.breaks /\ ~streams[f].broken
    /\ streams' = [streams EXCEPT ![f].broken = TRUE]
    /\ UNCHANGED <<stateVars, caller, stage, argument, mode, line, repl, output, unread, file, text, code>>

\* One write or flush of the process itself.
Output(f, outcomes(_), then(_)) ==
    \E w \in outcomes(streams[f]) :
        /\ streams' = [streams EXCEPT ![f] = w.stream]
        /\ then(w.ok)

-----------------------------------------------------------------------------
(***************************************************************************)
(* main, up to the interpreter state.                                      *)
(***************************************************************************)
Args == caller.args
Argument(a) == stage = "arguments" /\ argument <= Len(Args) /\ Args[argument] = a
ArgumentsFixed == UNCHANGED <<stateVars, caller, line, repl, output, streams, unread, file, text>>

RejectArguments ==
    /\ code' = 2 /\ stage' = "exit"
    /\ UNCHANGED <<argument, mode>> /\ ArgumentsFixed

\* What is left to the right of the i-th argument decides; -e goes before all.
Decide(i, run) ==
    IF i < Len(Args) THEN RejectArguments
    ELSE /\ mode' = (IF mode = "expr" THEN "expr" ELSE run)
         /\ stage' = "create"
         /\ UNCHANGED <<argument, code>> /\ ArgumentsFixed

Help ==
    /\ Argument("-h")
    /\ stage' = "usage" /\ mode' = "usage" /\ code' = 0
    /\ UNCHANGED argument /\ ArgumentsFixed

Expression ==
    /\ Argument("-e") /\ argument < Len(Args)
    /\ mode' = "expr" /\ argument' = argument + 2
    /\ UNCHANGED <<stage, code>> /\ ArgumentsFixed

Unknown == Argument("-x") \/ (Argument("-e") /\ argument = Len(Args))

Arguments ==
    \/ stage = "arguments" /\ argument > Len(Args) /\ Decide(argument, "repl")
    \/ Argument("--") /\ Decide(argument + 1, "repl")
    \/ Help
    \/ Expression
    \/ Unknown /\ RejectArguments
    \/ Argument("-") /\ Decide(argument, "stdin")
    \/ \E path \in ToSet(Args) \ {"--", "-h", "-e", "-x", "-"} :
           Argument(path) /\ Decide(argument, "script")

\* print_usage: the status of the write is not looked at.
Usage ==
    /\ stage = "usage"
    /\ Output("stdout", Writes, LAMBDA ok : stage' = "exit")
    /\ UNCHANGED <<stateVars, caller, argument, mode, line, repl, output, unread, file, text, code>>

CreateState ==
    /\ stage = "create"
    /\ Create(caller.table)
    /\ stage' = IF status' = "OK" THEN "creating" ELSE "exit"
    /\ code' = IF status' = "OK" \/ ~Main THEN code ELSE 1
    /\ output' = IF status' = "OK" THEN "stdout" ELSE output
    /\ UNCHANGED <<caller, argument, mode, line, repl, streams, unread, file, text>>

\* Fault: what was built stays when the building fails.
CreatedKeepsParts ==
    /\ stage = "creating" /\ todo = <<>>
    /\ IF status = "OK" THEN stage' = "ready" /\ UNCHANGED <<stateVars, code>>
       ELSE stage' = "exit" /\ ml' = NoState /\ code' = (IF Main THEN 1 ELSE code)
            /\ UNCHANGED <<mem, made, todo, status, result>>
    /\ UNCHANGED <<caller, argument, mode, line, repl, output, streams, unread, file, text>>

Created ==
    /\ stage = "creating" /\ todo = <<>>
    /\ IF status = "OK" THEN stage' = "ready" /\ UNCHANGED <<stateVars, code>>
       ELSE stage' = "exit" /\ Destroy /\ code' = (IF Main THEN 1 ELSE code)
    /\ UNCHANGED <<caller, argument, mode, line, repl, output, streams, unread, file, text>>

-----------------------------------------------------------------------------
(***************************************************************************)
(* Evaluation.                                                             *)
(***************************************************************************)
\* Every form is evaluated; the last one's value is printed.
Program(forms) ==
    [i \in 1 .. Len(forms) |-> Op("form", forms[i])]
    \o (IF forms # <<>> /\ Last(forms) = "value" THEN <<Plain("protect"), Plain("print"), Plain("restore")>>
        ELSE <<>>)

Evaluate(forms, next) ==
    /\ todo' = Unfolded(Program(forms)) /\ status' = "OK" /\ result' = Null
    /\ stage' = next
    /\ UNCHANGED <<mem, ml, made>>

\* An operation that does not touch the streams.
Compute == Operate /\ UNCHANGED processVars

\* display writes and flushes; its result is not printed.
Show ==
    /\ Doing("show")
    /\ Output(output, WritesFlushed, LAMBDA ok : IF ok THEN Done /\ UNCHANGED <<mem, ml, made>> ELSE Fail("IO", mem))
    /\ UNCHANGED <<caller, stage, argument, mode, line, repl, output, unread, file, text, code>>

ExitCodeFor(st) == CASE st = "OK" -> 0 [] st = "IO" -> 2 [] OTHER -> 1

-----------------------------------------------------------------------------
(***************************************************************************)
(* main, with the state.                                                   *)
(***************************************************************************)
Exits(c) == code' = c /\ stage' = "destroy"

RunExpression ==
    /\ stage = "ready" /\ mode = "expr"
    /\ Evaluate(Source, "source")
    /\ UNCHANGED <<caller, argument, mode, line, repl, output, streams, unread, file, text, code>>

Open ==
    /\ stage = "ready" /\ mode \in {"script", "stdin"}
    /\ \/ stage' = "slurp" /\ file' = (IF mode = "script" THEN "open" ELSE "none") /\ UNCHANGED <<code, unread>>
       \/ mode = "script" /\ Exits(2) /\ unread' = TRUE /\ UNCHANGED file
    /\ UNCHANGED <<stateVars, caller, argument, mode, line, repl, output, streams, text>>

\* slurp frees its buffer when a read, or the next buffer, fails; the file is
\* closed whatever the outcome.
Slurp ==
    /\ stage = "slurp"
    /\ file' = "none"
    /\ \E g \in Got(mem) :
       \/ /\ g.block # Null
          /\ mem' = g.mem /\ text' = g.block /\ stage' = "slurped" /\ UNCHANGED <<code, unread>>
       \/ /\ g.block = Null
          /\ mem' = g.mem /\ Exits(2) /\ UNCHANGED <<unread, text>>
       \/ /\ g.block # Null
          /\ mem' = Dropped(g.mem, <<g.block>>) /\ unread' = TRUE /\ Exits(2) /\ UNCHANGED text
    /\ UNCHANGED <<ml, made, todo, status, result, caller, argument, mode, line, repl, output, streams>>

RunScript ==
    /\ stage = "slurped"
    /\ Evaluate(Source, "source")
    /\ UNCHANGED <<caller, argument, mode, line, repl, output, streams, unread, file, text, code>>

\* Fault: the output is not flushed.
SourceUnflushed ==
    /\ stage = "source" /\ todo = <<>>
    /\ IF status # "OK" THEN Exits(ExitCodeFor(status)) /\ UNCHANGED streams
       ELSE IF mode # "expr" \/ result = Null THEN Exits(0) /\ UNCHANGED streams
       ELSE Output("stdout", Writes, LAMBDA ok : Exits(IF ok THEN 0 ELSE 2))
    /\ mem' = Dropped(mem, <<result, text>>)
    /\ result' = Null /\ text' = Null
    /\ UNCHANGED <<ml, made, todo, status, caller, argument, mode, line, repl, output, unread, file>>

\* eval_source: only -e prints the result; whoever called it frees the text.
SourceEvaluated ==
    /\ stage = "source" /\ todo = <<>>
    /\ IF status # "OK" THEN Exits(ExitCodeFor(status)) /\ UNCHANGED streams
       ELSE IF mode # "expr" \/ result = Null THEN Exits(0) /\ UNCHANGED streams
       ELSE Output("stdout", WritesFlushed, LAMBDA ok : Exits(IF ok THEN 0 ELSE 2))
    /\ mem' = Dropped(mem, <<result, text>>)
    /\ result' = Null /\ text' = Null
    /\ UNCHANGED <<ml, made, todo, status, caller, argument, mode, line, repl, output, unread, file>>

DestroyState ==
    /\ stage = "destroy"
    /\ Destroy
    /\ stage' = "exit"
    /\ UNCHANGED <<caller, argument, mode, line, repl, output, streams, unread, file, text, code>>

-----------------------------------------------------------------------------
(***************************************************************************)
(* microlisp_repl.                                                         *)
(***************************************************************************)
InRepl == repl # NoRepl

EnterRepl(out) ==
    /\ repl' = [out |-> out, prompts |-> caller.prompts]
    /\ output' = out
    /\ stage' = "prompt"
    /\ UNCHANGED <<stateVars, caller, argument, line, streams, unread, file, text, code>>

RunRepl == Main /\ stage = "ready" /\ mode = "repl" /\ EnterRepl("stdout") /\ UNCHANGED mode

\* The stream that was configured before comes back; main exits with the
\* status's code, an embedder goes on.
LeaveRepl(ok) ==
    /\ repl' = NoRepl
    /\ output' = "stdout"
    /\ IF Main THEN Exits(IF ok THEN 0 ELSE 2) ELSE stage' = "ready" /\ UNCHANGED code

Stay(next) == stage' = next /\ UNCHANGED <<repl, output, code>>

Prompt ==
    /\ stage = "prompt"
    /\ IF repl.prompts
       THEN Output(repl.out, WritesFlushed, LAMBDA ok : IF ok THEN Stay("gets") ELSE LeaveRepl(FALSE))
       ELSE Stay("gets") /\ UNCHANGED streams
    /\ UNCHANGED <<stateVars, caller, argument, mode, line, unread, file, text>>

\* An error of the input is taken for its end.
EndOfInput ==
    /\ stage = "gets"
    /\ \/ line = Len(Source) /\ UNCHANGED unread
       \/ line < Len(Source) /\ unread' = TRUE
    /\ IF repl.prompts THEN Output(repl.out, Writes, LeaveRepl)
       ELSE LeaveRepl(TRUE) /\ UNCHANGED streams
    /\ UNCHANGED <<stateVars, caller, argument, mode, line, file, text>>

ReadLine ==
    /\ stage = "gets" /\ line < Len(Source)
    /\ line' = line + 1
    /\ Evaluate(<<Source[line + 1]>>, "line")
    /\ UNCHANGED <<caller, argument, mode, repl, output, streams, unread, file, text, code>>

\* Fault: the configured stream does not come back when a result cannot be written.
LineKeepsOutput ==
    /\ stage = "line" /\ todo = <<>>
    /\ IF status = "OK" /\ result = Null THEN Stay("prompt") /\ UNCHANGED streams
       ELSE Output(repl.out, Writes, LAMBDA ok :
                IF ok THEN Stay("prompt")
                ELSE repl' = NoRepl /\ UNCHANGED output
                     /\ IF Main THEN Exits(2) ELSE stage' = "ready" /\ UNCHANGED code)
    /\ mem' = Dropped(mem, <<result>>) /\ result' = Null
    /\ UNCHANGED <<ml, made, todo, status, caller, argument, mode, line, unread, file, text>>

\* The result, or the message of an error, is written, and not flushed.
LineEvaluated ==
    /\ stage = "line" /\ todo = <<>>
    /\ IF status = "OK" /\ result = Null THEN Stay("prompt") /\ UNCHANGED streams
       ELSE Output(repl.out, Writes, LAMBDA ok : IF ok THEN Stay("prompt") ELSE LeaveRepl(FALSE))
    /\ mem' = Dropped(mem, <<result>>) /\ result' = Null
    /\ UNCHANGED <<ml, made, todo, status, caller, argument, mode, line, unread, file, text>>

-----------------------------------------------------------------------------
(***************************************************************************)
(* An embedder: a source, a REPL on its log, a source again.               *)
(***************************************************************************)
EmbedderEvaluates ==
    /\ ~Main /\ stage = "ready" /\ mode \in {"none", "repl"}
    /\ Evaluate(Source, "call")
    /\ mode' = IF mode = "none" THEN "before" ELSE "after"
    /\ UNCHANGED <<caller, argument, line, repl, output, streams, unread, file, text, code>>

EmbedderEvaluated ==
    /\ stage = "call" /\ todo = <<>>
    /\ mem' = Dropped(mem, <<result>>) /\ result' = Null
    /\ stage' = "ready"
    /\ UNCHANGED <<ml, made, todo, status, caller, argument, mode, line, repl, output, streams,
                   unread, file, text, code>>

EmbedderRepl ==
    /\ ~Main /\ stage = "ready" /\ mode = "before"
    /\ mode' = "repl"
    /\ EnterRepl("log")

EmbedderEnds ==
    /\ ~Main /\ stage = "ready" /\ mode = "after"
    /\ stage' = "destroy"
    /\ UNCHANGED <<stateVars, caller, argument, mode, line, repl, output, streams, unread, file, text, code>>

-----------------------------------------------------------------------------
\* At exit the C library writes what is still buffered, and says nothing.
ExitFlush ==
    /\ stage = "exit" /\ \E f \in Streams : streams[f].held
    /\ streams' = [f \in Streams |-> Flushed(streams[f]).stream]
    /\ UNCHANGED <<stateVars, caller, stage, argument, mode, line, repl, output, unread, file, text, code>>

Ended == stage = "exit" /\ (\A f \in Streams : ~streams[f].held) /\ UNCHANGED vars

Next ==
    \/ \E f \in Streams : Breaks(f)
    \/ Arguments \/ Usage \/ CreateState \/ Created \/ Compute \/ Show
    \/ RunExpression \/ Open \/ Slurp \/ RunScript \/ SourceEvaluated \/ DestroyState
    \/ RunRepl \/ Prompt \/ EndOfInput \/ ReadLine \/ LineEvaluated
    \/ EmbedderEvaluates \/ EmbedderEvaluated \/ EmbedderRepl \/ EmbedderEnds
    \/ ExitFlush \/ Ended

Spec == Init /\ [][Next]_vars

-----------------------------------------------------------------------------
(***************************************************************************)
(* Properties.                                                             *)
(***************************************************************************)
Owned ==
    ml.objects \cup {ml.names[i].block : i \in DOMAIN ml.names} \cup ToSet(ml.arrays)
    \cup {ml.entries, ml.protect, ml.marklist, ml.self, result, text}
Over == stage = "exit" /\ \A f \in Streams : ~streams[f].held

\* Every block in use has an owner that will give it back, and none is given
\* back twice: wherever creation fails, whatever an evaluation, a result that
\* cannot be written or a script that cannot be read left behind, nothing stays
\* (state.c:169-211, env.c:33-41, main.c:78-103, 193-203).
NothingLost ==
    /\ mem.live = Owned \ {Null}
    /\ ~mem.wild
    /\ stage = "exit" => mem.live = {} /\ file = "none"

\* The command line is wrong: after options and their operands it has an unknown
\* option, -e without its operand, or more than one argument.
WrongUsage ==
    \E k \in 0 .. Len(Args) :
        /\ \A j \in 0 .. k - 1 : 2 * j + 2 <= Len(Args) /\ Args[2 * j + 1] = "-e"
        /\ 2 * k < Len(Args)
        /\ LET a == Args[2 * k + 1]
               behind == Len(Args) - 2 * k - 1
           IN  CASE a = "-e" -> behind = 0
                 [] a = "-x" -> TRUE
                 [] a = "-h" -> FALSE
                 [] a = "--" -> behind > 1
                 [] OTHER -> behind > 0

\* The exit code of a run without a REPL is the cause of its end: 0 says that
\* every form of an input read to its end was evaluated and all output reached
\* the device, 1 that a form or memory failed, 2 that the command line was wrong
\* or an input or the output failed (main.c:18-23).
ExitCodeTellsCause ==
    Over /\ Main =>
        /\ code = 0 /\ mode \in {"expr", "script", "stdin"} =>
              "wrong" \notin ToSet(Source) /\ ~unread /\ ~streams["stdout"].lost
        /\ code = 0 => ~WrongUsage
        /\ code = 1 => mem.denied \/ ("wrong" \in ToSet(Source) /\ mode \in {"expr", "script", "stdin"})
        /\ code = 2 => WrongUsage \/ unread \/ streams["stdout"].broken \/ (mode \in {"script", "stdin"} /\ mem.denied)
        /\ code \in {0, 1, 2}

\* display writes to the stream of the REPL while there is one, and to the one
\* it found on every way out of it (state.c:339-344, 393-395).
OutputFollows ==
    ml.self # Null /\ stage # "creating" => output = IF InRepl THEN repl.out ELSE "stdout"

\* main.c:18-23 and README.md:40-41: exit code 0 is success, an I/O error in
\* writing to stdout is exit code 2.
ExitZeroMeansDelivered ==
    Over /\ Main /\ code = 0 => ~streams["stdout"].lost
=============================================================================
