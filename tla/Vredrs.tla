-------------------------------- MODULE Vredrs --------------------------------
(***************************************************************************)
(* `vredrs run` on one file: the front end, the bytecode compiler and the  *)
(* interpreter, one after the other (run_bytecode_vm, and                  *)
(* run_bytecode_vm_source for a source text, in src/lib.rs).               *)
(* The compiler is Bytecode, the interpreter Interp; an action here is an  *)
(* instruction of the program, of run() or of a loop nested in it.         *)
(***************************************************************************)
EXTENDS Front

CONSTANTS
    Analyzed(_),    \* whether the analyzer lets declarations pass
    Library(_),     \* the declarations of core.veds that a program reaches
    Compiled(_),    \* the unit the compiler makes of declarations
    Started(_, _),  \* the interpreter before the first instruction
    Stepped(_, _),  \* the interpreter after one instruction
    WithCall(_),    \* the unit with the call of main behind it
    CallingMain(_, _)    \* the interpreter before that call

VARIABLES
    unit,       \* the compiled program
    machine     \* the interpreter
run == <<unit, machine>>
allVars == <<vars, unit, machine>>

X == INSTANCE Interp

RunInit == Init /\ unit = <<>> /\ machine = <<>>

Reading == (Edit \/ Keep \/ Scan \/ Finish \/ Parse) /\ UNCHANGED run

(***************************************************************************)
(* A file is analyzed and run with the library behind it; a source text is *)
(* run without either, and without a call of main.  Of the files only      *)
(* those are run that nobody has edited.  The tokens are dropped, the      *)
(* program moves into the interpreter.                                     *)
(***************************************************************************)

Compile ==
    /\ phase = "parsed" /\ ended /\ ~edited
    /\ \E job \in Sources[source].jobs :
         /\ job.file => Analyzed(tree)
         /\ LET u == Compiled(tree \o (IF job.file THEN Library(tree) ELSE <<>>))
            IN /\ unit' = [u EXCEPT !.main = @ /\ job.file]
               /\ machine' = IF u.failed THEN <<>> ELSE Started(u, job.turn)
               /\ phase' = IF u.failed THEN "refused" ELSE "running"
    /\ lexer' = NewLexer /\ tree' = <<>>
    /\ UNCHANGED <<source, lines, ended, edited>>
Refuse ==
    /\ phase = "parsed" /\ ended /\ ~edited /\ ~Analyzed(tree)
    /\ \E job \in Sources[source].jobs : job.file
    /\ phase' = "refused" /\ lexer' = NewLexer /\ tree' = <<>>
    /\ UNCHANGED <<source, lines, ended, edited, unit, machine>>

Running == phase = "running" /\ machine.status = "running"
Execute(ops) ==
    /\ Running /\ machine.pc <= Len(unit.code) /\ unit.code[machine.pc].op \in ops
    /\ machine' = Stepped(unit, machine)
    /\ UNCHANGED <<vars, unit>>
PushConstant == Execute(X!ConstantOps)
MoveOnStack == Execute(X!StackOps)
UseVariable == Execute(X!VariableOps)
UseField == Execute(X!FieldOps)
CompareTop == Execute(X!ComparisonOps)
Compute == Execute(X!ArithmeticOps)
ComputeOne == Execute(X!UnaryOps)
TakeJump == Execute(X!JumpOps)
EnterCall == Execute(X!CallOps)
LeaveCall == Execute(X!ReturnOps)
TurnLoop == Execute(X!LoopOps)
SetHandler == Execute(X!HandlerOps)
RunOther == Execute(X!OtherOps)
EndOfCode ==
    /\ Running /\ machine.pc > Len(unit.code)
    /\ machine' = Stepped(unit, machine)
    /\ UNCHANGED <<vars, unit>>

\* the top level has ended without an error: main is called
ToMain == machine.status = "done" /\ machine.stage = "top" /\ unit.main
CallMain ==
    /\ phase = "running" /\ ToMain
    /\ unit' = WithCall(unit)
    /\ machine' = CallingMain(unit, machine)
    /\ UNCHANGED vars
Stop ==
    /\ phase = "running" /\ machine.status # "running" /\ ~ToMain
    /\ phase' = "ran"
    /\ UNCHANGED <<source, lines, ended, edited, lexer, tree, unit, machine>>

RunNext ==
    \/ Reading \/ Compile \/ Refuse \/ CallMain \/ EndOfCode \/ Stop
    \/ PushConstant \/ MoveOnStack \/ UseVariable \/ UseField \/ CompareTop \/ Compute \/ ComputeOne
    \/ TakeJump \/ EnterCall \/ LeaveCall \/ TurnLoop \/ SetHandler \/ RunOther
RunSpec == RunInit /\ [][RunNext]_allVars

-----------------------------------------------------------------------------
\* where the meaning of a program has numbers for truth values and null
AsNumber(x) == CASE x = "true" -> "1" [] x \in {"false", "null"} -> "0" [] OTHER -> x
Texts(pieces) ==
    LET texts == SelectSeq(pieces, LAMBDA x : x # "\n")
    IN IF Sources[source].numeric THEN [j \in DOMAIN texts |-> AsNumber(texts[j])] ELSE texts
\* A program of the served language prints what its source means and ends as
\* it says: layout, precedence, the code of every construct, the cache of the
\* globals, frames and slots, the stacks of handlers and iterators, calls that
\* leave run() for a nested loop and come back, and the library together keep
\* the meaning.  Exactly the programs that are ill formed or ill typed are
\* refused, before anything is printed.
RunsAsWritten ==
    phase \in {"ran", "refused"} =>
        IF Sources[source].end = "refused" THEN phase = "refused"
        ELSE phase = "ran" /\ Texts(machine.out) = Texts(Sources[source].out) /\ machine.status = Sources[source].end
=============================================================================
