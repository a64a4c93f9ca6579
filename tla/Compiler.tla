------------------------------ MODULE Compiler ------------------------------
(***************************************************************************)
(* The lowering of statements to bytecode, src/bytecode/compiler.rs.  A    *)
(* program is its abstract syntax: a main block and the bodies of its      *)
(* functions and methods in declaration order.  Expressions are reduced to *)
(* constants and calls; pcs count from 0 as in Module::code.               *)
(***************************************************************************)
EXTENDS Integers, Sequences, SequencesExt

(***************************************************************************)
(* Instructions (instr.rs) and values                                      *)
(***************************************************************************)

Op(op, a) == [op |-> op, a |-> a]
NullV == <<"null", 0>>
IntV(n) == <<"int", n>>
BoolV(b) == <<"bool", IF b THEN 1 ELSE 0>>
ListV(vs) == <<"list", vs>>

\* targets not known when the Jump is emitted, patched when they are
BreakJump == -1
EndJump == -2
\* the placeholder of DeferPush
Unplaced == 0

NoLoop == -1

Patch(code, mark, target) ==
    [i \in DOMAIN code |->
        IF code[i].op \in {"Jump", "JumpIfFalse"} /\ code[i].a = mark
        THEN Op(code[i].op, target) ELSE code[i]]

(***************************************************************************)
(* compile_stmt: the code of one statement placed at pc b, inside a loop   *)
(* whose `continue` jumps to cont                                          *)
(***************************************************************************)

RECURSIVE CompileStmt(_, _, _)
RECURSIVE CompileBlock(_, _, _)
RECURSIVE CompileElifs(_, _, _)
RECURSIVE CompileCases(_, _, _)

CompileBlock(ss, b, cont) ==
    IF ss = <<>> THEN <<>>
    ELSE LET c == CompileStmt(Head(ss), b, cont)
         IN c \o CompileBlock(Tail(ss), b + Len(c), cont)

CompileCall(s) ==
    IF s.k = "call" THEN <<Op("CallByName", s.f)>>
    ELSE <<Op("Const", s.recv), Op("CallMethod", s.f)>>

\* elifs after the first condition: each is <cond> JumpIfFalse(next) body
\* Jump(end), but the last one's JumpIfFalse is patched to `end`
CompileElifs(es, b, cont) ==
    IF es = <<>> THEN <<>>
    ELSE LET body == CompileBlock(Head(es).body, b + 2, cont)
             next == b + 2 + Len(body) + 1
         IN <<Op("Const", BoolV(Head(es).c)),
              Op("JumpIfFalse", IF Tail(es) = <<>> THEN EndJump ELSE next)>>
            \o body \o <<Op("Jump", EndJump)>>
            \o CompileElifs(Tail(es), next, cont)

CompileIf(s, b, cont) ==
    LET then == CompileBlock(s.then, b + 2, cont)
        has_else == s.els # <<>> \/ s.elifs # <<>>
        out == IF has_else THEN <<Op("Jump", EndJump)>> ELSE <<>>
        next == b + 2 + Len(then) + Len(out)
        elifs == CompileElifs(s.elifs, next, cont)
        els == CompileBlock(s.els, next + Len(elifs), cont)
        end == next + Len(elifs) + Len(els)
    IN <<Op("Const", BoolV(s.c)), Op("JumpIfFalse", next)>>
       \o Patch(then \o out \o elifs \o els, EndJump, end)

\* `loop`: an always-true condition in the shape of `while`
CompileLoop(s, b, cont) ==
    LET body == CompileBlock(s.body, b + 2, b)
        exit == b + 2 + Len(body) + 1
    IN <<Op("Const", BoolV(TRUE)), Op("JumpIfFalse", exit)>>
       \o Patch(body, BreakJump, exit) \o <<Op("Jump", b)>>

CompileForIn(s, b, cont) ==
    LET start == b + 2
        body == CompileBlock(s.body, start + 2, start)
        end == start + 2 + Len(body) + 1
    IN <<Op("Const", ListV(s.items)), Op("Iter", 0), Op("IterNext", end), Op("Store", 0)>>
       \o Patch(body, BreakJump, end) \o <<Op("Jump", start)>>

CompileTry(s, b, cont) ==
    IF ~s.catches
    THEN CompileBlock(s.body \o s.fin, b, cont)
    ELSE LET body == CompileBlock(s.body, b + 1, cont)
             catch_pc == b + 1 + Len(body) + 2
             cb == CompileBlock(s.catch, catch_pc + 1, cont)
             end == catch_pc + 1 + Len(cb)
         IN <<Op("PushHandler", catch_pc)>> \o body
            \o <<Op("PopHandler", 0), Op("Jump", end)>>
            \o <<Op("Pop", 0)>> \o cb
            \o CompileBlock(s.fin, end, cont)

CompileCases(cs, b, cont) ==
    IF cs = <<>> THEN <<>>
    ELSE LET body == CompileBlock(Head(cs).body, b + 4, cont)
             next == b + 4 + Len(body) + 1
         IN <<Op("Dup", 0), Op("Const", Head(cs).lit), Op("Eq", 0), Op("JumpIfFalse", next)>>
            \o body \o <<Op("Jump", EndJump)>>
            \o CompileCases(Tail(cs), next, cont)

\* a chain of cases, then the Pop of the value, then the else case; every
\* matching case jumps past all of it
CompileMatch(s, b, cont) ==
    LET cases == CompileCases(s.cases, b + 1, cont)
        els == CompileBlock(s.els, b + 1 + Len(cases) + 1, cont)
        end == b + 1 + Len(cases) + 1 + Len(els)
    IN <<Op("Const", s.v)>> \o Patch(cases \o <<Op("Pop", 0)>> \o els, EndJump, end)

CompileWith(s, b, cont) ==
    LET body == CompileBlock(s.body, b + 3, cont)
    IN <<Op("Const", s.mgr), Op("CallBuiltin", "__with_enter__"), Op("Pop", 0)>> \o body
       \o <<Op("Const", s.mgr), Op("CallBuiltin", "__with_exit__"), Op("Pop", 0)>>

CompileStmt(s, b, cont) ==
    CASE s.k = "print"    -> <<Op("Const", s.v), Op("Print", 0)>>
      [] s.k = "self"     -> <<Op("LoadSelf", 0), Op("Print", 0)>>
      [] s.k = "throw"    -> <<Op("Const", s.v), Op("Throw", 0)>>
      [] s.k = "bad"      -> <<Op("Const", NullV), Op("Const", NullV), Op("Mul", 0), Op("Pop", 0)>>
      [] s.k = "div"      -> <<Op("Const", IntV(1)), Op("Const", IntV(0)), Op("Div", 0), Op("Pop", 0)>>
      [] s.k = "return"   -> <<Op("Const", s.v), Op("Return", 0)>>
      [] s.k = "break"    -> <<Op("Jump", BreakJump)>>
      [] s.k = "continue" -> <<Op("Jump", cont)>>
      [] s.k = "defer"    -> <<[op |-> "DeferPush", a |-> Unplaced, stmt |-> s.s]>>
      [] s.k \in {"call", "method"} -> CompileCall(s) \o <<Op("Pop", 0)>>
      [] s.k = "if"       -> CompileIf(s, b, cont)
      [] s.k = "loop"     -> CompileLoop(s, b, cont)
      [] s.k = "for"      -> CompileForIn(s, b, cont)
      [] s.k = "try"      -> CompileTry(s, b, cont)
      [] s.k = "match"    -> CompileMatch(s, b, cont)
      [] s.k = "with"     -> CompileWith(s, b, cont)

(***************************************************************************)
(* compile_fn_body and compile                                             *)
(***************************************************************************)

\* pending_defers: the placeholders of this body and, when it is the first
\* body compiled, those of the top level; each block ends with Nop
FlushDefers(code) ==
    LET pending == SelectSeq([i \in 1..Len(code) |-> i],
                             LAMBDA i : code[i].op = "DeferPush" /\ "stmt" \in DOMAIN code[i])
        Flush(c, i) == [c EXCEPT ![i] = Op("DeferPush", Len(c))]
                       \o CompileStmt(c[i].stmt, Len(c), NoLoop) \o <<Op("Nop", 0)>>
    IN FoldLeft(Flush, code, pending)

CompileFnBody(code, body) ==
    LET b == Len(code)
        last_is_expr == body # <<>> /\ Last(body).k \in {"call", "method"}
        text == IF last_is_expr
                THEN CompileBlock(Front(body), b, NoLoop) \o CompileCall(Last(body))
                ELSE CompileBlock(body, b, NoLoop) \o <<Op("Const", NullV)>>
    IN FlushDefers(code \o text \o <<Op("Return", 0)>>)

\* src.fns is the sequence of [name, body] in declaration order
Compile(src) ==
    LET main == CompileBlock(src.main, 0, NoLoop) \o <<Op("Halt", 0)>>
        codes == FoldLeft(LAMBDA cs, f : Append(cs, CompileFnBody(Last(cs), f.body)),
                          <<main>>, src.fns)
        names == {src.fns[i].name : i \in DOMAIN src.fns}
        entry(n) == Len(codes[CHOOSE i \in DOMAIN src.fns : src.fns[i].name = n])
    IN [code |-> Last(codes), fn_entry_pcs |-> [n \in names |-> entry(n)], src |-> src]
=============================================================================
