------------------------------ MODULE Bytecode ------------------------------
(***************************************************************************)
(* The bytecode compiler on the whole language, src/bytecode/compiler.rs:  *)
(* the declarations that the parser read become one sequence of            *)
(* instructions, the entries of the functions in it, and the lambdas.      *)
(* (Compiler.tla lowers the few statements that VM.tla proves about.)  An  *)
(* operator takes the Compiler, its fields as a record, and returns it     *)
(* with the instructions it emitted.  Positions count from 1; a constant   *)
(* of the string pool is the string itself.                                *)
(***************************************************************************)
EXTENDS Integers, Sequences, SequencesExt, FiniteSets, TLC

(***************************************************************************)
(* The Compiler                                                            *)
(***************************************************************************)

NewCompiler ==
    [code |-> <<>>, entry |-> <<>>, locals |-> <<>>, infn |-> FALSE, loops |-> <<>>, lambdas |-> <<>>,
     temps |-> 0, defers |-> <<>>, failed |-> FALSE, pool |-> <<>>, functions |-> <<>>]

\* FoldLeft, written so that TLC has each value before it needs it, on little
\* stack
RECURSIVE Thread(_, _, _)
Thread(op(_, _), base, seq) ==
    LET half == Len(seq) \div 2
        Left(a) == Thread(op, a, SubSeq(seq, 1, half))
        Right(a) == Thread(op, a, SubSeq(seq, half + 1, Len(seq)))
    IN CASE Len(seq) = 0 -> base
         [] Len(seq) = 1 -> op(base, seq[1])
         [] OTHER -> CHOOSE r \in {Right(a) : a \in {Left(b) : b \in {base}}} : TRUE

Ins(op, a, n) == [op |-> op, a |-> a, n |-> n]
\* intern_str: the place of a string in the pool, from 0
Intern(c, x) == IF x \in DOMAIN c.pool THEN c ELSE [c EXCEPT !.pool = (x :> Cardinality(DOMAIN @)) @@ @]
Interned == {"ConstStr", "LoadGlobal", "StoreGlobal", "LoadField", "StoreField"}
Emit(c, op, a) == [IF op \in Interned THEN Intern(c, a) ELSE c EXCEPT !.code = Append(@, Ins(op, a, 0))]
Do(c, op) == Emit(c, op, 0)
Here(c) == Len(c.code)
Next(c) == Len(c.code) + 1
\* what a placeholder was emitted for is known now
PatchTo(c, at, target) == [c EXCEPT !.code[at].a = target]
Land(c, at) == PatchTo(c, at, Next(c))
LandAll(c, ats) == Thread(Land, c, ats)
\* a jump whose target is not known
Hole(c, op) == Emit(c, op, 0)
Text(c, s) == Emit(c, "ConstStr", s)
CallOp(c, op, x, n) == [IF op = "Call" THEN c ELSE Intern(c, x) EXCEPT !.code = Append(@, Ins(op, x, n))]
Builtin(c, f, n) == CallOp(c, "CallBuiltin", f, n)
NoCode(c) == [c EXCEPT !.failed = TRUE]

(***************************************************************************)
(* Variables: slots in a function, globals outside                         *)
(***************************************************************************)

\* [mutant] a name that is declared again takes a new slot
DeclareAfresh(c, x) == [c EXCEPT !.locals = (x :> Cardinality(DOMAIN @) + 1) @@ @]

DeclareLocal(c, x) ==
    IF x \in DOMAIN c.locals THEN c ELSE [c EXCEPT !.locals = (x :> Cardinality(DOMAIN @) + 1) @@ @]
LoadGlobal(c, x) == Emit(c, "LoadGlobal", x)
StoreGlobal(c, x) == Emit(c, "StoreGlobal", x)
Load(c, x) ==
    IF c.infn /\ x \in DOMAIN c.locals THEN Emit(c, "LoadLocal", c.locals[x]) ELSE LoadGlobal(c, x)
Store(c, x) ==
    IF c.infn THEN LET d == DeclareLocal(c, x) IN Emit(d, "StoreLocal", d.locals[x]) ELSE StoreGlobal(c, x)

\* a name that the source cannot write
Temp(c, name) == name \o ToString(c.temps)
TookTemp(c) == [c EXCEPT !.temps = @ + 1]

(***************************************************************************)
(* Expressions                                                             *)
(***************************************************************************)

RECURSIVE CompileExpr(_, _), CompileStmt(_, _)
CompileAll(c, es) == Thread(CompileExpr, c, es)
CompileBody(c, ss) == Thread(CompileStmt, c, ss)
OrNull(c, es) == IF es = <<>> THEN Do(c, "ConstNull") ELSE CompileExpr(c, es[1])
OrInt(c, es, n) == IF es = <<>> THEN Emit(c, "ConstInt", n) ELSE CompileExpr(c, es[1])

\* a list that grows in a global: the loop over `it` stores each element and
\* runs step on it
Loop(c0, step(_)) ==
    LET start == Next(c0)
        c1 == Emit(step(Hole(c0, "IterNext")), "Jump", start)
    IN Land(c1, start)
AppendTo(c, x) == StoreGlobal(Builtin(Do(LoadGlobal(c, x), "Swap"), "list_append", 2), x)

CompileList(c, e) ==
    LET tmp == Temp(c, "__list_spread_")
        Element(a, el) ==
            IF el.k = "spread" THEN Loop(Do(CompileExpr(a, el.e), "Iter"), LAMBDA b : AppendTo(b, tmp))
            ELSE AppendTo(CompileExpr(a, el), tmp)
    IN IF \A j \in DOMAIN e.es : e.es[j].k # "spread" THEN Emit(CompileAll(c, e.es), "NewList", Len(e.es))
       ELSE LoadGlobal(Thread(Element, StoreGlobal(Emit(TookTemp(c), "NewList", 0), tmp), e.es), tmp)

\* range3(start, end, step), the end exclusive
CompileRange(c, e) ==
    LET a == CompileExpr(c, e.a)
        b == IF e.k = "range" THEN CompileExpr(a, e.b) ELSE OrInt(a, e.b, 0)
        end == IF e.incl THEN Do(Emit(b, "ConstInt", 1), "Add") ELSE b
    IN Builtin(IF e.k = "range" THEN Emit(end, "ConstInt", 1) ELSE OrInt(end, e.by, 1), "range3", 3)

CompileTernary(c, e) ==
    LET c1 == Hole(CompileExpr(c, e.c), "JumpIfFalse")
        c2 == Hole(CompileExpr(c1, e.a), "Jump")
        c3 == CompileExpr(Land(c2, Here(c1)), e.b)
    IN Land(c3, Here(c2))

\* the left value is kept where it is truthy, not only where it is not null
CompileCoalesce(c, e) ==
    LET c1 == Hole(Do(CompileExpr(c, e.a), "Dup"), "JumpIfTrue")
    IN Land(CompileExpr(Do(c1, "Pop"), e.b), Here(c1))

CompileAnd(c, e) ==
    LET c1 == Hole(CompileExpr(c, e.l), "JumpIfFalse")
        c2 == Hole(Builtin(CompileExpr(c1, e.r), "bool", 1), "Jump")
    IN Land(Emit(Land(c2, Here(c1)), "ConstBool", FALSE), Here(c2))
CompileOr(c, e) ==
    LET c1 == Hole(Do(CompileExpr(c, e.l), "Dup"), "JumpIfTrue")
        c2 == Hole(Builtin(CompileExpr(Do(c1, "Pop"), e.r), "bool", 1), "Jump")
    IN Land(Emit(Do(Land(c2, Here(c1)), "Pop"), "ConstBool", TRUE), Here(c2))

OneInstr == {"Add", "Sub", "Mul", "Div", "FloorDiv", "Mod", "Eq", "Ne", "Lt", "Gt", "Le", "Ge"}
OneBuiltin == [Is |-> "is_type", Power |-> "pow_op", Repeated |-> "__repeated__"]
\* of the last the operands are evaluated twice: the first two values stay below
CompileBinary(c, e) ==
    LET both == CompileExpr(CompileExpr(c, e.l), e.r)
    IN CASE e.op = "And" -> CompileAnd(c, e)
         [] e.op = "Or" -> CompileOr(c, e)
         [] e.op \in OneInstr -> Do(both, e.op)
         [] e.op = "In" -> Builtin(CompileExpr(CompileExpr(both, e.r), e.l), "contains", 2)
         [] e.op \in DOMAIN OneBuiltin -> Builtin(CompileExpr(CompileExpr(both, e.l), e.r), OneBuiltin[e.op], 2)
         [] OTHER -> NoCode(both)

\* is_builtin, without the names of the system modules (math_…, fs_…, net_…)
Builtins ==
    {"len", "str", "int", "float", "bool", "ord", "chr", "type_of", "range", "range3", "range1", "sum", "min", "max", "sorted", "reversed",
     "print", "println", "paste", "input", "set_add", "set_remove", "set_contains", "set_size", "enumerate", "zip", "exit", "resume", "stop",
     "Ok", "Err", "is_ok", "is_err", "unwrap", "unwrap_or", "freeze", "is_frozen", "annotations", "set_recursion_limit", "abs", "floor",
     "ceil", "round", "map", "filter", "dict", "dict_get", "dict_set", "dict_keys", "dict_values", "dict_has", "list", "set", "tuple",
     "split", "join", "trim", "upper", "lower", "contains", "list_append", "get_field", "slice", "sorted_desc", "optional_member",
     "optional_method", "optional_index", "__yield__", "__with_enter__", "__with_exit__", "__try_propagate__", "__cast__", "__repeated__",
     "__assert_fail", "__panic__"}

CompileCall(c, e) ==
    LET n == Len(e.args)
        Args(a) == CompileAll(a, e.args)
    IN CASE e.f.k = "member" /\ e.f.e.k = "id" /\ e.f.e.x = "super" -> CallOp(Args(c), "SuperCall", e.f.m, n)
         [] e.f.k = "member" -> CallOp(Args(CompileExpr(c, e.f.e)), "CallMethod", e.f.m, n)
         [] e.f.k = "id" /\ e.f.x \in Builtins -> Builtin(Args(c), e.f.x, n)
         [] e.f.k = "id" /\ e.f.x \in DOMAIN c.locals -> CallOp(Args(Emit(c, "LoadLocal", c.locals[e.f.x])), "Call", 0, n)
         [] e.f.k = "id" -> CallOp(Args(c), "CallByName", e.f.x, n)
         [] OTHER -> CallOp(Args(CompileExpr(c, e.f)), "Call", 0, n)

\* x |> f(a) is f(x, a), whatever f is a name of
CompilePipe(c, e) ==
    LET x == e.es[1]
        f == e.es[2]
    IN CASE f.k = "call" /\ f.f.k = "id" -> CallOp(CompileAll(CompileExpr(c, x), f.args), "CallByName", f.f.x, 1 + Len(f.args))
         [] f.k = "call" -> CallOp(CompileAll(CompileExpr(CompileExpr(c, f.f), x), f.args), "Call", 0, 1 + Len(f.args))
         [] OTHER -> CallOp(CompileExpr(CompileExpr(c, f), x), "Call", 0, 1)

\* the variable and the list under construction are globals, in a function too
CompileListComp(c, e) ==
    LET Collect(a) == AppendTo(CompileExpr(a, e.es[1]), "__lc_result")
        Step(a) == LET v == StoreGlobal(a, e.x)
                       t == Hole(CompileExpr(v, e.cond[1]), "JumpIfFalse")
                   IN IF e.cond = <<>> THEN Collect(v) ELSE Land(Collect(t), Here(t))
    IN LoadGlobal(Loop(Do(CompileExpr(StoreGlobal(Emit(c, "NewList", 0), "__lc_result"), e.it), "Iter"), Step), "__lc_result")
CompileDictComp(c, e) ==
    LET Collect(a) == StoreGlobal(Builtin(LoadGlobal(CompileAll(a, e.es), "__dc_result"), "dict_set", 3), "__dc_result")
        Step(a) == LET v == StoreGlobal(a, e.x)
                       t == Hole(CompileExpr(v, e.cond[1]), "JumpIfFalse")
                   IN IF e.cond = <<>> THEN Collect(v) ELSE Land(Collect(t), Here(t))
    IN LoadGlobal(Loop(Do(CompileExpr(StoreGlobal(Emit(c, "NewDict", 0), "__dc_result"), e.it), "Iter"), Step), "__dc_result")
\* every element stays on the stack as a list of its own, whatever the condition
CompileSetComp(c, e) ==
    LET Step(a) == LET v == StoreGlobal(a, e.x)
                       t == Hole(CompileExpr(v, e.cond[1]), "JumpIfFalse")
                   IN Emit(CompileExpr(IF e.cond = <<>> THEN v ELSE Land(t, Here(t)), e.es[1]), "NewList", 1)
    IN Builtin(Loop(Do(CompileExpr(c, e.it), "Iter"), Step), "set", 1)

CompileLink(c, link) ==
    CASE link.k = "member" -> Builtin(Text(c, link.m), "optional_member", 2)
      [] link.k = "call" -> Builtin(CompileAll(Text(c, link.m), link.es), "optional_method", 2 + Len(link.es))
      [] link.k = "index" -> Builtin(CompileExpr(c, link.es[1]), "optional_index", 2)

CompileInterp(c, parts) ==
    LET Part(a, j) ==
            LET p == parts[j]
                v == IF p.k = "text" THEN Text(a, p.s) ELSE Builtin(CompileExpr(a, p.e), "str", 1)
            IN IF j = 1 THEN v ELSE Do(v, "Add")
    IN Thread(Part, c, [j \in DOMAIN parts |-> j])

\* a body that returns the expression, compiled at the end under its own name
CompileLambda(c, e) ==
    LET name == Temp(c, "<lambda_") \o ">"
        f == [name |-> name, params |-> e.params, body |-> <<[k |-> "return", es |-> <<e.body>>]>>]
    IN Emit([TookTemp(c) EXCEPT !.lambdas = Append(@, f)], "MakeClosure", name)

\* the value of an assignment is read from where it was stored
CompileAssignExpr(c, s) ==
    LET done == CompileStmt(c, s)
        to == IF s.k = "compound" THEN [k |-> "id", x |-> s.x] ELSE s.to[1]
    IN CASE to.k = "id" -> Load(done, to.x)
         [] to.k = "index" -> Do(CompileExpr(CompileExpr(done, to.e), to.j), "IndexGet")
         [] OTHER -> Do(done, "ConstNull")

PostfixOf == [len |-> "len", reverse |-> "reversed", asc |-> "sorted", desc |-> "sorted_desc"]
TypeName(ty) == IF ty \in STRING THEN ty ELSE "any"
CompileExpr(c, e) ==
    CASE e.k = "int" -> Emit(c, "ConstInt", e.n)
      [] e.k = "float" -> Emit(c, "ConstFloat", e.s)
      [] e.k = "bool" -> Emit(c, "ConstBool", e.b)
      [] e.k = "str" -> Text(c, e.s)
      [] e.k = "interp" -> CompileInterp(c, e.parts)
      [] e.k = "id" -> Load(c, e.x)
      [] e.k = "bin" -> CompileBinary(c, e)
      [] e.k = "neg" -> Do(CompileExpr(c, e.e), "Neg")
      [] e.k = "not" -> Do(CompileExpr(c, e.e), "Not")
      [] e.k = "list" -> CompileList(c, e)
      [] e.k = "tuple" -> Emit(CompileAll(c, e.es), "NewTuple", Len(e.es))
      [] e.k = "dict" -> Emit(CompileAll(c, e.es), "NewDict", Len(e.es) \div 2)
      [] e.k = "set" -> Builtin(Emit(CompileAll(c, e.es), "NewList", Len(e.es)), "set", 1)
      [] e.k = "index" -> Do(CompileExpr(CompileExpr(c, e.e), e.j), "IndexGet")
      [] e.k = "call" -> CompileCall(c, e)
      [] e.k \in {"range", "rangeby"} -> CompileRange(c, e)
      [] e.k = "member" -> Builtin(Text(CompileExpr(c, e.e), e.m), "get_field", 2)
      [] e.k = "cond" -> CompileTernary(c, e)
      [] e.k = "coalesce" -> CompileCoalesce(c, e)
      [] e.k = "slice" -> Builtin(Do(CompileAll(c, e.es), "ConstNull"), "slice", 4)
      [] e.k = "slicing" -> Builtin(OrNull(OrNull(OrNull(CompileExpr(c, e.e), e.from), e.to), e.by), "slice", 4)
      [] e.k = "resume" -> Builtin(CompileAll(c, e.es), "resume", Len(e.es))
      [] e.k \in {"await", "spawn"} -> CompileExpr(c, e.es[1])
      [] e.k = "spread" -> CompileExpr(c, e.e)
      [] e.k = "coro" -> CallOp(CompileAll(c, e.es), "Call", 0, Len(e.es) - 1)
      [] e.k = "cast" -> Builtin(Text(CompileExpr(c, e.e), TypeName(e.ty)), "__cast__", 2)
      [] e.k = "propagate" -> Builtin(CompileAll(c, e.es), "__try_propagate__", 1)
      [] e.k = "assign" -> CompileAssignExpr(c, e.s)
      [] e.k = "pipe" -> CompilePipe(c, e)
      [] e.k = "len" -> Builtin(CompileExpr(c, e.e), "len", 1)
      [] e.k \in DOMAIN PostfixOf -> Builtin(CompileAll(c, e.es), PostfixOf[e.k], 1)
      [] e.k = "comp" /\ e.of = "list" -> CompileListComp(c, e)
      [] e.k = "comp" /\ e.of = "dict" -> CompileDictComp(c, e)
      [] e.k = "comp" /\ e.of = "set" -> CompileSetComp(c, e)
      [] e.k = "lambda" -> CompileLambda(c, e)
      [] e.k = "optional" -> Thread(CompileLink, CompileExpr(c, e.e), e.links)
      [] OTHER -> Do(c, "ConstNull")

(***************************************************************************)
(* Assignments                                                             *)
(***************************************************************************)

\* container, index and value on the stack: the container with it stored goes
\* back to where the container came from
IndexTarget(c, to, e) ==
    CASE to.e.k = "id" -> Store(Do(CompileExpr(CompileExpr(Load(c, to.e.x), to.j), e), "IndexSet"), to.e.x)
      [] to.e.k = "member" ->
           LET inner == Emit(Do(CompileExpr(c, to.e.e), "Dup"), "LoadField", to.e.m)
           IN Emit(Do(Do(CompileExpr(CompileExpr(inner, to.j), e), "IndexSet"), "Swap"), "StoreField", to.e.m)
      [] to.e.k = "index" ->
           LET inner == Do(CompileExpr(Do(CompileExpr(c, to.e.e), "Dup"), to.e.j), "IndexGet")
               set == Do(CompileExpr(CompileExpr(inner, to.j), e), "IndexSet")
               outer == Do(Do(CompileExpr(set, to.e.j), "Swap"), "IndexSet")
           IN IF to.e.e.k = "id" THEN Store(outer, to.e.e.x) ELSE Do(outer, "Pop")
      [] OTHER -> Do(Do(CompileExpr(CompileExpr(CompileExpr(c, to.e), to.j), e), "IndexSet"), "Pop")

\* one of several targets, its value on the stack
AssignTarget(c, to) ==
    CASE to.k = "id" -> Store(c, to.x)
      [] to.k = "index" -> Do(Do(CompileExpr(CompileExpr(c, to.e), to.j), "Swap"), "IndexSet")
      [] OTHER -> NoCode(c)
Element(c, n, to) == AssignTarget(Do(Emit(c, "ConstInt", n - 1), "IndexGet"), to)

SimpleAssign(c, to, e) ==
    CASE to.k = "id" -> Store(CompileExpr(c, e), to.x)
      [] to.k = "member" -> Emit(CompileExpr(CompileExpr(c, e), to.e), "StoreField", to.m)
      [] to.k = "index" -> IndexTarget(c, to, e)
      [] to.k = "tuple" -> Do(Thread(LAMBDA a, n : Element(Do(a, "Dup"), n, to.es[n]), CompileExpr(c, e), [n \in DOMAIN to.es |-> n]), "Pop")

\* a, b = e: the value is kept until the last target
CompileAssign(c, s) ==
    LET n == Len(s.to)
    IN IF n = 1 THEN SimpleAssign(c, s.to[1], s.e)
       ELSE Thread(LAMBDA a, j : Element(IF j < n THEN Do(a, "Dup") ELSE a, j, s.to[j]), CompileExpr(c, s.e), [j \in 1..n |-> j])

\* container[j] op= e: what a simple assignment does, with the old value read
\* first and the index compiled again
CompoundIndex(c, to, op, e) ==
    LET Updated(a) == Do(CompileExpr(Do(CompileExpr(Do(a, "Dup"), to.j), "IndexGet"), e), op)
        Put(a) == Do(Do(CompileExpr(Updated(a), to.j), "Swap"), "IndexSet")
    IN CASE to.e.k = "id" -> Store(Put(Load(c, to.e.x)), to.e.x)
         [] to.e.k = "member" ->
              Emit(Do(Put(Emit(Do(CompileExpr(c, to.e.e), "Dup"), "LoadField", to.e.m)), "Swap"), "StoreField", to.e.m)
         [] to.e.k = "index" ->
              \* the inner container is not kept: what the inner IndexSet takes
              \* for it is the outer one
              LET inner == Do(CompileExpr(Do(CompileExpr(c, to.e.e), "Dup"), to.e.j), "IndexGet")
                  new == Do(CompileExpr(Do(CompileExpr(inner, to.j), "IndexGet"), e), op)
                  set == Do(Do(CompileExpr(new, to.j), "Swap"), "IndexSet")
                  outer == Do(Do(CompileExpr(set, to.e.j), "Swap"), "IndexSet")
              IN IF to.e.e.k = "id" THEN Store(outer, to.e.e.x) ELSE Do(outer, "Pop")
         [] OTHER -> Do(c, "ConstNull")
CompoundAssign(c, to, op, e) ==
    CASE to.k = "id" -> Store(Do(CompileExpr(Load(c, to.x), e), op), to.x)
      [] to.k = "member" ->
           Emit(Do(CompileExpr(Emit(Do(CompileExpr(c, to.e), "Dup"), "LoadField", to.m), e), op), "StoreField", to.m)
      [] to.k = "index" -> CompoundIndex(c, to, op, e)
      [] OTHER -> Do(c, "ConstNull")

\* del: null is stored; a name that is no local of the function is let be
CompileDelete(c, to) ==
    CASE to.k = "id" /\ c.infn ->
           IF to.x \in DOMAIN c.locals THEN Emit(Do(c, "ConstNull"), "StoreLocal", c.locals[to.x]) ELSE c
      [] to.k = "id" -> StoreGlobal(Do(c, "ConstNull"), to.x)
      [] to.k = "index" -> Do(Do(Do(CompileExpr(CompileExpr(c, to.e), to.j), "ConstNull"), "IndexSet"), "Pop")
      [] OTHER -> c

(***************************************************************************)
(* Control flow                                                            *)
(***************************************************************************)

\* the false jump of the last elif is patched again: past the else
CompileIf(c, s) ==
    LET c1 == Hole(CompileExpr(c, s.c), "JumpIfFalse")
        then == CompileBody(c1, s.then)
        more == s.els # <<>> \/ s.elifs # <<>>
        c2 == IF more THEN Hole(then, "Jump") ELSE then
        Arm(a, arm) ==
            LET t == Hole(CompileExpr(a.c, arm.c), "JumpIfFalse")
                b == Hole(CompileBody(t, arm.body), "Jump")
            IN [c |-> Land(b, Here(t)), ends |-> Append(a.ends, Here(b)), last |-> <<Here(t)>>]
        arms == Thread(Arm, [c |-> Land(c2, Here(c1)), ends |-> IF more THEN <<Here(c2)>> ELSE <<>>, last |-> <<>>], s.elifs)
    IN LandAll(CompileBody(arms.c, s.els), arms.last \o arms.ends)

\* a loop back to `again`; the breaks in the body land past it, with `exit`
LoopBody(c, again, exit, body) ==
    LET inner == CompileBody([c EXCEPT !.loops = Append(@, [again |-> again, breaks |-> <<>>])], body)
        c1 == Emit(inner, "Jump", again)
    IN [LandAll(Land(c1, exit), Last(inner.loops).breaks) EXCEPT !.loops = c.loops]
\* the else of a while or a loop is not compiled
CompileWhile(c, s) ==
    LET c1 == Hole(IF s.k = "loop" THEN Emit(c, "ConstBool", TRUE) ELSE CompileExpr(c, s.c), "JumpIfFalse")
    IN LoopBody(c1, Next(c), Here(c1), s.body)
\* the else of a for-in follows the loop, after a break too
CompileForIn(c, s) ==
    LET c1 == Hole(Do(CompileExpr(c, s.e), "Iter"), "IterNext")
    IN CompileBody(LoopBody(Store(c1, s.x), Here(c1), Here(c1), s.body), s.els)
CompileForRange(c, s) ==
    LET bounds == OrInt(CompileExpr(CompileExpr(c, s.a), s.b), s.step, 1)
        c1 == Hole(Do(Builtin(bounds, "range3", 3), "Iter"), "IterNext")
    IN LoopBody(Store(c1, s.x), Here(c1), Here(c1), s.body)
CompileBreak(c) ==
    IF c.loops = <<>> THEN NoCode(c)
    ELSE LET c1 == Hole(c, "Jump") IN [c1 EXCEPT !.loops[Len(c.loops)].breaks = Append(@, Here(c1))]
CompileContinue(c) == IF c.loops = <<>> THEN NoCode(c) ELSE Emit(c, "Jump", Last(c.loops).again)

\* the finally body follows; no handler covers it
CompileTry(c, s) ==
    LET c1 == Hole(c, "PushHandler")
        c2 == Hole(Do(CompileBody(c1, s.body), "PopHandler"), "Jump")
        c3 == Land(c2, Here(c1))
        catch == CompileBody(IF s.var = <<>> THEN Do(c3, "Pop") ELSE Store(c3, s.var[1]), s.catch)
    IN IF s.var = <<>> /\ s.catch = <<>> THEN CompileBody(CompileBody(c, s.body), s.fin)
       ELSE CompileBody(Land(catch, Here(c2)), s.fin)

CompileWith(c, s) ==
    LET tmp == Temp(c, "__with_mgr_")
        in == Builtin(Load(Store(TookTemp(CompileExpr(c, s.e)), tmp), tmp), "__with_enter__", 1)
        body == CompileBody(IF s.var = <<>> THEN Do(in, "Pop") ELSE Store(in, s.var[1]), s.body)
    IN Do(Builtin(Load(body, tmp), "__with_exit__", 1), "Pop")

\* the value is tested in turn; a pattern that is not a literal, a name or _
\* is matched at run time
Tested(c, p) ==
    LET d == Do(c, "Dup")
    IN CASE p.k = "lit" -> Do(CompileExpr(d, p.e), "Eq")
         [] p.k = "bind" -> Emit(Store(Do(d, "Pop"), p.x), "ConstBool", TRUE)
         [] p.k = "any" -> Emit(Do(d, "Pop"), "ConstBool", TRUE)
         [] OTHER -> Emit(d, "MatchPattern", p)
\* the Pop of the value is on the way where no case matches only
CompileMatch(c, s) ==
    LET Case(a, case) ==
            LET t == Hole(Tested(a.c, case.p), "JumpIfFalse")
                g == IF "guard" \in DOMAIN case THEN Hole(CompileExpr(t, case.guard), "JumpIfFalse") ELSE t
                b == Hole(CompileBody(g, case.body), "Jump")
            IN [c |-> LandAll(b, <<Here(t), Here(g)>>), ends |-> Append(a.ends, Here(b))]
        cases == Thread(Case, [c |-> CompileExpr(c, s.e), ends |-> <<>>], s.cases)
    IN LandAll(CompileBody(Do(cases.c, "Pop"), s.els), cases.ends)

CompileAssert(c, s) ==
    LET c1 == Hole(CompileExpr(c, s.e), "JumpIfTrue")
    IN Land(Do(Builtin(Text(c1, "assertion failed"), "__assert_fail", 1), "Pop"), Here(c1))

(***************************************************************************)
(* Statements                                                              *)
(***************************************************************************)

Printed(c, es) == Thread(LAMBDA a, e : Do(CompileExpr(a, e), "Print"), c, es)
CompileStmt(c, s) ==
    CASE s.k = "set" -> CompileAssign(c, s)
      [] s.k = "compound" -> CompoundAssign(c, [k |-> "id", x |-> s.x], s.op, s.e)
      [] s.k = "compoundto" -> Thread(LAMBDA a, to : CompoundAssign(a, to, s.op, s.e), c, s.to)
      [] s.k = "del" -> CompileDelete(c, [k |-> "id", x |-> s.x])
      [] s.k = "delete" -> CompileDelete(c, s.of)
      [] s.k = "println" -> Do(Printed(c, s.es), "Newline")
      [] s.k = "paste" -> Printed(c, s.es)
      [] s.k = "input" -> LET read == Builtin(c, "input", 0) IN IF s.to.k = "id" THEN Store(read, s.to.x) ELSE Do(read, "Pop")
      [] s.k = "return" -> Do(IF Len(s.es) <= 1 THEN OrNull(c, s.es) ELSE Emit(CompileAll(c, s.es), "NewTuple", Len(s.es)), "Return")
      [] s.k = "if" -> CompileIf(c, s)
      [] s.k \in {"while", "loop"} -> CompileWhile(c, s)
      [] s.k = "forin" -> CompileForIn(c, s)
      [] s.k = "forrange" -> CompileForRange(c, s)
      [] s.k = "break" -> CompileBreak(c)
      [] s.k = "continue" -> CompileContinue(c)
      [] s.k = "expr" -> Do(CompileExpr(c, s.e), "Pop")
      [] s.k = "try" -> CompileTry(c, s)
      [] s.k = "throw" -> Do(CompileAll(c, s.es), "Throw")
      [] s.k = "with" -> CompileWith(c, s)
      [] s.k = "yield" -> Do(OrNull(c, s.es), "Yield")
      \* the value of the call stays on the stack
      [] s.k \in {"spawn", "spawn_thread"} -> CompileAll(c, s.es)
      [] s.k = "match" -> CompileMatch(c, s)
      [] s.k = "defer" -> LET d == Hole(c, "DeferPush") IN [d EXCEPT !.defers = Append(@, [at |-> Here(d), s |-> s.s])]
      [] s.k \in {"unsafe", "directive", "scope"} -> CompileBody(c, s.body)
      [] s.k = "assert" -> CompileAssert(c, s)
      [] s.k = "panic" -> Do(Builtin(CompileAll(c, s.es), "__panic__", 1), "Pop")
      \* select, pon, /= tables, flush, asm
      [] OTHER -> c

(***************************************************************************)
(* Functions                                                               *)
(***************************************************************************)

\* compile_fn_def: the table of the module's functions and their parameters
Register(c, f) == [Intern(c, f.name) EXCEPT !.functions = (f.name :> [j \in DOMAIN f.params |-> f.params[j].x]) @@ @]

\* what was deferred, as blocks after the body, each up to a Nop
PlaceDefers(c) ==
    Thread(LAMBDA a, d : Do(CompileStmt(Land(a, d.at), d.s), "Nop"), [c EXCEPT !.defers = <<>>], c.defers)

\* a last statement that is a bare expression is the value; the deferred
\* statements still unplaced (those of the top level too) come after the first
\* function
CompileFnBody(c0, name, params, body) ==
    LET c == Thread(DeclareLocal, [c0 EXCEPT !.locals = <<>>, !.infn = TRUE, !.loops = <<>>], [j \in DOMAIN params |-> params[j].x])
        implicit == body # <<>> /\ Last(body).k = "expr"
        run == IF implicit THEN CompileExpr(CompileBody(c, Front(body)), Last(body).e) ELSE Do(CompileBody(c, body), "ConstNull")
        all == PlaceDefers(Do(run, "Return"))
    IN [all EXCEPT !.entry = (name :> [pc |-> Next(c0), slots |-> all.locals]) @@ @,
                   !.locals = c0.locals, !.infn = c0.infn, !.loops = c0.loops]

\* eval_const_condition; what is no literal counts as true
RECURSIVE Literal(_), ConstValue(_)
Literal(e) == e.k \in {"bool", "int", "float", "null", "str", "interp"} \/ (e.k = "not" /\ Literal(e.e))
ConstValue(e) ==
    CASE e.k = "bool" -> e.b [] e.k = "int" -> e.n # 0 [] e.k = "float" -> e.s # "0.0" [] e.k = "null" -> FALSE
      [] e.k = "str" -> e.s # "" [] e.k = "interp" -> TRUE [] e.k = "not" -> ~ConstValue(e.e)
ConstCondition(e) == Literal(e) => ConstValue(e)

RECURSIVE CompileTopLevel(_, _)
CompileTopLevel(c, d) ==
    CASE d.d = "stmt" -> CompileStmt(c, d.s)
      [] d.d \in {"fn", "lazyfn"} -> Register(c, d.f)
      [] d.d \in {"constexpr", "lazy"} -> StoreGlobal(CompileExpr(c, d.e), d.name)
      [] d.d = "cond" -> Thread(CompileTopLevel, c, IF ConstCondition(d.e) THEN d.then ELSE d.else)
      [] OTHER -> c

Qualified(owner, m) == owner \o "." \o m
MethodBodies(c, owner, methods) ==
    Thread(LAMBDA a, m : CompileFnBody(a, Qualified(owner, m.name), m.params, m.body), c, methods)
CompileBodies(c, d) ==
    CASE d.d \in {"fn", "lazyfn"} -> CompileFnBody(c, d.f.name, d.f.params, d.f.body)
      [] d.d = "class" -> MethodBodies(c, d.c.name, d.c.methods)
      [] d.d = "impl" -> MethodBodies(c, d.name, d.members)
      [] d.d = "macro" -> CompileFnBody(c, d.name, d.params, d.body)
      [] OTHER -> c

\* compile: the top level and Halt, the functions, the lambdas that those two
\* made (a lambda in the body of a lambda gets no code)
Compile(ds) ==
    LET top == Do(Thread(CompileTopLevel, NewCompiler, ds), "Halt")
        fns == Thread(CompileBodies, top, ds)
    IN Thread(LAMBDA a, f : CompileFnBody(a, f.name, f.params, f.body), fns, fns.lambdas)
=============================================================================
