------------------------------ MODULE Analyzer ------------------------------
(***************************************************************************)
(* What is refused before it is compiled: analyze_with_mode of             *)
(* src/semantic/mod.rs on a .veds file, with the resolver, the type        *)
(* checker and the validation of statements.  Warnings (linearity, a match *)
(* without all variants) are left out, and so is what the tree does not    *)
(* have: type parameters and their constraints, the types of fields, and   *)
(* the annotations of a function, some of which a .veds file refuses.      *)
(***************************************************************************)
EXTENDS Integers, Sequences, SequencesExt, FiniteSets, TLC

\* FoldLeft, written so that TLC has each value before it needs it, on little
\* stack
RECURSIVE Thread(_, _, _)
Thread(op(_, _), base, seq) ==
    LET half == Len(seq) \div 2
        Left(a) == Thread(op, a, SubSeq(seq, 1, half))
        Right(a) == Thread(op, a, SubSeq(seq, half + 1, Len(seq)))
    IN CASE Len(seq) = 0 -> base
         [] Len(seq) = 1 -> op(base, seq[1])
         [] OTHER -> CHOOSE r \in {Right(a) : a \in {Left(b) : b \in {base}}} : TRUE

(***************************************************************************)
(* Types                                                                   *)
(***************************************************************************)

\* TypeInfo: its variant, a name, the types it is made of
TypeInfo(y, x, of) == [y |-> y, x |-> x, of |-> of]
Basics == {"int", "float", "str", "bool", "null"}
Basic(x) == TypeInfo("basic", x, <<>>)
Unknown == TypeInfo("unknown", "", <<>>)
AnyType == TypeInfo("any", "", <<>>)
Void == TypeInfo("void", "", <<>>)

IsName(ty) == ty \in STRING
Unsigned == {"u8", "u16", "u32", "u64"}
RECURSIVE FromAst(_)
\* what a type of the tree stands for; pointers, borrows, Result and the
\* unsigned integers are Unknown
FromAst(ty) ==
    CASE IsName(ty) -> CASE ty \in Basics -> Basic(ty) [] ty = "void" -> Void [] ty = "any" -> AnyType
                         [] ty \in Unsigned -> Unknown [] OTHER -> TypeInfo("named", ty, <<>>)
      [] ty.y \in {"ptr", "&", "&mut", "Result"} -> Unknown
      [] OTHER ->
           LET of == [j \in DOMAIN ty.of |-> FromAst(ty.of[j])]
           IN CASE ty.y = "optional" -> TypeInfo("optional", "", of)
                [] ty.y \in {"list", "set"} /\ Len(of) = 1 -> TypeInfo(ty.y, "", of)
                [] ty.y = "dict" /\ Len(of) = 2 -> TypeInfo("dict", "", of)
                [] OTHER -> TypeInfo("generic", ty.y, of)
\* of an annotation that may be missing
Annotated(ty) == IF IsName(ty) /\ ty = "dyn" THEN <<>> ELSE <<FromAst(ty)>>

RECURSIVE Compatible(_, _)
\* dicts, sets, functions and generic types are compatible with none, not even
\* with the same
Compatible(a, b) ==
    \/ {a.y, b.y} \cap {"any", "unknown"} # {}
    \/ /\ a.y = b.y
       /\ \/ a.y = "void"
          \/ a.y \in {"basic", "named"} /\ a.x = b.x
          \/ a.y \in {"list", "optional", "tuple"} /\ Len(a.of) = Len(b.of) /\ \A j \in DOMAIN a.of : Compatible(a.of[j], b.of[j])

(***************************************************************************)
(* Symbols: scopes, the innermost last; an entry is a variable or a        *)
(* function with the type it has or returns, if that is known              *)
(***************************************************************************)

Variable(ty) == [is |-> "variable", ty |-> ty]
Function(ty) == [is |-> "function", ty |-> ty]
\* Resolver::new
Builtin ==
    [f \in {"paste", "println"} |-> Function(<<>>)] @@ [f \in {"input", "str"} |-> Function(<<Basic("str")>>)]
    @@ [f \in {"int", "float"} |-> Function(<<Basic(f)>>)]

\* `ret` is the type that the current function declares
NewTable == [scopes |-> <<Builtin>>, ret |-> <<>>, ok |-> TRUE]
Enter(st) == [st EXCEPT !.scopes = Append(@, <<>>)]
Exit(st) == [st EXCEPT !.scopes = Front(@)]
Declare(st, x, entry) == [st EXCEPT !.scopes[Len(st.scopes)] = (x :> entry) @@ @]
Declared(st, x) == x \in DOMAIN Last(st.scopes)
Lookup(st, x) ==
    LET at == {n \in DOMAIN st.scopes : x \in DOMAIN st.scopes[n]}
    IN IF at = {} THEN Variable(<<>>) ELSE st.scopes[CHOOSE n \in at : \A m \in at : m <= n][x]

(***************************************************************************)
(* The resolver.  Its errors are dropped.  The scope of a body goes when   *)
(* the body ends, so that only what the top level declares is left.        *)
(***************************************************************************)

\* the names that a statement assigns
Assigned(s) ==
    CASE s.k = "compound" -> <<s.x>>
      [] s.k \in {"set", "compoundto"} ->
           LET ids == SelectSeq(s.to, LAMBDA t : t.k = "id") IN [j \in DOMAIN ids |-> ids[j].x]
      [] OTHER -> <<>>
RECURSIVE ResolveStmt(_, _)
ResolveStmt(st, s) ==
    IF s.k = "defer" THEN ResolveStmt(st, s.s)
    ELSE Thread(LAMBDA a, x : Declare(a, x, Variable(<<>>)), st, Assigned(s))

\* a function whose name is taken stays undeclared
ResolveFn(st, f) == IF Declared(st, f.name) THEN st ELSE Declare(st, f.name, Function(Annotated(f.ret)))
\* a class with a method whose name is taken leaves its scope open: what
\* follows is declared in it
ResolveClass(st, c) ==
    LET fields == Thread(LAMBDA a, x : Declare(a, x, Variable(<<>>)), Enter(st), c.fields)
        Free(n) == c.methods[n].name \notin ToSet(c.fields) /\ \A m \in 1..(n - 1) : c.methods[m].name # c.methods[n].name
        taken == {n \in DOMAIN c.methods : ~Free(n)}
    IN IF taken = {} THEN st
       ELSE Thread(ResolveFn, fields, SubSeq(c.methods, 1, (CHOOSE n \in taken : \A m \in taken : n <= m) - 1))
Resolve(st, d) ==
    CASE d.d = "fn" -> ResolveFn(st, d.f)
      [] d.d = "class" -> ResolveClass(st, d.c)
      [] d.d \in {"constexpr", "lazy"} -> Declare(st, d.name, Variable(<<>>))
      [] d.d = "stmt" -> ResolveStmt(st, d.s)
      [] OTHER -> st

(***************************************************************************)
(* The type checker                                                        *)
(***************************************************************************)

Arithmetic == {"Add", "Sub", "Mul", "Div", "FloorDiv", "Mod", "Power"}
Logical == {"Eq", "Ne", "Lt", "Gt", "Le", "Ge", "And", "Or"}
FunctionType(st, x) == LET f == Lookup(st, x) IN IF f.is = "function" /\ f.ty # <<>> THEN f.ty[1] ELSE Unknown
Joined(a, b) ==
    CASE a.y = "unknown" -> b [] b.y = "unknown" -> a [] a # b /\ b.y = "any" -> AnyType [] OTHER -> a

RECURSIVE InferExpr(_, _)
\* any sum without a Float is an Int
InferExpr(st, e) ==
    CASE e.k \in {"int", "float", "bool", "null"} -> Basic(e.k)
      [] e.k \in {"str", "interp"} -> Basic("str")
      [] e.k = "id" -> LET v == Lookup(st, e.x) IN IF v.ty = <<>> THEN Unknown ELSE v.ty[1]
      [] e.k = "bin" /\ e.op \in Arithmetic -> Basic(IF Basic("float") \in {InferExpr(st, e.l), InferExpr(st, e.r)} THEN "float" ELSE "int")
      [] e.k = "bin" /\ e.op \in Logical -> Basic("bool")
      [] e.k = "call" /\ e.f.k = "id" -> FunctionType(st, e.f.x)
      [] e.k = "cond" -> Joined(InferExpr(st, e.a), InferExpr(st, e.b))
      [] e.k = "cast" -> FromAst(e.ty)
      [] OTHER -> Unknown

Refuse(st) == [st EXCEPT !.ok = FALSE]
\* a value of another type than the variable has had before; the variable is
\* declared again in the innermost scope
Infer(st, xs, ty) ==
    LET Clashes(v) == v.is = "variable" /\ v.ty # <<>> /\ ~Compatible(v.ty[1], ty)
    IN Thread(LAMBDA a, x : IF ~a.ok \/ Clashes(Lookup(a, x)) THEN Refuse(a) ELSE Declare(a, x, Variable(<<ty>>)), st, xs)
\* a deletion is passed over
InferAssign(st, s) == Infer(st, Assigned(s), InferExpr(st, s.e))
InferReturn(st, s) ==
    LET ts == [j \in DOMAIN s.es |-> InferExpr(st, s.es[j])]
        ty == CASE Len(ts) = 1 -> ts[1] [] ts = <<>> -> Void [] OTHER -> TypeInfo("tuple", "", ts)
    IN IF st.ret # <<>> /\ ~Compatible(st.ret[1], ty) THEN Refuse(st) ELSE st

\* the blocks of a statement, each with the names it is entered with
Plain(body) == [xs |-> <<>>, body |-> body]
Binding(xs, body) == [xs |-> xs, body |-> body]
Bodies(cases) == [j \in DOMAIN cases |-> Plain(cases[j].body)]
ScopesOf(s) ==
    CASE s.k = "if" -> <<Plain(s.then)>> \o Bodies(s.elifs) \o <<Plain(s.els)>>
      [] s.k \in {"while", "loop"} -> <<Plain(s.body), Plain(s.els)>>
      [] s.k \in {"forin", "forrange"} -> <<Binding(<<s.x>>, s.body), Plain(s.els)>>
      [] s.k = "try" -> <<Plain(s.body), Binding(s.var, s.catch), Plain(s.fin)>>
      [] s.k = "with" -> <<Binding(s.var, s.body)>>
      [] s.k = "match" -> Bodies(s.cases) \o <<Plain(s.els)>>
      [] OTHER -> <<>>

RECURSIVE InferStmt(_, _)
InferBody(st, ss) == Thread(InferStmt, st, ss)
DeclareAll(st, xs) == Thread(LAMBDA a, x : Declare(a, x, Variable(<<Unknown>>)), st, xs)
\* [mutant] the names of a block outlive it
InferScopeOpen(st, b) == InferBody(DeclareAll(st, b.xs), b.body)
InferScope(st, b) == IF b.body = <<>> THEN st ELSE Exit(InferBody(DeclareAll(Enter(st), b.xs), b.body))
InferStmt(st, s) ==
    CASE ~st.ok -> st
      [] s.k \in {"set", "compound", "compoundto"} -> InferAssign(st, s)
      [] s.k = "return" -> InferReturn(st, s)
      [] OTHER -> Thread(InferScope, st, ScopesOf(s))

ParamType(p) == IF Annotated(p.ty) = <<>> THEN Unknown ELSE FromAst(p.ty)
CheckFn(st, f) ==
    LET open == Thread(LAMBDA a, p : Declare(a, p.x, Variable(<<ParamType(p)>>)), Enter(st), f.params)
        checked == InferBody([open EXCEPT !.ret = Annotated(f.ret)], f.body)
    IN [Exit(checked) EXCEPT !.ret = st.ret]
\* the methods of a class are not checked
Check(st, d) ==
    CASE ~st.ok -> st [] d.d = "fn" -> CheckFn(st, d.f) [] d.d = "stmt" -> InferStmt(st, d.s) [] OTHER -> st
WellTyped(ds) == Thread(Check, Thread(Resolve, NewTable, ds), ds).ok

(***************************************************************************)
(* Validation: what may stand only in a function or in a loop              *)
(***************************************************************************)

Concat(seqs) == FlattenSeq(seqs)
\* validate_assignee: the expressions in a target
RECURSIVE InTarget(_)
InTarget(t) ==
    CASE t.k = "member" -> <<t.e>> [] t.k = "index" -> <<t.e, t.j>>
      [] t.k = "tuple" -> Concat([j \in DOMAIN t.es |-> InTarget(t.es[j])]) [] OTHER -> <<>>
InTargets(ts) == Concat([j \in DOMAIN ts |-> InTarget(ts[j])])
\* the expressions in an expression; an assignment in a lambda is not entered
InLink(link) == link.es
InExpr(e) ==
    CASE e.k = "bin" -> <<e.l, e.r>>
      [] e.k \in {"neg", "not", "len", "spread", "member", "cast"} -> <<e.e>>
      [] e.k \in {"reverse", "asc", "desc", "slice", "await", "propagate", "pipe", "coro", "resume", "spawn", "list", "tuple", "set", "dict"} -> e.es
      [] e.k = "call" -> <<e.f>> \o e.args
      [] e.k = "index" -> <<e.e, e.j>>
      [] e.k = "slicing" -> <<e.e>> \o e.from \o e.to \o e.by
      [] e.k = "optional" -> <<e.e>> \o Concat([j \in DOMAIN e.links |-> InLink(e.links[j])])
      [] e.k = "cond" -> <<e.c, e.a, e.b>>
      [] e.k = "coalesce" -> <<e.a, e.b>>
      [] e.k = "lambda" -> <<e.body>>
      [] e.k = "range" -> <<e.a, e.b>>
      [] e.k = "rangeby" -> <<e.a>> \o e.b \o e.by
      [] e.k = "comp" -> e.es \o <<e.it>> \o e.cond
      [] e.k = "interp" -> [j \in DOMAIN e.parts |-> e.parts[j].e]
      [] OTHER -> <<>>
RECURSIVE ValidExpr(_, _)
ValidExpr(e, infn) ==
    /\ e.k = "propagate" => infn
    /\ LET es == InExpr(e) IN \A j \in DOMAIN es : ValidExpr(es[j], infn)

Guards(cases) == Concat([j \in DOMAIN cases |-> IF "guard" \in DOMAIN cases[j] THEN <<cases[j].guard>> ELSE <<>>])
\* the expressions of a statement that are looked at: not the step of a range,
\* not the channels of a select
InStmt(s) ==
    CASE s.k \in {"return", "yield", "println", "paste", "throw", "panic", "spawn", "spawn_thread"} -> s.es
      [] s.k \in {"set", "compoundto"} -> <<s.e>> \o InTargets(s.to)
      [] s.k \in {"compound", "assert", "with", "expr", "forin"} -> <<s.e>>
      [] s.k = "delete" -> InTarget(s.of)
      [] s.k = "if" -> <<s.c>> \o [j \in DOMAIN s.elifs |-> s.elifs[j].c]
      [] s.k = "while" -> <<s.c>>
      [] s.k = "forrange" -> <<s.a, s.b>>
      [] s.k = "match" -> <<s.e>> \o Guards(s.cases)
      [] s.k = "table" -> Concat(s.rows)
      [] OTHER -> <<>>
Loops == {"while", "loop", "forin", "forrange"}
BodiesOf(s) ==
    CASE s.k \in Loops \cup {"if", "try", "match", "with"} -> LET bs == ScopesOf(s) IN [j \in DOMAIN bs |-> bs[j].body]
      [] s.k = "select" -> Append([j \in DOMAIN s.cases |-> s.cases[j].body], s.els)
      [] s.k \in {"unsafe", "directive", "scope"} -> <<s.body>>
      [] s.k \in {"defer", "pon"} -> <<<<s.s>>>>
      [] OTHER -> <<>>

RECURSIVE ValidStmt(_, _, _)
ValidBody(ss, infn, inloop) == \A j \in DOMAIN ss : ValidStmt(ss[j], infn, inloop)
\* the else of a loop counts as inside it
ValidStmt(s, infn, inloop) ==
    /\ s.k \in {"return", "yield"} => infn
    /\ s.k \in {"break", "continue"} => inloop
    /\ LET es == InStmt(s) IN \A j \in DOMAIN es : ValidExpr(es[j], infn)
    /\ LET bs == BodiesOf(s) IN \A j \in DOMAIN bs : ValidBody(bs[j], infn, inloop \/ s.k \in Loops)
ValidFn(f) == ValidBody(f.body, TRUE, FALSE)

RECURSIVE Valid(_)
Valid(d) ==
    CASE d.d \in {"fn", "lazyfn"} -> ValidFn(d.f)
      [] d.d = "class" -> d.c.ext # <<d.c.name>> /\ \A j \in DOMAIN d.c.methods : ValidFn(d.c.methods[j])
      [] d.d = "stmt" -> ValidStmt(d.s, FALSE, FALSE)
      [] d.d = "cond" -> \A part \in {d.then, d.else} : \A j \in DOMAIN part : Valid(part[j])
      [] OTHER -> TRUE

(***************************************************************************)
(* The modes: a .veds file has no pointers in its signatures and no unsafe *)
(* code at the top                                                         *)
(***************************************************************************)

RECURSIVE RawType(_)
RawType(ty) == ~IsName(ty) /\ (ty.y = "ptr" \/ (ty.y \in {"&", "&mut"} /\ RawType(ty.of[1])))
InMode(d) ==
    CASE d.d = "fn" -> ~RawType(d.f.ret) /\ \A j \in DOMAIN d.f.params : ~RawType(d.f.params[j].ty)
      [] d.d = "stmt" -> d.s.k \notin {"unsafe", "asm"}
      [] OTHER -> TRUE

\* analyze_with_mode
Accepted(ds) ==
    /\ \A j \in DOMAIN ds : InMode(ds[j])
    /\ WellTyped(ds)
    /\ \A j \in DOMAIN ds : Valid(ds[j])
=============================================================================
