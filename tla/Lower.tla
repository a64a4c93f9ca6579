-------------------------------- MODULE Lower --------------------------------
(***************************************************************************)
(* The lowering of the syntax tree to the IR of the native back ends,      *)
(* src/codegen/lower.rs.  A program is [classes, fns, main]: functions     *)
(* with a body of statements, and the top-level statements that become     *)
(* `main`.  Every operator takes the Lowerer (its fields as a record) and  *)
(* returns it with the instructions it emitted.  The declarations come     *)
(* classes first.  Left out: floats, inline assembler, generic functions   *)
(* (instantiated before), a call that names a method's function or a       *)
(* runtime function itself, and the forms the parser never builds          *)
(* (qualified names, method-call nodes).                                   *)
(***************************************************************************)
EXTENDS IR, Integers, Sequences, SequencesExt, FiniteSets, TLC

(***************************************************************************)
(* The Lowerer                                                             *)
(***************************************************************************)

Lowerer(prog) ==
    [prog |-> prog, fn |-> <<"main">>, nreg |-> 0, nlab |-> 0, locals |-> <<>>, code |-> <<>>,
     loops |-> <<>>, vclass |-> <<>>, vstr |-> {}, cls |-> "", nlam |-> 0, lams |-> <<>>]

\* FoldLeft, written so that TLC evaluates each step before the next
Thread(op(_, _), base, seq) ==
    FoldLeft(LAMBDA a, x : CHOOSE r \in {op(y, x) : y \in {a}} : TRUE, base, seq)

Emit(c, insn) == [c EXCEPT !.code = Append(@, insn)]
EmitAll(c, insns) == [c EXCEPT !.code = @ \o insns]
\* the register that Fresh takes is c.nreg
Fresh(c) == [c EXCEPT !.nreg = @ + 1]
\* fresh_label prefixes the function's name: labels are unique in the module
Lab(c, k) == <<c.fn, c.nlab + k>>
FreshLabels(c, n) == [c EXCEPT !.nlab = @ + n]

\* a result: the Lowerer and the operand that holds the value
Is(c, v) == [c |-> c, v |-> v]

Without(f, x) == IF x \in DOMAIN f THEN [y \in DOMAIN f \ {x} |-> f[y]] ELSE f

\* the register stays, the type is that of the last declaration
DeclareLocal(c, x, ty) ==
    IF x \in DOMAIN c.locals
    THEN [c EXCEPT !.locals[x].ty = ty]
    ELSE [Fresh(c) EXCEPT !.locals = Put(@, x, [n |-> c.nreg, ty |-> ty])]
LocalReg(c, x) == Reg(c.locals[x].n, c.locals[x].ty)

RtValue(c, f, args, ty, shown) ==
    Is(Emit(Fresh(c), Rt(<<Reg(c.nreg, ty)>>, f, args)), Reg(c.nreg, shown))
RtDyn(c, f, args) == RtValue(c, f, args, "dyn", "dyn")
RtBool(c, f, args) == RtValue(c, f, args, "bool", "bool")
CallValue(c, f, args, ty) ==
    Is(Emit(Fresh(c), CallFn(<<Reg(c.nreg, ty)>>, f, args)), Reg(c.nreg, ty))

(***************************************************************************)
(* Class metadata                                                          *)
(***************************************************************************)

ClassNames(c) == {c.prog.classes[j].name : j \in DOMAIN c.prog.classes}
ClassDef(c, cls) == c.prog.classes[CHOOSE j \in DOMAIN c.prog.classes : c.prog.classes[j].name = cls]
MethodsOf(c, cls) == LET ms == ClassDef(c, cls).methods IN {ms[j].name : j \in DOMAIN ms}

RECURSIVE Lineage(_, _)
\* the class and its ancestors, nearest first
Lineage(c, cls) ==
    IF cls \notin ClassNames(c) THEN <<>>
    ELSE <<cls>> \o (IF ClassDef(c, cls).ext = <<>> THEN <<>> ELSE Lineage(c, ClassDef(c, cls).ext[1]))

ClassHasMethod(c, cls, m) == \E j \in DOMAIN Lineage(c, cls) : m \in MethodsOf(c, Lineage(c, cls)[j])

\* [mutant] the oldest class that defines it
OwnerOldest(c, cls, m) ==
    LET line == Lineage(c, cls)
    IN line[CHOOSE j \in DOMAIN line : m \in MethodsOf(c, line[j]) /\ \A k \in (j + 1)..Len(line) : m \notin MethodsOf(c, line[k])]

\* lookup_dispatch: the nearest class of the lineage that defines m
Owner(c, cls, m) ==
    LET line == Lineage(c, cls)
    IN line[CHOOSE j \in DOMAIN line : m \in MethodsOf(c, line[j]) /\ \A k \in 1..(j - 1) : m \notin MethodsOf(c, line[k])]

\* infer_class_from_expr: what the last assignment in program text says
InferClass(c, e) ==
    CASE e.k = "id" /\ e.x \in DOMAIN c.vclass -> c.vclass[e.x]
      [] e.k = "call" /\ e.f.k = "id" /\ e.f.x \in ClassNames(c) -> e.f.x
      [] e.k = "call" /\ e.f.k = "member" /\ e.f.m = "new" /\ e.f.e.k = "id" /\ e.f.e.x \in ClassNames(c) -> e.f.e.x
      [] OTHER -> ""

InferIsString(c, e) == \/ e.k \in {"str", "interp"}
                       \/ e.k = "id" /\ e.x \in c.vstr

FnSig(c, f) == {c.prog.fns[j] : j \in {k \in DOMAIN c.prog.fns : c.prog.fns[k].name = f}}

\* fn_has_yield: a body with a yield makes its function a generator.  The
\* bodies of a select, and those of lambdas, do not count
RECURSIVE Yields(_)
Yields(ss) ==
    LET Inside(s) == CASE s.k \in {"while", "forrange", "forin", "loop"} -> <<s.body, s.els>>
                       [] s.k \in {"block", "with"} -> <<s.body>>
                       [] s.k = "if"    -> <<s.then, s.els>> \o [j \in DOMAIN s.elifs |-> s.elifs[j].body]
                       [] s.k = "match" -> <<s.els>> \o [j \in DOMAIN s.cases |-> s.cases[j].body]
                       [] s.k = "try"   -> <<s.body, s.catch, s.fin>>
                       [] s.k = "defer" -> << <<s.s>> >>
                       [] OTHER -> <<>>
    IN \E j \in DOMAIN ss : ss[j].k = "yield" \/ \E b \in Range(Inside(ss[j])) : Yields(b)
IsGenerator(c, f) == \E d \in FnSig(c, f) : Yields(d.body)

\* builtin_to_stub: these names never reach a function of the program.  Of two
\* arms for one name the first counts: `abs`, `max` and `min` name functions
\* that the runtime lacks, as many others do (the last lines).  The functions
\* of texts, files, the clock and conversions, which the runtime has, are left
\* out, as are second names
BuiltinStub ==
    [print |-> "vredrs_print", print_str |-> "vredrs_print_str", input |-> "vredrs_input", len |-> "vredrs_len",
     str_len |-> "str_len", range |-> "range", make_list |-> "vredrs_make_list", make_dict |-> "vredrs_make_dict",
     make_set |-> "vredrs_make_set", make_tuple |-> "vredrs_make_tuple", make_range |-> "vredrs_make_range",
     append |-> "vredrs_list_append", sum |-> "sum", index |-> "vredrs_index", get_field |-> "vredrs_get_field",
     set_field |-> "vredrs_set_field", slice |-> "vredrs_slice", str |-> "vredrs_to_str", concat |-> "str_concat",
     repeat |-> "str_repeat", str_eq |-> "str_eq", str_ne |-> "str_ne", is |-> "vredrs_is", in |-> "vredrs_in",
     throw |-> "vredrs_throw", panic |-> "vredrs_panic", assert_fail |-> "vredrs_assert_fail",
     spawn |-> "vredrs_spawn", spawn_thread |-> "vredrs_spawn_thread", flush |-> "vredrs_flush",
     sorted |-> "list_sorted", reversed |-> "list_reversed", unique |-> "list_unique", first |-> "list_first",
     last |-> "list_last", take |-> "list_take", drop |-> "list_drop", list_max |-> "list_max", list_min |-> "list_min",
     clone |-> "list_copy", list_concat |-> "list_concat", list_contains |-> "list_contains_val",
     list_index_of |-> "list_index_of", is_empty |-> "list_is_empty", pop |-> "list_pop", gcd |-> "gcd_i64",
     channel |-> "vredrs_make_channel", send |-> "vredrs_send", recv |-> "vredrs_recv", close |-> "vredrs_close",
     mutex |-> "vredrs_make_mutex", lock |-> "vredrs_lock", unlock |-> "vredrs_unlock", exit |-> "sys_exit",
     abs |-> "vredrs_abs", max |-> "vredrs_max", min |-> "vredrs_min", sqrt |-> "vredrs_sqrt", pow |-> "vredrs_pow",
     set_add |-> "vredrs_set_add", int |-> "vredrs_to_int", float |-> "vredrs_to_float", reverse |-> "vredrs_reverse",
     sort_asc |-> "vredrs_sort_asc", sort_desc |-> "vredrs_sort_desc"]

\* expressions that are one runtime call on their operands, in order; the
\* constructors also pass the number of their elements, of so many operands each
RuntimeOf ==
    [list |-> "vredrs_make_list", tuple |-> "vredrs_make_tuple", set |-> "vredrs_make_set", dict |-> "vredrs_make_dict",
     pipe |-> "vredrs_pipe", slice |-> "vredrs_slice", await |-> "vredrs_await", propagate |-> "vredrs_try_propagate",
     spawn |-> "vredrs_spawn", coro |-> "vredrs_coro", resume |-> "vredrs_resume",
     reverse |-> "vredrs_reverse", asc |-> "vredrs_sort_asc", desc |-> "vredrs_sort_desc"]
Counted == [list |-> 1, tuple |-> 1, set |-> 1, dict |-> 2]

Dunder == [Add |-> "__add__", Sub |-> "__sub__", Mul |-> "__mul__", Div |-> "__div__", Mod |-> "__mod__",
           Eq |-> "__eq__", Ne |-> "__ne__", Lt |-> "__lt__", Le |-> "__le__", Gt |-> "__gt__", Ge |-> "__ge__"]
\* operators that are a runtime call whatever the operands
RuntimeOp == [In |-> "vredrs_in", Is |-> "vredrs_is", Repeated |-> "vredrs_repeated", Power |-> "vredrs_pow_i64"]
\* fold_i64: `and` and `or` of two literals are folded bit by bit
Folds(op, l, r) ==
    /\ l.o = "imm" /\ l.ty = "i64" /\ r.o = "imm" /\ r.ty = "i64"
    /\ op \in {"Div", "Mod", "FloorDiv"} => r.n # 0
    /\ op \notin DOMAIN RuntimeOp

(***************************************************************************)
(* Expressions                                                             *)
(***************************************************************************)

RECURSIVE LowerExpr(_, _)
RECURSIVE FreeIds(_)

\* the operands of es, evaluated from left to right
LowerArgs(c, es) ==
    Thread(LAMBDA a, e : LET r == LowerExpr(a.c, e) IN [c |-> r.c, vs |-> Append(a.vs, r.v)],
             [c |-> c, vs |-> <<>>], es)

\* collect_free_vars_expr: it does not look into other forms of expressions
FreeIds(e) ==
    CASE e.k = "id"     -> {e.x}
      [] e.k = "bin"    -> FreeIds(e.l) \cup FreeIds(e.r)
      [] e.k \in {"not", "neg", "len", "member"} -> FreeIds(e.e)
      [] e.k \in {"reverse", "asc", "desc"} -> FreeIds(e.es[1])
      [] e.k = "index"  -> FreeIds(e.e) \cup FreeIds(e.j)
      [] e.k = "call"   -> FreeIds(e.f) \cup UNION {FreeIds(e.args[j]) : j \in DOMAIN e.args}
      [] OTHER          -> {}

LowerIdent(c, x) ==
    IF x \in DOMAIN c.locals THEN Is(c, LocalReg(c, x)) ELSE RtDyn(c, "vredrs_load_global", <<ImmStr(x)>>)

\* jump to `to` if the condition is false
CondBranch(c, e, to) ==
    IF e.k = "bin" /\ e.op \in Conds
    THEN LET l == LowerExpr(c, e.l)
             r == LowerExpr(l.c, e.r)
         IN Emit(r.c, Branch(Negated(e.op), l.v, r.v, to))
    ELSE LET v == LowerExpr(c, e) IN Emit(v.c, Branch("Eq", v.v, ImmBool(FALSE), to))

\* both operands are lowered before the operator is looked at
LogicOp(c, op, l, r) ==
    LET end == Lab(c, 0)
        short == Lab(c, 1)
        res == Reg(c.nreg, "bool")
    IN Is(EmitAll(Fresh(FreshLabels(c, 2)),
                  <<Branch(IF op = "And" THEN "Eq" ELSE "Ne", l, ImmBool(FALSE), short),
                    Mov(res, r), Jump(end), Label(short),
                    Mov(res, ImmBool(op = "Or")), Label(end)>>),
          res)

CompareOp(c, op, l, r) ==
    IF Static(l.ty) /\ l.ty = r.ty
    THEN Is(Emit(Fresh(c), [i |-> "cmp", d |-> Reg(c.nreg, "bool"), cond |-> op, l |-> l, r |-> r]),
            Reg(c.nreg, "bool"))
    ELSE RtDyn(c, CmpStub[op], <<l, r>>)

ArithOp(c, op, l, r) ==
    LET ty == IF Static(l.ty) /\ l.ty = r.ty THEN l.ty ELSE "dyn"
    IN Is(Emit(Fresh(c), Bin(op, ~Static(ty), Reg(c.nreg, ty), l, r)), Reg(c.nreg, ty))

LowerBinary(c, e) ==
    LET l == LowerExpr(c, e.l)
        r == LowerExpr(l.c, e.r)
        ls == InferIsString(c, e.l) \/ l.v.ty = "str"
        rs == InferIsString(c, e.r) \/ r.v.ty = "str"
        cls == InferClass(r.c, e.l)
    IN CASE e.op = "Add" /\ (ls \/ rs) -> RtValue(r.c, "str_concat", <<l.v, r.v>>, "dyn", "str")
         [] e.op = "Mul" /\ ls         -> RtValue(r.c, "str_repeat", <<l.v, r.v>>, "dyn", "str")
         [] e.op = "Eq" /\ (ls \/ rs)  -> RtBool(r.c, "str_eq", <<l.v, r.v>>)
         [] e.op = "Ne" /\ (ls \/ rs)  -> RtBool(r.c, "str_ne", <<l.v, r.v>>)
         [] OTHER ->
              IF cls # "" /\ e.op \in DOMAIN Dunder /\ ClassHasMethod(c, cls, Dunder[e.op])
              THEN CallValue(r.c, <<cls, Dunder[e.op]>>, <<l.v, r.v>>, "dyn")
              ELSE IF Folds(e.op, l.v, r.v) THEN Is(r.c, ImmI64(Arith(e.op, l.v.n, r.v.n)))
              ELSE IF e.op \in {"And", "Or"} THEN LogicOp(r.c, e.op, l.v, r.v)
              ELSE IF e.op \in Conds THEN CompareOp(r.c, e.op, l.v, r.v)
              ELSE IF e.op \in DOMAIN RuntimeOp
              THEN LET ty == IF e.op = "Power" THEN "i64" ELSE "dyn" IN RtValue(r.c, RuntimeOp[e.op], <<l.v, r.v>>, ty, ty)
              ELSE ArithOp(r.c, IF e.op = "FloorDiv" THEN "Div" ELSE e.op, l.v, r.v)

LowerNeg(c, e) ==
    LET v == LowerExpr(c, e.e)
        ty == v.v.ty
    IN Is(Emit(Fresh(v.c), Bin("Sub", ~Static(ty), Reg(v.c.nreg, ty), ImmI64(0), v.v)), Reg(v.c.nreg, ty))

LowerNot(c, e) ==
    LET v == LowerExpr(c, e.e)
    IN IF Static(v.v.ty)
       THEN Is(Emit(Fresh(v.c), [i |-> "not", d |-> Reg(v.c.nreg, "bool"), s |-> v.v]), Reg(v.c.nreg, "bool"))
       ELSE RtBool(v.c, "vredrs_not", <<v.v>>)

\* `cond ? a : b` and `a ?? b`: one register written on either path
LowerTernary(c, e) ==
    LET k == CondBranch(FreshLabels(c, 2), e.c, Lab(c, 0))
        a == LowerExpr(k, e.a)
        res == a.c.nreg
        b == LowerExpr(EmitAll(Fresh(a.c), <<Mov(Reg(res, a.v.ty), a.v), Jump(Lab(c, 1)), Label(Lab(c, 0))>>), e.b)
    IN Is(EmitAll(b.c, <<Mov(Reg(res, b.v.ty), b.v), Label(Lab(c, 1))>>), Reg(res, "mixed"))

LowerCoalesce(c, e) ==
    LET a == LowerExpr(c, e.a)
        els == Lab(a.c, 0)
        end == Lab(a.c, 1)
        res == a.c.nreg
        b == LowerExpr(EmitAll(Fresh(FreshLabels(a.c, 2)),
                               <<Branch("Eq", a.v, Null, els), Mov(Reg(res, a.v.ty), a.v), Jump(end), Label(els)>>),
                       e.b)
    IN Is(EmitAll(b.c, <<Mov(Reg(res, b.v.ty), b.v), Label(end)>>), Reg(res, "mixed"))

LowerIndex(c, e) ==
    LET t == LowerExpr(c, e.e)
        j == LowerExpr(t.c, e.j)
    IN RtDyn(j.c, IF InferIsString(c, e.j) THEN "vredrs_get_field" ELSE "vredrs_index", <<t.v, j.v>>)

LowerMember(c, e) ==
    LET t == LowerExpr(c, e.e) IN RtDyn(t.c, "vredrs_get_field", <<t.v, ImmStr(e.m)>>)

LowerLen(c, e) ==
    LET v == LowerExpr(c, e.e)
    IN RtDyn(v.c, IF InferIsString(c, e.e) \/ v.v.ty = "str" THEN "str_len" ELSE "vredrs_len", <<v.v>>)

LowerRuntime(c, e) ==
    LET a == LowerArgs(c, e.es)
    IN RtDyn(a.c, RuntimeOf[e.k],
             (IF e.k \in DOMAIN Counted THEN <<ImmI64(Len(e.es) \div Counted[e.k])>> ELSE <<>>) \o a.vs)

\* "text {e} text": the parts become strings, then one string
LowerInterp(c, e) ==
    LET Part(a, part) ==
          LET v == LowerExpr(a.c, part.e)
              s == RtDyn(v.c, "vredrs_to_str", <<v.v>>)
          IN IF part.k = "text" THEN [a EXCEPT !.vs = Append(@, ImmStr(part.s))]
             ELSE [c |-> s.c, vs |-> Append(a.vs, s.v)]
        a == Thread(Part, [c |-> c, vs |-> <<>>], e.parts)
    IN RtDyn(a.c, "vredrs_str_concat_n", <<ImmI64(Len(e.parts))>> \o a.vs)

\* o?.m, o?.m(args) and o?[j], one call after the other
LowerOptional(c, e) ==
    LET Of == [member |-> "vredrs_optional_member", call |-> "vredrs_optional_method", index |-> "vredrs_optional_index"]
        Link(t, l) == LET a == LowerArgs(Fresh(t.c), l.es)
                          d == Reg(t.c.nreg, "dyn")
                      IN Is(Emit(a.c, Rt(<<d>>, Of[l.k], <<t.v>> \o (IF l.k = "index" THEN <<>> ELSE <<ImmStr(l.m)>>) \o a.vs)), d)
    IN Thread(Link, LowerExpr(c, e.e), e.links)

\* a bound left out is the literal 0
RangeEnd(e) == IF e.k = "range" THEN e.b ELSE IF e.b = <<>> THEN [k |-> "int", n |-> 0] ELSE e.b[1]
RangeStep(e) == IF e.k = "range" THEN <<>> ELSE e.by

\* the step is ignored
LowerRange(c, e) ==
    LET a == LowerArgs(c, <<e.a, RangeEnd(e)>>)
    IN RtDyn(a.c, "vredrs_make_range", a.vs \o <<ImmBool(e.incl)>>)

\* Cast and the Box or Unbox between the type of a value and that of its place
Convert(d, v) ==
    CASE Static(v.ty) /\ ~Static(d.ty) -> [i |-> "box", d |-> d, s |-> v, ty |-> v.ty]
      [] ~Static(v.ty) /\ Static(d.ty) -> [i |-> "unbox", d |-> d, s |-> v, ty |-> d.ty]
      [] OTHER -> Mov(d, v)

\* the static type, when the source has one, is what `as` names
LowerCast(c, e) ==
    LET v == LowerExpr(c, e.e)
        d == Reg(v.c.nreg, e.ty)
    IN Is(Emit(Fresh(v.c), IF v.v.ty = e.ty THEN Mov(d, v.v)
                           ELSE IF Static(e.ty) THEN [i |-> "unbox", d |-> d, s |-> v.v, ty |-> e.ty]
                           ELSE [i |-> "box", d |-> d, s |-> v.v, ty |-> v.v.ty]), d)

(***************************************************************************)
(* Loops over a container, the shape of for-in and of the comprehensions:  *)
(* the container and a position in registers of their own, the length      *)
(* asked for in every round                                                *)
(***************************************************************************)

IterHead(c, v, x, head, end) ==
    LET d == DeclareLocal([c EXCEPT !.nreg = @ + 2], x, "dyn")
        iter == Reg(c.nreg, "dyn")
        idx == Reg(c.nreg + 1, "i64")
        len == Reg(d.nreg, "i64")
    IN [c |-> EmitAll(Fresh(d),
                      <<Mov(iter, v), Mov(idx, ImmI64(0)), Label(head),
                        Rt(<<len>>, "vredrs_len", <<iter>>), Branch("Ge", idx, len, end),
                        Rt(<<Reg(d.locals[x].n, "dyn")>>, "vredrs_index", <<iter, idx>>)>>),
        idx |-> idx]

\* the loop variable is written back through a register of its own
Advance(c, v, step, head) ==
    LET next == Reg(c.nreg, v.ty)
    IN EmitAll(Fresh(c), <<Bin("Add", ~Static(v.ty), next, v, step), Mov(v, next), Jump(head)>>)

\* comprehensions of lists, sets and dicts: what is done with a kept element
Keep(c, e, res) ==
    LET a == LowerArgs(c, e.es)
    IN CASE e.of = "list" -> LET r == RtDyn(a.c, "vredrs_list_append", <<res>> \o a.vs) IN Emit(r.c, Mov(res, r.v))
         [] e.of = "set"  -> Emit(a.c, Rt(<<>>, "vredrs_set_add", <<res>> \o a.vs))
         [] e.of = "dict" -> Emit(a.c, Rt(<<>>, "vredrs_set_field", <<res>> \o a.vs))

LowerComprehension(c, e) ==
    LET made == RtDyn(c, IF e.of = "list" THEN "vredrs_make_list" ELSE IF e.of = "set" THEN "vredrs_make_set"
                         ELSE "vredrs_make_dict", <<ImmI64(0)>>)
        it == LowerExpr(made.c, e.it)
        head == Lab(it.c, 0)
        end == Lab(it.c, 1)
        skip == Lab(it.c, 2)
        h == IterHead(FreshLabels(it.c, 3), it.v, e.x, head, end)
        kept == IF e.cond = <<>> THEN Keep(h.c, e, made.v)
                ELSE Emit(Keep(CondBranch(h.c, e.cond[1], skip), e, made.v), Label(skip))
    IN Is(Emit(Advance(kept, h.idx, ImmI64(1), head), Label(end)), made.v)

(***************************************************************************)
(* Functions, lambdas and calls                                            *)
(***************************************************************************)

\* the state a body starts with: its name and its parameters in registers
Entered(c, fn, cls, params) ==
    LET P(a, p) == [Fresh(a) EXCEPT !.locals = Put(@, p.x, [n |-> a.nreg, ty |-> p.ty])]
    IN Thread(P, [c EXCEPT !.fn = fn, !.cls = cls, !.nreg = 0, !.nlab = 0, !.locals = <<>>,
                             !.code = <<>>, !.loops = <<>>], params)

Function(name, params, code) == [name |-> name, params |-> params, code |-> code]

\* what a nested body leaves to the one around it
Leaving(inner, outer) == [outer EXCEPT !.nlam = inner.nlam, !.lams = inner.lams]

\* captures are copied when the closure is made; the function reads them back
LowerLambda(c, e) ==
    LET name == <<"lambda", ToString(c.nlam)>>
        params == {e.params[j].x : j \in DOMAIN e.params}
        caps == SetToSeq((FreeIds(e.body) \ params) \cap DOMAIN c.locals)
        held == [j \in DOMAIN caps |-> LocalReg(c, caps[j])]
        made == RtDyn([c EXCEPT !.nlam = @ + 1], "vredrs_make_captures", <<ImmI64(Len(caps))>> \o held)
        clo == RtDyn(made.c, "vredrs_make_closure", <<Sym(name), made.v>>)
        dyn == [j \in DOMAIN caps |-> [x |-> caps[j], ty |-> "dyn"]]
        start == Entered([clo.c EXCEPT !.vclass = <<>>, !.vstr = {}], name, "",
                         <<[x |-> "captures", ty |-> "dyn"]>> \o dyn \o e.params)
        reads == [j \in DOMAIN caps |-> Rt(<<Reg(j, "dyn")>>, "vredrs_get_capture", <<Reg(0, "dyn"), ImmI64(j - 1)>>)]
        r == LowerExpr(EmitAll(start, reads), e.body)
        regs == <<0>> \o [j \in DOMAIN e.params |-> Len(caps) + j]
    IN Is([Leaving(r.c, clo.c) EXCEPT !.lams = Append(@, Function(name, regs, Append(r.c.code, RetVal(<<r.v>>))))],
          clo.v)

SelfOrNull(c) == IF "self" \in DOMAIN c.locals THEN LocalReg(c, "self") ELSE Null

\* ClassName(args): the class's own `new` or `__init__`; the object is the value
LowerConstruct(c, cls, args) ==
    LET obj == RtDyn(c, "vredrs_new_typed_object", <<ImmStr(cls)>>)
        own == MethodsOf(c, cls) \cap {"new", "__init__"}
    IN IF own = {} THEN obj
       ELSE LET a == LowerArgs(obj.c, args)
            IN Is(Emit(a.c, CallFn(<<>>, <<cls, IF "new" \in own THEN "new" ELSE "__init__">>, <<obj.v>> \o a.vs)), obj.v)

\* obj.m(args), Class.m(args), Class.new(args), super.m(args)
LowerMethodCall(c, mem, args) ==
    LET on == IF mem.e.k = "id" THEN mem.e.x ELSE ""
        parent == IF c.cls \in ClassNames(c) THEN ClassDef(c, c.cls).ext ELSE <<>>
        named(cls) == IF ClassHasMethod(c, cls, mem.m) THEN Owner(c, cls, mem.m) ELSE cls
        inferred == InferClass(c, mem.e)
    IN IF on = "super" /\ parent # <<>>
       THEN LET a == LowerArgs(c, args)
            IN CallValue(a.c, <<parent[1], mem.m>>, <<SelfOrNull(c)>> \o a.vs, "dyn")
       ELSE IF on \in ClassNames(c) /\ mem.m = "new"
       THEN LET obj == RtDyn(c, "vredrs_new_typed_object", <<ImmStr(on)>>)
                a == LowerArgs(obj.c, args)
            IN CallValue(a.c, <<named(on), "new">>, <<obj.v>> \o a.vs, "dyn")
       ELSE IF on \in ClassNames(c)
       THEN LET a == LowerArgs(c, args)
            IN CallValue(a.c, <<named(on), mem.m>>, <<SelfOrNull(c)>> \o a.vs, "dyn")
       ELSE LET recv == LowerExpr(c, mem.e)
                a == LowerArgs(recv.c, args)
            IN IF inferred # "" /\ ClassHasMethod(c, inferred, mem.m)
               THEN CallValue(a.c, <<Owner(c, inferred, mem.m), mem.m>>, <<recv.v>> \o a.vs, "dyn")
               ELSE RtDyn(a.c, "vredrs_method_call", <<recv.v, ImmStr(mem.m)>> \o a.vs)

LowerDynamicCall(c, e) ==
    LET callee == LowerExpr(c, e.f)
        a == LowerArgs(callee.c, e.args)
    IN Is(Emit(Fresh(a.c), CallDyn(<<Reg(a.c.nreg, "dyn")>>, callee.v, a.vs)), Reg(a.c.nreg, "dyn"))

\* __double__ and __square__: a product in place of a call
LowerProduct(c, e) ==
    LET a == LowerExpr(c, e.args[1])
        ty == a.v.ty
        by == IF e.f.x = "__double__" THEN ImmI64(2) ELSE a.v
    IN Is(Emit(Fresh(a.c), Bin("Mul", ~Static(ty), Reg(a.c.nreg, ty), a.v, by)), Reg(a.c.nreg, ty))

\* a name that is called, in this order: super, generator, class, a product,
\* local variable, builtin, function
LowerNamedCall(c, e, f) ==
    LET a == LowerArgs(c, e.args)
    IN IF f = "super" /\ c.cls \in ClassNames(c) /\ ClassDef(c, c.cls).ext # <<>>
       THEN RtDyn(a.c, "vredrs_super_call", a.vs)
       ELSE IF IsGenerator(c, f) THEN RtDyn(a.c, "vredrs_gen_create", <<Sym(<<f>>)>> \o a.vs)
       ELSE IF f \in ClassNames(c) THEN LowerConstruct(c, f, e.args)
       ELSE IF f \in {"__double__", "__square__"} /\ Len(e.args) = 1 THEN LowerProduct(c, e)
       ELSE IF f \in DOMAIN c.locals /\ FnSig(c, f) = {} THEN LowerDynamicCall(c, e)
       ELSE IF f \in DOMAIN BuiltinStub THEN RtDyn(a.c, BuiltinStub[f], a.vs)
       ELSE CallValue(a.c, <<f>>, a.vs, IF FnSig(c, f) = {} THEN "dyn" ELSE (CHOOSE d \in FnSig(c, f) : TRUE).ret)

LowerCall(c, e) ==
    CASE e.f.k = "member" -> LowerMethodCall(c, e.f, e.args)
      [] e.f.k = "id"     -> LowerNamedCall(c, e, e.f.x)
      [] OTHER            -> LowerDynamicCall(c, e)

(***************************************************************************)
(* Stores                                                                  *)
(***************************************************************************)

\* an element is stored over the head of its container: the index is
\* evaluated and dropped
StoreTo(c, t, v) ==
    CASE t.k = "id" -> LET d == IF t.x \in DOMAIN c.locals THEN c ELSE DeclareLocal(c, t.x, v.ty)
                       IN Emit(d, Convert(LocalReg(d, t.x), v))
      [] t.k = "index" -> LET a == LowerArgs(c, <<t.e, t.j>>)
                          IN Emit(a.c, [i |-> "store", addr |-> a.vs[1], s |-> v])
      [] t.k = "member" -> LET o == LowerExpr(c, t.e)
                           IN Emit(o.c, Rt(<<>>, "vredrs_set_field", <<o.v, ImmStr(t.m), v>>))
      [] t.k = "tuple" -> Emit(c, Rt(<<>>, "vredrs_destructure", <<v>>))

LowerExpr(c, e) ==
    CASE e.k = "int"    -> Is(c, ImmI64(e.n))
      [] e.k = "bool"   -> Is(c, ImmBool(e.b))
      [] e.k = "null"   -> Is(c, Null)
      [] e.k = "str"    -> Is(c, ImmStr(e.s))
      [] e.k = "id"     -> LowerIdent(c, e.x)
      [] e.k = "bin"    -> LowerBinary(c, e)
      [] e.k = "neg"    -> LowerNeg(c, e)
      [] e.k = "not"    -> LowerNot(c, e)
      [] e.k = "call"   -> LowerCall(c, e)
      [] e.k = "index"  -> LowerIndex(c, e)
      [] e.k = "member" -> LowerMember(c, e)
      [] e.k = "cond"   -> LowerTernary(c, e)
      [] e.k = "coalesce" -> LowerCoalesce(c, e)
      [] e.k = "cast"   -> LowerCast(c, e)
      [] e.k \in {"range", "rangeby"} -> LowerRange(c, e)
      [] e.k = "lambda" -> LowerLambda(c, e)
      [] e.k = "comp"   -> LowerComprehension(c, e)
      [] e.k = "len"    -> LowerLen(c, e)
      [] e.k = "interp" -> LowerInterp(c, e)
      [] e.k = "optional" -> LowerOptional(c, e)
      [] e.k = "spread" -> LowerExpr(c, e.e)
      [] e.k = "assign" -> LET v == LowerExpr(c, e.e) IN Is(StoreTo(v.c, e.to, v.v), v.v)
      [] e.k \in DOMAIN RuntimeOf -> LowerRuntime(c, e)

(***************************************************************************)
(* Statements                                                              *)
(***************************************************************************)

RECURSIVE LowerStmt(_, _)
LowerBody(c, ss) == Thread(LowerStmt, c, ss)

InLoop(c, cont, brk, body) ==
    LET r == LowerBody([c EXCEPT !.loops = Append(@, [cont |-> cont, brk |-> brk])], body)
    IN [r EXCEPT !.loops = Front(@)]

LowerReturn(c, s) ==
    IF s.es = <<>> THEN Emit(c, RetVal(<<>>))
    ELSE LET a == LowerArgs(c, s.es)
             t == RtDyn(a.c, "vredrs_make_tuple", <<ImmI64(Len(s.es))>> \o a.vs)
         IN IF Len(s.es) = 1 THEN Emit(a.c, RetVal(a.vs)) ELSE Emit(t.c, RetVal(<<t.v>>))

\* the printer is chosen by the type that the operand has here, and a variant
\* of it ends the line after the last operand; without operands one that
\* expects a number is called
LowerPrintln(c, s) ==
    LET P(a, e) == LET r == LowerExpr(a, e)
                   IN Emit(r.c, Rt(<<>>, IF r.v.ty = "str" THEN "vredrs_print_str" ELSE "vredrs_print", <<r.v>>))
    IN IF s.es = <<>> THEN Emit(c, Rt(<<>>, "vredrs_print", <<>>)) ELSE Thread(P, c, s.es)

\* a break or a continue with a label jumps to a label that nothing emits
LowerLeave(c, s, to) ==
    IF c.loops = <<>> THEN c
    ELSE Emit(c, Jump(IF s.label # <<>> THEN <<s.k, s.label[1]>> ELSE Last(c.loops)[to]))

LowerAssert(c, s) ==
    LET v == LowerExpr(c, s.e)
        fail == Lab(v.c, 0)
        end == Lab(v.c, 1)
    IN EmitAll(FreshLabels(v.c, 2),
               <<Branch("Eq", v.v, ImmBool(FALSE), fail), Jump(end), Label(fail),
                 Rt(<<>>, "vredrs_assert_fail", [j \in DOMAIN s.message |-> ImmStr(s.message[j])]), Label(end)>>)

\* statements that are one runtime call on their operands
EffectOf == [throw |-> "vredrs_throw", panic |-> "vredrs_panic", yield |-> "vredrs_yield", spawn |-> "vredrs_spawn",
             spawnthread |-> "vredrs_spawn_thread", flush |-> "vredrs_flush", paste |-> "vredrs_paste"]
LowerEffect(c, s) == LET a == LowerArgs(c, s.es) IN Emit(a.c, Rt(<<>>, EffectOf[s.k], a.vs))

\* the table is built of its columns' names and its cells, row by row
LowerTable(c, s) ==
    LET a == LowerArgs(c, FlattenSeq(s.rows))
        names == [j \in DOMAIN s.cols |-> ImmStr(s.cols[j])]
    IN Emit(a.c, Rt(<<>>, "vredrs_table_assign", <<ImmI64(Len(s.cols))>> \o names \o <<ImmI64(Len(s.rows))>> \o a.vs))

\* one runtime call on the cases, each behind the tag of its direction, then
\* the bodies of all of them
Tag == [send |-> 0, receive |-> 1, after |-> 2]
LowerSelect(c, s) ==
    LET Case(a, k) == LET r == LowerArgs(a.c, k.es) IN [c |-> r.c, vs |-> Append(a.vs, ImmI64(Tag[k.dir])) \o r.vs]
        a == Thread(Case, [c |-> c, vs |-> <<>>], s.cases)
        called == Emit(a.c, Rt(<<>>, "vredrs_select", <<ImmI64(Len(s.cases)), ImmI64(Len(s.default))>> \o a.vs))
    IN LowerBody(LowerBody(called, FlattenSeq([j \in DOMAIN s.cases |-> s.cases[j].body])), FlattenSeq(s.default))

LowerIf(c, s) ==
    LET end == Lab(c, 1)
        Arm(a, cond, body, next) == EmitAll(LowerBody(CondBranch(a, cond, next), body), <<Jump(end), Label(next)>>)
        then == Arm(FreshLabels(c, 2), s.c, s.then, Lab(c, 0))
        arms == Thread(LAMBDA a, e : Arm(FreshLabels(a, 1), e.c, e.body, Lab(a, 0)), then, s.elifs)
    IN Emit(LowerBody(arms, s.els), Label(end))

\* the else body stands before the break label, and the false condition
\* jumps to the break label
LowerWhile(c, s) ==
    LET cont == Lab(c, 0)
        brk == Lab(c, 1)
        head == Lab(c, 2)
        body == InLoop(CondBranch(Emit(FreshLabels(c, 3), Label(head)), s.c, brk), cont, brk, s.body)
    IN Emit(LowerBody(EmitAll(body, <<Label(cont), Jump(head)>>), s.els), Label(brk))

LowerLoop(c, s) ==
    LET body == InLoop(Emit(FreshLabels(c, 3), Label(Lab(c, 2))), Lab(c, 0), Lab(c, 1), s.body)
    IN Emit(LowerBody(EmitAll(body, <<Label(Lab(c, 0)), Jump(Lab(c, 2))>>), s.els), Label(Lab(c, 1)))

\* `for x from a to b` and `for x in a..b`: the bounds are operands, a
\* variable among them is read again in every round
CountedLoop(c, s, from, to, step, leave) ==
    LET cont == Lab(c, 0)
        brk == Lab(c, 1)
        head == Lab(c, 2)
        end == Lab(c, 3)
        ty == IF from.ty = "i64" /\ to.ty = "i64" THEN "i64" ELSE "dyn"
        d == DeclareLocal(FreshLabels(c, 4), s.x, ty)
        var == Reg(d.locals[s.x].n, ty)
        body == InLoop(EmitAll(d, <<Mov(var, from), Label(head), Branch(leave, var, to, end)>>), cont, brk, s.body)
    IN EmitAll(LowerBody(Advance(Emit(body, Label(cont)), var, step, head), s.els), <<Label(end), Label(brk)>>)

LowerForRange(c, s) ==
    LET a == LowerArgs(c, <<s.a, s.b>> \o s.step)
    IN CountedLoop(a.c, s, a.vs[1], a.vs[2], IF s.step = <<>> THEN ImmI64(1) ELSE a.vs[3], "Ge")

LowerForIn(c, s) ==
    IF s.e.k \in {"range", "rangeby"}
    THEN LET a == LowerArgs(c, <<s.e.a, RangeEnd(s.e)>> \o RangeStep(s.e))
         IN CountedLoop(a.c, s, a.vs[1], a.vs[2], IF RangeStep(s.e) = <<>> THEN ImmI64(1) ELSE a.vs[3],
                        IF s.e.incl THEN "Gt" ELSE "Ge")
    ELSE LET it == LowerExpr(c, s.e)
             cont == Lab(it.c, 0)
             brk == Lab(it.c, 1)
             end == Lab(it.c, 3)
             h == IterHead(FreshLabels(it.c, 4), it.v, s.x, Lab(it.c, 2), end)
             body == Emit(InLoop(h.c, cont, brk, s.body), Label(cont))
         IN EmitAll(LowerBody(Advance(body, h.idx, ImmI64(1), Lab(it.c, 2)), s.els), <<Label(end), Label(brk)>>)

BindLocal(c, x, v) == LET d == DeclareLocal(c, x, v.ty) IN Emit(d, Mov(LocalReg(d, x), v))

ElementOf(c, v, j) == RtDyn(c, "vredrs_index", <<v, ImmI64(j - 1)>>)

\* the test of a pattern and its bindings; `next` is where a mismatch goes.
\* Guards are not lowered; the patterns of other kinds always match
LowerPattern(c, p, v, next) ==
    CASE p.k = "lit"  -> LET l == LowerExpr(c, p.e) IN Emit(l.c, Branch("Ne", v, l.v, next))
      [] p.k = "bind" -> BindLocal(c, p.x, v)
      [] p.k \in {"seq", "tuple"} ->
           LET n == RtDyn(c, "vredrs_len", <<v>>)
               Part(a, j) == IF p.ps[j].k # "bind" THEN a
                             ELSE LET e == ElementOf(a, v, j) IN BindLocal(e.c, p.ps[j].x, e.v)
           IN Thread(Part, Emit(n.c, Branch("Ne", n.v, ImmI64(Len(p.ps)), next)), [j \in DOMAIN p.ps |-> j])
      [] OTHER -> c

LowerMatch(c, s) ==
    LET v == LowerExpr(c, s.e)
        n == Len(s.cases)
        Entry(j) == Lab(v.c, j)              \* n + 1: the else body
        Case(a, j) == Emit(LowerBody(LowerPattern(Emit(a, Label(Entry(j))), s.cases[j].p, v.v, Entry(j + 1)),
                                     s.cases[j].body), Jump(Lab(v.c, 0)))
        cases == Thread(Case, FreshLabels(v.c, n + 2), [j \in 1..n |-> j])
    IN Emit(LowerBody(Emit(cases, Label(Entry(n + 1))), s.els), Label(Lab(v.c, 0)))

\* the flag that a throw sets is read once, at the end of the body; the
\* catch label is an argument of push_catch that it does not use
LowerTry(c, s) ==
    LET catch == Lab(c, 0)
        end == Lab(c, 1)
        body == LowerBody(Emit(FreshLabels(c, 2), Rt(<<>>, "vredrs_push_catch", <<>>)), s.body)
        threw == RtBool(body, "vredrs_check_throw", <<>>)
        exit == EmitAll(threw.c, <<Branch("Ne", threw.v, ImmBool(FALSE), catch), Rt(<<>>, "vredrs_pop_catch", <<>>),
                                   Jump(end), Label(catch), Rt(<<>>, "vredrs_pop_catch", <<>>)>>)
        exc == RtDyn(exit, "vredrs_get_exception", <<>>)
        handled == IF s.var = <<>> THEN exit ELSE LowerBody(BindLocal(exc.c, s.var[1], exc.v), s.catch)
    IN LowerBody(Emit(handled, Label(end)), s.fin)

\* __enter__ and __exit__ are called by the name of the inferred class
LowerWith(c, s) ==
    LET m == LowerExpr(c, s.e)
        cls == InferClass(m.c, s.e)
        Has(d) == cls # "" /\ ClassHasMethod(c, cls, d)
        entered == IF Has("__enter__") THEN CallValue(m.c, <<cls, "__enter__">>, <<m.v>>, "dyn")
                   ELSE RtDyn(m.c, "vredrs_with_enter", <<m.v>>)
        bound == IF s.var = <<>> THEN entered.c ELSE BindLocal(entered.c, s.var[1], entered.v)
    IN Emit(LowerBody(bound, s.body),
            IF Has("__exit__") THEN CallFn(<<>>, <<cls, "__exit__">>, <<m.v>>)
            ELSE Rt(<<>>, "vredrs_with_exit", <<m.v>>))

(***************************************************************************)
(* Assignments, with what they teach the Lowerer about classes and strings *)
(***************************************************************************)

Learn(c, x, cls, isStr) ==
    [c EXCEPT !.vclass = IF cls = "" THEN Without(@, x) ELSE Put(@, x, cls),
              !.vstr = IF isStr THEN @ \cup {x} ELSE @ \ {x}]

LowerSet(c, s) ==
    LET v == LowerExpr(c, s.e)
        Part(a, j) == LET e == ElementOf(a, v.v, j)
                          stored == StoreTo(e.c, s.to[j], e.v)
                      IN IF s.to[j].k = "id" THEN Learn(stored, s.to[j].x, "", FALSE) ELSE stored
        one == StoreTo(v.c, s.to[1], v.v)
    IN IF Len(s.to) > 1 THEN Thread(Part, v.c, [j \in DOMAIN s.to |-> j])
       ELSE IF s.to[1].k # "id" THEN one
       ELSE Learn(one, s.to[1].x, InferClass(v.c, s.e), InferIsString(v.c, s.e) \/ v.v.ty = "str")

Variables(to) == LET ids == SelectSeq(to, LAMBDA t : t.k = "id") IN [j \in DOMAIN ids |-> ids[j].x]

\* the old value is read before the right side is evaluated only as an
\* operand: it names the register, which the right side may write.  Targets
\* that are no variables are left alone
LowerCompound(c, s) ==
    LET Into(a, x) ==
          LET old == IF x \in DOMAIN a.locals THEN LocalReg(a, x) ELSE Null
              r == LowerExpr(a, s.e)
              ty == IF Static(old.ty) /\ Static(r.v.ty) THEN old.ty ELSE "dyn"
              res == Reg(r.c.nreg, ty)
          IN BindLocal(Emit(Fresh(r.c), Bin(s.op, ~Static(ty), res, old, r.v)), x, res)
    IN Thread(Into, c, IF s.k = "compound" THEN <<s.x>> ELSE Variables(s.to))

\* `const` at the top level
LowerConst(c, s) == LET v == LowerExpr(c, s.e) IN BindLocal(v.c, s.x, v.v)

LowerStmt(c, s) ==
    CASE s.k = "set"      -> LowerSet(c, s)
      [] s.k \in {"compound", "compoundto"} -> LowerCompound(c, s)
      [] s.k = "const"    -> LowerConst(c, s)
      [] s.k = "del"      -> [c EXCEPT !.locals = FoldLeft(Without, @, Variables(s.to))]
      [] s.k = "pon"      -> LowerStmt(c, s.s)
      [] s.k = "table"    -> LowerTable(c, s)
      [] s.k = "expr"     -> LowerExpr(c, s.e).c
      [] s.k = "println"  -> LowerPrintln(c, s)
      [] s.k = "return"   -> LowerReturn(c, s)
      [] s.k = "break"    -> LowerLeave(c, s, "brk")
      [] s.k = "continue" -> LowerLeave(c, s, "cont")
      [] s.k = "if"       -> LowerIf(c, s)
      [] s.k = "while"    -> LowerWhile(c, s)
      [] s.k = "loop"     -> LowerLoop(c, s)
      [] s.k = "forrange" -> LowerForRange(c, s)
      [] s.k = "forin"    -> LowerForIn(c, s)
      [] s.k = "match"    -> LowerMatch(c, s)
      [] s.k = "try"      -> LowerTry(c, s)
      [] s.k = "with"     -> LowerWith(c, s)
      [] s.k = "assert"   -> LowerAssert(c, s)
      [] s.k = "select"   -> LowerSelect(c, s)
      [] s.k = "input"    -> LET r == RtDyn(c, "vredrs_input", s.prompt) IN StoreTo(r.c, s.to, r.v)
      [] s.k = "block"    -> LowerBody(c, s.body)            \* unsafe, directive and scope blocks
      [] s.k = "defer"    -> LowerStmt(c, s.s)
      [] s.k \in DOMAIN EffectOf -> LowerEffect(c, s)

(***************************************************************************)
(* The module                                                              *)
(***************************************************************************)

Closed(code) == IF code # <<>> /\ Last(code).i = "ret" THEN code ELSE Append(code, RetVal(<<>>))

\* what was learnt of classes and strings is kept from one function to the next
LowerFunction(a, f) ==
    LET r == LowerBody(Entered(a.c, <<f.name>>, "", f.params), f.body)
    IN [c |-> r, fns |-> Append(a.fns, Function(<<f.name>>, [j \in DOMAIN f.params |-> j - 1], Closed(r.code)))]

LowerClassMethod(a, cls, m) ==
    LET start == [a.c EXCEPT !.vclass = Put(<<>>, "self", cls), !.vstr = {}]
        r == LowerBody(Entered(start, <<cls, m.name>>, cls, <<[x |-> "self", ty |-> "dyn"]>> \o m.params), m.body)
    IN [c |-> Leaving(r, a.c),
        fns |-> Append(a.fns, Function(<<cls, m.name>>, [j \in 1..(Len(m.params) + 1) |-> j - 1], Closed(r.code)))]

\* lower_toplevel_as_main
LowerToplevel(c, ss) ==
    Function(<<"main">>, <<>>, Append(LowerBody(Entered(c, <<"main">>, "", <<>>), ss).code, RetVal(<<ImmI64(0)>>)))
\* the lambdas met so far join the module before the top-level statements are
\* lowered: a lambda of the top level is lowered and left out
Lowered(prog) ==
    LET Class(a, d) == Thread(LAMBDA b, m : LowerClassMethod(b, d.name, m), a, d.methods)
        classes == Thread(Class, [c |-> Lowerer(prog), fns |-> <<>>], prog.classes)
        fns == Thread(LowerFunction, classes, prog.fns)
        module == fns.fns \o fns.c.lams
    IN IF prog.main = <<>> \/ \E j \in DOMAIN prog.fns : prog.fns[j].name = "main" THEN module
       ELSE Append(module, LowerToplevel(fns.c, prog.main))
=============================================================================
