------------------------------- MODULE Interp -------------------------------
(***************************************************************************)
(* The bytecode interpreter, src/bytecode/vm.rs, one instruction at a      *)
(* time.  A unit u is a compiled program; m is the interpreter.            *)
(* The interpreter runs code in two ways: run() executes the program, and  *)
(* a method, a lambda, a generator or a builtin that calls the program     *)
(* back runs a loop of its own, on the stack of Rust.  m.native is that    *)
(* stack: the loops in progress, and between them what each is to do with  *)
(* the value it gets.  Values and builtins are in Values and Builtins, the *)
(* compiler is Bytecode.                                                   *)
(***************************************************************************)
EXTENDS Builtins

Lang == INSTANCE Bytecode

(***************************************************************************)
(* The program                                                             *)
(***************************************************************************)

\* fn_has_yield: what it does not look into makes no generator
RECURSIVE Yields(_)
YieldsIn(ss) == \E j \in DOMAIN ss : Yields(ss[j])
Yields(s) ==
    CASE s.k = "yield" -> TRUE
      [] s.k = "if" -> YieldsIn(s.then) \/ YieldsIn(s.els) \/ \E j \in DOMAIN s.elifs : YieldsIn(s.elifs[j].body)
      [] s.k \in {"while", "loop", "forin", "forrange"} -> YieldsIn(s.body)
      [] OTHER -> FALSE

Names(params) == [j \in DOMAIN params |-> params[j].x]
NamesOf(fs) == {fs[j].name : j \in DOMAIN fs}
FirstNamed(fs, x) == fs[FirstOf({j \in DOMAIN fs : fs[j].name = x})]
LastNamed(fs, x) == fs[LastOf({j \in DOMAIN fs : fs[j].name = x})]

\* what the interpreter looks up in the program: the first class of a name,
\* the last function of a name; a function the compiler knows and the program
\* does not declare at its top (a lazy one, one in @if) has a body of no
\* statements
Unit(ds) ==
    LET c == Lang!Compile(ds)
        cs == SelectSeq(ds, LAMBDA d : d.d = "class")
        fs == SelectSeq(ds, LAMBDA d : d.d = "fn")
        classes == [j \in DOMAIN cs |-> cs[j].c]
        fns == [j \in DOMAIN fs |-> fs[j].f]
        Methods(ms) == [x \in NamesOf(ms) |-> Names(FirstNamed(ms, x).params)]
        Declared(f) == [params |-> Names(f.params), empty |-> f.body = <<>>]
    IN [code |-> c.code, entry |-> c.entry, pool |-> c.pool, failed |-> c.failed, functions |-> DOMAIN c.functions, decls |-> ds,
        lambdas |-> [x \in NamesOf(c.lambdas) |-> Names(FirstNamed(c.lambdas, x).params)],
        classes |-> [x \in NamesOf(classes) |->
                       LET k == FirstNamed(classes, x)
                       IN [ext |-> k.ext, fields |-> {k.fields[j] : j \in DOMAIN k.fields}, methods |-> Methods(k.methods)]],
        fns |-> [x \in NamesOf(fns) \cup DOMAIN c.functions |->
                   IF x \in NamesOf(fns) THEN Declared(LastNamed(fns, x)) ELSE [params |-> c.functions[x], empty |-> TRUE]],
        gens |-> {fns[j].name : j \in {i \in DOMAIN fns : YieldsIn(fns[i].body)}},
        main |-> "main" \in NamesOf(fns)]

RECURSIVE Chain(_, _)
\* a class and its ancestors, as far as the program defines them
Chain(u, c) ==
    IF c \notin DOMAIN u.classes THEN <<>>
    ELSE <<c>> \o (IF u.classes[c].ext = <<>> THEN <<>> ELSE Chain(u, u.classes[c].ext[1]))
Definers(u, c, method) == SelectSeq(Chain(u, c), LAMBDA x : method \in DOMAIN u.classes[x].methods)
Defines(u, c, method) == Definers(u, c, method) # <<>>
Bodies(u, c, method) == SelectSeq(Chain(u, c), LAMBDA x : (x \o "." \o method) \in DOMAIN u.entry)

(***************************************************************************)
(* The interpreter                                                         *)
(***************************************************************************)

Push(m, v) == [m EXCEPT !.stack = Append(@, v)]
\* the n-th value from the top
Peek(m, n) == m.stack[Len(m.stack) - n + 1]
TopOf(m) == Peek(m, 1)
Popped(m, n) == [m EXCEPT !.stack = SubSeq(@, 1, Len(@) - n)]
\* the last n values, in the order they were pushed
TopN(m, n) == SubSeq(m.stack, Len(m.stack) - n + 1, Len(m.stack))
Bound(m, x, v) == [m EXCEPT !.globals = (x :> v) @@ @]
\* [mutant] the cache stays
FlushedNever(m) == m
\* invalidate_global_cache
Flushed(m) == [m EXCEPT !.globals = m.cache @@ @, !.cache = <<>>, !.reach = 0]
Allocated(m, cls, fields) == [m EXCEPT !.heap = Append(@, [cls |-> cls, f |-> fields])]
NewObject(m) == Object(Len(m.heap) + 1)
ClassOf(m, v) == m.heap[v.o].cls
HasMethod(u, m, v, method) == v.t = "object" /\ Defines(u, ClassOf(m, v), method)

\* preprocess_top_level: every class, function and enum becomes a global
Declared(m, d) ==
    LET WithVariant(n, v) ==
            Bound(Allocated(n, d.name, ("__variant__" :> Str(v.name)) @@ ("__payload__" :> Tuple(<<>>))),
                  d.name \o "." \o v.name, NewObject(n))
    IN CASE d.d = "class" -> Bound(m, d.c.name, Class(d.c.name))
         [] d.d = "fn" -> Bound(m, d.f.name, Func(d.f.name))
         [] d.d = "enum" -> Lang!Thread(WithVariant, Bound(m, d.name, Str("<enum " \o d.name \o ">")), d.members)
         [] OTHER -> m
Preprocessed(u, m0) ==
    LET m == Lang!Thread(Declared, m0, u.decls)
    IN [m EXCEPT !.globals = @ @@ [x \in u.functions |-> Func(x)]]

Machine(u, turn) ==
    Preprocessed(u,
        [pc |-> 1, stack |-> <<>>, frames |-> <<[ret |-> 0, locals |-> <<>>, base |-> 0, defers |-> <<>>, name |-> ""]>>,
         handlers |-> <<>>, iters |-> <<>>, globals |-> <<>>, cache |-> <<>>, reach |-> 0, heap |-> <<>>, gens |-> <<>>,
         scopes |-> <<>>, closures |-> <<>>, native |-> <<>>, context |-> <<>>, buffer |-> <<>>, thrown |-> <<>>, fast |-> FALSE,
         frozen |-> {}, core |-> 0, turn |-> turn, stage |-> "top", out |-> <<>>, status |-> "running", error |-> ""])

\* a frame for the code at pc: the first k of the n slots are arguments
Slots(u, f) == Cardinality(DOMAIN u.entry[f].slots)
Locals(args, k, n) == [j \in 1..Greatest(k, n) |-> IF j <= k THEN Arg(args, j) ELSE Null]
Enter(m, pc, name, locals) ==
    [m EXCEPT !.frames = Append(@, [ret |-> m.pc, locals |-> locals, base |-> Len(m.stack), defers |-> <<>>, name |-> name]), !.pc = pc]
PopFrame(m, v) ==
    LET f == Last(m.frames)
    IN [m EXCEPT !.frames = Front(@), !.pc = f.ret, !.stack = Append(SubSeq(@, 1, Least(Len(@), f.base)), v)]

(***************************************************************************)
(* The stack of Rust                                                       *)
(***************************************************************************)

Then(m, k) == [m EXCEPT !.native = Append(@, k)]
Returned(m) == [m EXCEPT !.native = Front(@)]
\* the value goes onto the stack of the program
Expect(m) == Then(m, [k |-> "push"])
\* a loop that runs the next frame until it is popped; `saved` are globals to
\* put back then, those without a value to be removed
Nested(m, of, saved) == Then(m, [k |-> "loop", of |-> of, depth |-> Len(m.frames), pc |-> m.pc, saved |-> saved])
Saved(m, names) == [x \in names |-> IF x \in DOMAIN m.globals THEN <<m.globals[x]>> ELSE <<>>]
Restored(globals, saved) ==
    LET new == {x \in DOMAIN saved : saved[x] = <<>>}
    IN [x \in (DOMAIN globals \cup DOMAIN saved) \ new |-> IF x \in DOMAIN saved THEN saved[x][1] ELSE globals[x]]

\* what is put back when a loop ends, with a value or an error; the frames and
\* the captures of a lambda stay
Undo(m, k) ==
    LET n == [m EXCEPT !.pc = k.pc, !.globals = Restored(@, k.saved)]
    IN CASE k.of = "method" -> [n EXCEPT !.context = Front(@)]
         [] k.of = "generator" -> [n EXCEPT !.buffer = <<>>, !.scopes = Front(@)]
         [] k.of = "function" -> n

Catchable(msg) ==
    \/ StartsWith(msg, "throw:") \/ msg \in {"division by zero", "modulo by zero"}
    \/ \E s \in {"index", "out of bounds", "not found", "null", "type", "key", "cannot convert"} : Includes(msg, s)
\* an error that reaches run(): not from the arms it executes itself
Caught(m, msg) ==
    LET h == Last(m.handlers)
        text == IF StartsWith(msg, "throw:") THEN SubSeq(msg, 7, Len(msg)) ELSE msg
    IN IF m.fast \/ ~Catchable(msg) \/ m.handlers = <<>> THEN [m EXCEPT !.status = "failed", !.error = msg]
       ELSE [m EXCEPT !.handlers = Front(@), !.frames = SubSeq(@, 1, Least(Len(@), h.depth)), !.pc = h.to, !.thrown = <<>>,
                      !.stack = Append(@, IF m.thrown # <<>> THEN m.thrown[1] ELSE Str(text))]

\* the handle of an iterator is its place, from 0, on top of the stack
Advanced(m, h, v) == Push([m EXCEPT !.iters[h].n = @ + 1], v)
EndIter(m, h, end) ==
    LET n == [Popped(m, 1) EXCEPT !.pc = end] IN IF h \in DOMAIN m.iters THEN [n EXCEPT !.iters[h] = [v |-> Null, n |-> 0]] ELSE n

RECURSIVE Give(_, _, _), Fail(_, _, _), CallFunction(_, _, _, _), CallValue(_, _, _, _), Instantiate(_, _, _, _),
          CallMethodOnClass(_, _, _, _, _, _), CallBuiltin(_, _, _, _), Each(_, _, _), Settled(_, _), Matched(_, _, _), LiteralOf(_)

\* what map, filter and reduce make of one answer; the filter method keeps
\* every value that is not false, 0 or null
Received(m, k, v) ==
    LET keep == IF k.of = "filter" THEN Truthy(m, v) ELSE v \notin {Bool(FALSE), Num(0), Null}
    IN CASE k.of = "map" -> [k EXCEPT !.acc = Append(@, v)]
         [] k.of = "reduce" -> [k EXCEPT !.acc = v]
         [] OTHER -> IF keep THEN [k EXCEPT !.acc = Append(@, k.item)] ELSE k

\* the innermost call of the Rust stack gets its value
Give(u, m0, v) ==
    LET k == Last(m0.native)
        m == Returned(m0)
        over == v = Null \/ (v.t = "exception" /\ v.msg = "StopIteration")
    IN CASE k.k = "push" -> Push(m, v)
         [] k.k = "keep" -> Give(u, m, k.v)
         [] k.k = "ctor" -> Give(u, m, IF v.t = "object" THEN v ELSE k.v)
         [] k.k = "show" -> [m EXCEPT !.out = Append(@, ToStr(m, v))]
         [] k.k = "next" -> IF over THEN EndIter(m, k.h, k.end) ELSE Advanced(m, k.h, v)
         [] k.k = "each" -> Each(u, m, Received(m, k, v))
         [] k.k = "core" -> Give(u, [m EXCEPT !.core = @ - 1], v)
\* ... or an error, which unwinds it; printing and iterating swallow errors
Fail(u, m0, msg) ==
    LET k == Last(m0.native)
        m == Returned(m0)
    IN IF m0.native = <<>> THEN Caught(m0, msg)
       ELSE CASE k.k = "loop" -> Fail(u, Undo(m, k), msg)
              [] k.k = "show" -> [m EXCEPT !.out = Append(@, ToStr(m, k.v))]
              [] k.k = "next" -> EndIter(m, k.h, k.end)
              [] OTHER -> Fail(u, m, msg)
Answer(u, m, r) == IF r.ok THEN Give(u, m, r.v) ELSE Fail(u, m, r.msg)

(***************************************************************************)
(* Calls                                                                   *)
(***************************************************************************)

\* call_method_on_class: `self` is a global while the method runs; a method
\* whose name is also a generator's has no body here
CallMethodOnClass(u, m0, c, recv, method, args) ==
    LET m == Flushed(m0)
        owners == Definers(u, c, method)
        bodies == Bodies(u, c, method)
        explicit == u.classes[owners[1]].methods[method]
        params == IF explicit # <<>> /\ explicit[1] = "self" THEN Tail(explicit) ELSE explicit
        body == bodies[1] \o "." \o method
        in == [Bound(Nested(m, "method", Saved(m, {"self"})), "self", recv) EXCEPT !.context = Append(@, c)]
    IN CASE owners = <<>> -> Fail(u, m, "method '" \o c \o "." \o method \o "' not found")
         [] owners # <<>> /\ (method \in u.gens \/ bodies = <<>>) -> Give(u, m, Null)
         [] OTHER -> Enter(in, u.entry[body].pc, method, Locals(args, Len(params), Slots(u, body)))
CallMethod(u, m, v, method, args) == CallMethodOnClass(u, m, ClassOf(m, v), v, method, args)

\* call_function.  A name without a body that a variable of another function
\* hides is called through that variable.  The captures of a lambda are globals
\* while it runs; a generator runs to its end first.
CallFunction(u, m0, f, args) ==
    LET m == Flushed(m0)
        closure == f \in DOMAIN m.closures
        body == IF closure THEN m.closures[f].of ELSE f
        caps == IF closure THEN m.closures[f].caps ELSE <<>>
        params == IF closure THEN u.lambdas[body] ELSE u.fns[f].params
        given == [x \in {params[j] : j \in DOMAIN params} |-> Arg(args, LastOf({j \in DOMAIN params : params[j] = x}))]
        empty == ~closure /\ (f \notin DOMAIN u.fns \/ u.fns[f].empty)
        alias == FieldOf(m.globals, f)
        scoped == IF closure THEN [m EXCEPT !.scopes = Append(@, caps)] ELSE m
        collecting == [m EXCEPT !.buffer = <<<<>>>>, !.scopes = Append(@, given)]
        in == Nested(scoped, "function", Saved(m, DOMAIN caps))
    IN CASE f \in Lang!Builtins -> CallBuiltin(u, m, f, args)
         [] f \notin Lang!Builtins /\ empty /\ alias.t = "func" /\ alias # Func(f) -> CallFunction(u, m, alias.f, args)
         [] f \notin Lang!Builtins /\ ~closure /\ f \notin DOMAIN u.fns /\ (alias.t # "func" \/ alias = Func(f)) ->
              Fail(u, m, "function '" \o f \o "' not defined (not in program or any imported module)")
         [] OTHER ->
              CASE f \in u.gens -> Enter(Nested(collecting, "generator", <<>>), u.entry[f].pc, f, Locals(args, Len(args), Slots(u, f)))
                [] f \notin u.gens /\ body \notin DOMAIN u.entry -> Give(u, scoped, Null)
                [] OTHER -> Enter([in EXCEPT !.globals = caps @@ @], u.entry[body].pc, f, Locals(args, Len(params), Slots(u, body)))

CallValue(u, m, f, args) ==
    CASE f.t = "func" -> CallFunction(u, m, f.f, args)
      [] f.t = "class" -> Instantiate(u, m, f.c, args)
      [] OTHER -> Fail(u, m, "cannot call " \o Debug(f))

\* instantiate_class: the fields are null whatever their defaults
Instantiate(u, m0, c, args) ==
    LET fields == UNION {u.classes[x].fields : x \in ToSet(Chain(u, c))}
        obj == NewObject(m0)
        m == Allocated(m0, c, [x \in fields |-> Null])
    IN CASE Defines(u, c, "__init__") -> CallMethodOnClass(u, Then(m, [k |-> "keep", v |-> obj]), c, obj, "__init__", args)
         [] ~Defines(u, c, "__init__") /\ Defines(u, c, "new") ->
              CallMethodOnClass(u, Then(m, [k |-> "ctor", v |-> obj]), c, obj, "new", args)
         [] OTHER -> Give(u, m, obj)

\* the function is called on the values in turn
Each(u, m, k) ==
    LET item == Head(k.rest)
        next == Then(m, [k EXCEPT !.rest = Tail(@), !.item = item])
    IN IF k.rest = <<>> THEN Give(u, m, IF k.of = "reduce" THEN k.acc ELSE List(k.acc))
       ELSE CallValue(u, next, k.f, IF k.of = "reduce" THEN <<k.acc, item>> ELSE <<item>>)
Over(of, f, es, acc) == [k |-> "each", of |-> of, f |-> f, rest |-> es, item |-> Null, acc |-> acc]

OnGenerator(u, m, g, name) ==
    LET r == Resumed(m.gens[g], Null)
    IN CASE name \in GenResumes -> Give(u, [m EXCEPT !.gens[g] = r.g], r.v)
         [] name \in {"reset", "rewind"} -> Give(u, [m EXCEPT !.gens[g] = GenRewound(@)], Null)
         [] OTHER -> Answer(u, m, GenMethod(m.gens[g], name))
OnValue(u, m, v, name, args) ==
    CASE v.t = "object" -> CallMethod(u, m, v, name, args)
      [] v.t = "str" -> Answer(u, m, StrMethod(v.s, name, args))
      [] v.t = "list" /\ name = "reduce" -> Each(u, m, Over("reduce", Arg(args, 1), v.es, Arg(args, 2)))
      [] v.t = "list" /\ name \in {"map", "filter"} -> Each(u, m, Over(IF name = "map" THEN "map" ELSE "keep", Arg(args, 1), v.es, <<>>))
      [] v.t = "list" /\ name \notin {"map", "filter", "reduce"} -> Answer(u, m, ListMethod(m, v.es, name, args))
      [] v.t = "dict" -> Answer(u, m, DictMethod(m, v, name, args))
      [] v.t = "generator" -> OnGenerator(u, m, v.g, name)
HasMethods == {"object", "str", "list", "dict", "generator"}
\* v.m(...), and the same behind ?.
AstMethodCall(u, m, v, name, args) ==
    CASE v.t \in HasMethods -> OnValue(u, m, v, name, args)
      [] v.t = "class" /\ name = "new" -> Instantiate(u, m, v.c, args)
      [] v.t = "class" /\ name # "new" -> Fail(u, m, "cannot call static method '" \o name \o "' on class '" \o v.c \o "'")
      [] OTHER -> Give(u, m, Null)
CallMethodOnValue(u, m, v, name, args) ==
    IF v.t \in HasMethods THEN OnValue(u, Flushed(m), v, name, args)
    ELSE Fail(u, Flushed(m), "cannot call method '" \o name \o "' on " \o Debug(v))
GetIndex(u, m, v, i) ==
    CASE HasMethod(u, m, v, "__getitem__") -> CallMethod(u, m, v, "__getitem__", <<i>>)
      [] v.t = "object" /\ ~HasMethod(u, m, v, "__getitem__") -> Answer(u, m, CannotIndex(v, i))
      [] OTHER -> Answer(u, m, IndexGet(m, v, i))

\* the builtins that call the program back, or change what values share
Impure == {"map", "filter", "Ok", "freeze", "resume", "optional_method", "optional_index", "__yield__", "__with_enter__",
           "__with_exit__", "exit"}
ImpureBuiltin(u, m, f, args) ==
    LET v == Arg(args, 1)
        w == Arg(args, 2)
        rest == SubSeq(args, 3, Len(args))
        g == Resumed(m.gens[v.g], Num(0))
    IN CASE f \in {"map", "filter"} -> Each(u, m, Over(f, v, Elements(m, w), <<>>))
         [] f = "Ok" -> Give(u, Allocated(m, "Ok", [x \in {"__value__"} |-> v]), NewObject(m))
         [] f = "freeze" -> Give(u, [m EXCEPT !.frozen = @ \cup {<<v.t, ToStr(m, v)>>}], v)
         [] f = "resume" -> IF v.t = "generator" THEN Give(u, [m EXCEPT !.gens[v.g] = g.g], g.v) ELSE Give(u, m, Num(0))
         [] f = "optional_method" -> IF v = Null THEN Give(u, m, Null) ELSE CallMethodOnValue(u, m, v, ToStr(m, w), rest)
         [] f = "optional_index" -> IF v = Null THEN Give(u, m, Null) ELSE GetIndex(u, m, v, w)
         [] f = "__yield__" -> Give(u, [m EXCEPT !.buffer = [j \in DOMAIN @ |-> Append(@[j], v)]], Null)
         [] f = "__with_enter__" -> IF v.t = "object" THEN CallMethod(u, m, v, "__enter__", <<>>) ELSE Give(u, m, v)
         [] f = "__with_exit__" ->
              IF v.t = "object" THEN CallMethod(u, Then(m, [k |-> "keep", v |-> Null]), v, "__exit__", <<Null>>) ELSE Give(u, m, Null)
         [] f = "exit" -> [m EXCEPT !.status = "exited"]
Overriding == [contains |-> "__contains__", pow_op |-> "__pow__"]
\* call_builtin_value: the version of the standard library is preferred, not
\* from within one
CallBuiltin(u, m, f, args) ==
    LET core == "core_" \o f
        delegated == m.core = 0 /\ core \in DOMAIN u.fns
        own == f \in DOMAIN Overriding /\ HasMethod(u, m, Arg(args, 1), Overriding[f])
    IN CASE delegated -> CallFunction(u, [Then(m, [k |-> "core"]) EXCEPT !.core = 1], core, args)
         [] ~delegated /\ own -> CallMethod(u, m, args[1], Overriding[f], <<Arg(args, 2)>>)
         [] ~delegated /\ f \in Impure -> ImpureBuiltin(u, m, f, args)
         [] ~delegated /\ ~own /\ f \in PureBuiltins -> Answer(u, m, PureBuiltin(m, f, args))
         [] OTHER -> Fail(u, m, "bytecode VM: unknown builtin '" \o f \o "'")

(***************************************************************************)
(* Patterns and closures                                                   *)
(***************************************************************************)

\* eval_literal_expr; what is no literal is null
LiteralOf(e) ==
    CASE e.k = "int" -> Num(e.n) [] e.k = "bool" -> Bool(e.b) [] e.k = "str" -> Str(e.s) [] e.k = "float" -> ParsedFloat(e.s)[1]
      [] e.k = "list" -> List([j \in DOMAIN e.es |-> LiteralOf(e.es[j])])
      [] OTHER -> Null

\* pattern_matches: whether the value fits, and the interpreter with the names
\* bound on the way, as globals that the cache does not know of
Fits(m, yes) == [m |-> m, yes |-> yes]
MatchedAll(m, ps, vs) ==
    Lang!Thread(LAMBDA r, j : IF r.yes THEN Matched(r.m, ps[j], vs[j]) ELSE r, Fits(m, Len(ps) = Len(vs)), [j \in DOMAIN ps |-> j])
SequenceOf == [seq |-> "list", tuple |-> "tuple"]
Matched(m, p, v) ==
    LET f == m.heap[v.o].f
        variant == v.t = "object" /\ ClassOf(m, v) = p.type /\ FieldOf(f, "__variant__") = Str(p.variant)
        payload == FieldOf(f, "__payload__")
    IN CASE p.k = "any" -> Fits(m, TRUE)
         [] p.k = "lit" -> Fits(m, Equal(m, LiteralOf(p.e), v))
         [] p.k = "bind" -> Fits(Bound(m, p.x, v), TRUE)
         [] p.k \in DOMAIN SequenceOf -> IF v.t = SequenceOf[p.k] THEN MatchedAll(m, p.ps, v.es) ELSE Fits(m, FALSE)
         [] p.k = "or" -> Lang!Thread(LAMBDA r, q : IF r.yes THEN r ELSE Matched(r.m, q, v), Fits(m, FALSE), p.ps)
         [] p.k = "variant" ->
              IF v = Str(p.variant) THEN Fits(m, TRUE)
              ELSE IF variant /\ p.ps # <<>> /\ payload.t = "tuple" THEN MatchedAll(m, p.ps, payload.es) ELSE Fits(m, variant)

\* the variables of the function around a lambda, where its code is under the
\* name of the frame: not those of a method or of another lambda
MakeClosure(u, m, lambda) ==
    LET frame == Last(m.frames)
        slots == IF frame.name \in DOMAIN u.entry THEN u.entry[frame.name].slots ELSE <<>>
        here == [x \in {y \in DOMAIN slots : slots[y] \in DOMAIN frame.locals} |-> frame.locals[slots[x]]]
        caps == here @@ FoldLeft(LAMBDA a, s : s @@ a, <<>>, m.scopes)
        name == lambda \o "#" \o ToString(Cardinality(DOMAIN m.closures))
    IN Push([m EXCEPT !.closures = (name :> [of |-> lambda, caps |-> caps]) @@ @], Func(name))

(***************************************************************************)
(* Instructions                                                            *)
(***************************************************************************)

ConstantOps == {"ConstInt", "ConstFloat", "ConstBool", "ConstNull", "ConstStr", "NewList", "NewTuple", "NewDict"}
StackOps == {"Pop", "Dup", "Swap", "Nop"}
VariableOps == {"LoadLocal", "StoreLocal", "LoadGlobal", "StoreGlobal"}
FieldOps == {"LoadField", "StoreField", "IndexGet", "IndexSet"}
ComparisonOps == {"Eq", "Ne", "Lt", "Le", "Gt", "Ge"}
ArithmeticOps == {"Add", "Sub", "Mul", "Div", "FloorDiv", "Mod"}
UnaryOps == {"Neg", "Not"}
JumpOps == {"Jump", "JumpIfFalse", "JumpIfTrue"}
CallOps == {"CallByName", "Call", "CallMethod", "SuperCall", "CallBuiltin"}
ReturnOps == {"Return", "DeferPush", "Halt"}
LoopOps == {"Iter", "IterNext"}
HandlerOps == {"PushHandler", "PopHandler", "Throw"}
OtherOps == {"Yield", "MakeClosure", "MatchPattern", "Print", "Newline"}
\* what run() executes itself: an error there ends the program
FastOps == {"Add", "Sub", "Mul", "Return"} \cup ComparisonOps

Constant(m, i) ==
    LET pairs == TopN(m, 2 * i.a)
        Put(d, j) == Insert(d, ToStr(m, pairs[2 * j - 1]), pairs[2 * j])
    IN CASE i.op = "ConstInt" -> Push(m, Num(i.a)) [] i.op = "ConstBool" -> Push(m, Bool(i.a)) [] i.op = "ConstNull" -> Push(m, Null)
         [] i.op = "ConstStr" -> Push(m, Str(i.a)) [] i.op = "ConstFloat" -> Push(m, ParsedFloat(i.a)[1])
         [] i.op = "NewList" -> Push(Popped(m, i.a), List(TopN(m, i.a)))
         [] i.op = "NewTuple" -> Push(Popped(m, i.a), Tuple(TopN(m, i.a)))
         \* the pairs are popped: the first of two with one key stays
         [] i.op = "NewDict" -> Push(Popped(m, 2 * i.a), FoldLeft(Put, Dict(<<>>), Reverse([j \in 1..i.a |-> j])))
OnStack(m, i) ==
    CASE i.op = "Pop" -> Popped(m, Least(1, Len(m.stack))) [] i.op = "Dup" -> Push(m, TopOf(m))
      [] i.op = "Swap" -> Push(Push(Popped(m, 2), TopOf(m)), Peek(m, 2)) [] i.op = "Nop" -> m

\* run() reads and writes globals through a cache, by the place of the name in
\* the string pool; a nested loop does not
Variable(u, m, i) ==
    LET frame == Last(m.frames)
        d == Len(m.frames)
        v == TopOf(m)
        direct == m.native # <<>>
        cached == i.a \in DOMAIN m.cache
        at == u.pool[i.a]
    IN CASE i.op = "LoadLocal" -> Push(m, Arg(frame.locals, i.a))
         [] i.op = "StoreLocal" ->
              [Popped(m, 1) EXCEPT !.frames[d].locals = [j \in 1..Greatest(Len(@), i.a) |-> IF j = i.a THEN v ELSE Arg(@, j)]]
         [] i.op = "LoadGlobal" ->
              LET w == FieldOf(m.globals, i.a)
              IN IF direct \/ at >= m.reach THEN Push(m, w)
                 ELSE IF cached THEN Push(m, m.cache[i.a]) ELSE Push([m EXCEPT !.cache = (i.a :> w) @@ @], w)
         [] i.op = "StoreGlobal" ->
              IF direct THEN Bound(Popped(m, 1), i.a, v)
              ELSE LET n == [Popped(m, 1) EXCEPT !.cache = (i.a :> v) @@ @, !.reach = Greatest(@, at + 1)]
                   IN IF cached THEN n ELSE Bound(n, i.a, v)

\* of StoreField the object is on top of the value; it stays on the stack
OnField(u, m, i) ==
    LET a == TopOf(m)
        b == Peek(m, 2)
        c == Peek(m, 3)
        Wrong == Fail(u, Popped(m, 2), "cannot set field '" \o i.a \o "' on " \o TypeOf(m, a))
    IN CASE i.op = "LoadField" -> Push(Popped(m, 1), Field(m, a, i.a))
         [] i.op = "StoreField" ->
              IF HasMethod(u, m, a, "__setattr__")
              THEN CallMethod(u, Then(Expect(Popped(m, 2)), [k |-> "keep", v |-> a]), a, "__setattr__", <<Str(i.a), b>>)
              ELSE CASE a.t = "object" -> Push([Popped(m, 2) EXCEPT !.heap[a.o].f = (i.a :> b) @@ @], a)
                     [] a.t = "dict" -> Push(Popped(m, 2), Insert(a, i.a, b))
                     [] OTHER -> Wrong
         [] i.op = "IndexGet" -> GetIndex(u, Expect(Popped(m, 2)), b, a)
         [] i.op = "IndexSet" ->
              IF HasMethod(u, m, c, "__setitem__")
              THEN CallMethod(u, Then(Expect(Popped(m, 3)), [k |-> "keep", v |-> c]), c, "__setitem__", <<b, a>>)
              ELSE Answer(u, Expect(Popped(m, 3)), IndexSet(m, c, b, a))

Dunder == [Add |-> "__add__", Sub |-> "__sub__", Mul |-> "__mul__", Div |-> "__div__", FloorDiv |-> "__floordiv__", Mod |-> "__mod__",
           Eq |-> "__eq__", Ne |-> "__ne__", Lt |-> "__lt__", Gt |-> "__gt__", Le |-> "__le__", Ge |-> "__ge__"]
Computed(m, op, a, b) ==
    LET fast == m.native = <<>>
    IN CASE op = "Add" -> IF fast THEN FastAdd(m, a, b) ELSE Ok(SlowAdd(a, b))
         [] op = "Sub" -> IF fast THEN FastSub(a, b) ELSE Ok(SlowSub(a, b))
         [] op = "Mul" -> IF fast THEN FastMul(a, b) ELSE Ok(SlowMul(a, b))
         [] op \in {"Div", "FloorDiv", "Mod"} -> Division(op, a, b)
         [] op = "Eq" -> Ok(Bool(Equal(m, a, b))) [] op = "Ne" -> Ok(Bool(~Equal(m, a, b)))
         [] op \in ComparisonOps \ {"Eq", "Ne"} -> Ok(Ordered(op, a, b))
\* the class of either operand may define the operator; run() does not ask
\* where a string is added
Binary(u, m0, op) ==
    LET b == TopOf(m0)
        a == Peek(m0, 2)
        m == Expect(Popped(m0, 2))
        plain == m0.native = <<>> /\ op = "Add" /\ (a.t = "str" \/ b.t = "str")
        by == SelectSeq(<<<<a, b>>, <<b, a>>>>, LAMBDA p : HasMethod(u, m, p[1], Dunder[op]))
    IN IF by # <<>> /\ ~plain THEN CallMethod(u, m, by[1][1], Dunder[op], <<by[1][2]>>) ELSE Answer(u, m, Computed(m0, op, a, b))
Unary(u, m, op) ==
    LET v == TopOf(m)
    IN CASE op = "Not" -> Push(Popped(m, 1), Bool(~Truthy(m, v)))
         [] op = "Neg" -> IF HasMethod(u, m, v, "__neg__") THEN CallMethod(u, Expect(Popped(m, 1)), v, "__neg__", <<>>)
                          ELSE Push(Popped(m, 1), Negated(v))

Jumped(m, i) ==
    LET yes == Truthy(m, TopOf(m))
    IN CASE i.op = "Jump" -> [m EXCEPT !.pc = i.a]
         [] i.op = "JumpIfFalse" -> IF yes THEN Popped(m, 1) ELSE [Popped(m, 1) EXCEPT !.pc = i.a]
         [] i.op = "JumpIfTrue" -> IF yes THEN [Popped(m, 1) EXCEPT !.pc = i.a] ELSE Popped(m, 1)

IsClass(u, m, x) == x \in DOMAIN u.classes \/ FieldOf(m.globals, x).t = "class"
Calling(u, m0, i) ==
    LET args == TopN(m0, i.n)
        m == Popped(m0, i.n)
        f == TopOf(m)
        within == Expect(Popped(m, 1))
        parent == IF m.context # <<>> /\ Last(m.context) \in DOMAIN u.classes THEN u.classes[Last(m.context)].ext ELSE <<>>
    IN CASE i.op = "CallByName" /\ i.a \in DOMAIN u.entry /\ i.a \notin u.gens ->
              Enter(m, u.entry[i.a].pc, i.a, Locals(args, i.n, Slots(u, i.a)))
         [] i.op = "CallByName" /\ (i.a \notin DOMAIN u.entry \/ i.a \in u.gens) ->
              IF IsClass(u, m, i.a) THEN Instantiate(u, Expect(m), i.a, args) ELSE CallFunction(u, Expect(m), i.a, args)
         \* a callable object is called on a new one, without its fields
         [] i.op = "Call" /\ f.t = "object" ->
              IF HasMethod(u, m, f, "__call__")
              THEN CallMethod(u, Allocated(within, ClassOf(m, f), <<>>), NewObject(m), "__call__", args)
              ELSE Fail(u, within, "object is not callable (no __call__ method)")
         [] i.op = "Call" /\ f.t # "object" -> CallValue(u, within, f, args)
         [] i.op = "CallMethod" -> AstMethodCall(u, within, f, i.a, args)
         \* the parent of the class of the object, not of the class of the method
         [] i.op = "SuperCall" ->
              IF parent = <<>> THEN Push(m, Null)
              ELSE CallMethodOnClass(u, Expect(m), parent[1], FieldOf(m.globals, "self"), i.a, args)
         [] i.op = "CallBuiltin" -> CallBuiltin(u, Expect(m), i.a, args)

\* the program ends, or the caller goes on
Finished(m, v) == IF Len(m.frames) <= 1 THEN [m EXCEPT !.status = "done"] ELSE PopFrame(m, v)
\* the next deferred block of a function that returned v, or its caller
NextBlock(m) ==
    LET k == Last(m.native)
    IN IF k.rest = <<>> THEN LET n == [Returned(m) EXCEPT !.pc = k.cont] IN Finished(Popped(n, Least(1, Len(n.stack))), k.v)
       ELSE [m EXCEPT !.native[Len(m.native)].rest = Tail(@), !.pc = Head(k.rest)]
\* a block ends at a Nop, at the end of the code, or where the Return was
Settled(u, m) ==
    IF m.native = <<>> \/ m.status # "running" THEN m
    ELSE LET k == Last(m.native)
         IN IF k.k = "defers" /\ (m.pc > Len(u.code) \/ m.pc = k.cont \/ u.code[m.pc].op = "Nop") THEN Settled(u, NextBlock(m)) ELSE m

\* the frame of the loop is gone: the value is on the stack
Leave(u, m0) ==
    LET k == Last(m0.native)
        v == TopOf(m0)
        m == Undo(Popped(Returned(m0), 1), k)
        vals == IF m0.buffer = <<>> THEN <<>> ELSE m0.buffer[1]
        made == [m EXCEPT !.gens = Append(@, [vals |-> vals, at |-> 0, done |-> FALSE, ret |-> <<v>>])]
    IN IF k.of = "generator" THEN Give(u, made, Generator(Len(made.gens))) ELSE Give(u, m, v)
\* run() runs what the function deferred, the last first; a nested loop does not
ReturnValue(u, m0) ==
    LET v == IF m0.stack = <<>> THEN Null ELSE TopOf(m0)
        m == Popped(m0, Least(1, Len(m0.stack)))
        d == Len(m.frames)
        defers == m.frames[d].defers
        k == Last(m.native)
        back == PopFrame(m, v)
        blocks == [k |-> "defers", rest |-> Reverse(defers), cont |-> m.pc, v |-> v]
    IN IF m.native = <<>>
       THEN IF defers = <<>> THEN Finished(m, v) ELSE NextBlock(Then([Push(m, v) EXCEPT !.frames[d].defers = <<>>], blocks))
       ELSE CASE d <= 1 -> [m EXCEPT !.pc = k.cont]
              [] d > 1 /\ k.k = "loop" /\ d - 1 <= k.depth -> Leave(u, back)
              [] OTHER -> back
Returning(u, m, i) ==
    CASE i.op = "Return" -> ReturnValue(u, m)
      [] i.op = "DeferPush" -> [m EXCEPT !.frames[Len(m.frames)].defers = Append(@, i.a)]
      [] i.op = "Halt" -> [m EXCEPT !.status = "done"]

Looping(u, m, i) ==
    LET top == TopOf(m)
        h == IF top.t = "int" THEN top.n + 1 ELSE 0
        it == IF h \in DOMAIN m.iters THEN m.iters[h] ELSE [v |-> Null, n |-> 0]
        es == Elements(m, it.v)
        r == Resumed(m.gens[it.v.g], Null)
        more == m.gens[it.v.g].at < Len(m.gens[it.v.g].vals)
    IN CASE i.op = "Iter" -> Push([Popped(m, 1) EXCEPT !.iters = Append(@, [v |-> top, n |-> 0])], Num(Len(m.iters)))
         [] i.op = "IterNext" ->
              CASE top.t # "int" -> [Popped(m, 1) EXCEPT !.pc = i.a]
                [] top.t = "int" /\ HasMethod(u, m, it.v, "next") ->
                     CallMethod(u, Then(Flushed(m), [k |-> "next", h |-> h, end |-> i.a]), it.v, "next", <<>>)
                [] top.t = "int" /\ it.v.t = "generator" ->
                     IF more THEN Advanced([m EXCEPT !.gens[it.v.g] = r.g], h, r.v) ELSE EndIter(m, h, i.a)
                [] OTHER -> IF it.n < Len(es) THEN Advanced(m, h, es[it.n + 1]) ELSE EndIter(m, h, i.a)

Handling(u, m, i) ==
    CASE i.op = "PushHandler" -> [m EXCEPT !.handlers = Append(@, [to |-> i.a, depth |-> Len(m.frames)])]
      [] i.op = "PopHandler" -> [m EXCEPT !.handlers = SubSeq(@, 1, Len(@) - 1)]
      [] i.op = "Throw" -> Fail(u, [Popped(m, 1) EXCEPT !.thrown = <<TopOf(m)>>], "throw:" \o ToStr(m, TopOf(m)))

Other(u, m, i) ==
    LET v == TopOf(m)
        r == Matched(Popped(m, 1), i.a, v)
    IN CASE i.op = "Yield" -> IF m.buffer = <<>> THEN m ELSE [Popped(m, 1) EXCEPT !.buffer[1] = Append(@, v)]
         [] i.op = "MakeClosure" -> MakeClosure(u, m, i.a)
         [] i.op = "MatchPattern" -> Push(r.m, Bool(r.yes))
         [] i.op = "Print" ->
              IF HasMethod(u, m, v, "__str__") THEN CallMethod(u, Then(Popped(m, 1), [k |-> "show", v |-> v]), v, "__str__", <<>>)
              ELSE [Popped(m, 1) EXCEPT !.out = Append(@, ToStr(m, v))]
         [] i.op = "Newline" -> [m EXCEPT !.out = Append(@, "\n")]

Exec(u, m, i) ==
    CASE i.op \in ConstantOps -> Constant(m, i) [] i.op \in StackOps -> OnStack(m, i)
      [] i.op \in VariableOps -> Variable(u, m, i) [] i.op \in FieldOps -> OnField(u, m, i)
      [] i.op \in ComparisonOps \cup ArithmeticOps -> Binary(u, m, i.op) [] i.op \in UnaryOps -> Unary(u, m, i.op)
      [] i.op \in JumpOps -> Jumped(m, i) [] i.op \in CallOps -> Calling(u, m, i)
      [] i.op \in ReturnOps -> Returning(u, m, i) [] i.op \in LoopOps -> Looping(u, m, i)
      [] i.op \in HandlerOps -> Handling(u, m, i) [] i.op \in OtherOps -> Other(u, m, i)

\* the instruction at pc, by run() or by the innermost nested loop
AtEnd(u, m) == m.pc > Len(u.code)
Step(u, m) ==
    LET i == u.code[m.pc]
        next == [m EXCEPT !.pc = @ + 1, !.fast = IF m.native = <<>> THEN i.op \in FastOps ELSE @]
    IN IF AtEnd(u, m) THEN [m EXCEPT !.status = "done"] ELSE Settled(u, Exec(u, next, i))

\* run_bytecode_vm: once the top level is done, main is called by code that is
\* added behind the program; the globals are set again first
CallOfMain == <<[op |-> "CallByName", a |-> "main", n |-> 0], [op |-> "Pop", a |-> 0, n |-> 0]>>
WithMain(u) ==
    [u EXCEPT !.code = @ \o CallOfMain, !.pool = @ @@ [x \in {"main"} |-> Cardinality(DOMAIN u.pool)]]
AtMain(u, m) == [Preprocessed(u, m) EXCEPT !.pc = Len(u.code) + 1, !.stage = "main", !.status = "running"]
=============================================================================
