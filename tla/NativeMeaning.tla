--------------------------- MODULE NativeMeaning ---------------------------
(***************************************************************************)
(* The meaning of the programs that Lower.tla lowers, as an evaluator of   *)
(* the syntax tree: variables in an environment, objects and lists in a    *)
(* store, throws and returns as the way a block ended.  It knows no        *)
(* register, label, address or frame.                                      *)
(***************************************************************************)
EXTENDS Integers, Sequences, SequencesExt, FiniteSets, TLC

N(n) == [t |-> "n", n |-> n]
Txt(s) == [t |-> "s", s |-> s]
Ref(n) == [t |-> "ref", n |-> n]
Bool(b) == N(IF b THEN 1 ELSE 0)
Nil == N(0)
\* FoldLeft, written so that TLC evaluates each step before the next
Thread(op(_, _), base, seq) ==
    FoldLeft(LAMBDA a, x : CHOOSE r \in {op(y, x) : y \in {a}} : TRUE, base, seq)
Bind(f, x, v) == (x :> v) @@ f

RECURSIVE Eval(_, _, _)
RECURSIVE Run(_, _, _)
RECURSIVE RunStmt(_, _, _)

Gets(s, v) == [s |-> s, v |-> v]
Alloc(s, o) == Gets([s EXCEPT !.heap = Append(@, o)], Ref(Len(s.heap) + 1))
At(s, v) == s.heap[v.n]

EvalAll(s, es, p) ==
    Thread(LAMBDA a, e : LET r == Eval(a.s, e, p) IN [s |-> r.s, vs |-> Append(a.vs, r.v)],
             [s |-> s, vs |-> <<>>], es)

(***************************************************************************)
(* Calls                                                                   *)
(***************************************************************************)

Named(ds, x) == ds[CHOOSE j \in DOMAIN ds : ds[j].name = x]
Has(ds, x) == \E j \in DOMAIN ds : ds[j].name = x

RECURSIVE MethodOf(_, _, _)
MethodOf(p, cls, m) ==
    LET c == Named(p.classes, cls)
    IN IF Has(c.methods, m) THEN Named(c.methods, m) ELSE MethodOf(p, c.ext[1], m)

RECURSIVE Understands(_, _, _)
Understands(p, cls, m) ==
    LET c == Named(p.classes, cls)
    IN Has(c.methods, m) \/ (c.ext # <<>> /\ Understands(p, c.ext[1], m))

Bound(params, vs) == [x \in {params[j].x : j \in DOMAIN params} |-> vs[CHOOSE j \in DOMAIN params : params[j].x = x]]

\* a body in an environment of its own; the caller's comes back after it
Invoke(s, env, body, p) ==
    LET r == Run([s EXCEPT !.env = env], body, p)
    IN Gets([r EXCEPT !.env = s.env, !.end = IF @ = "return" THEN "normal" ELSE @],
            IF r.end = "return" THEN r.val ELSE Nil)

Send(s, o, m, vs, p) ==
    LET d == MethodOf(p, At(s, o).cls, m)
    IN Invoke(s, Bind(Bound(d.params, vs), "self", o), d.body, p)

Construct(s, cls, vs, p) ==
    LET o == Alloc(s, [cls |-> cls, f |-> <<>>])
    IN IF ~Understands(p, cls, "new") THEN o ELSE Gets(Send(o.s, o.v, "new", vs, p).s, o.v)

ApplyClosure(s, c, vs, p) ==
    LET f == At(s, c)
        r == Eval([s EXCEPT !.env = Bound(f.params, vs) @@ f.env], f.body, p)
    IN Gets([r.s EXCEPT !.env = s.env], r.v)

\* the numbers from a up to but not including b, by the step
Spaced(a, b, by) == LET n == (b - a + by - 1) \div by IN [j \in 1..(IF n < 0 THEN 0 ELSE n) |-> N(a + by * (j - 1))]

\* sequences of numbers as the functions of a list take and answer them
Ns(vs) == [j \in DOMAIN vs |-> vs[j].n]
Greatest(ns) == CHOOSE n \in Range(ns) : \A m \in Range(ns) : n >= m
Least(ns) == CHOOSE n \in Range(ns) : \A m \in Range(ns) : n <= m
Ascending(ns) == SortSeq(ns, <)
Once(ns) == FoldLeft(LAMBDA a, n : IF n \in Range(a) THEN a ELSE Append(a, n), <<>>, ns)
Position(ns, n) == IF n \in Range(ns) THEN (CHOOSE j \in DOMAIN ns : ns[j] = n) - 1 ELSE -1

OnChannel(s, f, c, vs) ==
    LET Q(xs) == [s EXCEPT !.heap[c.n].xs = xs]
        xs == At(s, c).xs
    IN CASE f = "send" -> Gets(Q(Append(xs, vs[2])), N(1))
         [] f = "recv" -> IF xs = <<>> THEN Gets(s, Nil) ELSE Gets(Q(Tail(xs)), Head(xs))
         [] f = "pop"  -> Gets(Q(Front(xs)), Last(xs))
         [] f = "append" -> Gets(Q(Append(xs, vs[2])), c)

BuiltinCall(s, f, vs) ==
    LET ns == Ns(At(s, vs[1]).xs)
        New(ms) == Alloc(s, [xs |-> [j \in DOMAIN ms |-> N(ms[j])]])
    IN CASE f = "__double__" -> Gets(s, N(2 * vs[1].n))
         [] f = "__square__" -> Gets(s, N(vs[1].n * vs[1].n))
         [] f = "len"    -> Gets(s, N(Len(ns)))
         [] f = "sum"    -> Gets(s, N(FoldLeft(+, 0, ns)))
         [] f = "range"  -> Alloc(s, [xs |-> Spaced(vs[1].n, vs[2].n, 1)])
         [] f = "sorted" -> New(Ascending(ns))
         [] f = "reversed" -> New(Reverse(ns))
         [] f = "unique" -> New(Once(ns))
         [] f = "clone"  -> New(ns)
         [] f = "take"   -> New(SubSeq(ns, 1, IF vs[2].n < Len(ns) THEN vs[2].n ELSE Len(ns)))
         [] f = "drop"   -> New(SubSeq(ns, vs[2].n + 1, Len(ns)))
         [] f = "list_concat" -> New(ns \o Ns(At(s, vs[2]).xs))
         [] f = "first"  -> Gets(s, N(Head(ns)))
         [] f = "last"   -> Gets(s, N(Last(ns)))
         [] f = "list_max" -> Gets(s, N(Greatest(ns)))
         [] f = "list_min" -> Gets(s, N(Least(ns)))
         [] f = "list_contains" -> Gets(s, Bool(vs[2].n \in Range(ns)))
         [] f = "list_index_of" -> Gets(s, N(Position(ns, vs[2].n)))
         [] f = "is_empty" -> Gets(s, Bool(ns = <<>>))
         [] f = "channel" -> Alloc(s, [xs |-> <<>>])
         [] f \in {"send", "recv", "pop", "append"} -> OnChannel(s, f, vs[1], vs)
         [] f = "mutex"  -> Alloc(s, [xs |-> <<>>])
         [] f \in {"lock", "unlock"} -> Gets(s, Nil)

EvalCall(s, e, p) ==
    IF e.f.k = "member"
    THEN LET o == Eval(s, e.f.e, p)
             a == EvalAll(o.s, e.args, p)
         IN Send(a.s, o.v, e.f.m, a.vs, p)
    ELSE IF e.f.k = "id" /\ e.f.x \notin DOMAIN s.env
    THEN LET a == EvalAll(s, e.args, p)
         IN IF Has(p.classes, e.f.x) THEN Construct(a.s, e.f.x, a.vs, p)
            ELSE IF Has(p.fns, e.f.x)
            THEN LET d == Named(p.fns, e.f.x) IN Invoke(a.s, Bound(d.params, a.vs), d.body, p)
            ELSE BuiltinCall(a.s, e.f.x, a.vs)
    ELSE LET c == Eval(s, e.f, p)
             a == EvalAll(c.s, e.args, p)
         IN ApplyClosure(a.s, c.v, a.vs, p)

(***************************************************************************)
(* Operators                                                               *)
(***************************************************************************)

\* division is toward zero
Quotient(a, b) == LET m == (IF a < 0 THEN -a ELSE a) \div (IF b < 0 THEN -b ELSE b)
                        IN IF (a < 0) = (b < 0) THEN m ELSE -m

BitOf(n, j) == (n \div 2 ^ j) % 2
\* the number below 256 whose bits satisfy holds
OfBits(holds(_)) == FoldLeft(LAMBDA sum, j : IF holds(j - 1) THEN sum + 2 ^ (j - 1) ELSE sum, 0, [j \in 1..8 |-> j])

OnNumbers(op, a, b) ==
    CASE op = "Add" -> N(a + b) [] op = "Sub" -> N(a - b) [] op = "Mul" -> N(a * b)
      [] op = "Div" -> N(Quotient(a, b)) [] op = "Mod" -> N(a - b * Quotient(a, b))
      [] op = "Lt" -> Bool(a < b) [] op = "Le" -> Bool(a <= b)
      [] op = "Gt" -> Bool(a > b) [] op = "Ge" -> Bool(a >= b)
      [] op = "Power" -> N(a ^ b) [] op = "Shl" -> N(a * 2 ^ b)
      [] op = "BitOr"  -> N(OfBits(LAMBDA j : BitOf(a, j) + BitOf(b, j) > 0))
      [] op = "BitXor" -> N(OfBits(LAMBDA j : BitOf(a, j) # BitOf(b, j)))
      [] op = "And" -> Bool(a # 0 /\ b # 0) [] op = "Or" -> Bool(a # 0 \/ b # 0)

RECURSIVE Times(_, _)
Times(s, n) == IF n <= 0 THEN "" ELSE s \o Times(s, n - 1)

Overloads == [Add |-> "__add__", Sub |-> "__sub__", Mul |-> "__mul__", Div |-> "__div__", Mod |-> "__mod__",
              Eq |-> "__eq__", Ne |-> "__ne__", Lt |-> "__lt__", Le |-> "__le__", Gt |-> "__gt__", Ge |-> "__ge__"]

EvalBinary(s, e, p) ==
    LET l == Eval(s, e.l, p)
        r == Eval(l.s, e.r, p)
        a == l.v
        b == r.v
    IN IF r.s.end # "normal" THEN r
       ELSE IF a.t = "ref" /\ "cls" \in DOMAIN At(r.s, a) /\ e.op \in DOMAIN Overloads
               /\ Understands(p, At(r.s, a).cls, Overloads[e.op])
            THEN Send(r.s, a, Overloads[e.op], <<b>>, p)
       ELSE Gets(r.s, CASE e.op = "Eq" -> Bool(a = b)
                        [] e.op = "Is" -> Bool(a = b)
                        [] e.op = "Ne" -> Bool(a # b)
                        [] e.op = "In" -> Bool(a \in Range(At(r.s, b).xs))
                        [] e.op = "Add" /\ a.t = "s" -> Txt(a.s \o b.s)
                        [] e.op = "Mul" /\ a.t = "s" -> Txt(Times(a.s, b.n))
                        [] OTHER -> OnNumbers(e.op, a.n, b.n))

(***************************************************************************)
(* Expressions                                                             *)
(***************************************************************************)

RECURSIVE Collect(_, _, _, _, _)
\* the elements of a comprehension over the values vs
Collect(s, e, vs, acc, p) ==
    IF vs = <<>> THEN [s |-> s, xs |-> acc]
    ELSE LET bound == [s EXCEPT !.env = Bind(@, e.x, vs[1])]
             c == IF e.cond = <<>> THEN Gets(bound, N(1)) ELSE Eval(bound, e.cond[1], p)
             v == Eval(c.s, e.es[1], p)
         IN IF c.v.n = 0 THEN Collect(c.s, e, Tail(vs), acc, p) ELSE Collect(v.s, e, Tail(vs), Append(acc, v.v), p)

\* the chain of o?.m or o?[j] from an object, of one link
Follow(e, v) == LET l == e.links[1]
                IN IF l.k = "index" THEN [k |-> "index", e |-> e.e, j |-> l.es[1]] ELSE [k |-> "member", e |-> e.e, m |-> l.m]

Store(s, t, v, p) ==
    IF t.k = "id" THEN [s EXCEPT !.env = Bind(@, t.x, v)]
    ELSE LET o == Eval(s, t.e, p) IN [o.s EXCEPT !.heap[o.v.n].f = Bind(@, t.m, v)]

EvalSome(s, e, p) ==
    CASE e.k = "int"  -> Gets(s, N(e.n))
      [] e.k = "bool" -> Gets(s, Bool(e.b))
      [] e.k = "null" -> Gets(s, Nil)
      [] e.k = "str"  -> Gets(s, Txt(e.s))
      [] e.k = "id"   -> Gets(s, s.env[e.x])
      [] e.k = "bin"  -> EvalBinary(s, e, p)
      [] e.k = "neg"  -> LET v == Eval(s, e.e, p) IN Gets(v.s, N(-v.v.n))
      [] e.k = "not"  -> LET v == Eval(s, e.e, p) IN Gets(v.s, Bool(v.v.n = 0))
      [] e.k = "call" -> EvalCall(s, e, p)
      [] e.k = "index" -> LET a == EvalAll(s, <<e.e, e.j>>, p)
                          IN Gets(a.s, IF a.vs[2].t = "s" THEN At(a.s, a.vs[1]).f[a.vs[2].s] ELSE At(a.s, a.vs[1]).xs[a.vs[2].n + 1])
      [] e.k = "dict" -> LET a == EvalAll(s, e.es, p)
                         IN Alloc(a.s, [cls |-> "", f |-> FoldLeft(LAMBDA f, j : Bind(f, a.vs[2 * j - 1].s, a.vs[2 * j]), <<>>,
                                                                   [j \in 1..(Len(e.es) \div 2) |-> j])])
      [] e.k = "interp" -> LET a == EvalAll(s, [j \in DOMAIN e.parts |-> e.parts[j].e], p)
                           IN Gets(a.s, Txt(FoldLeft(LAMBDA t, v : t \o (IF v.t = "s" THEN v.s ELSE ToString(v.n)), "", a.vs)))
      [] e.k = "optional" -> LET o == Eval(s, e.e, p) IN IF o.v = Nil THEN o ELSE Eval(o.s, Follow(e, o.v), p)
      [] e.k = "member" -> LET o == Eval(s, e.e, p) IN Gets(o.s, At(o.s, o.v).f[e.m])
      [] e.k = "cond" -> LET c == Eval(s, e.c, p) IN Eval(c.s, IF c.v.n # 0 THEN e.a ELSE e.b, p)
      [] e.k = "coalesce" -> LET a == Eval(s, e.a, p) IN IF a.v = Nil THEN Eval(a.s, e.b, p) ELSE a
      [] e.k = "cast" -> Eval(s, e.e, p)
      [] e.k = "range" -> LET a == EvalAll(s, <<e.a, e.b>>, p)
                          IN Alloc(a.s, [xs |-> Spaced(a.vs[1].n, a.vs[2].n + (IF e.incl THEN 1 ELSE 0), 1)])
      [] e.k = "rangeby" -> LET a == EvalAll(s, <<e.a>> \o e.b \o e.by, p)
                            IN Alloc(a.s, [xs |-> Spaced(a.vs[1].n, a.vs[2].n, a.vs[3].n)])
      [] e.k \in {"list", "tuple"} -> LET a == EvalAll(s, e.es, p) IN Alloc(a.s, [xs |-> a.vs])
      [] e.k = "slice" -> LET a == EvalAll(s, e.es, p)
                          IN Alloc(a.s, [xs |-> SubSeq(At(a.s, a.vs[1]).xs, a.vs[2].n + 1, a.vs[3].n)])
      [] e.k = "len"  -> LET v == Eval(s, e.e, p)
                         IN Gets(v.s, N(IF v.v.t = "s" THEN Len(v.v.s) ELSE Len(At(v.s, v.v).xs)))
      [] e.k = "lambda" -> Alloc(s, [params |-> e.params, body |-> e.body, env |-> s.env])
      [] e.k = "comp" -> LET it == Eval(s, e.it, p)
                             c == Collect(it.s, e, At(it.s, it.v).xs, <<>>, p)
                         IN Alloc(c.s, [xs |-> c.xs])
      [] e.k = "assign" -> LET v == Eval(s, e.e, p) IN Gets(Store(v.s, e.to, v.v, p), v.v)
Eval(s, e, p) == IF s.end = "normal" THEN EvalSome(s, e, p) ELSE Gets(s, Nil)

(***************************************************************************)
(* Statements                                                              *)
(***************************************************************************)

Run(s, ss, p) == Thread(LAMBDA a, x : IF a.end = "normal" THEN RunStmt(a, x, p) ELSE a, s, ss)

\* what a loop does with the way its body ended
Left(s) == [s EXCEPT !.end = IF @ = "break" THEN "normal" ELSE @]
Again(s) == s.end \in {"normal", "continue"}
Resumed(s) == [s EXCEPT !.end = "normal"]

RECURSIVE While(_, _, _, _)
While(s, c, body, p) ==
    LET t == Eval(s, c, p)
        r == Run(t.s, body, p)
    IN IF t.s.end # "normal" \/ t.v.n = 0 THEN t.s
       ELSE IF Again(r) THEN While(Resumed(r), c, body, p) ELSE Left(r)

RECURSIVE Over(_, _, _, _, _)
Over(s, x, vs, body, p) ==
    IF vs = <<>> THEN s
    ELSE LET r == Run([s EXCEPT !.env = Bind(@, x, vs[1])], body, p)
         IN IF Again(r) THEN Over(Resumed(r), x, Tail(vs), body, p) ELSE Left(r)

RunFor(s, st, p) ==
    LET a == EvalAll(s, <<st.a, st.b>> \o st.step, p)
    IN Over(a.s, st.x, Spaced(a.vs[1].n, a.vs[2].n, IF st.step = <<>> THEN 1 ELSE a.vs[3].n), st.body, p)

RunForIn(s, st, p) == LET it == Eval(s, st.e, p) IN Over(it.s, st.x, At(it.s, it.v).xs, st.body, p)

RunIf(s, st, p) ==
    LET RECURSIVE Arm(_, _)
        Arm(a, arms) == IF arms = <<>> THEN Run(a, st.els, p)
                        ELSE LET c == Eval(a, arms[1].c, p)
                             IN IF c.v.n # 0 \/ c.s.end # "normal" THEN Run(c.s, arms[1].body, p) ELSE Arm(c.s, Tail(arms))
    IN Arm(s, <<[c |-> st.c, body |-> st.then]>> \o st.elifs)

Matches(s, pat, v) ==
    CASE pat.k = "lit" -> Eval(s, pat.e, <<>>).v = v
      [] pat.k = "seq" -> Len(At(s, v).xs) = Len(pat.ps)
      [] OTHER -> TRUE
Bindings(s, pat, v) ==
    CASE pat.k = "bind" -> Bind(s.env, pat.x, v)
      [] pat.k = "seq"  -> Thread(LAMBDA env, j : IF pat.ps[j].k = "bind" THEN Bind(env, pat.ps[j].x, At(s, v).xs[j]) ELSE env,
                                    s.env, [j \in DOMAIN pat.ps |-> j])
      [] OTHER -> s.env
RunMatch(s, st, p) ==
    LET v == Eval(s, st.e, p)
        hits == {j \in DOMAIN st.cases : Matches(v.s, st.cases[j].p, v.v)}
        j == CHOOSE k \in hits : \A l \in hits : k <= l
    IN IF hits = {} THEN Run(v.s, st.els, p)
       ELSE Run([v.s EXCEPT !.env = Bindings(v.s, st.cases[j].p, v.v)], st.cases[j].body, p)

RunTry(s, st, p) ==
    LET b == Run(s, st.body, p)
        c == IF b.end = "throw" /\ st.var # <<>>
             THEN Run([Resumed(b) EXCEPT !.env = Bind(@, st.var[1], b.val)], st.catch, p) ELSE b
        f == Run(Resumed(c), st.fin, p)
    IN IF f.end = "normal" THEN [f EXCEPT !.end = c.end, !.val = c.val] ELSE f

RunWith(s, st, p) ==
    LET m == Eval(s, st.e, p)
        in == Send(m.s, m.v, "__enter__", <<>>, p)
        b == Run(IF st.var = <<>> THEN in.s ELSE [in.s EXCEPT !.env = Bind(@, st.var[1], in.v)], st.body, p)
    IN Send(b, m.v, "__exit__", <<>>, p).s

Shown(v) == IF v.t = "s" THEN [s |-> v.s] ELSE [n |-> v.n]

RunStmt(s, st, p) ==
    CASE st.k = "set" ->
           LET v == Eval(s, st.e, p)
           IN IF v.s.end # "normal" THEN v.s
              ELSE IF Len(st.to) = 1 THEN Store(v.s, st.to[1], v.v, p)
              ELSE Thread(LAMBDA a, j : Store(a, st.to[j], At(a, v.v).xs[j], p), v.s, [j \in DOMAIN st.to |-> j])
      [] st.k = "compound" ->
           LET v == EvalBinary(s, [op |-> st.op, l |-> [k |-> "id", x |-> st.x], r |-> st.e], p)
           IN IF v.s.end # "normal" THEN v.s ELSE [v.s EXCEPT !.env = Bind(@, st.x, v.v)]
      [] st.k = "const" -> LET v == Eval(s, st.e, p) IN [v.s EXCEPT !.env = Bind(@, st.x, v.v)]
      [] st.k = "expr"  -> Eval(s, st.e, p).s
      [] st.k = "println" ->
           LET a == EvalAll(s, st.es, p)
           IN IF a.s.end # "normal" THEN a.s ELSE [a.s EXCEPT !.out = @ \o [j \in DOMAIN a.vs |-> Shown(a.vs[j])]]
      [] st.k = "return" ->
           LET a == EvalAll(s, st.es, p)
               t == Alloc(a.s, [xs |-> a.vs])
           IN IF a.s.end # "normal" THEN a.s
              ELSE IF Len(st.es) = 1 THEN [a.s EXCEPT !.end = "return", !.val = a.vs[1]]
              ELSE [t.s EXCEPT !.end = "return", !.val = IF st.es = <<>> THEN Nil ELSE t.v]
      [] st.k \in {"break", "continue"} -> [s EXCEPT !.end = st.k]
      [] st.k \in {"throw", "panic"} ->
           LET a == EvalAll(s, st.es, p) IN [a.s EXCEPT !.end = st.k, !.val = a.vs[1]]
      [] st.k = "assert" -> LET v == Eval(s, st.e, p) IN IF v.v.n # 0 THEN v.s ELSE [v.s EXCEPT !.end = "panic"]
      [] st.k = "if"    -> RunIf(s, st, p)
      [] st.k = "while" -> While(s, st.c, st.body, p)
      [] st.k = "loop"  -> While(s, [k |-> "bool", b |-> TRUE], st.body, p)
      [] st.k = "forrange" -> RunFor(s, st, p)
      [] st.k = "forin" -> RunForIn(s, st, p)
      [] st.k = "match" -> RunMatch(s, st, p)
      [] st.k = "try"   -> RunTry(s, st, p)
      [] st.k = "with"  -> RunWith(s, st, p)
      [] st.k = "block" -> Run(s, st.body, p)

\* what the program prints and how it ends
MeaningOf(p) ==
    LET start == [env |-> <<>>, heap |-> <<>>, out |-> <<>>, end |-> "normal", val |-> Nil]
        r == IF Has(p.fns, "main") THEN Invoke(start, <<>>, Named(p.fns, "main").body, p).s ELSE Run(start, p.main, p)
    IN [out |-> r.out,
        end |-> CASE r.end = "throw" -> "uncaught" [] r.end = "panic" -> "panic" [] OTHER -> "done"]
=============================================================================
