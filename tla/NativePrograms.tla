--------------------------- MODULE NativePrograms ---------------------------
(***************************************************************************)
(* Programs for the native back end: constructors of the syntax Lower.tla  *)
(* lowers, and the families the runs enumerate.  Served are the programs   *)
(* inside the language that the back end serves: operands of `and` and     *)
(* `or` without effects, a throw last in its try body, a catch with a      *)
(* variable, no jump out of a try, no loop with an else, no defer, no      *)
(* label on a break, no store into an element, at most three fields, at    *)
(* most six parameters, methods called where the class of the receiver is  *)
(* inferred and not overridden where an inherited method calls them,       *)
(* lambdas inside a function.                                              *)
(***************************************************************************)
EXTENDS Integers, Sequences, SequencesExt, FiniteSets, TLC

I(n) == [k |-> "int", n |-> n]
B(b) == [k |-> "bool", b |-> b]
S(s) == [k |-> "str", s |-> s]
V(x) == [k |-> "id", x |-> x]
Nothing == [k |-> "null"]
Op(op, l, r) == [k |-> "bin", op |-> op, l |-> l, r |-> r]
Minus(e) == [k |-> "neg", e |-> e]
Inverted(e) == [k |-> "not", e |-> e]
Dot(e, m) == [k |-> "member", e |-> e, m |-> m]
Apply(f, es) == [k |-> "call", f |-> f, args |-> es]
Call(f, es) == Apply(V(f), es)
Elem(e, j) == [k |-> "index", e |-> e, j |-> j]
Ternary(c, a, b) == [k |-> "cond", c |-> c, a |-> a, b |-> b]
OrElse(a, b) == [k |-> "coalesce", a |-> a, b |-> b]
As(e, ty) == [k |-> "cast", e |-> e, ty |-> ty]
To(a, b, incl) == [k |-> "range", a |-> a, b |-> b, incl |-> incl]
ToBy(a, b, by) == [k |-> "rangeby", a |-> a, b |-> <<b>>, incl |-> FALSE, by |-> <<by>>]
Items(es) == [k |-> "list", es |-> es]
Cut(e, a, b) == [k |-> "slice", es |-> <<e, a, b>>]
SizeOf(e) == [k |-> "len", e |-> e]
Entries(kvs) == [k |-> "dict", es |-> kvs]
Text(s) == [k |-> "text", s |-> s, e |-> S(s)]
Shows(e) == [k |-> "value", e |-> e]
Interp(parts) == [k |-> "interp", parts |-> parts]
Optional(e, link) == [k |-> "optional", e |-> e, links |-> <<link>>]
Field(m) == [k |-> "member", m |-> m, es |-> <<>>]
Place1(j) == [k |-> "index", es |-> <<j>>]
Param(x) == [x |-> x, ty |-> "dyn"]
Typed(x) == [x |-> x, ty |-> "i64"]
Lambda(params, e) == [k |-> "lambda", params |-> params, body |-> e]
Comp(e, x, it, cond) == [k |-> "comp", of |-> "list", es |-> <<e>>, x |-> x, it |-> it, cond |-> cond]

Set(x, e) == [k |-> "set", to |-> <<V(x)>>, e |-> e]
SetAll(xs, e) == [k |-> "set", to |-> [j \in DOMAIN xs |-> V(xs[j])], e |-> e]
PutField(o, m, e) == [k |-> "set", to |-> <<Dot(o, m)>>, e |-> e]
Bump(x, op, e) == [k |-> "compound", x |-> x, op |-> op, e |-> e]
BumpAll(targets, op, e) == [k |-> "compoundto", to |-> targets, op |-> op, e |-> e]
Say(es) == [k |-> "println", es |-> es]
Do(e) == [k |-> "expr", e |-> e]
Give(e) == [k |-> "return", es |-> <<e>>]
GiveAll(es) == [k |-> "return", es |-> es]
If(c, then, els) == [k |-> "if", c |-> c, then |-> then, elifs |-> <<>>, els |-> els]
IfElif(c, then, c2, then2, els) ==
    [k |-> "if", c |-> c, then |-> then, elifs |-> << [c |-> c2, body |-> then2] >>, els |-> els]
While(c, body) == [k |-> "while", c |-> c, body |-> body, els |-> <<>>]
ForTo(x, a, b, body) == [k |-> "forrange", x |-> x, a |-> a, b |-> b, step |-> <<>>, body |-> body, els |-> <<>>]
ForBy(x, a, b, by, body) == [ForTo(x, a, b, body) EXCEPT !.step = <<by>>]
ForIn(x, e, body) == [k |-> "forin", x |-> x, e |-> e, body |-> body, els |-> <<>>]
Forever(body) == [k |-> "loop", body |-> body, els |-> <<>>]
Leave(k) == [k |-> k, label |-> <<>>]
Raise(e) == [k |-> "throw", es |-> <<e>>]
Panic(e) == [k |-> "panic", es |-> <<e>>]
Require(e) == [k |-> "assert", e |-> e, message |-> <<"'m'">>]
Try(body, x, catch, fin) == [k |-> "try", body |-> body, var |-> <<x>>, catch |-> catch, fin |-> fin]
Match(e, cases, els) == [k |-> "match", e |-> e, cases |-> cases, els |-> els]
Lit(e, body) == [p |-> [k |-> "lit", e |-> e], body |-> body]
Binds(x, body) == [p |-> [k |-> "bind", x |-> x], body |-> body]
Parts(xs, body) == [p |-> [k |-> "seq", ps |-> [j \in DOMAIN xs |-> [k |-> "bind", x |-> xs[j]]]], body |-> body]
With(e, x, body) == [k |-> "with", e |-> e, var |-> <<x>>, body |-> body]
Block(body) == [k |-> "block", body |-> body]

Fn(name, params, body) == [name |-> name, params |-> params, ret |-> "dyn", body |-> body]
FnI64(name, params, body) == [name |-> name, params |-> params, ret |-> "i64", body |-> body]
Class(name, ext, methods) == [name |-> name, ext |-> ext, methods |-> methods]
Program(classes, fns, main) == [classes |-> classes, fns |-> fns, main |-> main]

(***************************************************************************)
(* A class with a constructor, an accessor, operators, a guard for `with`, *)
(* and a class that extends it                                             *)
(***************************************************************************)

Self(m) == Dot(V("self"), m)
Animal == Class("A", <<>>,
    <<Fn("new", <<Param("a")>>, <<PutField(V("self"), "a", V("a"))>>),
      Fn("get", <<>>, <<Give(Self("a"))>>),
      Fn("twice", <<Param("n")>>, <<Set("t", Apply(Self("get"), <<>>)), Give(Op("Add", Op("Add", V("t"), V("t")), V("n")))>>),
      Fn("plus", <<Param("n")>>, <<Give(Op("Add", Self("a"), V("n")))>>),
      Fn("__add__", <<Param("o")>>, <<Give(Op("Add", Self("a"), Dot(V("o"), "a")))>>),
      Fn("__lt__", <<Param("o")>>, <<Give(Op("Lt", Self("a"), Dot(V("o"), "a")))>>),
      Fn("__enter__", <<>>, <<Say(<<S("in")>>), Give(Self("a"))>>),
      Fn("__exit__", <<>>, <<Say(<<S("out")>>)>>)>>)
Dog == Class("D", <<"A">>,
    <<Fn("new", <<Param("a"), Param("b")>>, <<PutField(V("self"), "a", V("a")), PutField(V("self"), "b", V("b"))>>),
      Fn("get", <<>>, <<Give(Op("Mul", Self("a"), Self("b")))>>)>>)

Inc == Fn("inc", <<Param("n")>>, <<Give(Op("Add", V("n"), I(1)))>>)
Twice == FnI64("twice", <<Typed("n")>>, <<Give(Op("Add", V("n"), V("n")))>>)
Fact == Fn("fact", <<Param("n")>>,
           <<If(Op("Le", V("n"), I(1)), <<Give(I(1))>>, <<>>), Give(Op("Mul", V("n"), Call("fact", <<Op("Sub", V("n"), I(1))>>)))>>)
Fib == Fn("fib", <<Param("n")>>,
          <<If(Op("Lt", V("n"), I(2)), <<Give(V("n"))>>, <<>>),
            Give(Op("Add", Call("fib", <<Op("Sub", V("n"), I(1))>>), Call("fib", <<Op("Sub", V("n"), I(2))>>)))>>)
Both == Fn("both", <<Param("n")>>, <<GiveAll(<<V("n"), Op("Mul", V("n"), I(2))>>)>>)
Raises == Fn("raises", <<Param("n")>>, <<Say(<<V("n")>>), Raise(Op("Add", V("n"), I(1)))>>)
Counts == Fn("counts", <<Param("n")>>, <<If(B(TRUE), <<[k |-> "yield", es |-> <<V("n")>>]>>, <<>>)>>)
Helpers == <<Inc, Twice, Fact, Fib, Both, Raises, Counts>>

InMain(body) == Program(<<Animal, Dog>>, Append(Helpers, Fn("main", <<>>, body)), <<>>)
AtTop(body) == Program(<<Animal, Dog>>, Helpers, body)

(***************************************************************************)
(* Expressions, on operands of every kind                                  *)
(***************************************************************************)

Setup == <<Set("x", I(3)), Set("y", Minus(I(5))), Set("l", Items(<<I(4), I(6), I(8)>>)),
           Set("g", Lambda(<<Param("n")>>, Op("Sub", V("n"), V("x")))),
           Set("o", Call("A", <<I(7)>>)), Set("d", Call("D", <<I(2), I(9)>>))>>

Numbers ==
    {I(2), V("x"), Minus(V("y")), Call("inc", <<V("x")>>), Call("twice", <<V("y")>>), Elem(V("l"), I(1)),
     Call("g", <<V("y")>>), Ternary(Op("Lt", V("x"), V("y")), V("x"), Call("inc", <<V("y")>>)),
     SizeOf(V("l")), Dot(V("o"), "a"), Apply(Dot(V("o"), "get"), <<>>), Apply(Dot(V("d"), "get"), <<>>),
     Apply(Dot(V("d"), "plus"), <<I(1)>>), Apply(Dot(V("o"), "twice"), <<I(1)>>), Op("Add", V("o"), V("o"))}
Arithmetics(a) == {Op("Sub", a, b) : b \in Numbers} \cup {Op(op, a, V("x")) : op \in {"Add", "Mul", "Lt", "Eq"}}

Truths == {Op("Lt", V("x"), V("y")), Op("Ne", V("x"), V("y")), Op("In", I(6), V("l")), Op("Lt", V("o"), V("o")), Op("Is", V("l"), V("l"))}
Logics == {Op(op, a, b) : op \in {"And", "Or"}, a \in Truths, b \in Truths} \cup {Inverted(t) : t \in Truths}

\* no source text gives these, or the interpreter does not know them
Unspoken ==
    {Call("__double__", <<V("y")>>), Call("__square__", <<Elem(V("l"), I(1))>>),
     Op("BitXor", V("x"), I(6)), Op("Add", Op("Shl", I(3), I(2)), Op("BitOr", I(5), I(3))),
     Apply(Lambda(<<Param("a"), Param("b")>>, Op("Sub", V("a"), V("b"))), <<I(9), I(4)>>)}
Others ==
    {Op("Div", V("y"), I(2)), Op("Mod", V("x"), I(2)), Op("Power", V("y"), V("x")), Op("Ne", V("o"), Nothing), Call("fact", <<I(4)>>), Call("fib", <<I(4)>>),
     Op("Add", S("a"), S("b")), Op("Mul", S("ab"), I(2)), Op("Eq", S("a"), S("a")), SizeOf(S("abc")),
     OrElse(Nothing, V("x")), OrElse(V("x"), V("y")), As(V("x"), "i64"), As(Elem(V("l"), I(0)), "i64"),
     Call("sum", <<V("l")>>), SizeOf(To(I(1), I(4), TRUE)), SizeOf(Call("range", <<I(1), I(4)>>)),
     Elem(Cut(V("l"), I(1), I(3)), I(0)),
     Call("sum", <<Comp(Op("Mul", V("e"), V("e")), "e", V("l"), <<>>)>>),
     Call("sum", <<Comp(V("e"), "e", V("l"), <<Op("Gt", V("e"), I(4))>>)>>),
     Call("sum", <<Items(<<I(1), V("x"), I(3), V("y"), I(5), I(6), I(7), V("x")>>)>>),
     Call("sum", <<Items(<<I(1), V("x"), I(3), V("y"), I(5), I(6), I(7)>>)>>),
     Elem(Entries(<<S("p"), V("x"), S("q"), V("y")>>), S("q")), Call("list_contains", <<V("l"), I(6)>>),
     Optional(V("o"), Field("a")), Optional(Nothing, Field("a")), Optional(V("l"), Place1(I(1))),
     Op("Add", Interp(<<Text("x="), Shows(V("y")), Text("/"), Shows(S("s"))>>), S("!")), SizeOf(Interp(<<Shows(V("y"))>>))}

Mixed == Items(<<I(8), I(3), V("x"), V("y"), I(3)>>)
ListCalls ==
    {Elem(Call(f, <<Mixed>>), I(1)) : f \in {"sorted", "reversed", "unique", "clone"}} \cup
    {Call(f, <<Mixed>>) : f \in {"first", "last", "list_max", "list_min", "is_empty", "pop"}} \cup
    {Call("sum", <<Call(f, <<Mixed, I(n)>>)>>) : f \in {"take", "drop"}, n \in {0, 2, 9}} \cup
    {Call("list_index_of", <<Mixed, V("x")>>), Call("sum", <<Call("list_concat", <<Mixed, V("l")>>)>>)}

\* x is printed too: what the expression left of the variables
Expressions == {{InMain(Setup \o <<Set("r", e), Say(<<V("r"), V("x")>>)>>) : e \in Arithmetics(a)} : a \in Numbers}
               \cup {{InMain(Setup \o <<Say(<<e, V("x")>>)>>) : e \in Logics \cup Others \cup Unspoken \cup ListCalls}}

(***************************************************************************)
(* Loops, one in the other, left and continued                             *)
(***************************************************************************)

Ranges(x, body) ==
    {ForTo(x, I(0), I(3), body), ForBy(x, I(1), I(6), I(2), body), ForIn(x, Items(<<I(0), I(1), I(2)>>), body),
     ForIn(x, To(I(0), I(2), TRUE), body), ForIn(x, ToBy(I(1), I(6), I(2)), body)}
Around(x, body) ==
    Ranges(x, body) \cup
    {Block(<<Set(x, Minus(I(1))), Forever(<<Bump(x, "Add", I(1)), If(Op("Ge", V(x), I(3)), <<Leave("break")>>, <<>>)>> \o body)>>),
     Block(<<Set(x, Minus(I(1))), While(Op("Lt", V(x), I(2)), <<Bump(x, "Add", I(1))>> \o body)>>)}
LeaveAt(k) == If(Op("Eq", V("i"), I(1)), <<Leave(k)>>, <<>>)
Bodies == {<<LeaveAt(k), Say(<<V("i")>>)>> : k \in {"break", "continue"}}
Loops ==
    {AtTop(<<l, Say(<<I(9)>>)>>) : l \in UNION {Around("i", b) : b \in Bodies}} \cup
    {AtTop(<<l, Say(<<I(9)>>)>>) :
       l \in UNION {Around("i", <<inner, Say(<<V("i")>>)>>) :
                      inner \in UNION {Around("j", <<If(Op("Eq", V("j"), V("i")), <<Leave(k)>>, <<>>), Say(<<V("j")>>)>>) :
                                         k \in {"break", "continue"}}}}

(***************************************************************************)
(* Other statements, exceptions, calls and closures                        *)
(***************************************************************************)

Statements ==
    {<<SetAll(<<"a", "b">>, Call("both", <<I(4)>>)), Say(<<V("a"), V("b")>>)>>,
     <<IfElif(Op("Eq", V("x"), I(1)), <<Say(<<I(1)>>)>>, Op("Eq", V("x"), I(3)), <<Say(<<I(2)>>)>>, <<Say(<<I(3)>>)>>)>>,
     <<IfElif(Op("Eq", V("x"), I(1)), <<Say(<<I(1)>>)>>, Op("Eq", V("x"), I(2)), <<Say(<<I(2)>>)>>, <<Say(<<I(3)>>)>>)>>,
     <<Match(V("x"), <<Lit(I(1), <<Say(<<I(1)>>)>>), Lit(I(3), <<Say(<<I(2)>>)>>)>>, <<Say(<<I(3)>>)>>)>>,
     <<Match(V("x"), <<Lit(I(1), <<Say(<<I(1)>>)>>), Lit(I(2), <<Say(<<I(2)>>)>>)>>, <<Say(<<I(3)>>)>>)>>,
     <<Match(V("x"), <<Lit(I(1), <<Say(<<I(1)>>)>>), Binds("z", <<Say(<<V("z")>>)>>)>>, <<>>)>>,
     <<Match(V("l"), <<Parts(<<"a", "b">>, <<Say(<<V("a")>>)>>), Parts(<<"a", "b", "c">>, <<Say(<<V("c")>>)>>)>>, <<>>)>>,
     <<With(V("o"), "v", <<Say(<<V("v")>>)>>)>>,
     <<PutField(V("o"), "b", I(1)), PutField(V("o"), "a", I(8)), Say(<<Op("Add", V("o"), V("o"))>>)>>,
     <<PutField(V("o"), "b", I(1)), PutField(V("o"), "c", I(2)), PutField(V("o"), "c", V("y")),
       Say(<<Dot(V("o"), "c"), Dot(V("o"), "a")>>)>>,
     <<Set("m", Call("append", <<V("l"), I(1)>>)), Set("m", Call("append", <<V("m"), I(2)>>)), Say(<<Call("sum", <<V("m")>>)>>)>>,
     <<Require(Op("Eq", V("x"), I(3))), Say(<<I(1)>>)>>, <<Require(Op("Eq", V("x"), I(4))), Say(<<I(1)>>)>>,
     <<Panic(V("x")), Say(<<I(1)>>)>>, <<Raise(V("x")), Say(<<I(1)>>)>>,
     <<Set("s", S("p")), Set("s", Op("Add", V("s"), S("q"))), Say(<<V("s")>>)>>,
     <<Set("c", Call("channel", <<I(2)>>)), Do(Call("send", <<V("c"), V("x")>>)), Do(Call("send", <<V("c"), V("y")>>)),
       Say(<<Call("recv", <<V("c")>>), Call("recv", <<V("c")>>)>>)>>,
     <<Set("m", Call("mutex", <<>>)), Do(Call("lock", <<V("m")>>)), Do(Call("unlock", <<V("m")>>)),
       Do(Call("lock", <<V("m")>>)), Say(<<I(1)>>)>>,
     <<Bump("x", "Mul", I(4)), Bump("x", "Sub", V("y")), Say(<<V("x")>>)>>}

Raising == {<<Raise(V("x"))>>, <<Say(<<I(1)>>), Do(Call("raises", <<V("x")>>))>>, <<Say(<<I(1)>>)>>}
Handled(body, fin) == Try(body, "e", <<Say(<<I(100), V("e")>>)>>, fin)
Rethrown(body) == Try(body, "e", <<Say(<<V("e")>>), Raise(I(50))>>, <<>>)
Tries ==
    {<<Handled(b, f)>> : b \in Raising, f \in {<<>>, <<Say(<<I(200)>>)>>}} \cup
    {<<Handled(<<Handled(b, <<>>)>> \o b2, <<Say(<<I(200)>>)>>)>> : b \in Raising, b2 \in Raising} \cup
    {<<Handled(<<Rethrown(b)>>, <<>>)>> : b \in Raising} \cup
    {<<ForTo("k", I(0), I(2), <<Handled(b, <<>>)>>)>> : b \in Raising}

WithStatements == {InMain(Setup \o b \o <<Say(<<I(9)>>)>>) : b \in Statements \cup Tries}

Letters == <<"a", "b", "c", "d", "e", "f", "g">>
Weighted(xs) == FoldLeft(LAMBDA e, x : Op("Add", Op("Mul", e, I(2)), V(x)), I(0), xs)
SpreadFn(n) == Fn("spread", [j \in 1..n |-> Param(Letters[j])],
                  <<Set("z", Weighted(SubSeq(Letters, 1, n))), Set("w", Call("inc", <<V("z")>>)),
                    Give(Op("Sub", Op("Mul", V("w"), V("z")), V(Letters[n])))>>)
Locals(n) == [j \in 1..n |-> Set(Letters[j], I(10 + j))]
Values(n) == [j \in 1..n |-> V(Letters[j])]
CallsOf(n) == Program(<<>>, <<Inc, SpreadFn(n),
                 Fn("main", <<>>, Locals(n) \o <<Set("r", Call("spread", Values(n))),
                                                Say(<<V("r")>> \o Values(n))>>)>>, <<>>)
\* a lambda with k captures and n parameters, made and called among n + k locals
ClosureOf(k, n) ==
    Program(<<>>, <<Fn("main", <<>>,
      Locals(k + n) \o
      <<Set("h", Lambda([j \in 1..n |-> Param(Letters[k + j])], Weighted(SubSeq(Letters, 1, k + n)))),
        Set("r", Call("h", [j \in 1..n |-> V(Letters[k + j])])),
        Set("q", Call("h", [j \in 1..n |-> I(j)])), Say(<<V("r"), V("q")>> \o Values(k + n))>>)>>, <<>>)

Calls == {CallsOf(n) : n \in 1..6} \cup {ClosureOf(c[1], c[2]) : c \in {d \in (0..4) \X (0..4) : d[1] + d[2] \in 1..4}}

\* as a set of families
Served == Expressions \cup {Loops, WithStatements, Calls}

(***************************************************************************)
(* Outside of it: what these do is not what they say, but the machine      *)
(* keeps its conventions                                                   *)
(***************************************************************************)

Unserved ==
    {InMain(Setup \o b \o <<Say(<<V("x")>>)>>) :
       b \in {<<Try(<<Raise(V("x")), Say(<<I(1)>>)>>, "e", <<Say(<<V("e")>>)>>, <<>>)>>,
              <<Try(<<Give(V("x"))>>, "e", <<>>, <<>>)>>,
              <<[ForTo("i", I(0), I(2), <<LeaveAt("break")>>) EXCEPT !.els = <<Say(<<I(5)>>)>>]>>,
              <<[While(Op("Lt", V("x"), I(5)), <<Bump("x", "Add", I(1))>>) EXCEPT !.els = <<Say(<<I(5)>>)>>]>>,
              <<[k |-> "defer", s |-> Say(<<I(1)>>)]>>,
              <<ForTo("i", I(0), I(2), <<Try(<<Leave("break")>>, "e", <<>>, <<>>)>>)>>,
              <<[k |-> "set", to |-> <<Elem(V("l"), I(0))>>, e |-> I(1)]>>,
              <<Do(Call("append", <<V("l"), I(1)>>)), Say(<<SizeOf(V("l"))>>)>>,
              <<Set("o", V("x")), Say(<<Apply(Dot(V("d"), "lost"), <<>>)>>)>>,
              <<[k |-> "del", to |-> <<V("x"), Dot(V("o"), "a")>>], Say(<<I(1)>>)>>,
              <<[k |-> "set", to |-> <<[k |-> "tuple"]>>, e |-> V("l")], [k |-> "pon", s |-> Set("x", I(1))]>>,
              <<BumpAll(<<Dot(V("o"), "a"), V("x"), V("new")>>, "Add", I(1)), Say(<<V("new")>>)>>,
              <<[Require(B(FALSE)) EXCEPT !.message = <<>>]>>,
              <<Set("g", Call("counts", <<V("x")>>)), Say(<<[k |-> "resume", es |-> <<V("g")>>]>>)>>,
              <<Set("g", [k |-> "coro", es |-> <<Nothing>>]), Say(<<[k |-> "resume", es |-> <<V("g")>>], [k |-> "resume", es |-> <<V("g")>>]>>)>>,
              <<Say(<<[k |-> "await", es |-> <<[k |-> "spawn", es |-> <<V("x")>>]>>]>>)>>,
              <<[k |-> "table", cols |-> <<"a", "b">>, rows |-> << <<V("x"), V("y")>> >>]>>,
              <<Say(<<Op("Div", V("x"), I(0))>>)>>,
              <<Set("c", Call("channel", <<I(1)>>)), Do(Call("send", <<V("c"), I(1)>>)), Do(Call("send", <<V("c"), I(2)>>)),
                Do(Call("close", <<V("c")>>)), Say(<<Call("recv", <<V("c")>>), Call("recv", <<V("c")>>)>>)>>,
              <<[k |-> "select", cases |-> <<[dir |-> "send", es |-> <<Call("channel", <<I(1)>>), I(5)>>, body |-> <<Say(<<I(1)>>)>>],
                                             [dir |-> "after", es |-> <<I(5)>>, body |-> <<Say(<<I(2)>>)>>]>>,
                 default |-> << <<Say(<<I(3)>>)>> >>]>>,
              <<Set("m", Call("mutex", <<>>)), Do(Call("lock", <<V("m")>>)), Do(Call("lock", <<V("m")>>))>>,
              <<[k |-> "spawn", es |-> <<Call("inc", <<V("x")>>)>>], [k |-> "yield", es |-> <<V("x")>>]>>,
              <<Say(<<[k |-> "await", es |-> <<Call("spawn", <<V("inc")>>)>>]>>)>>,
              <<[k |-> "input", prompt |-> <<>>, to |-> V("x")]>>,
              <<[k |-> "input", prompt |-> <<[o |-> "str", s |-> "?", ty |-> "str"]>>, to |-> V("x")]>>,
              <<Say(<<Call("max", <<V("x"), V("y")>>)>>)>>, <<Say(<<[k |-> "reverse", es |-> <<V("l")>>]>>)>>,
              <<Say(<<Interp(<<Text("x="), Shows(V("x"))>>)>>)>>,
              <<Say(<<>>), Do(Call("exit", <<I(3)>>))>>,
              <<Say(<<Op("And", I(1), I(2)), Op("And", Op("Gt", V("x"), I(5)), Call("inc", <<V("x")>>))>>)>>}
                \cup {<<PutField(V("o"), "b", I(1)), PutField(V("o"), "c", I(1)), PutField(V("o"), "d", I(1))>>}}
    \cup {AtTop(<<Set("g", Lambda(<<Param("n")>>, V("n"))), Say(<<Call("g", <<I(1)>>)>>)>>)}
=============================================================================
