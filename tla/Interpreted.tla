----------------------------- MODULE Interpreted -----------------------------
(***************************************************************************)
(* Programs of the language that the interpreter serves and the native     *)
(* back end does not, each with what it prints: most are the programs of   *)
(* tests/manual, tests/acceptance and src/codegen/tests.rs, with println   *)
(* for the asserts.  Served are programs without a lambda in a lambda or   *)
(* in a method, without defer, without an else behind an elif, with `in`   *)
(* and `is` outside of loops.                                              *)
(***************************************************************************)
EXTENDS NativePrograms

\* a program and what it prints; `tops`: all of it is at the top
Shows2(p, out) == [p |-> p, out |-> out, end |-> "done"]
Prints(es) == [j \in DOMAIN es |-> Say(<<es[j]>>)]
Top(classes, fns, body, out) == Shows2(Program(classes, fns, body), out)
Main(classes, fns, body, out) == Shows2(Program(classes, Append(fns, Fn("main", <<>>, body)), <<>>), out)
\* the same at the top and in main
Either(classes, fns, body, out) == <<Top(classes, fns, body, out), Main(classes, fns, body, out)>>
Yield(e) == [k |-> "yield", es |-> <<e>>]
Resume(es) == [k |-> "resume", es |-> es]
Float(s) == [k |-> "float", s |-> s]
Group(es) == [k |-> "tuple", es |-> es]
SetOf(es) == [k |-> "set", es |-> es]
Pipe(a, b) == [k |-> "pipe", es |-> <<a, b>>]
Try1(e) == [k |-> "propagate", es |-> <<e>>]
Slice(e, a, b, by) == [k |-> "slicing", e |-> e, from |-> a, to |-> b, by |-> by]
CompOf(of, es, x, it, cond) == [k |-> "comp", of |-> of, es |-> es, x |-> x, it |-> it, cond |-> cond]
Spread(e) == [k |-> "spread", e |-> e]
Put(to, e) == [k |-> "set", to |-> <<to>>, e |-> e]
PutAll(to, e) == [k |-> "set", to |-> to, e |-> e]
BumpAt(to, op, e) == [k |-> "compoundto", to |-> <<to>>, op |-> op, e |-> e]
M(e, m, es) == Apply(Dot(e, m), es)
New(c, es) == M(V(c), "new", es)
Super(m, es) == M(V("super"), m, es)
Method(m, es) == [k |-> "call", m |-> m, es |-> es]
L1(xs) == Items([j \in DOMAIN xs |-> I(xs[j])])
Case(p, body) == [p |-> p, body |-> body]
Guard(p, g, body) == [p |-> p, guard |-> g, body |-> body]
PLit(e) == [k |-> "lit", e |-> e]
PBind(x) == [k |-> "bind", x |-> x]
PAny == [k |-> "any"]
POr(ps) == [k |-> "or", ps |-> ps]
PTuple(ps) == [k |-> "tuple", ps |-> ps]
PSeq(ps) == [k |-> "seq", ps |-> ps]
PVariant(ty, v) == [k |-> "variant", type |-> ty, variant |-> v, ps |-> <<>>]
Answers(e, cases) == Match(e, [j \in DOMAIN cases |-> Case(cases[j][1], <<Give(S(cases[j][2]))>>)], <<>>)
Catch(body, x, catch) == Try(body, x, catch, <<>>)

(***************************************************************************)
(* Generators, closures, functions as values                               *)
(***************************************************************************)

\* tests/manual/06, 33: resume, a loop over a generator, one left early
Naturals == Fn("naturals", <<Param("n")>>,
    <<Set("k", I(0)), While(Op("Lt", V("k"), V("n")), <<Yield(V("k")), Bump("k", "Add", I(1))>>)>>)
Generators ==
    Either(<<>>, <<Naturals>>,
        <<Set("g", Call("naturals", <<I(3)>>)), Set("s", I(0)), Set("j", I(0)),
          While(Op("Lt", V("j"), I(3)), <<Set("v", Resume(<<V("g")>>)), Bump("s", "Add", V("v")), Bump("j", "Add", I(1))>>), Say(<<V("s")>>),
          ForIn("x", Call("naturals", <<I(4)>>), <<If(Op("Eq", V("x"), I(2)), <<Leave("break")>>, <<>>), Say(<<V("x")>>)>>),
          Set("h", Call("naturals", <<I(2)>>)), Say(<<M(V("h"), "next", <<>>)>>), Say(<<M(V("h"), "has_next", <<>>)>>), Say(<<M(V("h"), "next", <<>>)>>),
          Say(<<M(V("h"), "done", <<>>)>>), Do(M(V("h"), "reset", <<>>)), Say(<<M(V("h"), "to_list", <<>>)>>), Say(<<SizeOf(M(V("h"), "collect", <<>>))>>)>>,
        <<"3", "0", "1", "0", "true", "1", "true", "[0, 1]", "2">>)
\* tests/manual/13, 34, 56
Adder == Fn("adder", <<Param("n")>>, <<Give(Lambda(<<Param("x")>>, Op("Add", V("x"), V("n"))))>>)
ApplyTwice == Fn("apply_twice", <<Param("f"), Param("x")>>, <<Give(Call("f", <<Call("f", <<V("x")>>)>>))>>)
Closures ==
    Either(<<>>, <<Adder, ApplyTwice, Inc>>,
        <<Set("add5", Call("adder", <<I(5)>>)), Set("add7", Call("adder", <<I(7)>>)),
          Say(<<Call("add5", <<I(3)>>)>>), Say(<<Call("add7", <<Call("add5", <<I(1)>>)>>)>>), Say(<<Call("apply_twice", <<V("add7"), I(1)>>)>>),
          Say(<<Call("apply_twice", <<V("inc"), I(1)>>)>>), Set("fs", Items(<<V("inc"), V("add5")>>)), Set("h", Elem(V("fs"), I(1))), Say(<<Call("h", <<I(10)>>)>>),
          Set("d", Entries(<<S("k"), V("inc")>>)), Set("h", Elem(V("d"), S("k"))), Say(<<Call("h", <<I(8)>>)>>), Say(<<Pipe(I(5), Call("adder", <<>>))>>),
          Set("h", Call("adder", <<I(20)>>)), Say(<<Call("h", <<I(2)>>)>>)>>,
        <<"8", "13", "15", "3", "15", "9", "<fn <lambda_0>#2>", "22">>)
\* x |> f(a) |> g; map, filter, reduce with a lambda that reads a variable
Pipes ==
    Either(<<>>, <<Inc, Fn("minus", <<Param("a"), Param("b")>>, <<Give(Op("Sub", V("a"), V("b")))>>)>>,
        <<Set("k", I(10)), Say(<<Pipe(Pipe(I(9), Call("minus", <<I(4)>>)), V("inc"))>>), Set("l", L1(<<1, 2, 3, 4>>)),
          Say(<<M(V("l"), "map", <<Lambda(<<Param("x")>>, Op("Mul", V("x"), V("k")))>>)>>),
          Say(<<M(V("l"), "filter", <<Lambda(<<Param("x")>>, Op("Gt", V("x"), I(2)))>>)>>),
          Say(<<M(V("l"), "reduce", <<Lambda(<<Param("a"), Param("x")>>, Op("Sub", V("a"), V("x"))), V("k")>>)>>),
          Say(<<M(V("l"), "map", <<V("inc")>>)>>), Say(<<V("l")>>)>>,
        <<"6", "[10, 20, 30, 40]", "[3, 4]", "0", "[2, 3, 4, 5]", "[1, 2, 3, 4]">>)

(***************************************************************************)
(* Objects                                                                 *)
(***************************************************************************)

\* tests/manual/05, 38, 57, 63: an inherited constructor, super, a method that returns self
Speaker == Class("S", <<>>,
    <<Fn("new", <<Param("name")>>, <<PutField(V("self"), "name", V("name")), Give(V("self"))>>),
      Fn("speak", <<>>, <<Give(Op("Add", Self("name"), S("!")))>>),
      Fn("rename", <<Param("n")>>, <<PutField(V("self"), "name", V("n")), Give(V("self"))>>),
      Fn("loud", <<>>, <<Give(Op("Add", Apply(Self("speak"), <<>>), S("?")))>>)>>)
Barker == Class("T", <<"S">>, <<Fn("speak", <<>>, <<Give(Op("Add", Super("speak", <<>>), S("bark")))>>)>>)
Inheritance ==
    Either(<<Speaker, Barker>>, <<>>,
        <<Set("t", New("T", <<S("rex")>>)), Say(<<M(V("t"), "speak", <<>>)>>), Say(<<M(V("t"), "loud", <<>>)>>),
          Say(<<M(M(M(V("t"), "rename", <<S("a")>>), "rename", <<S("b")>>), "speak", <<>>)>>), Set("s", Call("S", <<S("c")>>)),
          Say(<<M(V("s"), "speak", <<>>)>>), Say(<<Dot(V("t"), "name")>>), Say(<<Optional(V("t"), Method("loud", <<>>))>>), Say(<<Dot(V("t"), "none")>>)>>,
        <<"rex!bark", "rex!bark?", "b!bark", "c!", "b", "b!bark?", "null">>)

\* tests/manual/09, 39, the magic methods of src/codegen/tests.rs
Dunders == Class("B", <<>>,
    <<Fn("new", <<Param("v")>>, <<PutField(V("self"), "v", V("v"))>>),
      Fn("__add__", <<Param("o")>>, <<Give(Call("B", <<Op("Add", Self("v"), Dot(V("o"), "v"))>>))>>),
      Fn("__sub__", <<Param("o")>>, <<Give(Op("Sub", Self("v"), Dot(V("o"), "v")))>>),
      Fn("__mul__", <<Param("k")>>, <<Give(Op("Mul", Self("v"), V("k")))>>),
      Fn("__div__", <<Param("k")>>, <<Give(Op("Add", Self("v"), V("k")))>>),
      Fn("__eq__", <<Param("o")>>, <<Give(Op("Eq", Self("v"), Dot(V("o"), "v")))>>),
      Fn("__lt__", <<Param("o")>>, <<Give(Op("Lt", Self("v"), Dot(V("o"), "v")))>>),
      Fn("__neg__", <<>>, <<Give(Call("B", <<Minus(Self("v"))>>))>>),
      Fn("__str__", <<>>, <<Give(Op("Add", S("B"), Call("str", <<Self("v")>>)))>>),
      Fn("__getitem__", <<Param("j")>>, <<Give(Op("Add", Self("v"), V("j")))>>),
      Fn("__setitem__", <<Param("j"), Param("x")>>, <<PutField(V("self"), "v", Op("Add", V("j"), V("x")))>>),
      Fn("__contains__", <<Param("x")>>, <<Give(Op("Eq", Self("v"), V("x")))>>)>>)
    @@ [fields |-> <<"v", "w">>]
Overloads ==
    Either(<<Dunders>>, <<>>,
        <<Set("a", Call("B", <<I(3)>>)), Set("b", Call("B", <<I(4)>>)), Set("c", Op("Add", V("a"), V("b")))>>
        \o Prints(<<V("c"), Op("Sub", V("a"), V("b")), Op("Mul", V("a"), I(5)), Op("Div", V("b"), I(2)), Op("Eq", V("a"), V("b")),
                    Op("Lt", V("a"), V("b")), Minus(V("a")), Elem(V("a"), I(10)), Dot(V("c"), "v"), Dot(V("c"), "w")>>)
        \o <<Put(Elem(V("a"), I(30)), I(1)), Say(<<V("a")>>), Say(<<Op("Eq", V("a"), Call("B", <<I(31)>>))>>)>>,
        <<"B7", "-1", "15", "6", "false", "true", "B-3", "13", "7", "null", "B31", "true">>)
\* without the core library, which asks no __contains__
Membership ==
    <<Top(<<Dunders>>, <<>>, <<Set("a", Call("B", <<I(3)>>))>> \o Prints(<<Op("In", I(3), V("a")), Op("In", I(4), V("a"))>>), <<"true", "false">>)>>

\* next() and stop(), src/codegen/tests.rs; __setattr__; a manager with state
Counter == Class("C", <<>>,
    <<Fn("new", <<Param("n")>>, <<PutField(V("self"), "n", V("n"))>>),
      Fn("next", <<>>, <<If(Op("Ge", Self("n"), I(3)), <<Give(Call("stop", <<>>))>>, <<>>), Set("now", Self("n")),
                         PutField(V("self"), "n", Op("Add", Self("n"), I(1))), Give(V("now"))>>)>>)
Keeper == Class("K", <<>>, <<Fn("__enter__", <<>>, <<Say(<<S("in")>>), Give(V("self"))>>), Fn("__exit__", <<>>, <<Say(<<S("out")>>)>>),
                             Fn("__init__", <<Param("open")>>, <<PutField(V("self"), "open", V("open"))>>)>>)
Protocols ==
    Either(<<Counter, Keeper>>, <<>>,
        <<ForIn("x", Call("C", <<I(1)>>), <<Say(<<V("x")>>)>>), Set("it", Call("C", <<I(0)>>)),
          ForIn("x", V("it"), <<ForIn("y", V("it"), <<Say(<<Op("Add", Op("Mul", V("x"), I(10)), V("y"))>>)>>)>>),
          With(Call("K", <<B(TRUE)>>), "k", <<Say(<<Dot(V("k"), "open")>>), With(V("k"), "l", <<Say(<<I(7)>>)>>)>>)>>,
        <<"1", "2", "1", "2", "in", "true", "in", "7", "out", "out">>)

(***************************************************************************)
(* Errors                                                                  *)
(***************************************************************************)

\* tests/manual/07, 36: out of calls and loops, again out of a catch, with a
\* value of any kind; the variables that the try changed stay changed
Thrower == Class("Z", <<>>, <<Fn("go", <<Param("n")>>, <<Set("j", V("n")), Raise(Op("Add", S("z"), V("j")))>>)>>)
Deep == Fn("deep", <<Param("n")>>, <<If(Op("Eq", V("n"), I(0)), <<Raise(S("bottom"))>>, <<>>), Give(Op("Add", Call("deep", <<Op("Sub", V("n"), I(1))>>), I(1)))>>)
Errors ==
    Either(<<Thrower>>, <<Deep>>,
        <<Set("s", I(0)), Catch(<<Set("s", I(1)), Do(Call("deep", <<I(3)>>)), Set("s", I(2))>>, "e", <<Say(<<V("e"), V("s")>>)>>),
          ForIn("k", L1(<<1, 2, 3>>),
            <<Catch(<<If(Op("Eq", V("k"), I(2)), <<Raise(V("k"))>>, <<>>), Say(<<V("k")>>)>>, "e", <<Say(<<Op("Add", V("e"), I(40))>>)>>)>>),
          Catch(<<Catch(<<Do(M(New("Z", <<>>), "go", <<S("5")>>))>>, "e", <<Say(<<V("e")>>), Raise(Op("Add", V("e"), S("again")))>>)>>, "f", <<Say(<<V("f")>>)>>),
          Try(<<Say(<<Op("Div", I(1), I(0))>>)>>, "e", <<Say(<<V("e")>>)>>, <<Say(<<S("finally")>>)>>),
          Catch(<<Set("l", L1(<<1, 2>>)), Say(<<Elem(V("l"), I(9))>>)>>, "e", <<Say(<<V("e")>>)>>),
          Catch(<<Say(<<Call("int", <<S("zz")>>)>>)>>, "e", <<Say(<<V("e")>>)>>),
          Catch(<<Require(B(TRUE)), Require(Op("Eq", I(1), I(2)))>>, "e", <<Say(<<V("e")>>)>>),
          Catch(<<Set("o", New("Z", <<>>)), PutField(V("o"), "c", I(8)), Raise(V("o"))>>, "e", <<Say(<<Dot(V("e"), "c")>>)>>)>>,
        <<"bottom", "1", "1", "42", "3", "z5", "z5again", "division by zero", "finally", "list index 9 out of bounds (len 2)",
          "cannot convert 'zz' to int", "assertion failed: assertion failed", "8">>)
\* an error that nothing catches ends the program: at the top, in a function, in the arms that run() executes itself
Uncaught ==
    <<[Top(<<>>, <<Deep>>, <<Say(<<I(1)>>), Do(Call("deep", <<I(2)>>)), Say(<<I(2)>>)>>, <<"1">>) EXCEPT !.end = "failed"],
      [Top(<<>>, <<>>, <<Say(<<I(1)>>), Catch(<<Say(<<Op("Sub", S("a"), I(1))>>)>>, "e", <<Say(<<I(2)>>)>>)>>, <<"1">>) EXCEPT !.end = "failed"],
      [Top(<<>>, <<Deep>>, <<Say(<<I(1)>>), Do(Call("exit", <<I(3)>>)), Say(<<I(2)>>)>>, <<"1">>) EXCEPT !.end = "exited"],
      [Main(<<>>, <<Deep>>, <<Say(<<I(1)>>), Do(Call("deep", <<I(1)>>)), Say(<<I(2)>>)>>, <<"1">>) EXCEPT !.end = "failed"]>>
\* tests/manual/22: Result values
Halved == Fn("halved", <<Param("n")>>,
    <<If(Op("Eq", Op("Mod", V("n"), I(2)), I(1)), <<Give(Call("Err", <<S("odd")>>))>>, <<>>), Give(Call("Ok", <<Op("FloorDiv", V("n"), I(2))>>))>>)
Quarter == Fn("quarter", <<Param("n")>>, <<Set("h", Try1(Call("halved", <<V("n")>>))), Give(Call("halved", <<V("h")>>))>>)
Results ==
    Either(<<>>, <<Halved, Quarter>>,
        <<Set("r", Call("halved", <<I(8)>>)), Say(<<Call("is_ok", <<V("r")>>), Call("is_err", <<V("r")>>), Call("unwrap", <<V("r")>>)>>),
          Set("r", Call("halved", <<I(7)>>)), Say(<<Call("is_ok", <<V("r")>>), Call("is_err", <<V("r")>>), Call("unwrap_or", <<V("r"), I(5)>>)>>),
          Say(<<Call("unwrap", <<Call("quarter", <<I(12)>>)>>)>>),
          Catch(<<Say(<<Call("unwrap", <<Call("quarter", <<I(7)>>)>>)>>)>>, "e", <<Say(<<V("e")>>)>>)>>,
        <<"true", "false", "4", "false", "true", "5", "3", "odd">>)

(***************************************************************************)
(* Choices, collections, text                                              *)
(***************************************************************************)

Colors == [d |-> "enum", name |-> "Color", members |-> <<[name |-> "Red", payload |-> <<>>], [name |-> "Green", payload |-> <<>>]>>]
Kind == Fn("kind", <<Param("v")>>,
    <<Answers(V("v"),
        << <<PLit(I(1)), "one">>, <<POr(<<PLit(I(2)), PLit(I(3))>>), "few">>, <<PLit(S("a")), "text">>, <<PVariant("Color", "Red"), "red">>,
           <<PSeq(<<PBind("p"), PLit(I(0))>>), "pair">>, <<PTuple(<<PAny, PTuple(<<PBind("q"), PLit(B(TRUE))>>)>>), "nested">> >>),
      Give(S("none"))>>)
\* a guard, names bound in a pattern, a value that no case matches
Patterns ==
    LET programs == Either(<<>>, <<Kind,
            Fn("area", <<Param("v")>>,
              <<Match(V("v"), <<Guard(PTuple(<<PBind("w"), PBind("h")>>), Op("Eq", V("w"), V("h")), <<Give(Op("Mul", V("w"), V("w")))>>),
                                Case(PTuple(<<PBind("w"), PBind("h")>>), <<Give(Op("Add", V("w"), V("h")))>>), Case(PAny, <<Give(I(0))>>)>>, <<>>)>>)>>,
        Prints([j \in 1..9 |-> Call("kind", <<(<<I(1), I(3), S("a"), Dot(V("Color"), "Red"), Dot(V("Color"), "Green"), L1(<<7, 0>>), L1(<<7, 1>>),
                                                Group(<<I(1), Group(<<I(2), B(TRUE)>>)>>), Nothing>>)[j]>>)])
        \o Prints(<<Call("area", <<Group(<<I(3), I(3)>>)>>), Call("area", <<Group(<<I(3), I(4)>>)>>), Call("area", <<I(1)>>)>>)
        \o <<Match(I(4), <<Case(PLit(I(1)), <<Say(<<S("one")>>)>>)>>, <<Say(<<S("else")>>)>>), Say(<<Dot(V("Color"), "Green")>>),
              Say(<<Op("Eq", Dot(V("Color"), "Red"), Dot(V("Color"), "Red"))>>)>>,
        <<"one", "few", "text", "red", "none", "pair", "none", "nested", "none", "9", "7", "0", "else", "<Color>", "true">>)
    IN [j \in DOMAIN programs |-> [programs[j] EXCEPT !.p = @ @@ [enums |-> <<Colors>>]]]
\* tests/manual/04, 20, 35
Collections ==
    Either(<<>>, <<Inc>>,
        <<Set("l", L1(<<5, 2, 9>>)), Say(<<CompOf("list", <<Op("Mul", V("x"), I(2))>>, "x", V("l"), <<Op("Gt", V("x"), I(3))>>)>>),
          Say(<<Slice(V("l"), <<I(1)>>, <<>>, <<>>), Slice(V("l"), <<>>, <<>>, <<Minus(I(1))>>), Slice(V("l"), <<Minus(I(2))>>, <<I(3)>>, <<I(1)>>)>>),
          Say(<<Slice(S("abcdef"), <<I(1)>>, <<I(5)>>, <<I(2)>>), Cut(V("l"), I(0), I(2))>>),
          Say(<<[k |-> "asc", es |-> <<V("l")>>], [k |-> "desc", es |-> <<V("l")>>], [k |-> "reverse", es |-> <<V("l")>>], SizeOf(V("l"))>>),
          Say(<<Items(<<I(0), Spread(V("l")), I(1)>>), Op("Add", V("l"), L1(<<1>>)), Op("Add", V("l"), I(4))>>),
          Say(<<Elem(V("l"), Minus(I(1))), Elem(S("xyz"), I(1)), Elem(Group(<<I(4), I(6)>>), I(0))>>),
          Put(Elem(V("l"), I(0)), I(7)), Put(Elem(V("l"), I(4)), I(1)), Say(<<V("l")>>),
          BumpAt(Elem(V("l"), I(1)), "Add", I(10)), BumpAt(Elem(V("l"), Minus(I(1))), "Mul", I(3)), Say(<<V("l")>>),
          Set("m", Items(<<L1(<<1, 2>>), L1(<<3, 4>>)>>)), Put(Elem(Elem(V("m"), I(1)), I(0)), S("n")), Say(<<V("m")>>),
          Set("k", V("m")), Put(Elem(V("k"), I(0)), I(0)), Say(<<V("m"), Op("Eq", V("k"), V("m"))>>),
          Set("e", Entries(<<S("a"), I(1)>>)), Put(Elem(V("e"), S("b")), L1(<<1>>)), BumpAt(Elem(V("e"), S("a")), "Sub", I(5)),
          Say(<<Elem(V("e"), S("a")), Elem(V("e"), S("b")), Elem(V("e"), S("c")), Dot(V("e"), "a"), SizeOf(V("e"))>>),
          Say(<<Op("In", I(2), V("l")), Op("Repeated", S("ab"), I(2)), Op("Is", I(1), I(2)), Op("Is", I(1), S("a"))>>)>>,
        <<"[10, 18]", "[2, 9]", "[9, 2, 5]", "[2, 9]", "bd", "[5, 2]", "[2, 5, 9]", "[9, 5, 2]", "[9, 2, 5]", "3", "[0, 5, 2, 9, 1]",
          "[5, 2, 9, 1]", "[5, 2, 9, 4]", "9", "y", "4", "[7, 2, 9, null, 1]", "[7, 12, 9, null, 3]", "[[1, 2], [n, 4]]", "[[1, 2], [n, 4]]", "false",
          "-4", "[1]", "null", "-4", "2", "false", "abab", "true", "false">>)
\* the methods of strings, lists and dicts: tests/manual/03, 10, 28
Methods ==
    LET t == S(" aBc ")
        l == L1(<<3, 1, 3, 2>>)
        d == Entries(<<S("k"), I(1)>>)
    IN Either(<<>>, <<>>,
         Prints(<<M(t, "trim", <<>>), M(M(t, "upper", <<>>), "trim", <<>>), M(S("a-b-c"), "split", <<S("-")>>), M(S("abcab"), "replace", <<S("ab"), S("x")>>),
                  M(S("abcab"), "find", <<S("ca")>>), M(S("abcab"), "rfind", <<S("ab")>>), M(S("abcab"), "starts_with", <<S("abc")>>),
                  M(S("abcab"), "ends_with", <<S("abc")>>), M(S("abcab"), "substr", <<I(1), I(3)>>), M(S("ab"), "repeat", <<I(3)>>), M(S("abc"), "reverse", <<>>),
                  M(S("abc"), "char_at", <<I(2)>>), M(l, "push", <<I(9)>>), M(l, "pop", <<>>), M(l, "sort", <<>>), M(l, "unique", <<>>), M(l, "index_of", <<I(1)>>),
                  M(l, "contains", <<I(4)>>), M(l, "min", <<>>), M(l, "max", <<>>), M(l, "sum", <<>>), M(l, "slice", <<I(1), I(3)>>), M(l, "concat", <<L1(<<8>>)>>),
                  M(l, "insert", <<I(1), S("z")>>), M(l, "join", <<S("+")>>), M(d, "has", <<S("k")>>), M(d, "get", <<S("z")>>), M(d, "set", <<S("k"), I(2)>>),
                  M(d, "keys", <<>>), M(d, "values", <<>>), M(d, "items", <<>>), M(d, "delete", <<S("k")>>), M(M(d, "merge", <<Entries(<<S("j"), I(4)>>)>>), "len", <<>>)>>),
         <<"aBc", "ABC", "[a, b, c]", "xcx", "2", "3", "true", "false", "bc", "ababab", "cba", "c", "[3, 1, 3, 2, 9]", "2", "[1, 2, 3, 3]", "[3, 1, 2]", "1",
           "false", "1", "3", "9", "[1, 3]", "[3, 1, 3, 2, 8]", "[3, z, 1, 3, 2]", "3+1+3+2", "true", "null", "{k: 2}", "[k]", "[1]", "[(k, 1)]", "{}", "2">>)
\* the builtin functions, as the library leaves them
Builtins1 ==
    LET l == L1(<<3, 1, 2>>)
        C1(f, e) == Call(f, <<e>>)
    IN Prints(<<C1("len", l), C1("str", l), C1("int", S("42")), C1("int", Float("3.9")), C1("float", I(2)), C1("bool", S("")), C1("type_of", Float("1.5")),
                C1("ord", S("a")), C1("chr", I(66)), C1("abs", Minus(I(4))), Call("range", <<I(1), I(4)>>), Call("range3", <<I(5), I(0), Minus(I(2))>>),
                C1("sum", l), C1("sorted", l), C1("reversed", l), C1("floor", Float("2.7")), C1("ceil", Float("2.2")), C1("round", Float("2.5")),
                Call("zip", <<l, S("ab")>>), C1("list", S("ab")), C1("tuple", l), C1("sum", C1("enumerate", l)), Call("contains", <<l, I(2)>>),
                Call("split", <<S("a b")>>), Call("join", <<l, S("-")>>), C1("upper", S("q")), Call("dict_get", <<Entries(<<S("a"), I(1)>>), S("b"), I(9)>>),
                As(S("12"), "int"), As(I(3), "str"), Op("Add", As(S("1.5"), "float"), I(1)), Op("Div", I(7), I(2)), Op("Power", I(2), I(3)),
                Op("Mod", Minus(I(7)), I(3)), Op("FloorDiv", Minus(I(7)), I(2)), Op("Mul", Float("0.5"), I(3)), Op("Lt", Float("0.5"), I(1)),
                C1("is_frozen", l), C1("annotations", V("l")), Call("map", <<V("inc"), l>>), Call("filter", <<Lambda(<<Param("x")>>, Op("Gt", V("x"), I(1))), l>>),
                OrElse(I(0), I(5)), OrElse(Nothing, I(6)), Optional(Nothing, Field("f")), Optional(l, Place1(I(1))), Interp(<<Text("n="), Shows(l)>>)>>)
BuiltinCalls ==
    Either(<<>>, <<Inc>>, Builtins1,
        <<"3", "[3, 1, 2]", "42", "3", "2.0", "false", "float", "97", "B", "4", "[1, 2, 3]", "[5, 3, 1]", "6", "[1, 2, 3]", "[2, 1, 3]", "2", "3", "3",
          "[(3, a), (1, b)]", "[a, b]", "(3, 1, 2)", "0", "true", "[a, b]", "3-1-2", "Q", "9", "12", "3", "2.5", "3.5", "8.0", "2", "-4", "1.5", "true",
          "false", "{}", "[4, 2, 3]", "[3, 2]", "5", "6", "null", "1", "n=[3, 1, 2]">>)

(***************************************************************************)
(* Variables                                                               *)
(***************************************************************************)

\* tests/manual/02, 11, 60: targets of every kind
Point == Class("Q", <<>>, <<Fn("new", <<Param("x"), Param("y")>>, <<PutField(V("self"), "x", V("x")), PutField(V("self"), "y", V("y"))>>),
                            Fn("move", <<Param("n")>>, <<PutField(V("self"), "x", Op("Add", Self("x"), V("n"))), Give(V("self"))>>)>>)
Targets ==
    Either(<<Point>>, <<Both>>,
        <<Set("q", Call("Q", <<I(1), I(2)>>)), PutField(V("q"), "x", Op("Add", Dot(V("q"), "x"), I(5))), PutField(V("q"), "y", Op("Mul", Dot(V("q"), "x"), I(2))),
          Say(<<Dot(V("q"), "x"), Dot(V("q"), "y")>>), Set("r", V("q")), Say(<<Dot(M(V("r"), "move", <<I(4)>>), "x"), Dot(V("q"), "x")>>),
          PutField(V("q"), "l", L1(<<1, 2>>)), Put(Elem(Dot(V("q"), "l"), I(0)), I(9)), BumpAt(Elem(Dot(V("q"), "l"), I(1)), "Sub", I(3)), Say(<<Dot(V("q"), "l")>>),
          SetAll(<<"a", "b">>, Call("both", <<I(4)>>)), Say(<<V("a"), V("b")>>), SetAll(<<"a", "b">>, Group(<<V("b"), V("a")>>)), Say(<<V("a"), V("b")>>),
          SetAll(<<"a", "b", "c">>, L1(<<1, 2, 3>>)), Say(<<Op("Add", V("a"), Op("Mul", V("b"), V("c")))>>), Bump("a", "Mul", I(7)), Say(<<V("a")>>),
          SetAll(<<"c", "d">>, Group(<<V("c"), I(2)>>)), [k |-> "del", x |-> "c"], Say(<<V("c")>>), Say(<<Op("Eq", V("q"), V("r")), Op("Eq", V("q"), Call("Q", <<I(1), I(2)>>))>>)>>,
        <<"6", "12", "10", "10", "[9, -1]", "4", "8", "8", "4", "7", "7", "null", "true", "false">>)
\* globals and locals of one name, a global read and written by functions,
\* lambdas and methods between writes at the top; a function that is no first
\* use of its slots
Peek1 == Fn("peek", <<>>, <<Give(V("g"))>>)
Hidden == Fn("hidden", <<Param("n")>>, <<Set("g", V("n")), Say(<<V("g")>>), Set("h", Op("Add", V("g"), I(1))), Give(V("h"))>>)
Unset == Fn("unset", <<Param("n"), Param("o")>>, <<If(V("n"), <<Set("late", I(3))>>, <<>>), Give(V("late"))>>)
Reader == Class("R", <<>>, <<Fn("read", <<>>, <<Give(V("g"))>>)>>)
Shadowing ==
    <<Top(<<Reader>>, <<Peek1, Hidden, Unset>>,
        <<Set("g", I(1)), Set("read", Lambda(<<>>, V("g"))), Set("o", New("R", <<>>)), Say(<<Call("peek", <<>>), Call("read", <<>>), M(V("o"), "read", <<>>)>>),
          Set("g", I(2)), Set("g", I(3)), Say(<<Call("peek", <<>>), Call("read", <<>>), M(V("o"), "read", <<>>)>>),
          Say(<<Call("hidden", <<I(8)>>), V("g")>>), Set("g", S("s")), Say(<<M(L1(<<0, 0>>), "map", <<Lambda(<<Param("x")>>, V("g"))>>), V("g")>>),
          ForIn("g", L1(<<5, 6>>), <<Say(<<Call("read", <<>>)>>)>>), Say(<<V("g")>>), Say(<<Call("unset", <<I(0), I(0)>>), Call("unset", <<I(1)>>)>>)>>,
        <<"1", "1", "1", "3", "3", "3", "8", "9", "3", "[s, s]", "s", "5", "6", "6", "null", "3">>)>>
\* await of a call that is no coroutine, a block in a scope, unsafe
Sequential ==
    Either(<<>>, <<Inc>>,
        <<Say(<<[k |-> "await", es |-> <<Call("inc", <<I(1)>>)>>]>>), Set("x", Ternary(Op("Gt", I(2), I(1)), S("y"), S("n"))), Say(<<V("x")>>),
          If(Inverted(Op("And", V("x"), I(0))), <<Say(<<Op("Or", I(0), V("x"))>>)>>, <<>>), Set("s", S("")),
          ForIn("ch", S("abc"), <<Set("s", Op("Add", V("ch"), V("s")))>>), Say(<<V("s")>>),
          ForIn("j", To(I(1), I(3), TRUE), <<If(Op("Eq", V("j"), I(2)), <<Leave("continue")>>, <<>>), Say(<<V("j")>>)>>)>>,
        <<"2", "y", "true", "cba", "1", "3">>)

(***************************************************************************)
(* What the analyzer refuses in a file, and what is next to it             *)
(***************************************************************************)

IntFn(name, params, body) == [Fn(name, params, body) EXCEPT !.ret = "int"]
IntParam(x) == [x |-> x, ty |-> "int"]
Refused(fns, body) == [p |-> Program(<<>>, fns, body), out |-> <<>>, end |-> "refused"]
InFn(body) == Refused(<<Fn("f", <<>>, body)>>, <<Say(<<I(1)>>)>>)
\* return, yield and ? outside of functions, break and continue outside of
\* loops; a variable, a parameter or a returned value of another type
Refusals ==
    <<Refused(<<>>, <<Give(I(1))>>), Refused(<<>>, <<ForIn("j", L1(<<1>>), <<GiveAll(<<>>)>>)>>), Refused(<<>>, <<Try(<<Yield(I(1))>>, "e", <<Say(<<V("e")>>)>>, <<>>)>>),
      Refused(<<Inc>>, <<Set("x", Try1(Call("inc", <<I(1)>>)))>>), InFn(<<Leave("break")>>),
      InFn(<<While(B(FALSE), <<Say(<<I(2)>>)>>), If(B(TRUE), <<Leave("continue")>>, <<>>)>>),
      InFn(<<Try(<<Say(<<I(2)>>)>>, "e", <<Leave("break")>>, <<>>)>>),
      Refused(<<>>, <<Set("x", I(1)), Set("x", S("s"))>>), Refused(<<>>, <<Set("x", Nothing), Set("x", I(1))>>),
      InFn(<<Set("x", I(1)), If(B(TRUE), <<Set("x", B(TRUE))>>, <<>>)>>), InFn(<<Set("x", S("s")), Bump("x", "Add", I(1))>>),
      Refused(<<Fn("f", <<IntParam("n")>>, <<Set("n", S("s"))>>)>>, <<>>), Refused(<<IntFn("f", <<>>, <<GiveAll(<<>>)>>)>>, <<>>),
      Refused(<<IntFn("f", <<>>, <<ForIn("j", L1(<<1>>), <<Give(S("s"))>>)>>)>>, <<>>),
      Refused(<<IntFn("f", <<>>, <<Give(Ternary(B(TRUE), S("s"), I(1)))>>)>>, <<>>),
      Refused(<<IntFn("f", <<>>, <<Give(I(1))>>)>>, <<Set("x", S("s")), Set("x", Call("f", <<>>))>>), Refused(<<>>, <<Set("x", S("s")), Set("x", Call("int", <<S("4")>>))>>),
      Refused(<<Fn("f", <<[x |-> "p", ty |-> "i64"]>>, <<Set("p", Op("Add", V("p"), I(1)))>>)>>, <<>>)>>
\* a name is free again when its block has ended; a value of no known type is
\* of every type; the methods of classes, calls and deletions are not checked
Allowed ==
    Either(<<Class("A", <<>>, <<[Fn("m", <<>>, <<Set("x", I(1)), Set("x", S("s")), Give(V("x"))>>) EXCEPT !.ret = "int"]>>)>>,
           <<IntFn("int_of", <<Param("n")>>, <<Give(V("n"))>>), IntFn("sum_to", <<IntParam("n")>>,
                <<Set("s", I(0)), ForIn("j", To(I(1), V("n"), TRUE), <<Bump("s", "Add", V("j"))>>), Give(V("s"))>>),
             Fn("byte", <<[x |-> "p", ty |-> "u8"]>>, <<Set("p", S("b")), Give(V("p"))>>),
             Fn("blocks", <<Param("n")>>,
                <<If(V("n"), <<Set("x", I(1)), Say(<<V("x")>>)>>, <<Set("x", S("e")), Say(<<V("x")>>)>>),
                  ForIn("j", L1(<<1>>), <<Set("x", B(TRUE)), Say(<<V("x")>>)>>), Set("x", S("f")), Say(<<V("x")>>)>>)>>,
        <<Do(Call("blocks", <<I(1)>>)), Do(Call("blocks", <<I(0)>>)), Say(<<M(New("A", <<>>), "m", <<>>)>>), Say(<<Call("int_of", <<S("u")>>)>>), Say(<<Call("sum_to", <<I(3)>>)>>),
          Set("z", I(1)), [k |-> "del", x |-> "z"], Say(<<V("z"), Call("byte", <<I(1)>>)>>)>>,
        <<"1", "true", "f", "e", "true", "f", "s", "u", "6", "null", "b">>)
=============================================================================
