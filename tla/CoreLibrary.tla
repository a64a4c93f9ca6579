---------------------------- MODULE CoreLibrary ----------------------------
(***************************************************************************)
(* The functions of runtime/std/core.veds that stand in for a builtin of   *)
(* the interpreter: `vredrs run` appends the library to the program, and a *)
(* builtin f of a program is core_f where the library has one.  (core_chr  *)
(* and core_ord are tables of the characters; they, core_upper and         *)
(* core_lower, which read them, are left out.)                             *)
(***************************************************************************)
EXTENDS NativePrograms

v == V("v")
x == V("x")
i == V("i")
xs == V("xs")
s == V("s")
sep == V("sep")
result == V("result")
Core(name, params, body) == Fn("core_" \o name, [j \in DOMAIN params |-> Param(params[j])], body)
Wrapping(f) == Core(f, <<"v">>, <<Give(Call(f, <<v>>))>>)
When(c, body) == If(c, body, <<>>)
Part(e, a, b) == Cut(e, a, b)
From(e, a) == [k |-> "slicing", e |-> e, from |-> <<a>>, to |-> <<>>, by |-> <<>>]
Next == Set("i", Op("Add", i, I(1)))
Plus(e) == Set("result", Op("Add", result, e))
One(e) == Items(<<e>>)
Half == [k |-> "float", s |-> "0.5"]

Conversions ==
    <<Core("len", <<"v">>, <<When(Op("Eq", v, Nothing), <<Give(I(0))>>), Give(SizeOf(v))>>),
      Wrapping("str"), Wrapping("int"), Wrapping("float"),
      Core("bool", <<"v">>, <<When(v, <<Give(B(TRUE))>>), Give(B(FALSE))>>), Wrapping("type_of")>>

Rounding(name, test, by) == Core(name, <<"x">>, <<Set("i", Call("int", <<x>>)), When(test, <<Give(Op(by, i, I(1)))>>), Give(i)>>)
Better(name, op) == Core(name, <<"a", "b">>, <<When(Op(op, V("a"), V("b")), <<Give(V("a"))>>), Give(V("b"))>>)
Mathematics ==
    <<Core("abs", <<"x">>, <<When(Op("Lt", x, I(0)), <<Give(Op("Sub", I(0), x))>>), Give(x)>>),
      Rounding("floor", Op("Lt", x, i), "Sub"), Rounding("ceil", Op("Gt", x, i), "Add"),
      Core("round", <<"x">>,
        <<Set("i", Call("int", <<x>>)), When(Op("Ge", Op("Sub", x, i), Half), <<Give(Op("Add", i, I(1)))>>),
          When(Op("Le", Op("Sub", x, i), Minus(Half)), <<Give(Op("Sub", i, I(1)))>>), Give(i)>>),
      Better("min", "Lt"), Better("max", "Gt"),
      Core("sum", <<"xs">>, <<Set("total", I(0)), ForIn("x", xs, <<Set("total", Op("Add", V("total"), x))>>), Give(V("total"))>>)>>

\* insertion behind the elements that are not ordered after x
Sorting(name, op) ==
    LET j == V("j")
    IN Core(name, <<"xs">>,
         <<Set("result", Items(<<>>)),
           ForIn("x", xs,
             <<Set("inserted", B(FALSE)), Set("j", I(0)),
               While(Op("Lt", j, SizeOf(result)),
                 <<When(Op(op, x, Elem(result, j)),
                     <<Set("result", Op("Add", Op("Add", Part(result, I(0), j), One(x)), From(result, j))), Set("inserted", B(TRUE)), Leave("break")>>),
                   Set("j", Op("Add", j, I(1)))>>),
               When(Inverted(V("inserted")), <<Plus(One(x))>>)>>),
           Give(result)>>)
Collecting(name, params, init, loop) == Core(name, params, init \o <<loop, Give(result)>>)
Empty == <<Set("result", Items(<<>>))>>
Counted == Append(Empty, Set("i", I(0)))
Sequences1 ==
    <<Core("contains", <<"xs", "item">>,
        <<When(Op("Eq", Call("type_of", <<xs>>), S("str")),
            <<When(Op("Ge", Call("core_index_of", <<xs, V("item")>>), I(0)), <<Give(B(TRUE))>>), Give(B(FALSE))>>),
          ForIn("x", xs, <<When(Op("Eq", x, V("item")), <<Give(B(TRUE))>>)>>), Give(B(FALSE))>>),
      Core("index_of", <<"s", "sub">>,
        <<Set("i", I(0)),
          While(Op("Le", i, Op("Sub", SizeOf(s), SizeOf(V("sub")))),
            <<When(Op("Eq", Part(s, i, Op("Add", i, SizeOf(V("sub")))), V("sub")), <<Give(i)>>), Next>>),
          Give(Minus(I(1)))>>),
      Collecting("enumerate", <<"xs">>, Counted, ForIn("x", xs, <<Plus(One(Items(<<i, x>>))), Next>>)),
      Collecting("zip", <<"a", "b">>, Counted,
        While(Op("Lt", i, SizeOf(V("a"))),
          <<When(Op("Ge", i, SizeOf(V("b"))), <<Give(result)>>), Plus(One(Items(<<Elem(V("a"), i), Elem(V("b"), i)>>))), Next>>)),
      Collecting("map", <<"f", "xs">>, Empty, ForIn("x", xs, <<Plus(One(Call("f", <<x>>)))>>)),
      Collecting("filter", <<"f", "xs">>, Empty, ForIn("x", xs, <<When(Call("f", <<x>>), <<Plus(One(x))>>)>>)),
      Collecting("reversed", <<"xs">>, Append(Empty, Set("i", Op("Sub", SizeOf(xs), I(1)))),
        While(Op("Ge", i, I(0)), <<Plus(One(Elem(xs, i))), Set("i", Op("Sub", i, I(1)))>>)),
      Sorting("sorted", "Lt"), Sorting("sorted_desc", "Gt")>>

Splitting ==
    LET here == Op("Add", i, SizeOf(sep))
    IN Core("split", <<"s", "sep">>,
         <<Set("result", Items(<<>>)),
           When(Op("Eq", sep, S("")),
             <<Set("i", I(0)), While(Op("Lt", i, SizeOf(s)), <<Plus(One(Part(s, i, Op("Add", i, I(1))))), Next>>), Give(result)>>),
           Set("start", I(0)), Set("i", I(0)),
           While(Op("Le", i, Op("Sub", SizeOf(s), SizeOf(sep))),
             <<If(Op("Eq", Part(s, i, here), sep), <<Plus(One(Part(s, V("start"), i))), Set("start", here), Set("i", here)>>, <<Next>>)>>),
           Plus(One(From(s, V("start")))), Give(result)>>)
Joining ==
    Core("join", <<"xs", "sep">>,
      <<Set("result", S("")), Set("first", B(TRUE)),
        ForIn("x", xs, <<If(V("first"), <<Set("result", Call("str", <<x>>)), Set("first", B(FALSE))>>,
                            <<Set("result", Op("Add", Op("Add", result, sep), Call("str", <<x>>)))>>)>>),
        Give(result)>>)
Texts == <<Splitting, Joining>>

\* a Result of the library is a dict
Made(ok, key, e) == <<Give(Entries(<<S("ok"), B(ok), S(key), V(e)>>))>>
Asked(ok) == <<Give(Op("Eq", Elem(V("r"), S("ok")), B(ok)))>>
Opened(e) == <<When(Elem(V("r"), S("ok")), <<Give(Elem(V("r"), S("value")))>>), Give(e)>>
Results1 ==
    <<Core("Ok", <<"v">>, Made(TRUE, "value", "v")), Core("Err", <<"e">>, Made(FALSE, "error", "e")),
      Core("is_ok", <<"r">>, Asked(TRUE)), Core("is_err", <<"r">>, Asked(FALSE)),
      Core("unwrap", <<"r">>, Opened(Nothing)), Core("unwrap_or", <<"r", "default">>, Opened(V("default")))>>

Functions1 == Conversions \o Mathematics \o Sequences1 \o Texts \o Results1
\* those that stand in for the builtins of a set, and what they call
Reached(builtins) ==
    LET names == {"core_" \o f : f \in builtins} \cup (IF "contains" \in builtins THEN {"core_index_of"} ELSE {})
    IN SelectSeq(Functions1, LAMBDA f : f.name \in names)
=============================================================================
