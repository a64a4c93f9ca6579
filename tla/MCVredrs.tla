------------------------------ MODULE MCVredrs ------------------------------
(***************************************************************************)
(* Sources: programs written out by a printer, in several layouts, and     *)
(* declarations written by hand next to the trees they are.  Programs of   *)
(* the language that the interpreter serves are run, too.                  *)
(***************************************************************************)
EXTENDS Vredrs, Parser, Printer

P == INSTANCE Interpreted
Reference == INSTANCE NativeMeaning
Core == INSTANCE CoreLibrary
A == INSTANCE Analyzer

(***************************************************************************)
(* Sources that are printed                                                *)
(***************************************************************************)

Says(es) == LET seq == Listed1(es) IN [n \in DOMAIN seq |-> P!Say(<<seq[n]>>)]
Script(ss) == P!Program(<<>>, <<>>, ss)
Concatenated(set) == LET seq == Listed1(set) IN Flat([n \in DOMAIN seq |-> seq[n]])

Grouped(op) ==
    {P!Op(op, P!Op(o2, P!V("a"), P!V("b")), P!V("c")) : o2 \in DOMAIN Lexeme} \cup
    {P!Op(op, P!V("a"), P!Op(o2, P!V("b"), P!V("c"))) : o2 \in DOMAIN Lexeme}
Shaped ==
    {P!Minus(P!Dot(P!V("a"), "b")), P!Dot(P!Minus(P!V("a")), "b"), P!Inverted(P!Op("Lt", P!V("a"), P!V("b"))),
     P!Op("Lt", P!Inverted(P!V("a")), P!V("b")), P!OrElse(P!V("a"), P!OrElse(P!V("b"), P!V("c"))),
     P!OrElse(P!OrElse(P!V("a"), P!V("b")), P!V("c")), P!OrElse(P!Op("Or", P!V("a"), P!V("b")), P!V("c")),
     P!Ternary(P!V("a"), P!Ternary(P!V("b"), P!V("c"), P!V("d")), P!Ternary(P!V("e"), P!V("f"), P!V("g"))),
     P!As(P!Op("Add", P!V("a"), P!V("b")), "i64"), P!Op("Add", P!V("a"), P!As(P!V("b"), "i64")),
     P!SizeOf(P!Elem(P!V("a"), P!I(0))), P!Op("Mul", P!V("a"), P!SizeOf(P!V("b"))), P!Elem(P!Elem(P!V("a"), P!I(0)), P!I(1)),
     P!Apply(P!Dot(P!Apply(P!Dot(P!V("a"), "b"), <<P!I(1)>>), "c"), <<>>), P!Lambda(<<>>, P!Lambda(<<P!Param("a")>>, P!V("a"))),
     P!SizeOf(P!To(P!I(1), P!Op("Add", P!V("a"), P!I(1)), TRUE)), [k |-> "pipe", es |-> <<P!V("a"), P!V("b")>>],
     [k |-> "tuple", es |-> <<P!V("a"), P!V("b")>>], [k |-> "set", es |-> <<P!I(1), P!I(2)>>], [k |-> "await", es |-> <<P!Call("f", <<>>)>>]}

Looped == UNION {P!Ranges("i", <<inner, P!Say(<<P!V("i")>>)>>) : inner \in UNION {P!Ranges("j", b) : b \in P!Bodies}}
\* the bodies of scripts, and whole programs
Scripts ==
    {Says(Grouped(op)) : op \in DOMAIN Lexeme} \cup {P!Setup \o Says(P!Arithmetics(a)) : a \in P!Numbers}
    \cup {Says(Shaped), P!Setup \o Says(P!Logics), P!Setup \o Says(P!Others), P!Setup \o Says(P!ListCalls),
          P!Setup \o Concatenated(P!Statements), Concatenated(P!Tries)}
PrintedPrograms ==
    LET scripts == Listed1(Scripts)
        loops == Listed1(Looped)
    IN <<P!InMain(P!Setup), P!CallsOf(6), P!ClosureOf(2, 2)>>
       \o [n \in DOMAIN scripts |-> Script(scripts[n])] \o [n \in DOMAIN loops |-> Script(<<loops[n]>>)]
Source(ls, ds, editable) == [lines |-> ls, tree |-> ds, editable |-> editable, jobs |-> {}, out |-> <<>>, end |-> "", numeric |-> FALSE]
Written(p, lay) == Source(ProgramLines(p, lay), ProgramTree(p), FALSE)
PrintedSources ==
    LET programs == PrintedPrograms
        all == [n \in 1..(4 * Len(programs)) |-> Written(programs[1 + (n - 1) \div 4], Layouts[1 + (n % 4)])]
    IN SubSeq(all, 1, Len(all))

(***************************************************************************)
(* Sources that are written by hand, with their trees; these are edited    *)
(***************************************************************************)

Numerals == ("0" :> 0) @@ ("1" :> 1) @@ ("2" :> 2) @@ ("3" :> 3)
Quoted == {"'m'", "'t'"}
Slashed(w) == [k |-> "directive", s |-> "/" \o w, scope |-> w = "P.", rest |-> IF w = "P." THEN Ws(<<"P", ".">>) ELSE W(w)]
Read(w) ==
    CASE w \in DOMAIN Numerals -> [k |-> "int", s |-> w, n |-> Numerals[w], fits |-> TRUE]
      [] w \in Quoted -> Str(w, <<>>)
      [] w = "/end" -> Slashed("end") [] w = "/set" -> Slashed("set") [] w = "/P." -> Slashed("P.")
      [] w = "#*" -> [k |-> "block"]
      [] OTHER -> Word(w)
L(col, words) == [col |-> col, items |-> [n \in DOMAIN words |-> Read(words[n])]]
Draft(ls, ds) == Source(ls, ds, TRUE)
Stmt1(s) == [d |-> "stmt", s |-> s]
Fn0(name, params, body) == [name |-> name, params |-> params, ret |-> "dyn", body |-> body]
Break == [k |-> "break", label |-> <<>>]
One1 == P!I(1)

Drafts ==
  <<Draft(<<L(1, <<"import", ",", "'m'", ",", "f", ",", "g">>), L(1, <<"import", ",", "'t'", ",", "as", ",", "x">>),
            L(1, <<"export", ",", "f">>), L(1, <<"constexpr", ",", "c", "=", "1">>), L(1, <<"type", ",", "T", "=", "Int">>),
            L(1, <<"lazy", ",", "set", ",", "z", "=", "2">>), L(1, <<"marker", "trait", "D">>)>>,
          <<[d |-> "import", name |-> "'m'", members |-> <<"f", "g">>], [d |-> "import", name |-> "'t'", members |-> <<"x">>],
            [d |-> "export", members |-> <<"f">>], [d |-> "constexpr", name |-> "c", e |-> One1], [d |-> "type", name |-> "T"],
            [d |-> "lazy", name |-> "z", e |-> P!I(2)], [d |-> "marker", name |-> "D"]>>),
    Draft(<<L(1, <<"struct", ",", "P", "[", "T", "]">>), L(5, <<"x", ":", "Int">>), L(5, <<"y", ",", "List", "[", "Int", "]">>), L(1, <<"/end">>),
            L(1, <<"enum", ",", "Q">>), L(5, <<"A">>), L(5, <<"D", "(", "Int", ",", "P", ")">>), L(1, <<"/end">>)>>,
          <<[d |-> "struct", name |-> "P", members |-> <<"x", "y">>],
            [d |-> "enum", name |-> "Q", members |-> <<[name |-> "A", payload |-> <<>>], [name |-> "D", payload |-> <<"Int", "P">>]>>]>>),
    Draft(<<L(1, <<"interface", ",", "P", ",", "extends", "Q">>), L(5, <<"fn", ",", "f", "(", "a", ":", "Int", ")">>), L(1, <<"/end">>),
            L(1, <<"impl", ",", "P", "for", "A">>), L(5, <<"fn", ",", "f", "(", "self", ")", "return", ",", "1">>), L(1, <<"/end">>),
            L(1, <<"trait", ",", "T", "extends", "P">>), L(5, <<"fn", ",", "g", "(", ")">>), L(9, <<"return">>), L(5, <<"/end">>), L(1, <<"/end">>)>>,
          <<[d |-> "interface", name |-> "P", members |-> <<Fn0("f", <<[x |-> "a", ty |-> "Int"]>>, <<>>)>>],
            [d |-> "impl", name |-> "P", members |-> <<Fn0("f", <<P!Param("self")>>, <<P!Give(One1)>>)>>],
            [d |-> "trait", name |-> "T", members |-> <<Fn0("g", <<>>, <<P!GiveAll(<<>>)>>)>>]>>),
    Draft(<<L(1, <<"class", ",", "P", ",", "extends", "A", ",", "implements", "Q">>), L(5, <<"a", ",", "b">>), L(5, <<"private", ",", "c", ",", "Int">>),
            L(5, <<"async", "fn", ",", "f", "(", "a", ",", "b", "=", "1", ")", ":", "Int">>), L(9, <<"return", ",", "a">>), L(5, <<"/end">>), L(1, <<"/end">>)>>,
          <<[d |-> "class", c |-> [name |-> "P", ext |-> <<"A">>, fields |-> <<"a", "b", "c">>,
              methods |-> <<[name |-> "f", params |-> <<P!Param("a"), [x |-> "b", ty |-> "dyn", default |-> One1]>>, ret |-> "Int",
                             body |-> <<P!Give(P!V("a"))>>]>>]]>>),
    Draft(<<L(1, <<"match", ",", "x">>), L(5, <<"case", ",", "Q", ".", "A", "(", "a", ",", "_", ")", "if", "a", "<", "1">>), L(9, <<"println", ",", "a">>),
            L(5, <<"case", ",", "1", "|", "2">>), L(9, <<"break">>), L(5, <<"case", ",", "[", "a", "*", "b", "]">>), L(9, <<"println">>),
            L(5, <<"else">>), L(9, <<"println", ",", "b">>), L(1, <<"/end">>)>>,
          <<Stmt1(P!Match(P!V("x"),
              <<[p |-> [k |-> "variant", type |-> "Q", variant |-> "A", ps |-> <<[k |-> "bind", x |-> "a"], [k |-> "any"]>>],
                 guard |-> P!Op("Lt", P!V("a"), One1), body |-> <<P!Say(<<P!V("a")>>)>>],
                [p |-> [k |-> "or", ps |-> <<[k |-> "lit", e |-> One1], [k |-> "lit", e |-> P!I(2)]>>], body |-> <<Break>>],
                [p |-> [k |-> "seq", ps |-> <<[k |-> "bind", x |-> "a"]>>, rest |-> "b"], body |-> <<P!Say(<<>>)>>]>>,
              <<P!Say(<<P!V("b")>>)>>))>>),
    Draft(<<L(1, <<"select">>), L(5, <<"case", ",", "receive", "(", "c", ")", ",", "v">>), L(9, <<"println", ",", "v">>),
            L(5, <<"case", ",", "send", "(", "c", ",", "1", ")">>), L(9, <<"throw", ",", "2">>), L(5, <<"default">>), L(9, <<"return">>), L(1, <<"/end">>),
            L(1, <<"spawn", ",", "fn", "(", ")", "f", "(", "1", ")">>), L(1, <<"send", "(", "c", ",", "1", ")">>), L(1, <<"defer", ",", "println", ",", "1">>)>>,
          <<Stmt1([k |-> "select",
              cases |-> <<[on |-> [dir |-> "receive", es |-> <<P!V("c")>>, x |-> <<"v">>], body |-> <<P!Say(<<P!V("v")>>)>>],
                          [on |-> [dir |-> "send", es |-> <<P!V("c"), One1>>, x |-> <<>>], body |-> <<P!Raise(P!I(2))>>]>>,
              els |-> <<P!GiveAll(<<>>)>>]),
            Stmt1([k |-> "spawn", es |-> <<P!Lambda(<<>>, P!Call("f", <<One1>>))>>]),
            Stmt1(P!Do(P!Call("send", <<P!V("c"), One1>>))), Stmt1([k |-> "defer", s |-> P!Say(<<One1>>)])>>),
    Draft(<<L(1, <<"a", ";", "b", "/=", "1", ";", "2">>), L(1, <<"/P.">>), L(5, <<"a", "=", "1">>), L(1, <<"/end">>), L(1, <<"/set">>), L(5, <<"x", "=", "2">>), L(1, <<"/end">>),
            L(1, <<"set", ",", "a", ",", "b", "=", "1", ",", "2">>), L(1, <<"set", ",", "a", ",", "b", "=", "1", ",">>),
            L(1, <<"o", ".", "x", "[", "0", "]", "+=", "1">>), L(1, <<"del", ",", "x">>), L(1, <<"input", ",", "x", ",", "'t'">>)>>,
          <<Stmt1([k |-> "table", cols |-> <<"a", "b">>, rows |-> <<<<One1, P!I(2)>>>>]),
            Stmt1([k |-> "scope", name |-> "/P.", body |-> <<P!Set("a", One1)>>]),
            Stmt1([k |-> "directive", name |-> "/set", body |-> <<P!Set("x", P!I(2))>>]),
            Stmt1([k |-> "set", to |-> <<P!V("a"), P!V("b")>>, e |-> [k |-> "tuple", es |-> <<One1, P!I(2)>>]]),
            Stmt1([k |-> "set", to |-> <<P!V("a"), P!V("b")>>, e |-> [k |-> "tuple", es |-> <<One1>>]]),
            Stmt1([k |-> "compoundto", to |-> <<P!Elem(P!Dot(P!V("o"), "x"), P!I(0))>>, op |-> "Add", e |-> One1]),
            Stmt1([k |-> "del", x |-> "x"]), Stmt1([k |-> "input", prompt |-> <<"'t'">>, to |-> P!V("x")])>>),
    Draft(<<L(1, <<"x", "=", "[", "a">>), L(3, <<"for", "b", "in", "c", "if", "b", "]">>), L(1, <<"y", "=", "{", "k", ":", "1", "}", ".", "k">>),
            L(1, <<"#*">>), L(1, <<"z", "=", "a", "?", "1", ":", "c", "?.", "f", "(", "b", "[", ":", "1", "]", ")">>), L(1, <<"f", "(", "1", "..", "2", ")">>)>>,
          <<Stmt1(P!Set("x", P!Comp(P!V("a"), "b", P!V("c"), <<P!V("b")>>))),
            Stmt1(P!Set("y", P!Dot(P!Entries(<<[k |-> "str", s |-> "k"], One1>>), "k"))),
            Stmt1(P!Set("z", P!Ternary(P!V("a"), One1, P!Optional(P!V("c"), [k |-> "call", m |-> "f",
              es |-> <<[k |-> "slicing", e |-> P!V("b"), from |-> <<>>, to |-> <<One1>>, by |-> <<>>]>>])))),
            Stmt1(P!Do(P!Call("f", <<P!To(One1, P!I(2), FALSE)>>)))>>),
    Draft(<<L(1, <<"@", "if", "(", "x", ")">>), L(5, <<"println", ",", "1">>), L(1, <<"@", "else", "{">>), L(5, <<"println", ",", "2">>), L(1, <<"}">>),
            L(1, <<"unsafe", "{", "x", "=", "1", "}">>), L(1, <<"test", ",", "'t'">>), L(5, <<"assert", ",", "x", ",", "'m'">>), L(1, <<"/end">>),
            L(1, <<"macro", ",", "m", "(", "a", ")">>), L(5, <<"yield", ",", "a">>), L(1, <<"/end">>), L(1, <<"dtor", ",", "P">>), L(5, <<"continue">>)>>,
          <<[d |-> "cond", e |-> P!V("x"), then |-> <<Stmt1(P!Say(<<One1>>))>>, else |-> <<Stmt1(P!Say(<<P!I(2)>>))>>],
            Stmt1([k |-> "unsafe", body |-> <<P!Set("x", One1)>>]), [d |-> "test", name |-> "'t'", body |-> <<P!Require(P!V("x"))>>],
            [d |-> "macro", name |-> "m", params |-> <<P!Param("a")>>, body |-> <<[k |-> "yield", es |-> <<P!V("a")>>]>>], [d |-> "dtor", name |-> "P", body |-> <<P!Leave("continue")>>]>>),
    Draft(<<L(1, <<"fn", ",", "f", "(", "n", ":", "Int", ",", "...", "a", ")", ":", "Int">>), L(5, <<"while", ",", "n">>), L(9, <<"if", ",", "n", "then", "break">>),
            L(9, <<"try">>), L(13, <<"n", "-=", "1">>), L(9, <<"catch", ",", "e">>), L(13, <<"throw", ",", "e">>), L(5, <<"/end">>), L(5, <<"with", ",", "a", ",", "b">>),
            L(9, <<"return", ",", "n", ",", "b">>), L(1, <<"/end">>)>>,
          <<[d |-> "fn", f |-> [name |-> "f", params |-> <<[x |-> "n", ty |-> "Int"], [x |-> "a", ty |-> "dyn", variadic |-> TRUE]>>, ret |-> "Int",
             body |-> <<P!While(P!V("n"), <<P!If(P!V("n"), <<Break>>, <<>>), P!Try(<<P!Bump("n", "Sub", One1)>>, "e", <<P!Raise(P!V("e"))>>, <<>>)>>),
                        P!With(P!V("a"), "b", <<P!GiveAll(<<P!V("n"), P!V("b")>>)>>)>>]]>>),
    Draft(<<L(1, <<"@", "k", "(", "1", ",", "x", "=", "2", ")">>), L(1, <<"@", "m", "{", "x", "{", "}", "}">>), L(1, <<"align", "(", "2", ")">>),
            L(1, <<"struct", ",", "P", "[", "T", ":", "A", "+", "D", ",", "Q", "]">>), L(5, <<"x", ":", "struct", "{", "a", ":", "Int", ",", "b", "}">>),
            L(5, <<"@", "k", "y", ":", "Result", "[", "Int", ",", "ptr", "[", "T", "]", "]">>), L(5, <<"z", ":", "fn", "(", "Int", ",", "&", "mut", "T", ")", ":", "A", "?">>), L(1, <<"/end">>),
            L(1, <<"extern", ",", "c", ",", "fn", ",", "f", "(", "a", ":", "Int", ")", ":", "Int">>), L(1, <<"bench", ",", "'t'">>), L(5, <<"flush">>), L(1, <<"/end">>)>>,
          <<[d |-> "struct", name |-> "P", members |-> <<"x", "y", "z">>],
            [d |-> "extern", f |-> [Fn0("f", <<[x |-> "a", ty |-> "Int"]>>, <<>>) EXCEPT !.ret = "Int"]],
            [d |-> "bench", name |-> "'t'", body |-> <<[k |-> "flush"]>>]>>),
    Draft(<<L(1, <<"for", ",", "a", ",", "b", ",", "in", ",", "c">>), L(5, <<"println", ",", "a">>), L(1, <<"/end">>),
            L(1, <<"asm", "{", "'t'">>), L(5, <<"'m'", ":", "'m'", "(", "x", ")", ",", "'t'", "(", "y", ")", ":", "'t'", "(", "1", ")", ":", "'m'", ",", "'t'", "}">>),
            L(1, <<"pon", ";", "x", "=", "struct", "{", "a", ":", "Int", "}">>), L(1, <<"y", "=", "coro", "(", "f", ",", "1", ")">>), L(1, <<"f", "(", "...", "x", ")">>),
            L(1, <<"g", "=", "fn", "(", "a", ")", "x", "=", "a">>),
            L(1, <<"if", ",", "x", ";", "spawn_thread", ",", "x">>)>>,
          <<Stmt1(P!ForIn("a", P!V("c"), <<P!Set("__for_tuple_a", P!V("a")), P!Set("a", P!Elem(P!V("__for_tuple_a"), P!I(0))),
                                           P!Set("b", P!Elem(P!V("__for_tuple_a"), One1)), P!Say(<<P!V("a")>>)>>)),
            Stmt1([k |-> "asm"]), Stmt1([k |-> "pon", s |-> P!Set("x", P!V("struct"))]),
            Stmt1(P!Set("y", [k |-> "coro", es |-> <<P!V("f"), One1>>])), Stmt1(P!Do(P!Call("f", <<[k |-> "spread", e |-> P!V("x")]>>))),
            Stmt1(P!Set("g", P!Lambda(<<P!Param("a")>>, [k |-> "assign", s |-> P!Set("x", P!V("a"))]))),
            Stmt1(P!If(P!V("x"), <<[k |-> "spawn_thread", es |-> <<P!V("x")>>]>>, <<>>))>>)>>

(***************************************************************************)
(* Sources that are run: programs with what they print.  What the native   *)
(* programs print is their meaning; out of them are left those that use    *)
(* builtins of the native runtime alone, divide to a fraction, have an     *)
(* else behind an elif, or break out of a `for` in a `for`.                *)
(***************************************************************************)

Piece(x) == IF "s" \in DOMAIN x THEN x.s ELSE ToString(x.n)
\* the programs of the native run have the hint I64 for the type `int`
Ints(ty) == IF ty = "i64" THEN "int" ELSE ty
WithInts(f) == [f EXCEPT !.params = [j \in DOMAIN @ |-> [@[j] EXCEPT !.ty = Ints(@)]], !.ret = Ints(@)]
Meant(p) ==
    LET r == Reference!MeaningOf(p)
    IN [p |-> [p EXCEPT !.fns = [j \in DOMAIN @ |-> WithInts(@[j])]], out |-> [j \in DOMAIN r.out |-> Piece(r.out[j])], end |-> IF r.end = "done" THEN "done" ELSE "failed", numeric |-> TRUE]
MeantAll(ps) == LET seq == Listed1(ps) IN Flat([n \in DOMAIN seq |-> <<Meant(seq[n])>>])

Fors(x, body) == {<<s>> : s \in P!Ranges(x, body)}
Whiles(x, body) == {s.body : s \in P!Around(x, body) \ P!Ranges(x, body)}
LeaveInner(k) == <<P!If(P!Op("Eq", P!V("j"), P!V("i")), <<P!Leave(k)>>, <<>>), P!Say(<<P!V("j")>>)>>
Inside(inner) == inner \o <<P!Say(<<P!V("i")>>)>>
LoopBodies ==
    {[fors |-> TRUE, body |-> b] : b \in P!Bodies} \cup
    {[fors |-> TRUE, body |-> Inside(l)] :
       l \in Whiles("j", LeaveInner("break")) \cup Whiles("j", LeaveInner("continue")) \cup Fors("j", LeaveInner("continue"))} \cup
    {[fors |-> FALSE, body |-> Inside(l)] : l \in Fors("j", LeaveInner("break"))}
\* without `then`: a break takes a name at the start of the next line for its label
Circling == UNION {Whiles("i", b.body) \cup (IF b.fors THEN Fors("i", b.body) ELSE {}) : b \in LoopBodies}

NativeOnly == {"append", "channel", "mutex", "list_contains"}
Calls(e, names) == e.k = "call" /\ e.f.k = "id" /\ e.f.x \in names
ServedHere(e) == ~(e.k = "bin" /\ e.op \in {"Div", "Power"}) /\ ~Calls(e, NativeOnly)
Sorts == {P!Elem(P!Call(f, <<P!Mixed>>), P!I(1)) : f \in {"sorted", "reversed"}}
\* x = 3 in the first branch that is taken
WithElse == {b \in P!Statements : b[1].k = "if" /\ b[1].elifs[1].c.r.n = 2}
\* s = s + "q" gives s another type, says the type checker
Sums == {b \in P!Statements : b[1].k = "set" /\ b[1].e.k = "str"}
ServedStatements == {b \in P!Statements \ (WithElse \cup Sums) : ~(b[1].k = "set" /\ Calls(b[1].e, NativeOnly))} \cup P!Tries

Both(body) == {P!AtTop(P!Setup \o body), P!InMain(P!Setup \o body)}
MeantPrograms ==
    MeantAll(UNION ({Both(Says(P!Arithmetics(a))) : a \in P!Numbers}
                    \cup {Both(Says(P!Logics)), Both(Says({e \in P!Others : ServedHere(e)} \cup Sorts))}
                    \cup {{P!InMain(P!Setup \o b \o <<P!Say(<<P!I(9)>>)>>) : b \in ServedStatements}})
             \cup P!Calls)
LoopPrograms == MeantAll({P!AtTop(l \o <<P!Say(<<P!I(9)>>)>>) : l \in Circling})
\* the core library does not change what these print, as it does for the last
ToldPrograms ==
    P!Generators \o P!Closures \o P!Pipes \o P!Inheritance \o P!Overloads \o P!Protocols \o P!Errors \o P!Uncaught
    \o P!Patterns \o P!Collections \o P!Methods \o P!Targets \o P!Allowed
ToldTexts == P!Results \o P!BuiltinCalls \o P!Membership
\* these give a variable values of several types, which no file may: a sum of
\* strings is an `int` to the type checker
Retyping == MeantAll({P!AtTop(P!Setup \o b) : b \in Sums}) \o P!Shadowing \o P!Sequential

HasMain(p) == \E j \in DOMAIN p.fns : p.fns[j].name = "main"
Job(file, turn) == [file |-> file, turn |-> turn]
AsFile == {Job(TRUE, turn) : turn \in BOOLEAN}
AsText == {Job(FALSE, FALSE)}
Run(s, lay, jobs) ==
    [Written(s.p, lay) EXCEPT !.out = s.out, !.end = s.end, !.numeric = "numeric" \in DOMAIN s,
                                                !.jobs = IF HasMain(s.p) THEN jobs \ AsText ELSE jobs]
RunAll(ss, lays, jobs) == Flat([n \in DOMAIN ss |-> <<Run(ss[n], lays[1 + (n % Len(lays))], jobs)>>])
Unlabelled == SelectSeq(Layouts, LAMBDA lay : ~lay.thens)
RunSources ==
    RunAll(MeantPrograms, Layouts, AsText \cup {Job(TRUE, FALSE)}) \o RunAll(LoopPrograms, Unlabelled, {Job(TRUE, FALSE)})
    \o RunAll(ToldPrograms, Layouts, AsText \cup AsFile) \o RunAll(P!Refusals, Unlabelled, {Job(TRUE, FALSE)})
    \o SelectSeq(RunAll(ToldTexts \o Retyping, Layouts, AsText), LAMBDA s : s.jobs # {})

AcceptedBy(ds) == LET r == A!Accepted(ds) IN r
\* the part of the library behind a program that the program reaches
BuiltinsOf(ds) == LET code == X!Unit(ds).code IN {code[j].a : j \in {j \in DOMAIN code : code[j].op = "CallBuiltin"}}
LibraryOf(ds) == LET fs == Core!Reached(BuiltinsOf(ds)) IN [j \in DOMAIN fs |-> [d |-> "fn", f |-> fs[j]]]

UnitOf(ds) == LET u == X!Unit(ds) IN u
MachineOf(u, turn) == LET m == X!Machine(u, turn) IN m
StepOf(u, m) == LET n == X!Step(u, m) IN n
WithMainOf(u) == LET v == X!WithMain(u) IN v
AtMainOf(u, m) == LET n == X!AtMain(u, m) IN n

ParsedTokens(tokens) == LET r == ParseProgram(tokens) IN r
AllSources == LET all == PrintedSources \o Drafts \o RunSources IN all
\* an else behind an elif
ElseSources == LET all == RunAll(MeantAll({P!AtTop(P!Setup \o b) : b \in WithElse}), Layouts, AsText) IN all
Slips == LET some == {Read(w) : w \in {"(", ")", ",", "fn", "[", "for"}} IN some
=============================================================================
