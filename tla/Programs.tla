------------------------------ MODULE Programs ------------------------------
(***************************************************************************)
(* Programs for the interpreter: constructors of the syntax Compiler.tla   *)
(* lowers, which programs the compiled form serves correctly (Tame), and   *)
(* the families the runs enumerate.                                        *)
(***************************************************************************)
EXTENDS Compiler

(***************************************************************************)
(* Syntax                                                                  *)
(***************************************************************************)

Say(n) == [k |-> "print", v |-> IntV(n)]
SaySelf == [k |-> "self"]
Raise1 == [k |-> "throw", v |-> <<"str", "e">>]
\* null * null, a type error
Bad == [k |-> "bad"]
\* 1 / 0
DivZero == [k |-> "div"]
Return1 == [k |-> "return", v |-> IntV(1)]
Break == [k |-> "break"]
Continue == [k |-> "continue"]
Defer(s) == [k |-> "defer", s |-> s]
Call(f) == [k |-> "call", f |-> f]
Method(m, o) == [k |-> "method", f |-> m, recv |-> <<"obj", o>>]
If(c, then, elifs, els) == [k |-> "if", c |-> c, then |-> then, elifs |-> elifs, els |-> els]
Elif(c, body) == [c |-> c, body |-> body]
Loop(body) == [k |-> "loop", body |-> body]
For(items, body) == [k |-> "for", items |-> items, body |-> body]
Try(body, catch, fin) ==
    [k |-> "try", body |-> body, catches |-> TRUE, catch |-> catch, fin |-> fin]
TryFinally(body, fin) ==
    [k |-> "try", body |-> body, catches |-> FALSE, catch |-> <<>>, fin |-> fin]
Match(v, cases, els) == [k |-> "match", v |-> v, cases |-> cases, els |-> els]
Case(lit, body) == [lit |-> lit, body |-> body]
With(o, body) == [k |-> "with", mgr |-> <<"obj", o>>, body |-> body]
Fn(name, body) == [name |-> name, body |-> body]
Program(main, fns) == [main |-> main, fns |-> fns]

TwoItems == <<IntV(7), IntV(8)>>
OtherItems == <<IntV(20), IntV(21)>>

(***************************************************************************)
(* The programs whose compiled form keeps the meaning of the source.  Each *)
(* condition names what the code does outside of it.                       *)
(***************************************************************************)

RECURSIVE Exits(_, _)
RECURSIVE Catches(_, _)
RECURSIVE TameBlock(_, _, _)

Body(f, fns) == fns[CHOOSE i \in DOMAIN fns : fns[i].name = f].body

Parts(s) ==
    CASE s.k \in {"loop", "for", "with"} -> {s.body}
      [] s.k = "try"   -> {s.body, s.catch, s.fin}
      [] s.k = "if"    -> {s.then, s.els} \cup {s.elifs[i].body : i \in DOMAIN s.elifs}
      [] s.k = "match" -> {s.els} \cup {s.cases[i].body : i \in DOMAIN s.cases}
      [] OTHER         -> {}

\* the ways control may leave a block other than by its end; "fail" is an
\* error the fast path of run() returns
Exits(ss, fns) ==
    UNION {LET s == ss[i] IN
           CASE s.k \in {"throw", "return", "break", "continue"} -> {s.k}
             [] s.k = "div" -> {"throw"}
             [] s.k = "bad" -> {"fail"}
             [] s.k \in {"call", "method"} -> Exits(Body(s.f, fns), fns) \cap {"throw", "fail"}
             [] s.k \in {"loop", "for"} -> Exits(s.body, fns) \ {"break", "continue"}
             [] s.k = "try" /\ s.catches ->
                  (Exits(s.body, fns) \ {"throw"}) \cup Exits(s.catch \o s.fin, fns)
             [] OTHER -> UNION {Exits(b, fns) : b \in Parts(s)}
           : i \in DOMAIN ss}

\* whether a block, or a function it calls, may catch a throw
Catches(ss, fns) ==
    \E i \in DOMAIN ss :
       \/ ss[i].k = "try" /\ ss[i].catches
       \/ ss[i].k \in {"call", "method"} /\ Catches(Body(ss[i].f, fns), fns)
       \/ \E b \in Parts(ss[i]) : Catches(b, fns)

Defers(ss) == \E i \in DOMAIN ss : ss[i].k = "defer"

TameStmt(s, in_for, fns) ==
    /\ \A b \in Parts(s) : TameBlock(b, in_for \/ s.k = "for", fns)
    /\ CASE s.k = "for" ->
              \* a throw or a break leaves the iterator handle on the stack
              "throw" \notin Exits(s.body, fns) /\ (in_for => "break" \notin Exits(s.body, fns))
         [] s.k = "match" ->
              \* a matching case leaves the matched value on the stack
              ~in_for
         [] s.k = "try" ->
              \* a jump out of the body leaves its handler installed, an error
              \* of the fast path ends the program, and finally is code that
              \* only the normal end reaches
              /\ s.catches => Exits(s.body, fns) \subseteq {"throw"}
              /\ s.fin # <<>> => Exits(IF s.catches THEN s.catch ELSE s.body, fns) = {}
         [] s.k = "with" ->
              \* __exit__ is code that only the normal end reaches
              Exits(s.body, fns) = {}
         [] s.k = "if" ->
              \* the last elif jumps past the else
              s.elifs # <<>> => s.els = <<>>
         [] s.k = "method" ->
              \* a throw that is caught inside a method resets `self`, a
              \* method's Return looks at no deferred block, and a type error
              \* is null there
              /\ ~Catches(Body(s.f, fns), fns) /\ ~Defers(Body(s.f, fns))
              /\ "fail" \notin Exits(Body(s.f, fns), fns)
         [] OTHER -> TRUE

TameBlock(ss, in_for, fns) == \A i \in DOMAIN ss : TameStmt(ss[i], in_for, fns)

\* deferred blocks run at an explicit return only: an epilogue skips the first
\* one declared, and a throw skips them all
TameFn(body, fns) ==
    /\ TameBlock(body, FALSE, fns)
    /\ Defers(body) => /\ Last(body).k = "return" /\ Exits(body, fns) = {"return"}
                       /\ \A i \in DOMAIN body : body[i].k = "defer" =>
                             Exits(<<body[i].s>>, fns) = {} /\ ~Catches(<<body[i].s>>, fns)

Tame(src) ==
    /\ TameBlock(src.main, FALSE, src.fns)
    /\ ~Defers(src.main)
    /\ \A i \in DOMAIN src.fns : TameFn(src.fns[i].body, src.fns)

(***************************************************************************)
(* Families                                                                *)
(***************************************************************************)

Leaves == {Say(1), Raise1, Bad, Call("f"), Method("m", "o"), Break, Return1}
Blocks0 == {<<>>} \cup {<<s>> : s \in Leaves} \cup {<<Say(2), Call("f")>>}
Plain0 == {b \in Blocks0 : \A i \in DOMAIN b : b[i].k \notin {"break", "return"}}
Loop0 == {b \in Blocks0 : \A i \in DOMAIN b : b[i].k # "return"}

Compound(B, L) ==
    {Try(b, c, f) : b \in B, c \in B, f \in {<<>>, <<Say(3)>>}}
    \cup {TryFinally(b, <<Say(3)>>) : b \in B}
    \cup {For(TwoItems, b) : b \in L}
    \cup {If(FALSE, b, <<Elif(c, <<Say(4)>>)>>, e) : b \in {<<Say(1)>>}, c \in BOOLEAN, e \in {<<>>, <<Say(5)>>}}
    \cup {Match(IntV(0), <<Case(IntV(0), b)>>, <<Say(6)>>) : b \in B}
    \cup {With("o", b) : b \in B}

Small == {Say(1), Raise1, Break, Method("m", "o")}
Nested == 
    {For(OtherItems, <<s, Say(2)>>) : s \in Compound({<<s>> : s \in Small \ {Break}}, {<<s>> : s \in Small})}
    \cup {Try(<<s>>, <<Say(7)>>, <<>>) : s \in Compound({<<s>> : s \in Small \ {Break}}, {<<s>> : s \in Small})}

FBodies == {<<Say(10)>>, <<Say(10), Raise1>>, <<Method("m", "p"), Return1>>,
            <<Defer(Say(11)), Defer(Say(12)), Return1>>,
            <<Defer(Say(11)), Defer(Say(12)), Say(10)>>,
            <<Defer(Method("m", "p")), If(TRUE, <<Return1>>, <<>>, <<>>), Say(13), Return1>>,
            <<For(TwoItems, <<Return1>>)>>,
            <<Try(<<Raise1>>, <<Say(14)>>, <<Say(15)>>), Say(16)>>,
            <<Try(<<Return1>>, <<Say(14)>>, <<>>)>>,
            <<Defer(Return1), Say(10), Return1>>,
            <<Defer(Loop(<<Break>>)), Defer(Call("g")), Return1>>}
MBodies == {<<SaySelf>>, <<SaySelf, Raise1>>, <<DivZero>>, <<Bad>>, <<Try(<<Raise1>>, <<SaySelf>>, <<>>)>>,
            <<Loop(<<SaySelf, Break>>)>>}

Everything ==
    {Program(<<s, Say(9)>>, <<Fn("m", mb), Fn("f", fb), Fn("g", <<Bad>>)>>) :
        s \in Compound(Plain0, Loop0) \cup Nested \cup (Leaves \ {Break, Return1}),
        fb \in FBodies, mb \in MBodies}
    \cup {Program(<<Defer(Say(1)), Defer(Call("f")), Return1>>, <<Fn("f", fb), Fn("m", <<SaySelf>>), Fn("g", <<SaySelf>>)>>) : fb \in FBodies \cup {<<Raise1>>}}
    \cup {Program(<<Defer(Say(1)), Return1>>, <<>>)}
    \* a throw resumes in the loop of a function that has returned
    \cup {Program(<<Call("f"), s>>, <<Fn("f", <<For(TwoItems, <<Try(<<Return1>>, <<Say(14)>>, <<>>)>>)>>)>>) :
              s \in {Raise1, DivZero}}
    \cup {Program(<<Call("g"), Say(9)>>, <<Fn("f", fb), Fn("m", <<SaySelf>>), Fn("g", <<Call("f")>>)>>) :
              fb \in FBodies \ {<<Defer(Loop(<<Break>>)), Defer(Call("g")), Return1>>}}
=============================================================================
