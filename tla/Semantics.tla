----------------------------- MODULE Semantics -----------------------------
(***************************************************************************)
(* The meaning of a program, the reference its compiled form is checked    *)
(* against: structured, with no stack, handler or jump.  It is what the    *)
(* repository says of the statements: the catch of the innermost try takes *)
(* a throw, finally runs after either, break leaves the innermost loop,    *)
(* deferred statements run last-first when the function returns or throws, *)
(* a with block exits its manager, `self` is the receiver of the method.   *)
(***************************************************************************)
EXTENDS Sequences, SequencesExt

Result(out, end) == [out |-> out, end |-> end, defers |-> <<>>]
Ok == Result(<<>>, "normal")

RECURSIVE Exec(_, _, _)
RECURSIVE ExecStmt(_, _, _)
RECURSIVE ExecFor(_, _, _, _)
RECURSIVE ExecLoop(_, _, _)

\* first a, then b unless a ended abruptly
Then(a, b) == [out |-> a.out \o b.out, end |-> b.end, defers |-> a.defers \o b.defers]

Exec(ss, self, fns) ==
    IF ss = <<>> THEN Ok
    ELSE LET r == ExecStmt(Head(ss), self, fns)
         IN IF r.end # "normal" THEN r ELSE Then(r, Exec(Tail(ss), self, fns))

\* after r whatever its end, unless the block after it ends abruptly itself
Always(r, f) == [Then(r, f) EXCEPT !.end = IF f.end = "normal" THEN r.end ELSE f.end]

ExecFor(n, body, self, fns) ==
    IF n = 0 THEN Ok
    ELSE LET r == Exec(body, self, fns)
         IN IF r.end \in {"normal", "continue"}
            THEN Then(r, ExecFor(n - 1, body, self, fns))
            ELSE [r EXCEPT !.end = IF @ = "break" THEN "normal" ELSE @]

ExecLoop(body, self, fns) ==
    LET r == Exec(body, self, fns)
    IN IF r.end \in {"normal", "continue"}
       THEN Then(r, ExecLoop(body, self, fns))
       ELSE [r EXCEPT !.end = IF @ = "break" THEN "normal" ELSE @]

ExecTry(s, self, fns) ==
    LET r == Exec(s.body, self, fns)
        c == IF s.catches /\ r.end = "throw" THEN Then(r, Exec(s.catch, self, fns)) ELSE r
    IN Always(c, Exec(s.fin, self, fns))

ExecIf(s, self, fns) ==
    LET arms == <<[c |-> s.c, body |-> s.then]>> \o s.elifs \o <<[c |-> TRUE, body |-> s.els]>>
        taken == CHOOSE i \in DOMAIN arms : arms[i].c /\ \A j \in 1..(i - 1) : ~arms[j].c
    IN Exec(arms[taken].body, self, fns)

ExecMatch(s, self, fns) ==
    LET arms == Append(s.cases, [lit |-> s.v, body |-> s.els])
        taken == CHOOSE i \in DOMAIN arms :
                    arms[i].lit = s.v /\ \A j \in 1..(i - 1) : arms[j].lit # s.v
    IN Exec(arms[taken].body, self, fns)

\* deferred statements run when the body is left, in any way
ExecFn(name, self, fns) ==
    LET body == fns[CHOOSE i \in DOMAIN fns : fns[i].name = name].body
        r == Exec(body, self, fns)
        d == Exec(Reverse(r.defers), self, fns)
    IN Result(r.out \o d.out, IF r.end = "throw" THEN "throw" ELSE d.end)

ExecWith(s, self, fns) ==
    LET r == Exec(s.body, self, fns)
    IN Then(Result(<< <<"__with_enter__", s.mgr>> >>, "normal"),
            Always(r, Result(<< <<"__with_exit__", s.mgr>> >>, "normal")))

ExecStmt(s, self, fns) ==
    CASE s.k = "print"    -> Result(<<s.v>>, "normal")
      [] s.k = "self"     -> Result(<<self>>, "normal")
      [] s.k \in {"throw", "return", "break", "continue"} -> Result(<<>>, s.k)
      [] s.k \in {"bad", "div"} -> Result(<<>>, "throw")
      [] s.k = "defer"    -> [Ok EXCEPT !.defers = <<s.s>>]
      [] s.k = "call"     -> ExecFn(s.f, self, fns)
      [] s.k = "method"   -> ExecFn(s.f, s.recv, fns)
      [] s.k = "if"       -> ExecIf(s, self, fns)
      [] s.k = "loop"     -> ExecLoop(s.body, self, fns)
      [] s.k = "for"      -> ExecFor(Len(s.items), s.body, self, fns)
      [] s.k = "try"      -> ExecTry(s, self, fns)
      [] s.k = "match"    -> ExecMatch(s, self, fns)
      [] s.k = "with"     -> ExecWith(s, self, fns)

\* what a program prints and how it ends
Meaning(src) ==
    LET r == Exec(src.main, <<"null", 0>>, src.fns)
    IN [out |-> r.out, end |-> IF r.end = "throw" THEN "error" ELSE "done"]
=============================================================================
