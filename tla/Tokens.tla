------------------------------- MODULE Tokens -------------------------------
(***************************************************************************)
(* What the parser, src/parser/mod.rs, is built from: results of parsing,  *)
(* the steps over the tokens of a file, and the nodes several of its       *)
(* functions make.  A token is [k |-> kind, s |-> lexeme]; keywords and    *)
(* punctuation have their lexeme as kind.                                  *)
(***************************************************************************)
EXTENDS Integers, Sequences, TLC

(***************************************************************************)
(* Results                                                                 *)
(***************************************************************************)

Good(i, v) == [how |-> "ok", i |-> i, v |-> v]
Fail(i) == [how |-> "err", i |-> i]
\* an index past the last token
Panics == [how |-> "panic", i |-> 1000000]

Bind(r, f(_, _)) == IF r.how = "ok" THEN f(r.i, r.v) ELSE r
Map(r, f(_)) == IF r.how = "ok" THEN Good(r.i, f(r.v)) ELSE r

(***************************************************************************)
(* Tokens                                                                  *)
(***************************************************************************)

\* current_kind, peek_kind: EOF past the end
K(t, i) == IF i <= Len(t) THEN t[i].k ELSE "eof"
IsWord(t, i, w) == K(t, i) = "id" /\ t[i].s = w
AtDirective(t, i, d) == K(t, i) = "directive" /\ t[i].s = d
AtEnd(t, i) == K(t, i) = "eof"
Blank == {"nl", "comment"}
AtNl(t, i) == AtEnd(t, i) \/ K(t, i) \in Blank

RECURSIVE SkipNl(_, _)
SkipNl(t, i) == IF K(t, i) \in Blank THEN SkipNl(t, i + 1) ELSE i
Eat(t, i, k) == IF K(t, i) = k THEN i + 1 ELSE i
EatComma(t, i) == Eat(t, i, ",")
Nl(t, i) == SkipNl(t, Eat(t, i, ";"))
EatEnd(t, i) == IF AtDirective(t, i, "/end") THEN i + 1 ELSE i

\* adv_tok; parse_id takes whatever token is there
AdvTok(t, i) == IF i <= Len(t) THEN Good(i + 1, t[i].s) ELSE Panics
Id(t, i) == AdvTok(t, i)
Expect(t, i, k) == IF K(t, i) = k THEN Good(i + 1, k) ELSE Fail(i)
ExpectStr(t, i) == IF K(t, i) = "str" THEN Good(i + 1, t[i].s) ELSE Fail(i)
After(t, i, k, f(_)) == IF K(t, i) = k THEN f(i + 1) ELSE Fail(i)

\* Some(v) as <<v>>, None as <<>>
None(i) == Good(i, <<>>)
Some(r) == Map(r, LAMBDA v : <<v>>)
Line == {"eof", "nl", "comment"}

(***************************************************************************)
(* Nodes                                                                   *)
(***************************************************************************)

Name(x) == [k |-> "id", x |-> x]
MemberOf(e, m) == [k |-> "member", e |-> e, m |-> m]
CallOf(f, args) == [k |-> "call", f |-> f, args |-> args]
Nil == [k |-> "null"]
SliceOf(e, from, to, by) ==
    IF from # <<>> /\ to # <<>> /\ by = <<>> THEN [k |-> "slice", es |-> <<e, from[1], to[1]>>]
    ELSE [k |-> "slicing", e |-> e, from |-> from, to |-> to, by |-> by]
Chained(e, link) ==
    IF e.k = "optional" THEN [e EXCEPT !.links = Append(@, link)]
    ELSE [k |-> "optional", e |-> e, links |-> <<link>>]

AssignTokens == {"=", "+=", "-=", "*=", "%="}
AssignOp == ("=" :> "Simple") @@ ("+=" :> "Add") @@ ("-=" :> "Sub") @@ ("*=" :> "Mul") @@ ("%=" :> "Mod")
Assigned(targets, op, e) ==
    IF op = "Simple" THEN [k |-> "set", to |-> targets, e |-> e]
    ELSE IF Len(targets) = 1 /\ targets[1].k = "id" THEN [k |-> "compound", x |-> targets[1].x, op |-> op, e |-> e]
    ELSE [k |-> "compoundto", to |-> targets, op |-> op, e |-> e]

RECURSIVE Assignable(_)
\* expr_to_assignee succeeds
Assignable(e) == e.k \in {"id", "qualified", "index", "member"} \/ (e.k = "tuple" /\ \A j \in DOMAIN e.es : Assignable(e.es[j]))
=============================================================================
