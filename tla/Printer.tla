------------------------------- MODULE Printer -------------------------------
(***************************************************************************)
(* A printer that knows the grammar: a program as the lines of a source    *)
(* file, in several layouts.                                               *)
(***************************************************************************)
EXTENDS Lexer

RECURSIVE Flat(_)
\* the sequences one after the other
Flat(parts) ==
    CASE Len(parts) = 0 -> <<>> [] Len(parts) = 1 -> parts[1]
      [] OTHER -> LET half == Len(parts) \div 2 IN Flat(SubSeq(parts, 1, half)) \o Flat(SubSeq(parts, half + 1, Len(parts)))
RECURSIVE Listed1(_)
Listed1(set) == IF set = {} THEN <<>> ELSE LET x == CHOOSE y \in set : TRUE IN <<x>> \o Listed1({y \in set : y # x})

\* how a program is written
Layouts ==
    <<[full |-> FALSE, ends |-> TRUE, thens |-> FALSE, set |-> TRUE, gap |-> <<>>],
     [full |-> FALSE, ends |-> FALSE, thens |-> TRUE, set |-> TRUE, gap |-> <<[k |-> "#comment"]>>],
     [full |-> TRUE, ends |-> FALSE, thens |-> FALSE, set |-> FALSE, gap |-> <<[k |-> "block"]>>],
     [full |-> TRUE, ends |-> TRUE, thens |-> TRUE, set |-> FALSE, gap |-> <<>>]>>

(***************************************************************************)
(* Expressions                                                             *)
(***************************************************************************)

Ws(words) == [n \in DOMAIN words |-> Word(words[n])]
W(w) == <<Word(w)>>
RECURSIVE Joined(_, _)
\* the parts with a separator between them
Joined(parts, sep) ==
    CASE parts = <<>> -> <<>> [] Len(parts) = 1 -> parts[1] [] OTHER -> parts[1] \o W(sep) \o Joined(Tail(parts), sep)
Str(s, parts) == [k |-> "str", s |-> s, parts |-> parts]

Lexeme ==
    ("Add" :> "+") @@ ("Sub" :> "-") @@ ("Mul" :> "*") @@ ("Div" :> "/") @@ ("Mod" :> "%") @@ ("FloorDiv" :> "//") @@
    ("Power" :> "**") @@ ("Eq" :> "==") @@ ("Ne" :> "!=") @@ ("Lt" :> "<") @@ ("Gt" :> ">") @@ ("Le" :> "<=") @@ ("Ge" :> ">=") @@
    ("Is" :> "is") @@ ("In" :> "in") @@ ("Repeated" :> "repeated") @@ ("And" :> "and") @@ ("Or" :> "or")
\* a tighter operator is higher; what needs no parentheses is Atomic
Atomic == 10
StrengthOf(op) ==
    CASE op = "Or" -> 4 [] op = "And" -> 5 [] op \in {"Eq", "Ne", "Lt", "Gt", "Le", "Ge", "Is", "In"} -> 6
      [] op \in {"Add", "Sub"} -> 7 [] op = "Power" -> 9 [] OTHER -> 8
Strength(e) ==
    CASE e.k = "bin" -> StrengthOf(e.op)
      [] e.k \in {"range", "rangeby", "lambda"} -> 0 [] e.k \in {"cond", "cast", "propagate"} -> 1 [] e.k = "pipe" -> 2
      [] e.k = "coalesce" -> 3 [] e.k \in {"neg", "not", "len", "reverse", "asc", "desc"} -> 8
      [] e.k \in {"member", "index", "slice", "optional"} -> 9
      [] e.k = "call" /\ e.f.k = "member" -> 9
      [] OTHER -> Atomic

RECURSIVE Shown(_, _, _)
Listing(es, sep, full) == Joined([n \in DOMAIN es |-> Shown(es[n], 1, full)], sep)
ParamText(p) == W(p.x) \o (IF p.ty = "dyn" THEN <<>> ELSE W(":") \o W(p.ty))
ParamList(ps) == W("(") \o Joined([n \in DOMAIN ps |-> ParamText(ps[n])], ",") \o W(")")
\* a part that may be left out
Maybe(es, full) == IF es = <<>> THEN <<>> ELSE Shown(es[1], 1, full)
Around == [list |-> <<"[", "]">>, dict |-> <<"{", "}">>, set |-> <<"{", "}">>]
Link(link, full) ==
    IF link.k = "index" THEN W("[") \o Listing(link.es, ",", full) \o W("]")
    ELSE W(link.m) \o (IF link.k = "call" THEN W("(") \o Listing(link.es, ",", full) \o W(")") ELSE <<>>)
Entry(kvs, n, full) == Shown(kvs[2 * n - 1], 1, full) \o W(":") \o Shown(kvs[2 * n], 1, full)

Text(e, full) ==
    CASE e.k = "int" -> <<[k |-> "int", s |-> "n", n |-> e.n, fits |-> TRUE]>>
      [] e.k = "str" -> <<Str(e.s, <<>>)>>
      [] e.k = "bool" -> W(IF e.b THEN "true" ELSE "false")
      [] e.k = "null" -> W("null")
      [] e.k = "id" -> W(e.x)
      [] e.k = "bin" ->
           LET s == StrengthOf(e.op)
               right == e.op = "Power"
           IN Shown(e.l, IF right THEN s + 1 ELSE s, full) \o W(Lexeme[e.op]) \o Shown(e.r, IF right THEN s ELSE s + 1, full)
      [] e.k = "neg" -> W("-") \o Shown(e.e, Atomic, full)
      [] e.k = "not" -> W("not") \o Shown(e.e, Atomic, full)
      [] e.k = "member" -> Shown(e.e, 9, full) \o W(".") \o W(e.m)
      [] e.k = "call" -> Shown(e.f, 9, FALSE) \o W("(") \o Listing(e.args, ",", full) \o W(")")
      [] e.k = "index" -> Shown(e.e, 9, full) \o W("[") \o Shown(e.j, 1, full) \o W("]")
      [] e.k = "slice" -> Shown(e.es[1], 9, full) \o W("[") \o Listing(SubSeq(e.es, 2, 3), ":", TRUE) \o W("]")
      [] e.k = "cond" -> Shown(e.c, 2, full) \o W("?") \o Shown(e.a, 1, TRUE) \o W(":") \o Shown(e.b, 1, full)
      [] e.k = "coalesce" -> Shown(e.a, 4, full) \o W("??") \o Shown(e.b, 3, full)
      [] e.k = "cast" -> Shown(e.e, 1, full) \o W("as") \o W(e.ty)
      [] e.k = "range" -> Shown(e.a, 1, full) \o W(IF e.incl THEN "..." ELSE "..") \o Shown(e.b, 1, full)
      [] e.k = "rangeby" -> Shown(e.a, 1, full) \o W("..") \o Shown(e.b[1], 1, full) \o W("step") \o Shown(e.by[1], 1, full)
      [] e.k = "list" -> W("[") \o Listing(e.es, ",", full) \o W("]")
      [] e.k = "tuple" -> W("(") \o Listing(e.es, ",", full) \o W(")")
      [] e.k = "set" -> W("{") \o Listing(e.es, ",", full) \o W("}")
      [] e.k = "dict" -> W("{") \o Joined([n \in 1..(Len(e.es) \div 2) |-> Entry(e.es, n, full)], ",") \o W("}")
      [] e.k = "len" -> Shown(e.e, 9, full) \o W("#")
      [] e.k \in {"reverse", "asc", "desc"} ->
           Shown(e.es[1], 9, full) \o W(CASE e.k = "reverse" -> "~" [] e.k = "asc" -> "^" [] e.k = "desc" -> "_")
      [] e.k = "pipe" -> Shown(e.es[1], 2, full) \o W("|>") \o Shown(e.es[2], 3, full)
      [] e.k = "interp" ->
           <<Str("", [n \in DOMAIN e.parts |-> IF e.parts[n].k = "text" THEN [text |-> e.parts[n].s] ELSE [code |-> Shown(e.parts[n].e, 0, full)]])>>
      [] e.k = "optional" -> Shown(e.e, 9, full) \o W("?.") \o Link(e.links[1], full)
      [] e.k = "lambda" -> W("fn") \o ParamList(e.params) \o Shown(e.body, 1, full)
      [] e.k = "comp" ->
           W(Around[e.of][1]) \o Listing(e.es, ":", full) \o Ws(<<"for", e.x, "in">>) \o Shown(e.it, 1, full)
           \o (IF e.cond = <<>> THEN <<>> ELSE W("if") \o Shown(e.cond[1], 1, full)) \o W(Around[e.of][2])
      [] e.k = "await" -> W("await") \o Shown(e.es[1], Atomic, full)
      [] e.k = "float" -> <<[k |-> "float", s |-> e.s]>>
      [] e.k = "resume" -> W("resume") \o W("(") \o Listing(e.es, ",", full) \o W(")")
      [] e.k = "propagate" -> Shown(e.es[1], 2, full) \o W("?")
      [] e.k = "spread" -> W("...") \o Shown(e.e, Atomic, full)
      [] e.k = "slicing" ->
           Shown(e.e, 9, full) \o W("[") \o Maybe(e.from, full) \o W(":") \o Maybe(e.to, full)
           \o (IF e.by = <<>> THEN <<>> ELSE W(":") \o Maybe(e.by, full)) \o W("]")
Shown(e, min, full) ==
    LET s == Strength(e)
    IN IF s < min \/ (full /\ s < Atomic /\ min > 0) THEN W("(") \o Text(e, full) \o W(")") ELSE Text(e, full)

(***************************************************************************)
(* Statements: lines from a column on                                      *)
(***************************************************************************)

Step4 == 4
Line1(col, items) == <<[col |-> col, items |-> items]>>
Ended(col, lay) == IF lay.ends THEN Line1(col, <<[k |-> "directive", s |-> "/end", scope |-> FALSE, rest |-> W("end")]>>) ELSE <<>>

RECURSIVE Lines(_, _, _)
Body(col, ss, lay) == Flat([n \in DOMAIN ss |-> Lines(col + Step4, ss[n], lay)])
\* head, an indented body
Headed(col, head, body, lay) == Line1(col, head) \o Body(col, body, lay)
Optionally(col, word, body, lay) == IF body = <<>> THEN <<>> ELSE Headed(col, W(word), body, lay)
\* a statement of one line
Short(s) == s.k \in {"expr", "println", "set", "return", "throw", "break", "continue"}

Targets1(s) == Joined([n \in DOMAIN s.to |-> Shown(s.to[n], 0, FALSE)], ",")
SetText(s, lay) ==
    CASE lay.set /\ Len(s.to) = 1 -> W("set") \o W(",") \o Targets1(s) \o W(",")
      [] Len(s.to) > 1 -> W("set") \o W(",") \o Targets1(s) \o W("=")
      [] OTHER -> Targets1(s) \o W("=")
RECURSIVE PatternText(_)
PatternsText(ps, sep) == Joined([n \in DOMAIN ps |-> PatternText(ps[n])], sep)
PatternText(p) ==
    CASE p.k = "lit" -> Shown(p.e, 0, FALSE)
      [] p.k = "bind" -> W(p.x)
      [] p.k = "seq" -> W("[") \o PatternsText(p.ps, ",") \o W("]")
      [] p.k = "tuple" -> W("(") \o PatternsText(p.ps, ",") \o W(")")
      [] p.k = "or" -> PatternsText(p.ps, "|")
      [] p.k = "variant" -> Ws(<<p.type, ".", p.variant>>) \o (IF p.ps = <<>> THEN <<>> ELSE W("(") \o PatternsText(p.ps, ",") \o W(")"))
      [] p.k = "any" -> W("_")
Case1(col, c, lay) ==
    Headed(col, Ws(<<"case", ",">>) \o PatternText(c.p) \o (IF "guard" \in DOMAIN c THEN W("if") \o Shown(c.guard, 1, lay.full) ELSE <<>>), c.body, lay)

Lines(col, s, lay) ==
    LET Ex(e) == Shown(e, 1, lay.full)
        Top(e) == Shown(e, 0, lay.full)
        word == s.k
    IN CASE s.k = "set" -> Line1(col, SetText(s, lay) \o Top(s.e))
         [] s.k = "compound" ->
              Line1(col, (IF lay.set THEN Ws(<<"set", ",">>) ELSE <<>>) \o
                         Ws(<<s.x, CASE s.op = "Add" -> "+=" [] s.op = "Sub" -> "-=" [] s.op = "Mul" -> "*=">>) \o Top(s.e))
         [] s.k = "compoundto" ->
              Line1(col, Targets1(s) \o W(CASE s.op = "Add" -> "+=" [] s.op = "Sub" -> "-=" [] s.op = "Mul" -> "*=") \o Top(s.e))
         [] s.k = "println" -> Line1(col, Ws(<<"println", ",">>) \o Listing(s.es, ";", lay.full))
         [] s.k = "expr" -> Line1(col, Top(s.e))
         [] s.k = "return" -> Line1(col, IF s.es = <<>> THEN W("return") ELSE Ws(<<"return", ",">>) \o Listing(s.es, ",", lay.full))
         [] s.k \in {"throw", "panic"} -> Line1(col, Ws(<<s.k, ",">>) \o Top(s.es[1]))
         [] s.k = "assert" -> Line1(col, Ws(<<"assert", ",">>) \o Top(s.e) \o (IF s.message = <<>> THEN <<>> ELSE W(",") \o <<Str(s.message[1], <<>>)>>))
         [] s.k \in {"break", "continue"} -> Line1(col, W(s.k))
         [] s.k = "spawn" -> Line1(col, Ws(<<"spawn", ",">>) \o Top(s.es[1]))
         [] s.k = "yield" -> Line1(col, Ws(<<"yield", ",">>) \o Top(s.es[1]))
         [] s.k = "defer" -> LET inner == Lines(col, s.s, lay)[1] IN Line1(col, Ws(<<"defer", ",">>) \o inner.items)
         [] s.k = "del" -> Line1(col, Ws(<<"del", ",", s.x>>))
         [] s.k = "input" -> Line1(col, Ws(<<"input", ",", s.to.x>>))
         [] s.k = "if" ->
              IF lay.thens /\ Len(s.then) = 1 /\ Short(s.then[1]) /\ s.elifs = <<>> /\ s.els = <<>>
              THEN Line1(col, Ws(<<"if", ",">>) \o Top(s.c) \o W("then") \o Lines(col, s.then[1], lay)[1].items)
              ELSE Headed(col, Ws(<<"if", ",">>) \o Top(s.c), s.then, lay)
                   \o Flat([n \in DOMAIN s.elifs |-> Headed(col, Ws(<<"elif", ",">>) \o Top(s.elifs[n].c), s.elifs[n].body, lay)])
                   \o Optionally(col, "else", s.els, lay) \o Ended(col, lay)
         [] s.k = "while" -> Headed(col, Ws(<<"while", ",">>) \o Top(s.c), s.body, lay) \o Ended(col, lay)
         [] s.k = "forrange" ->
              Headed(col, Ws(<<"for", ",", s.x, ",", "from", ",">>) \o Ex(s.a) \o W("to") \o Ex(s.b)
                          \o (IF s.step = <<>> THEN <<>> ELSE W("step") \o Ex(s.step[1])), s.body, lay) \o Ended(col, lay)
         [] s.k = "forin" -> Headed(col, Ws(<<"for", ",", s.x, ",", "in", ",">>) \o Top(s.e), s.body, lay) \o Ended(col, lay)
         [] s.k = "loop" -> Headed(col, W("loop"), s.body, lay) \o Ended(col, lay)
         [] s.k = "match" ->
              Line1(col, Ws(<<"match", ",">>) \o Top(s.e))
              \o Flat([n \in DOMAIN s.cases |-> Case1(col + Step4, s.cases[n], lay)])
              \o Optionally(col + Step4, "else", s.els, lay) \o Ended(col, lay)
         [] s.k = "try" ->
              Headed(col, W("try"), s.body, lay) \o Headed(col, Ws(<<"catch", ",", s.var[1]>>), s.catch, lay)
              \o Optionally(col, "finally", s.fin, lay) \o Ended(col, lay)
         [] s.k = "with" -> Headed(col, Ws(<<"with", ",">>) \o Ex(s.e) \o Ws(<<",", "as", ",", s.var[1]>>), s.body, lay) \o Ended(col, lay)

(***************************************************************************)
(* Programs                                                                *)
(***************************************************************************)

FnLines(col, f, lay) ==
    Headed(col, Ws(<<"fn", ",", f.name>>) \o ParamList(f.params) \o (IF f.ret = "dyn" THEN <<>> ELSE Ws(<<":", f.ret>>)), f.body, lay) \o Ended(col, lay)
FieldsOf(c) == IF "fields" \in DOMAIN c THEN c.fields ELSE <<>>
ClassLines(c, lay) ==
    Line1(1, Ws(<<"class", ",", c.name>>) \o (IF c.ext = <<>> THEN <<>> ELSE Ws(<<",", "extends", c.ext[1]>>)))
    \o Flat([n \in DOMAIN FieldsOf(c) |-> Line1(1 + Step4, W(FieldsOf(c)[n]))])
    \o Flat([n \in DOMAIN c.methods |-> FnLines(1 + Step4, c.methods[n], lay)]) \o Ended(1, lay)
EnumLines(e, lay) ==
    Line1(1, Ws(<<"enum", ",", e.name>>)) \o Flat([n \in DOMAIN e.members |-> Line1(1 + Step4, W(e.members[n].name))]) \o Ended(1, lay)
\* a gap before every line, a comment after it
Gaps(gap, lines0) ==
    IF gap = <<>> THEN lines0
    ELSE Flat([n \in DOMAIN lines0 |-> <<[col |-> 3, items |-> gap], [col |-> 1, items |-> <<>>],
                                           [lines0[n] EXCEPT !.items = IF gap[1].k = "#comment" THEN @ \o gap ELSE @]>>])
EnumsOf(p) == IF "enums" \in DOMAIN p THEN p.enums ELSE <<>>
ProgramLines(p, lay) ==
    Gaps(lay.gap, Flat([n \in DOMAIN EnumsOf(p) |-> EnumLines(EnumsOf(p)[n], lay)])
                  \o Flat([n \in DOMAIN p.classes |-> ClassLines(p.classes[n], lay)])
                  \o Flat([n \in DOMAIN p.fns |-> FnLines(1, p.fns[n], lay)])
                  \o Flat([n \in DOMAIN p.main |-> Lines(1, p.main[n], lay)]))
ProgramTree(p) ==
    EnumsOf(p) \o [n \in DOMAIN p.classes |-> [d |-> "class", c |-> p.classes[n] @@ [fields |-> <<>>]]]
    \o [n \in DOMAIN p.fns |-> [d |-> "fn", f |-> p.fns[n]]]
    \o [n \in DOMAIN p.main |-> [d |-> "stmt", s |-> p.main[n]]]

=============================================================================
