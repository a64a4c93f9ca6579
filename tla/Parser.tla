------------------------------- MODULE Parser -------------------------------
(***************************************************************************)
(* The parser, src/parser/mod.rs: recursive descent over the tokens of a   *)
(* file (Tokens.tla).  A parser takes the tokens and a position and        *)
(* returns a result; a position that an error leaves behind matters where  *)
(* the caller goes on after the error.  Spans and raw lexemes of literals  *)
(* are left out.  Trees have the form Lower.tla reads; what the native     *)
(* back end does not lower has a form of its own.                          *)
(***************************************************************************)
EXTENDS Tokens, SequencesExt, FiniteSets

RECURSIVE Prec(_, _, _), Stmt(_, _), Block(_, _), Type(_, _), Pattern(_, _), FnDef(_, _), TopLevel(_, _), Directive(_, _)
Expr(t, i) == Prec(t, i, 0)
One(t, i, what) ==
    CASE what = "expr" -> Expr(t, i) [] what = "type" -> Type(t, i)
      [] what = "pattern" -> Pattern(t, i) [] what = "id" -> Id(t, i)

\* item (sep item)*; after a separator, a stop ends the list (parse_exprs_*,
\* parse_args, the names of an import or export)
RECURSIVE More(_, _, _, _, _, _)
More(t, i, acc, what, sep, stops) ==
    IF K(t, i) # sep THEN Good(i, acc)
    ELSE IF K(t, i + 1) \in stops THEN Good(i + 1, acc)
    ELSE Bind(One(t, i + 1, what), LAMBDA j, v : More(t, j, Append(acc, v), what, sep, stops))
Sep1(t, i, what, sep, stops) ==
    Bind(One(t, i, what), LAMBDA j, v : More(t, j, <<v>>, what, sep, stops))
\* [item (, item)*] close
Closed(t, i, what, close, stops) ==
    IF K(t, i) = close THEN Good(i + 1, <<>>)
    ELSE Bind(Sep1(t, i, what, ",", stops), LAMBDA j, vs : Bind(Expect(t, j, close), LAMBDA l, c : Good(l, vs)))
\* (item [,])* until close, as the lists of type arguments are read
RECURSIVE Loose(_, _, _, _, _)
Loose(t, i, acc, what, close) ==
    IF K(t, i) = close THEN Good(i + 1, acc)
    ELSE IF AtEnd(t, i) THEN Fail(i)
    ELSE Bind(One(t, i, what), LAMBDA j, v : Loose(t, EatComma(t, j), Append(acc, v), what, close))

Args(t, i) == Closed(t, i, "expr", ")", {")"})
ExprsSemi(t, i) ==
    IF AtNl(t, i) THEN Good(Nl(t, i), <<>>)
    ELSE Bind(Sep1(t, i, "expr", ";", {}), LAMBDA j, es : Good(Nl(t, j), es))

(***************************************************************************)
(* Types: a name, or a record for the composed ones                        *)
(***************************************************************************)

RECURSIVE StructType(_, _)
StructType(t, i) ==
    IF K(t, i) = "}" THEN Good(i + 1, "any")
    ELSE IF AtEnd(t, i) THEN Fail(i)
    ELSE Bind(Id(t, i), LAMBDA j, x :
           IF K(t, j) \in {",", ":"}
           THEN Bind(Type(t, j + 1), LAMBDA l, ty : StructType(t, EatComma(t, l)))
           ELSE StructType(t, j))

OptionalType(t, i, ty) == IF K(t, i) = "?" THEN Good(i + 1, [y |-> "optional", of |-> <<ty>>]) ELSE Good(i, ty)
NamedType(t, i) ==
    IF K(t, i + 1) # "[" THEN OptionalType(t, i + 1, t[i].s)
    ELSE CASE t[i].s = "ptr" ->
                Bind(Type(t, i + 2), LAMBDA j, ty :
                  Bind(Expect(t, j, "]"), LAMBDA l, c : Good(l, [y |-> "ptr", of |-> <<ty>>])))
           [] t[i].s = "Result" ->
                Bind(Sep1(t, i + 2, "type", ",", {}), LAMBDA j, ts :
                  \* one `,` is read: a third type is not
                  IF Len(ts) > 2 THEN Fail(j)
                  ELSE Bind(Expect(t, j, "]"), LAMBDA l, c :
                         Good(l, [y |-> "Result", of |-> IF Len(ts) = 1 THEN <<ts[1], "str">> ELSE ts])))
           [] OTHER ->
                Bind(Loose(t, i + 2, <<>>, "type", "]"), LAMBDA j, ts :
                  OptionalType(t, j, [y |-> t[i].s, of |-> ts]))

Type(t, i) ==
    CASE K(t, i) = "&" ->
           LET j == IF IsWord(t, i + 1, "mut") THEN i + 2 ELSE i + 1
           IN Map(Type(t, Eat(t, j, "lifetime")), LAMBDA ty : [y |-> IF j = i + 2 THEN "&mut" ELSE "&", of |-> <<ty>>])
      [] K(t, i) = "struct" -> IF K(t, i + 1) = "{" THEN StructType(t, i + 2) ELSE Good(i + 1, "any")
      [] K(t, i) = "id" -> NamedType(t, i)
      [] K(t, i) = "fn" ->
           After(t, i + 1, "(", LAMBDA j :
             Bind(Closed(t, j, "type", ")", {}), LAMBDA l, ps :
               After(t, l, ":", LAMBDA n : Map(Type(t, n), LAMBDA ty : [y |-> "fn", of |-> Append(ps, ty)]))))
      [] OTHER -> Fail(i)
TypeIf(t, i, k, none) == IF K(t, i) = k THEN Type(t, i + 1) ELSE Good(i, none)

(***************************************************************************)
(* Patterns                                                                *)
(***************************************************************************)

RECURSIVE PatternList(_, _, _), Alternatives(_, _, _)
\* the elements of [p, q *rest]; commas are optional
PatternList(t, i, ps) ==
    CASE K(t, i) = "]" -> Good(i + 1, [k |-> "seq", ps |-> ps])
      [] K(t, i) = "*" ->
           Bind(Id(t, i + 1), LAMBDA j, x :
             After(t, j, "]", LAMBDA l : Good(l, [k |-> "seq", ps |-> ps, rest |-> x])))
      [] OTHER -> Bind(Pattern(t, i), LAMBDA j, p : PatternList(t, EatComma(t, j), Append(ps, p)))

Variant(t, i, type, variant) ==
    IF K(t, i) = "("
    THEN Map(Closed(t, i + 1, "pattern", ")", {}), LAMBDA ps : [k |-> "variant", type |-> type, variant |-> variant, ps |-> ps])
    ELSE Good(i, [k |-> "variant", type |-> type, variant |-> variant, ps |-> <<>>])
RECURSIVE Prefix(_, _)
PatternAtom(t, i) ==
    CASE K(t, i) = "_" -> Good(i + 1, [k |-> "any"])
      [] K(t, i) \in {"int", "float", "str", "true", "false", "null"} -> Map(Prefix(t, i), LAMBDA e : [k |-> "lit", e |-> e])
      [] K(t, i) = "(" -> Map(Closed(t, i + 1, "pattern", ")", {}), LAMBDA ps : [k |-> "tuple", ps |-> ps])
      [] K(t, i) = "[" -> PatternList(t, i + 1, <<>>)
      [] K(t, i) = "id" /\ K(t, i + 1) = "." -> Bind(Id(t, i + 2), LAMBDA j, v : Variant(t, j, t[i].s, v))
      [] K(t, i) = "id" /\ K(t, i + 1) = "(" -> Variant(t, i + 1, "", t[i].s)
      [] K(t, i) = "id" -> Good(i + 1, [k |-> "bind", x |-> t[i].s])
      [] OTHER -> Fail(i)
\* pat | pat: the lexer makes an identifier of a single `|`
Alternatives(t, i, ps) ==
    IF IsWord(t, i, "|") THEN Bind(PatternAtom(t, i + 1), LAMBDA j, p : Alternatives(t, j, Append(ps, p)))
    ELSE Good(i, IF Len(ps) = 1 THEN ps[1] ELSE [k |-> "or", ps |-> ps])
Pattern(t, i) == Bind(PatternAtom(t, i), LAMBDA j, p : Alternatives(t, j, <<p>>))

(***************************************************************************)
(* Places: indices, slices, assignment targets                             *)
(***************************************************************************)

\* the bounds from the first `:` on
Bounds(t, i, e, from, min) ==
    Bind(IF K(t, i + 1) \in {":", "]"} THEN None(i + 1) ELSE Some(Prec(t, i + 1, min)), LAMBDA j, to :
      Bind(IF K(t, j) # ":" THEN None(j) ELSE IF K(t, j + 1) = "]" THEN None(j + 1) ELSE Some(Prec(t, j + 1, min)),
           LAMBDA l, by : After(t, l, "]", LAMBDA n : Good(n, SliceOf(e, from, to, by)))))
\* e[i], e[a:b:c], after the bracket
Bracket(t, i, e, min) ==
    IF K(t, i) = ":" THEN Bounds(t, i, e, <<>>, min)
    ELSE Bind(Prec(t, i, min), LAMBDA j, v :
           IF K(t, j) = ":" THEN Bounds(t, j, e, <<v>>, min)
           ELSE After(t, j, "]", LAMBDA l : Good(l, [k |-> "index", e |-> e, j |-> v])))

\* parse_optional_chain_link: what follows `?.`
ChainLink(t, i) ==
    IF K(t, i) = "["
    THEN Bind(Expr(t, i + 1), LAMBDA j, v : After(t, j, "]", LAMBDA l : Good(l, [k |-> "index", es |-> <<v>>])))
    ELSE Bind(Id(t, i), LAMBDA j, m :
           IF K(t, j) = "(" THEN Map(Args(t, j + 1), LAMBDA es : [k |-> "call", m |-> m, es |-> es])
           ELSE Good(j, [k |-> "member", m |-> m, es |-> <<>>]))
RECURSIVE Path(_, _, _, _, _)
\* parse_assignee: name (.m | [index])*; e is what the next step applies to,
\* which after a slice is the name again
Path(t, i, x, e, target) ==
    CASE K(t, i) = "." -> Bind(Id(t, i + 1), LAMBDA j, m : Path(t, j, x, MemberOf(e, m), MemberOf(e, m)))
      [] K(t, i) = "[" /\ K(t, i + 1) # ":" ->
           Bind(Bracket(t, i + 1, e, 1), LAMBDA j, v :
             IF v.k = "index" THEN Path(t, j, x, v, v)
             ELSE Path(t, j, x, Name(x), [k |-> "index", e |-> e, j |-> v]))
      \* a prefix parser makes an identifier of the colon
      [] K(t, i) = "[" -> Bind(Prec(t, i + 1, 1), LAMBDA j, v : Fail(j))
      [] OTHER -> Good(i, target)
Assignee(t, i) ==
    IF K(t, i) \in {"id", "self", "_"} THEN Path(t, i + 1, t[i].s, Name(t[i].s), Name(t[i].s)) ELSE Fail(i)

\* op value, at the operator; then the end of the line
AssignTo(t, i, targets) ==
    Bind(Expr(t, i + 1), LAMBDA j, v :
      IF \A n \in DOMAIN targets : Assignable(targets[n]) THEN Good(Nl(t, j), Assigned(targets, AssignOp[K(t, i)], v)) ELSE Fail(Nl(t, j)))
Evaluate(t, i, e) == Good(Nl(t, i), [k |-> "expr", e |-> e])

(***************************************************************************)
(* Tables: columns of names, rows of values                                *)
(***************************************************************************)

Table(cols, rows) == [k |-> "table", cols |-> cols, rows |-> rows]
RECURSIVE Row(_, _, _), Rows(_, _, _), Columns(_, _, _), Headers(_, _, _)
Row(t, i, row) ==
    IF AtNl(t, i) THEN Good(i, row)
    ELSE Bind(Expr(t, i), LAMBDA j, v : IF K(t, j) = ";" THEN Row(t, j + 1, Append(row, v)) ELSE Good(j, Append(row, v)))
Headers(t, i, cols) ==
    IF K(t, i) # "id" THEN Good(i, cols)
    ELSE IF K(t, i + 1) = ";" THEN Headers(t, i + 2, Append(cols, t[i].s))
    ELSE Good(i + 1, Append(cols, t[i].s))
EndsRow == {"/", "/end"}
Rows(t, i, rows) ==
    CASE K(t, i) \in {"dedent", "eof"} -> Good(i, rows)
      [] K(t, i) = "/" -> Good(i + 1, rows)
      [] K(t, i) = "directive" -> Good(IF t[i].s \in EndsRow THEN i + 1 ELSE i, rows)
      [] OTHER -> Bind(Row(t, SkipNl(t, i), <<>>), LAMBDA j, row :
                    Rows(t, SkipNl(t, j), IF row = <<>> THEN rows ELSE Append(rows, row)))
EatSlash(t, i) == IF K(t, i) = "/" \/ AtDirective(t, i, "/") THEN i + 1 ELSE i
\* parse_table_assign, after `/=`
TableAssign(t, i) ==
    LET open == SkipNl(t, i)
        body == IF K(t, open) = "indent" THEN SkipNl(t, open + 1) ELSE open
    IN Bind(Headers(t, body, <<>>), LAMBDA j, cols :
         Bind(Rows(t, SkipNl(t, j), <<>>), LAMBDA l, rows :
           Good(EatSlash(t, SkipNl(t, Eat(t, l, "dedent"))), Table(cols, rows))))

\* `a; b; c /= 1; 2; 3`.  Where the names are not followed by `/=` the
\* position stays after them; where a name is missing it goes back to the first `;`.
Columns(t, i, cols) ==
    IF K(t, i) # ";" THEN [i |-> i, cols |-> cols, all |-> TRUE]
    ELSE LET j == SkipNl(t, i + 1)
         IN IF K(t, j) = "id" THEN Columns(t, j + 1, Append(cols, t[j].s)) ELSE [i |-> i, cols |-> cols, all |-> FALSE]

(***************************************************************************)
(* Blocks                                                                  *)
(***************************************************************************)

RECURSIVE UntilNl(_, _, _), Stmts(_, _, _), Braced(_, _, _), ScopeStmts(_, _, _), FillStmts(_, _, _)
\* a statement takes the newline after it, so that only the end of the file or
\* an error ends this loop
UntilNl(t, i, ss) ==
    IF AtNl(t, i) THEN Good(i, ss) ELSE Bind(Stmt(t, i), LAMBDA j, s : UntilNl(t, j, Append(ss, s)))
Stmts(t, i, ss) ==
    LET j == SkipNl(t, i)
    IN CASE AtEnd(t, j) -> Fail(j)
         [] K(t, j) = "dedent" \/ AtDirective(t, j, "/end") -> Good(j, ss)
         [] K(t, j) = "directive" -> Bind(Directive(t, j), LAMBDA l, s : Stmts(t, l, Append(ss, s)))
         [] OTHER -> Bind(Stmt(t, j), LAMBDA l, s : Stmts(t, l, Append(ss, s)))
Braced(t, i, ss) ==
    IF K(t, i) = "}" THEN Good(i + 1, ss)
    ELSE IF AtEnd(t, i) THEN Fail(i)
    ELSE Bind(Stmt(t, i), LAMBDA j, s : Braced(t, SkipNl(t, j), Append(ss, s)))

\* after the statements of an indented body: its Dedent, then its /end
Close(t, i) == EatEnd(t, SkipNl(t, Eat(t, i, "dedent")))
Block(t, i) ==
    LET j == SkipNl(t, i)
    IN CASE K(t, i) = ";" -> UntilNl(t, i + 1, <<>>)
         [] K(t, j) = "indent" -> Bind(Stmts(t, j + 1, <<>>), LAMBDA l, ss : Good(Close(t, l), ss))
         [] K(t, j) = "{" -> Braced(t, j + 1, <<>>)
         [] OTHER -> Good(j, <<>>)

\* scope and fill blocks must close with /end
CloseStrict(t, i, ss) ==
    LET j == SkipNl(t, Eat(t, i, "dedent"))
    IN IF AtDirective(t, j, "/end") THEN Good(j + 1, ss) ELSE IF AtEnd(t, j) THEN Fail(j) ELSE Good(j, ss)
ScopeStmts(t, i, ss) ==
    LET j == SkipNl(t, i)
    IN CASE K(t, j) \in {"dedent", "eof", "/"} -> Good(j, ss)
         [] K(t, j) = "directive" ->
              IF t[j].s \in EndsRow THEN Good(j, ss)
              ELSE Bind(Directive(t, j), LAMBDA l, s : ScopeStmts(t, l, Append(ss, s)))
         [] OTHER -> Bind(Stmt(t, j), LAMBDA l, s : ScopeStmts(t, l, Append(ss, s)))
ScopeBody(t, i) ==
    IF K(t, i) # "indent" THEN Fail(i) ELSE Bind(ScopeStmts(t, i + 1, <<>>), LAMBDA j, ss : CloseStrict(t, j, ss))

IsName(s) == s.k = "expr" /\ s.e.k = "id"
\* the names at the end of the statements read so far
NamesAtEnd(ss) == LET others == {n \in DOMAIN ss : ~IsName(ss[n])} IN IF others = {} THEN 0 ELSE CHOOSE n \in others : \A m \in others : m <= n
FillStmts(t, i, ss) ==
    LET j == SkipNl(t, i)
    IN CASE AtEnd(t, j) -> Fail(j)
         [] K(t, j) = "dedent" -> Good(j, ss)
         [] K(t, j) = "directive" ->
              IF t[j].s \in EndsRow THEN Good(j, ss)
              ELSE Bind(Directive(t, j), LAMBDA l, s : FillStmts(t, l, Append(ss, s)))
         \* the token `/=` itself is not skipped: parse_table_assign starts at it
         [] K(t, j) = "/=" ->
              LET n == NamesAtEnd(ss)
              IN Bind(TableAssign(t, j), LAMBDA l, tab :
                   FillStmts(t, l, Append(SubSeq(ss, 1, n), Table([m \in 1..(Len(ss) - n) |-> ss[n + m].e.x], tab.rows))))
         [] OTHER -> Bind(Stmt(t, j), LAMBDA l, s : FillStmts(t, l, Append(ss, s)))
FillBlock(t, i) ==
    IF K(t, i) # "indent" THEN Fail(i) ELSE Bind(FillStmts(t, i + 1, <<>>), LAMBDA j, ss : CloseStrict(t, j, ss))

Fills == {"/set", "/paste", "/println", "/import", "/export"}
\* parse_directive, at any token: cur_tok is an index
Directive(t, i) ==
    CASE i > Len(t) -> Panics
      [] AtDirective(t, i, "/end") -> Fail(i + 1)
      [] K(t, i) = "/=" -> TableAssign(t, i + 1)
      [] K(t, i) = "directive" /\ t[i].scope ->
           Bind(ScopeBody(t, SkipNl(t, i + 1)), LAMBDA j, ss :
             Good(EatSlash(t, SkipNl(t, j)), [k |-> "scope", name |-> t[i].s, body |-> ss]))
      [] OTHER ->
           LET j == SkipNl(t, i + 1)
           IN Map(IF t[i].s \in Fills THEN FillBlock(t, j) ELSE Block(t, j),
                  LAMBDA ss : [k |-> "directive", name |-> t[i].s, body |-> ss])

(***************************************************************************)
(* Statements                                                              *)
(***************************************************************************)

ExprStmt(e) == [k |-> "expr", e |-> e]
\* parse_stmt's send and receive: name(args) or name, args
MessageCall(t, i, name, n) ==
    LET paren == K(t, i) = "("
        More2(j, es) == IF n = 1 THEN Good(j, es) ELSE After(t, j, ",", LAMBDA l : Map(Expr(t, l), LAMBDA v : Append(es, v)))
    IN IF ~paren /\ K(t, i) # "," THEN Fail(i)
       ELSE Bind(Expr(t, i + 1), LAMBDA j, ch : Bind(More2(j, <<ch>>), LAMBDA l, es :
              Bind(IF paren THEN Expect(t, l, ")") ELSE Good(l, ""), LAMBDA m, c : Good(m, ExprStmt(CallOf(Name(name), es))))))

ReturnStmt(t, i) ==
    LET j == EatComma(t, i)
    IN IF AtNl(t, j) \/ K(t, j) \in {"dedent", "directive"} THEN Good(Nl(t, j), [k |-> "return", es |-> <<>>])
       ELSE Bind(Sep1(t, j, "expr", ",", Line), LAMBDA l, es : Good(Nl(t, l), [k |-> "return", es |-> es]))

\* break and continue look for their label past the end of the line
Jump(t, i, k) ==
    LET j == SkipNl(t, i + 1)
    IN IF K(t, j) = "id" THEN Good(Nl(t, j + 1), [k |-> k, label |-> <<t[j].s>>]) ELSE Good(Nl(t, j), [k |-> k, label |-> <<>>])

LambdaOf(ps, e) == [k |-> "lambda", params |-> ps, body |-> e]
RECURSIVE Params(_, _, _)
\* spawn, fn(params) body: an expression or else a statement, of which only an
\* expression or a print is kept
SpawnBody(s) ==
    CASE s.k = "expr" -> s.e
      [] s.k \in {"println", "paste"} -> CallOf(Name(s.k), s.es)
      [] OTHER -> Nil
\* [T, U: A + B]: read, and not told apart here
RECURSIVE Bounded(_, _), TypeParams(_, _)
Bounded(t, i) ==
    LET j == IF K(t, i) = "id" THEN i + 1 ELSE i IN IF K(t, j) = "+" THEN Bounded(t, j + 1) ELSE j
TypeParams(t, i) ==
    LET j == CASE K(t, i) = "id" /\ K(t, i + 1) = ":" -> Bounded(t, i + 2) [] K(t, i) = "id" -> i + 1 [] OTHER -> i
    IN CASE K(t, i) = "]" -> None(i + 1)
         [] ~AtEnd(t, i) /\ K(t, j) = "," -> TypeParams(t, j + 1)
         [] OTHER -> Map(Expect(t, j, "]"), LAMBDA c : <<>>)
FnParams(t, i) ==
    Bind(IF K(t, i) = "[" THEN TypeParams(t, i + 1) ELSE None(i), LAMBDA j, tps :
      After(t, j, "(", LAMBDA l : IF K(t, l) = ")" THEN Good(l + 1, <<>>) ELSE Params(t, l, <<>>)))
Spawn(t, i) ==
    LET j == EatComma(t, i)
        Spawned(l, e) == Good(Nl(t, l), [k |-> "spawn", es |-> <<e>>])
    IN IF K(t, j) # "fn" THEN Bind(Expr(t, j), Spawned)
       ELSE Bind(FnParams(t, j + 1), LAMBDA l, ps :
              LET e == Expr(t, l)
              IN IF e.how # "err" THEN Bind(e, LAMBDA m, v : Spawned(m, LambdaOf(ps, v)))
                 ELSE Bind(Stmt(t, l), LAMBDA m, s : Spawned(m, LambdaOf(ps, SpawnBody(s)))))

RECURSIVE Elifs(_, _, _)
Elifs(t, i, s) ==
    LET j == SkipNl(t, i)
    IN CASE K(t, j) = "elif" ->
              After(t, j + 1, ",", LAMBDA l : Bind(Expr(t, l), LAMBDA m, c : Bind(Block(t, m), LAMBDA n, b :
                Elifs(t, n, [s EXCEPT !.elifs = Append(@, [c |-> c, body |-> b])]))))
         [] K(t, j) = "else" -> Map(Block(t, j + 1), LAMBDA b : [s EXCEPT !.els = b])
         [] OTHER -> Good(j, s)
If(t, i) ==
    Bind(Expr(t, i), LAMBDA j0, c :
      LET j == SkipNl(t, j0)
      IN Bind(IF K(t, j) = "then" THEN Map(Stmt(t, SkipNl(t, j + 1)), LAMBDA s : <<s>>) ELSE Block(t, j), LAMBDA l, b :
           Elifs(t, l, [k |-> "if", c |-> c, then |-> b, elifs |-> <<>>, els |-> <<>>])))
While(t, i) ==
    Bind(Expr(t, i), LAMBDA j, c : Map(Block(t, j), LAMBDA b : [k |-> "while", c |-> c, body |-> b, els |-> <<>>]))

\* the variables of `for, a, b, in, …`
RECURSIVE ForVars(_, _, _)
ForVars(t, i, xs) ==
    IF K(t, i) # "id" THEN Good(i, xs)
    ELSE IF K(t, i + 1) = "," THEN ForVars(t, SkipNl(t, i + 2), Append(xs, t[i].s))
    ELSE Good(i + 1, Append(xs, t[i].s))
ForIn(x, e, b) == [k |-> "forin", x |-> x, e |-> e, body |-> b, els |-> <<>>]
\* several variables: the element is kept and taken apart in the body
Destructured(xs, b) ==
    LET el == "__for_tuple_" \o xs[1]
    IN <<Assigned(<<Name(el)>>, "Simple", Name(xs[1]))>> \o
       [n \in DOMAIN xs |-> Assigned(<<Name(xs[n])>>, "Simple", [k |-> "index", e |-> Name(el), j |-> [k |-> "int", n |-> n - 1]])] \o b
Step(t, i) ==
    CASE K(t, i) = "step" -> Some(Expr(t, EatComma(t, i + 1)))
      [] K(t, i) = "," /\ K(t, i + 1) = "step" -> Some(Expr(t, i + 2))
      [] OTHER -> None(EatComma(t, i))
For(t, i) ==
    Bind(Id(t, i), LAMBDA j, x : After(t, j, ",", LAMBDA l : Bind(ForVars(t, SkipNl(t, l), <<x>>), LAMBDA m, xs :
      CASE K(t, m) = "in" ->
             After(t, m + 1, ",", LAMBDA n : Bind(Expr(t, n), LAMBDA o, e :
               Map(Block(t, o), LAMBDA b : ForIn(x, e, IF Len(xs) = 1 THEN b ELSE Destructured(xs, b)))))
        [] K(t, m) = "from" ->
             After(t, m + 1, ",", LAMBDA n : Bind(Expr(t, n), LAMBDA o, a :
               IF ~IsWord(t, o, "to") THEN Fail(o)
               ELSE Bind(Expr(t, o + 1), LAMBDA p, z : Bind(Step(t, p), LAMBDA q, by : Map(Block(t, SkipNl(t, q)), LAMBDA b :
                      [k |-> "forrange", x |-> x, a |-> a, b |-> z, step |-> by, body |-> b, els |-> <<>>])))))
        [] OTHER -> Fail(m))))

(***************************************************************************)
(* match, select: an indented list of cases                                *)
(***************************************************************************)

Guarded(t, i, p) ==
    Bind(IF K(t, i) = "if" THEN Some(Expr(t, i + 1)) ELSE None(i), LAMBDA j, g : Map(Block(t, j), LAMBDA b :
      IF g = <<>> THEN [p |-> p, body |-> b] ELSE [p |-> p, guard |-> g[1], body |-> b]))
MatchCase(t, i) == Bind(Pattern(t, EatComma(t, i)), LAMBDA j, p : Guarded(t, j, p))

Direction(t, i) ==
    CASE K(t, i) = "receive" ->
           After(t, i + 1, "(", LAMBDA j : Bind(Expr(t, j), LAMBDA l, ch : After(t, l, ")", LAMBDA m :
             Map(IF K(t, m) = "," THEN Some(Id(t, m + 1)) ELSE None(m), LAMBDA x : [dir |-> "receive", es |-> <<ch>>, x |-> x]))))
      [] K(t, i) = "send" ->
           After(t, i + 1, "(", LAMBDA j : Bind(Expr(t, j), LAMBDA l, ch : After(t, l, ",", LAMBDA m :
             Bind(Expr(t, m), LAMBDA n, v : After(t, n, ")", LAMBDA o : Good(o, [dir |-> "send", es |-> <<ch, v>>, x |-> <<>>]))))))
      [] IsWord(t, i, "after") ->
           After(t, i + 1, "(", LAMBDA j : Bind(Expr(t, j), LAMBDA l, d : After(t, l, ")", LAMBDA m :
             Good(m, [dir |-> "after", es |-> <<d>>, x |-> <<>>]))))
      [] OTHER -> Fail(i)
SelectCase(t, i) ==
    Bind(Direction(t, EatComma(t, i)), LAMBDA j, d : Map(Block(t, Nl(t, j)), LAMBDA b : [on |-> d, body |-> b]))

\* what ends the list is left in place; an else is its last case
RECURSIVE Cases(_, _, _)
Cases(t, i, s) ==
    LET j == SkipNl(t, i)
    IN CASE K(t, j) = "case" ->
              Bind(IF s.k = "match" THEN MatchCase(t, j + 1) ELSE SelectCase(t, j + 1), LAMBDA l, c :
                Cases(t, l, [s EXCEPT !.cases = Append(@, c)]))
         [] K(t, j) = "else" \/ (s.k = "select" /\ IsWord(t, j, "default")) ->
              Map(Block(t, IF K(t, j) = "id" THEN SkipNl(t, j + 1) ELSE j + 1), LAMBDA b : [s EXCEPT !.els = b])
         [] OTHER -> Good(j, s)
CaseList(t, i, s) ==
    LET j == Nl(t, i)
    IN IF K(t, j) # "indent" THEN Good(j, s) ELSE Bind(Cases(t, j + 1, s), LAMBDA l, whole : Good(Close(t, l), whole))
Match(t, i) == Bind(Expr(t, i), LAMBDA j, e : CaseList(t, j, [k |-> "match", e |-> e, cases |-> <<>>, els |-> <<>>]))
Select(t, i) == CaseList(t, i, [k |-> "select", cases |-> <<>>, els |-> <<>>])

(***************************************************************************)
(* try, with                                                               *)
(***************************************************************************)

Catch(t, i) ==
    LET j == SkipNl(t, i)
    IN IF K(t, j) # "catch" THEN Good(j, [x |-> <<>>, body |-> <<>>])
       ELSE LET l == EatComma(t, SkipNl(t, j + 1))
            IN Bind(IF K(t, l) = "id" THEN Some(Id(t, l)) ELSE None(l), LAMBDA m, x :
                 Bind(Block(t, m), LAMBDA n, b : Good(SkipNl(t, n), [x |-> x, body |-> b])))
Try(t, i) ==
    Bind(Block(t, i), LAMBDA j, body : Bind(Catch(t, j), LAMBDA l, c :
      Bind(IF K(t, l) = "finally" THEN Block(t, l + 1) ELSE Good(l, <<>>), LAMBDA m, fin :
        Good(EatEnd(t, SkipNl(t, m)), [k |-> "try", body |-> body, var |-> c.x, catch |-> c.body, fin |-> fin]))))
With(t, i) ==
    Bind(Expr(t, EatComma(t, i)), LAMBDA j, e :
      LET as == Eat(t, j, ",")
          named == IF K(t, as) = "as" THEN EatComma(t, as + 1) ELSE as
      IN Bind(IF named = j THEN None(j) ELSE Some(Id(t, named)), LAMBDA l, x : Map(Block(t, SkipNl(t, l)), LAMBDA b :
           [k |-> "with", e |-> e, var |-> x, body |-> b])))

(***************************************************************************)
(* set                                                                     *)
(***************************************************************************)

\* `, name` repeated up to an assignment operator: several targets
RECURSIVE Targets(_, _, _)
Targets(t, i, targets) ==
    IF ~(K(t, i) = "," /\ K(t, i + 1) \in {"id", "_"}) THEN [multi |-> FALSE, r |-> None(i)]
    ELSE LET r == Assignee(t, i + 1)
         IN IF r.how # "ok" THEN [multi |-> TRUE, r |-> r]
            ELSE IF K(t, r.i) \in AssignTokens THEN [multi |-> TRUE, r |-> Good(r.i, Append(targets, r.v))]
            ELSE Targets(t, r.i, Append(targets, r.v))
\* the value of several targets is a tuple as soon as a comma follows its
\* first expression, be it the last thing on the line
TupleValue(t, i) ==
    Bind(Sep1(t, i, "expr", ",", Line), LAMBDA j, es :
      Good(j, IF j = Expr(t, i).i THEN es[1] ELSE [k |-> "tuple", es |-> es]))
SetValue(t, i, targets) ==
    CASE K(t, i) \in AssignTokens ->
           Bind(IF Len(targets) > 1 THEN TupleValue(t, i + 1) ELSE Expr(t, i + 1), LAMBDA j, v :
             Good(Nl(t, j), Assigned(targets, AssignOp[K(t, i)], v)))
      [] OTHER -> Bind(Expr(t, EatComma(t, i)), LAMBDA j, v : Good(Nl(t, j), Assigned(targets, "Simple", v)))
\* parse_assign, after `set`
SetStmt(t, i) ==
    LET j == EatComma(t, i)
    IN CASE K(t, i) = "directive" -> Directive(t, i)
         [] K(t, i) = "/=" -> TableAssign(t, i)
         [] K(t, j) = "directive" -> Directive(t, j)
         [] AtNl(t, j) -> Good(j, Assigned(<<>>, "Simple", Nil))
         [] OTHER -> Bind(Assignee(t, j), LAMBDA l, target :
              LET more == Targets(t, l, <<target>>)
              IN IF more.multi THEN Bind(more.r, LAMBDA m, targets : SetValue(t, m, targets))
                 ELSE SetValue(t, l, <<target>>))

(***************************************************************************)
(* Statements that begin with a name                                       *)
(***************************************************************************)

RECURSIVE AsmOperands(_, _), CallTail(_, _, _), PlaceTail(_, _, _), Continue(_, _, _, _)
SkipAsm(t, i) == CHOOSE j \in i..(Len(t) + 1) : K(t, j) \notin Blank \cup {"indent"} /\ \A l \in i..(j - 1) : K(t, l) \in Blank \cup {"indent"}
\* "constraint"(expr), …: an operand that does not parse is skipped
AsmOperands(t, i) ==
    IF K(t, i) # "str" THEN i
    ELSE LET j == SkipAsm(t, i + 1)
             l == IF K(t, j) = "(" THEN Eat(t, Expr(t, j + 1).i, ")") ELSE j
         IN IF K(t, l) = "," THEN AsmOperands(t, SkipAsm(t, l + 1)) ELSE SkipAsm(t, l)
\* after a `:`, an operand list; two of them, outputs and inputs, and a list of
\* clobbers, which are strings alone and stay on their line
AsmList(t, i) == LET j == SkipAsm(t, i) IN IF K(t, j) = ":" THEN AsmOperands(t, SkipAsm(t, j + 1)) ELSE j
RECURSIVE AsmStrings(_, _), Clobbers(_, _)
Clobbers(t, i) ==
    IF K(t, i) # "str" THEN i ELSE IF K(t, i + 1) = "," THEN Clobbers(t, i + 2) ELSE i + 1
AsmClobbers(t, i) == LET j == SkipAsm(t, i) IN IF K(t, j) = ":" THEN Clobbers(t, j + 1) ELSE j
AsmStrings(t, i) == IF K(t, i) = "str" THEN AsmStrings(t, SkipNl(t, i + 1)) ELSE i
Asm(t, i) ==
    LET j == EatComma(t, i)
        Lists(l) == AsmClobbers(t, AsmList(t, AsmList(t, l)))
        end == CASE K(t, j) = "{" -> Eat(t, SkipNl(t, Lists(AsmStrings(t, SkipNl(t, j + 1)))), "}")
                 [] K(t, j) = "str" -> Lists(j + 1)
                 [] OTHER -> j
    IN Good(Nl(t, end), [k |-> "asm"])

\* a call, then .m or .m(args) any number of times, then a cast; an operator
\* after it is left to the next statement
CallTail(t, i, e) ==
    CASE K(t, i) = "." ->
           Bind(Id(t, i + 1), LAMBDA j, m :
             IF K(t, j) = "(" THEN Bind(Args(t, j + 1), LAMBDA l, es : CallTail(t, l, CallOf(MemberOf(e, m), es)))
             ELSE CallTail(t, j, MemberOf(e, m)))
      [] K(t, i) = "as" -> Bind(Type(t, i + 1), LAMBDA j, ty : Evaluate(t, j, [k |-> "cast", e |-> e, ty |-> ty]))
      [] OTHER -> Evaluate(t, i, e)

\* .m, [i] and ?.m, each with an optional call; then an assignment or the end
PlaceTail(t, i, e) ==
    LET Called(r) == Bind(r, LAMBDA j, v :
          IF K(t, j) = "(" THEN Bind(Args(t, j + 1), LAMBDA l, es : PlaceTail(t, l, CallOf(v, es))) ELSE PlaceTail(t, j, v))
    IN CASE K(t, i) = "." -> Called(Map(Id(t, i + 1), LAMBDA m : MemberOf(e, m)))
         [] K(t, i) = "[" -> Called(Bracket(t, i + 1, e, 0))
         [] K(t, i) = "?." -> Called(Map(ChainLink(t, i + 1), LAMBDA link : Chained(e, link)))
         [] K(t, i) \in AssignTokens -> AssignTo(t, i, <<e>>)
         [] OTHER -> Evaluate(t, i, e)

\* the statement after its first name, which is at i - 1
Named(t, i, x) ==
    CASE K(t, i) = "," ->
           IF AtNl(t, i + 1) THEN Good(Nl(t, i + 1), Assigned(<<Name(x)>>, "Simple", Nil))
           ELSE Bind(Expr(t, i + 1), LAMBDA j, v : Good(Nl(t, j), Assigned(<<Name(x)>>, "Simple", v)))
      [] K(t, i) \in AssignTokens -> AssignTo(t, i, <<Name(x)>>)
      [] K(t, i) = "(" -> Bind(Args(t, i + 1), LAMBDA j, es : CallTail(t, j, CallOf(Name(x), es)))
      [] K(t, i) \in {".", "[", "?."} -> PlaceTail(t, i, Name(x))
      [] OTHER -> Bind(Continue(t, i, Name(x), 0), LAMBDA j, e : Evaluate(t, j, e))
WithValue(t, i, k) ==
    Bind(IF K(t, i) = "," THEN Expr(t, i + 1) ELSE Good(i, Nil), LAMBDA j, v : Good(Nl(t, j), [k |-> k, es |-> <<v>>]))
IdStmt(t, i) ==
    LET x == t[i].s
        listed == Columns(t, i + 1, <<x>>)
        cols == IF listed.all THEN listed ELSE [listed EXCEPT !.i = i + 1]
    IN CASE x = "flush" -> Good(Nl(t, i + 1), [k |-> "flush"])
         [] x = "asm" -> Asm(t, i + 1)
         [] x \in {"panic", "spawn_thread"} -> WithValue(t, i + 1, x)
         [] x \in {"del", "delete"} ->
              Bind(Assignee(t, EatComma(t, i + 1)), LAMBDA j, target :
                Good(Nl(t, j), IF target.k = "id" THEN [k |-> "del", x |-> target.x] ELSE [k |-> "delete", of |-> target]))
         [] K(t, cols.i) = "/=" /\ K(t, i + 1) = ";" ->
              Bind(Row(t, SkipNl(t, cols.i + 1), <<>>), LAMBDA j, row : Good(Nl(t, j), Table(cols.cols, <<row>>)))
         [] OTHER -> Named(t, cols.i, x)

(***************************************************************************)
(* parse_stmt                                                              *)
(***************************************************************************)

Printed(k, r) == Map(r, LAMBDA es : [k |-> k, es |-> es])
Simple(t, i, k) == After(t, i, ",", LAMBDA j : Bind(Expr(t, j), LAMBDA l, v : Good(Nl(t, l), [k |-> k, es |-> <<v>>])))
AssertStmt(t, i) ==
    After(t, i, ",", LAMBDA j : Bind(Expr(t, j), LAMBDA l, e :
      Bind(IF K(t, l) = "," THEN Some(ExpectStr(t, l + 1)) ELSE None(l), LAMBDA m, s :
        Good(Nl(t, m), [k |-> "assert", e |-> e, message |-> s]))))
\* input, target, "prompt" or an expression that begins with the name `input`
Input(t, i) ==
    IF K(t, i + 1) = "," /\ K(t, i + 2) \in {"id", "str"}
    THEN Bind(Assignee(t, i + 2), LAMBDA j, target :
           Bind(IF K(t, j) = "," THEN Some(ExpectStr(t, j + 1)) ELSE None(j), LAMBDA l, p :
             Good(Nl(t, l), [k |-> "input", prompt |-> p, to |-> target])))
    ELSE Bind(Expr(t, i), LAMBDA j, e : Evaluate(t, j, e))
PonStmt(t, i) ==
    After(t, i, ";", LAMBDA j : Map(Stmt(t, j), LAMBDA s :
      [k |-> "pon", s |-> IF s.k \in {"set", "compound", "compoundto", "del", "delete"} THEN s ELSE Assigned(<<>>, "Simple", Nil)]))
\* consume_align_modifier: the expression is not kept on a statement
Align(t, i) ==
    LET j == SkipNl(t, i + 1)
    IN IF IsWord(t, i, "align") /\ (K(t, i + 1) = "(" \/ (K(t, i + 1) = "nl" /\ K(t, i + 2) = "("))
       THEN SkipNl(t, Eat(t, IF K(t, j + 1) \in {")", "eof"} THEN j + 1 ELSE Expr(t, j + 1).i, ")"))
       ELSE i

AfterComma(t, i, f(_)) == After(t, i, ",", f)
Keyword(t, i) ==
    CASE K(t, i) = "set" -> SetStmt(t, i + 1)
      [] K(t, i) = "paste" ->
           IF K(t, i + 1) = "(" THEN Printed("paste", Bind(Args(t, i + 2), LAMBDA j, es : Good(Nl(t, j), es)))
           ELSE AfterComma(t, i + 1, LAMBDA j : Printed("paste", ExprsSemi(t, j)))
      [] K(t, i) = "println" ->
           LET j == EatComma(t, i + 1) IN IF AtNl(t, j) THEN Good(j, [k |-> "println", es |-> <<>>]) ELSE Printed("println", ExprsSemi(t, j))
      [] K(t, i) = "input" -> Input(t, i)
      [] K(t, i) = "send" -> MessageCall(t, i + 1, "send", 2)
      [] K(t, i) = "receive" -> MessageCall(t, i + 1, "receive", 1)
      [] K(t, i) = "return" -> ReturnStmt(t, i + 1)
      [] K(t, i) = "throw" -> Simple(t, i + 1, "throw")
      [] K(t, i) = "defer" -> AfterComma(t, i + 1, LAMBDA j : Map(Stmt(t, j), LAMBDA s : [k |-> "defer", s |-> s]))
      [] K(t, i) = "assert" -> AssertStmt(t, i + 1)
      [] K(t, i) = "spawn" -> Spawn(t, i + 1)
      [] K(t, i) = "yield" ->
           Bind(IF K(t, i + 1) = "," THEN Some(Expr(t, i + 2)) ELSE None(i + 1), LAMBDA j, es : Good(Nl(t, j), [k |-> "yield", es |-> es]))
      [] K(t, i) \in {"break", "continue"} -> Jump(t, i, K(t, i))
      [] K(t, i) = "if" -> AfterComma(t, i + 1, LAMBDA j : If(t, j))
      [] K(t, i) = "while" -> AfterComma(t, i + 1, LAMBDA j : While(t, j))
      [] K(t, i) = "for" -> AfterComma(t, i + 1, LAMBDA j : For(t, j))
      [] K(t, i) = "loop" -> Map(Block(t, i + 1), LAMBDA b : [k |-> "loop", body |-> b, els |-> <<>>])
      [] K(t, i) = "match" -> AfterComma(t, i + 1, LAMBDA j : Match(t, j))
      [] K(t, i) = "try" -> Try(t, i + 1)
      [] K(t, i) = "with" -> With(t, i + 1)
      [] K(t, i) = "select" -> Select(t, i + 1)
      [] K(t, i) = "pon" -> PonStmt(t, i + 1)
      [] K(t, i) = "directive" -> Directive(t, i)
Keywords == {"set", "paste", "println", "input", "send", "receive", "return", "throw", "defer", "assert", "spawn", "yield", "break",
             "continue", "if", "while", "for", "loop", "match", "try", "with", "select", "pon", "directive"}

Stmt(t, i0) ==
    LET first == SkipNl(t, i0)
        i == Align(t, first)
    IN CASE K(t, first) \in {"eof", "dedent", "indent"} -> Fail(first)
         [] IsWord(t, i, "volatile") /\ K(t, i + 1) = "set" -> SetStmt(t, i + 2)
         [] K(t, i) \in Keywords -> Keyword(t, i)
         [] K(t, i) = "id" -> IdStmt(t, i)
         [] OTHER -> Bind(Expr(t, i), LAMBDA j, e : IF K(t, j) \in AssignTokens THEN AssignTo(t, j, <<e>>) ELSE Evaluate(t, j, e))

(***************************************************************************)
(* Expressions: what begins one                                            *)
(***************************************************************************)

\* Err leaves the position after the token, as the call that failed did
IntLiteral(t, i) == IF t[i].fits THEN Good(i + 1, [k |-> "int", n |-> t[i].n]) ELSE Fail(i + 1)

\* parse_string_parts: {code} in a string is read by a lexer and a parser of
\* its own, of which only the first expression is kept; code that does not
\* parse stays text
Part(p) ==
    IF "text" \in DOMAIN p THEN [k |-> "text", s |-> p.text, e |-> [k |-> "str", s |-> p.text]]
    ELSE LET r == Expr(p.code, 1)
         IN IF r.how = "ok" THEN [k |-> "value", e |-> r.v]
            ELSE [k |-> "text", s |-> "{...}", e |-> [k |-> "str", s |-> "{...}"]]
StringOf(tok) ==
    IF tok.parts = <<>> THEN [k |-> "str", s |-> tok.s]
    ELSE [k |-> "interp", parts |-> [j \in DOMAIN tok.parts |-> Part(tok.parts[j])]]
StringPanics(tok) == \E j \in DOMAIN tok.parts : "code" \in DOMAIN tok.parts[j] /\ Expr(tok.parts[j].code, 1).how = "panic"

RECURSIVE StructFields(_, _)
\* struct { f: T, … } is the name `struct`
StructFields(t, i) ==
    IF K(t, i) = "}" THEN Good(i + 1, Name("struct"))
    ELSE IF AtEnd(t, i) THEN Fail(i)
    ELSE Bind(Id(t, i), LAMBDA j, x : After(t, j, ":", LAMBDA l : Bind(Type(t, l), LAMBDA m, ty : StructFields(t, EatComma(t, m)))))

\* a parenthesised expression, or a tuple with at least one comma
Paren(t, i) ==
    IF K(t, i) = ")" THEN Good(i + 1, [k |-> "tuple", es |-> <<>>])
    ELSE Bind(Expr(t, i), LAMBDA j, e :
           IF K(t, j) # "," THEN After(t, j, ")", LAMBDA l : Good(l, e))
           ELSE Bind(More(t, j, <<e>>, "expr", ",", {")"}), LAMBDA l, es : After(t, l, ")", LAMBDA m : Good(m, [k |-> "tuple", es |-> es]))))

\* for x in it [if cond] close
Comprehension(t, i, of, es, close) ==
    Bind(Id(t, i), LAMBDA j, x : Bind(Expr(t, Eat(t, j, "in")), LAMBDA l, it :
      Bind(IF K(t, l) = "if" THEN Some(Expr(t, l + 1)) ELSE None(l), LAMBDA m, cond :
        After(t, m, close, LAMBDA n : Good(n, [k |-> "comp", of |-> of, es |-> es, x |-> x, it |-> it, cond |-> cond])))))
\* the rest of [e, …], {e, …} after the first element
Elements(t, i, kind, es, close) ==
    Bind(More(t, i, es, "expr", ",", {close}), LAMBDA j, all : After(t, j, close, LAMBDA l : Good(l, [k |-> kind, es |-> all])))
ListLiteral(t, i) ==
    IF K(t, i) = "]" THEN Good(i + 1, [k |-> "list", es |-> <<>>])
    ELSE Bind(Expr(t, i), LAMBDA j, e :
           IF K(t, j) = "for" THEN Comprehension(t, j + 1, "list", <<e>>, "]") ELSE Elements(t, j, "list", <<e>>, "]"))

\* a bare name before the colon is a string
Key(t, i) == IF K(t, i) = "id" /\ K(t, i + 1) = ":" THEN Good(i + 1, [k |-> "str", s |-> t[i].s]) ELSE Expr(t, i)
RECURSIVE Entries(_, _, _)
Entries(t, i, kvs) ==
    IF K(t, i) # "," \/ K(t, i + 1) = "}" THEN After(t, EatComma(t, i), "}", LAMBDA l : Good(l, [k |-> "dict", es |-> kvs]))
    ELSE Bind(Key(t, i + 1), LAMBDA j, key : After(t, j, ":", LAMBDA l : Bind(Expr(t, l), LAMBDA m, v : Entries(t, m, kvs \o <<key, v>>))))
Braces(t, i) ==
    IF K(t, i) = "}" THEN Good(i + 1, [k |-> "dict", es |-> <<>>])
    ELSE Bind(Key(t, i), LAMBDA j, key :
           CASE K(t, j) = ":" ->
                  Bind(Expr(t, j + 1), LAMBDA l, v :
                    IF K(t, l) = "for" THEN Comprehension(t, l + 1, "dict", <<key, v>>, "}") ELSE Entries(t, l, <<key, v>>))
             [] K(t, j) = "for" -> Comprehension(t, j + 1, "set", <<key>>, "}")
             [] OTHER -> Elements(t, j, "set", <<key>>, "}"))

\* -, not and await take what begins an expression and no operator after it
Tight == 100
Unary(t, i, Node(_)) == Map(Prec(t, i, Tight), Node)

\* fn(params) body: an expression, an assignment, or a statement of which an
\* expression, a print, a spawn or an assignment is kept
LambdaStmt(s) ==
    CASE s.k = "expr" -> s.e
      [] s.k \in {"println", "paste"} -> CallOf(Name(s.k), s.es)
      [] s.k = "spawn" -> [k |-> "spawn", es |-> s.es]
      [] s.k \in {"set", "compound", "compoundto"} -> [k |-> "assign", s |-> s]
      [] OTHER -> Nil
LambdaBody(t, i) ==
    LET e == Expr(t, i)
        s == Stmt(t, e.i)
        value == Expr(t, e.i + 1)
        target == IF e.v.k \in {"id", "index", "member"} THEN e.v ELSE Name("_")
    IN CASE e.how = "panic" -> e
         [] e.how = "ok" ->
              IF K(t, e.i) \notin AssignTokens THEN e
              ELSE IF value.how = "err" THEN Good(value.i, e.v)
              ELSE Map(value, LAMBDA v : [k |-> "assign", s |-> Assigned(<<target>>, AssignOp[K(t, e.i)], v)])
         [] OTHER -> IF s.how = "err" THEN Good(s.i, Nil) ELSE Map(s, LambdaStmt)
Lambda(t, i) == Bind(FnParams(t, i), LAMBDA j, ps : Map(LambdaBody(t, j), LAMBDA e : LambdaOf(ps, e)))

\* coro(f, args), resume(h, values)
Coroutine(t, i, k) ==
    After(t, i, "(", LAMBDA j : Bind(Sep1(t, j, "expr", ",", {}), LAMBDA l, es : After(t, l, ")", LAMBDA m : Good(m, [k |-> k, es |-> es]))))
Spread(t, i) ==
    IF AtNl(t, i) \/ K(t, i) \in {"]", ")"} THEN Good(i, Name("...")) ELSE Map(Expr(t, i), LAMBDA e : [k |-> "spread", e |-> e])

Callable == {"channel", "send", "receive", "id", "input"}
\* any other token is a name
Prefix(t, i) ==
    CASE K(t, i) = "int" -> IntLiteral(t, i)
      [] K(t, i) = "float" -> Good(i + 1, [k |-> "float", s |-> t[i].s])
      [] K(t, i) = "str" -> IF StringPanics(t[i]) THEN Panics ELSE Good(i + 1, StringOf(t[i]))
      [] K(t, i) \in {"true", "false"} -> Good(i + 1, [k |-> "bool", b |-> K(t, i) = "true"])
      [] K(t, i) = "null" -> Good(i + 1, Nil)
      [] K(t, i) \in Callable ->
           IF K(t, i + 1) = "(" THEN Map(Args(t, i + 2), LAMBDA es : CallOf(Name(t[i].s), es)) ELSE Good(i + 1, Name(t[i].s))
      [] K(t, i) = "struct" -> IF K(t, i + 1) = "{" THEN StructFields(t, i + 2) ELSE Good(i + 1, Name("struct"))
      [] K(t, i) = "(" -> Paren(t, i + 1)
      [] K(t, i) = "[" -> ListLiteral(t, i + 1)
      [] K(t, i) = "{" -> Braces(t, i + 1)
      [] K(t, i) = "-" -> Unary(t, i + 1, LAMBDA e : [k |-> "neg", e |-> e])
      [] K(t, i) = "not" -> Unary(t, i + 1, LAMBDA e : [k |-> "not", e |-> e])
      [] K(t, i) = "await" -> Unary(t, i + 1, LAMBDA e : [k |-> "await", es |-> <<e>>])
      [] K(t, i) = "fn" -> Lambda(t, i + 1)
      [] K(t, i) \in {"coro", "resume"} -> Coroutine(t, i + 1, K(t, i))
      [] K(t, i) = "..." -> Spread(t, i + 1)
      [] OTHER -> Map(AdvTok(t, i), Name)

(***************************************************************************)
(* Expressions: precedence climbing                                        *)
(***************************************************************************)

Comparison == {"==", "!=", "<", ">", "<=", ">=", "is", "in"}
Level(k) ==
    CASE k \in {"as", "?"} -> 1 [] k = "|>" -> 2 [] k = "??" -> 3 [] k = "or" -> 4 [] k = "and" -> 5
      [] k \in Comparison -> 6 [] k \in {"+", "-"} -> 7
      [] k \in {"*", "/", "%", "//", "repeated", "#", "~", "^", "_", "?."} -> 8
      [] k \in {"**", ".", "["} -> 9 [] OTHER -> 0
BinOp ==
    ("+" :> "Add") @@ ("-" :> "Sub") @@ ("*" :> "Mul") @@ ("/" :> "Div") @@ ("%" :> "Mod") @@ ("//" :> "FloorDiv") @@
    ("==" :> "Eq") @@ ("!=" :> "Ne") @@ ("<" :> "Lt") @@ (">" :> "Gt") @@ ("<=" :> "Le") @@ (">=" :> "Ge") @@
    ("is" :> "Is") @@ ("in" :> "In") @@ ("and" :> "And") @@ ("or" :> "Or") @@ ("repeated" :> "Repeated") @@ ("**" :> "Power")
Postfix == ("#" :> "len") @@ ("~" :> "reverse") @@ ("^" :> "asc") @@ ("_" :> "desc")

\* [mutant] every operator groups to the right
RightAlways(k) == Level(k)

\* the level of the right operand: one more where the operator groups to the left
RightLevel(k) == IF k = "**" THEN 9 ELSE Level(k) + 1

\* after `?`: what follows an operand that is propagated, not a ternary
EndsOperand == {"eof", "nl", ",", ";", ")", "]", "}", "dedent"}
\* a comma after the end is taken even where no step follows it
RangeStep(t, i) ==
    CASE K(t, i) = "," /\ K(t, i + 1) = "step" -> Some(Expr(t, i + 2))
      [] K(t, i) = "step" -> Some(Expr(t, i + 1))
      [] OTHER -> None(EatComma(t, i))
RangeExpr(t, i, a, incl) ==
    Bind(IF AtNl(t, i) \/ K(t, i) = "dedent" THEN None(i) ELSE Some(Prec(t, i, 0)), LAMBDA j, b : Map(RangeStep(t, j), LAMBDA by :
      IF b # <<>> /\ by = <<>> THEN [k |-> "range", a |-> a, b |-> b[1], incl |-> incl]
      ELSE [k |-> "rangeby", a |-> a, b |-> b, incl |-> incl, by |-> by]))
Question(t, i, left) ==
    IF K(t, i) \in EndsOperand THEN Good(i, [k |-> "propagate", es |-> <<left>>])
    ELSE Bind(Expr(t, i), LAMBDA j, a : After(t, j, ":", LAMBDA l : Map(Prec(t, l, 1), LAMBDA b :
           [k |-> "cond", c |-> left, a |-> a, b |-> b])))
Binary(t, i, left) ==
    LET op == K(t, i)
    IN Map(Prec(t, i + 1, RightLevel(op)), LAMBDA r :
         IF op = "|>" THEN [k |-> "pipe", es |-> <<left, r>>] ELSE [k |-> "bin", op |-> BinOp[op], l |-> left, r |-> r])
\* .m and a call of it
Dotted(t, i, left) ==
    Bind(Id(t, i), LAMBDA j, m :
      IF K(t, j) = "(" THEN Map(Args(t, j + 1), LAMBDA es : CallOf(MemberOf(left, m), es)) ELSE Good(j, MemberOf(left, m)))

\* parse_prec_continue
Continue(t, i, left, min) ==
    LET Next(r) == Bind(r, LAMBDA j, e : Continue(t, j, e, min))
        k == K(t, i)
    IN CASE AtNl(t, i) \/ Level(k) < min -> Good(i, left)
         [] k = "as" -> Next(Map(Type(t, i + 1), LAMBDA ty : [k |-> "cast", e |-> left, ty |-> ty]))
         [] k = "?" -> Next(Question(t, i + 1, left))
         [] k \in {"..", "..."} -> Next(RangeExpr(t, i + 1, left, k = "..."))
         [] k = "#" -> Next(Good(i + 1, [k |-> "len", e |-> left]))
         [] k \in {"~", "^", "_"} -> Next(Good(i + 1, [k |-> Postfix[k], es |-> <<left>>]))
         [] k = "??" -> Next(Map(Prec(t, i + 1, 3), LAMBDA r : [k |-> "coalesce", a |-> left, b |-> r]))
         [] k = "?." -> Next(Map(ChainLink(t, i + 1), LAMBDA link : Chained(left, link)))
         [] k = "." -> Next(Dotted(t, i + 1, left))
         [] k = "[" -> Next(Bracket(t, i + 1, left, 1))
         [] k = "|>" \/ k \in DOMAIN BinOp -> Next(Binary(t, i, left))
         [] OTHER -> Good(i, left)
Prec(t, i, min) == Bind(Prefix(t, i), LAMBDA j, e : Continue(t, j, e, min))

(***************************************************************************)
(* Functions                                                               *)
(***************************************************************************)

\* one parameter, after an optional `...`
Param1(t, i, before) ==
    LET variadic == before \/ K(t, i + 1) = "..."
    IN Bind(TypeIf(t, Eat(t, i + 1, "..."), ":", "dyn"), LAMBDA j, ty :
         Map(IF K(t, j) = "=" THEN Some(Expr(t, j + 1)) ELSE None(j), LAMBDA dv :
           [x |-> t[i].s, ty |-> ty] @@ (IF dv = <<>> THEN <<>> ELSE [default |-> dv[1]]) @@ (IF variadic THEN [variadic |-> TRUE] ELSE <<>>)))
\* what is not a parameter ends the list, and must be the parenthesis
Params(t, i0, ps) ==
    LET start == SkipNl(t, i0)
        i == Eat(t, start, "...")
    IN IF K(t, i) \notin {"id", "self"} THEN Map(Expect(t, i, ")"), LAMBDA c : ps)
       ELSE Bind(Param1(t, i, i # start), LAMBDA j, p :
              IF K(t, j) = "," /\ "variadic" \notin DOMAIN p THEN Params(t, j + 1, Append(ps, p))
              ELSE Map(Expect(t, j, ")"), LAMBDA c : Append(ps, p)))

\* without a block of its own, the body is the next statement; a signature
\* before /end or before the end of an indented list has none
FnBody(t, i) ==
    CASE K(t, i) = ";" -> UntilNl(t, i + 1, <<>>)
      [] K(t, i) \in {"indent", "{"} -> Block(t, i)
      [] AtDirective(t, i, "/end") \/ K(t, i) = "dedent" -> Good(i, <<>>)
      [] OTHER -> Map(Stmt(t, i), LAMBDA s : <<s>>)
Signature(t, i) ==
    After(t, i, "fn", LAMBDA j : After(t, j, ",", LAMBDA l : Bind(Id(t, l), LAMBDA m, name : Bind(FnParams(t, m), LAMBDA n, ps :
      Map(TypeIf(t, n, ":", "dyn"), LAMBDA ret : [name |-> name, params |-> ps, ret |-> ret, body |-> <<>>])))))
FnDef(t, i) ==
    Bind(Signature(t, Eat(t, i, "async")), LAMBDA j, f : Bind(FnBody(t, SkipNl(t, j)), LAMBDA l, b :
      Good(EatEnd(t, SkipNl(t, l)), [f EXCEPT !.body = b])))
ExternFn(t, i) ==
    LET j == EatComma(t, i + 1)
    IN Bind(Signature(t, IF K(t, j) = "id" THEN EatComma(t, j + 1) ELSE j), LAMBDA l, f :
         Good(EatEnd(t, SkipNl(t, l)), [d |-> "extern", f |-> f]))

(***************************************************************************)
(* Annotations                                                             *)
(***************************************************************************)

RECURSIVE AnnotationArgs(_, _), RawBlock(_, _, _), Annotations(_, _)
AnnotationArgs(t, i) ==
    LET r == Expr(t, IF K(t, i) = "id" /\ K(t, i + 1) = "=" THEN i + 2 ELSE i)
    IN IF K(t, i) \in {")", "eof"} \/ r.how # "ok" THEN Eat(t, IF K(t, i) \in {")", "eof"} THEN i ELSE r.i, ")")
       ELSE AnnotationArgs(t, EatComma(t, r.i))
\* a balanced { … }
RawBlock(t, i, depth) ==
    CASE AtEnd(t, i) -> i
      [] K(t, i) = "{" -> RawBlock(t, i + 1, depth + 1)
      [] K(t, i) = "}" /\ depth <= 1 -> i + 1
      [] OTHER -> RawBlock(t, i + 1, IF K(t, i) = "}" THEN depth - 1 ELSE depth)
Annotations(t, i) ==
    IF K(t, i) # "@" THEN i
    ELSE IF K(t, i + 1) # "id" THEN i + 1
    ELSE Annotations(t, SkipNl(t,
           CASE K(t, i + 2) = "(" -> AnnotationArgs(t, i + 3) [] K(t, i + 2) = "{" -> RawBlock(t, i + 2, 0) [] OTHER -> i + 2))

(***************************************************************************)
(* Declarations with an indented list of members                           *)
(***************************************************************************)

\* a member list after its Indent: Member(i) reads one; what is not a member
\* ends the list where it stands
RECURSIVE Fields(_, _, _), Methods(_, _, _, _), Variants(_, _, _), Members(_, _, _), FieldLine(_, _, _)
Done(t, i) == K(t, i) \in {"dedent", "eof"}

Fields(t, i0, xs) ==
    LET i == SkipNl(t, i0)
        j == Annotations(t, i)
        bare == K(t, j + 1) \notin {",", ":"} \/ (K(t, j + 1) = "," /\ AtNl(t, j + 2))
    IN CASE Done(t, i) -> Good(i, xs)
         [] AtDirective(t, i, "/end") -> Good(i + 1, xs)
         [] K(t, j) # "id" -> Good(j, xs)
         [] bare -> Fields(t, Nl(t, EatComma(t, j + 1)), Append(xs, t[j].s))
         [] OTHER -> Bind(Type(t, j + 2), LAMBDA l, ty : Fields(t, Nl(t, l), Append(xs, t[j].s)))

\* the methods of an interface, a trait, an impl
Methods(t, i0, fs, starts) ==
    LET i == SkipNl(t, i0)
    IN CASE Done(t, i) -> Good(i, fs)
         [] AtDirective(t, i, "/end") -> Good(i + 1, fs)
         [] K(t, i) \notin starts -> Good(i, fs)
         [] OTHER -> Bind(FnDef(t, i), LAMBDA j, f : Methods(t, j, Append(fs, f), starts))

Variants(t, i0, vs) ==
    LET i == SkipNl(t, i0)
    IN IF K(t, i) # "id" THEN Good(i, vs)
       ELSE Bind(IF K(t, i + 1) = "(" THEN Loose(t, i + 2, <<>>, "type", ")") ELSE None(i + 1), LAMBDA j, ts :
              Variants(t, Nl(t, j), Append(vs, [name |-> t[i].s, payload |-> ts])))

\* the fields on a line of a class: `a`, `a, b` or `a, T`, where a type begins
\* with a capital letter
FieldLine(t, i, xs) ==
    LET next == i + 2
        all == Append(xs, t[i].s)
    IN CASE K(t, i + 1) # "," -> Good(i + 1, all)
         [] K(t, next) # "id" -> IF K(t, next) = "," /\ K(t, next + 1) = "id" THEN FieldLine(t, next + 1, all) ELSE Good(Eat(t, next, ","), all)
         [] t[next].upper ->
              Bind(Type(t, next), LAMBDA j, ty :
                IF K(t, j) = "," /\ K(t, j + 1) = "id" THEN FieldLine(t, j + 1, all) ELSE Good(Eat(t, j, ","), all))
         [] OTHER -> FieldLine(t, next, all)

\* the body of a class; any other token is skipped and ends it
Members(t, i0, c) ==
    LET i == SkipNl(t, i0)
        noted == Annotations(t, i)
        j == IF K(t, noted) \in {"private", "public"} THEN EatComma(t, noted + 1) ELSE noted
    IN CASE Done(t, i) -> Good(EatEnd(t, SkipNl(t, Eat(t, i, "dedent"))), c)
         [] AtDirective(t, i, "/end") -> Good(i + 1, c)
         [] K(t, j) \in {"fn", "async"} -> Bind(FnDef(t, j), LAMBDA l, f : Members(t, l, [c EXCEPT !.methods = Append(@, f)]))
         [] K(t, j) = "id" -> Bind(FieldLine(t, j, <<>>), LAMBDA l, xs : Members(t, Nl(t, l), [c EXCEPT !.fields = @ \o xs]))
         [] OTHER -> Good(IF j <= Len(t) THEN j + 1 ELSE j, c)

RECURSIVE Bases(_, _, _)
\* , extends T and , implements T
Bases(t, i, c) ==
    IF K(t, i) # "," THEN Good(i, c)
    ELSE IF K(t, i + 1) \notin {"extends", "implements"} THEN Good(i + 1, c)
    ELSE Bind(Type(t, EatComma(t, i + 2)), LAMBDA j, ty :
           Bases(t, j, IF K(t, i + 1) = "extends" THEN [c EXCEPT !.ext = <<ty>>] ELSE c))
ClassDef(t, i) ==
    After(t, i + 1, ",", LAMBDA j : Bind(Id(t, j), LAMBDA l, name :
      Bind(Bases(t, l, [name |-> name, ext |-> <<>>, fields |-> <<>>, methods |-> <<>>]), LAMBDA m, c :
        LET n == Nl(t, m)
        IN Bind(IF K(t, n) = "indent" THEN Members(t, n + 1, c) ELSE Good(n, c), LAMBDA o, whole :
             Good(EatEnd(t, SkipNl(t, o)), [d |-> "class", c |-> whole])))))

\* keyword, name [type parameters], an indented list, /end
Listed(t, i, d, List(_)) ==
    After(t, i + 1, ",", LAMBDA j : Bind(Id(t, j), LAMBDA l, name :
      Bind(IF K(t, l) = "[" THEN TypeParams(t, l + 1) ELSE None(l), LAMBDA m, tps :
        LET n == Nl(t, m)
        IN Bind(IF K(t, n) = "indent" THEN List(n + 1) ELSE None(n), LAMBDA o, members :
             Good(Close(t, o), [d |-> d, name |-> name, members |-> members])))))
StructDef(t, i) == Listed(t, i, "struct", LAMBDA j : Fields(t, j, <<>>))
EnumDef(t, i) == Listed(t, i, "enum", LAMBDA j : Variants(t, j, <<>>))

\* interface, trait, impl: a head of their own, then methods
MethodList(t, i, d, name, starts) ==
    LET n == Nl(t, i)
    IN Bind(IF K(t, n) = "indent" THEN Methods(t, n + 1, <<>>, starts) ELSE None(n), LAMBDA o, fs :
         Good(Close(t, o), [d |-> d, name |-> name, members |-> fs]))
RECURSIVE Extends(_, _)
Extends(t, i) ==
    IF K(t, i) # "," THEN None(i)
    ELSE IF K(t, i + 1) # "extends" THEN None(i + 1) ELSE Bind(Type(t, i + 2), LAMBDA j, ty : Extends(t, j))
InterfaceDef(t, i) ==
    After(t, i + 1, ",", LAMBDA j : Bind(Id(t, j), LAMBDA l, name : Bind(Extends(t, l), LAMBDA m, tys :
      MethodList(t, m, "interface", name, {"fn"}))))
TraitDef(t, i) ==
    After(t, i + 1, ",", LAMBDA j : Bind(Id(t, j), LAMBDA l, name :
      Bind(IF K(t, l) = "extends" THEN Sep1(t, EatComma(t, l + 1), "type", ",", {}) ELSE None(l), LAMBDA m, tys :
        MethodList(t, m, "trait", name, {"fn", "async"}))))
ImplBlock(t, i) ==
    After(t, i + 1, ",", LAMBDA j : Bind(Id(t, j), LAMBDA l, name :
      Bind(IF K(t, l) = "for" THEN Type(t, EatComma(t, l + 1)) ELSE Good(l, name), LAMBDA m, ty :
        MethodList(t, m, "impl", name, {"fn", "async"}))))

(***************************************************************************)
(* Other declarations                                                      *)
(***************************************************************************)

Import(t, i) ==
    After(t, i + 1, ",", LAMBDA j : Bind(ExpectStr(t, j), LAMBDA l, m :
      Bind(CASE K(t, l) # "," -> None(l)
             [] K(t, l + 1) = "as" -> Some(Id(t, EatComma(t, l + 2)))
             [] OTHER -> Sep1(t, l + 1, "id", ",", {}),
           LAMBDA n, xs : Good(Nl(t, n), [d |-> "import", name |-> m, members |-> xs]))))
Export(t, i) ==
    After(t, i + 1, ",", LAMBDA j : Bind(Sep1(t, j, "id", ",", {}), LAMBDA l, xs : Good(Nl(t, l), [d |-> "export", members |-> xs])))
TypeAlias(t, i) ==
    After(t, i + 1, ",", LAMBDA j : Bind(Id(t, j), LAMBDA l, name : After(t, l, "=", LAMBDA m :
      Bind(IF K(t, m) \in {"struct", "id"} THEN Type(t, m) ELSE Map(Expr(t, m), LAMBDA e : "any"), LAMBDA n, ty :
        Good(Nl(t, n), [d |-> "type", name |-> name])))))
\* name = value
Constant(t, i, d) ==
    Bind(Id(t, i), LAMBDA j, name : After(t, j, "=", LAMBDA l : Bind(Expr(t, l), LAMBDA m, v :
      Good(Nl(t, m), [d |-> d, name |-> name, e |-> v]))))
Lazy(t, i) ==
    LET j == EatComma(t, i + 1)
    IN CASE K(t, j) = "set" -> Constant(t, EatComma(t, j + 1), "lazy")
         [] K(t, j) = "fn" -> Map(FnDef(t, j), LAMBDA f : [d |-> "lazyfn", f |-> f])
         [] OTHER -> Fail(j)
Blocked(d, name, r) == Map(r, LAMBDA b : [d |-> d, name |-> name, body |-> b])
MacroDef(t, i) ==
    After(t, i + 1, ",", LAMBDA j : Bind(Id(t, j), LAMBDA l, name : Bind(FnParams(t, l), LAMBDA m, ps :
      Map(Block(t, m), LAMBDA b : [d |-> "macro", name |-> name, params |-> ps, body |-> b]))))
\* plugin, test and bench: a string, then a block
TitledBlock(t, i, d) ==
    After(t, i + 1, ",", LAMBDA j : Bind(ExpectStr(t, j), LAMBDA l, name :
      LET counted == IF d = "bench" /\ K(t, l) = "," THEN Eat(t, l + 1, "int") ELSE l
      IN Blocked(d, name, Block(t, IF d = "plugin" THEN l ELSE SkipNl(t, counted)))))
Dtor(t, i) == After(t, i + 1, ",", LAMBDA j : Bind(Id(t, j), LAMBDA l, name : Blocked("dtor", name, Block(t, Nl(t, l)))))
Marker(t, i) == After(t, i + 1, "trait", LAMBDA j : Bind(Id(t, j), LAMBDA l, name : Good(Nl(t, l), [d |-> "marker", name |-> name])))

Statement(r) == Map(r, LAMBDA s : [d |-> "stmt", s |-> s])
RECURSIVE BracedDecls(_, _, _), IndentedDecls(_, _, _)
BracedDecls(t, i, ds) ==
    IF K(t, i) \in {"}", "eof"} THEN Good(SkipNl(t, Eat(t, i, "}")), ds)
    ELSE Bind(TopLevel(t, i), LAMBDA j, d : BracedDecls(t, SkipNl(t, j), Append(ds, d)))
IndentedDecls(t, i0, ds) ==
    LET i == SkipNl(t, i0)
    IN CASE AtEnd(t, i) -> Good(i, ds)
         [] K(t, i) = "dedent" \/ AtDirective(t, i, "/end") -> Good(i + 1, ds)
         [] OTHER -> Bind(TopLevel(t, i), LAMBDA j, d : IndentedDecls(t, j, Append(ds, d)))
TopLevelBody(t, i) ==
    CASE K(t, i) = "{" -> BracedDecls(t, SkipNl(t, i + 1), <<>>)
      [] K(t, i) = "indent" -> IndentedDecls(t, i + 1, <<>>)
      [] AtNl(t, i) -> None(i)
      [] OTHER -> Some(TopLevel(t, i))
AtElse(t, i) == K(t, i) = "@" /\ (K(t, i + 1) = "else" \/ IsWord(t, i + 1, "else"))
\* @if (cond) … @else …; without an @else the newlines are not taken
ConditionalCompile(t, i) ==
    After(t, EatComma(t, i + 2), "(", LAMBDA j : Bind(Expr(t, j), LAMBDA l, c : After(t, l, ")", LAMBDA m :
      Bind(TopLevelBody(t, EatComma(t, SkipNl(t, m))), LAMBDA n, then :
        LET else == SkipNl(t, n)
        IN IF ~AtElse(t, else) THEN Good(n, [d |-> "cond", e |-> c, then |-> then, else |-> <<>>])
           ELSE Map(TopLevelBody(t, EatComma(t, SkipNl(t, else + 2))), LAMBDA ds : [d |-> "cond", e |-> c, then |-> then, else |-> ds])))))

TopLevel(t, i0) ==
    LET i == Align(t, Annotations(t, Align(t, i0)))
        k == K(t, i)
    IN CASE K(t, i0) = "@" /\ (K(t, i0 + 1) = "if" \/ IsWord(t, i0 + 1, "if")) -> ConditionalCompile(t, i0)
         [] k = "import" -> Import(t, i)
         [] k = "export" -> Export(t, i)
         [] k = "extern" -> ExternFn(t, i)
         [] k \in {"fn", "async"} -> Map(FnDef(t, i), LAMBDA f : [d |-> "fn", f |-> f])
         [] k = "struct" -> StructDef(t, i)
         [] k = "class" -> ClassDef(t, i)
         [] k = "enum" -> EnumDef(t, i)
         [] k = "type" -> TypeAlias(t, i)
         [] k = "interface" -> InterfaceDef(t, i)
         [] k = "constexpr" -> After(t, i + 1, ",", LAMBDA j : Constant(t, j, "constexpr"))
         [] k = "lazy" -> Lazy(t, i)
         [] k = "marker" -> Marker(t, i)
         [] k = "macro" -> MacroDef(t, i)
         [] k \in {"plugin", "test", "bench"} -> TitledBlock(t, i, k)
         [] k = "trait" -> TraitDef(t, i)
         [] k = "impl" -> ImplBlock(t, i)
         [] k = "dtor" -> Dtor(t, i)
         [] k = "unsafe" /\ K(t, i + 1) # "." ->
              Statement(Map(Block(t, EatComma(t, i + 1)), LAMBDA b : [k |-> "unsafe", body |-> b]))
         [] k = "directive" -> Statement(Directive(t, i))
         [] OTHER -> Statement(Stmt(t, i))

(***************************************************************************)
(* parse_program: the first error ends it (nothing turns recovery on)      *)
(***************************************************************************)

RECURSIVE Decls(_, _, _)
Decls(t, i0, ds) ==
    LET i == SkipNl(t, i0)
    IN CASE AtEnd(t, i) -> Good(i, ds)
         [] AtDirective(t, i, "/end") -> Fail(i)
         [] OTHER -> Bind(TopLevel(t, i), LAMBDA j, d : Decls(t, j, Append(ds, d)))
ParseProgram(t) == Decls(t, 1, <<>>)
=============================================================================
