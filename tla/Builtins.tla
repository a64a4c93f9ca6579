------------------------------ MODULE Builtins ------------------------------
(***************************************************************************)
(* The methods of strings, lists, dicts and generators and the builtin     *)
(* functions of the bytecode interpreter (bytecode/vm.rs) that run no code *)
(* of the program.  Each answers Ok(value) or Err(message); m is the       *)
(* interpreter.  A missing argument is null, as is one of another type     *)
(* where the code takes the default for it.                                *)
(***************************************************************************)
EXTENDS Values

Arg(args, j) == IF j \in DOMAIN args THEN args[j] ELSE Null
Typed(ty, args, j, default) == IF Arg(args, j).t = ty THEN args[j] ELSE default
StrArg(args, j, default) == Typed("str", args, j, Str(default)).s
IntArg(args, j, default) == Typed("int", args, j, Num(default)).n
\* the key of a dict: the text of any value
KeyArg(m, args, j) == IF j \in DOMAIN args THEN ToStr(m, args[j]) ELSE ""

NoMethod(what, name) == Err(what \o " has no method '" \o name \o "'")
Position(places, end(_)) == Num(IF places = {} THEN -1 ELSE end(places) - 1)
Strs(parts) == List([j \in DOMAIN parts |-> Str(parts[j])])
Texts(m, es) == [j \in DOMAIN es |-> ToStr(m, es[j])]

\* the part [a, b) of what has n elements; empty if a is outside or behind b
Part(n, args) ==
    LET a == FromEnd(IntArg(args, 1, 0), n)
        b == FromEnd(IntArg(args, 2, n), n)
    IN IF a < 0 \/ a > n \/ a > b THEN {} ELSE (a + 1)..Least(b, n)
Taken(s, js) == IF js = {} THEN <<>> ELSE SubSeq(s, FirstOf(js), LastOf(js))

StrMethod(s, name, args) ==
    LET needle == StrArg(args, 1, "")
        given == Arg(args, 1).t = "str"
        n == Len(s)
        j == FromEnd(IntArg(args, 1, 0), n)
    IN CASE name \in {"len", "__len__"} -> Ok(Num(n))
         [] name \in {"upper", "to_upper"} -> Ok(Str(Upper(s))) [] name \in {"lower", "to_lower"} -> Ok(Str(Lower(s)))
         [] name = "trim" -> Ok(Str(Trim(s)))
         [] name = "split" -> Ok(Strs(Split(s, StrArg(args, 1, " "))))
         [] name = "contains" -> Ok(Bool(given /\ Includes(s, needle)))
         [] name \in {"starts_with", "startswith"} -> Ok(Bool(given /\ StartsWith(s, needle)))
         [] name \in {"ends_with", "endswith"} -> Ok(Bool(given /\ EndsWith(s, needle)))
         [] name = "replace" -> Ok(Str(Replace(s, needle, StrArg(args, 2, ""))))
         [] name \in {"find", "index_of"} -> Ok(Position(IF given THEN Places(s, needle) ELSE {}, FirstOf))
         [] name = "rfind" -> Ok(Position(IF given THEN Places(s, needle) ELSE {}, LastOf))
         [] name \in {"substr", "slice"} -> Ok(Str(Joined(Taken(Chars(s), Part(n, args)), "")))
         [] name = "repeat" -> Ok(Str(Times(s, IntArg(args, 1, 1))))
         [] name = "reverse" -> Ok(Str(Joined(Reverse(Chars(s)), "")))
         [] name \in {"char_at", "charAt"} -> Ok(IF Within(j, n) THEN Str(SubSeq(s, j + 1, j + 1)) ELSE Null)
         [] name = "is_empty" -> Ok(Bool(n = 0))
         [] name \in {"to_str", "__str__"} -> Ok(Str(s))
         [] OTHER -> NoMethod("str", name)

\* the first of each of the values that `same` does not tell apart
Distinct(same(_, _), es) == FoldLeft(LAMBDA a, x : IF \E j \in DOMAIN a : same(a[j], x) THEN a ELSE Append(a, x), <<>>, es)
Has(m, es, v) == \E j \in DOMAIN es : Equal(m, es[j], v)
Numbers(es) == SelectSeq(es, IsNumber)
Total(es) == FoldLeft(Sum, Num(0), es)

\* A method returns a new list: none changes the one it is called on.  The
\* sum of a list with a float counts its ints twice.  (map, filter and reduce
\* call functions: Interp.)
ListMethod(m, l, name, args) ==
    LET n == Len(l)
        j == FromEnd(IntArg(args, 1, 0), n)
        ints == SelectSeq(l, LAMBDA v : v.t = "int")
        Outside(what) == Err("list " \o what \o " index " \o ToString(j) \o " out of bounds (len " \o ToString(n) \o ")")
        Spread(a, v) == IF v.t \in {"list", "tuple"} THEN a \o v.es ELSE Append(a, v)
    IN CASE name \in {"len", "__len__"} -> Ok(Num(n))
         [] name \in {"push", "append"} -> Ok(List(l \o args))
         [] name = "pop" -> IF n = 0 THEN Err("pop from empty list") ELSE Ok(l[n])
         [] name = "contains" -> Ok(Bool(args # <<>> /\ Has(m, l, Arg(args, 1))))
         [] name = "join" -> Ok(Str(Joined(Texts(m, l), StrArg(args, 1, ""))))
         [] name = "sort" -> Ok(List(Sorted(Less, l)))
         [] name = "reverse" -> Ok(List(Reverse(l)))
         [] name \in {"index", "index_of"} ->
              Ok(Position({k \in DOMAIN l : args # <<>> /\ Equal(m, l[k], Arg(args, 1))}, FirstOf))
         [] name = "first" -> Ok(Arg(l, 1)) [] name = "last" -> Ok(Arg(l, n))
         [] name = "min" -> Ok(Best(Less, l)) [] name = "max" -> Ok(Best(LAMBDA a, b : Less(b, a), l))
         [] name = "sum" -> Ok(IF Numbers(l) = ints THEN Total(ints) ELSE Sum(Total(Numbers(l)), Total(ints)))
         [] name = "unique" -> Ok(List(Distinct(LAMBDA a, b : Equal(m, a, b), l)))
         [] name = "slice" -> Ok(List(Taken(l, Part(n, args))))
         [] name = "concat" -> Ok(List(FoldLeft(Spread, l, args)))
         [] name = "is_empty" -> Ok(Bool(n = 0))
         [] name = "insert" -> IF j < 0 \/ j > n THEN Outside("insert") ELSE Ok(List(InsertAt(l, j + 1, Arg(args, 2))))
         [] name = "remove" -> IF Within(j, n) THEN Ok(l[j + 1]) ELSE Outside("remove")
         [] name \in {"to_str", "__str__"} -> Ok(Str("[" \o Joined([k \in DOMAIN l |-> Debug(l[k])], ", ") \o "]"))
         [] OTHER -> NoMethod("list", name)

Pairs(m, d) == [j \in DOMAIN d.kvs |-> Tuple(<<Str(InTurn(m, d)[j][1]), InTurn(m, d)[j][2]>>)]
\* (the handles of open() are dicts too: their methods are not modelled)
DictMethod(m, d, name, args) ==
    LET key == KeyArg(m, args, 1)
        other == Arg(args, 1)
    IN CASE name \in {"len", "__len__"} -> Ok(Num(Len(d.kvs)))
         [] name = "get" -> Ok(Lookup(d, key, Null))
         [] name \in {"has", "contains"} -> Ok(Bool(key \in Keys(d)))
         [] name = "keys" -> Ok(List(Elements(m, d))) [] name = "values" -> Ok(List(DictValues(m, d)))
         [] name = "items" -> Ok(List(Pairs(m, d)))
         [] name = "set" -> Ok(Insert(d, key, Arg(args, 2)))
         [] name \in {"delete", "remove"} -> Ok(Without(d, key))
         [] name = "is_empty" -> Ok(Bool(d.kvs = <<>>))
         [] name = "merge" -> Ok(IF other.t = "dict" THEN FoldLeft(LAMBDA a, kv : Insert(a, kv[1], kv[2]), d, other.kvs) ELSE d)
         [] name \in {"to_str", "__str__"} -> Ok(Str(ToStr(m, d)))
         [] OTHER -> NoMethod("dict", name)

(***************************************************************************)
(* Generators: all that one yields was collected when it was made          *)
(***************************************************************************)

\* the next value and the generator after it; `end` once no return value is kept
Resumed(g, end) ==
    IF g.at < Len(g.vals) THEN [v |-> g.vals[g.at + 1], g |-> [g EXCEPT !.at = @ + 1, !.done = @ \/ g.at + 1 >= Len(g.vals)]]
    ELSE [v |-> IF g.ret = <<>> THEN end ELSE g.ret[1], g |-> [g EXCEPT !.done = TRUE]]
GenResumes == {"next", "__next__", "resume", "send"}
GenMethod(g, name) ==
    CASE name \in {"to_list", "collect"} -> Ok(List(g.vals))
      [] name \in {"done", "is_done"} -> Ok(Bool(g.done)) [] name = "has_next" -> Ok(Bool(g.at < Len(g.vals)))
      [] name \in {"len", "__len__"} -> Ok(Num(Len(g.vals)))
      [] name \in {"to_str", "__str__"} -> Ok(Str("<generator " \o ToString(Len(g.vals)) \o " values>"))
      [] OTHER -> NoMethod("generator", name)
GenRewound(g) == [g EXCEPT !.at = 0, !.done = FALSE]

(***************************************************************************)
(* Builtins                                                                *)
(***************************************************************************)

\* the step is an int other than 0
Span(a, b, step) ==
    LET n == IF step > 0 THEN (b - a + step - 1) \div step ELSE (a - b - step - 1) \div (-step)
    IN List([k \in 1..Greatest(n, 0) |-> Num(a + (k - 1) * step)])
Conversions(args, n, defaults, then(_)) ==
    LET v(j) == ToInt(IF j \in DOMAIN args THEN args[j] ELSE Num(defaults[j]))
        bad == {j \in 1..n : ~v(j).ok}
    IN IF bad # {} THEN v(FirstOf(bad)) ELSE then([j \in 1..n |-> v(j).v.n])
Ranged(ns) == IF ns[3] = 0 THEN Err("range step cannot be zero") ELSE Ok(Span(ns[1], ns[2], ns[3]))
Whole(es) == SelectSeq(es, LAMBDA v : ToInt(v).ok)
WholeOf(v, types) == IF v.t \in types THEN [j \in DOMAIN Whole(v.es) |-> ToInt(Whole(v.es)[j]).v] ELSE <<>>
OrZero(v) == IF v = Null THEN Num(0) ELSE v

Rounded(name, x) ==
    CASE name = "floor" -> Floor(x) [] name = "ceil" -> -Floor(Float(-x.p, x.q))
      [] name = "round" -> IF x.p < 0 THEN -Floor(Float(-2 * x.p + x.q, 2 * x.q)) ELSE Floor(Float(2 * x.p + x.q, 2 * x.q))

Repeated(v, n) ==
    CASE n.t # "int" -> Err("repeated: right operand must be an integer")
      [] n.t = "int" /\ n.n < 0 -> Err("repeated: count cannot be negative")
      [] v.t = "str" -> Ok(Str(Times(v.s, n.n)))
      [] v.t = "list" -> Ok(List(FlattenSeq([j \in 1..n.n |-> v.es])))
      [] OTHER -> Err("repeated: left operand must be a string or list")

Member(m, v, x) ==
    CASE BothAre("str", v, x) -> Includes(v.s, x.s) [] v.t \in {"list", "tuple"} -> Has(m, v.es, x)
      [] v.t = "dict" -> ToStr(m, x) \in Keys(v) [] OTHER -> FALSE

IsOk(m, v) == v.t = "object" /\ m.heap[v.o].cls = "Ok"
Payload(m, v, default) == IF "__value__" \in DOMAIN m.heap[v.o].f THEN m.heap[v.o].f["__value__"] ELSE default
FieldOf(f, x) == IF x \in DOMAIN f THEN f[x] ELSE Null
\* get_field and optional_member; the former knows what an enum is, too
Field(m, v, x) ==
    CASE v.t = "object" -> FieldOf(m.heap[v.o].f, x) [] v.t = "dict" -> Lookup(v, x, Null) [] OTHER -> Null
IsEnum(s) == Len(s) > 7 /\ SubSeq(s, 1, 6) = "<enum " /\ SubSeq(s, Len(s), Len(s)) = ">"
VariantOf(m, enum, x) == FieldOf(m.globals, enum \o "." \o x)

Character(v) ==
    CASE v.t = "int" -> Ok(v) [] v.t = "str" /\ Len(v.s) = 1 -> Ok(Num(Code(v.s)))
      [] v.t = "str" -> Err("ord() expected a single character, got '" \o v.s \o "'")
      [] OTHER -> Err("ord() expected a string, got " \o TypeName(v))
Dicted(m, args) == FoldLeft(LAMBDA d, j : Insert(d, ToStr(m, args[2 * j - 1]), args[2 * j]), Dict(<<>>), [j \in 1..(Len(args) \div 2) |-> j])

BuiltinConversion(m, f, args) ==
    LET v == Arg(args, 1)
    IN CASE f = "len" -> Ok(Num(Length(v))) [] f = "str" -> Ok(Str(ToStr(m, v))) [] f \in {"int", "float"} -> ToNumber(v, f)
         [] f = "bool" -> Ok(Bool(Truthy(m, v))) [] f = "type_of" -> Ok(Str(TypeName(v)))
         [] f = "ord" -> Character(v)
         [] f = "chr" -> IF ToInt(v).ok THEN Ok(Str(CharOf(ToInt(v).v.n))) ELSE Err("chr() expected an integer code point")
         [] f = "is_type" -> Ok(Bool(TypeOf(m, v) = TypeOf(m, Arg(args, 2))))
         [] f = "__cast__" -> Ok(Cast(m, v, StrArg(args, 2, "any")))
BuiltinNumber(m, f, args) ==
    LET v == Arg(args, 1)
    IN CASE f = "abs" -> Ok(IF IsNumber(v) /\ P(v) < 0 THEN Minus(v) ELSE v)
         [] f \in {"floor", "ceil", "round"} -> Ok(CASE v.t = "float" -> Num(Rounded(f, v)) [] v.t = "int" -> v [] OTHER -> Null)
         [] f = "sum" -> Ok(Total(WholeOf(v, {"list", "tuple"})))
         [] f = "min" -> Ok(OrZero(Best(Less, WholeOf(v, {"list"})))) [] f = "max" -> Ok(OrZero(Best(LAMBDA a, b : Less(b, a), WholeOf(v, {"list"}))))
         [] f = "pow_op" -> Ok(Power(v, Arg(args, 2)))
         [] f \in {"range", "range1"} ->
              IF Len(args) < 2 THEN Conversions(args, 1, <<0>>, LAMBDA ns : Ok(Span(0, ns[1], 1)))
              ELSE Conversions(args, 2, <<0, 0>>, LAMBDA ns : Ok(Span(ns[1], ns[2], 1)))
         [] f = "range3" -> Conversions(args, 3, <<0, 0, 1>>, Ranged)
BuiltinSequence(m, f, args) ==
    LET v == Arg(args, 1)
        w == Arg(args, 2)
        es == Elements(m, v)
    IN CASE f = "enumerate" -> Ok(List([j \in DOMAIN es |-> Tuple(<<Num(j - 1), es[j]>>)]))
         [] f = "zip" -> Ok(List([j \in 1..Least(Len(es), Len(Elements(m, w))) |-> Tuple(<<es[j], Elements(m, w)[j]>>)]))
         [] f = "list" -> Ok(List(es)) [] f = "tuple" -> Ok(Tuple(es)) [] f = "reversed" -> Ok(List(Reverse(es)))
         [] f = "set" -> Ok(List(Distinct(LAMBDA a, b : ToStr(m, a) = ToStr(m, b), es)))
         [] f = "sorted" -> Ok(List(Sorted(LAMBDA a, b : Compare(a, b) < 0, es)))
         [] f = "sorted_desc" -> Ok(List(Sorted(LAMBDA a, b : Compare(b, a) < 0, es)))
         [] f = "list_append" -> Ok(List(IF v.t = "list" THEN Append(v.es, w) ELSE <<w>>))
         [] f = "slice" -> Slice(v, w, Arg(args, 3), Arg(args, 4))
         [] f = "contains" -> Ok(Bool(Member(m, v, w)))
         [] f = "__repeated__" -> Repeated(v, w)
BuiltinText(m, f, args) ==
    LET s == ToStr(m, Arg(args, 1))
    IN CASE f = "split" -> Ok(Strs(Split(s, IF Len(args) > 1 THEN ToStr(m, args[2]) ELSE " ")))
         [] f = "join" -> Ok(Str(Joined(Texts(m, Elements(m, Arg(args, 1))), KeyArg(m, args, 2))))
         [] f = "trim" -> Ok(Str(Trim(s))) [] f = "upper" -> Ok(Str(Upper(s))) [] f = "lower" -> Ok(Str(Lower(s)))
BuiltinDict(m, f, args) ==
    LET v == Arg(args, 1)
        key == ToStr(m, Arg(args, 2))
        isd == v.t = "dict"
    IN CASE f = "dict" -> Ok(Dicted(m, args))
         [] f = "dict_get" -> Ok(IF isd THEN Lookup(v, key, Arg(args, 3)) ELSE Arg(args, 3))
         [] f = "dict_set" -> Ok(IF isd THEN Insert(v, key, Arg(args, 3)) ELSE Null)
         [] f = "dict_keys" -> Ok(List(IF isd THEN Elements(m, v) ELSE <<>>))
         [] f = "dict_values" -> Ok(List(IF isd THEN DictValues(m, v) ELSE <<>>))
         [] f \in {"dict_has", "set_contains"} -> Ok(Bool(isd /\ key \in Keys(v)))
         [] f = "set_add" -> Ok(IF isd THEN Insert(v, key, Bool(TRUE)) ELSE v)
         [] f = "set_remove" -> Ok(IF isd THEN Without(v, key) ELSE v)
         [] f = "set_size" -> Ok(Num(IF isd THEN Len(v.kvs) ELSE 0))
\* a Result is an object of class Ok or an exception value
BuiltinResult(m, f, args) ==
    LET v == Arg(args, 1)
        failed == v.t = "exception"
    IN CASE f = "Err" -> Ok(Exception(ToStr(m, v), v)) [] f = "stop" -> Ok(Exception("StopIteration", Str("StopIteration")))
         [] f = "is_ok" -> Ok(Bool(IsOk(m, v))) [] f = "is_err" -> Ok(Bool(failed))
         [] f = "unwrap" -> IF failed THEN Err("unwrap called on Err(" \o v.msg \o ")") ELSE Ok(IF IsOk(m, v) THEN Payload(m, v, Null) ELSE v)
         [] f = "unwrap_or" -> Ok(IF failed THEN Arg(args, 2) ELSE IF IsOk(m, v) THEN Payload(m, v, Arg(args, 2)) ELSE v)
         [] f = "__try_propagate__" -> IF failed THEN Err("throw:" \o v.msg) ELSE Ok(IF IsOk(m, v) THEN Payload(m, v, Null) ELSE v)
         [] f = "__assert_fail" -> Err("throw:assertion failed: " \o ToStr(m, v))
         [] f = "__panic__" -> Err("throw:panic: " \o ToStr(m, v))
\* is_frozen and annotations: what the interpreter remembers of a value; no
\* program here has an annotation
BuiltinOther(m, f, args) ==
    LET v == Arg(args, 1)
        x == ToStr(m, Arg(args, 2))
    IN CASE f = "get_field" -> Ok(CASE v.t = "class" -> VariantOf(m, v.c, x)
                                    [] v.t = "str" -> IF IsEnum(v.s) THEN VariantOf(m, SubSeq(v.s, 7, Len(v.s) - 1), x) ELSE Null
                                    [] OTHER -> Field(m, v, x))
         [] f = "optional_member" -> Ok(Field(m, v, x))
         [] f = "is_frozen" -> Ok(Bool(<<v.t, ToStr(m, v)>> \in m.frozen))
         [] f = "annotations" -> Ok(Dict(<<>>))
         [] f \in {"set_recursion_limit", "input"} -> Ok(Null)

OfConversion == {"len", "str", "int", "float", "bool", "type_of", "ord", "chr", "is_type", "__cast__"}
OfNumber == {"abs", "floor", "ceil", "round", "sum", "min", "max", "pow_op", "range", "range1", "range3"}
OfSequence == {"enumerate", "zip", "list", "tuple", "reversed", "set", "sorted", "sorted_desc", "list_append", "slice", "contains", "__repeated__"}
OfText == {"split", "join", "trim", "upper", "lower"}
OfDict == {"dict", "dict_get", "dict_set", "dict_keys", "dict_values", "dict_has", "set_contains", "set_add", "set_remove", "set_size"}
OfResult == {"Err", "stop", "is_ok", "is_err", "unwrap", "unwrap_or", "__try_propagate__", "__assert_fail", "__panic__"}
OfOther == {"get_field", "optional_member", "is_frozen", "annotations", "set_recursion_limit", "input"}
PureBuiltins == OfConversion \cup OfNumber \cup OfSequence \cup OfText \cup OfDict \cup OfResult \cup OfOther
PureBuiltin(m, f, args) ==
    CASE f \in OfConversion -> BuiltinConversion(m, f, args) [] f \in OfNumber -> BuiltinNumber(m, f, args)
      [] f \in OfSequence -> BuiltinSequence(m, f, args) [] f \in OfText -> BuiltinText(m, f, args)
      [] f \in OfDict -> BuiltinDict(m, f, args) [] f \in OfResult -> BuiltinResult(m, f, args)
      [] f \in OfOther -> BuiltinOther(m, f, args)
=============================================================================
