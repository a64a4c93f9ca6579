------------------------------- MODULE Values -------------------------------
(***************************************************************************)
(* The values of the bytecode interpreter (enum Value of bytecode/vm.rs)   *)
(* and what the interpreter does with them without running any code of the *)
(* program: truth, text, equality and order, arithmetic, indexing, the     *)
(* methods of strings, lists and dicts, and the builtins.                  *)
(* A float is the rational p/q, without the rounding of an f64.  Objects   *)
(* and generators are shared: a value holds their place in m.heap and      *)
(* m.gens, where m is the interpreter.  A dict lists its entries in the    *)
(* order they were put in; m.turn says whether its HashMap enumerates them *)
(* in that order or the other way round.                                   *)
(***************************************************************************)
EXTENDS Integers, Sequences, SequencesExt, FiniteSets, TLC

Num(n) == [t |-> "int", n |-> n]
Bool(b) == [t |-> "bool", b |-> b]
Str(s) == [t |-> "str", s |-> s]
Null == [t |-> "null"]
List(es) == [t |-> "list", es |-> es]
Tuple(es) == [t |-> "tuple", es |-> es]
Dict(kvs) == [t |-> "dict", kvs |-> kvs]
Func(f) == [t |-> "func", f |-> f]
Object(o) == [t |-> "object", o |-> o]
Class(c) == [t |-> "class", c |-> c]
Generator(g) == [t |-> "generator", g |-> g]
Exception(msg, v) == [t |-> "exception", msg |-> msg, v |-> v]

RECURSIVE Gcd(_, _)
Gcd(a, b) == IF b = 0 THEN a ELSE Gcd(b, a % b)
Magnitude(n) == IF n < 0 THEN -n ELSE n
Float(p, q) ==
    LET g == Gcd(Magnitude(p), Magnitude(q))
        s == IF q < 0 THEN -1 ELSE 1
    IN [t |-> "float", p |-> s * (p \div g), q |-> s * (q \div g)]
\* toward zero, as a cast to i64 does
Truncated(x) == IF x.p < 0 THEN -(-x.p \div x.q) ELSE x.p \div x.q
IsNumber(v) == v.t \in {"int", "float"}
\* an int or a float as a fraction
P(v) == IF v.t = "int" THEN v.n ELSE v.p
Q(v) == IF v.t = "int" THEN 1 ELSE v.q

\* what a call of the interpreter answers: a value or an error
Ok(v) == [ok |-> TRUE, v |-> v]
Err(msg) == [ok |-> FALSE, msg |-> msg]

(***************************************************************************)
(* Strings                                                                 *)
(***************************************************************************)

\* from the space on, in the order of their codes (a tab for the backquote)
Ascii == " !\"#$%&'()*+,-./0123456789:;<=>?@ABCDEFGHIJKLMNOPQRSTUVWXYZ[\\]^_\tabcdefghijklmnopqrstuvwxyz{|}~"
Code(ch) == 31 + CHOOSE j \in 1..Len(Ascii) : SubSeq(Ascii, j, j) = ch
CharOf(n) == SubSeq(Ascii, n - 31, n - 31)
Chars(s) == [j \in 1..Len(s) |-> SubSeq(s, j, j)]
Joined(parts, sep) == FoldLeft(LAMBDA a, j : (IF j = 1 THEN a ELSE a \o sep) \o parts[j], "", [j \in DOMAIN parts |-> j])
Mapped(s, from, to, by) == Joined([j \in 1..Len(s) |-> IF Code(SubSeq(s, j, j)) \in from..to THEN CharOf(Code(SubSeq(s, j, j)) + by) ELSE SubSeq(s, j, j)], "")
Upper(s) == Mapped(s, 97, 122, -32)
Lower(s) == Mapped(s, 65, 90, 32)
RECURSIVE Trim(_), Times(_, _)
Trim(s) ==
    IF Len(s) > 0 /\ SubSeq(s, 1, 1) = " " THEN Trim(SubSeq(s, 2, Len(s)))
    ELSE IF Len(s) > 0 /\ SubSeq(s, Len(s), Len(s)) = " " THEN Trim(SubSeq(s, 1, Len(s) - 1)) ELSE s
Times(s, n) == IF n <= 0 THEN "" ELSE s \o Times(s, n - 1)

Holds(s, n, j) == SubSeq(s, j, j + Len(n) - 1) = n
Places(s, n) == {j \in 1..(Len(s) - Len(n) + 1) : Holds(s, n, j)}
Includes(s, n) == Places(s, n) # {}
StartsWith(s, n) == 1 \in Places(s, n)
EndsWith(s, n) == (Len(s) - Len(n) + 1) \in Places(s, n)
FirstOf(js) == CHOOSE j \in js : \A k \in js : j <= k
LastOf(js) == CHOOSE j \in js : \A k \in js : j >= k
RECURSIVE Split(_, _), Replace(_, _, _)
Split(s, sep) ==
    IF sep = "" THEN Chars(s)
    ELSE IF ~Includes(s, sep) THEN <<s>>
    ELSE LET j == FirstOf(Places(s, sep)) IN <<SubSeq(s, 1, j - 1)>> \o Split(SubSeq(s, j + Len(sep), Len(s)), sep)
Replace(s, n, by) ==
    IF n = "" THEN Joined(<<"">> \o Chars(s) \o <<"">>, by) ELSE IF ~Includes(s, n) THEN s
    ELSE LET j == FirstOf(Places(s, n)) IN SubSeq(s, 1, j - 1) \o by \o Replace(SubSeq(s, j + Len(n), Len(s)), n, by)

\* s.parse::<i64>(), as an empty sequence where it fails
Digits == {"0", "1", "2", "3", "4", "5", "6", "7", "8", "9"}
Parsed(s) ==
    LET signed == Len(s) > 1 /\ SubSeq(s, 1, 1) \in {"-", "+"}
        ds == Chars(IF signed THEN SubSeq(s, 2, Len(s)) ELSE s)
        n == FoldLeft(LAMBDA a, d : 10 * a + Code(d) - 48, 0, ds)
    IN IF ds = <<>> \/ \E j \in DOMAIN ds : ds[j] \notin Digits THEN <<>>
       ELSE <<IF SubSeq(s, 1, 1) = "-" THEN -n ELSE n>>
\* s.parse::<f64>(), of numbers without an exponent
ParsedFloat(s) ==
    LET dots == Places(s, ".")
        j == FirstOf(dots)
        whole == Parsed(Replace(s, ".", ""))
    IN IF dots = {} THEN [i \in DOMAIN Parsed(s) |-> Float(Parsed(s)[i], 1)]
       ELSE IF Cardinality(dots) > 1 THEN <<>> ELSE [i \in DOMAIN whole |-> Float(whole[i], 10 ^ (Len(s) - j))]

(***************************************************************************)
(* Truth, text, types, conversions                                         *)
(***************************************************************************)

Truthy(m, v) ==
    CASE v.t = "int" -> v.n # 0 [] v.t = "float" -> v.p # 0 [] v.t = "bool" -> v.b [] v.t = "str" -> v.s # "" [] v.t = "null" -> FALSE
      [] v.t \in {"list", "tuple"} -> v.es # <<>> [] v.t = "dict" -> v.kvs # <<>>
      [] v.t = "generator" -> ~m.gens[v.g].done
      [] OTHER -> TRUE

\* the decimals of a float that has at most three
FloatText(x) ==
    LET k == FirstOf({j \in 1..3 : (10 ^ j) % x.q = 0})
        m == Magnitude(x.p) * (10 ^ k \div x.q)
        tail == ToString(m % 10 ^ k)
    IN (IF x.p < 0 THEN "-" ELSE "") \o ToString(m \div 10 ^ k) \o "." \o Times("0", k - Len(tail)) \o tail

InTurn(m, d) == IF m.turn THEN Reverse(d.kvs) ELSE d.kvs
RECURSIVE ToStr(_, _)
ToStr(m, v) ==
    LET Texts(es) == Joined([j \in DOMAIN es |-> ToStr(m, es[j])], ", ")
    IN CASE v.t = "int" -> ToString(v.n) [] v.t = "float" -> FloatText(v) [] v.t = "bool" -> IF v.b THEN "true" ELSE "false"
         [] v.t = "str" -> v.s [] v.t = "null" -> "null"
         [] v.t = "list" -> "[" \o Texts(v.es) \o "]" [] v.t = "tuple" -> "(" \o Texts(v.es) \o ")"
         [] v.t = "dict" -> "{" \o Joined([j \in DOMAIN v.kvs |-> InTurn(m, v)[j][1] \o ": " \o ToStr(m, InTurn(m, v)[j][2])], ", ") \o "}"
         [] v.t = "func" -> "<fn " \o v.f \o ">" [] v.t = "generator" -> "<generator>"
         [] v.t = "object" -> "<" \o m.heap[v.o].cls \o ">" [] v.t = "class" -> "<class " \o v.c \o ">"
         [] v.t = "exception" -> v.msg

\* type_of and messages name functions "function"; `is` names an object by its class
TypeName(v) == IF v.t = "func" THEN "function" ELSE v.t
TypeOf(m, v) == CASE v.t = "object" -> m.heap[v.o].cls [] v.t = "class" -> v.c [] OTHER -> v.t
\* {:?}, of which the messages need the variant only
Variant == [int |-> "Int", float |-> "Float", bool |-> "Bool", str |-> "Str", null |-> "Null", list |-> "List", tuple |-> "Tuple",
            dict |-> "Dict", func |-> "Func", object |-> "Object", class |-> "Class", generator |-> "Generator", exception |-> "Exception"]
Debug(v) == Variant[v.t]

ToInt(v) ==
    CASE v.t = "int" -> Ok(v) [] v.t = "float" -> Ok(Num(Truncated(v))) [] v.t = "bool" -> Ok(Num(IF v.b THEN 1 ELSE 0))
      [] v.t = "str" /\ Parsed(v.s) # <<>> -> Ok(Num(Parsed(v.s)[1]))
      [] OTHER -> Err("cannot convert " \o (IF v.t = "str" THEN "'" \o v.s \o "'" ELSE Debug(v)) \o " to int")
IntOr(v, n) == IF ToInt(v).ok THEN ToInt(v).v.n ELSE n

\* int(v) and float(v): as above, with messages of their own
ToNumber(v, ty) ==
    LET Number(n) == IF ty = "int" THEN Num(n) ELSE Float(n, 1)
        Read(s) == IF ty = "int" THEN [i \in DOMAIN Parsed(s) |-> Num(Parsed(s)[i])] ELSE ParsedFloat(s)
    IN CASE v.t = "int" -> Ok(Number(v.n)) [] v.t = "float" -> Ok(IF ty = "int" THEN Num(Truncated(v)) ELSE v)
         [] v.t = "bool" -> Ok(Number(IF v.b THEN 1 ELSE 0))
         [] v.t = "str" /\ Read(v.s) # <<>> -> Ok(Read(v.s)[1])
         [] OTHER -> Err("cannot convert " \o (CASE v.t = "null" -> "null" [] v.t = "str" /\ v.s = "" -> "empty string"
                                                 [] v.t = "str" -> "'" \o v.s \o "'" [] OTHER -> TypeName(v)) \o " to " \o ty)

\* `v as ty` never fails
Cast(m, v, ty) ==
    CASE ty \in {"int", "float"} ->
           LET r == ToNumber(IF v.t = "str" THEN Str(Trim(v.s)) ELSE v, ty) IN IF r.ok THEN r.v ELSE IF ty = "int" THEN Num(0) ELSE Float(0, 1)
      [] ty = "str" -> Str(ToStr(m, v)) [] ty = "bool" -> Bool(Truthy(m, v)) [] ty = "null" -> Null
      [] OTHER -> v

(***************************************************************************)
(* Equality and order                                                      *)
(***************************************************************************)

Keys(d) == {d.kvs[j][1] : j \in DOMAIN d.kvs}
Lookup(d, key, default) == IF key \in Keys(d) THEN d.kvs[CHOOSE j \in DOMAIN d.kvs : d.kvs[j][1] = key][2] ELSE default
Insert(d, key, v) ==
    IF key \in Keys(d) THEN [d EXCEPT !.kvs[CHOOSE j \in DOMAIN d.kvs : d.kvs[j][1] = key][2] = v]
    ELSE [d EXCEPT !.kvs = Append(@, <<key, v>>)]
Without(d, key) == [d EXCEPT !.kvs = SelectSeq(@, LAMBDA kv : kv[1] # key)]

RECURSIVE Equal(_, _, _)
Equal(m, a, b) ==
    LET All(xs, ys) == Len(xs) = Len(ys) /\ \A j \in DOMAIN xs : Equal(m, xs[j], ys[j])
        Fields(f, g) == DOMAIN f = DOMAIN g /\ \A x \in DOMAIN f : Equal(m, f[x], g[x])
    IN CASE IsNumber(a) /\ IsNumber(b) -> P(a) * Q(b) = P(b) * Q(a)
         [] a.t = "exception" /\ b.t = "str" -> a.msg = b.s
         [] a.t = "str" /\ b.t = "exception" -> a.s = b.msg
         [] a.t # b.t \/ a.t \in {"func", "generator"} -> FALSE
         [] a.t \in {"bool", "str", "null", "class"} -> a = b
         [] a.t \in {"list", "tuple"} -> All(a.es, b.es)
         [] a.t = "dict" -> Keys(a) = Keys(b) /\ \A k \in Keys(a) : Equal(m, Lookup(a, k, Null), Lookup(b, k, Null))
         [] a.t = "object" -> a.o = b.o \/ (m.heap[a.o].cls = m.heap[b.o].cls /\ Fields(m.heap[a.o].f, m.heap[b.o].f))
         [] a.t = "exception" -> a.msg = b.msg

Sign(n) == IF n < 0 THEN -1 ELSE IF n = 0 THEN 0 ELSE 1
RECURSIVE CompareStr(_, _), Compare(_, _), CompareAll(_, _)
CompareStr(a, b) ==
    IF a = "" \/ b = "" THEN Sign(Len(a) - Len(b))
    ELSE LET c == Sign(Code(SubSeq(a, 1, 1)) - Code(SubSeq(b, 1, 1)))
         IN IF c # 0 THEN c ELSE CompareStr(SubSeq(a, 2, Len(a)), SubSeq(b, 2, Len(b)))
Tags == <<"null", "bool", "int", "float", "str", "list", "tuple", "dict", "func", "class", "object", "generator", "exception">>
Tag(v) == CHOOSE j \in DOMAIN Tags : Tags[j] = v.t
Rank(b) == IF b THEN 1 ELSE 0
\* Ord: by the tag where the types differ; dicts, objects and generators are equal
Compare(a, b) ==
    CASE IsNumber(a) /\ IsNumber(b) -> Sign(P(a) * Q(b) - P(b) * Q(a))
      [] a.t # b.t -> Sign(Tag(a) - Tag(b))
      [] a.t = "bool" -> Sign(Rank(a.b) - Rank(b.b))
      [] a.t = "str" -> CompareStr(a.s, b.s) [] a.t = "func" -> CompareStr(a.f, b.f)
      [] a.t = "class" -> CompareStr(a.c, b.c) [] a.t = "exception" -> CompareStr(a.msg, b.msg)
      [] a.t \in {"list", "tuple"} -> CompareAll(a.es, b.es)
      [] OTHER -> 0
CompareAll(xs, ys) ==
    IF xs = <<>> \/ ys = <<>> THEN Sign(Len(xs) - Len(ys))
    ELSE LET c == Compare(xs[1], ys[1]) IN IF c # 0 THEN c ELSE CompareAll(Tail(xs), Tail(ys))

\* the operators < and > order numbers and strings only; null for the rest
Ordered(op, a, b) ==
    LET c == Compare(a, b)
    IN IF (IsNumber(a) /\ IsNumber(b)) \/ (a.t = "str" /\ b.t = "str")
       THEN Bool(CASE op = "Lt" -> c < 0 [] op = "Le" -> c <= 0 [] op = "Gt" -> c > 0 [] op = "Ge" -> c >= 0)
       ELSE Null
\* value_less_than: bools too
Less(a, b) == IF a.t = "bool" /\ b.t = "bool" THEN ~a.b /\ b.b ELSE Ordered("Lt", a, b) = Bool(TRUE)

\* sort_by is stable
Insertion(less(_, _), es, x) ==
    LET n == Cardinality({j \in DOMAIN es : ~less(x, es[j])}) IN SubSeq(es, 1, n) \o <<x>> \o SubSeq(es, n + 1, Len(es))
Sorted(less(_, _), es) == FoldLeft(LAMBDA a, x : Insertion(less, a, x), <<>>, es)
\* the first element that no later one beats
Best(beats(_, _), es) == IF es = <<>> THEN Null ELSE FoldLeft(LAMBDA a, x : IF beats(x, a) THEN x ELSE a, es[1], es)

(***************************************************************************)
(* Arithmetic                                                              *)
(***************************************************************************)

Floor(x) == x.p \div x.q
\* an int of two ints, else a float
Sum(a, b) == IF a.t = "int" /\ b.t = "int" THEN Num(a.n + b.n) ELSE Float(P(a) * Q(b) + P(b) * Q(a), Q(a) * Q(b))
Product(a, b) == IF a.t = "int" /\ b.t = "int" THEN Num(a.n * b.n) ELSE Float(P(a) * P(b), Q(a) * Q(b))
Minus(a) == IF a.t = "int" THEN Num(-a.n) ELSE Float(-a.p, a.q)
BothNumbers(a, b) == IsNumber(a) /\ IsNumber(b)
BothAre(ty, a, b) == a.t = ty /\ b.t = ty

\* the arms of run(): what they do not compute is an error
FastAdd(m, a, b) ==
    CASE BothNumbers(a, b) -> Ok(Sum(a, b))
      [] a.t = "str" \/ b.t = "str" -> Ok(Str(ToStr(m, a) \o ToStr(m, b)))
      [] BothAre("list", a, b) -> Ok(List(a.es \o b.es)) [] a.t = "list" /\ b.t # "list" -> Ok(List(Append(a.es, b)))
      [] b.t = "list" /\ a.t # "list" -> Ok(List(<<a>> \o b.es)) [] BothAre("tuple", a, b) -> Ok(Tuple(a.es \o b.es))
      [] OTHER -> Err("type error: cannot add \"value\" and \"value\"")
FastSub(a, b) == IF BothNumbers(a, b) THEN Ok(Sum(a, Minus(b))) ELSE Err("type error: cannot subtract these values")
FastMul(a, b) ==
    CASE BothNumbers(a, b) -> Ok(Product(a, b))
      [] a.t = "str" /\ b.t = "int" -> Ok(Str(Times(a.s, b.n))) [] a.t = "int" /\ b.t = "str" -> Ok(Str(Times(b.s, a.n)))
      [] OTHER -> Err("type error: cannot multiply these values")

\* the arms of execute(), which a nested loop runs: null for the rest
SlowAdd(a, b) ==
    CASE BothNumbers(a, b) -> Sum(a, b) [] BothAre("str", a, b) -> Str(a.s \o b.s)
      [] BothAre("list", a, b) -> List(a.es \o b.es) [] a.t = "list" /\ b.t # "list" -> List(Append(a.es, b))
      [] OTHER -> Null
SlowSub(a, b) == IF BothNumbers(a, b) /\ a.t = b.t THEN Sum(a, Minus(b)) ELSE Null
SlowMul(a, b) == IF BothNumbers(a, b) /\ a.t = b.t THEN Product(a, b) ELSE Null

\* the quotient of two ints by / is a float, by // and % as if by div_euclid
Division(op, a, b) ==
    LET x == Float(P(a) * Q(b), Q(a) * P(b))
        q == IF b.n > 0 THEN a.n \div b.n ELSE -(a.n \div (-b.n))
        step == IF P(b) < 0 THEN Minus(b) ELSE b
        times == Floor(Float(P(a) * Q(step), Q(a) * P(step)))
    IN CASE ~BothNumbers(a, b) -> Ok(Null)
         [] P(b) = 0 -> Err(IF op = "Mod" THEN "modulo by zero" ELSE "division by zero")
         [] op = "Div" -> Ok(x)
         [] op = "FloorDiv" -> Ok(IF BothAre("int", a, b) THEN Num(q) ELSE Float(Floor(x), 1))
         [] op = "Mod" -> Ok(Sum(a, Minus(Product(step, Num(times)))))
Negated(v) == IF IsNumber(v) THEN Minus(v) ELSE Null
\* powf, of a whole exponent
Power(a, b) ==
    IF ~BothNumbers(a, b) THEN Null
    ELSE LET n == Magnitude(Floor(Float(P(b), Q(b)))) IN IF P(b) >= 0 THEN Float(P(a) ^ n, Q(a) ^ n) ELSE Float(Q(a) ^ n, P(a) ^ n)

(***************************************************************************)
(* Indexes and slices                                                      *)
(***************************************************************************)

FromEnd(i, n) == IF i < 0 THEN n + i ELSE i
Within(i, n) == i >= 0 /\ i < n
Length(v) ==
    CASE v.t = "str" -> Len(v.s) [] v.t \in {"list", "tuple"} -> Len(v.es) [] v.t = "dict" -> Len(v.kvs) [] OTHER -> 0
CannotIndex(c, i) == Err("cannot index " \o Debug(c) \o " with " \o Debug(i))
\* index_get and index_set, of what is no object
IndexGet(m, c, i) ==
    LET n == Length(c)
        j == FromEnd(i.n, n)
    IN CASE c.t = "dict" -> Ok(Lookup(c, ToStr(m, i), Null))
         [] c.t \notin {"list", "tuple", "str"} \/ i.t # "int" -> CannotIndex(c, i)
         [] Within(j, n) -> Ok(IF c.t = "str" THEN Str(SubSeq(c.s, j + 1, j + 1)) ELSE c.es[j + 1])
         [] c.t = "list" -> Err("list index " \o ToString(j) \o " out of bounds (len " \o ToString(n) \o ")")
         [] c.t = "tuple" -> Err("tuple index out of bounds")
         [] c.t = "str" -> Err("string index out of bounds")
\* an index past the end of a list fills the gap with nulls
IndexSet(m, c, i, v) ==
    LET n == Length(c)
        j == FromEnd(i.n, n)
    IN CASE c.t = "dict" -> Ok(Insert(c, ToStr(m, i), v))
         [] c.t # "list" -> Err("cannot index-assign")
         [] i.t # "int" -> Err("list index must be int")
         [] j < 0 -> Err("list index assignment out of bounds: " \o ToString(i.n) \o " (len " \o ToString(n) \o ")")
         [] Within(j, n) -> Ok([c EXCEPT !.es[j + 1] = v])
         [] OTHER -> Ok(List(c.es \o [k \in 1..(j - n) |-> Null] \o <<v>>))

Least(a, b) == IF a < b THEN a ELSE b
Greatest(a, b) == IF a > b THEN a ELSE b
\* what l[a:b:step] takes, 0-based; null stands for the default of either sign
SlicePlaces(n, a, b, step) ==
    LET Up(x, default) == IF x.t = "null" THEN default ELSE IF IntOr(x, default) < 0 THEN Greatest(n + IntOr(x, default), 0) ELSE Least(IntOr(x, default), n)
        Down(x, default, top) ==
            LET i == IntOr(x, default)
            IN IF x.t = "null" \/ ~ToInt(x).ok THEN default ELSE IF i < 0 THEN Least(Greatest(n + i, -1), n - 1) ELSE Least(i, top)
        s == IF step > 0 THEN Up(a, 0) ELSE Down(a, n - 1, n - 1)
        e == IF step > 0 THEN Up(b, n) ELSE Down(b, -1, n)
        count == IF step > 0 THEN (e - s + step - 1) \div step ELSE (s - e - step - 1) \div (-step)
    IN [k \in 1..Greatest(count, 0) |-> s + (k - 1) * step]
Slice(v, a, b, by) ==
    LET step == IF by.t = "null" THEN 1 ELSE IntOr(by, 1)
        js == SlicePlaces(Length(v), a, b, step)
        es == [k \in DOMAIN js |-> v.es[js[k] + 1]]
    IN CASE step = 0 -> Err("slice step cannot be zero")
         [] v.t = "list" -> Ok(List(es)) [] v.t = "tuple" -> Ok(Tuple(es))
         [] v.t = "str" -> Ok(Str(Joined([k \in DOMAIN js |-> SubSeq(v.s, js[k] + 1, js[k] + 1)], "")))
         [] OTHER -> Err("cannot slice " \o Debug(v))

\* iterable_to_list
Elements(m, v) ==
    CASE v.t \in {"list", "tuple"} -> v.es
      [] v.t = "str" -> [j \in 1..Len(v.s) |-> Str(SubSeq(v.s, j, j))]
      [] v.t = "dict" -> [j \in DOMAIN v.kvs |-> Str(InTurn(m, v)[j][1])]
      [] OTHER -> <<>>
DictValues(m, d) == [j \in DOMAIN d.kvs |-> InTurn(m, d)[j][2]]
=============================================================================
