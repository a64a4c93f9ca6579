------------------------------- MODULE Native -------------------------------
(***************************************************************************)
(* The x86-64 program that the raw back end emits for an IR module         *)
(* (src/codegen/emit_raw_x86.rs), one action per IR instruction, linked    *)
(* with the C runtime it carries (minimal_runtime_stub).  A value is one   *)
(* 64-bit word with no tag: an integer, or an address at Base or above.    *)
(* The stack is modelled word by word, the callee-saved registers as the   *)
(* processor has them: what a function saves and what its virtual          *)
(* registers overwrite are the same memory.                                *)
(* A pointer to an object of another kind than expected is undefined in C: *)
(* the run ends there as a fault.  Coroutines that run a function, on a    *)
(* stack of their own, end it as "outside".  Of the runtime the functions  *)
(* of texts, files, the clock and conversions are left out.                *)
(***************************************************************************)
EXTENDS IR, Integers, Sequences, SequencesExt, FiniteSets, TLC

CONSTANTS
    Families    \* sets of assembled modules, records [fns, pool, ...]

VARIABLES
    program,    \* the module that runs
    pc,         \* [fn, at]: at = 0 is the prologue
    args,       \* rdi, rsi, rdx, rcx, r8, r9, as far as the call set them
    rax,        \* <<>>, or the value of a call that has just returned
    saved,      \* rbx, r12, r13, r14, r15
    fp,         \* rbp, an index of mem
    mem,        \* the stack, deepest word last
    heap,       \* allocated objects; the string pool comes first
    out,        \* what was printed
    exc,        \* the runtime's catch depth, triggered flag and exception
    status,     \* "running" or how the process ended
    frames      \* the registers and depth of each call under way, not in the code

vars == <<program, pc, args, rax, saved, fp, mem, heap, out, exc, status, frames>>
machine == <<saved, fp, mem>>
runtime == <<heap, out, exc, status>>

Base == 100000       \* the first heap address; the runtime takes 65536 as a bound
CodeBase == 90000    \* addresses of functions
Junk == 70000        \* a word nobody wrote
CatchMax == 64       \* jmp_buf vredrs_catch_jmp[64]
Lines == {0, 7}      \* what a line of the input says; 0 at its end

\* the functions of the runtime, by what they work on
ProcessFunctions == {"vredrs_print", "vredrs_print_str", "vredrs_input", "vredrs_flush", "vredrs_panic", "vredrs_assert_fail", "sys_exit"}
ContainerFunctions == {"vredrs_make_list", "vredrs_make_tuple", "vredrs_make_set", "vredrs_make_dict", "vredrs_len", "vredrs_index",
                       "vredrs_optional_index", "vredrs_make_range", "range", "sum", "vredrs_slice", "vredrs_in", "vredrs_list_append"}
ObjectFunctions == {"vredrs_new_typed_object", "vredrs_get_field", "vredrs_optional_member", "vredrs_set_field", "vredrs_method_call",
                    "vredrs_optional_method", "vredrs_load_global", "vredrs_make_captures", "vredrs_make_closure", "vredrs_get_capture"}
ExceptionFunctions == {"vredrs_throw", "vredrs_push_catch", "vredrs_pop_catch", "vredrs_check_throw", "vredrs_get_exception"}
ValueFunctions == {"vredrs_pipe", "vredrs_try_propagate", "vredrs_with_enter", "vredrs_with_exit", "vredrs_destructure", "vredrs_select",
                   "vredrs_not", "vredrs_is", "vredrs_repeated", "vredrs_pow_i64", "gcd_i64", "vredrs_to_str", "vredrs_str_concat_n"}
StringFunctions == {"str_eq", "str_ne", "str_concat", "str_repeat", "str_len"}
ListFunctions == {"list_sorted", "list_reversed", "list_unique", "list_take", "list_drop", "list_copy", "list_concat", "list_pop",
                  "list_first", "list_last", "list_max", "list_min", "list_contains_val", "list_index_of", "list_is_empty"}
\* channels, mutexes and coroutines
SharedFunctions == {"vredrs_make_channel", "vredrs_send", "vredrs_recv", "vredrs_close", "vredrs_make_mutex", "vredrs_lock",
                    "vredrs_unlock", "vredrs_spawn", "vredrs_spawn_thread", "vredrs_yield", "vredrs_await",
                    "vredrs_gen_create", "vredrs_coro", "vredrs_resume"}

(***************************************************************************)
(* emit_function: where the virtual registers of a function live           *)
(***************************************************************************)

Operands(i) ==
    CASE i.i \in {"mov", "box", "unbox", "not"} -> {i.d, i.s}
      [] i.i = "branch" -> {i.l, i.r}
      [] i.i \in {"bin", "cmp"} -> {i.d, i.l, i.r}
      [] i.i \in {"rt", "call"} -> Range(i.d) \cup Range(i.args)
      [] i.i = "calldyn" -> Range(i.d) \cup Range(i.args) \cup {i.callee}
      [] i.i = "store"   -> {i.addr, i.s}
      [] i.i = "ret"     -> Range(i.v)
      [] OTHER -> {}

NCallee == 5

\* parameters first, then the other virtual registers in order
AllocOrder(params, max) ==
    params \o SelectSeq([j \in 1..(max + 1) |-> j - 1], LAMBDA n : n \notin Range(params))

\* virtual register n of the frame: the word at rbp - 8 * (n + 1)
SlotOf(n) == n + 1

Place(order, max, n) ==
    LET j == CHOOSE k \in DOMAIN order : order[k] = n
    IN IF j <= NCallee THEN [k |-> "reg", j |-> j]
       ELSE IF n <= max THEN [k |-> "slot", j |-> SlotOf(n)]
       ELSE [k |-> "none", j |-> 0]

\* s itself: TLC evaluates its elements once and for all
Evaluated(s) == SubSeq(s, 1, Len(s))

Labels(code) == {j \in DOMAIN code : code[j].i = "label"}
Referenced(code) == {code[j].to : j \in {k \in DOMAIN code : code[k].i \in {"jump", "branch"}}}

\* a jump to the next instruction and a label that nothing names are dropped
Emitted(code) ==
    LET named == Referenced(code)
        Kept(j) == /\ ~(code[j].i = "jump" /\ j + 1 \in Labels(code) /\ code[j + 1].l = code[j].to)
                   /\ code[j].i = "label" => code[j].l \in named
        order == SelectSeq([j \in DOMAIN code |-> j], Kept)
    IN Evaluated([j \in DOMAIN order |-> code[order[j]]])

Even(n) == n + (n % 2)

Assembled(f) ==
    LET used == {o.n : o \in {p \in UNION {Operands(f.code[j]) : j \in DOMAIN f.code} : p.o = "reg"}}
        max == CHOOSE n \in used \cup {0} : \A r \in used : n >= r
        order == AllocOrder(f.params, max)
        code == Emitted(f.code)
    IN [name   |-> f.name,
        params |-> f.params,
        code   |-> code,
        place  |-> [n \in Range(order) |-> Place(order, max, n)],
        nsaved |-> IF Len(order) < NCallee THEN Len(order) ELSE NCallee,
        frame  |-> Even((IF max > Len(f.params) THEN max ELSE Len(f.params)) + 1),
        target |-> [l \in {code[j].l : j \in Labels(code)} |->
                      CHOOSE k \in Labels(code) : code[k].l = l]]

Strings(code) == {o.s : o \in {p \in UNION {Operands(code[j]) : j \in DOMAIN code} : p.o = "str"}}

\* what the assembler and the linker need: labels, functions, runtime functions
StubFunctions == ProcessFunctions \cup ContainerFunctions \cup ObjectFunctions \cup ExceptionFunctions \cup ValueFunctions
                 \cup Range(CmpStub) \cup StringFunctions \cup ListFunctions \cup SharedFunctions

Callees(i) == IF i.i = "call" THEN {i.fn} ELSE IF i.i = "rt" THEN {o.f : o \in {p \in Range(i.args) : p.o = "sym"}} ELSE {}

Linked(fns) ==
    /\ \E j \in DOMAIN fns : fns[j].name = <<"main">>
    /\ \A j \in DOMAIN fns :
         LET code == fns[j].code
         IN /\ Referenced(code) \subseteq {code[k].l : k \in Labels(code)}
            /\ UNION {Callees(code[k]) : k \in DOMAIN code} \subseteq {fns[k].name : k \in DOMAIN fns}
            /\ \A k \in DOMAIN code : code[k].i = "rt" => code[k].f \in StubFunctions

(***************************************************************************)
(* Reading and writing operands                                            *)
(***************************************************************************)

Fun == program.fns[pc.fn]
Insn == Fun.code[pc.at]
FnIndex(f) == CHOOSE j \in DOMAIN program.fns : program.fns[j].name = f
IndexIn(s, x) == CHOOSE j \in DOMAIN s : s[j] = x
StrAt(s) == Base + IndexIn(program.pool, s)

Word(o) ==
    CASE o.o = "imm" -> o.n
      [] o.o = "str" -> StrAt(o.s)
      [] o.o = "sym" -> CodeBase + FnIndex(o.f)
      [] o.o = "reg" -> LET p == Fun.place[o.n]
                        IN CASE p.k = "reg"  -> saved[p.j]
                             [] p.k = "slot" -> mem[fp + p.j]
                             [] p.k = "none" -> 0
Words(os) == [j \in DOMAIN os |-> Word(os[j])]

\* the register file and the stack after virtual register n has taken w
Written(f, base, st, n, w) ==
    LET p == f.place[n]
    IN CASE p.k = "reg"  -> [st EXCEPT !.saved[p.j] = w]
         [] p.k = "slot" -> [st EXCEPT !.mem[base + p.j] = w]
         [] p.k = "none" -> st

SetReg(d, w) ==
    LET st == IF d = <<>> THEN [saved |-> saved, mem |-> mem]
              ELSE Written(Fun, fp, [saved |-> saved, mem |-> mem], d[1].n, w)
    IN saved' = st.saved /\ mem' = st.mem

Goto(n) == pc' = [pc EXCEPT !.at = n]
Next1 == Goto(pc.at + 1)

(***************************************************************************)
(* The runtime stub: the outcomes of a call, as [v, heap, out, exc, status]*)
(***************************************************************************)

Gives(w) == [v |-> w, heap |-> heap, out |-> out, exc |-> exc, status |-> "running"]
Allocates(obj) == [Gives(Base + Len(heap) + 1) EXCEPT !.heap = Append(@, obj)]
Ends(how) == [Gives(0) EXCEPT !.status = how]
\* a function of C without a value leaves what it left in rax
Void == Gives(Junk)
Prints(item) == [Void EXCEPT !.out = Append(@, item)]
Raw(b) == IF b THEN 1 ELSE 0

\* a word used as a pointer: null, an object of the kind, or a bad address
Points(w, k) == w - Base \in DOMAIN heap /\ heap[w - Base].k = k
Obj(w) == heap[w - Base]
On(w, k, r) == IF w = 0 THEN {Gives(0)} ELSE IF Points(w, k) THEN r ELSE {Ends("fault")}

List(xs) == [k |-> "list", xs |-> xs, cap |-> Len(xs)]
Str(s) == [k |-> "str", s |-> s]
\* [mutant] a place too few
DictTight(n) == [k |-> "dict", cap |-> 2 * n + 3, f |-> <<>>]

Dict(n) == [k |-> "dict", cap |-> 2 * n + 4, f |-> <<>>]

Repeated(s, n) == FoldLeft(LAMBDA t, j : t \o s, "", [j \in 1..n |-> j])
Content(w) == IF w = 0 THEN "" ELSE Obj(w).s
IsStr(w) == w = 0 \/ Points(w, "str")
Total(xs) == FoldLeft(+, 0, xs)
Distinct(xs) == FoldLeft(LAMBDA acc, x : IF x \in Range(acc) THEN acc ELSE Append(acc, x), <<>>, xs)

\* linear probing: a missing key ends the probe at a free place, and there is
\* none in a full table
Full(d) == Cardinality(DOMAIN d.f) = d.cap
KeyAt(o, x) ==
    On(o, "dict", IF x \in DOMAIN Obj(o).f THEN {Gives(Obj(o).f[x])}
                  ELSE IF Full(Obj(o)) THEN {Ends("hang")} ELSE {Gives(0)})
GetField(o, w) ==
    IF o = 0 \/ w = 0 THEN {Gives(0)} ELSE IF IsStr(w) THEN KeyAt(o, Content(w)) ELSE {Ends("fault")}
SetField(o, w, v) ==
    IF o = 0 \/ w = 0 THEN {Void}
    ELSE IF ~IsStr(w) THEN {Ends("fault")}
    ELSE On(o, "dict", IF Content(w) \notin DOMAIN Obj(o).f /\ Full(Obj(o)) THEN {Ends("hang")}
                       ELSE {[Void EXCEPT !.heap[o - Base].f = Put(@, Content(w), v)]})

\* a full list is reallocated: in place, or elsewhere and the old block is freed
ListAppend(l, v) ==
    On(l, "list",
       LET o == Obj(l)
           grown == [o EXCEPT !.xs = Append(@, v), !.cap = IF Len(o.xs) < @ THEN @ ELSE 2 * @ + 4]
       IN {[Gives(l) EXCEPT !.heap[l - Base] = grown]} \cup
          (IF Len(o.xs) < o.cap THEN {}
           ELSE {[Allocates(grown) EXCEPT !.heap[l - Base] = [k |-> "freed"]]}))

\* an index above 65536 is taken for the address of a key
ListIndex(l, j) ==
    IF l # 0 /\ j > 65536 THEN GetField(l, j)
    ELSE On(l, "list", {Gives(IF j \in 0..(Len(Obj(l).xs) - 1) THEN Obj(l).xs[j + 1] ELSE 0)})

\* a null key is left out
MakeDict(n, kvs) ==
    IF \E j \in 1..n : kvs[2 * j - 1] = 0 \/ ~IsStr(kvs[2 * j - 1]) THEN {Ends("fault")}
    ELSE {Allocates([Dict(n) EXCEPT !.f =
        FoldLeft(LAMBDA f, j : Put(f, Content(kvs[2 * j - 1]), kvs[2 * j]), @, [j \in 1..n |-> j])])}

\* the method's table is empty: the class is looked up and nothing called
CallMethod(o) == {IF r.status = "hang" THEN r ELSE Gives(0) : r \in KeyAt(o, "__class__")}

\* the length is the first word of lists and of dictionaries
Length(w) == IF Points(w, "dict") THEN {Gives(Cardinality(DOMAIN Obj(w).f))} ELSE On(w, "list", {Gives(Len(Obj(w).xs))})

Slice(l, from, to) ==
    On(l, "list",
       LET n == Len(Obj(l).xs)
           e == IF to < 0 \/ to > n THEN n ELSE to
           s == IF from < 0 THEN 0 ELSE IF from > e THEN e ELSE from
       IN {Allocates(List(SubSeq(Obj(l).xs, s + 1, e)))})

MakeRange(from, to, incl) ==
    LET n == to - from + (IF incl # 0 THEN 1 ELSE 0)
    IN {Allocates(List([j \in 1..(IF n < 0 THEN 0 ELSE n) |-> from + j - 1]))}

StrCall(f, a) ==
    IF ~IsStr(a[1]) \/ (f # "str_repeat" /\ f # "str_len" /\ ~IsStr(a[2])) THEN {Ends("fault")}
    ELSE {CASE f = "str_eq"     -> Gives(Raw(Content(a[1]) = Content(a[2]) /\ (a[1] = 0) = (a[2] = 0)))
            [] f = "str_ne"     -> Gives(Raw(Content(a[1]) # Content(a[2]) \/ (a[1] = 0) # (a[2] = 0)))
            [] f = "str_concat" -> IF a[1] = 0 /\ a[2] = 0 THEN Gives(0) ELSE Allocates(Str(Content(a[1]) \o Content(a[2])))
            [] f = "str_repeat" -> Allocates(Str(Repeated(Content(a[1]), a[2])))
            [] f = "str_len"    -> Gives(Len(Content(a[1])))}

\* a word above 65536 is taken for a string
ToStr(w) == IF w <= 65536 THEN {Allocates(Str(ToString(w)))} ELSE IF IsStr(w) THEN {Gives(w)} ELSE {Ends("fault")}
Joined(ws) == IF \A j \in DOMAIN ws : IsStr(ws[j])
              THEN {Allocates(Str(FoldLeft(LAMBDA s, w : s \o Content(w), "", ws)))} ELSE {Ends("fault")}

\* functions of a list: those that answer a word, and those that make a list
ListAnswer(f, xs, w) ==
    CASE f = "list_first" -> IF xs = <<>> THEN 0 ELSE Head(xs)
      [] f = "list_last"  -> IF xs = <<>> THEN 0 ELSE Last(xs)
      [] f = "list_max"   -> FoldLeft(LAMBDA a, x : IF x > a THEN x ELSE a, IF xs = <<>> THEN 0 ELSE Head(xs), xs)
      [] f = "list_min"   -> FoldLeft(LAMBDA a, x : IF x < a THEN x ELSE a, IF xs = <<>> THEN 0 ELSE Head(xs), xs)
      [] f = "list_contains_val" -> Raw(w \in Range(xs))
      [] f = "list_index_of" -> IF w \in Range(xs) THEN IndexIn(xs, w) - 1 ELSE -1
      [] f = "list_is_empty" -> Raw(xs = <<>>)
NewList(f, xs, w) ==
    CASE f = "list_sorted"   -> SortSeq(xs, <)
      [] f = "list_reversed" -> Reverse(xs)
      [] f = "list_unique"   -> Distinct(xs)
      [] f = "list_copy"     -> xs
      [] f = "list_take"     -> SubSeq(xs, 1, IF w < 0 THEN 0 ELSE IF w > Len(xs) THEN Len(xs) ELSE w)
      [] f = "list_drop"     -> SubSeq(xs, w + 1, Len(xs))
ListCall(f, a) ==
    LET w == IF Len(a) > 1 THEN a[2] ELSE 0
    IN IF a[1] = 0
       THEN CASE f = "list_index_of" -> {Gives(-1)}
              [] f = "list_is_empty" -> {Gives(1)}
              [] f = "list_take"     -> {Allocates(List(<<>>))}
              [] f = "list_concat"   -> {Gives(w)}
              [] OTHER               -> {Gives(0)}
       ELSE CASE f = "list_concat" ->
                   IF w = 0 THEN {Gives(a[1])}
                   ELSE IF Points(a[1], "list") /\ Points(w, "list") THEN {Allocates(List(Obj(a[1]).xs \o Obj(w).xs))}
                   ELSE {Ends("fault")}
              [] f = "list_pop" ->
                   On(a[1], "list", IF Obj(a[1]).xs = <<>> THEN {Gives(0)}
                                    ELSE {[Gives(Last(Obj(a[1]).xs)) EXCEPT !.heap[a[1] - Base].xs = Front(@)]})
              [] f = "list_drop" /\ w < 0 -> {Gives(0)}
              [] f \in {"list_sorted", "list_reversed", "list_unique", "list_copy", "list_take", "list_drop"} ->
                   On(a[1], "list", {Allocates(List(NewList(f, Obj(a[1]).xs, w)))})
              [] OTHER -> On(a[1], "list", {Gives(ListAnswer(f, Obj(a[1]).xs, w))})

\* a coroutine that has not run: with no function it is done at once
ResumeGen(h) ==
    On(h, "gen", IF Obj(h).done THEN {Gives(0)}
                 ELSE IF Obj(h).fn = 0 THEN {[Gives(0) EXCEPT !.heap[h - Base].done = TRUE]}
                 ELSE {Ends(IF Obj(h).fn - CodeBase \in DOMAIN program.fns THEN "outside" ELSE "fault")})

\* channels that drop what does not fit, coroutines, and a mutex that spins: a
\* loop without an effect, which a C compiler may take to end
SharedCall(f, a) ==
    CASE f = "vredrs_make_channel" -> {Allocates([k |-> "chan", cap |-> IF a[1] < 0 THEN 1 ELSE a[1], xs |-> <<>>, closed |-> FALSE])}
      [] f = "vredrs_send" -> On(a[1], "chan", LET ch == Obj(a[1])
                                               IN IF ch.closed \/ Len(ch.xs) >= ch.cap THEN {Gives(0)}
                                                  ELSE {[Gives(1) EXCEPT !.heap[a[1] - Base].xs = Append(@, a[2])]})
      [] f = "vredrs_recv" -> On(a[1], "chan", IF Obj(a[1]).xs = <<>> THEN {Gives(0)}
                                               ELSE {[Gives(Head(Obj(a[1]).xs)) EXCEPT !.heap[a[1] - Base].xs = Tail(@)]})
      [] f = "vredrs_close" -> On(a[1], "chan", {[Void EXCEPT !.heap[a[1] - Base].closed = TRUE]})
      [] f = "vredrs_make_mutex" -> {Allocates([k |-> "mutex", locked |-> FALSE])}
      [] f = "vredrs_lock" -> On(a[1], "mutex", {[Void EXCEPT !.heap[a[1] - Base].locked = TRUE]}
                                                \cup IF Obj(a[1]).locked THEN {Ends("hang")} ELSE {})
      [] f = "vredrs_unlock" -> On(a[1], "mutex", {[Void EXCEPT !.heap[a[1] - Base].locked = FALSE]})
      [] f \in {"vredrs_spawn", "vredrs_spawn_thread", "vredrs_gen_create", "vredrs_coro"} ->
           {Allocates([k |-> "gen", fn |-> a[1], done |-> FALSE])}
      [] f = "vredrs_yield" -> {Gives(a[1])}
      [] f \in {"vredrs_await", "vredrs_resume"} -> ResumeGen(a[1])

Gcd(x, y) == LET g[p \in Nat \X Nat] == IF p[2] = 0 THEN p[1] ELSE g[<<p[2], p[1] % p[2]>>] IN g[<<x, y>>]
Magnitude(w) == IF w < 0 THEN -w ELSE w

\* a throw only raises the flag; what follows it in the try body runs
Throw(v) ==
    IF exc.depth > 0 THEN [Void EXCEPT !.exc.flag = TRUE, !.exc.val = v]
    ELSE [Ends("uncaught") EXCEPT !.exc.val = v]
PushCatch == IF exc.depth < CatchMax THEN [Void EXCEPT !.exc.depth = @ + 1, !.exc.flag = FALSE] ELSE Void
PopCatch == IF exc.depth > 0 THEN [Void EXCEPT !.exc.depth = @ - 1] ELSE Void
\* [mutant] the flag stays up after it was read
CheckThrowKeeps == Gives(Raw(exc.flag))

CheckThrow == [Gives(Raw(exc.flag)) EXCEPT !.exc.flag = FALSE]

\* a prompt is written; without one its register holds anything, and what it
\* points to is read, if it can be
Input(a) ==
    LET Read(s) == {[Gives(w) EXCEPT !.out = IF s = "" THEN @ ELSE Append(@, [s |-> s])] : w \in Lines}
    IN IF a = <<>> THEN Read("") \cup Read("junk") \cup {Ends("fault")}
       ELSE IF IsStr(a[1]) THEN Read(Content(a[1])) ELSE {Ends("fault")}

\* so for the message of an assertion
AssertFail(a) == {Ends("panic")} \cup IF a # <<>> /\ IsStr(a[1]) THEN {} ELSE {Ends("fault")}

\* the elements of a variadic constructor follow their number
Rest(a) == SubSeq(a, 2, a[1] + 1)

ProcessCall(f, a) ==
    CASE f = "vredrs_print"       -> {Prints([n |-> IF a = <<>> THEN Junk ELSE a[1]])}
      [] f = "vredrs_print_str"   -> IF IsStr(a[1]) THEN {Prints([s |-> Content(a[1])])} ELSE {Ends("fault")}
      [] f = "vredrs_input"       -> Input(a)
      [] f = "vredrs_flush"       -> {Void}
      [] f = "vredrs_panic"       -> {Ends("panic")}
      [] f = "vredrs_assert_fail" -> AssertFail(a)
      [] f = "sys_exit"           -> {Ends("done")}

ContainerCall(f, a) ==
    CASE f \in {"vredrs_make_list", "vredrs_make_tuple"} -> {Allocates(List(Rest(a)))}
      [] f = "vredrs_make_set"   -> {Allocates([List(Distinct(Rest(a))) EXCEPT !.cap = a[1]])}
      [] f = "vredrs_make_dict"  -> MakeDict(a[1], Tail(a))
      [] f = "vredrs_len"        -> Length(a[1])
      [] f \in {"vredrs_index", "vredrs_optional_index"} -> ListIndex(a[1], a[2])
      [] f = "vredrs_make_range" -> MakeRange(a[1], a[2], a[3])
      [] f = "range"             -> MakeRange(a[1], a[2], 0)
      [] f = "sum"               -> On(a[1], "list", {Gives(Total(Obj(a[1]).xs))})
      [] f = "vredrs_slice"      -> Slice(a[1], a[2], a[3])
      [] f = "vredrs_in"         -> On(a[2], "list", {Gives(Raw(a[1] \in Range(Obj(a[2]).xs)))})
      [] f = "vredrs_list_append" -> ListAppend(a[1], a[2])

ObjectCall(f, a) ==
    CASE f = "vredrs_new_typed_object" -> {Allocates([Dict(0) EXCEPT !.f = Put(@, "__class__", a[1])])}
      [] f \in {"vredrs_get_field", "vredrs_optional_member"} -> GetField(a[1], a[2])
      [] f = "vredrs_set_field"     -> SetField(a[1], a[2], a[3])
      [] f \in {"vredrs_method_call", "vredrs_optional_method"} -> CallMethod(a[1])
      [] f = "vredrs_load_global"   -> {Gives(0)}                       \* nothing stores one
      [] f = "vredrs_make_captures" -> {Allocates([k |-> "captures", xs |-> Rest(a)])}
      [] f = "vredrs_make_closure"  -> {Allocates([k |-> "closure", fn |-> a[1], caps |-> a[2]])}
      [] f = "vredrs_get_capture"   ->
           On(a[1], "captures", {Gives(IF a[2] < Len(Obj(a[1]).xs) THEN Obj(a[1]).xs[a[2] + 1] ELSE 0)})

ExceptionCall(f, a) ==
    CASE f = "vredrs_throw"         -> {Throw(a[1])}
      [] f = "vredrs_push_catch"    -> {PushCatch}
      [] f = "vredrs_pop_catch"     -> {PopCatch}
      [] f = "vredrs_check_throw"   -> {CheckThrow}
      [] f = "vredrs_get_exception" -> {Gives(exc.val)}

ValueCall(f, a) ==
    CASE f = "vredrs_pipe"      -> {Gives(a[2])}
      [] f \in {"vredrs_try_propagate", "vredrs_with_enter", "vredrs_destructure"} -> {Gives(a[1])}
      [] f \in {"vredrs_with_exit", "vredrs_select"} -> {Void}           \* select's answer is dropped
      [] f = "vredrs_not"       -> {Gives(Raw(a[1] = 0))}
      [] f = "vredrs_is"        -> {Gives(Raw(a[1] = a[2]))}
      [] f = "vredrs_repeated"  -> {Gives(a[1] * a[2])}
      [] f = "vredrs_pow_i64"   -> {Gives(IF a[2] < 0 THEN 1 ELSE a[1] ^ a[2])}
      [] f = "gcd_i64"          -> {Gives(Gcd(Magnitude(a[1]), Magnitude(a[2])))}
      [] f = "vredrs_to_str"    -> ToStr(a[1])
      [] f = "vredrs_str_concat_n" -> Joined(Rest(a))

Stub(f, a) ==
    CASE f \in ProcessFunctions   -> ProcessCall(f, a)
      [] f \in ContainerFunctions -> ContainerCall(f, a)
      [] f \in ObjectFunctions    -> ObjectCall(f, a)
      [] f \in ExceptionFunctions -> ExceptionCall(f, a)
      [] f \in ValueFunctions     -> ValueCall(f, a)
      [] f \in StringFunctions    -> StrCall(f, a)
      [] f \in ListFunctions      -> ListCall(f, a)
      [] f \in SharedFunctions    -> SharedCall(f, a)
      [] f \in Range(CmpStub)     -> {Gives(Raw(Compare(CHOOSE c \in Conds : CmpStub[c] = f, a[1], a[2])))}

(***************************************************************************)
(* Instructions                                                            *)
(***************************************************************************)

At(i) == status = "running" /\ pc.at > 0 /\ rax = <<>> /\ Insn.i = i

\* mov, box and unbox: the payload is the value; booleans become 0 or 1
Move ==
    /\ \E i \in {"mov", "box", "unbox"} : At(i)
    /\ LET w == Word(Insn.s)
       IN SetReg(<<Insn.d>>, IF Insn.i # "mov" /\ Insn.ty = "bool" THEN Raw(w # 0) ELSE w)
    /\ Next1
    /\ UNCHANGED <<program, args, rax, fp, frames, runtime>>

\* idiv traps on zero; the runtime's division gives zero
Arithmetic ==
    /\ At("bin")
    /\ LET l == Word(Insn.l)
           r == Word(Insn.r)
           zero == Insn.op \in {"Div", "Mod"} /\ r = 0
       IN /\ status' = IF zero /\ ~Insn.dyn THEN "fault" ELSE "running"
          /\ SetReg(<<Insn.d>>, IF zero THEN 0 ELSE Arith(Insn.op, l, r))
    /\ Next1
    /\ UNCHANGED <<program, args, rax, fp, frames, heap, out, exc>>

Comparison ==
    /\ At("cmp")
    /\ SetReg(<<Insn.d>>, Raw(Compare(Insn.cond, Word(Insn.l), Word(Insn.r))))
    /\ Next1
    /\ UNCHANGED <<program, args, rax, fp, frames, runtime>>

\* xor with 1, whatever the word
Not ==
    /\ At("not")
    /\ LET w == Word(Insn.s) IN SetReg(<<Insn.d>>, w + 1 - 2 * (w % 2))
    /\ Next1
    /\ UNCHANGED <<program, args, rax, fp, frames, runtime>>

Control ==
    /\ \E i \in {"label", "jump", "branch"} : At(i)
    /\ IF Insn.i = "label" \/ (Insn.i = "branch" /\ ~Compare(Insn.cond, Word(Insn.l), Word(Insn.r)))
       THEN Next1 ELSE Goto(Fun.target[Insn.to])
    /\ UNCHANGED <<program, args, rax, frames, machine, runtime>>

\* an element is stored over the first word of the container, its length
StoreElement ==
    /\ At("store")
    /\ LET a == Word(Insn.addr)
           n == Word(Insn.s)
       IN IF Points(a, "list") /\ n \in 0..Len(Obj(a).xs)
          THEN heap' = [heap EXCEPT ![a - Base].xs = SubSeq(@, 1, n)] /\ UNCHANGED status
          ELSE status' = "fault" /\ UNCHANGED heap
    /\ Next1
    /\ UNCHANGED <<program, args, rax, frames, machine, out, exc>>

RuntimeCall ==
    /\ At("rt")
    /\ \E r \in Stub(Insn.f, Words(Insn.args)) :
         /\ SetReg(Insn.d, r.v)
         /\ heap' = r.heap /\ out' = r.out /\ exc' = r.exc /\ status' = r.status
    /\ Next1
    /\ UNCHANGED <<program, args, rax, fp, frames>>

\* emit_call: arguments after the sixth are pushed, above a word of padding
\* when their number is odd
StackArgs(n) == IF n > 6 THEN n - 6 ELSE 0
\* [mutant] no padding
PadNot(n) == 0

Pad(n) == StackArgs(n) % 2
Pushed(n) == Pad(n) + StackArgs(n)

\* the words that a call pushes
PushedFor(i) == IF i.i \in {"rt", "call"} THEN Pushed(Len(i.args)) ELSE 0

Firsts(ws, n) == SubSeq(ws, 1, IF Len(ws) < n THEN Len(ws) ELSE n)

\* control goes to the prologue of function f; `over` words lie on the stack
Enter(f, ws, over) ==
    /\ args' = ws
    /\ pc' = [fn |-> f, at |-> 0]
    /\ mem' = mem \o [j \in 1..over |-> Junk] \o <<[back |-> pc]>>
    /\ frames' = Append(frames, [saved |-> saved, fp |-> fp, depth |-> Len(mem) + over])

CallFunction ==
    /\ At("call")
    /\ Enter(FnIndex(Insn.fn), Firsts(Words(Insn.args), 6), Pushed(Len(Insn.args)))
    /\ UNCHANGED <<program, rax, saved, fp, runtime>>

\* vredrs_call_closure: the captures and up to five arguments
CallClosure ==
    /\ At("calldyn")
    /\ LET c == Word(Insn.callee)
       IN IF Points(c, "closure") /\ Obj(c).fn - CodeBase \in DOMAIN program.fns
          THEN /\ Enter(Obj(c).fn - CodeBase, <<Obj(c).caps>> \o Firsts(Words(Insn.args), 5), 0)
               /\ UNCHANGED <<saved, status>>
          ELSE /\ status' = IF c = 0 THEN "running" ELSE "fault"
               /\ SetReg(Insn.d, 0)
               /\ Next1
               /\ UNCHANGED <<args, frames>>
    /\ UNCHANGED <<program, rax, fp, heap, out, exc>>

\* the parameters that arrive in a register and live in the given place
Arriving(k, j) == {m \in DOMAIN Fun.params : m <= 6 /\ Fun.place[Fun.params[m]] = [k |-> k, j |-> j]}
Stored(k, j, else) ==
    IF Arriving(k, j) = {} THEN else
    ELSE LET m == CHOOSE x \in Arriving(k, j) : \A y \in Arriving(k, j) : x >= y
         IN IF m \in DOMAIN args THEN args[m] ELSE Junk

\* push rbp; mov rbp, rsp; push the registers to be used; pad; the frame; then
\* the arguments go to the places of the parameters
Prologue ==
    /\ status = "running" /\ pc.at = 0
    /\ LET base == Len(mem) + 1
           pushed == Append(mem, fp) \o SubSeq(saved, 1, Fun.nsaved)
                       \o [j \in 1..((Fun.nsaved % 2) + Fun.frame) |-> Junk]
       IN /\ fp' = base
          /\ saved' = [j \in 1..NCallee |-> Stored("reg", j, saved[j])]
          /\ mem' = [j \in 1..Len(pushed) |-> Stored("slot", j - base, pushed[j])]
    /\ Goto(1) /\ args' = <<>>
    /\ UNCHANGED <<program, rax, frames, runtime>>

\* the stack after the registers and the frame are popped: [base is the word
\* that held rbp]
FrameBase == Len(mem) - Fun.frame - (Fun.nsaved % 2) - Fun.nsaved

\* [mutant] the registers are popped in the order in which they were pushed
PoppedInOrder(j) == mem[FrameBase + Fun.nsaved + 1 - j]

\* what the epilogue pops into the j-th of the saved registers
Popped(j) == mem[FrameBase + j]

Return ==
    /\ At("ret")
    /\ LET w == IF Insn.v = <<>> THEN 0 ELSE Word(Insn.v[1])
           to == mem[FrameBase - 1].back
       IN /\ saved' = [j \in 1..NCallee |-> IF j <= Fun.nsaved THEN Popped(j) ELSE saved[j]]
          /\ fp' = mem[FrameBase]
          /\ mem' = SubSeq(mem, 1, FrameBase - 2)
          /\ pc' = to
          /\ rax' = <<w>>
          /\ frames' = Front(frames)
          /\ status' = IF to.fn = 0 THEN "done" ELSE "running"
    /\ UNCHANGED <<program, args, heap, out, exc>>

\* the caller drops the pushed arguments and stores the result
Resume ==
    /\ status = "running" /\ rax # <<>>
    /\ LET popped == SubSeq(mem, 1, Len(mem) - PushedFor(Insn))
           st == IF Insn.d = <<>> THEN [saved |-> saved, mem |-> popped]
                 ELSE Written(Fun, fp, [saved |-> saved, mem |-> popped], Insn.d[1].n, rax[1])
       IN saved' = st.saved /\ mem' = st.mem
    /\ rax' = <<>>
    /\ Next1
    /\ UNCHANGED <<program, args, fp, frames, runtime>>

(***************************************************************************)
(* The specification                                                       *)
(***************************************************************************)

\* crt1 calls main: its return address is the only word, below an aligned stack
Init ==
    /\ \E family \in Families : program \in family
    /\ pc = [fn |-> IF Linked(program.fns) THEN FnIndex(<<"main">>) ELSE 0, at |-> 0]
    /\ args = <<>> /\ rax = <<>>
    /\ saved = [j \in 1..NCallee |-> Junk + j]
    /\ fp = Junk
    /\ mem = <<[back |-> [fn |-> 0, at |-> 0]]>>
    /\ heap = [j \in DOMAIN program.pool |-> Str(program.pool[j])]
    /\ out = <<>>
    /\ exc = [depth |-> 0, flag |-> FALSE, val |-> 0]
    /\ status = IF Linked(program.fns) THEN "running" ELSE "unlinked"
    /\ frames = <<[saved |-> saved, fp |-> fp, depth |-> 0]>>

Next ==
    \/ Prologue \/ Move \/ Arithmetic \/ Comparison \/ Not \/ Control \/ StoreElement
    \/ RuntimeCall \/ CallFunction \/ CallClosure \/ Return \/ Resume

Spec == Init /\ [][Next]_vars
FairSpec == Spec /\ WF_vars(Next)

(***************************************************************************)
(* What emit_function lays out, as the properties below need it            *)
(***************************************************************************)

\* the virtual register an instruction writes
Target(i) == IF i.i \in {"mov", "box", "unbox", "not", "bin", "cmp"} THEN {i.d.n}
             ELSE IF i.i \in {"rt", "call", "calldyn"} /\ i.d # <<>> THEN {i.d[1].n} ELSE {}

\* Control stays in the code of a function: a jump finds its label, and the last
\* instruction is a jump or a return.
Contained(f) ==
    /\ 1 \in DOMAIN f.code /\ DOMAIN f.code \subseteq Nat \ {0}
    /\ \A k \in DOMAIN f.code :
         LET i == f.code[k]
         IN /\ i.i \notin {"jump", "ret"} => k + 1 \in DOMAIN f.code
            /\ i.i \in {"jump", "branch"} => f.target[i.to] \in DOMAIN f.code
            /\ i.i \in {"rt", "call"} => Len(i.args) \in Nat

\* Every virtual register has a place, in a register that the prologue saves or
\* in a word between rbp and the end of the frame.
Placed(f) ==
    /\ f.nsaved \in 0..NCallee
    /\ f.frame \in Nat /\ f.frame % 2 = 0
    /\ \A k \in DOMAIN f.code : Target(f.code[k]) \subseteq DOMAIN f.place
    /\ \A m \in DOMAIN f.params : f.params[m] \in DOMAIN f.place
    /\ \A n \in DOMAIN f.place :
         \/ \E j \in 1..f.nsaved : f.place[n] = [k |-> "reg", j |-> j]
         \/ \E j \in 1..f.frame : f.place[n] = [k |-> "slot", j |-> j]
         \/ f.place[n] = [k |-> "none", j |-> 0]

\* No virtual register has its slot among the words of the saved registers.
Apart(f) == \A n \in DOMAIN f.place : \A j \in 1..f.nsaved : f.place[n] # [k |-> "slot", j |-> j]

LaidOut(fns) == 0 \notin DOMAIN fns /\ \A j \in DOMAIN fns : Contained(fns[j]) /\ Placed(fns[j])

AllLaidOut == \A family \in Families : \A p \in family : Linked(p.fns) => LaidOut(p.fns)
AllApart == \A family \in Families : \A p \in family : \A j \in DOMAIN p.fns : Apart(p.fns[j])

(***************************************************************************)
(* Properties                                                              *)
(***************************************************************************)

\* A function gives back to its caller the registers it found (rbx, r12 to r15,
\* rbp) and the depth of the stack: the caller keeps its own virtual registers
\* there across the call.
RegistersKept ==
    [][Len(frames') < Len(frames) =>
         saved' = Last(frames).saved /\ fp' = Last(frames).fp /\ Len(mem') = Last(frames).depth]_vars

\* instructions that call a function of C or of the program: boxing and
\* dynamic arithmetic go through the runtime
IsCall(i) == \/ i.i \in {"rt", "call", "calldyn"}
             \/ i.i \in {"box", "unbox"} /\ i.ty \in {"i64", "bool"}
             \/ i.i = "bin" /\ i.dyn /\ i.op \in {"Add", "Sub", "Mul", "Div", "Mod"}

\* The stack is aligned to 16 bytes at every call, as the C functions of the
\* runtime require: prologue, frame, padding and pushed arguments add up.
StackAligned ==
    status = "running" /\ pc.at > 0 /\ rax = <<>> /\ IsCall(Insn) => (Len(mem) + PushedFor(Insn)) % 2 = 0

\* A balanced program that ends has popped every catch frame it pushed, and no
\* exception is pending: the depth decides whether a later throw is reported.
CatchBalanced ==
    program.balanced /\ status = "done" => exc.depth = 0 /\ ~exc.flag
=============================================================================
