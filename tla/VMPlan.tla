------------------------------- MODULE VMPlan -------------------------------
(***************************************************************************)
(* Why the interpreter finds its operands: a plan says what the            *)
(* instructions that control may reach find - at least how many values of  *)
(* their own frame (height), the catches of the try statements around them *)
(* (tries), whether they belong to a deferred block (block), may run while *)
(* one runs (busy), and may have one to run (defers).  A module has a plan *)
(* unless a jump or a return leaves a try with its handler installed, or a *)
(* deferred block comes back into the function it belongs to.              *)
(***************************************************************************)
EXTENDS VM

Start == [height |-> 0, tries |-> <<>>, block |-> FALSE, busy |-> FALSE, defers |-> FALSE]
Raised(x, n) == [x EXCEPT !.height = @ + n]

\* where control goes from the instruction at p, and what it finds there
Flow(m, p, x) ==
    LET i == m.code[p + 1]
        Call(n) == {<<p + 1, Raised(x, n)>>, <<m.fn_entry_pcs[i.a], [Start EXCEPT !.busy = x.busy]>>}
    IN CASE i.op \in {"Const", "LoadSelf", "Dup"} -> {<<p + 1, Raised(x, 1)>>}
         [] i.op \in {"CallBuiltin", "Iter"} -> {<<p + 1, x>>}
         [] i.op \in {"Eq", "Mul", "Pop", "Store", "Print"} -> {<<p + 1, Raised(x, -1)>>}
         [] i.op = "Jump" -> {<<i.a, x>>}
         [] i.op = "JumpIfFalse" -> {<<p + 1, Raised(x, -1)>>, <<i.a, Raised(x, -1)>>}
         [] i.op = "IterNext" -> {<<p + 1, Raised(x, 1)>>, <<i.a, Raised(x, -1)>>}
         [] i.op = "PushHandler" -> {<<p + 1, [x EXCEPT !.tries = Append(@, i.a)]>>}
         [] i.op = "PopHandler" -> {<<p + 1, [x EXCEPT !.tries = SubSeq(@, 1, Len(@) - 1)]>>}
         [] i.op = "DeferPush" -> {<<p + 1, [x EXCEPT !.defers = TRUE]>>,
                                   <<i.a, [Start EXCEPT !.height = 1, !.block = TRUE, !.busy = TRUE]>>}
         [] i.op = "CallByName" -> Call(1)
         [] i.op = "CallMethod" -> Call(0)
         [] OTHER -> {}

\* and if it, or the call it makes, throws
Thrown(op, x) ==
    {<<x.tries[k], [x EXCEPT !.height = @ - Operands(op) + 1, !.tries = SubSeq(@, 1, k - 1)]>> :
        k \in DOMAIN x.tries}

\* what the plan has at a pc is no more than what is found there
Allows(plan, pc_, x) ==
    /\ pc_ \in DOMAIN plan
    /\ plan[pc_].height <= x.height
    /\ plan[pc_].tries = x.tries /\ plan[pc_].block = x.block
    /\ x.busy => plan[pc_].busy
    /\ x.defers => plan[pc_].defers

\* a deferred block may end here
EndsBlock(x) == x.block /\ x.height >= 1 /\ x.tries = <<>>

Fits(m, plan) ==
    /\ Allows(plan, 0, Start)
    /\ \A p \in DOMAIN plan :
          LET x == plan[p]
              op == m.code[p + 1].op IN
          /\ p \in 0..(Len(m.code) - 1)
          /\ x \in [height : Nat, tries : Seq(DOMAIN plan), block : BOOLEAN, busy : BOOLEAN, defers : BOOLEAN]
          /\ x.block => x.busy
          /\ x.height >= Operands(op)
          /\ \A e \in Flow(m, p, x) \cup Thrown(op, x) : Allows(plan, e[1], e[2])
          /\ op = "PopHandler" => x.tries # <<>>
          /\ op = "Return" => /\ x.tries = <<>>
                              /\ (x.defers /\ p + 1 \in DOMAIN plan /\ plan[p + 1].busy) => EndsBlock(plan[p + 1])
          /\ op \in {"Return", "DeferPush"} => ~x.block
          /\ op = "Halt" => ~x.busy
          /\ op = "Nop" => EndsBlock(x)

(***************************************************************************)
(* What a plan says of the frames, the handlers and the deferred blocks of *)
(* a state.                                                                *)
(***************************************************************************)

Calls == {"CallByName", "CallMethod"}
BlockStart == [Start EXCEPT !.height = 1, !.block = TRUE, !.busy = TRUE]
OpAt(m, p) == m.code[p + 1].op
Entry(m, p) == m.fn_entry_pcs[m.code[p + 1].a]

\* the instruction each frame is at: the call it waits for, or the next one
Sites(fr, p) == [j \in 1..Len(fr) |-> IF j = Len(fr) THEN p ELSE fr[j + 1].return_pc - 1]

\* the deferred blocks a frame has still to run
Pending(pl, f, s) ==
    /\ \A i \in DOMAIN f.defer_pcs : pl[s].defers /\ Allows(pl, f.defer_pcs[i], BlockStart)
    /\ pl[s].block => f.defer_pcs = <<>>

\* the frames hold what the plan has at their sites
FramesFit(m, pl, fr, st, len) ==
    /\ \A j \in 1..Len(fr) : st[j] \in DOMAIN pl /\ Pending(pl, fr[j], st[j])
    /\ len - fr[Len(fr)].stack_base >= pl[st[Len(fr)]].height
    /\ \A j \in 1..(Len(fr) - 1) :
          /\ OpAt(m, st[j]) \in Calls
          /\ fr[j + 1].stack_base - fr[j].stack_base >= pl[st[j]].height - Operands(OpAt(m, st[j]))
    /\ \A i, j \in 1..Len(fr) : i <= j => fr[i].stack_base <= fr[j].stack_base

\* the catches around each site
TriesAt(pl, st, n) == [j \in 1..n |-> pl[st[j]].tries]

\* the handlers are those of the try statements around the sites, outermost
\* frame first: those of frame j are hs[off[j] + 1] .. hs[off[j + 1]]
Offsets(tr, n, hs, off) ==
    /\ off \in [1..(n + 1) -> Nat] /\ off[1] = 0 /\ off[n + 1] = Len(hs)
    /\ \A j \in 1..n : off[j + 1] = off[j] + Len(tr[j])
    /\ \A i, j \in 1..(n + 1) : i <= j => off[i] <= off[j]
    /\ \A i \in 1..Len(hs) :
          LET d == hs[i].depth IN
          /\ d \in 1..n
          /\ off[d] < i /\ i <= off[d + 1]
          /\ hs[i].catch_pc = tr[d][i - off[d]]
HandlersFit(tr, n, hs) == \E off : Offsets(tr, n, hs, off)

\* while deferred blocks run, one frame is in a block and those above it know
InBlocks(nat) == nat # <<>> /\ nat[1].kind = "defer"
OneBlock(pl, st, n) ==
    \E k \in 1..n : /\ pl[st[k]].block
                    /\ \A j \in 1..n : /\ j # k => ~pl[st[j]].block
                                       /\ j >= k => pl[st[j]].busy
NoBlock(pl, st, n) == \A j \in 1..n : ~pl[st[j]].block
LoopFits(pl, d) ==
    /\ (d.cont \in DOMAIN pl /\ pl[d.cont].busy) => EndsBlock(pl[d.cont])
    /\ \A i \in DOMAIN d.rest : Allows(pl, d.rest[i], BlockStart)
BlocksFit(pl, st, n, nat) ==
    IF InBlocks(nat) THEN OneBlock(pl, st, n) /\ LoopFits(pl, nat[1])
    ELSE NoBlock(pl, st, n)

Arranged(m, pl, fr, len, p, hs, nat) ==
    /\ FramesFit(m, pl, fr, Sites(fr, p), len)
    /\ HandlersFit(TriesAt(pl, Sites(fr, p), Len(fr)), Len(fr), hs)
    /\ BlocksFit(pl, Sites(fr, p), Len(fr), nat)

\* handlers of deeper frames lie above those of their callers
HandlersNest(fr, hs) ==
    \A i \in DOMAIN hs : /\ hs[i].depth <= Len(fr)
                         /\ i > 1 => hs[i - 1].depth <= hs[i].depth

(***************************************************************************)
(* The inductive invariant of an ordered module                            *)
(***************************************************************************)

ThePlan(m) == CHOOSE plan : Fits(m, plan)
\* what the mark on a module says
PlansExist == \A m \in Modules : m.ordered => \E plan : Fits(m, plan)

PlanInv ==
    module.ordered =>
        /\ HandlersNest(frames, handler_stack)
        /\ status = "running" =>
              Arranged(module, ThePlan(module), frames, Len(stack), pc, handler_stack, native)

=============================================================================
