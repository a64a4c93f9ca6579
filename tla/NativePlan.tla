----------------------------- MODULE NativePlan -----------------------------
(***************************************************************************)
(* Why a program pops the catch frames it pushes: a plan says how many     *)
(* each instruction that control may reach finds above those of its        *)
(* caller (depth), and whether the flag of a throw has been read since     *)
(* anything that may raise it (quiet).  A function has a plan unless a     *)
(* jump or a return leaves a try with its catch frame pushed, or a frame   *)
(* is popped before the flag is read.                                      *)
(***************************************************************************)
EXTENDS Native

Runtime(i, f) == i.i = "rt" /\ i.f = f
MayThrow(i) == i.i \in {"call", "calldyn"} \/ Runtime(i, "vredrs_throw")

Outermost == [depth |-> 0, quiet |-> FALSE]

\* what the instruction leaves of what it found
Passed(i, x) ==
    CASE Runtime(i, "vredrs_push_catch")  -> [x EXCEPT !.depth = @ + 1]
      [] Runtime(i, "vredrs_pop_catch")   -> [x EXCEPT !.depth = @ - 1]
      [] Runtime(i, "vredrs_check_throw") -> [x EXCEPT !.quiet = TRUE]
      [] MayThrow(i)                      -> [x EXCEPT !.quiet = FALSE]
      [] OTHER                            -> x

\* where control goes from the k-th instruction
Successors(f, k) ==
    LET i == f.code[k]
    IN (IF i.i \in {"jump", "ret"} THEN {} ELSE {k + 1})
       \cup (IF i.i \in {"jump", "branch"} THEN {f.target[i.to]} ELSE {})

\* what the plan has at k is no more than what is found there
Admits(plan, k, x) ==
    /\ k \in DOMAIN plan
    /\ plan[k].depth = x.depth
    /\ plan[k].quiet => x.quiet

Balances(f, plan) ==
    /\ Admits(plan, 1, Outermost)
    /\ \A k \in DOMAIN plan :
         LET i == f.code[k]
             x == plan[k]
         IN /\ k \in DOMAIN f.code
            /\ x \in [depth : Nat, quiet : BOOLEAN]
            /\ \A to \in Successors(f, k) : Admits(plan, to, Passed(i, x))
            /\ Runtime(i, "vredrs_pop_catch") => x.depth >= 1 /\ x.quiet
            /\ i.i = "ret" => x.depth = 0
            /\ ~Runtime(i, "sys_exit")

\* what the mark on a module says
PlansExist ==
    \A family \in Families : \A p \in family :
        p.balanced /\ Linked(p.fns) => \A j \in DOMAIN p.fns : \E plan : Balances(p.fns[j], plan)
-----------------------------------------------------------------------------
(***************************************************************************)
(* What the plans say of a state                                           *)
(***************************************************************************)

PlanOf(f) == CHOOSE plan : Balances(f, plan)

\* activations are numbered by their entries in frames; the return address of
\* one is the word after its depth
BackOf(fs, m, k) == m[fs[k].depth + 1].back

\* the catch frames that activation k has below its own are off[k]
Offsets(plan, fs, m, off) ==
    /\ off \in [1..Len(fs) -> Nat] /\ off[1] = 0
    /\ \A k \in 1..(Len(fs) - 1) :
         LET b == BackOf(fs, m, k + 1)
         IN /\ b.at \in DOMAIN plan[b.fn]
            /\ off[k + 1] = off[k] + plan[b.fn][b.at].depth

\* the frames pushed are at most those of the plan, a throw that nobody has read
\* has a frame to be caught in, and the flag is down where the plan says so
Caught(plan, off) ==
    LET x == IF pc.at = 0 THEN Outermost ELSE plan[pc.fn][pc.at]
        depth == off[Len(frames)] + x.depth
    IN /\ pc.at > 0 => pc.at \in DOMAIN plan[pc.fn]
       /\ exc.depth <= depth
       /\ exc.flag => depth > 0
       /\ x.quiet /\ rax = <<>> => ~exc.flag

IsException(e) == DOMAIN e = {"depth", "flag", "val"} /\ e.depth \in Nat /\ e.flag \in BOOLEAN

PlansOf(fns) == [j \in DOMAIN fns |-> PlanOf(fns[j])]

CatchesFit(plan) == \E off : Offsets(plan, frames, mem, off) /\ Caught(plan, off)

CatchInv ==
    program.balanced =>
        /\ IsException(exc)
        /\ status = "running" => CatchesFit(PlansOf(program.fns))
        /\ status = "done" => exc.depth = 0 /\ ~exc.flag
=============================================================================
