------------------------------- MODULE Linear -------------------------------
(***************************************************************************)
(* The ownership checker of C* functions, src/codegen/cstar/linear.rs,     *)
(* next to the code the emitter of codegen.rs produces for the nodes it    *)
(* lets through.  The checker reads a body once and so does the emitter,   *)
(* loops included, so one walk stands for both: each action is a node,     *)
(* checked, then executed as emitted.  The body is any sequence of nodes.  *)
(*                                                                         *)
(* `names` is the emitter's map from variables to LLVM values.  A node     *)
(* whose operand has the wrong type for its instruction is not enumerated: *)
(* LLVM refuses that text.                                                 *)
(***************************************************************************)
EXTENDS Naturals, FiniteSets

CONSTANTS Vars,
          Params,        \* variables that are the function's ptr parameters
          Blocks,        \* bound: heap blocks the run may see
          NoBlock,       \* value of a variable that holds no pointer
          ParamBlock     \* parameter |-> the block its caller passes

ASSUME LinearAssumption ==
    /\ Params \subseteq Vars
    /\ NoBlock \notin Blocks
    /\ ParamBlock \in [Params -> Blocks]
    /\ \A p, q \in Params : ParamBlock[p] = ParamBlock[q] => p = q

VARIABLES resources,     \* variable |-> LinearState; "None" when not in the map
          names,         \* variable |-> the block its LLVM value points to
          heap,          \* history: block |-> what became of it: "freed" by this
                         \* function, "gone" if a function it calls freed it
          verdict,       \* of the checker on this function
          faults         \* history: who had freed a block this function went on
                         \* to use or free: "own" or "callee"

vars == <<resources, names, heap, verdict, faults>>

LinearState == {"MustConsume", "Moved", "Consumed"}

Init ==
    /\ resources = [v \in Vars |-> IF v \in Params THEN "MustConsume" ELSE "None"]
    /\ names = [v \in Vars |-> IF v \in Params THEN ParamBlock[v] ELSE NoBlock]
    /\ heap = [b \in Blocks |-> IF \E p \in Params : ParamBlock[p] = b THEN "live" ELSE "unused"]
    /\ verdict = "checking"
    /\ faults = {}

-----------------------------------------------------------------------------
IsLive(v) == resources[v] = "MustConsume"

\* [mutant] a moved variable may still be used
NotConsumed(v) == resources[v] # "Consumed"

\* ensure_not_moved_or_consumed: a variable that is no resource passes
NotMovedOrConsumed(v) == resources[v] \notin {"Moved", "Consumed"}

Points(v) == names[v] \in Blocks
Reject == verdict' = "rejected" /\ UNCHANGED <<resources, names, heap, faults>>
Set(v, state) == resources' = [resources EXCEPT ![v] = state]
FreedBy(b) == CASE heap[b] = "freed" -> {"own"} [] heap[b] = "gone" -> {"callee"} [] OTHER -> {}
Touch(V) == faults' = faults \cup UNION {FreedBy(names[v]) : v \in {u \in V : Points(u)}}

\* set, dst = malloc(n), with a cast (AllocLinear) or without (Call of malloc)
\* The cast must be to a pointer type.
AllocLinear(dst, isPtr) ==
    IF ~isPtr \/ IsLive(dst) THEN Reject
    ELSE \E b \in Blocks :
            /\ heap[b] = "unused"
            /\ heap' = [heap EXCEPT ![b] = "live"]
            /\ names' = [names EXCEPT ![dst] = b]
            /\ Set(dst, "MustConsume")
            /\ UNCHANGED <<verdict, faults>>

\* [mutant] the source stays live
MoveCopies(dst, src, isPtr) ==
    IF ~IsLive(src) \/ (isPtr /\ dst # src /\ IsLive(dst)) THEN Reject
    ELSE /\ Points(src)
         /\ names' = [names EXCEPT ![dst] = names[src]]
         /\ resources' = IF isPtr THEN [resources EXCEPT ![dst] = "MustConsume"] ELSE resources
         /\ UNCHANGED <<heap, verdict, faults>>

\* set, dst = move(src) as ptr[T], or as an integer type: no resource then
Move(dst, src, isPtr) ==
    IF ~IsLive(src) \/ (isPtr /\ dst # src /\ IsLive(dst)) THEN Reject
    ELSE /\ Points(src)
         /\ names' = [names EXCEPT ![dst] = names[src]]
         /\ resources' = IF isPtr THEN [resources EXCEPT ![src] = "Moved", ![dst] = "MustConsume"]
                                  ELSE [resources EXCEPT ![src] = "Moved"]
         /\ UNCHANGED <<heap, verdict, faults>>

\* The statements free(v) and consume(v): no instruction is emitted for either.
Consume(v) ==
    IF ~IsLive(v) THEN Reject
    ELSE Set(v, "Consumed") /\ UNCHANGED <<names, heap, verdict, faults>>

\* [mutant] freed, but not marked so
FreeUnmarked(v) ==
    IF ~IsLive(v) THEN Reject
    ELSE /\ Points(v)
         /\ Touch({v})
         /\ heap' = [heap EXCEPT ![names[v]] = "freed"]
         /\ UNCHANGED <<resources, names, verdict>>

\* set, r = free(v) or consume(v): a Call node, the only one that emits a free.
\* r gets no value.
Free(v) ==
    IF ~IsLive(v) THEN Reject
    ELSE /\ Points(v)
         /\ Touch({v})
         /\ heap' = [heap EXCEPT ![names[v]] = "freed"]
         /\ Set(v, "Consumed")
         /\ UNCHANGED <<names, verdict>>

\* A call of another function with arguments args; dst, if any, gets an integer.
\* The callee has to consume a pointer it is given, as a parameter of its own: it
\* frees its block or not.
Call(args, D) ==
    IF \E v \in args : ~NotMovedOrConsumed(v) THEN Reject
    ELSE /\ \A v \in args : Points(v)
         /\ Touch(args)
         /\ \E F \in SUBSET {names[v] : v \in args} :
               heap' = [b \in Blocks |-> IF b \in F THEN "gone" ELSE heap[b]]
         /\ names' = [v \in Vars |-> IF v \in D THEN NoBlock ELSE names[v]]
         /\ UNCHANGED <<resources, verdict>>

\* set, dst = ptr.load()
Load(dst, ptr) ==
    IF ~NotMovedOrConsumed(ptr) THEN Reject
    ELSE /\ Points(ptr)
         /\ Touch({ptr})
         /\ names' = [names EXCEPT ![dst] = NoBlock]
         /\ UNCHANGED <<resources, heap, verdict>>

\* The nodes that only read pointers: a store through ptr of something that is
\* no pointer, inline assembly, a prefetch.
Access(V) ==
    IF \E v \in V : ~NotMovedOrConsumed(v) THEN Reject
    ELSE /\ \A v \in V : Points(v)
         /\ Touch(V)
         /\ UNCHANGED <<resources, names, heap, verdict>>

\* finish_scope
FinishScope ==
    /\ verdict' = IF \E v \in Vars : IsLive(v) THEN "rejected" ELSE "accepted"
    /\ UNCHANGED <<resources, names, heap, faults>>

Node ==
    \/ \E dst \in Vars, isPtr \in BOOLEAN : AllocLinear(dst, isPtr)
    \/ \E dst, src \in Vars, isPtr \in BOOLEAN : Move(dst, src, isPtr)
    \/ \E v \in Vars : Consume(v) \/ Free(v)
    \/ \E args \in SUBSET Vars, D \in {{}} \cup {{v} : v \in Vars} : Call(args, D)
    \/ \E dst, ptr \in Vars : Load(dst, ptr)
    \/ \E V \in SUBSET Vars : Access(V)

Next == verdict = "checking" /\ (Node \/ FinishScope)

Spec == Init /\ [][Next]_vars

-----------------------------------------------------------------------------
\* variables through which the checker would let a node reach the block
Holders(b) == {v \in Vars : names[v] = b /\ NotMovedOrConsumed(v)}

\* The state has the shape of the program's maps; an accepted function has
\* nothing left to consume.
TypeOK ==
    /\ resources \in [Vars -> LinearState \cup {"None"}]
    /\ names \in [Vars -> Blocks \cup {NoBlock}]
    /\ heap \in [Blocks -> {"unused", "live", "freed", "gone"}]
    /\ verdict \in {"checking", "accepted", "rejected"}
    /\ faults \subseteq {"own", "callee"}
    /\ verdict = "accepted" => \A v \in Vars : ~IsLive(v)

(***************************************************************************)
(* However ownership was moved about, at most one variable can still reach *)
(* a block, and this function has not freed it: what a marked state stands *)
(* for (linear.rs:13).  Whether a function it called has, no state says.   *)
(***************************************************************************)
OneOwner ==
    \A b \in Blocks :
       /\ \A v, w \in Holders(b) : v = w
       /\ Holders(b) # {} => heap[b] \in {"live", "gone"}

(***************************************************************************)
(* Of "Use-after-move, double-free ... are hard codegen errors"            *)
(* (linear.rs:5) this much holds: in a function the checker accepts, only  *)
(* a block that a callee freed is used or freed after it was freed.  What  *)
(* the function freed itself it neither frees again, nor reaches, nor      *)
(* hands to a callee, through whatever names the block went.  The case     *)
(* that is left is real: the callee of a pointer must consume it           *)
(* (linear.rs:50), and its caller, whose variable the call leaves as it    *)
(* was (linear.rs:142), must once more.                                    *)
(***************************************************************************)
MemorySafe == verdict = "accepted" => "own" \notin faults
=============================================================================
