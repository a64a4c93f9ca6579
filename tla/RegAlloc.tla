------------------------------ MODULE RegAlloc ------------------------------
(***************************************************************************)
(* The linear-scan allocator of src/codegen/cstar/raw/regalloc.rs.  Each   *)
(* public method that changes its state is one action.  A caller allocates *)
(* at the current position, as alloc_var of x86.rs does after it advances. *)
(* A register is its index in the pool.  The maps `active` and             *)
(* `allocations` are total: Idle and Absent stand for a missing key.       *)
(***************************************************************************)
EXTENDS Integers, FiniteSets

CONSTANTS Vars,
          NoVar,           \* the variable of an idle register
          NumRegs,         \* registers of the pool (x86: rbx, r13, r14, r15)
          InitialOffset,   \* of new() and reset(): 0 in every caller
          Lengths,         \* end - start of the intervals asked for (x86: 20)
          MaxPos           \* bound: positions of a function

ASSUME RegAllocAssumption ==
    /\ NoVar \notin Vars
    /\ IsFiniteSet(Vars)
    /\ NumRegs \in Nat
    /\ InitialOffset \in Int
    /\ Lengths \subseteq Nat \ {0}
    /\ MaxPos \in Nat

VARIABLES active,             \* register |-> the variable in it and its end
          allocations,        \* variable |-> where it lives
          next_stack_offset,
          current_pos,
          life                \* history: variable |-> its live interval [start, end)

vars == <<active, allocations, next_stack_offset, current_pos, life>>

Regs == 1..NumRegs
Idle == [var |-> NoVar, end |-> 0]
Absent == [in |-> "none", at |-> 0]
Register(r) == [in |-> "register", at |-> r]
Spilled(o) == [in |-> "stack", at |-> o]

Init ==
    /\ active = [r \in Regs |-> Idle]
    /\ allocations = [v \in Vars |-> Absent]
    /\ next_stack_offset = InitialOffset
    /\ current_pos = 0
    /\ life = [v \in Vars |-> [start |-> 0, end |-> 0]]

-----------------------------------------------------------------------------
\* [mutant] an interval that ends here still counts as live
ExpiredLate(pos) == [r \in Regs |-> IF active[r].end < pos THEN Idle ELSE active[r]]

\* active without the intervals that ended at pos or before
Expired(pos) == [r \in Regs |-> IF active[r].end <= pos THEN Idle ELSE active[r]]

FreeRegs(held) == {r \in Regs : held[r] = Idle}
Furthest(held) == {r \in Regs : \A q \in Regs : held[q].end <= held[r].end}

Entry(v, n) == [var |-> v, end |-> current_pos + n]
Lives(v, n) == life' = [life EXCEPT ![v] = [start |-> current_pos, end |-> current_pos + n]]

\* allocate of a variable that already has a location changes nothing.
TakeFree(v, n) ==
    LET held == Expired(current_pos)
    IN \E r \in FreeRegs(held) :
          /\ \A q \in FreeRegs(held) : r <= q
          /\ active' = [held EXCEPT ![r] = Entry(v, n)]
          /\ allocations' = [allocations EXCEPT ![v] = Register(r)]
          /\ UNCHANGED next_stack_offset

\* Nothing is free and what is held lives longer: v goes to the stack.
SpillSelf(v, n) ==
    LET held == Expired(current_pos)
    IN /\ FreeRegs(held) = {}
       /\ \A r \in Furthest(held) : held[r].end > current_pos + n
       /\ active' = held
       /\ allocations' = [allocations EXCEPT ![v] = Spilled(next_stack_offset)]
       /\ next_stack_offset' = next_stack_offset - 8

\* [mutant] the evicted variable keeps its register
EvictSilently(v, n) ==
    LET held == Expired(current_pos)
    IN /\ FreeRegs(held) = {}
       /\ \E r \in Furthest(held) :
             /\ held[r].end <= current_pos + n
             /\ active' = [held EXCEPT ![r] = Entry(v, n)]
             /\ allocations' = [allocations EXCEPT ![v] = Register(r)]
       /\ next_stack_offset' = next_stack_offset - 8

\* v lives at least as long as all: one that ends last gives up its register.
Evict(v, n) ==
    LET held == Expired(current_pos)
    IN /\ FreeRegs(held) = {}
       /\ \E r \in Furthest(held) :
             /\ held[r].end <= current_pos + n
             /\ active' = [held EXCEPT ![r] = Entry(v, n)]
             /\ allocations' = [allocations EXCEPT ![held[r].var] = Spilled(next_stack_offset),
                                                   ![v] = Register(r)]
       /\ next_stack_offset' = next_stack_offset - 8

Allocate(v, n) ==
    /\ allocations[v] = Absent
    /\ TakeFree(v, n) \/ SpillSelf(v, n) \/ Evict(v, n)
    /\ Lives(v, n)
    /\ UNCHANGED current_pos

Advance ==
    /\ current_pos < MaxPos
    /\ current_pos' = current_pos + 1
    /\ UNCHANGED <<active, allocations, next_stack_offset, life>>

ExpireOldIntervals ==
    /\ active' = Expired(current_pos)
    /\ UNCHANGED <<allocations, next_stack_offset, current_pos, life>>

\* [mutant] the end is the position itself, which the interval excludes
MarkLastUseExclusive(v) ==
    \E r \in Regs :
       /\ active[r].var = v
       /\ active' = [active EXCEPT ![r].end = current_pos]
       /\ life' = [life EXCEPT ![v].end = current_pos + 1]
       /\ UNCHANGED <<allocations, next_stack_offset, current_pos>>

\* The interval of a variable in a register is made to end after this position.
MarkLastUse(v) ==
    \E r \in Regs :
       /\ active[r].var = v
       /\ active' = [active EXCEPT ![r].end = current_pos + 1]
       /\ life' = [life EXCEPT ![v].end = current_pos + 1]
       /\ UNCHANGED <<allocations, next_stack_offset, current_pos>>

Reset ==
    /\ active' = [r \in Regs |-> Idle]
    /\ allocations' = [v \in Vars |-> Absent]
    /\ next_stack_offset' = InitialOffset
    /\ current_pos' = 0
    /\ life' = [v \in Vars |-> [start |-> 0, end |-> 0]]

Next ==
    \/ \E v \in Vars : (\E n \in Lengths : Allocate(v, n)) \/ MarkLastUse(v)
    \/ Advance
    \/ ExpireOldIntervals
    \/ Reset

Spec == Init /\ [][Next]_vars

-----------------------------------------------------------------------------
Locs == [in : {"none", "register", "stack"}, at : Int]

\* The state has the shape of the program's maps; slots are below the first one.
TypeOK ==
    /\ active \in [Regs -> [var : Vars \cup {NoVar}, end : Nat]]
    /\ allocations \in [Vars -> Locs]
    /\ next_stack_offset \in Int
    /\ next_stack_offset <= InitialOffset
    /\ current_pos \in Nat
    /\ life \in [Vars -> [start : Nat, end : Nat]]

Apart(v, w) == life[v].end <= life[w].start \/ life[w].end <= life[v].start

(***************************************************************************)
(* Two variables share a register only when their live intervals are       *)
(* disjoint, and never share a stack slot, which is not reused.  Were it   *)
(* false, the store of one would overwrite the value of the other.         *)
(***************************************************************************)
NoSharing ==
    \A v, w \in Vars :
       (v # w /\ allocations[v] # Absent /\ allocations[v] = allocations[w])
          => (allocations[v].in = "register" /\ Apart(v, w))

(***************************************************************************)
(* The map of held registers agrees with the answers given: a held         *)
(* register is the location of its variable, with the end of its interval, *)
(* and a variable that was given a register and is still live holds it.    *)
(***************************************************************************)
ActiveExact ==
    /\ \A r \in Regs : active[r] # Idle =>
          /\ active[r].var \in Vars
          /\ allocations[active[r].var] = Register(r)
          /\ life[active[r].var].end = active[r].end
    /\ \A v \in Vars, r \in Regs :
          (allocations[v] = Register(r) /\ life[v].end > current_pos) => active[r].var = v

LiveAt(pos, intervals) == {v \in Vars : intervals[v].start <= pos /\ pos < intervals[v].end}

GoesToStack(v) == allocations[v].in # "stack" /\ allocations'[v].in = "stack"

(***************************************************************************)
(* "Only spill when ALL registers are occupied by live variables" (head of *)
(* regalloc.rs): when a variable goes to the stack, more variables are     *)
(* live at this position than there are registers.                         *)
(***************************************************************************)
SpillsNeeded ==
    [][(\E v \in Vars : GoesToStack(v)) => Cardinality(LiveAt(current_pos, life')) > NumRegs]_vars
=============================================================================
