--------------------------------- MODULE VM ---------------------------------
(***************************************************************************)
(* The control core of the bytecode interpreter, src/bytecode/vm.rs: value *)
(* stack, call frames, exception handlers, iterators, deferred blocks, and *)
(* the two ways it runs an instruction: the loop of run() and the loops    *)
(* nested in Rust calls (a method call, a deferred block), which end when  *)
(* an error unwinds them.  One instruction with everything its handler     *)
(* does is one action.                                                     *)
(***************************************************************************)
EXTENDS Integers, Sequences

CONSTANTS Modules,         \* the compiled modules a run may start with; those marked
                           \* ordered have a plan (VMPlan.tla)
          MaxOut           \* bound: a program prints at most this often

\* What Compile makes: jumps and entries inside the code, and an instruction
\* after each one that falls through to it.
ModulesAssumption ==
    \A m \in Modules :
        LET length == Len(m.code)
            pcs == 0..(length - 1) IN
        /\ length \in Nat /\ length > 0
        /\ \A p \in pcs :
              LET i == m.code[p + 1] IN
              /\ i.op \in {"Jump", "JumpIfFalse", "IterNext", "PushHandler", "DeferPush"} => i.a \in pcs
              /\ i.op \in {"CallByName", "CallMethod"} => m.fn_entry_pcs[i.a] \in pcs
              /\ i.op \notin {"Jump", "Throw", "Return", "Halt", "Nop"} => p + 1 \in pcs

ASSUME VMAssumption == ModulesAssumption

\* what an instruction takes from the stack
Operands(op) ==
    CASE op \in {"Eq", "Mul", "Div"} -> 2
      [] op \in {"Dup", "Pop", "Store", "Print", "CallBuiltin", "JumpIfFalse", "Iter",
                 "IterNext", "Throw", "CallMethod", "Return"} -> 1
      [] OTHER -> 0

VARIABLES module,         \* VM.module
          pc,
          stack,
          frames,         \* <<[return_pc, stack_base, defer_pcs]>>
          handler_stack,  \* <<[catch_pc, depth]>>
          iterators,      \* <<[items, pos]>>, never shortened
          native,         \* the Rust loops nested in run(), outermost first
          self,           \* globals["self"]
          out,            \* what was printed, in order
          status          \* "running", "done", "error"

vars == <<module, pc, stack, frames, handler_stack, iterators, native, self, out, status>>

code == module.code
At(p) == code[p + 1]
NullValue == <<"null", 0>>

Top(s) == s[Len(s)]
Butlast(s) == SubSeq(s, 1, Len(s) - 1)
Truncate(s, n) == SubSeq(s, 1, IF n < Len(s) THEN n ELSE Len(s))
Reversed(s) == [i \in 1..Len(s) |-> s[Len(s) + 1 - i]]
\* Vec::pop().unwrap_or(Null) and what it leaves
PopOrNull(s) == IF s = <<>> THEN NullValue ELSE Top(s)

Init ==
    /\ module \in Modules
    /\ pc = 0
    /\ stack = <<>>
    /\ frames = <<[return_pc |-> 0, stack_base |-> 0, defer_pcs |-> <<>>]>>
    /\ handler_stack = <<>>
    /\ iterators = <<>>
    /\ native = <<>>
    /\ self = NullValue
    /\ out = <<>>
    /\ status = "running"

InDefer == native # <<>> /\ Top(native).kind = "defer"

\* the loop that runs a deferred block stops here
DeferEnd == InDefer /\ (pc = Top(native).cont \/ At(pc).op = "Nop")

Fetch(op) ==
    /\ status = "running"
    /\ ~DeferEnd
    /\ At(pc).op = op

(***************************************************************************)
(* Errors                                                                  *)
(***************************************************************************)

\* call_method_on_class puts the old self back while the error passes through
SelfAfterUnwind ==
    IF \E i \in DOMAIN native : native[i].kind = "method"
    THEN native[CHOOSE i \in DOMAIN native :
                   /\ native[i].kind = "method"
                   /\ \A j \in DOMAIN native : native[j].kind = "method" => i <= j].old_self
    ELSE self

\* an error no handler takes: run() returns it
Fail ==
    /\ status' = "error"
    /\ self' = SelfAfterUnwind
    /\ native' = <<>>
    /\ UNCHANGED <<module, pc, stack, frames, handler_stack, iterators, out>>

\* [mutant] run() resumes at the catch without leaving the nested loops
RaiseInLoop(s, v) ==
    IF handler_stack = <<>> \/ (native # <<>> /\ native[1].kind = "defer")
    THEN Fail
    ELSE LET h == Top(handler_stack) IN
         /\ handler_stack' = Butlast(handler_stack)
         /\ frames' = Truncate(frames, h.depth)
         /\ stack' = Append(s, v)
         /\ pc' = h.catch_pc
         /\ self' = SelfAfterUnwind
         /\ native' = native
         /\ UNCHANGED <<module, iterators, out, status>>

\* [mutant] an error passes a method call without the restore of `self`
RaiseKeepsSelf(s, v) ==
    IF handler_stack = <<>> \/ (native # <<>> /\ native[1].kind = "defer")
    THEN Fail
    ELSE LET h == Top(handler_stack) IN
         /\ handler_stack' = Butlast(handler_stack)
         /\ frames' = Truncate(frames, h.depth)
         /\ stack' = Append(s, v)
         /\ pc' = h.catch_pc
         /\ self' = self
         /\ native' = <<>>
         /\ UNCHANGED <<module, iterators, out, status>>

\* An error leaves every nested loop through `?`; run() pops one handler, cuts
\* the frames to its depth and continues at its catch with v on the operands s
\* the instruction left.  An error inside a deferred block leaves run() itself.
Raise(s, v) ==
    IF handler_stack = <<>> \/ (native # <<>> /\ native[1].kind = "defer")
    THEN Fail
    ELSE LET h == Top(handler_stack) IN
         /\ handler_stack' = Butlast(handler_stack)
         /\ frames' = Truncate(frames, h.depth)
         /\ stack' = Append(s, v)
         /\ pc' = h.catch_pc
         /\ self' = SelfAfterUnwind
         /\ native' = <<>>
         /\ UNCHANGED <<module, iterators, out, status>>

(***************************************************************************)
(* Straight-line instructions                                              *)
(***************************************************************************)

Push(s, v) ==
    /\ stack' = Append(s, v)
    /\ pc' = pc + 1
    /\ UNCHANGED <<module, frames, handler_stack, iterators, native, self, out, status>>

Const == Fetch("Const") /\ Push(stack, At(pc).a)

LoadSelf == Fetch("LoadSelf") /\ Push(stack, self)

Dup == Fetch("Dup") /\ stack # <<>> /\ Push(stack, Top(stack))

Eq ==
    /\ Fetch("Eq")
    /\ Len(stack) >= 2
    /\ LET s == Butlast(stack) IN
       Push(Butlast(s), <<"bool", IF Top(s) = Top(stack) THEN 1 ELSE 0>>)

\* Pop, and the stores whose variable no property looks at; run() pops an empty
\* stack without a word
PopValue ==
    /\ Fetch("Pop") \/ Fetch("Store")
    /\ stack # <<>> \/ (At(pc).op = "Pop" /\ native = <<>>)
    /\ stack' = Butlast(stack)
    /\ pc' = pc + 1
    /\ UNCHANGED <<module, frames, handler_stack, iterators, native, self, out, status>>

PrintTop ==
    /\ Fetch("Print")
    /\ stack # <<>>
    /\ Len(out) < MaxOut
    /\ out' = Append(out, Top(stack))
    /\ stack' = Butlast(stack)
    /\ pc' = pc + 1
    /\ UNCHANGED <<module, frames, handler_stack, iterators, native, self, status>>

\* __with_enter__ and __with_exit__: visible by what they print
CallBuiltin ==
    /\ Fetch("CallBuiltin")
    /\ stack # <<>>
    /\ Len(out) < MaxOut
    /\ out' = Append(out, <<At(pc).a, Top(stack)>>)
    /\ pc' = pc + 1
    /\ UNCHANGED <<module, stack, frames, handler_stack, iterators, native, self, status>>

Goto(p, s) ==
    /\ pc' = p
    /\ stack' = s
    /\ UNCHANGED <<module, frames, handler_stack, iterators, native, self, out, status>>

Jump == Fetch("Jump") /\ Goto(At(pc).a, stack)

JumpIfFalse ==
    /\ Fetch("JumpIfFalse")
    /\ stack # <<>>
    /\ Goto(IF Top(stack) = <<"bool", 0>> THEN At(pc).a ELSE pc + 1, Butlast(stack))

(***************************************************************************)
(* Iteration                                                               *)
(***************************************************************************)

\* push an entry and, on the stack, its index as a plain integer
Iter ==
    /\ Fetch("Iter")
    /\ stack # <<>>
    /\ iterators' = Append(iterators, [items |-> Top(stack)[2], pos |-> 0])
    /\ stack' = Append(Butlast(stack), <<"int", Len(iterators)>>)
    /\ pc' = pc + 1
    /\ UNCHANGED <<module, frames, handler_stack, native, self, out, status>>

Handle == Top(stack)[2] + 1
HasNext ==
    /\ Top(stack)[1] = "int"
    /\ Handle \in DOMAIN iterators
    /\ iterators[Handle].pos < Len(iterators[Handle].items)

\* [mutant] an exhausted loop leaves its handle on the stack
IterNextLeaks ==
    /\ Fetch("IterNext")
    /\ stack # <<>>
    /\ IF HasNext
       THEN /\ stack' = Append(stack, iterators[Handle].items[iterators[Handle].pos + 1])
            /\ iterators' = [iterators EXCEPT ![Handle].pos = @ + 1]
            /\ pc' = pc + 1
       ELSE /\ stack' = stack
            /\ iterators' = IF Top(stack)[1] = "int" /\ Handle \in DOMAIN iterators
                            THEN [iterators EXCEPT ![Handle] = [items |-> <<>>, pos |-> 0]]
                            ELSE iterators
            /\ pc' = At(pc).a
    /\ UNCHANGED <<module, frames, handler_stack, native, self, out, status>>

\* [mutant] the position in the list is not advanced
IterNextStays ==
    /\ Fetch("IterNext")
    /\ stack # <<>>
    /\ IF HasNext
       THEN /\ stack' = Append(stack, iterators[Handle].items[iterators[Handle].pos + 1])
            /\ iterators' = [iterators EXCEPT ![Handle].pos = @]
            /\ pc' = pc + 1
       ELSE /\ stack' = Butlast(stack)
            /\ iterators' = IF Top(stack)[1] = "int" /\ Handle \in DOMAIN iterators
                            THEN [iterators EXCEPT ![Handle] = [items |-> <<>>, pos |-> 0]]
                            ELSE iterators
            /\ pc' = At(pc).a
    /\ UNCHANGED <<module, frames, handler_stack, native, self, out, status>>

\* whatever integer is on top of the stack is taken for the handle
IterNext ==
    /\ Fetch("IterNext")
    /\ stack # <<>>
    /\ IF HasNext
       THEN /\ stack' = Append(stack, iterators[Handle].items[iterators[Handle].pos + 1])
            /\ iterators' = [iterators EXCEPT ![Handle].pos = @ + 1]
            /\ pc' = pc + 1
       ELSE /\ stack' = Butlast(stack)
            /\ iterators' = IF Top(stack)[1] = "int" /\ Handle \in DOMAIN iterators
                            THEN [iterators EXCEPT ![Handle] = [items |-> <<>>, pos |-> 0]]
                            ELSE iterators
            /\ pc' = At(pc).a
    /\ UNCHANGED <<module, frames, handler_stack, native, self, out, status>>

(***************************************************************************)
(* Exceptions and defer                                                    *)
(***************************************************************************)

\* [mutant] the depth counts a frame too many
PushHandlerDeep ==
    /\ Fetch("PushHandler")
    /\ handler_stack' = Append(handler_stack, [catch_pc |-> At(pc).a, depth |-> Len(frames) + 1])
    /\ pc' = pc + 1
    /\ UNCHANGED <<module, stack, frames, iterators, native, self, out, status>>

PushHandler ==
    /\ Fetch("PushHandler")
    /\ handler_stack' = Append(handler_stack, [catch_pc |-> At(pc).a, depth |-> Len(frames)])
    /\ pc' = pc + 1
    /\ UNCHANGED <<module, stack, frames, iterators, native, self, out, status>>

PopHandler ==
    /\ Fetch("PopHandler")
    /\ handler_stack' = IF handler_stack = <<>> THEN <<>> ELSE Butlast(handler_stack)
    /\ pc' = pc + 1
    /\ UNCHANGED <<module, stack, frames, iterators, native, self, out, status>>

Throw == Fetch("Throw") /\ stack # <<>> /\ Raise(Butlast(stack), Top(stack))

\* division by zero, in either kind of loop
DivByZero == Fetch("Div") /\ Len(stack) >= 2 /\ Raise(Butlast(Butlast(stack)), <<"str", "division by zero">>)

\* Mul of two values that cannot be multiplied: the fast path of run() returns
\* the error past the handlers ...
MulError == Fetch("Mul") /\ native = <<>> /\ Len(stack) >= 2 /\ Fail

\* ... and execute() makes it null
MulNull ==
    /\ Fetch("Mul")
    /\ native # <<>>
    /\ Len(stack) >= 2
    /\ Push(Butlast(Butlast(stack)), NullValue)

\* "stack underflow", which no handler catches; Pop and Return in run() do
\* without their operand
Underflow ==
    /\ status = "running"
    /\ ~DeferEnd
    /\ Len(stack) < Operands(At(pc).op)
    /\ native = <<>> => At(pc).op \notin {"Pop", "Return"}
    /\ Fail

DeferPush ==
    /\ Fetch("DeferPush")
    /\ frames' = [frames EXCEPT ![Len(frames)].defer_pcs = Append(@, At(pc).a)]
    /\ pc' = pc + 1
    /\ UNCHANGED <<module, stack, handler_stack, iterators, native, self, out, status>>

(***************************************************************************)
(* Calls                                                                   *)
(***************************************************************************)

\* [mutant] the return pc taken twice past the call
FrameSkips(base) == [return_pc |-> pc + 2, stack_base |-> base, defer_pcs |-> <<>>]

Frame(base) == [return_pc |-> pc + 1, stack_base |-> base, defer_pcs |-> <<>>]

CallByName ==
    /\ Fetch("CallByName")
    /\ frames' = Append(frames, Frame(Len(stack)))
    /\ pc' = module.fn_entry_pcs[At(pc).a]
    /\ UNCHANGED <<module, stack, handler_stack, iterators, native, self, out, status>>

\* [mutant] the base of the frame is taken with the receiver still on the stack
CallMethodBase ==
    /\ Fetch("CallMethod")
    /\ stack # <<>>
    /\ stack' = Butlast(stack)
    /\ frames' = Append(frames, Frame(Len(stack)))
    /\ native' = Append(native, [kind |-> "method", target |-> Len(frames), old_self |-> self])
    /\ self' = Top(stack)
    /\ pc' = module.fn_entry_pcs[At(pc).a]
    /\ UNCHANGED <<module, handler_stack, iterators, out, status>>

\* call_method_on_class: a frame, a loop of its own, and `self` in the globals
CallMethod ==
    /\ Fetch("CallMethod")
    /\ stack # <<>>
    /\ stack' = Butlast(stack)
    /\ frames' = Append(frames, Frame(Len(stack) - 1))
    /\ native' = Append(native, [kind |-> "method", target |-> Len(frames), old_self |-> self])
    /\ self' = Top(stack)
    /\ pc' = module.fn_entry_pcs[At(pc).a]
    /\ UNCHANGED <<module, handler_stack, iterators, out, status>>

\* Frames::pop, truncate to its base, push the result; the last frame ends run()
PopFrame(s, v) ==
    IF Len(frames) = 1
    THEN /\ status' = "done"
         /\ stack' = s
         /\ UNCHANGED <<pc, frames>>
    ELSE /\ stack' = Append(Truncate(s, Top(frames).stack_base), v)
         /\ pc' = Top(frames).return_pc
         /\ frames' = Butlast(frames)
         /\ UNCHANGED status

\* Return in the loop of run(), with no deferred block pending
ReturnPlain ==
    /\ Fetch("Return")
    /\ native = <<>>
    /\ Top(frames).defer_pcs = <<>>
    /\ PopFrame(Butlast(stack), PopOrNull(stack))
    /\ UNCHANGED <<module, handler_stack, iterators, native, self, out>>

\* the loop of run() over the deferred blocks of a frame that returns
DeferLoop(ret, cont, rest) == [kind |-> "defer", ret |-> ret, cont |-> cont, rest |-> rest]

\* [mutant] deferred blocks run in the order they were declared
ReturnDefersFifo ==
    /\ Fetch("Return")
    /\ native = <<>>
    /\ Top(frames).defer_pcs # <<>>
    /\ LET blocks == Top(frames).defer_pcs IN
       /\ native' = <<DeferLoop(PopOrNull(stack), pc + 1, Tail(blocks))>>
       /\ pc' = Head(blocks)
    /\ stack' = Append(Butlast(stack), PopOrNull(stack))
    /\ frames' = [frames EXCEPT ![Len(frames)].defer_pcs = <<>>]
    /\ UNCHANGED <<module, handler_stack, iterators, self, out, status>>

\* Return in the loop of run(): the deferred blocks run first, last one first,
\* in a loop that stops at a Nop or at the pc after this Return
ReturnDefers ==
    /\ Fetch("Return")
    /\ native = <<>>
    /\ Top(frames).defer_pcs # <<>>
    /\ LET blocks == Reversed(Top(frames).defer_pcs) IN
       /\ native' = <<DeferLoop(PopOrNull(stack), pc + 1, Tail(blocks))>>
       /\ pc' = Head(blocks)
    /\ stack' = Append(Butlast(stack), PopOrNull(stack))
    /\ frames' = [frames EXCEPT ![Len(frames)].defer_pcs = <<>>]
    /\ UNCHANGED <<module, handler_stack, iterators, self, out, status>>

\* the end of one deferred block with s on the stack: the next block, or the
\* rest of the Return
EndBlock(s) ==
    LET d == Top(native) IN
    IF d.rest # <<>>
    THEN /\ native' = <<DeferLoop(d.ret, d.cont, Tail(d.rest))>>
         /\ pc' = Head(d.rest)
         /\ stack' = s
         /\ UNCHANGED <<frames, status>>
    ELSE native' = <<>> /\ PopFrame(Butlast(s), d.ret)

DeferNext ==
    /\ status = "running"
    /\ DeferEnd
    /\ EndBlock(stack)
    /\ UNCHANGED <<module, handler_stack, iterators, self, out>>

\* Return in a nested loop (execute()) looks at no deferred block.  It ends the
\* method call whose frame it pops.
ReturnNested ==
    /\ Fetch("Return")
    /\ native # <<>>
    /\ stack # <<>>
    /\ Len(frames) > 1
    /\ PopFrame(Butlast(stack), Top(stack))
    /\ LET n == Top(native) IN
       IF n.kind = "method" /\ n.target = Len(frames) - 1
       THEN native' = Butlast(native) /\ self' = n.old_self
       ELSE UNCHANGED <<native, self>>
    /\ UNCHANGED <<module, handler_stack, iterators, out>>

\* Flow::Return of execute(), from the last frame or a Halt, ends the block only
ReturnFromBlock ==
    /\ InDefer
    /\ Fetch("Halt") \/ (Fetch("Return") /\ stack # <<>> /\ Len(frames) = 1)
    /\ EndBlock(Butlast(stack))
    /\ UNCHANGED <<module, handler_stack, iterators, self, out>>

Halt ==
    /\ Fetch("Halt")
    /\ native = <<>>
    /\ status' = "done"
    /\ stack' = Butlast(stack)
    /\ UNCHANGED <<module, pc, frames, handler_stack, iterators, native, self, out>>

\* the program has ended
Ended == status # "running" /\ UNCHANGED vars

Next ==
    \/ Const \/ LoadSelf \/ Dup \/ Eq \/ PopValue \/ PrintTop \/ CallBuiltin
    \/ Jump \/ JumpIfFalse \/ Iter \/ IterNext
    \/ PushHandler \/ PopHandler \/ Throw \/ DivByZero \/ MulError \/ MulNull
    \/ Underflow \/ DeferPush
    \/ CallByName \/ CallMethod \/ ReturnPlain \/ ReturnDefers \/ DeferNext
    \/ ReturnNested \/ ReturnFromBlock
    \/ Halt \/ Ended

Spec == Init /\ [][Next]_vars

\* run() fetches the next instruction as long as it has not returned
FairSpec == Spec /\ WF_vars(Next)

-----------------------------------------------------------------------------

Pcs == 0..(Len(code) - 1)

IsSeq(s) == Len(s) \in Nat /\ s = [i \in 1..Len(s) |-> s[i]]

\* No jump, call, return or catch leaves the code: `while self.pc < code_len`
\* never ends a program that has not reached its Halt.
TypeOK ==
    /\ pc \in Pcs
    /\ IsSeq(stack) /\ IsSeq(native)
    /\ frames \in Seq([return_pc : Pcs, stack_base : Nat, defer_pcs : Seq(Pcs)])
    /\ handler_stack \in Seq([catch_pc : Pcs, depth : Nat])
    /\ \A i \in DOMAIN native :
          \/ native[i].kind = "method"
          \/ native[i].kind = "defer" /\ native[i].rest \in Seq(Pcs)
    /\ status \in {"running", "done", "error"}

\* The Rust loops mirror the frames: the loop of a method call is entered with
\* the frame it waits to see popped still on the frame stack, deeper calls wait
\* for deeper frames, and only the outermost loop can be one of deferred blocks.
\* `while self.frames.len() > target_depth` (call_method_on_class) would else
\* end a call early or never.
LoopsNest ==
    /\ frames # <<>>
    /\ \A i \in DOMAIN native : native[i].kind = "method" => native[i].target \in 1..(Len(frames) - 1)
    /\ \A i, j \in DOMAIN native :
          i < j => /\ native[j].kind = "method"
                   /\ native[i].kind = "method" => native[i].target < native[j].target
    /\ \A i \in DOMAIN handler_stack : handler_stack[i].depth >= 1

\* `self` never outlives the method it was bound for, however the method is
\* left: with no method running it is unbound again, though calls overwrite one
\* global and restore it on their way out.
SelfRestored ==
    /\ (\A i \in DOMAIN native : native[i].kind # "method") => self = NullValue
    /\ \A i \in DOMAIN native :
          /\ native[i].kind = "method"
          /\ \A j \in 1..(i - 1) : native[j].kind # "method"
          => native[i].old_self = NullValue

\* Whatever was thrown, caught, returned from or left on the stack before, the
\* next instruction of an ordered module finds its operands above the base of
\* its own frame: it never consumes a value of its caller, and "stack underflow"
\* never happens.
OwnOperands ==
    (module.ordered /\ status = "running" /\ ~DeferEnd) =>
        Len(stack) - Top(frames).stack_base >= Operands(At(pc).op)

\* In an ordered module no handler outlives the function that installed it: a
\* throw never resumes in the catch of a function that has returned.
HandlersLive ==
    module.ordered => \A i \in DOMAIN handler_stack :
        /\ handler_stack[i].depth <= Len(frames)
        /\ i > 1 => handler_stack[i - 1].depth <= handler_stack[i].depth

\* A loop advances the iterator it created: the integer IterNext finds on the
\* stack is the index of an entry over the list its own loop pushed.
OwnIterator ==
    (status = "running" /\ ~DeferEnd /\ At(pc).op = "IterNext") =>
        /\ stack # <<>> /\ Top(stack)[1] = "int" /\ Handle \in DOMAIN iterators
        /\ iterators[Handle].items = At(pc - 2).a[2]

\* Every program ends.
Terminates == <>(status # "running")
=============================================================================
