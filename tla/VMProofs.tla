------------------------------ MODULE VMProofs ------------------------------
(***************************************************************************)
(* The interpreter core for every set of compiled modules: control stays   *)
(* inside the code, the nested loops mirror the frames, and `self` is      *)
(* bound only while a method runs.  And for every set of compiled modules  *)
(* that have a plan: each instruction finds its own operands, and no       *)
(* handler outlives its function.                                          *)
(***************************************************************************)
EXTENDS VMPlan, SequenceTheorems, TLAPS

(***************************************************************************)
(* Sequences whose elements have no common type                            *)
(***************************************************************************)

LEMMA SeqIsSeq == ASSUME NEW S, NEW s \in Seq(S) PROVE IsSeq(s) /\ DOMAIN s = 1..Len(s)
  BY DEF IsSeq

LEMMA IsSeqIn ==
    ASSUME NEW s, IsSeq(s), NEW S, \A i \in 1..Len(s) : s[i] \in S
    PROVE  s \in Seq(S) /\ DOMAIN s = 1..Len(s)
<1>1. s \in [1..Len(s) -> S]
  BY DEF IsSeq
<1> QED
  BY <1>1, SeqDef DEF IsSeq

LEMMA AppendAny ==
    ASSUME NEW s, IsSeq(s), NEW v
    PROVE  /\ IsSeq(Append(s, v)) /\ Len(Append(s, v)) = Len(s) + 1
           /\ DOMAIN s = 1..Len(s)
           /\ \A i \in 1..Len(s) : Append(s, v)[i] = s[i]
           /\ Append(s, v)[Len(s) + 1] = v
           /\ DOMAIN Append(s, v) = 1..(Len(s) + 1)
<1> DEFINE S == {s[i] : i \in 1..Len(s)} \cup {v}
<1>1. s \in Seq(S) /\ DOMAIN s = 1..Len(s)
  BY IsSeqIn
<1> HIDE DEF S
<1>2. v \in S
  BY DEF S
<1>3. Append(s, v) \in Seq(S)
  BY <1>1, <1>2
<1>4. /\ Len(Append(s, v)) = Len(s) + 1
      /\ \A i \in 1..Len(s) : Append(s, v)[i] = s[i]
      /\ Append(s, v)[Len(s) + 1] = v
  BY <1>1, <1>2, AppendProperties
<1>5. IsSeq(Append(s, v)) /\ DOMAIN Append(s, v) = 1..Len(Append(s, v))
  BY <1>3, SeqIsSeq
<1> QED
  BY <1>1, <1>4, <1>5

LEMMA ButlastAny ==
    ASSUME NEW s, IsSeq(s)
    PROVE  /\ IsSeq(Butlast(s))
           /\ s # <<>> => /\ Len(Butlast(s)) = Len(s) - 1 /\ Len(s) >= 1
                          /\ DOMAIN Butlast(s) = 1..(Len(s) - 1)
                          /\ \A i \in 1..(Len(s) - 1) : Butlast(s)[i] = s[i]
<1> DEFINE S == {s[i] : i \in 1..Len(s)}
<1>1. s \in Seq(S) /\ DOMAIN s = 1..Len(s)
  BY IsSeqIn
<1> HIDE DEF S
<1>2. CASE s = <<>>
  <2>1. Butlast(s) = <<>>
    BY <1>1, <1>2, SubSeqProperties DEF Butlast
  <2> QED
    BY <1>2, <2>1 DEF IsSeq
<1>3. CASE s # <<>>
  <2>1. Len(s) >= 1 /\ Len(s) \in Nat
    BY <1>1, <1>3
  <2>2. Butlast(s) \in Seq(S) /\ Len(Butlast(s)) = Len(s) - 1
    BY <1>1, <2>1, SubSeqProperties DEF Butlast
  <2>3. \A i \in 1..(Len(s) - 1) : Butlast(s)[i] = s[i]
    BY <1>1, <2>1, SubSeqProperties DEF Butlast
  <2> QED
    BY <2>1, <2>2, <2>3, SeqIsSeq
<1> QED
  BY <1>2, <1>3

LEMMA TruncateSeq ==
    ASSUME NEW S, NEW s \in Seq(S), NEW n \in Nat
    PROVE  /\ Truncate(s, n) \in Seq(S)
           /\ Len(Truncate(s, n)) = IF n < Len(s) THEN n ELSE Len(s)
<1> DEFINE k == IF n < Len(s) THEN n ELSE Len(s)
<1>1. k \in 0..Len(s) /\ Len(s) \in Nat
  OBVIOUS
<1>2. Truncate(s, n) = SubSeq(s, 1, k)
  BY DEF Truncate
<1> HIDE DEF k
<1>3. CASE k = 0
  BY <1>1, <1>2, <1>3, SubSeqProperties DEF k
<1>4. CASE k >= 1
  BY <1>1, <1>2, <1>4, SubSeqProperties DEF k
<1> QED
  BY <1>1, <1>3, <1>4

LEMMA TruncateAny ==
    ASSUME NEW s, IsSeq(s), NEW n \in Nat PROVE IsSeq(Truncate(s, n))
<1> DEFINE S == {s[i] : i \in 1..Len(s)}
<1>1. s \in Seq(S)
  BY IsSeqIn
<1> HIDE DEF S
<1> QED
  BY <1>1, TruncateSeq, SeqIsSeq

(***************************************************************************)
(* The invariant                                                           *)
(***************************************************************************)

VMInv == module \in Modules /\ TypeOK /\ LoopsNest /\ SelfRestored

FrameRecord == [return_pc : Pcs, stack_base : Nat, defer_pcs : Seq(Pcs)]
Handlers == [catch_pc : Pcs, depth : Nat]
Statuses == {"running", "done", "error"}
HandlersDeep == \A i \in DOMAIN handler_stack : handler_stack[i].depth >= 1

LEMMA Operand ==
    ASSUME VMInv
    PROVE  /\ Len(code) \in Nat
           /\ At(pc).op \in {"Jump", "JumpIfFalse", "IterNext", "PushHandler", "DeferPush"} => At(pc).a \in Pcs
           /\ At(pc).op \in {"CallByName", "CallMethod"} => module.fn_entry_pcs[At(pc).a] \in Pcs
           /\ At(pc).op \notin {"Jump", "Throw", "Return", "Halt", "Nop"} => pc + 1 \in Pcs
  BY VMAssumption DEF VMInv, TypeOK, ModulesAssumption, Pcs, At, code

\* the facts about the state that the steps use
LEMMA StateFacts ==
    ASSUME VMInv
    PROVE  /\ IsSeq(stack) /\ IsSeq(native) /\ DOMAIN native = 1..Len(native)
           /\ frames \in Seq(FrameRecord) /\ Len(frames) >= 1 /\ Len(frames) \in Nat
           /\ handler_stack \in Seq(Handlers) /\ HandlersDeep
           /\ Len(native) \in Nat /\ Len(stack) \in Nat
<1>1. /\ IsSeq(stack) /\ IsSeq(native) /\ frames \in Seq(FrameRecord)
      /\ handler_stack \in Seq(Handlers) /\ HandlersDeep /\ frames # <<>>
  BY DEF VMInv, TypeOK, LoopsNest, FrameRecord, Handlers, HandlersDeep
<1>2. DOMAIN native = 1..Len(native)
  BY <1>1 DEF IsSeq
<1> QED
  BY <1>1, <1>2 DEF IsSeq

\* the outermost method call saved an unbound `self`
LEMMA UnwindSelf == ASSUME VMInv PROVE SelfAfterUnwind = NullValue
<1> DEFINE First(i) == /\ native[i].kind = "method"
                       /\ \A j \in DOMAIN native : native[j].kind = "method" => i <= j
<1>1. CASE \A i \in DOMAIN native : native[i].kind # "method"
  BY <1>1 DEF SelfAfterUnwind, VMInv, SelfRestored
<1>2. CASE \E i \in DOMAIN native : native[i].kind = "method"
  <2>1. DOMAIN native = 1..Len(native) /\ Len(native) \in Nat
    BY StateFacts
  <2>2. \E i \in DOMAIN native : First(i)
    <3>1. PICK m \in DOMAIN native : native[m].kind = "method"
      BY <1>2
    <3>2. CASE native[1].kind = "method"
      BY <2>1, <3>1, <3>2
    <3>3. CASE native[1].kind # "method"
      <4>1. 2 \in DOMAIN native /\ 1 \in DOMAIN native
        BY <2>1, <3>1, <3>3
      <4>2. native[2].kind = "method"
        BY <4>1 DEF VMInv, LoopsNest
      <4>3. First(2)
        BY <2>1, <3>3, <4>2
      <4> QED
        BY <4>1, <4>3
    <3> QED
      BY <3>2, <3>3
  <2> DEFINE f == CHOOSE i \in DOMAIN native : First(i)
  <2>3. f \in DOMAIN native /\ First(f)
    BY <2>2
  <2>4. \A j \in 1..(f - 1) : native[j].kind # "method"
    BY <2>1, <2>3
  <2>5. native[f].old_self = NullValue
    BY <2>3, <2>4 DEF VMInv, SelfRestored
  <2> QED
    BY <1>2, <2>5 DEF SelfAfterUnwind
<1> QED
  BY <1>1, <1>2

(***************************************************************************)
(* Shapes of steps                                                         *)
(***************************************************************************)

\* no loop is entered or left
LEMMA SameLoops ==
    ASSUME VMInv, UNCHANGED <<module, native, self>>,
           pc' \in Pcs, IsSeq(stack'), status' \in Statuses,
           frames' \in Seq(FrameRecord), Len(frames') >= Len(frames),
           handler_stack' \in Seq(Handlers), HandlersDeep'
    PROVE  VMInv'
<1>0. Pcs' = Pcs
  BY DEF Pcs, code
<1>1. TypeOK'
  BY <1>0 DEF VMInv, TypeOK, FrameRecord, Handlers, Statuses
<1>2. LoopsNest'
  <2>1. Len(frames) \in Nat /\ Len(frames') \in Nat /\ Len(frames) >= 1
    BY StateFacts
  <2>2. frames' # <<>>
    BY <2>1
  <2> QED
    BY <2>1, <2>2 DEF VMInv, LoopsNest, HandlersDeep
<1>3. SelfRestored'
  BY DEF VMInv, SelfRestored
<1> QED
  BY <1>1, <1>2, <1>3 DEF VMInv

\* no method runs after the step
LEMMA NoMethod ==
    ASSUME VMInv, module' = module, self' = NullValue,
           pc' \in Pcs, IsSeq(stack'), status' \in Statuses,
           frames' \in Seq(FrameRecord), Len(frames') >= 1,
           handler_stack' \in Seq(Handlers), HandlersDeep',
           native' = <<>> \/ \E d : /\ native' = <<d>> /\ d.kind = "defer" /\ d.rest \in Seq(Pcs)
    PROVE  VMInv'
<1>0. Pcs' = Pcs
  BY DEF Pcs, code
<1>1. /\ IsSeq(native')
      /\ \A i, j \in DOMAIN native' : ~(i < j)
      /\ \A i \in DOMAIN native' : native'[i].kind = "defer" /\ native'[i].rest \in Seq(Pcs)
  <2>1. CASE native' = <<>>
    BY <2>1 DEF IsSeq
  <2>2. ASSUME NEW d, native' = <<d>>, d.kind = "defer", d.rest \in Seq(Pcs)
        PROVE  <1>1!:
    <3>1. native' \in Seq({d}) /\ Len(native') = 1 /\ native'[1] = d /\ DOMAIN native' = 1..1
      BY <2>2
    <3>2. IsSeq(native')
      BY <3>1, SeqIsSeq
    <3>3. \A i \in DOMAIN native' : i = 1
      BY <3>1
    <3> QED
      BY <2>2, <3>1, <3>2, <3>3
  <2> QED
    BY <2>1, <2>2
<1>2. TypeOK'
  BY <1>0, <1>1 DEF TypeOK, FrameRecord, Handlers, Statuses
<1>3. LoopsNest'
  <2>1. frames' # <<>>
    OBVIOUS
  <2> QED
    BY <1>1, <2>1 DEF LoopsNest, HandlersDeep
<1>4. SelfRestored'
  BY <1>1 DEF SelfRestored
<1> QED
  BY <1>2, <1>3, <1>4 DEF VMInv

LEMMA FailStep == ASSUME VMInv, Fail PROVE VMInv'
<1>1. self' = NullValue
  BY UnwindSelf DEF Fail
<1>2. HandlersDeep'
  BY StateFacts DEF Fail, HandlersDeep
<1> QED
  BY <1>1, <1>2, NoMethod, StateFacts DEF Fail, VMInv, TypeOK, Statuses

LEMMA RaiseStep ==
    ASSUME VMInv, NEW s, NEW v, IsSeq(s), Raise(s, v) PROVE VMInv'
<1> DEFINE h == Top(handler_stack)
<1>1. CASE handler_stack = <<>> \/ (native # <<>> /\ native[1].kind = "defer")
  BY <1>1, FailStep DEF Raise
<1>2. CASE ~(handler_stack = <<>> \/ (native # <<>> /\ native[1].kind = "defer"))
  <2>1. /\ handler_stack' = Butlast(handler_stack)
        /\ frames' = Truncate(frames, h.depth)
        /\ stack' = Append(s, v)
        /\ pc' = h.catch_pc
        /\ self' = SelfAfterUnwind
        /\ native' = <<>>
        /\ UNCHANGED <<module, status>>
    BY <1>2 DEF Raise
  <2>2. /\ handler_stack \in Seq(Handlers) /\ Len(handler_stack) \in DOMAIN handler_stack
        /\ handler_stack # <<>> /\ HandlersDeep
    BY <1>2, StateFacts
  <2>3. h \in Handlers /\ h.depth >= 1
    BY <2>2 DEF Top, HandlersDeep
  <2>4. handler_stack' \in Seq(Handlers)
    BY <2>1, <2>2, SubSeqProperties DEF Butlast
  <2>5. HandlersDeep'
    <3> DEFINE hs == handler_stack
    <3>1. IsSeq(hs) /\ DOMAIN hs = 1..Len(hs) /\ hs # <<>>
      BY <2>2, SeqIsSeq
    <3> HIDE DEF hs
    <3>2. DOMAIN Butlast(hs) = 1..(Len(hs) - 1) /\ \A i \in 1..(Len(hs) - 1) : Butlast(hs)[i] = hs[i]
      BY ONLY <3>1, ButlastAny
    <3>3. 1..(Len(hs) - 1) \subseteq 1..Len(hs)
      BY ONLY <3>1 DEF IsSeq
    <3>4. handler_stack' = Butlast(hs)
      BY ONLY <2>1 DEF hs
    <3> QED
      BY ONLY <2>2, <3>1, <3>2, <3>3, <3>4 DEF HandlersDeep, hs
  <2>6. frames' \in Seq(FrameRecord) /\ Len(frames') >= 1
    <3>1. h.depth \in Nat
      BY <2>3 DEF Handlers
    <3> QED
      BY <2>1, <2>3, <3>1, TruncateSeq, StateFacts
  <2>7. IsSeq(stack') /\ pc' \in Pcs /\ status' \in Statuses
    BY <2>1, <2>3, AppendAny DEF Handlers, VMInv, TypeOK, Statuses
  <2>8. self' = NullValue
    BY <2>1, UnwindSelf
  <2> QED
    BY <2>1, <2>4, <2>5, <2>6, <2>7, <2>8, NoMethod
<1> QED
  BY <1>1, <1>2

\* what Frames::pop leaves
LEMMA PopFrameStep ==
    ASSUME VMInv, NEW s, NEW v, IsSeq(s), PopFrame(s, v)
    PROVE  /\ pc' \in Pcs /\ IsSeq(stack') /\ status' \in Statuses
           /\ frames' \in Seq(FrameRecord) /\ Len(frames') >= 1
           /\ Len(frames) > 1 => Len(frames') = Len(frames) - 1
<1>1. frames \in Seq(FrameRecord) /\ Len(frames) >= 1 /\ Len(frames) \in Nat
  BY StateFacts
<1>2. CASE Len(frames) = 1
  <2>1. status' = "done" /\ stack' = s /\ pc' = pc /\ frames' = frames
    BY <1>2 DEF PopFrame
  <2>2. pc \in Pcs /\ "done" \in Statuses
    BY DEF VMInv, TypeOK, Statuses
  <2>3. IsSeq(stack') /\ frames' \in Seq(FrameRecord)
    BY <1>1, <2>1
  <2> QED
    BY <1>1, <1>2, <2>1, <2>2, <2>3
<1>3. CASE Len(frames) # 1
  <2>1. Top(frames) \in FrameRecord
    BY <1>1 DEF Top
  <2>2. frames' = Butlast(frames) /\ frames # <<>>
    BY <1>1, <1>3 DEF PopFrame
  <2>3. frames' \in Seq(FrameRecord) /\ Len(frames') = Len(frames) - 1
    <3>1. frames' \in Seq(FrameRecord)
      BY <1>1, <2>2, SubSeqProperties DEF Butlast
    <3>2. Len(frames') = Len(frames) - 1
      BY <1>1, <2>2, SeqIsSeq, ButlastAny
    <3> QED
      BY <3>1, <3>2
  <2>4. IsSeq(stack')
    <3>1. IsSeq(Truncate(s, Top(frames).stack_base))
      BY <2>1, TruncateAny DEF FrameRecord
    <3>2. stack' = Append(Truncate(s, Top(frames).stack_base), v)
      BY <1>3 DEF PopFrame
    <3> QED
      BY <3>1, <3>2, AppendAny
  <2>5. pc' = Top(frames).return_pc /\ status' = status
    BY <1>3 DEF PopFrame
  <2>6. pc' \in Pcs /\ status' \in Statuses
    BY <2>1, <2>5 DEF FrameRecord, VMInv, TypeOK, Statuses
  <2> QED
    BY <1>1, <1>3, <2>3, <2>4, <2>6
<1> QED
  BY <1>2, <1>3

(***************************************************************************)
(* The actions                                                             *)
(***************************************************************************)

LEMMA InitStep == Init => VMInv
<1> SUFFICES ASSUME Init PROVE VMInv
  OBVIOUS
<1>1. 0 \in Pcs
  <2>1. module \in Modules
    BY DEF Init
  <2>2. Len(module.code) \in Nat /\ Len(module.code) > 0
    BY ONLY <2>1, VMAssumption DEF ModulesAssumption
  <2> QED
    BY ONLY <2>2 DEF Pcs, code
<1>2. frames \in Seq(FrameRecord) /\ frames # <<>>
  <2>1. [return_pc |-> 0, stack_base |-> 0, defer_pcs |-> <<>>] \in FrameRecord
    BY <1>1 DEF FrameRecord
  <2> QED
    BY <2>1 DEF Init
<1>3. TypeOK
  BY <1>1, <1>2 DEF Init, TypeOK, IsSeq, FrameRecord
<1>4. LoopsNest /\ SelfRestored
  BY <1>2 DEF Init, LoopsNest, SelfRestored
<1> QED
  BY <1>3, <1>4 DEF Init, VMInv

\* instructions that touch the operands, the iterators or the output only
LEMMA StraightStep ==
    ASSUME VMInv,
           Const \/ LoadSelf \/ Dup \/ Eq \/ MulNull \/ PopValue \/ PrintTop \/ CallBuiltin
             \/ Jump \/ JumpIfFalse \/ Iter \/ IterNext
    PROVE  VMInv'
<1> DEFINE Quiet == /\ UNCHANGED <<module, frames, handler_stack, native, self, status>>
                    /\ pc' \in Pcs /\ IsSeq(stack')
<1>1. Quiet => VMInv'
  <2> SUFFICES ASSUME Quiet PROVE VMInv'
    OBVIOUS
  <2>1. HandlersDeep'
    BY StateFacts DEF HandlersDeep
  <2>2. status' \in Statuses
    BY DEF VMInv, TypeOK, Statuses
  <2> QED
    BY <2>1, <2>2, SameLoops, StateFacts
<1>2. /\ \A v : IsSeq(Append(stack, v))
      /\ IsSeq(Butlast(stack)) /\ IsSeq(Butlast(Butlast(stack)))
      /\ \A v : IsSeq(Append(Butlast(stack), v)) /\ IsSeq(Append(Butlast(Butlast(stack)), v))
  BY StateFacts, AppendAny, ButlastAny
<1>3. /\ At(pc).op \in {"Jump", "JumpIfFalse", "IterNext"} => At(pc).a \in Pcs
      /\ At(pc).op \notin {"Jump", "Throw", "Return", "Halt", "Nop"} => pc + 1 \in Pcs
      /\ IsSeq(stack)
  BY Operand, StateFacts
<1>4. CASE Const
  BY <1>1, <1>2, <1>3, <1>4 DEF Const, Push, Fetch
<1>5. CASE LoadSelf
  BY <1>1, <1>2, <1>3, <1>5 DEF LoadSelf, Push, Fetch
<1>6. CASE Dup
  BY <1>1, <1>2, <1>3, <1>6 DEF Dup, Push, Fetch
<1>7. CASE Eq
  BY <1>1, <1>2, <1>3, <1>7 DEF Eq, Push, Fetch
<1>8. CASE PopValue
  BY <1>1, <1>2, <1>3, <1>8 DEF PopValue, Fetch
<1>9. CASE PrintTop
  BY <1>1, <1>2, <1>3, <1>9 DEF PrintTop, Fetch
<1>10. CASE CallBuiltin
  BY <1>1, <1>2, <1>3, <1>10 DEF CallBuiltin, Fetch
<1>11. CASE Jump
  BY <1>1, <1>2, <1>3, <1>11 DEF Jump, Goto, Fetch
<1>12. CASE JumpIfFalse
  BY <1>1, <1>2, <1>3, <1>12 DEF JumpIfFalse, Goto, Fetch
<1>13. CASE Iter
  BY <1>1, <1>2, <1>3, <1>13 DEF Iter, Fetch
<1>14. CASE IterNext
  BY <1>1, <1>2, <1>3, <1>14 DEF IterNext, Fetch
<1>15. CASE MulNull
  BY <1>1, <1>2, <1>3, <1>15 DEF MulNull, Push, Fetch
<1> QED
  BY <1>4, <1>5, <1>6, <1>7, <1>8, <1>9, <1>10, <1>11, <1>12, <1>13, <1>14, <1>15

LEMMA HandlerStep == ASSUME VMInv, PushHandler \/ PopHandler \/ DeferPush PROVE VMInv'
<1>1. /\ handler_stack \in Seq(Handlers) /\ HandlersDeep
      /\ frames \in Seq(FrameRecord) /\ Len(frames) >= 1 /\ Len(frames) \in Nat /\ IsSeq(stack)
  BY StateFacts
<1>2. status \in Statuses
  BY DEF VMInv, TypeOK, Statuses
<1>3. CASE PushHandler
  <2>1. pc + 1 \in Pcs /\ [catch_pc |-> At(pc).a, depth |-> Len(frames)] \in Handlers
    BY <1>1, <1>3, Operand DEF PushHandler, Fetch, Handlers
  <2>2. handler_stack' \in Seq(Handlers)
    BY <1>1, <1>3, <2>1 DEF PushHandler
  <2>3. HandlersDeep'
    BY <1>1, <1>3, SeqIsSeq, AppendAny DEF PushHandler, HandlersDeep
  <2> QED
    BY <1>1, <1>2, <1>3, <2>1, <2>2, <2>3, SameLoops DEF PushHandler
<1>4. CASE PopHandler
  <2>1. pc + 1 \in Pcs
    BY <1>4, Operand DEF PopHandler, Fetch
  <2>2. CASE handler_stack = <<>>
    BY <1>1, <1>2, <1>4, <2>1, <2>2, SameLoops DEF PopHandler, HandlersDeep
  <2>3. CASE handler_stack # <<>>
    <3>1. handler_stack' = Butlast(handler_stack)
      BY <1>4, <2>3 DEF PopHandler
    <3>2. handler_stack' \in Seq(Handlers)
      BY <1>1, <2>3, <3>1, SubSeqProperties DEF Butlast
    <3>3. \A i \in DOMAIN handler_stack' : i \in DOMAIN handler_stack /\ handler_stack'[i] = handler_stack[i]
      <4>1. IsSeq(handler_stack) /\ DOMAIN handler_stack = 1..Len(handler_stack)
        BY <1>1, SeqIsSeq
      <4>2. /\ DOMAIN handler_stack' = 1..(Len(handler_stack) - 1)
            /\ \A i \in 1..(Len(handler_stack) - 1) : handler_stack'[i] = handler_stack[i]
        BY <2>3, <3>1, <4>1, ButlastAny
      <4> QED
        BY <1>1, <4>1, <4>2
    <3>4. HandlersDeep'
      BY <1>1, <3>3 DEF HandlersDeep
    <3> QED
      BY <1>1, <1>2, <1>4, <2>1, <3>2, <3>4, SameLoops DEF PopHandler
  <2> QED
    BY <2>2, <2>3
<1>5. CASE DeferPush
  <2>1. pc + 1 \in Pcs /\ At(pc).a \in Pcs
    BY <1>5, Operand DEF DeferPush, Fetch
  <2>2. frames' \in Seq(FrameRecord) /\ Len(frames') = Len(frames)
    <3> DEFINE f == frames[Len(frames)]
               g == [f EXCEPT !.defer_pcs = Append(@, At(pc).a)]
    <3>1. f \in FrameRecord /\ Len(frames) \in DOMAIN frames
      BY <1>1
    <3>2. Append(f.defer_pcs, At(pc).a) \in Seq(Pcs)
      BY <2>1, <3>1 DEF FrameRecord
    <3>3. g \in FrameRecord
      BY <3>1, <3>2 DEF FrameRecord
    <3>4. frames' = [frames EXCEPT ![Len(frames)] = g]
      BY <1>5 DEF DeferPush
    <3> HIDE DEF g
    <3> QED
      BY <1>1, <3>1, <3>3, <3>4
  <2>3. HandlersDeep'
    BY <1>1, <1>5 DEF DeferPush, HandlersDeep
  <2> QED
    BY <1>1, <1>2, <1>5, <2>1, <2>2, <2>3, SameLoops DEF DeferPush
<1> QED
  BY <1>3, <1>4, <1>5

LEMMA ErrorStep == ASSUME VMInv, Throw \/ DivByZero \/ MulError \/ Underflow PROVE VMInv'
<1>1. IsSeq(Butlast(stack)) /\ IsSeq(Butlast(Butlast(stack)))
  BY StateFacts, ButlastAny
<1>2. CASE Throw
  BY <1>1, <1>2, RaiseStep DEF Throw
<1>3. CASE MulError \/ Underflow
  BY <1>3, FailStep DEF MulError, Underflow
<1>4. CASE DivByZero
  BY <1>1, <1>4, RaiseStep DEF DivByZero
<1> QED
  BY <1>2, <1>3, <1>4

\* a frame whose base is the stack without the receiver
LEMMA FrameIsFrame ==
    ASSUME VMInv, pc + 1 \in Pcs, NEW base \in Nat PROVE Frame(base) \in FrameRecord
  BY DEF Frame, FrameRecord

LEMMA CallByNameStep == ASSUME VMInv, CallByName PROVE VMInv'
<1>1. pc + 1 \in Pcs /\ pc' \in Pcs
  BY Operand DEF CallByName, Fetch
<1>2. frames' \in Seq(FrameRecord) /\ Len(frames') >= Len(frames)
  BY <1>1, StateFacts, FrameIsFrame DEF CallByName
<1>3. HandlersDeep' /\ status' \in Statuses
  BY StateFacts DEF CallByName, HandlersDeep, VMInv, TypeOK, Statuses
<1> QED
  BY <1>1, <1>2, <1>3, SameLoops, StateFacts DEF CallByName

LEMMA CallMethodStep == ASSUME VMInv, CallMethod PROVE VMInv'
<1> DEFINE n == [kind |-> "method", target |-> Len(frames), old_self |-> self]
<1>0. /\ module' = module /\ stack # <<>> /\ stack' = Butlast(stack)
      /\ frames' = Append(frames, Frame(Len(stack) - 1))
      /\ native' = Append(native, n)
      /\ UNCHANGED <<handler_stack, status>>
  BY DEF CallMethod
<1>1. Pcs' = Pcs /\ pc + 1 \in Pcs /\ pc' \in Pcs
  BY Operand DEF CallMethod, Fetch, Pcs, code
<1>2. frames' \in Seq(FrameRecord) /\ Len(frames') = Len(frames) + 1
  <2>1. Len(stack) - 1 \in Nat
    BY <1>0, StateFacts, ButlastAny
  <2>2. Frame(Len(stack) - 1) \in FrameRecord
    BY <1>1, <2>1, FrameIsFrame
  <2> QED
    BY <1>0, <2>2, StateFacts
<1>3. /\ IsSeq(native') /\ DOMAIN native' = 1..(Len(native) + 1)
      /\ DOMAIN native = 1..Len(native) /\ Len(native) \in Nat
      /\ \A i \in 1..Len(native) : native'[i] = native[i]
      /\ native'[Len(native) + 1] = n
  BY <1>0, StateFacts, AppendAny
<1>4. n.kind = "method" /\ n.target = Len(frames) /\ n.old_self = self
  OBVIOUS
<1> HIDE DEF n
<1>5. TypeOK'
  <2>1. \A i \in DOMAIN native' :
           \/ native'[i].kind = "method"
           \/ native'[i].kind = "defer" /\ native'[i].rest \in Seq(Pcs)
    <3>1. \A i \in DOMAIN native :
             \/ native[i].kind = "method"
             \/ native[i].kind = "defer" /\ native[i].rest \in Seq(Pcs)
      BY ONLY VMInv DEF VMInv, TypeOK
    <3> HIDE DEF VMInv
    <3> SUFFICES ASSUME NEW i \in DOMAIN native'
                 PROVE  \/ native'[i].kind = "method"
                        \/ native'[i].kind = "defer" /\ native'[i].rest \in Seq(Pcs)
      OBVIOUS
    <3>2. i \in DOMAIN native \/ i = Len(native) + 1
      BY ONLY <1>3
    <3> QED
      BY ONLY <1>3, <1>4, <3>1, <3>2
  <2>2. IsSeq(stack')
    BY <1>0, StateFacts, ButlastAny
  <2>3. handler_stack' \in Seq(Handlers) /\ status' \in Statuses
    BY <1>0, StateFacts DEF VMInv, TypeOK, Statuses
  <2> QED
    BY <1>1, <1>2, <1>3, <2>1, <2>2, <2>3 DEF TypeOK, FrameRecord, Handlers, Statuses
<1>6. LoopsNest'
  <2>1. Len(frames) \in Nat /\ Len(frames) >= 1 /\ frames' # <<>>
    BY <1>2, StateFacts
  <2>2. \A i \in DOMAIN native' :
           native'[i].kind = "method" => native'[i].target \in 1..(Len(frames') - 1)
    BY <1>2, <1>3, <1>4, <2>1 DEF VMInv, LoopsNest
  <2>3. ASSUME NEW i \in DOMAIN native', NEW j \in DOMAIN native', i < j
        PROVE  /\ native'[j].kind = "method"
               /\ native'[i].kind = "method" => native'[i].target < native'[j].target
    <3>1. i \in DOMAIN native /\ native'[i] = native[i]
      BY <1>3, <2>3
    <3>2. CASE j = Len(native) + 1
      BY <1>3, <1>4, <2>1, <3>1, <3>2 DEF VMInv, LoopsNest
    <3>3. CASE j # Len(native) + 1
      <4>1. j \in DOMAIN native /\ native'[j] = native[j]
        BY <1>3, <3>3
      <4> QED
        BY <2>3, <3>1, <4>1 DEF VMInv, LoopsNest
    <3> QED
      BY <3>2, <3>3
  <2>4. HandlersDeep'
    BY <1>0, StateFacts DEF HandlersDeep
  <2> QED
    BY <2>1, <2>2, <2>3, <2>4 DEF LoopsNest, HandlersDeep
<1>7. SelfRestored'
  <2>1. native'[Len(native) + 1].kind = "method" /\ Len(native) + 1 \in DOMAIN native'
    BY <1>3, <1>4
  <2>2. ASSUME NEW i \in DOMAIN native', native'[i].kind = "method",
               \A j \in 1..(i - 1) : native'[j].kind # "method"
        PROVE  native'[i].old_self = NullValue
    <3>1. CASE i = Len(native) + 1
      <4>1. \A j \in DOMAIN native : native[j].kind # "method"
        BY <1>3, <2>2, <3>1
      <4> QED
        BY <1>3, <1>4, <3>1, <4>1 DEF VMInv, SelfRestored
    <3>2. CASE i # Len(native) + 1
      <4>1. i \in DOMAIN native /\ native'[i] = native[i]
        BY <1>3, <3>2
      <4>2. \A j \in 1..(i - 1) : native[j].kind # "method"
        BY <1>3, <2>2, <4>1
      <4> QED
        BY <2>2, <4>1, <4>2 DEF VMInv, SelfRestored
    <3> QED
      BY <3>1, <3>2
  <2> QED
    BY <2>1, <2>2 DEF SelfRestored
<1> QED
  BY <1>0, <1>5, <1>6, <1>7 DEF VMInv

\* a return from the frame of main's loop, where no nested loop runs
LEMMA OuterStep == ASSUME VMInv, ReturnPlain \/ ReturnDefers \/ Halt PROVE VMInv'
<1>1. native = <<>> /\ self = NullValue
  BY DEF ReturnPlain, ReturnDefers, Halt, VMInv, SelfRestored
<1>2. IsSeq(Butlast(stack)) /\ HandlersDeep /\ handler_stack \in Seq(Handlers)
  BY StateFacts, ButlastAny
<1>3. CASE ReturnPlain
  <2>1. HandlersDeep'
    BY <1>2, <1>3 DEF ReturnPlain, HandlersDeep
  <2> QED
    BY <1>1, <1>2, <1>3, <2>1, PopFrameStep, NoMethod DEF ReturnPlain
<1>4. CASE ReturnDefers
  <2> DEFINE blocks == Reversed(Top(frames).defer_pcs)
             g == [Top(frames) EXCEPT !.defer_pcs = <<>>]
  <2>1. /\ frames \in Seq(FrameRecord) /\ Len(frames) >= 1 /\ Len(frames) \in Nat
        /\ Top(frames) \in FrameRecord /\ Top(frames).defer_pcs # <<>>
    BY <1>4, StateFacts DEF Top, ReturnDefers
  <2>2. blocks \in Seq(Pcs) /\ blocks # <<>>
    <3> DEFINE q == Top(frames).defer_pcs
    <3>1. q \in Seq(Pcs) /\ q # <<>>
      BY <2>1 DEF FrameRecord
    <3>2. blocks = [i \in 1..Len(q) |-> q[Len(q) + 1 - i]]
      BY DEF Reversed
    <3> HIDE DEF q, blocks
    <3>3. Len(q) \in Nat /\ Len(q) >= 1
      BY <3>1
    <3>4. \A i \in 1..Len(q) : q[Len(q) + 1 - i] \in Pcs
      BY <3>1, <3>3
    <3>5. blocks \in [1..Len(q) -> Pcs]
      BY <3>2, <3>4
    <3>6. blocks \in Seq(Pcs) /\ Len(blocks) = Len(q)
      BY <3>3, <3>5, SeqDef
    <3> QED
      BY <3>3, <3>6
  <2>3. Head(blocks) \in Pcs /\ Tail(blocks) \in Seq(Pcs)
    BY <2>2
  <2>4. frames' \in Seq(FrameRecord) /\ Len(frames') >= 1
    <3>0. <<>> \in Seq(Pcs)
      OBVIOUS
    <3>1. g \in FrameRecord
      <4> DEFINE f == Top(frames)
      <4>1. f \in [return_pc : Pcs, stack_base : Nat, defer_pcs : Seq(Pcs)]
        BY <2>1 DEF FrameRecord
      <4> HIDE DEF f
      <4>2. [f EXCEPT !.defer_pcs = <<>>] \in [return_pc : Pcs, stack_base : Nat, defer_pcs : Seq(Pcs)]
        BY <3>0, <4>1
      <4> QED
        BY <4>2 DEF FrameRecord, f
    <3>2. frames' = [frames EXCEPT ![Len(frames)] = g]
      BY <1>4 DEF ReturnDefers, Top
    <3> HIDE DEF g
    <3> QED
      BY <2>1, <3>1, <3>2
  <2>5. \E d : native' = <<d>> /\ d.kind = "defer" /\ d.rest \in Seq(Pcs)
    <3>1. native' = <<DeferLoop(PopOrNull(stack), pc + 1, Tail(blocks))>>
      BY <1>4 DEF ReturnDefers
    <3> DEFINE d == DeferLoop(PopOrNull(stack), pc + 1, Tail(blocks))
    <3>2. d.kind = "defer" /\ d.rest = Tail(blocks)
      BY ONLY DEF DeferLoop
    <3> HIDE DEF blocks, d
    <3>3. native' = <<d>>
      BY ONLY <3>1 DEF d
    <3> QED
      BY ONLY <2>3, <3>2, <3>3
  <2>6. pc' \in Pcs /\ IsSeq(stack') /\ HandlersDeep' /\ status' \in Statuses
    BY <1>2, <1>4, <2>3, AppendAny DEF ReturnDefers, HandlersDeep, VMInv, TypeOK, Statuses
  <2> QED
    BY <1>1, <1>2, <1>4, <2>4, <2>5, <2>6, NoMethod DEF ReturnDefers
<1>5. CASE Halt
  <2>1. HandlersDeep' /\ status' \in Statuses /\ pc' \in Pcs
    BY <1>2, <1>5 DEF Halt, HandlersDeep, Statuses, VMInv, TypeOK
  <2> QED
    BY <1>1, <1>2, <1>5, <2>1, StateFacts, NoMethod DEF Halt
<1> QED
  BY <1>3, <1>4, <1>5

\* in the loop of a deferred block no method runs: it is the outermost loop
LEMMA BlockStep == ASSUME VMInv, DeferNext \/ ReturnFromBlock PROVE VMInv'
<1>1. PICK s : IsSeq(s) /\ EndBlock(s)
  BY StateFacts, ButlastAny DEF DeferNext, ReturnFromBlock
<1>2. UNCHANGED <<module, handler_stack, self>> /\ InDefer
  BY DEF DeferNext, ReturnFromBlock, DeferEnd
<1>3. /\ Len(native) \in DOMAIN native /\ native[Len(native)].kind = "defer"
      /\ DOMAIN native = 1..Len(native) /\ Len(native) \in Nat
  BY <1>2, StateFacts DEF InDefer, Top, IsSeq
<1>4. \A i \in DOMAIN native : native[i].kind # "method"
  <2>1. Len(native) = 1
    <3>1. 1 \in DOMAIN native /\ ~(1 < Len(native))
      BY <1>3 DEF VMInv, LoopsNest
    <3> QED
      BY <1>3, <3>1
  <2> QED
    BY <1>3, <2>1
<1>5. self' = NullValue
  BY <1>2, <1>4 DEF VMInv, SelfRestored
<1>6. HandlersDeep' /\ handler_stack' \in Seq(Handlers)
  BY <1>2, StateFacts DEF HandlersDeep
<1> DEFINE d == Top(native)
<1>7. d.rest \in Seq(Pcs)
  BY <1>3 DEF Top, VMInv, TypeOK
<1>8. CASE d.rest # <<>>
  <2>1. /\ native' = <<DeferLoop(d.ret, d.cont, Tail(d.rest))>>
        /\ pc' = Head(d.rest) /\ stack' = s /\ UNCHANGED <<frames, status>>
    BY <1>1, <1>8 DEF EndBlock
  <2>2. Head(d.rest) \in Pcs /\ Tail(d.rest) \in Seq(Pcs)
    BY <1>7, <1>8
  <2>4. \E e : native' = <<e>> /\ e.kind = "defer" /\ e.rest \in Seq(Pcs)
    BY <2>1, <2>2 DEF DeferLoop
  <2>5. status' \in Statuses
    BY <2>1 DEF VMInv, TypeOK, Statuses
  <2> QED
    BY <1>1, <1>2, <1>5, <1>6, <2>1, <2>2, <2>4, <2>5, NoMethod, StateFacts
<1>9. CASE d.rest = <<>>
  <2>1. native' = <<>> /\ PopFrame(Butlast(s), d.ret)
    BY <1>1, <1>9 DEF EndBlock
  <2>2. IsSeq(Butlast(s))
    BY <1>1, ButlastAny
  <2> QED
    BY <1>2, <1>5, <1>6, <2>1, <2>2, PopFrameStep, NoMethod
<1> QED
  BY <1>8, <1>9

\* A Return in a nested loop pops one frame, and with it the innermost method
\* call exactly if it was that call's frame.
LEMMA NestedStep == ASSUME VMInv, ReturnNested PROVE VMInv'
<1> DEFINE n == Top(native)
           Ends == n.kind = "method" /\ n.target = Len(frames) - 1
<1>1. /\ native # <<>> /\ IsSeq(native) /\ DOMAIN native = 1..Len(native) /\ Len(native) \in Nat
      /\ Len(native) >= 1 /\ n = native[Len(native)]
      /\ \A i \in DOMAIN native : i # Len(native) => i < Len(native)
  BY StateFacts DEF ReturnNested, Top, IsSeq
<1>2. /\ UNCHANGED <<module, handler_stack>>
      /\ Len(frames) > 1 /\ Len(frames) \in Nat
      /\ PopFrame(Butlast(stack), Top(stack))
      /\ IF Ends THEN native' = Butlast(native) /\ self' = n.old_self
                 ELSE UNCHANGED <<native, self>>
  BY StateFacts DEF ReturnNested
<1>3. /\ pc' \in Pcs /\ IsSeq(stack') /\ status' \in Statuses
      /\ frames' \in Seq(FrameRecord) /\ Len(frames') = Len(frames) - 1 /\ frames' # <<>>
  <2>1. IsSeq(Butlast(stack))
    BY StateFacts, ButlastAny
  <2>2. /\ pc' \in Pcs /\ IsSeq(stack') /\ status' \in Statuses
        /\ frames' \in Seq(FrameRecord) /\ Len(frames') = Len(frames) - 1 /\ Len(frames') >= 1
    BY <1>2, <2>1, PopFrameStep
  <2> QED
    BY <2>2
<1> HIDE DEF n
\* the loops that stay are those below the one that ends
<1>4. /\ IsSeq(native') /\ DOMAIN native' \subseteq DOMAIN native
      /\ DOMAIN native' = 1..Len(native')
      /\ \A i \in DOMAIN native' : native'[i] = native[i]
      /\ Ends => DOMAIN native' = 1..(Len(native) - 1)
      /\ ~Ends => native' = native
  <2>1. CASE Ends
    <3>1. /\ native' = Butlast(native)
          /\ IsSeq(Butlast(native)) /\ DOMAIN Butlast(native) = 1..(Len(native) - 1)
          /\ Len(Butlast(native)) = Len(native) - 1
          /\ \A i \in 1..(Len(native) - 1) : Butlast(native)[i] = native[i]
      BY <1>1, <1>2, <2>1, ButlastAny
    <3> QED
      BY <1>1, <2>1, <3>1
  <2>2. CASE ~Ends
    BY <1>1, <1>2, <2>2
  <2> QED
    BY <2>1, <2>2
\* a method that goes on waits for a frame deeper than the one popped
<1>5. \A i \in DOMAIN native' :
         native'[i].kind = "method" => native'[i].target \in 1..(Len(frames') - 1)
  <2> SUFFICES ASSUME NEW i \in DOMAIN native', native'[i].kind = "method"
               PROVE  native'[i].target \in 1..(Len(frames') - 1)
    OBVIOUS
  <2>1. /\ i \in DOMAIN native /\ native'[i] = native[i] /\ native[i].kind = "method"
        /\ native[i].target \in 1..(Len(frames) - 1)
    BY <1>4 DEF VMInv, LoopsNest
  <2>2. native[i].target < Len(frames) - 1
    <3>1. CASE i = Len(native)
      <4>1. ASSUME Ends PROVE FALSE
        <5>1. i \in 1..(Len(native) - 1)
          BY <1>4, <4>1
        <5> QED
          BY <1>1, <3>1, <5>1
      <4> QED
        BY <1>1, <2>1, <3>1, <4>1
    <3>2. CASE i # Len(native)
      <4>1. Len(native) \in DOMAIN native /\ i < Len(native)
        BY <1>1, <2>1, <3>2
      <4>2. n.kind = "method" /\ native[i].target < n.target
        BY <1>1, <2>1, <4>1 DEF VMInv, LoopsNest
      <4>3. n.target \in 1..(Len(frames) - 1)
        BY <1>1, <4>1, <4>2 DEF VMInv, LoopsNest
      <4> QED
        BY <1>2, <2>1, <4>2, <4>3
    <3> QED
      BY <3>1, <3>2
  <2> QED
    BY <1>2, <1>3, <2>1, <2>2
<1>6. HandlersDeep' /\ handler_stack' \in Seq(Handlers) /\ Pcs' = Pcs
  BY <1>2, StateFacts DEF HandlersDeep, Pcs, code
<1>7. TypeOK'
  <2>1. \A i \in DOMAIN native' :
           \/ native'[i].kind = "method"
           \/ native'[i].kind = "defer" /\ native'[i].rest \in Seq(Pcs)
    BY <1>4 DEF VMInv, TypeOK
  <2> QED
    BY <1>3, <1>4, <1>6, <2>1 DEF TypeOK, FrameRecord, Handlers, Statuses
<1>8. LoopsNest'
  <2>1. \A i, j \in DOMAIN native' :
           i < j => /\ native'[j].kind = "method"
                    /\ native'[i].kind = "method" => native'[i].target < native'[j].target
    BY <1>4 DEF VMInv, LoopsNest
  <2> QED
    BY <1>3, <1>5, <1>6, <2>1 DEF LoopsNest, HandlersDeep
<1>9. SelfRestored'
  <2>1. ASSUME NEW i \in DOMAIN native', native'[i].kind = "method",
               \A j \in 1..(i - 1) : native'[j].kind # "method"
        PROVE  native'[i].old_self = NullValue
    <3>1. i \in DOMAIN native /\ native'[i] = native[i]
      BY <1>4
    <3>2. \A j \in 1..(i - 1) : j \in DOMAIN native' /\ native'[j] = native[j]
      <4>1. Len(native') \in Nat
        BY <1>4 DEF IsSeq
      <4>2. i \in 1..Len(native')
        BY <1>4
      <4>3. \A j \in 1..(i - 1) : j \in 1..Len(native')
        BY <4>1, <4>2
      <4> QED
        BY <1>4, <4>3
    <3> QED
      BY <2>1, <3>1, <3>2 DEF VMInv, SelfRestored
  <2>2. ASSUME \A i \in DOMAIN native' : native'[i].kind # "method" PROVE self' = NullValue
    <3>1. CASE Ends
      <4>1. \A j \in 1..(Len(native) - 1) : native[j].kind # "method"
        BY <1>4, <2>2, <3>1
      <4>2. native[Len(native)].old_self = NullValue
        BY <1>1, <3>1, <4>1 DEF VMInv, SelfRestored
      <4> QED
        BY <1>1, <1>2, <3>1, <4>2
    <3>2. CASE ~Ends
      BY <1>2, <1>4, <2>2, <3>2 DEF VMInv, SelfRestored
    <3> QED
      BY <3>1, <3>2
  <2> QED
    BY <2>1, <2>2 DEF SelfRestored
<1> QED
  BY <1>2, <1>7, <1>8, <1>9 DEF VMInv

LEMMA NextStep == VMInv /\ [Next]_vars => VMInv'
<1> SUFFICES ASSUME VMInv, [Next]_vars PROVE VMInv'
  OBVIOUS
<1>1. CASE Const \/ LoadSelf \/ Dup \/ Eq \/ MulNull \/ PopValue \/ PrintTop \/ CallBuiltin
             \/ Jump \/ JumpIfFalse \/ Iter \/ IterNext
  BY <1>1, StraightStep
<1>2. CASE PushHandler \/ PopHandler \/ DeferPush
  BY <1>2, HandlerStep
<1>3. CASE Throw \/ DivByZero \/ MulError \/ Underflow
  BY <1>3, ErrorStep
<1>4. CASE CallByName
  BY <1>4, CallByNameStep
<1>5. CASE CallMethod
  BY <1>5, CallMethodStep
<1>6. CASE ReturnPlain \/ ReturnDefers \/ Halt
  BY <1>6, OuterStep
<1>7. CASE DeferNext \/ ReturnFromBlock
  BY <1>7, BlockStep
<1>8. CASE ReturnNested
  BY <1>8, NestedStep
<1>9. CASE UNCHANGED vars \/ Ended
  BY <1>9 DEF Ended, vars, VMInv, TypeOK, LoopsNest, SelfRestored, Pcs, code
<1> QED
  BY <1>1, <1>2, <1>3, <1>4, <1>5, <1>6, <1>7, <1>8, <1>9 DEF Next

(***************************************************************************)
(* The theorems                                                            *)
(***************************************************************************)

THEOREM Invariance == Spec => []VMInv
<1> QED
  BY InitStep, NextStep, PTL DEF Spec

\* Whatever the compiled modules, as long as their jumps and entries lie in the
\* code, the interpreter never runs off it.
THEOREM StaysInCode == Spec => []TypeOK
<1>1. VMInv => TypeOK
  BY DEF VMInv
<1> QED
  BY <1>1, Invariance, PTL

\* The loops nested in Rust calls mirror the frames, through every return and
\* every error, in every program.
THEOREM LoopsMirrorFrames == Spec => []LoopsNest
<1>1. VMInv => LoopsNest
  BY DEF VMInv
<1> QED
  BY <1>1, Invariance, PTL

\* A method gives `self` back to its caller whether it returns or throws.
THEOREM SelfIsRestored == Spec => []SelfRestored
<1>1. VMInv => SelfRestored
  BY DEF VMInv
<1> QED
  BY <1>1, Invariance, PTL

(***************************************************************************)
(* What a plan knows                                                       *)
(***************************************************************************)

PlanRecord(pl) ==
    [height : Nat, tries : Seq(DOMAIN pl), block : BOOLEAN, busy : BOOLEAN, defers : BOOLEAN]

\* control may go from s to q with h values there and the catches t
Reaches(pl, s, q, h, t) ==
    /\ q \in DOMAIN pl
    /\ pl[q].height <= h
    /\ pl[q].tries = t /\ pl[q].block = pl[s].block
    /\ pl[s].busy => pl[q].busy
    /\ pl[s].defers => pl[q].defers

\* with dh more values and the same catches
Near(pl, s, q, dh) == Reaches(pl, s, q, pl[s].height + dh, pl[s].tries)

LEMMA OperandsBound == ASSUME NEW op PROVE Operands(op) \in 0..2
  BY DEF Operands

LEMMA Planned ==
    ASSUME NEW m, NEW pl, Fits(m, pl), NEW p \in DOMAIN pl
    PROVE  /\ p \in Int /\ pl[p] \in PlanRecord(pl)
           /\ pl[p].height \in Nat /\ pl[p].tries \in Seq(DOMAIN pl)
           /\ Len(pl[p].tries) \in Nat /\ DOMAIN pl[p].tries = 1..Len(pl[p].tries)
           /\ pl[p].block => pl[p].busy
           /\ pl[p].height >= Operands(OpAt(m, p))
           /\ \A e \in Flow(m, p, pl[p]) : Allows(pl, e[1], e[2])
           /\ \A e \in Thrown(OpAt(m, p), pl[p]) : Allows(pl, e[1], e[2])
           /\ OpAt(m, p) = "PopHandler" => pl[p].tries # <<>>
           /\ OpAt(m, p) = "Return" =>
                 /\ pl[p].tries = <<>>
                 /\ (pl[p].defers /\ p + 1 \in DOMAIN pl /\ pl[p + 1].busy) => EndsBlock(pl[p + 1])
           /\ OpAt(m, p) \in {"Return", "DeferPush"} => ~pl[p].block
           /\ OpAt(m, p) = "Halt" => ~pl[p].busy
           /\ OpAt(m, p) = "Nop" => EndsBlock(pl[p])
<1>1. p \in Int /\ pl[p] \in PlanRecord(pl)
  <2>1. p \in 0..(Len(m.code) - 1)
    BY DEF Fits
  <2>2. pl[p] \in PlanRecord(pl)
    BY DEF Fits, PlanRecord
  <2> QED
    BY <2>1, <2>2
<1>2. pl[p].height \in Nat /\ pl[p].tries \in Seq(DOMAIN pl)
  BY <1>1 DEF PlanRecord
<1>3. Len(pl[p].tries) \in Nat /\ DOMAIN pl[p].tries = 1..Len(pl[p].tries)
  BY <1>2
<1>4. /\ pl[p].block => pl[p].busy
      /\ pl[p].height >= Operands(OpAt(m, p))
      /\ \A e \in Flow(m, p, pl[p]) \cup Thrown(OpAt(m, p), pl[p]) : Allows(pl, e[1], e[2])
      /\ OpAt(m, p) = "PopHandler" => pl[p].tries # <<>>
      /\ OpAt(m, p) = "Return" =>
            /\ pl[p].tries = <<>>
            /\ (pl[p].defers /\ p + 1 \in DOMAIN pl /\ pl[p + 1].busy) => EndsBlock(pl[p + 1])
      /\ OpAt(m, p) \in {"Return", "DeferPush"} => ~pl[p].block
      /\ OpAt(m, p) = "Halt" => ~pl[p].busy
      /\ OpAt(m, p) = "Nop" => EndsBlock(pl[p])
  BY DEF Fits, OpAt
<1> QED
  BY <1>1, <1>2, <1>3, <1>4

\* what a record of a plan becomes
LEMMA Changed ==
    ASSUME NEW pl, NEW x \in PlanRecord(pl), NEW n \in Int, NEW t, NEW b
    PROVE  /\ Raised(x, n).height = x.height + n /\ Raised(x, n).tries = x.tries
           /\ Raised(x, n).block = x.block /\ Raised(x, n).busy = x.busy /\ Raised(x, n).defers = x.defers
           /\ [x EXCEPT !.tries = t].tries = t /\ [x EXCEPT !.tries = t].height = x.height
           /\ [x EXCEPT !.tries = t].block = x.block /\ [x EXCEPT !.tries = t].busy = x.busy
           /\ [x EXCEPT !.tries = t].defers = x.defers
           /\ [x EXCEPT !.defers = b].defers = b /\ [x EXCEPT !.defers = b].height = x.height
           /\ [x EXCEPT !.defers = b].tries = x.tries /\ [x EXCEPT !.defers = b].block = x.block
           /\ [x EXCEPT !.defers = b].busy = x.busy
  BY DEF Raised, PlanRecord

LEMMA NearRaised ==
    ASSUME NEW m, NEW pl, Fits(m, pl), NEW p \in DOMAIN pl, NEW q, NEW n \in Int,
           Allows(pl, q, Raised(pl[p], n))
    PROVE  Near(pl, p, q, n)
<1> DEFINE x == pl[p]
           y == Raised(x, n)
<1>1. x \in PlanRecord(pl)
  BY Planned
<1>2. y.height = x.height + n /\ y.tries = x.tries /\ y.block = x.block /\ y.busy = x.busy /\ y.defers = x.defers
  BY ONLY <1>1, n \in Int, Changed
<1>3. Allows(pl, q, y)
  OBVIOUS
<1> HIDE DEF x, y
<1>4. Reaches(pl, p, q, x.height + n, x.tries)
  BY ONLY <1>2, <1>3 DEF Reaches, Allows, x
<1> QED
  BY ONLY <1>4 DEF Near, x

\* the straight-line instructions
LEMMA FlowNear ==
    ASSUME NEW m, NEW pl, Fits(m, pl), NEW p \in DOMAIN pl
    PROVE  /\ OpAt(m, p) \in {"Const", "LoadSelf", "Dup", "IterNext", "CallByName"} => Near(pl, p, p + 1, 1)
           /\ OpAt(m, p) \in {"CallBuiltin", "Iter", "CallMethod"} => Near(pl, p, p + 1, 0)
           /\ OpAt(m, p) \in {"Eq", "Mul", "Pop", "Store", "Print", "JumpIfFalse"} => Near(pl, p, p + 1, -1)
           /\ OpAt(m, p) = "Jump" => Near(pl, p, m.code[p + 1].a, 0)
           /\ OpAt(m, p) \in {"JumpIfFalse", "IterNext"} => Near(pl, p, m.code[p + 1].a, -1)
<1> DEFINE x == pl[p]
<1>1. \A e \in Flow(m, p, x) : Allows(pl, e[1], e[2])
  BY Planned
<1>2. \A q : Allows(pl, q, x) => Near(pl, p, q, 0)
  BY Planned DEF Near, Reaches, Allows
<1>3. \A q, n : n \in Int /\ Allows(pl, q, Raised(x, n)) => Near(pl, p, q, n)
  BY NearRaised
<1> HIDE DEF x
<1>4. ASSUME NEW q, NEW n \in Int, <<q, Raised(x, n)>> \in Flow(m, p, x) PROVE Near(pl, p, q, n)
  BY <1>1, <1>3, <1>4
<1>5. ASSUME NEW q, <<q, x>> \in Flow(m, p, x) PROVE Near(pl, p, q, 0)
  BY <1>1, <1>2, <1>5
<1>6. CASE OpAt(m, p) \in {"Const", "LoadSelf", "Dup"}
  <2>1. Flow(m, p, x) = {<<p + 1, Raised(x, 1)>>}
    BY <1>6 DEF Flow, OpAt
  <2> QED
    BY <1>4, <1>6, <2>1
<1>7. CASE OpAt(m, p) \in {"CallBuiltin", "Iter"}
  <2>1. Flow(m, p, x) = {<<p + 1, x>>}
    BY <1>7 DEF Flow, OpAt
  <2> QED
    BY <1>5, <1>7, <2>1
<1>8. CASE OpAt(m, p) \in {"Eq", "Mul", "Pop", "Store", "Print"}
  <2>1. Flow(m, p, x) = {<<p + 1, Raised(x, -1)>>}
    BY <1>8 DEF Flow, OpAt
  <2> QED
    BY <1>4, <1>8, <2>1
<1>9. CASE OpAt(m, p) = "Jump"
  <2>1. Flow(m, p, x) = {<<m.code[p + 1].a, x>>}
    BY <1>9 DEF Flow, OpAt
  <2> QED
    BY <1>5, <1>9, <2>1
<1>10. CASE OpAt(m, p) = "JumpIfFalse"
  <2>1. Flow(m, p, x) = {<<p + 1, Raised(x, -1)>>, <<m.code[p + 1].a, Raised(x, -1)>>}
    BY <1>10 DEF Flow, OpAt
  <2> QED
    BY <1>4, <1>10, <2>1
<1>11. CASE OpAt(m, p) = "IterNext"
  <2>1. Flow(m, p, x) = {<<p + 1, Raised(x, 1)>>, <<m.code[p + 1].a, Raised(x, -1)>>}
    BY <1>11 DEF Flow, OpAt
  <2> QED
    BY <1>4, <1>11, <2>1
<1>12. CASE OpAt(m, p) = "CallByName"
  <2>1. Flow(m, p, x) = {<<p + 1, Raised(x, 1)>>,
                         <<m.fn_entry_pcs[m.code[p + 1].a], [Start EXCEPT !.busy = x.busy]>>}
    BY <1>12 DEF Flow, OpAt
  <2> QED
    BY <1>4, <1>12, <2>1
<1>13. CASE OpAt(m, p) = "CallMethod"
  <2>1. Flow(m, p, x) = {<<p + 1, Raised(x, 0)>>,
                         <<m.fn_entry_pcs[m.code[p + 1].a], [Start EXCEPT !.busy = x.busy]>>}
    BY <1>13 DEF Flow, OpAt
  <2> QED
    BY <1>4, <1>13, <2>1
<1> QED
  BY <1>6, <1>7, <1>8, <1>9, <1>10, <1>11, <1>12, <1>13

\* the instructions that change the tries
LEMMA FlowTries ==
    ASSUME NEW m, NEW pl, Fits(m, pl), NEW p \in DOMAIN pl
    PROVE  /\ OpAt(m, p) = "PushHandler" =>
                 Reaches(pl, p, p + 1, pl[p].height, Append(pl[p].tries, m.code[p + 1].a))
           /\ OpAt(m, p) = "PopHandler" => Reaches(pl, p, p + 1, pl[p].height, Butlast(pl[p].tries))
<1> DEFINE x == pl[p]
<1>1. \A e \in Flow(m, p, x) : Allows(pl, e[1], e[2])
  BY Planned
<1>2. \A q, t : Allows(pl, q, [x EXCEPT !.tries = t]) => Reaches(pl, p, q, x.height, t)
  BY Planned, Changed DEF Reaches, Allows
<1> HIDE DEF x
<1>3. ASSUME NEW q, NEW t, <<q, [x EXCEPT !.tries = t]>> \in Flow(m, p, x)
      PROVE  Reaches(pl, p, q, x.height, t)
  BY <1>1, <1>2, <1>3
<1>4. ASSUME OpAt(m, p) = "PushHandler"
      PROVE  Reaches(pl, p, p + 1, x.height, Append(x.tries, m.code[p + 1].a))
  <2>1. Flow(m, p, x) = {<<p + 1, [x EXCEPT !.tries = Append(x.tries, m.code[p + 1].a)]>>}
    BY <1>4 DEF Flow, OpAt
  <2> QED
    BY <1>3, <2>1
<1>5. ASSUME OpAt(m, p) = "PopHandler" PROVE Reaches(pl, p, p + 1, x.height, Butlast(x.tries))
  <2>1. Flow(m, p, x) = {<<p + 1, [x EXCEPT !.tries = Butlast(x.tries)]>>}
    BY <1>5 DEF Flow, OpAt, Butlast
  <2> QED
    BY <1>3, <2>1
<1> QED
  BY <1>4, <1>5 DEF x

LEMMA Starts ==
    /\ Start.height = 0 /\ Start.tries = <<>> /\ ~Start.block /\ ~Start.busy /\ ~Start.defers
    /\ \A b : /\ [Start EXCEPT !.busy = b].height = 0 /\ [Start EXCEPT !.busy = b].tries = <<>>
              /\ [Start EXCEPT !.busy = b].block = FALSE /\ [Start EXCEPT !.busy = b].busy = b
    /\ BlockStart.height = 1 /\ BlockStart.tries = <<>> /\ BlockStart.block = TRUE
    /\ BlockStart.busy = TRUE /\ BlockStart.defers = FALSE
  BY DEF Start, BlockStart

\* a deferred block is entered with one value and nothing to catch
LEMMA Entered ==
    ASSUME NEW pl, NEW q, Allows(pl, q, BlockStart)
    PROVE  /\ q \in DOMAIN pl /\ pl[q].height <= 1 /\ pl[q].tries = <<>>
           /\ pl[q].block = TRUE /\ pl[q].busy
  BY Starts DEF Allows

\* a function is entered with nothing
LEMMA FlowCall ==
    ASSUME NEW m, NEW pl, Fits(m, pl), NEW p \in DOMAIN pl, OpAt(m, p) \in Calls
    PROVE  /\ Entry(m, p) \in DOMAIN pl /\ pl[Entry(m, p)].height <= 0 /\ pl[Entry(m, p)].tries = <<>>
           /\ pl[Entry(m, p)].block = FALSE /\ (pl[p].busy => pl[Entry(m, p)].busy)
<1> DEFINE x == pl[p]
           e == Entry(m, p)
<1>1. <<e, [Start EXCEPT !.busy = x.busy]>> \in Flow(m, p, x)
  BY DEF Flow, OpAt, Calls, Entry
<1>2. Allows(pl, e, [Start EXCEPT !.busy = x.busy])
  BY <1>1, Planned
<1> QED
  BY <1>2, Starts DEF Allows

LEMMA FlowDefer ==
    ASSUME NEW m, NEW pl, Fits(m, pl), NEW p \in DOMAIN pl, OpAt(m, p) = "DeferPush"
    PROVE  Near(pl, p, p + 1, 0) /\ pl[p + 1].defers /\ Allows(pl, m.code[p + 1].a, BlockStart)
<1> DEFINE x == pl[p]
<1>1. Flow(m, p, x) = {<<p + 1, [x EXCEPT !.defers = TRUE]>>, <<m.code[p + 1].a, BlockStart>>}
  BY DEF Flow, OpAt, BlockStart
<1>2. Allows(pl, p + 1, [x EXCEPT !.defers = TRUE]) /\ Allows(pl, m.code[p + 1].a, BlockStart)
  <2>1. \A e \in Flow(m, p, x) : Allows(pl, e[1], e[2])
    BY Planned
  <2> HIDE DEF x
  <2> QED
    BY <1>1, <2>1
<1> DEFINE y == [x EXCEPT !.defers = TRUE]
<1>3. x \in PlanRecord(pl) /\ x.height \in Nat
  BY Planned
<1>4. y.height = x.height /\ y.tries = x.tries /\ y.block = x.block /\ y.busy = x.busy /\ y.defers
  BY ONLY <1>3 DEF PlanRecord
<1>5. x.height + 0 = x.height
  BY ONLY <1>3
<1>6. Allows(pl, p + 1, y)
  BY ONLY <1>2
<1> HIDE DEF x, y
<1>7. Reaches(pl, p, p + 1, x.height + 0, x.tries) /\ pl[p + 1].defers
  BY ONLY <1>4, <1>5, <1>6 DEF Allows, Reaches, x
<1> QED
  BY ONLY <1>2, <1>7 DEF Near, x

\* a catch is entered with the operands gone and the value thrown
LEMMA FlowThrown ==
    ASSUME NEW m, NEW pl, Fits(m, pl), NEW p \in DOMAIN pl, NEW k \in DOMAIN pl[p].tries
    PROVE  Reaches(pl, p, pl[p].tries[k], pl[p].height - Operands(OpAt(m, p)) + 1,
                   SubSeq(pl[p].tries, 1, k - 1))
<1> DEFINE x == pl[p]
           h == x.height - Operands(OpAt(m, p)) + 1
           t == SubSeq(x.tries, 1, k - 1)
           y == [x EXCEPT !.height = h, !.tries = t]
<1>1. Allows(pl, x.tries[k], y)
  <2>1. <<x.tries[k], y>> \in Thrown(OpAt(m, p), x)
    BY DEF Thrown
  <2>2. \A e \in Thrown(OpAt(m, p), x) : Allows(pl, e[1], e[2])
    BY Planned
  <2> HIDE DEF x, y
  <2> QED
    BY <2>1, <2>2
<1>2. y.height = h /\ y.tries = t /\ y.block = x.block /\ y.busy = x.busy /\ y.defers = x.defers
  <2>1. x \in PlanRecord(pl)
    BY Planned
  <2> HIDE DEF h, t, x
  <2> QED
    BY <2>1 DEF PlanRecord
<1> HIDE DEF y, h, t
<1>3. Reaches(pl, p, x.tries[k], h, t)
  BY <1>1, <1>2 DEF Allows, Reaches
<1> QED
  BY <1>3 DEF h, t

(***************************************************************************)
(* Frames cut to d, the last of them at another site                       *)
(***************************************************************************)

Prefix(s, t) == Len(s) <= Len(t) /\ \A i \in 1..Len(s) : s[i] = t[i]
SitesCut(st, st2, d) == \A j \in 1..(d - 1) : st2[j] = st[j]

LEMMA CutFrames ==
    ASSUME NEW m, NEW pl, NEW fr, NEW fr2, NEW st, NEW st2, NEW len \in Int, NEW len2 \in Int,
           Len(fr) \in Nat, NEW d \in 1..Len(fr), Len(fr2) = d,
           FramesFit(m, pl, fr, st, len), SitesCut(st, st2, d),
           \A j \in 1..(d - 1) : fr2[j] = fr[j],
           fr2[d].stack_base = fr[d].stack_base,
           st2[d] \in DOMAIN pl, Pending(pl, fr2[d], st2[d]),
           len2 - fr[d].stack_base >= pl[st2[d]].height
    PROVE  FramesFit(m, pl, fr2, st2, len2)
<1>1. \A j \in 1..d : j \in 1..Len(fr) /\ fr2[j].stack_base = fr[j].stack_base
  OBVIOUS
<1>2. \A j \in 1..d : st2[j] \in DOMAIN pl /\ Pending(pl, fr2[j], st2[j])
  BY <1>1 DEF FramesFit, SitesCut
<1>3. ASSUME NEW j \in 1..(d - 1)
      PROVE  /\ OpAt(m, st2[j]) \in Calls
             /\ fr2[j + 1].stack_base - fr2[j].stack_base >= pl[st2[j]].height - Operands(OpAt(m, st2[j]))
  <2>1. j \in 1..(Len(fr) - 1) /\ j \in 1..d /\ j + 1 \in 1..d /\ st2[j] = st[j]
    BY DEF SitesCut
  <2> QED
    BY <1>1, <2>1 DEF FramesFit
<1>4. \A i, j \in 1..d : i <= j => fr2[i].stack_base <= fr2[j].stack_base
  BY <1>1 DEF FramesFit
<1> QED
  BY <1>1, <1>2, <1>3, <1>4 DEF FramesFit

\* handler i belongs to the try statement at its depth
HandlerAt(tr, n, h, i, off) ==
    /\ h.depth \in 1..n
    /\ off[h.depth] < i /\ i <= off[h.depth + 1]
    /\ h.catch_pc = tr[h.depth][i - off[h.depth]]

HandlersAt(tr, n, hs, off) ==
    /\ \A j \in 1..(n + 1) : off[j] \in Nat /\ off[j] <= Len(hs)
    /\ off[1] = 0 /\ off[n + 1] = Len(hs)
    /\ \A j \in 1..n : off[j + 1] = off[j] + Len(tr[j])
    /\ \A i, j \in 1..(n + 1) : i <= j => off[i] <= off[j]
    /\ \A i \in 1..Len(hs) : HandlerAt(tr, n, hs[i], i, off)

LEMMA OffsetsOf ==
    ASSUME NEW tr, NEW n \in Nat, NEW hs, Len(hs) \in Nat, NEW off, Offsets(tr, n, hs, off)
    PROVE  HandlersAt(tr, n, hs, off)
<1>1. \A j \in 1..(n + 1) : off[j] \in Nat /\ off[j] <= off[n + 1]
  BY DEF Offsets
<1> QED
  BY <1>1 DEF Offsets, HandlerAt, HandlersAt

\* the handlers up to the site d, where the catches are t now
LEMMA CutHandlers ==
    ASSUME NEW tr, NEW tr2, NEW n \in Nat, NEW d \in 1..n, NEW hs, NEW hs2, NEW off,
           NEW t \in Nat, NEW t2 \in Nat, t2 <= t,
           Offsets(tr, n, hs, off), Len(hs) \in Nat, Len(hs2) \in Nat,
           \A j \in 1..(d - 1) : tr2[j] = tr[j],
           Len(tr[d]) = t, Len(tr2[d]) = t2, \A i \in 1..t2 : tr2[d][i] = tr[d][i],
           Len(hs2) = off[d] + t2, \A i \in 1..Len(hs2) : hs2[i] = hs[i]
    PROVE  HandlersFit(tr2, d, hs2)
<1> DEFINE off2 == [j \in 1..(d + 1) |-> IF j <= d THEN off[j] ELSE Len(hs2)]
<1>1. /\ \A j \in 1..(n + 1) : off[j] \in Nat /\ off[j] <= Len(hs)
      /\ off[1] = 0
      /\ \A j \in 1..n : off[j + 1] = off[j] + Len(tr[j])
      /\ \A i, j \in 1..(n + 1) : i <= j => off[i] <= off[j]
      /\ \A i \in 1..Len(hs) : HandlerAt(tr, n, hs[i], i, off)
  BY OffsetsOf DEF HandlersAt
<1>2. d \in 1..n /\ d + 1 \in 1..(n + 1) /\ d \in 1..(n + 1)
  OBVIOUS
<1>3. off[d] \in Nat /\ off[d + 1] = off[d] + t /\ off[d + 1] <= Len(hs) /\ off[d + 1] \in Nat
  BY <1>1, <1>2
<1>4. Len(hs2) <= off[d + 1] /\ Len(hs2) <= Len(hs)
  BY <1>3
<1>5. /\ \A j \in 1..d : off2[j] = off[j] /\ off[j] \in Nat
      /\ off2[d + 1] = Len(hs2) /\ off2 \in [1..(d + 1) -> Nat]
  BY <1>1
<1> HIDE DEF off2
<1>6. ASSUME NEW j \in 1..d PROVE off2[j + 1] = off2[j] + Len(tr2[j])
  <2>1. CASE j = d
    BY <1>5, <2>1
  <2>2. CASE j # d
    <3>1. j \in 1..(d - 1) /\ j + 1 \in 1..d /\ j \in 1..n
      BY <2>2
    <3>2. off2[j + 1] = off[j + 1] /\ off2[j] = off[j] /\ tr2[j] = tr[j]
      BY <1>5, <3>1
    <3>3. off[j + 1] = off[j] + Len(tr[j])
      BY <1>1, <3>1
    <3> QED
      BY <3>2, <3>3
  <2> QED
    BY <2>1, <2>2
<1>7. ASSUME NEW i \in 1..(d + 1), NEW j \in 1..(d + 1), i <= j PROVE off2[i] <= off2[j]
  <2>1. CASE i = d + 1
    BY <1>5, <1>7, <2>1
  <2>2. CASE i # d + 1 /\ j = d + 1
    <3>0. i \in 1..d /\ i \in 1..(n + 1) /\ i <= d
      BY <2>2
    <3>1. off[i] <= off[d] /\ off2[i] = off[i] /\ off[i] \in Nat
      BY <1>1, <1>2, <1>5, <3>0
    <3>2. off2[j] = off[d] + t2
      BY <1>5, <2>2
    <3> QED
      BY <1>3, <3>1, <3>2
  <2>3. CASE i # d + 1 /\ j # d + 1
    <3>1. i \in 1..d /\ j \in 1..d /\ i \in 1..(n + 1) /\ j \in 1..(n + 1)
      BY <2>3
    <3>2. off[i] <= off[j]
      BY <1>1, <1>7, <3>1
    <3> QED
      BY <1>5, <3>1, <3>2
  <2> QED
    BY <2>1, <2>2, <2>3
<1>8. ASSUME NEW i \in 1..Len(hs2) PROVE HandlerAt(tr2, d, hs2[i], i, off2)
  <2> DEFINE e == hs[i].depth
  <2>1. i \in 1..Len(hs) /\ hs2[i] = hs[i] /\ i <= Len(hs2)
    BY <1>4
  <2>2. /\ e \in 1..n /\ off[e] < i /\ i <= off[e + 1]
        /\ hs[i].catch_pc = tr[e][i - off[e]]
    BY <1>1, <2>1 DEF HandlerAt
  <2>3. hs2[i].depth = e /\ hs2[i].catch_pc = hs[i].catch_pc
    BY <2>1
  <2> HIDE DEF e
  <2>4. e \in 1..d
    <3>1. ASSUME e > d PROVE FALSE
      <4>1. e \in 1..(n + 1) /\ d + 1 \in 1..(n + 1) /\ d + 1 <= e
        BY <2>2, <3>1
      <4>2. off[d + 1] <= off[e] /\ off[e] \in Nat
        BY <1>1, <4>1
      <4>3. i \in Int /\ Len(hs2) \in Int /\ off[d + 1] \in Int
        BY <1>3
      <4> QED
        BY ONLY <1>4, <2>1, <2>2, <4>2, <4>3
    <3>2. e \in 1..n
      BY <2>2
    <3> QED
      BY ONLY <1>2, <3>1, <3>2
  <2>5. off2[e] = off[e] /\ off[e] \in Nat
    BY <1>5, <2>4
  <2>6. CASE e = d
    <3>1. i - off[d] \in 1..t2
      <4>1. off[d] < i /\ i <= off[d] + t2 /\ i \in Int /\ off[d] \in Int /\ t2 \in Int
        BY <1>3, <2>1, <2>2, <2>6
      <4> QED
        BY ONLY <4>1
    <3>2. hs[i].catch_pc = tr2[d][i - off[d]]
      BY <2>2, <2>6, <3>1
    <3>3. i <= off2[d + 1]
      BY <1>5, <2>1
    <3> QED
      BY <2>2, <2>3, <2>4, <2>5, <2>6, <3>2, <3>3 DEF HandlerAt
  <2>7. CASE e # d
    <3>1. e \in 1..(d - 1) /\ tr2[e] = tr[e] /\ e + 1 \in 1..d
      BY <2>4, <2>7
    <3>2. off2[e + 1] = off[e + 1]
      BY <1>5, <3>1
    <3> QED
      BY <2>2, <2>3, <2>4, <2>5, <3>1, <3>2 DEF HandlerAt
  <2> QED
    BY <2>6, <2>7
<1>9. off2[1] = 0
  BY <1>1, <1>5
<1>10. Offsets(tr2, d, hs2, off2)
  BY <1>5, <1>6, <1>7, <1>8, <1>9 DEF Offsets, HandlerAt
<1> QED
  BY <1>10 DEF HandlersFit

\* the innermost try gets its handler
LEMMA PushHandlers ==
    ASSUME NEW tr, NEW tr2, NEW n \in Nat, n >= 1, NEW hs, NEW hs2, NEW T, NEW t \in Nat, NEW c,
           HandlersFit(tr, n, hs), Len(hs) \in Nat, Len(hs2) = Len(hs) + 1, Prefix(hs, hs2),
           SitesCut(tr, tr2, n), tr[n] = T, Len(T) = t, Len(tr2[n]) = t + 1, Prefix(T, tr2[n]),
           hs2[Len(hs) + 1].depth = n, hs2[Len(hs) + 1].catch_pc = c, tr2[n][t + 1] = c
    PROVE  HandlersFit(tr2, n, hs2)
<1>a. /\ \A j \in 1..(n - 1) : tr2[j] = tr[j]
      /\ Len(tr[n]) = t /\ \A i \in 1..t : tr2[n][i] = tr[n][i]
      /\ \A i \in 1..Len(hs) : hs2[i] = hs[i]
      /\ hs2[Len(hs) + 1].catch_pc = tr2[n][t + 1]
  BY DEF SitesCut, Prefix
<1>0. PICK off : Offsets(tr, n, hs, off)
  BY DEF HandlersFit
<1>1. /\ \A j \in 1..(n + 1) : off[j] \in Nat /\ off[j] <= Len(hs)
      /\ off[1] = 0 /\ off[n + 1] = Len(hs)
      /\ \A j \in 1..n : off[j + 1] = off[j] + Len(tr[j])
      /\ \A i, j \in 1..(n + 1) : i <= j => off[i] <= off[j]
      /\ \A i \in 1..Len(hs) : HandlerAt(tr, n, hs[i], i, off)
  <2>1. HandlersAt(tr, n, hs, off)
    BY <1>0, OffsetsOf
  <2> QED
    BY <2>1 DEF HandlersAt
<1> DEFINE off2 == [j \in 1..(n + 1) |-> IF j <= n THEN off[j] ELSE Len(hs2)]
<1>2. n \in 1..n /\ n + 1 \in 1..(n + 1) /\ n \in 1..(n + 1)
  OBVIOUS
<1>3. off[n] \in Nat /\ Len(hs) = off[n] + t
  BY <1>a, <1>1, <1>2
<1>4. /\ \A j \in 1..n : off2[j] = off[j] /\ off[j] \in Nat
      /\ off2[n + 1] = Len(hs) + 1 /\ off2 \in [1..(n + 1) -> Nat]
  BY <1>1
<1> HIDE DEF off2
<1>5. ASSUME NEW j \in 1..n PROVE off2[j + 1] = off2[j] + Len(tr2[j])
  <2>1. CASE j = n
    <3>1. off2[n + 1] = off[n] + (t + 1) /\ off2[n] = off[n]
      BY <1>2, <1>3, <1>4
    <3> QED
      BY <2>1, <3>1
  <2>2. CASE j # n
    <3>1. j \in 1..(n - 1) /\ j + 1 \in 1..n
      BY <2>2
    <3>2. off2[j + 1] = off[j + 1] /\ off2[j] = off[j] /\ tr2[j] = tr[j]
      BY <1>a, <1>4, <3>1
    <3>3. off[j + 1] = off[j] + Len(tr[j])
      BY <1>1
    <3> QED
      BY <3>2, <3>3
  <2> QED
    BY <2>1, <2>2
<1>6. ASSUME NEW i \in 1..(n + 1), NEW j \in 1..(n + 1), i <= j PROVE off2[i] <= off2[j]
  <2>1. CASE i = n + 1
    BY <1>4, <1>6, <2>1
  <2>2. CASE i # n + 1 /\ j = n + 1
    <3>0. i \in 1..n /\ i \in 1..(n + 1)
      BY <2>2
    <3>1. off2[i] = off[i] /\ off[i] \in Nat /\ off[i] <= Len(hs)
      BY ONLY <1>1, <1>4, <3>0
    <3>2. off2[j] = Len(hs) + 1 /\ Len(hs) \in Nat
      BY <1>4, <2>2
    <3> QED
      BY ONLY <3>1, <3>2
  <2>3. CASE i # n + 1 /\ j # n + 1
    <3>1. i \in 1..n /\ j \in 1..n
      BY <2>3
    <3>2. off[i] <= off[j]
      BY <1>1, <1>6, <3>1
    <3> QED
      BY <1>4, <3>1, <3>2
  <2> QED
    BY <2>1, <2>2, <2>3
<1>7. ASSUME NEW i \in 1..Len(hs2) PROVE HandlerAt(tr2, n, hs2[i], i, off2)
  <2>1. CASE i = Len(hs) + 1
    <3>1. off2[n] = off[n] /\ off2[n + 1] = i /\ i - off[n] = t + 1 /\ off[n] < i
      BY <1>2, <1>3, <1>4, <2>1
    <3>2. hs2[i].depth = n /\ hs2[i].catch_pc = tr2[n][i - off[n]]
      BY <1>a, <2>1, <3>1
    <3> QED
      BY <1>2, <3>1, <3>2 DEF HandlerAt
  <2>2. CASE i # Len(hs) + 1
    <3> DEFINE e == hs[i].depth
    <3>1. i \in 1..Len(hs) /\ hs2[i] = hs[i]
      BY <1>a, <2>2
    <3>2. /\ e \in 1..n /\ off[e] < i /\ i <= off[e + 1]
          /\ hs[i].catch_pc = tr[e][i - off[e]]
      BY <1>1, <3>1 DEF HandlerAt
    <3>3. hs2[i].depth = e /\ hs2[i].catch_pc = hs[i].catch_pc
      BY <3>1
    <3> HIDE DEF e
    <3>4. off2[e] = off[e] /\ off[e] \in Nat
      BY <1>4, <3>2
    <3>5. CASE e = n
      <4>0. off[n] < i /\ i <= Len(hs)
        BY <3>1, <3>2, <3>5
      <4>1. i - off[n] \in 1..t
        <5>1. i \in Int /\ t \in Int
          BY <3>1
        <5> QED
          BY ONLY <1>3, <4>0, <5>1
      <4>2. hs[i].catch_pc = tr2[n][i - off[n]]
        BY <1>a, <3>2, <3>5, <4>1
      <4>3. i <= off2[n + 1]
        BY <1>4, <3>1
      <4> QED
        BY <3>2, <3>3, <3>4, <3>5, <4>2, <4>3 DEF HandlerAt
    <3>6. CASE e # n
      <4>1. e \in 1..(n - 1) /\ tr2[e] = tr[e] /\ e + 1 \in 1..n
        BY <1>a, <3>2, <3>6
      <4>2. off2[e + 1] = off[e + 1]
        BY <1>4, <4>1
      <4> QED
        BY <3>2, <3>3, <3>4, <4>1, <4>2 DEF HandlerAt
    <3> QED
      BY <3>5, <3>6
  <2> QED
    BY <2>1, <2>2
<1>8. off2[1] = 0
  BY <1>1, <1>4
<1>9. Offsets(tr2, n, hs2, off2)
  BY <1>4, <1>5, <1>6, <1>7, <1>8 DEF Offsets, HandlerAt
<1> QED
  BY <1>9 DEF HandlersFit

\* a function that is called has no handler yet
LEMMA EnterHandlers ==
    ASSUME NEW tr, NEW tr2, NEW n \in Nat, n >= 1, NEW hs, Len(hs) \in Nat,
           HandlersFit(tr, n, hs), \A j \in 1..n : tr2[j] = tr[j], tr2[n + 1] = <<>>
    PROVE  HandlersFit(tr2, n + 1, hs)
<1>0. PICK off : Offsets(tr, n, hs, off)
  BY DEF HandlersFit
<1> DEFINE off2 == [j \in 1..(n + 2) |-> IF j <= n + 1 THEN off[j] ELSE Len(hs)]
<1>1. /\ \A j \in 1..(n + 1) : off[j] \in Nat /\ off[j] <= Len(hs)
      /\ off[1] = 0 /\ off[n + 1] = Len(hs)
      /\ \A j \in 1..n : off[j + 1] = off[j] + Len(tr[j])
      /\ \A i, j \in 1..(n + 1) : i <= j => off[i] <= off[j]
      /\ \A i \in 1..Len(hs) : HandlerAt(tr, n, hs[i], i, off)
  <2>1. HandlersAt(tr, n, hs, off)
    BY <1>0, OffsetsOf
  <2> QED
    BY <2>1 DEF HandlersAt
<1>2. /\ \A j \in 1..(n + 1) : off2[j] = off[j] /\ off[j] \in Nat
      /\ off2[n + 2] = Len(hs) /\ off2 \in [1..(n + 2) -> Nat]
  BY <1>1
<1> HIDE DEF off2
<1>3. ASSUME NEW j \in 1..(n + 1) PROVE off2[j + 1] = off2[j] + Len(tr2[j])
  <2>1. CASE j = n + 1
    <3>1. off2[j] = Len(hs) /\ off2[j + 1] = Len(hs) /\ Len(tr2[j]) = 0
      BY <1>1, <1>2, <2>1
    <3> QED
      BY <3>1
  <2>2. CASE j # n + 1
    <3>1. j \in 1..n /\ j + 1 \in 1..(n + 1)
      BY <2>2
    <3>2. off2[j + 1] = off[j + 1] /\ off2[j] = off[j] /\ tr2[j] = tr[j]
      BY <1>2, <3>1
    <3>3. off[j + 1] = off[j] + Len(tr[j])
      BY <1>1, <3>1
    <3> QED
      BY <3>2, <3>3
  <2> QED
    BY <2>1, <2>2
<1>4. ASSUME NEW i \in 1..(n + 2), NEW j \in 1..(n + 2), i <= j PROVE off2[i] <= off2[j]
  <2>1. CASE i = n + 2
    BY <1>2, <1>4, <2>1
  <2>2. CASE i # n + 2 /\ j = n + 2
    <3>1. i \in 1..(n + 1) /\ off2[i] = off[i] /\ off[i] <= Len(hs)
      BY <1>1, <1>2, <2>2
    <3> QED
      BY <1>2, <2>2, <3>1
  <2>3. CASE i # n + 2 /\ j # n + 2
    <3>1. i \in 1..(n + 1) /\ j \in 1..(n + 1)
      BY <2>3
    <3>2. off[i] <= off[j]
      BY <1>1, <1>4, <3>1
    <3> QED
      BY <1>2, <3>1, <3>2
  <2> QED
    BY <2>1, <2>2, <2>3
<1>5. ASSUME NEW i \in 1..Len(hs) PROVE HandlerAt(tr2, n + 1, hs[i], i, off2)
  <2> DEFINE e == hs[i].depth
  <2>1. /\ e \in 1..n /\ off[e] < i /\ i <= off[e + 1]
        /\ hs[i].catch_pc = tr[e][i - off[e]]
    BY <1>1 DEF HandlerAt
  <2> HIDE DEF e
  <2>2. e \in 1..(n + 1) /\ e + 1 \in 1..(n + 1)
    BY <2>1
  <2>3. off2[e] = off[e] /\ off2[e + 1] = off[e + 1] /\ tr2[e] = tr[e]
    BY <1>2, <2>1, <2>2
  <2> QED
    BY <2>1, <2>2, <2>3 DEF HandlerAt, e
<1>6. off2[1] = 0
  BY <1>1, <1>2
<1>7. Offsets(tr2, n + 1, hs, off2)
  <2>1. off2 \in [1..(n + 1 + 1) -> Nat] /\ off2[n + 1 + 1] = Len(hs)
    BY <1>2
  <2>2. \A i, j \in 1..(n + 1 + 1) : i <= j => off2[i] <= off2[j]
    BY <1>4
  <2> QED
    BY <1>3, <1>5, <1>6, <2>1, <2>2 DEF Offsets, HandlerAt
<1> QED
  BY <1>7 DEF HandlersFit

(***************************************************************************)
(* The deferred blocks                                                     *)
(***************************************************************************)

SameLoop(nat, nat2) == InBlocks(nat) = InBlocks(nat2) /\ (InBlocks(nat) => nat2[1] = nat[1])

LEMMA BlocksMoved ==
    ASSUME NEW pl, NEW st, NEW st2, NEW n \in Nat, n >= 1, NEW nat, NEW nat2,
           BlocksFit(pl, st, n, nat), SameLoop(nat, nat2), SitesCut(st, st2, n),
           pl[st2[n]].block = pl[st[n]].block, pl[st[n]].busy => pl[st2[n]].busy
    PROVE  BlocksFit(pl, st2, n, nat2)
<1>1. \A j \in 1..n : /\ pl[st2[j]].block = pl[st[j]].block
                      /\ pl[st[j]].busy => pl[st2[j]].busy
  <2> TAKE j \in 1..n
  <2>1. j # n => st2[j] = st[j]
    BY DEF SitesCut
  <2> QED
    BY <2>1
<1>2. CASE InBlocks(nat)
  <2>1. OneBlock(pl, st, n) /\ LoopFits(pl, nat[1]) /\ InBlocks(nat2) /\ nat2[1] = nat[1]
    BY <1>2 DEF BlocksFit, SameLoop
  <2>2. OneBlock(pl, st2, n)
    BY <1>1, <2>1 DEF OneBlock
  <2> QED
    BY <2>1, <2>2 DEF BlocksFit
<1>3. CASE ~InBlocks(nat)
  <2>1. NoBlock(pl, st, n) /\ ~InBlocks(nat2)
    BY <1>3 DEF BlocksFit, SameLoop
  <2>2. NoBlock(pl, st2, n)
    BY <1>1, <2>1 DEF NoBlock
  <2> QED
    BY <2>1, <2>2 DEF BlocksFit
<1> QED
  BY <1>2, <1>3

\* a function that is called is in no block
LEMMA BlocksEntered ==
    ASSUME NEW pl, NEW st, NEW st2, NEW n \in Nat, n >= 1, NEW nat, NEW nat2,
           BlocksFit(pl, st, n, nat), SameLoop(nat, nat2), \A j \in 1..n : st2[j] = st[j],
           pl[st2[n + 1]].block = FALSE, pl[st[n]].busy => pl[st2[n + 1]].busy
    PROVE  BlocksFit(pl, st2, n + 1, nat2)
<1>1. CASE InBlocks(nat)
  <2>1. OneBlock(pl, st, n) /\ LoopFits(pl, nat[1]) /\ InBlocks(nat2) /\ nat2[1] = nat[1]
    BY <1>1 DEF BlocksFit, SameLoop
  <2>2. PICK k \in 1..n : /\ pl[st[k]].block
                          /\ \A j \in 1..n : /\ j # k => ~pl[st[j]].block
                                             /\ j >= k => pl[st[j]].busy
    BY <2>1 DEF OneBlock
  <2>3. k \in 1..(n + 1) /\ pl[st2[k]].block
    BY <2>2
  <2>4. ASSUME NEW j \in 1..(n + 1)
        PROVE  /\ j # k => ~pl[st2[j]].block
               /\ j >= k => pl[st2[j]].busy
    <3>1. CASE j = n + 1
      <4>1. pl[st[n]].busy
        BY <2>2
      <4> QED
        BY <3>1, <4>1
    <3>2. CASE j # n + 1
      <4>1. j \in 1..n /\ st2[j] = st[j]
        BY <3>2
      <4> QED
        BY <2>2, <4>1
    <3> QED
      BY <3>1, <3>2
  <2>5. OneBlock(pl, st2, n + 1)
    BY <2>3, <2>4 DEF OneBlock
  <2> QED
    BY <2>1, <2>5 DEF BlocksFit
<1>2. CASE ~InBlocks(nat)
  <2>1. NoBlock(pl, st, n) /\ ~InBlocks(nat2)
    BY <1>2 DEF BlocksFit, SameLoop
  <2>2. NoBlock(pl, st2, n + 1)
    <3> SUFFICES ASSUME NEW j \in 1..(n + 1) PROVE ~pl[st2[j]].block
      BY DEF NoBlock
    <3>1. j # n + 1 => j \in 1..n
      OBVIOUS
    <3> QED
      BY <2>1, <3>1 DEF NoBlock
  <2> QED
    BY <2>1, <2>2 DEF BlocksFit
<1> QED
  BY <1>1, <1>2

\* a function that returns is in no block
LEMMA BlocksLeft ==
    ASSUME NEW pl, NEW st, NEW n \in Nat, n > 1, NEW nat,
           BlocksFit(pl, st, n, nat), ~pl[st[n]].block
    PROVE  BlocksFit(pl, st, n - 1, nat)
<1>1. CASE InBlocks(nat)
  <2>1. OneBlock(pl, st, n) /\ LoopFits(pl, nat[1])
    BY <1>1 DEF BlocksFit
  <2>2. PICK k \in 1..n : /\ pl[st[k]].block
                          /\ \A j \in 1..n : /\ j # k => ~pl[st[j]].block
                                             /\ j >= k => pl[st[j]].busy
    BY <2>1 DEF OneBlock
  <2>3. k \in 1..(n - 1)
    BY <2>2
  <2>4. OneBlock(pl, st, n - 1)
    BY <2>2, <2>3 DEF OneBlock
  <2> QED
    BY <1>1, <2>1, <2>4 DEF BlocksFit
<1>2. CASE ~InBlocks(nat)
  BY <1>2 DEF BlocksFit, NoBlock
<1> QED
  BY <1>1, <1>2

(***************************************************************************)
(* Steps of an arranged state                                              *)
(***************************************************************************)

Shape(fr) ==
    /\ Len(fr) \in Nat /\ Len(fr) >= 1
    /\ \A j \in 1..Len(fr) : fr[j].return_pc \in Int /\ fr[j].stack_base \in Int

\* the frames up to d are where they were
Returns(fr, fr2, d) == Len(fr2) = d /\ \A j \in 1..d : fr2[j].return_pc = fr[j].return_pc
\* and are what they were
Kept(fr, fr2, d) == Len(fr2) = d /\ \A j \in 1..d : fr2[j] = fr[j]

LEMMA SitesOf ==
    ASSUME NEW fr, Shape(fr), NEW p
    PROVE  /\ Sites(fr, p)[Len(fr)] = p
           /\ \A j \in 1..(Len(fr) - 1) : Sites(fr, p)[j] = fr[j + 1].return_pc - 1
  BY DEF Sites, Shape

LEMMA TriesOf ==
    ASSUME NEW pl, NEW st, NEW n
    PROVE  \A j \in 1..n : TriesAt(pl, st, n)[j] = pl[st[j]].tries
  BY DEF TriesAt

LEMMA SitesOfCut ==
    ASSUME NEW fr, NEW fr2, Shape(fr), NEW d \in 1..Len(fr), Returns(fr, fr2, d), NEW p, NEW q
    PROVE  SitesCut(Sites(fr, p), Sites(fr2, q), d) /\ Sites(fr2, q)[d] = q
<1>1. ASSUME NEW j \in 1..(d - 1) PROVE Sites(fr2, q)[j] = Sites(fr, p)[j]
  <2>1. Sites(fr, p)[j] = fr[j + 1].return_pc - 1
    BY SitesOf DEF Shape
  <2>2. Sites(fr2, q)[j] = fr2[j + 1].return_pc - 1
    BY DEF Sites, Shape, Returns
  <2> QED
    BY <2>1, <2>2 DEF Shape, Returns
<1>2. Sites(fr2, q)[d] = q
  BY DEF Sites, Shape, Returns
<1> QED
  BY <1>1, <1>2 DEF SitesCut

\* the sites of the frames are in the plan
LEMMA SitesPlanned ==
    ASSUME NEW m, NEW pl, NEW fr, NEW st, NEW len, FramesFit(m, pl, fr, st, len)
    PROVE  \A j \in 1..Len(fr) : st[j] \in DOMAIN pl
  BY DEF FramesFit

\* the frames that are left, continued at q
LEMMA CutFits ==
    ASSUME NEW m, NEW pl, Fits(m, pl), NEW fr, NEW fr2, Shape(fr), NEW d \in 1..Len(fr),
           Kept(fr, fr2, d),
           NEW len \in Int, NEW len2 \in Int, NEW p, NEW q, NEW h \in Int, NEW t,
           FramesFit(m, pl, fr, Sites(fr, p), len),
           Reaches(pl, Sites(fr, p)[d], q, h, t), len2 - fr[d].stack_base >= h
    PROVE  FramesFit(m, pl, fr2, Sites(fr2, q), len2)
<1>1. SitesCut(Sites(fr, p), Sites(fr2, q), d) /\ Sites(fr2, q)[d] = q
  <2>1. Returns(fr, fr2, d)
    BY DEF Kept, Returns
  <2> QED
    BY <2>1, SitesOfCut
<1>2. q \in DOMAIN pl /\ pl[q].height <= h /\ pl[q].height \in Int
  BY Planned DEF Reaches
<1>3. Pending(pl, fr2[d], q)
  BY DEF FramesFit, Pending, Reaches, Kept
<1>4. len2 - fr[d].stack_base >= pl[q].height
  BY <1>2 DEF Shape
<1>5. Len(fr2) = d /\ fr2[d].stack_base = fr[d].stack_base /\ \A j \in 1..(d - 1) : fr2[j] = fr[j]
  BY DEF Kept
<1>6. Len(fr) \in Nat
  BY DEF Shape
<1> QED
  BY <1>1, <1>2, <1>3, <1>4, <1>5, <1>6, CutFrames

\* their handlers
LEMMA CutTries ==
    ASSUME NEW m, NEW pl, Fits(m, pl), NEW fr, NEW fr2, Shape(fr), NEW d \in 1..Len(fr),
           Returns(fr, fr2, d),
           NEW p, NEW q \in DOMAIN pl, \A j \in 1..Len(fr) : Sites(fr, p)[j] \in DOMAIN pl,
           NEW hs, NEW hs2, Len(hs) \in Nat, Len(hs2) \in Nat, NEW off,
           Offsets(TriesAt(pl, Sites(fr, p), Len(fr)), Len(fr), hs, off),
           Prefix(pl[q].tries, pl[Sites(fr, p)[d]].tries),
           Len(hs2) = off[d] + Len(pl[q].tries), Prefix(hs2, hs)
    PROVE  HandlersFit(TriesAt(pl, Sites(fr2, q), d), d, hs2)
<1> DEFINE tr == TriesAt(pl, Sites(fr, p), Len(fr))
           tr2 == TriesAt(pl, Sites(fr2, q), d)
           t == Len(pl[Sites(fr, p)[d]].tries)
           t2 == Len(pl[q].tries)
<1>1. SitesCut(Sites(fr, p), Sites(fr2, q), d) /\ Sites(fr2, q)[d] = q
  BY SitesOfCut
<1>2. Len(fr) \in Nat /\ \A j \in 1..d : j \in 1..Len(fr)
  BY DEF Shape
<1>3. t \in Nat /\ t2 \in Nat
  BY Planned
<1>4. \A j \in 1..(d - 1) : tr2[j] = tr[j]
  <2> TAKE j \in 1..(d - 1)
  <2>1. j \in 1..d /\ j \in 1..Len(fr) /\ Sites(fr2, q)[j] = Sites(fr, p)[j]
    BY <1>1, <1>2 DEF SitesCut
  <2> QED
    BY <2>1, TriesOf
<1>5. tr[d] = pl[Sites(fr, p)[d]].tries /\ tr2[d] = pl[q].tries
  BY <1>1, <1>2, TriesOf
<1> HIDE DEF tr, tr2
<1>6. Len(tr[d]) = t /\ Len(tr2[d]) = t2 /\ \A i \in 1..t2 : tr2[d][i] = tr[d][i]
  BY <1>5 DEF Prefix
<1>7. /\ Offsets(tr, Len(fr), hs, off) /\ t2 <= t /\ Len(hs2) = off[d] + t2
      /\ \A i \in 1..Len(hs2) : hs2[i] = hs[i]
  BY DEF tr, Prefix
<1> HIDE DEF t, t2
<1>8. HandlersFit(tr2, d, hs2)
  BY <1>2, <1>3, <1>4, <1>6, <1>7, CutHandlers
<1> QED
  BY <1>8 DEF tr2

\* both, with the catches t at q
Continues(m, pl, fr, q, len, hs) ==
    /\ FramesFit(m, pl, fr, Sites(fr, q), len)
    /\ HandlersFit(TriesAt(pl, Sites(fr, q), Len(fr)), Len(fr), hs)

LEMMA Continue ==
    ASSUME NEW m, NEW pl, Fits(m, pl), NEW fr, NEW fr2, Shape(fr), NEW d \in 1..Len(fr),
           Kept(fr, fr2, d),
           NEW len \in Int, NEW len2 \in Int, NEW p, NEW q, NEW h \in Int, NEW t,
           FramesFit(m, pl, fr, Sites(fr, p), len),
           Reaches(pl, Sites(fr, p)[d], q, h, t), len2 - fr[d].stack_base >= h,
           NEW hs, NEW hs2, Len(hs) \in Nat, Len(hs2) \in Nat, NEW off,
           Offsets(TriesAt(pl, Sites(fr, p), Len(fr)), Len(fr), hs, off),
           Prefix(t, pl[Sites(fr, p)[d]].tries),
           Len(hs2) = off[d] + Len(t), Prefix(hs2, hs)
    PROVE  Continues(m, pl, fr2, q, len2, hs2)
<1>1. FramesFit(m, pl, fr2, Sites(fr2, q), len2)
  BY CutFits
<1>2. q \in DOMAIN pl /\ pl[q].tries = t
  BY DEF Reaches
<1>3. \A j \in 1..Len(fr) : Sites(fr, p)[j] \in DOMAIN pl
  BY SitesPlanned
<1>4. Returns(fr, fr2, d) /\ Len(fr2) = d
  BY DEF Kept, Returns
<1>5. HandlersFit(TriesAt(pl, Sites(fr2, q), d), d, hs2)
  BY <1>2, <1>3, <1>4, CutTries
<1> QED
  BY <1>1, <1>4, <1>5 DEF Continues

\* what an arranged state says of the instruction it is at
LEMMA AtSite ==
    ASSUME NEW m, NEW pl, Fits(m, pl), NEW fr, Shape(fr), NEW len \in Int, NEW p, NEW hs, NEW nat,
           Arranged(m, pl, fr, len, p, hs, nat)
    PROVE  /\ p \in DOMAIN pl /\ Sites(fr, p)[Len(fr)] = p /\ Len(fr) \in 1..Len(fr)
           /\ pl[p].height \in Nat /\ len - fr[Len(fr)].stack_base >= pl[p].height
           /\ pl[p].height >= Operands(OpAt(m, p)) /\ Operands(OpAt(m, p)) \in 0..2
           /\ FramesFit(m, pl, fr, Sites(fr, p), len)
           /\ \A j \in 1..Len(fr) : Sites(fr, p)[j] \in DOMAIN pl
<1>1. FramesFit(m, pl, fr, Sites(fr, p), len)
  BY DEF Arranged
<1>2. Sites(fr, p)[Len(fr)] = p /\ Len(fr) \in 1..Len(fr)
  BY SitesOf DEF Shape
<1>3. \A j \in 1..Len(fr) : Sites(fr, p)[j] \in DOMAIN pl
  BY <1>1, SitesPlanned
<1>4. p \in DOMAIN pl /\ len - fr[Len(fr)].stack_base >= pl[p].height
  BY <1>1, <1>2, <1>3 DEF FramesFit
<1> QED
  BY <1>1, <1>2, <1>3, <1>4, Planned, OperandsBound

\* the handlers of the last frame end the handlers
LEMMA LastOffset ==
    ASSUME NEW m, NEW pl, Fits(m, pl), NEW fr, Shape(fr), NEW len \in Int, NEW p, NEW hs, Len(hs) \in Nat,
           NEW nat, Arranged(m, pl, fr, len, p, hs, nat)
    PROVE  \E off : /\ Offsets(TriesAt(pl, Sites(fr, p), Len(fr)), Len(fr), hs, off)
                    /\ Len(hs) = off[Len(fr)] + Len(pl[p].tries)
                    /\ off[Len(fr)] \in Nat
<1> DEFINE tr == TriesAt(pl, Sites(fr, p), Len(fr))
           n == Len(fr)
<1>1. tr[n] = pl[p].tries
  BY AtSite, TriesOf
<1>2. HandlersFit(tr, n, hs) /\ n \in Nat /\ n \in 1..n
  BY DEF Arranged, Shape
<1> HIDE DEF tr, n
<1>3. PICK off : Offsets(tr, n, hs, off)
  BY <1>2 DEF HandlersFit
<1>4. Len(hs) = off[n] + Len(tr[n]) /\ off[n] \in Nat
  <2>1. /\ \A j \in 1..(n + 1) : off[j] \in Nat /\ off[j] <= Len(hs)
        /\ off[n + 1] = Len(hs)
        /\ \A j \in 1..n : off[j + 1] = off[j] + Len(tr[j])
    BY <1>2, <1>3, OffsetsOf DEF HandlersAt
  <2>2. n \in 1..(n + 1)
    BY <1>2
  <2> QED
    BY <1>2, <2>1, <2>2
<1> QED
  BY <1>1, <1>3, <1>4 DEF tr, n

\* one instruction of the same function, with the same handlers
LEMMA Move ==
    ASSUME NEW m, NEW pl, Fits(m, pl), NEW fr, Shape(fr), NEW len \in Int, NEW len2 \in Int,
           NEW p, NEW q, NEW dh \in Int, NEW hs, Len(hs) \in Nat, NEW nat, NEW nat2,
           Arranged(m, pl, fr, len, p, hs, nat), SameLoop(nat, nat2),
           Near(pl, p, q, dh), len2 >= len + dh
    PROVE  Arranged(m, pl, fr, len2, q, hs, nat2)
<1> DEFINE n == Len(fr)
           t == pl[p].tries
           h == pl[p].height + dh
<1>1. /\ p \in DOMAIN pl /\ Sites(fr, p)[n] = p /\ n \in 1..n
      /\ pl[p].height \in Nat /\ len - fr[n].stack_base >= pl[p].height
      /\ FramesFit(m, pl, fr, Sites(fr, p), len)
  BY AtSite
<1>2. Reaches(pl, Sites(fr, p)[n], q, h, t)
  BY <1>1 DEF Near
<1>3. h \in Int /\ len2 - fr[n].stack_base >= h
  BY <1>1 DEF Shape
<1>4. PICK off : /\ Offsets(TriesAt(pl, Sites(fr, p), n), n, hs, off)
                 /\ Len(hs) = off[n] + Len(t)
                 /\ off[n] \in Nat
  BY LastOffset
<1>5. Prefix(t, pl[Sites(fr, p)[n]].tries) /\ Prefix(hs, hs)
  BY <1>1, Planned DEF Prefix
<1>6. Kept(fr, fr, n) /\ Returns(fr, fr, n)
  BY DEF Kept, Returns
<1> HIDE DEF t, h
<1>7. Continues(m, pl, fr, q, len2, hs)
  BY <1>1, <1>2, <1>3, <1>4, <1>5, <1>6, Continue
<1>8. BlocksFit(pl, Sites(fr, q), n, nat2)
  <2>1. SitesCut(Sites(fr, p), Sites(fr, q), n) /\ Sites(fr, q)[n] = q
    BY <1>1, <1>6, SitesOfCut
  <2>2. pl[q].block = pl[p].block /\ (pl[p].busy => pl[q].busy)
    BY DEF Near, Reaches
  <2>3. n \in Nat /\ n >= 1 /\ BlocksFit(pl, Sites(fr, p), n, nat)
    BY DEF Shape, Arranged
  <2> HIDE DEF n
  <2> QED
    BY <1>1, <2>1, <2>2, <2>3, BlocksMoved
<1> QED
  BY <1>7, <1>8 DEF Arranged, Continues

LEMMA MovedBlocks ==
    ASSUME NEW m, NEW pl, NEW fr, NEW fr2, Shape(fr), Returns(fr, fr2, Len(fr)),
           NEW len, NEW p, NEW q, NEW hs, NEW nat, NEW nat2,
           Sites(fr, p)[Len(fr)] = p, Arranged(m, pl, fr, len, p, hs, nat), SameLoop(nat, nat2),
           pl[q].block = pl[p].block, pl[p].busy => pl[q].busy
    PROVE  BlocksFit(pl, Sites(fr2, q), Len(fr2), nat2)
<1> DEFINE n == Len(fr)
<1>1. n \in Nat /\ n >= 1 /\ n \in 1..n /\ Len(fr2) = n
  BY DEF Shape, Returns
<1>2. SitesCut(Sites(fr, p), Sites(fr2, q), n) /\ Sites(fr2, q)[n] = q
  BY <1>1, SitesOfCut
<1>3. BlocksFit(pl, Sites(fr, p), n, nat)
  BY DEF Arranged
<1> HIDE DEF n
<1>4. Sites(fr, p)[n] = p
  BY DEF n
<1>5. BlocksFit(pl, Sites(fr2, q), n, nat2)
  BY <1>1, <1>2, <1>3, <1>4, BlocksMoved
<1> QED
  BY <1>1, <1>5

LEMMA PushTry ==
    ASSUME NEW m, NEW pl, Fits(m, pl), NEW fr, Shape(fr), NEW len \in Int,
           NEW p, NEW q, NEW c, NEW hs, NEW hs2, Len(hs) \in Nat, NEW nat,
           Arranged(m, pl, fr, len, p, hs, nat),
           Reaches(pl, p, q, pl[p].height, Append(pl[p].tries, c)),
           Len(hs2) = Len(hs) + 1, Prefix(hs, hs2),
           hs2[Len(hs) + 1].depth = Len(fr), hs2[Len(hs) + 1].catch_pc = c
    PROVE  Arranged(m, pl, fr, len, q, hs2, nat)
<1> DEFINE n == Len(fr)
           T == pl[p].tries
           t == Len(T)
           u == Append(T, c)
           h == pl[p].height
           tr == TriesAt(pl, Sites(fr, p), n)
           tr2 == TriesAt(pl, Sites(fr, q), n)
<1>1. /\ p \in DOMAIN pl /\ Sites(fr, p)[n] = p /\ n \in 1..n /\ n \in Nat /\ n >= 1
      /\ pl[p].height \in Nat /\ len - fr[n].stack_base >= pl[p].height
      /\ FramesFit(m, pl, fr, Sites(fr, p), len)
  BY AtSite DEF Shape
<1>2. Kept(fr, fr, n) /\ Returns(fr, fr, n)
  BY DEF Kept, Returns
<1>3. FramesFit(m, pl, fr, Sites(fr, q), len)
  <2>1. Reaches(pl, Sites(fr, p)[n], q, h, u) /\ h \in Int /\ len - fr[n].stack_base >= h
    BY <1>1
  <2> HIDE DEF h, u
  <2> QED
    BY <1>1, <1>2, <2>1, CutFits
<1>4. BlocksFit(pl, Sites(fr, q), n, nat)
  BY <1>1, <1>2, MovedBlocks DEF Reaches, SameLoop
<1>5. IsSeq(T) /\ Len(T) \in Nat
  BY <1>1, Planned, SeqIsSeq
<1>6. SitesCut(Sites(fr, p), Sites(fr, q), n) /\ Sites(fr, q)[n] = q
  BY <1>1, <1>2, SitesOfCut
<1>7. tr[n] = T /\ tr2[n] = Append(T, c)
  BY <1>1, <1>6, TriesOf DEF Reaches
<1>8. SitesCut(tr, tr2, n)
  <2> SUFFICES \A j \in 1..(n - 1) : tr2[j] = tr[j]
    BY DEF SitesCut
  <2> TAKE j \in 1..(n - 1)
  <2>1. j \in 1..n /\ Sites(fr, q)[j] = Sites(fr, p)[j]
    BY <1>6 DEF SitesCut
  <2> QED
    BY <2>1, TriesOf
<1>9. HandlersFit(tr, n, hs)
  BY DEF Arranged
<1> HIDE DEF tr, tr2, T
<1>10. /\ t \in Nat /\ Len(T) = t /\ tr[n] = T /\ Len(tr2[n]) = t + 1 /\ Prefix(T, tr2[n])
       /\ tr2[n][t + 1] = c
  BY <1>5, <1>7, AppendAny DEF Prefix
<1> HIDE DEF t, n
<1>11. hs2[Len(hs) + 1].depth = n
  BY DEF n
<1>12. HandlersFit(tr2, n, hs2)
  BY <1>1, <1>8, <1>9, <1>10, <1>11, PushHandlers
<1> QED
  BY <1>3, <1>4, <1>12 DEF Arranged, tr2, n

LEMMA PopTry ==
    ASSUME NEW m, NEW pl, Fits(m, pl), NEW fr, Shape(fr), NEW len \in Int,
           NEW p, NEW q, NEW hs, NEW hs2, Len(hs) \in Nat, NEW nat,
           Arranged(m, pl, fr, len, p, hs, nat),
           pl[p].tries # <<>>, Reaches(pl, p, q, pl[p].height, Butlast(pl[p].tries)),
           Len(hs2) = Len(hs) - 1, Prefix(hs2, hs)
    PROVE  Arranged(m, pl, fr, len, q, hs2, nat)
<1> DEFINE n == Len(fr)
           T == pl[p].tries
           t == Butlast(T)
           h == pl[p].height
<1>1. /\ p \in DOMAIN pl /\ Sites(fr, p)[n] = p /\ n \in 1..n
      /\ h \in Int /\ len - fr[n].stack_base >= h
      /\ FramesFit(m, pl, fr, Sites(fr, p), len)
  BY AtSite
<1>2. Kept(fr, fr, n) /\ Returns(fr, fr, n)
  BY DEF Kept, Returns
<1>3. IsSeq(T) /\ Len(T) \in Nat
  BY <1>1, Planned, SeqIsSeq
<1>4. PICK off : /\ Offsets(TriesAt(pl, Sites(fr, p), n), n, hs, off)
                 /\ Len(hs) = off[n] + Len(T) /\ off[n] \in Nat
  BY LastOffset
<1>5. Len(t) = Len(T) - 1 /\ Len(T) >= 1 /\ \A i \in 1..(Len(T) - 1) : t[i] = T[i]
  BY <1>3, ButlastAny
<1>6. Reaches(pl, Sites(fr, p)[n], q, h, t)
  BY <1>1
<1> HIDE DEF t, h
<1>7. Prefix(t, pl[Sites(fr, p)[n]].tries) /\ Len(hs2) = off[n] + Len(t) /\ Len(hs2) \in Nat
  BY <1>1, <1>3, <1>4, <1>5 DEF Prefix
<1>8. Continues(m, pl, fr, q, len, hs2)
  BY <1>1, <1>2, <1>4, <1>6, <1>7, Continue
<1>9. BlocksFit(pl, Sites(fr, q), n, nat)
  BY <1>1, <1>2, MovedBlocks DEF Reaches, SameLoop
<1> QED
  BY <1>8, <1>9 DEF Arranged, Continues

\* a call: the frame of the function is at its entry e
LEMMA Enter ==
    ASSUME NEW m, NEW pl, Fits(m, pl), NEW fr, NEW fr2, Shape(fr), NEW len \in Int, NEW base \in Int,
           NEW p, NEW e, NEW hs, Len(hs) \in Nat, NEW nat, NEW nat2,
           Arranged(m, pl, fr, len, p, hs, nat), SameLoop(nat, nat2),
           Len(fr2) = Len(fr) + 1, \A j \in 1..Len(fr) : fr2[j] = fr[j],
           fr2[Len(fr) + 1].return_pc = p + 1, fr2[Len(fr) + 1].stack_base = base,
           fr2[Len(fr) + 1].defer_pcs = <<>>,
           OpAt(m, p) \in Calls, base >= len - Operands(OpAt(m, p)),
           e \in DOMAIN pl, pl[e].height <= 0, pl[e].tries = <<>>, pl[e].block = FALSE,
           pl[p].busy => pl[e].busy
    PROVE  Arranged(m, pl, fr2, base, e, hs, nat2)
<1> DEFINE n == Len(fr)
           st == Sites(fr, p)
           st2 == Sites(fr2, e)
           tr == TriesAt(pl, st, n)
           tr2 == TriesAt(pl, st2, n + 1)
<1>1. /\ p \in DOMAIN pl /\ st[n] = p /\ n \in 1..n /\ n \in Nat /\ n >= 1
      /\ pl[p].height \in Nat /\ len - fr[n].stack_base >= pl[p].height
      /\ pl[p].height >= Operands(OpAt(m, p)) /\ Operands(OpAt(m, p)) \in 0..2
      /\ FramesFit(m, pl, fr, st, len)
  BY AtSite DEF Shape
<1>2. \A j \in 1..n : st2[j] = st[j]
  <2> TAKE j \in 1..n
  <2>1. p \in Int
    BY <1>1, Planned
  <2>2. st2[j] = fr2[j + 1].return_pc - 1
    BY <1>1 DEF Sites
  <2>3. CASE j = n
    BY <1>1, <2>1, <2>2, <2>3
  <2>4. CASE j # n
    <3>1. j \in 1..(n - 1) /\ fr2[j + 1] = fr[j + 1]
      BY <1>1, <2>4
    <3> QED
      BY <2>2, <3>1, SitesOf
  <2> QED
    BY <2>3, <2>4
<1>3. st2[n + 1] = e
  BY <1>1 DEF Sites
<1>4. /\ fr[n].stack_base \in Int /\ base - fr[n].stack_base >= pl[p].height - Operands(OpAt(m, p))
      /\ fr[n].stack_base <= base
  <2> DEFINE b == fr[n].stack_base
             k == Operands(OpAt(m, p))
             h == pl[p].height
  <2>1. /\ b \in Int /\ k \in 0..2 /\ h \in Nat /\ len \in Int /\ base \in Int
        /\ len - b >= h /\ h >= k /\ base >= len - k
    BY <1>1 DEF Shape
  <2> HIDE DEF b, k, h
  <2>2. base - b >= h - k /\ b <= base
    BY ONLY <2>1
  <2> QED
    BY ONLY <2>1, <2>2 DEF b, k, h
<1> HIDE DEF st, st2
<1>5. FramesFit(m, pl, fr2, st2, base)
  <2>1. ASSUME NEW j \in 1..(n + 1) PROVE st2[j] \in DOMAIN pl /\ Pending(pl, fr2[j], st2[j])
    <3>1. CASE j = n + 1
      BY <1>3, <3>1 DEF Pending
    <3>2. CASE j # n + 1
      <4>1. j \in 1..n
        BY <3>2
      <4> QED
        BY <1>1, <1>2, <4>1 DEF FramesFit
    <3> QED
      BY <3>1, <3>2
  <2>2. ASSUME NEW j \in 1..n
        PROVE  /\ OpAt(m, st2[j]) \in Calls
               /\ fr2[j + 1].stack_base - fr2[j].stack_base >= pl[st2[j]].height - Operands(OpAt(m, st2[j]))
    <3>1. CASE j = n
      BY <1>1, <1>2, <1>4, <3>1
    <3>2. CASE j # n
      <4>1. j \in 1..(n - 1) /\ j + 1 \in 1..n
        BY <3>2
      <4> QED
        BY <1>1, <1>2, <4>1 DEF FramesFit
    <3> QED
      BY <3>1, <3>2
  <2>3. ASSUME NEW i \in 1..(n + 1), NEW j \in 1..(n + 1), i <= j
        PROVE  fr2[i].stack_base <= fr2[j].stack_base
    <3>1. CASE i = n + 1
      BY <2>3, <3>1
    <3>2. CASE i # n + 1 /\ j = n + 1
      <4>1. i \in 1..n /\ fr2[i] = fr[i]
        BY <3>2
      <4>2. fr[i].stack_base <= fr[n].stack_base /\ fr[i].stack_base \in Int
        BY <1>1, <4>1 DEF FramesFit, Shape
      <4> QED
        BY <1>4, <3>2, <4>1, <4>2
    <3>3. CASE i # n + 1 /\ j # n + 1
      <4>1. i \in 1..n /\ j \in 1..n /\ fr2[i] = fr[i] /\ fr2[j] = fr[j]
        BY <3>3
      <4> QED
        BY <1>1, <2>3, <4>1 DEF FramesFit
    <3> QED
      BY <3>1, <3>2, <3>3
  <2>4. base - fr2[n + 1].stack_base >= pl[e].height
    <3>1. pl[e].height \in Nat
      BY Planned
    <3> QED
      BY <3>1
  <2>5. Len(fr2) = n + 1 /\ Len(fr2) - 1 = n
    BY <1>1
  <2> QED
    BY <1>3, <2>1, <2>2, <2>3, <2>4, <2>5 DEF FramesFit
<1>6. HandlersFit(tr2, n + 1, hs)
  <2>1. \A j \in 1..n : tr2[j] = tr[j]
    <3> TAKE j \in 1..n
    <3>1. j \in 1..(n + 1) /\ st2[j] = st[j]
      BY <1>1, <1>2
    <3> QED
      BY <3>1, TriesOf
  <2>2. tr2[n + 1] = <<>>
    <3>1. n + 1 \in 1..(n + 1)
      BY <1>1
    <3> QED
      BY <1>3, <3>1, TriesOf
  <2>3. HandlersFit(tr, n, hs)
    BY DEF Arranged, st
  <2> HIDE DEF tr, tr2, n
  <2> QED
    BY <1>1, <2>1, <2>2, <2>3, EnterHandlers
<1>7. BlocksFit(pl, st2, n + 1, nat2)
  <2>1. BlocksFit(pl, st, n, nat)
    BY DEF Arranged, st
  <2> HIDE DEF n
  <2> QED
    BY <1>1, <1>2, <1>3, <2>1, BlocksEntered
<1> QED
  BY <1>5, <1>6, <1>7 DEF Arranged, tr2, st2

\* a return, or the end of the deferred blocks of a return
LEMMA Leave ==
    ASSUME NEW m, NEW pl, Fits(m, pl), NEW fr, NEW fr2, Shape(fr), Len(fr) > 1,
           NEW len \in Int, NEW p, NEW hs, Len(hs) \in Nat, NEW nat, NEW nat2,
           Arranged(m, pl, fr, len, p, hs, nat), pl[p].tries = <<>>,
           BlocksFit(pl, Sites(fr, p), Len(fr) - 1, nat2),
           Kept(fr, fr2, Len(fr) - 1)
    PROVE  Arranged(m, pl, fr2, fr[Len(fr)].stack_base + 1, fr[Len(fr)].return_pc, hs, nat2)
<1> DEFINE n == Len(fr)
           d == n - 1
           s == Sites(fr, p)[d]
           q == fr[n].return_pc
           base == fr[n].stack_base
           dh == IF OpAt(m, s) = "CallByName" THEN 1 ELSE 0
           h == pl[s].height + dh
           t == pl[s].tries
<1>1. /\ p \in DOMAIN pl /\ Sites(fr, p)[n] = p /\ n \in Nat /\ n > 1 /\ n \in 1..n
      /\ FramesFit(m, pl, fr, Sites(fr, p), len)
  BY AtSite DEF Shape
<1>2. d \in 1..n /\ d \in 1..(n - 1) /\ d + 1 = n /\ d \in Nat /\ d >= 1
  BY <1>1
<1>3. q = s + 1 /\ s \in DOMAIN pl /\ s \in Int /\ base \in Int /\ fr[d].stack_base \in Int
  <2>1. s = q - 1 /\ q \in Int
    <3>1. Sites(fr, p)[d] = fr[d + 1].return_pc - 1
      BY <1>2, SitesOf
    <3>2. fr[n].return_pc \in Int
      BY <1>1 DEF Shape
    <3> HIDE DEF d
    <3> QED
      BY <1>2, <3>1, <3>2
  <2>2. s \in DOMAIN pl
    BY <1>1, <1>2 DEF FramesFit
  <2> QED
    BY <1>1, <1>2, <2>1, <2>2 DEF Shape
<1>4. OpAt(m, s) \in Calls /\ base - fr[d].stack_base >= pl[s].height - Operands(OpAt(m, s))
  BY <1>1, <1>2 DEF FramesFit
<1>5. Reaches(pl, s, q, h, t) /\ h \in Int /\ (base + 1) - fr[d].stack_base >= h
  <2>1. pl[s].height \in Nat
    BY <1>3, Planned
  <2>2. CASE OpAt(m, s) = "CallByName"
    <3>1. Reaches(pl, s, q, pl[s].height + 1, t)
      BY <1>3, <2>2, FlowNear DEF Near
    <3>2. Operands(OpAt(m, s)) = 0
      BY <2>2 DEF Operands
    <3>3. h = pl[s].height + 1
      BY <2>2
    <3> HIDE DEF h, t, q, base, s, d
    <3>4. h \in Int /\ (base + 1) - fr[d].stack_base >= h
      BY ONLY <1>3, <1>4, <2>1, <3>2, <3>3
    <3>5. Reaches(pl, s, q, h, t)
      BY ONLY <3>1, <3>3 DEF t
    <3> QED
      BY ONLY <3>4, <3>5
  <2>3. CASE OpAt(m, s) = "CallMethod"
    <3>1. Reaches(pl, s, q, pl[s].height + 0, t)
      BY <1>3, <2>3, FlowNear DEF Near
    <3>2. Operands(OpAt(m, s)) = 1 /\ OpAt(m, s) # "CallByName"
      BY <2>3 DEF Operands
    <3>3. h = pl[s].height + 0
      BY <3>2
    <3> HIDE DEF h, t, q, base, s, d
    <3>4. h \in Int /\ (base + 1) - fr[d].stack_base >= h
      BY ONLY <1>3, <1>4, <2>1, <3>2, <3>3
    <3>5. Reaches(pl, s, q, h, t)
      BY ONLY <3>1, <3>3 DEF t
    <3> QED
      BY ONLY <3>4, <3>5
  <2> QED
    BY <1>4, <2>2, <2>3 DEF Calls
<1>6. PICK off : Offsets(TriesAt(pl, Sites(fr, p), n), n, hs, off) /\ Len(hs) = off[d] + Len(t)
  <2>1. PICK off : /\ Offsets(TriesAt(pl, Sites(fr, p), n), n, hs, off)
                   /\ Len(hs) = off[n] + Len(pl[p].tries) /\ off[n] \in Nat
    BY LastOffset
  <2> DEFINE tr == TriesAt(pl, Sites(fr, p), n)
  <2>2. tr[d] = t
    BY <1>2, TriesOf
  <2> HIDE DEF tr, t
  <2>3. \A j \in 1..n : off[j + 1] = off[j] + Len(tr[j])
    <3>1. HandlersAt(tr, n, hs, off)
      BY <1>1, <2>1, OffsetsOf DEF tr
    <3> QED
      BY <3>1 DEF HandlersAt
  <2>4. off[n] = off[d] + Len(tr[d])
    BY <1>2, <2>3
  <2> QED
    BY <2>1, <2>2, <2>4 DEF tr
<1>7. Prefix(t, pl[Sites(fr, p)[d]].tries) /\ Prefix(hs, hs)
  BY <1>3, Planned DEF Prefix
<1>8. fr[d].stack_base \in Int /\ base + 1 \in Int /\ Reaches(pl, Sites(fr, p)[d], q, h, t)
  BY <1>3, <1>5
<1>9. Len(fr2) = d /\ Kept(fr, fr2, d)
  BY DEF Kept
<1>10. Continues(m, pl, fr2, q, base + 1, hs)
  <2> DEFINE b == base + 1
  <2> HIDE DEF h, t, s, q, base
  <2>1. b \in Int /\ b - fr[d].stack_base >= h
    BY <1>5, <1>8
  <2>2. d \in 1..Len(fr) /\ Offsets(TriesAt(pl, Sites(fr, p), Len(fr)), Len(fr), hs, off)
    BY <1>2, <1>6
  <2> HIDE DEF n, d, b
  <2> QED
    BY <1>1, <1>5, <1>6, <1>7, <1>8, <1>9, <2>1, <2>2, Continue DEF b
<1>11. BlocksFit(pl, Sites(fr2, q), d, nat2)
  <2>1. Returns(fr, fr2, d)
    BY <1>9 DEF Kept, Returns
  <2>2. SitesCut(Sites(fr, p), Sites(fr2, q), d) /\ Sites(fr2, q)[d] = q
    BY <1>2, <2>1, SitesOfCut
  <2>3. pl[q].block = pl[s].block /\ (pl[s].busy => pl[q].busy)
    BY <1>5 DEF Reaches
  <2>4. BlocksFit(pl, Sites(fr, p), d, nat2) /\ SameLoop(nat2, nat2)
    BY DEF SameLoop
  <2> HIDE DEF d, q
  <2> QED
    BY <1>2, <2>2, <2>3, <2>4, BlocksMoved
<1> QED
  BY <1>9, <1>10, <1>11 DEF Arranged, Continues

TopDepth(hs) == hs[Len(hs)].depth
\* the catches tr of its frame, whose handlers lie above o, and the handler on top
Innermost(tr, hs, o) ==
    o \in Nat /\ Len(hs) - o \in 1..Len(tr) /\ hs[Len(hs)].catch_pc = tr[Len(hs) - o]

\* the handler on top is that of the innermost try of its frame
LEMMA TopHandler ==
    ASSUME NEW m, NEW pl, Fits(m, pl), NEW fr, Shape(fr), NEW len, NEW p,
           NEW hs, Len(hs) \in Nat, Len(hs) >= 1, NEW nat,
           Arranged(m, pl, fr, len, p, hs, nat)
    PROVE  /\ TopDepth(hs) \in 1..Len(fr)
           /\ \E off : /\ Offsets(TriesAt(pl, Sites(fr, p), Len(fr)), Len(fr), hs, off)
                       /\ Innermost(pl[Sites(fr, p)[TopDepth(hs)]].tries, hs, off[TopDepth(hs)])
<1> DEFINE n == Len(fr)
           d == TopDepth(hs)
           T == pl[Sites(fr, p)[d]].tries
           tr == TriesAt(pl, Sites(fr, p), n)
<1>1. n \in Nat /\ HandlersFit(tr, n, hs)
  BY DEF Arranged, Shape
<1>2. PICK off : Offsets(tr, n, hs, off)
  BY <1>1 DEF HandlersFit
<1> HIDE DEF tr
<1>3. HandlersAt(tr, n, hs, off)
  <2> HIDE DEF n
  <2> QED
    BY <1>1, <1>2, OffsetsOf
<1>4. Len(hs) \in 1..Len(hs) /\ HandlerAt(tr, n, hs[Len(hs)], Len(hs), off)
  BY <1>3 DEF HandlersAt
<1>5. /\ d \in 1..n /\ off[d] < Len(hs) /\ Len(hs) <= off[d + 1]
      /\ hs[Len(hs)].catch_pc = tr[d][Len(hs) - off[d]]
  BY <1>4 DEF HandlerAt, TopDepth
<1>6. tr[d] = T /\ d \in 1..(n + 1)
  BY <1>1, <1>5, TriesOf DEF tr
<1>7. off[d] \in Nat /\ off[d + 1] = off[d] + Len(T)
  BY <1>3, <1>5, <1>6 DEF HandlersAt
<1>8. Len(T) \in Nat
  <2>1. Sites(fr, p)[d] \in DOMAIN pl
    BY <1>5 DEF Arranged, FramesFit
  <2> QED
    BY <2>1, Planned
<1>9. Len(hs) - off[d] \in 1..Len(T)
  BY <1>5, <1>7, <1>8
<1>10. Innermost(T, hs, off[d])
  BY <1>5, <1>6, <1>7, <1>9 DEF Innermost
<1> QED
  BY <1>2, <1>5, <1>10 DEF tr

\* a throw: control resumes at the catch, in its frame
LEMMA Resume ==
    ASSUME NEW m, NEW pl, Fits(m, pl), NEW fr, NEW fr2, Shape(fr), NEW len \in Int, NEW len2 \in Int,
           NEW p, NEW hs, NEW hs2, Len(hs) \in Nat, Len(hs) >= 1, NEW nat, NEW nat2,
           Arranged(m, pl, fr, len, p, hs, nat), ~InBlocks(nat), ~InBlocks(nat2),
           Kept(fr, fr2, TopDepth(hs)),
           Len(hs2) = Len(hs) - 1, Prefix(hs2, hs),
           len2 = len - Operands(OpAt(m, p)) + 1
    PROVE  Arranged(m, pl, fr2, len2, hs[Len(hs)].catch_pc, hs2, nat2)
<1> DEFINE n == Len(fr)
           d == TopDepth(hs)
           s == Sites(fr, p)[d]
           T == pl[s].tries
           q == hs[Len(hs)].catch_pc
           h == pl[s].height - Operands(OpAt(m, s)) + 1
<1>1. /\ p \in DOMAIN pl /\ Sites(fr, p)[n] = p /\ n \in 1..n /\ n \in Nat
      /\ pl[p].height \in Nat /\ len - fr[n].stack_base >= pl[p].height
      /\ pl[p].height >= Operands(OpAt(m, p)) /\ Operands(OpAt(m, p)) \in 0..2
      /\ FramesFit(m, pl, fr, Sites(fr, p), len)
  BY AtSite DEF Shape
<1>2. d \in 1..n
  BY TopHandler
<1>3. PICK off : /\ Offsets(TriesAt(pl, Sites(fr, p), n), n, hs, off)
                 /\ off[d] \in Nat /\ Len(hs) - off[d] \in 1..Len(T) /\ q = T[Len(hs) - off[d]]
  <2>1. PICK off : /\ Offsets(TriesAt(pl, Sites(fr, p), n), n, hs, off)
                   /\ Innermost(T, hs, off[d])
    BY TopHandler
  <2> QED
    BY <2>1 DEF Innermost
<1> HIDE DEF d
<1> DEFINE k == Len(hs) - off[d]
           t == SubSeq(T, 1, k - 1)
<1>4. s \in DOMAIN pl /\ pl[s].height \in Nat /\ T \in Seq(DOMAIN pl) /\ Len(T) \in Nat /\ DOMAIN T = 1..Len(T)
  <2>1. s \in DOMAIN pl
    BY <1>1, <1>2 DEF FramesFit
  <2> QED
    BY <2>1, Planned
<1>5. Reaches(pl, s, q, h, t) /\ k \in 1..Len(T)
  BY <1>3, <1>4, FlowThrown
<1>6. Len(t) = k - 1 /\ \A i \in 1..(k - 1) : t[i] = T[i]
  <2> HIDE DEF T, k
  <2>1. CASE k = 1
    <3>1. t = <<>>
      BY <1>4, <2>1, SubSeqProperties
    <3> QED
      BY <2>1, <3>1
  <2>2. CASE k # 1
    BY <1>4, <1>5, <2>2, SubSeqProperties
  <2> QED
    BY <2>1, <2>2
<1>7. Prefix(t, T) /\ Len(hs2) = off[d] + Len(t) /\ Len(hs2) \in Nat
  <2> HIDE DEF t, T
  <2> DEFINE o == off[d]
             a == Len(hs)
             b == Len(T)
  <2>0. k = a - o /\ a \in Nat /\ b \in Nat /\ o \in Nat /\ k \in 1..b /\ Len(hs2) = a - 1
    BY <1>3, <1>4, <1>5
  <2> HIDE DEF a, b, o, k
  <2>1. k \in Nat /\ k - 1 <= b /\ k - 1 \in Nat /\ Len(hs2) = o + (k - 1) /\ Len(hs2) \in Nat
    BY <2>0
  <2>2. \A i \in 1..Len(t) : t[i] = T[i]
    BY <1>6
  <2>3. Prefix(t, T)
    BY <1>6, <2>1, <2>2 DEF Prefix, b
  <2> QED
    BY <1>6, <2>1, <2>3 DEF o
<1>8. h \in Int /\ len2 - fr[d].stack_base >= h
  <2> DEFINE o == Operands(OpAt(m, s))
             b == fr[d].stack_base
             c == fr[n].stack_base
             x == pl[s].height
  <2>1. o \in 0..2 /\ b \in Int /\ c \in Int /\ b <= c
    <3>1. b <= c
      BY <1>1, <1>2 DEF FramesFit
    <3> QED
      BY <1>1, <1>2, <3>1, OperandsBound DEF Shape
  <2>2. CASE d = n
    <3>1. s = p /\ b = c /\ o = Operands(OpAt(m, p)) /\ x = pl[p].height
      BY <1>1, <2>2
    <3>2. len2 - c >= x - o + 1
      <4> DEFINE a == Operands(OpAt(m, p))
                 y == pl[p].height
      <4>1. len2 = len - a + 1 /\ len - c >= y /\ a \in 0..2 /\ y \in Nat
        BY <1>1
      <4>2. x = y /\ o = a
        BY <3>1
      <4> HIDE DEF a, y, x, o, c
      <4> QED
        BY <2>1, <4>1, <4>2
    <3> QED
      BY <1>4, <2>1, <3>1, <3>2
  <2>3. CASE d # n
    <3>1. d \in 1..(n - 1) /\ d + 1 \in 1..n
      BY <1>1, <1>2, <2>3
    <3> DEFINE e == fr[d + 1].stack_base
    <3>2. e - b >= x - o /\ e <= c /\ e \in Int
      BY <1>1, <3>1 DEF FramesFit, Shape
    <3> HIDE DEF e, b, c, x, o
    <3>3. h = x - o + 1
      BY DEF x, o
    <3>4. len2 - c >= 1
      BY <1>1, <2>1 DEF c
    <3>5. x \in Nat
      BY <1>4 DEF x
    <3> HIDE DEF h
    <3>6. h \in Int /\ len2 - b >= h
      BY <2>1, <3>2, <3>3, <3>4, <3>5
    <3> QED
      BY <3>6 DEF b
  <2> QED
    BY <2>2, <2>3
<1>9. Len(fr2) = d /\ Kept(fr, fr2, d)
  BY DEF Kept, d
<1>10. d \in 1..Len(fr) /\ Offsets(TriesAt(pl, Sites(fr, p), Len(fr)), Len(fr), hs, off)
  BY <1>2, <1>3
<1>11. Reaches(pl, Sites(fr, p)[d], q, h, t) /\ Prefix(t, pl[Sites(fr, p)[d]].tries)
  BY <1>5, <1>7
<1> HIDE DEF h, t, T, s, k, q, n
<1>12. Continues(m, pl, fr2, q, len2, hs2)
  BY <1>1, <1>7, <1>8, <1>9, <1>10, <1>11, Continue
<1>13. BlocksFit(pl, Sites(fr2, q), d, nat2)
  <2>1. Returns(fr, fr2, d)
    BY <1>9 DEF Kept, Returns
  <2>2. SitesCut(Sites(fr, p), Sites(fr2, q), d) /\ Sites(fr2, q)[d] = q
    BY <1>10, <2>1, SitesOfCut
  <2>3. \A j \in 1..n : ~pl[Sites(fr, p)[j]].block
    BY DEF Arranged, BlocksFit, NoBlock, n
  <2>4. pl[q].block = pl[s].block
    BY <1>5 DEF Reaches
  <2>5. ASSUME NEW j \in 1..d PROVE ~pl[Sites(fr2, q)[j]].block
    <3>1. j \in 1..n
      BY <1>1, <1>2
    <3>2. CASE j = d
      BY <2>2, <2>3, <2>4, <3>1, <3>2 DEF s
    <3>3. CASE j # d
      <4>1. Sites(fr2, q)[j] = Sites(fr, p)[j]
        BY <1>1, <1>2, <2>2, <3>3 DEF SitesCut
      <4> QED
        BY <2>3, <3>1, <4>1
    <3> QED
      BY <3>2, <3>3
  <2> QED
    BY <2>5 DEF BlocksFit, NoBlock
<1> QED
  BY <1>9, <1>12, <1>13 DEF Arranged, Continues, q

\* the first deferred block of a return, or the next one
LEMMA StartBlock ==
    ASSUME NEW m, NEW pl, Fits(m, pl), NEW fr, NEW fr2, Shape(fr), Returns(fr, fr2, Len(fr)),
           \A j \in 1..(Len(fr) - 1) : fr2[j] = fr[j],
           fr2[Len(fr)].stack_base = fr[Len(fr)].stack_base, fr2[Len(fr)].defer_pcs = <<>>,
           NEW len \in Int, NEW p, NEW q, NEW hs, Len(hs) \in Nat, NEW nat, NEW nat2,
           Arranged(m, pl, fr, len, p, hs, nat), pl[p].tries = <<>>, pl[p].height >= 1,
           Allows(pl, q, BlockStart), BlocksFit(pl, Sites(fr2, q), Len(fr), nat2)
    PROVE  Arranged(m, pl, fr2, len, q, hs, nat2)
<1> DEFINE n == Len(fr)
<1>1. /\ p \in DOMAIN pl /\ Sites(fr, p)[n] = p /\ n \in 1..n /\ n \in Nat
      /\ pl[p].height \in Nat /\ len - fr[n].stack_base >= pl[p].height
      /\ FramesFit(m, pl, fr, Sites(fr, p), len)
      /\ \A j \in 1..n : Sites(fr, p)[j] \in DOMAIN pl
  BY AtSite DEF Shape
<1>2. q \in DOMAIN pl /\ pl[q].height <= 1 /\ pl[q].tries = <<>> /\ pl[q].height \in Nat
  BY Entered, Planned
<1>3. SitesCut(Sites(fr, p), Sites(fr2, q), n) /\ Sites(fr2, q)[n] = q /\ Len(fr2) = n
  <2>1. Len(fr2) = n
    BY DEF Returns
  <2>2. SitesCut(Sites(fr, p), Sites(fr2, q), n) /\ Sites(fr2, q)[n] = q
    BY <1>1, SitesOfCut
  <2> QED
    BY <2>1, <2>2
<1>4. FramesFit(m, pl, fr2, Sites(fr2, q), len)
  <2>1. Pending(pl, fr2[n], q)
    BY DEF Pending
  <2>2. len - fr[n].stack_base >= pl[q].height
    BY <1>1, <1>2 DEF Shape
  <2> QED
    BY <1>1, <1>2, <1>3, <2>1, <2>2, CutFrames
<1>5. HandlersFit(TriesAt(pl, Sites(fr2, q), n), n, hs)
  <2>1. PICK off : /\ Offsets(TriesAt(pl, Sites(fr, p), n), n, hs, off)
                   /\ Len(hs) = off[n] + Len(pl[p].tries) /\ off[n] \in Nat
    BY LastOffset
  <2>2. Len(hs) = off[n] + Len(pl[q].tries)
    BY <1>2, <2>1
  <2>3. Prefix(pl[q].tries, pl[Sites(fr, p)[n]].tries) /\ Prefix(hs, hs)
    BY <1>1, <1>2 DEF Prefix
  <2> QED
    BY <1>1, <1>2, <2>1, <2>2, <2>3, CutTries
<1> QED
  BY <1>3, <1>4, <1>5 DEF Arranged

\* the blocks of a return that finds none running
LEMMA FirstBlock ==
    ASSUME NEW pl, NEW st, NEW st2, NEW n \in Nat, n >= 1, NEW nat,
           NoBlock(pl, st, n), SitesCut(st, st2, n), Allows(pl, st2[n], BlockStart),
           InBlocks(nat), LoopFits(pl, nat[1])
    PROVE  BlocksFit(pl, st2, n, nat)
<1>1. pl[st2[n]].block /\ pl[st2[n]].busy
  BY Entered
<1>2. \A j \in 1..n : j # n => ~pl[st2[j]].block
  BY DEF NoBlock, SitesCut
<1>3. OneBlock(pl, st2, n)
  BY <1>1, <1>2 DEF OneBlock
<1> QED
  BY <1>3 DEF BlocksFit

\* the next block of a loop
LEMMA NextBlock ==
    ASSUME NEW pl, NEW st, NEW st2, NEW n \in Nat, n >= 1, NEW nat, NEW nat2,
           BlocksFit(pl, st, n, nat), InBlocks(nat), SitesCut(st, st2, n), pl[st[n]].block = TRUE,
           Allows(pl, st2[n], BlockStart), InBlocks(nat2), LoopFits(pl, nat2[1])
    PROVE  BlocksFit(pl, st2, n, nat2)
<1>1. pl[st2[n]].block = TRUE /\ pl[st2[n]].busy
  BY Entered
<1>2. BlocksFit(pl, st2, n, nat)
  BY <1>1, BlocksMoved DEF SameLoop
<1> QED
  BY <1>2 DEF BlocksFit

\* where the loop of the deferred blocks stops, the block ends, in its own frame
LEMMA BlockEnd ==
    ASSUME NEW m, NEW pl, Fits(m, pl), NEW fr, Shape(fr), NEW len \in Int, NEW p, NEW hs, NEW nat,
           Arranged(m, pl, fr, len, p, hs, nat), InBlocks(nat),
           OpAt(m, p) = "Nop" \/ p = nat[1].cont
    PROVE  /\ pl[p].block = TRUE /\ pl[p].height >= 1 /\ pl[p].tries = <<>>
           /\ NoBlock(pl, Sites(fr, p), Len(fr) - 1)
<1> DEFINE n == Len(fr)
           st == Sites(fr, p)
<1>1. p \in DOMAIN pl /\ st[n] = p /\ n \in 1..n
  BY AtSite
<1>2. OneBlock(pl, st, n) /\ LoopFits(pl, nat[1])
  BY DEF Arranged, BlocksFit
<1>3. PICK k \in 1..n : /\ pl[st[k]].block
                        /\ \A j \in 1..n : /\ j # k => ~pl[st[j]].block
                                           /\ j >= k => pl[st[j]].busy
  BY <1>2 DEF OneBlock
<1>4. pl[p].busy
  BY <1>1, <1>3
<1>5. EndsBlock(pl[p])
  <2>1. CASE OpAt(m, p) = "Nop"
    BY <1>1, <2>1, Planned
  <2>2. CASE p = nat[1].cont
    BY <1>1, <1>2, <1>4, <2>2 DEF LoopFits
  <2> QED
    BY <2>1, <2>2
<1>6. pl[p].block /\ pl[p].block \in BOOLEAN
  <2>1. pl[p] \in PlanRecord(pl)
    BY <1>1, Planned
  <2> QED
    BY <1>5, <2>1 DEF EndsBlock, PlanRecord
<1>7. k = n
  BY <1>1, <1>3, <1>6
<1>8. NoBlock(pl, st, n - 1)
  <2> SUFFICES ASSUME NEW j \in 1..(n - 1) PROVE ~pl[st[j]].block
    BY DEF NoBlock
  <2>1. j \in 1..n /\ j # k
    BY <1>7 DEF Shape
  <2> QED
    BY <1>3, <2>1
<1> QED
  BY <1>5, <1>6, <1>8 DEF EndsBlock

\* one more deferred block
LEMMA AddDefer ==
    ASSUME NEW m, NEW pl, Fits(m, pl), NEW fr, NEW fr2, Shape(fr), Returns(fr, fr2, Len(fr)),
           \A j \in 1..(Len(fr) - 1) : fr2[j] = fr[j],
           fr2[Len(fr)].stack_base = fr[Len(fr)].stack_base,
           NEW len \in Int, NEW p, NEW q, NEW hs, Len(hs) \in Nat, NEW nat,
           Arranged(m, pl, fr, len, p, hs, nat),
           Near(pl, p, q, 0), Pending(pl, fr2[Len(fr)], q)
    PROVE  Arranged(m, pl, fr2, len, q, hs, nat)
<1> DEFINE n == Len(fr)
<1>1. /\ p \in DOMAIN pl /\ Sites(fr, p)[n] = p /\ n \in 1..n /\ n \in Nat
      /\ pl[p].height \in Nat /\ len - fr[n].stack_base >= pl[p].height
      /\ FramesFit(m, pl, fr, Sites(fr, p), len)
      /\ \A j \in 1..n : Sites(fr, p)[j] \in DOMAIN pl
  BY AtSite DEF Shape
<1>2. /\ q \in DOMAIN pl /\ pl[q].height <= pl[p].height /\ pl[q].tries = pl[p].tries
      /\ pl[q].block = pl[p].block /\ (pl[p].busy => pl[q].busy)
  BY <1>1 DEF Near, Reaches
<1>3. SitesCut(Sites(fr, p), Sites(fr2, q), n) /\ Sites(fr2, q)[n] = q /\ Len(fr2) = n
  <2>1. Len(fr2) = n
    BY DEF Returns
  <2>2. SitesCut(Sites(fr, p), Sites(fr2, q), n) /\ Sites(fr2, q)[n] = q
    BY <1>1, SitesOfCut
  <2> QED
    BY <2>1, <2>2
<1>4. FramesFit(m, pl, fr2, Sites(fr2, q), len)
  <2>1. len - fr[n].stack_base >= pl[q].height
    <3>1. pl[q].height \in Nat
      BY <1>2, Planned
    <3> QED
      BY <1>1, <1>2, <3>1 DEF Shape
  <2>2. Fits(m, pl) /\ Shape(fr) /\ len \in Int
    OBVIOUS
  <2> QED
    BY <1>1, <1>2, <1>3, <2>1, <2>2, CutFrames
<1>5. HandlersFit(TriesAt(pl, Sites(fr2, q), n), n, hs)
  <2>1. PICK off : /\ Offsets(TriesAt(pl, Sites(fr, p), n), n, hs, off)
                   /\ Len(hs) = off[n] + Len(pl[p].tries) /\ off[n] \in Nat
    BY LastOffset
  <2>2. Len(hs) = off[n] + Len(pl[q].tries)
    BY <1>2, <2>1
  <2>3. Prefix(pl[q].tries, pl[Sites(fr, p)[n]].tries) /\ Prefix(hs, hs)
    BY <1>1, <1>2, Planned DEF Prefix
  <2> QED
    BY <1>1, <1>2, <2>1, <2>2, <2>3, CutTries
<1>6. BlocksFit(pl, Sites(fr2, q), Len(fr2), nat)
  BY <1>1, <1>2, MovedBlocks DEF SameLoop
<1> QED
  BY <1>3, <1>4, <1>5, <1>6 DEF Arranged

LEMMA NestedOf ==
    ASSUME NEW m, NEW pl, NEW fr, NEW len, NEW p, NEW hs, NEW nat,
           Len(fr) \in Nat, Len(hs) \in Nat, DOMAIN hs = 1..Len(hs),
           Arranged(m, pl, fr, len, p, hs, nat)
    PROVE  HandlersNest(fr, hs)
<1> DEFINE n == Len(fr)
           tr == TriesAt(pl, Sites(fr, p), n)
<1>1. PICK off : Offsets(tr, n, hs, off)
  BY DEF Arranged, HandlersFit
<1> HIDE DEF tr
<1>2. HandlersAt(tr, n, hs, off)
  <2> HIDE DEF n
  <2>1. n \in Nat
    BY DEF n
  <2> QED
    BY <1>1, <2>1, OffsetsOf
<1>3. \A i \in 1..Len(hs) : /\ hs[i].depth \in 1..n
                            /\ off[hs[i].depth] < i /\ i <= off[hs[i].depth + 1]
  BY <1>2 DEF HandlersAt, HandlerAt
<1> SUFFICES ASSUME NEW i \in 1..Len(hs)
             PROVE  /\ hs[i].depth <= n
                    /\ i > 1 => hs[i - 1].depth <= hs[i].depth
  BY DEF HandlersNest
<1>4. ASSUME i > 1, hs[i - 1].depth > hs[i].depth PROVE FALSE
  <2> DEFINE e == hs[i - 1].depth
             f == hs[i].depth
  <2>1. i - 1 \in 1..Len(hs)
    BY <1>4
  <2>2. e \in 1..n /\ f \in 1..n /\ off[e] < i - 1 /\ i <= off[f + 1]
    BY <1>3, <2>1
  <2>3. f + 1 \in 1..(n + 1) /\ e \in 1..(n + 1) /\ f + 1 <= e
    BY <1>4, <2>2
  <2>4. off[f + 1] <= off[e] /\ off[e] \in Nat /\ off[f + 1] \in Nat
    BY <1>2, <2>3 DEF HandlersAt
  <2> QED
    BY <2>2, <2>4
<1>5. i > 1 => i - 1 \in 1..Len(hs)
  OBVIOUS
<1>6. hs[i].depth \in 1..n /\ (i > 1 => hs[i - 1].depth \in 1..n) /\ n \in Nat
  BY <1>3, <1>5
<1> DEFINE e == hs[i - 1].depth
           f == hs[i].depth
<1>7. i > 1 => ~(e > f)
  BY ONLY <1>4
<1>8. f \in 1..n /\ (i > 1 => e \in 1..n) /\ n \in Nat
  BY ONLY <1>6
<1> HIDE DEF e, f, n
<1>9. f <= n /\ (i > 1 => e <= f)
  BY ONLY <1>7, <1>8
<1> QED
  BY ONLY <1>9 DEF e, f

(***************************************************************************)
(* The interpreter in an arranged state                                    *)
(***************************************************************************)

Planning(pl) ==
    VMInv /\ Fits(module, pl) /\ Arranged(module, pl, frames, Len(stack), pc, handler_stack, native)
Planning2(pl) ==
    status' = "running" =>
        Arranged(module, pl, frames', Len(stack'), pc', handler_stack', native')

LEMMA StateShape ==
    ASSUME NEW pl, Planning(pl)
    PROVE  /\ Fits(module, pl) /\ Shape(frames) /\ Len(stack) \in Int /\ Len(stack) \in Nat
           /\ Len(handler_stack) \in Nat /\ Len(native) \in Nat
           /\ Arranged(module, pl, frames, Len(stack), pc, handler_stack, native)
           /\ OpAt(module, pc) = At(pc).op /\ pc \in DOMAIN pl
           /\ IsSeq(stack) /\ IsSeq(handler_stack) /\ IsSeq(native)
<1>1. /\ frames \in Seq(FrameRecord) /\ Len(frames) >= 1 /\ Len(frames) \in Nat
      /\ Len(stack) \in Nat /\ handler_stack \in Seq(Handlers) /\ Len(native) \in Nat
      /\ IsSeq(stack) /\ IsSeq(native)
  BY StateFacts DEF Planning
<1>2. Shape(frames)
  <2>1. \A j \in 1..Len(frames) : frames[j] \in FrameRecord
    BY <1>1
  <2>2. ASSUME NEW f \in FrameRecord PROVE f.return_pc \in Int /\ f.stack_base \in Int
    BY DEF FrameRecord, Pcs
  <2> QED
    BY <1>1, <2>1, <2>2 DEF Shape
<1>3. Len(handler_stack) \in Nat /\ IsSeq(handler_stack)
  BY <1>1, SeqIsSeq
<1>4. OpAt(module, pc) = At(pc).op
  BY DEF OpAt, At, code
<1>5. Fits(module, pl) /\ Arranged(module, pl, frames, Len(stack), pc, handler_stack, native)
  BY DEF Planning
<1>6. Len(stack) \in Int
  BY <1>1
<1>7. pc \in DOMAIN pl
  BY <1>2, <1>5, <1>6, AtSite
<1> QED
  BY <1>1, <1>2, <1>3, <1>4, <1>5, <1>6, <1>7

\* the operands and the control of one function
LEMMA PlannedMove ==
    ASSUME NEW pl, Planning(pl), NEW q, NEW dh \in Int, NEW s, IsSeq(s),
           Near(pl, pc, q, dh), Len(s) >= Len(stack) + dh
    PROVE  Arranged(module, pl, frames, Len(s), q, handler_stack, native)
<1>1. /\ Fits(module, pl) /\ Shape(frames) /\ Len(stack) \in Int /\ Len(handler_stack) \in Nat
      /\ Arranged(module, pl, frames, Len(stack), pc, handler_stack, native)
  BY StateShape
<1>2. SameLoop(native, native)
  BY DEF SameLoop
<1>3. Len(s) \in Int
  BY DEF IsSeq
<1> DEFINE l == Len(s)
           k == Len(stack)
<1>4. l \in Int /\ k \in Int /\ l >= k + dh /\ Arranged(module, pl, frames, k, pc, handler_stack, native)
  BY <1>1, <1>3
<1> HIDE DEF l, k
<1>5. Arranged(module, pl, frames, l, q, handler_stack, native)
  BY <1>1, <1>2, <1>4, Move
<1> QED
  BY <1>5 DEF l

LEMMA PlannedStraight ==
    ASSUME NEW pl, Planning(pl),
           Const \/ LoadSelf \/ Dup \/ Eq \/ MulNull \/ PopValue \/ PrintTop \/ CallBuiltin
             \/ Jump \/ JumpIfFalse \/ Iter \/ IterNext
    PROVE  Planning2(pl)
<1>1. Fits(module, pl) /\ pc \in DOMAIN pl /\ OpAt(module, pc) = At(pc).op
      /\ IsSeq(stack) /\ Len(stack) \in Nat
  BY StateShape
<1>2. /\ \A v : IsSeq(Append(stack, v)) /\ Len(Append(stack, v)) = Len(stack) + 1
      /\ stack # <<>> => IsSeq(Butlast(stack)) /\ Len(Butlast(stack)) = Len(stack) - 1
  BY <1>1, AppendAny, ButlastAny
<1>3. stack # <<>> => \A v : /\ IsSeq(Append(Butlast(stack), v))
                             /\ Len(Append(Butlast(stack), v)) = Len(stack)
  BY <1>1, <1>2, AppendAny
<1>4. Len(stack) >= 2 =>
         /\ stack # <<>> /\ IsSeq(Butlast(Butlast(stack))) /\ Len(Butlast(Butlast(stack))) = Len(stack) - 2
         /\ \A v : /\ IsSeq(Append(Butlast(Butlast(stack)), v))
                   /\ Len(Append(Butlast(Butlast(stack)), v)) = Len(stack) - 1
  <2> SUFFICES ASSUME Len(stack) >= 2 PROVE <1>4!2
    OBVIOUS
  <2>1. stack # <<>>
    OBVIOUS
  <2>2. IsSeq(Butlast(stack)) /\ Len(Butlast(stack)) = Len(stack) - 1 /\ Butlast(stack) # <<>>
    BY <1>1, <1>2, <2>1
  <2>3. IsSeq(Butlast(Butlast(stack))) /\ Len(Butlast(Butlast(stack))) = Len(stack) - 2
    BY <1>1, <2>2, ButlastAny
  <2> QED
    BY <1>1, <2>1, <2>3, AppendAny
<1>5. /\ At(pc).op \in {"Const", "LoadSelf", "Dup", "IterNext", "CallByName"} => Near(pl, pc, pc + 1, 1)
      /\ At(pc).op \in {"CallBuiltin", "Iter", "CallMethod"} => Near(pl, pc, pc + 1, 0)
      /\ At(pc).op \in {"Eq", "Mul", "Pop", "Store", "Print", "JumpIfFalse"} => Near(pl, pc, pc + 1, -1)
      /\ At(pc).op = "Jump" => Near(pl, pc, At(pc).a, 0)
      /\ At(pc).op \in {"JumpIfFalse", "IterNext"} => Near(pl, pc, At(pc).a, -1)
  <2>1. At(pc).a = module.code[pc + 1].a
    BY DEF At, code
  <2> QED
    BY <1>1, <2>1, FlowNear
<1>6. ASSUME NEW q, NEW dh \in Int, Near(pl, pc, q, dh), pc' = q,
             IsSeq(stack'), Len(stack') >= Len(stack) + dh,
             UNCHANGED <<module, frames, handler_stack, native>>
      PROVE  Planning2(pl)
  BY <1>6, PlannedMove DEF Planning2
<1>7. CASE Const
  BY <1>1, <1>2, <1>5, <1>6, <1>7 DEF Const, Push, Fetch
<1>8. CASE LoadSelf
  BY <1>1, <1>2, <1>5, <1>6, <1>8 DEF LoadSelf, Push, Fetch
<1>9. CASE Dup
  BY <1>1, <1>2, <1>5, <1>6, <1>9 DEF Dup, Push, Fetch
<1>10. CASE Eq
  BY <1>1, <1>4, <1>5, <1>6, <1>10 DEF Eq, Push, Fetch
<1>11. CASE MulNull
  BY <1>1, <1>4, <1>5, <1>6, <1>11 DEF MulNull, Push, Fetch
<1>12. CASE PopValue
  <2>1. IsSeq(Butlast(stack)) /\ Len(Butlast(stack)) >= Len(stack) + (-1)
    <3>1. CASE stack = <<>>
      <4>1. IsSeq(Butlast(stack)) /\ Len(Butlast(stack)) \in Nat /\ Len(stack) = 0
        BY <1>1, <3>1, ButlastAny DEF IsSeq
      <4> QED
        BY <4>1
    <3>2. CASE stack # <<>>
      BY <1>1, <1>2, <3>2
    <3> QED
      BY <3>1, <3>2
  <2>2. At(pc).op \in {"Pop", "Store"} /\ stack' = Butlast(stack) /\ pc' = pc + 1
        /\ UNCHANGED <<module, frames, handler_stack, native>>
    BY <1>12 DEF PopValue, Fetch
  <2> QED
    BY <1>5, <1>6, <2>1, <2>2
<1>13. CASE PrintTop
  BY <1>1, <1>2, <1>5, <1>6, <1>13 DEF PrintTop, Fetch
<1>14. CASE CallBuiltin
  BY <1>1, <1>2, <1>5, <1>6, <1>14 DEF CallBuiltin, Fetch
<1>15. CASE Jump
  BY <1>1, <1>5, <1>6, <1>15 DEF Jump, Goto, Fetch
<1>16. CASE JumpIfFalse
  BY <1>1, <1>2, <1>5, <1>6, <1>16 DEF JumpIfFalse, Goto, Fetch
<1>17. CASE Iter
  <2>1. /\ At(pc).op = "Iter" /\ stack # <<>>
        /\ stack' = Append(Butlast(stack), <<"int", Len(iterators)>>)
        /\ pc' = pc + 1 /\ UNCHANGED <<module, frames, handler_stack, native>>
    BY <1>17 DEF Iter, Fetch
  <2>2. IsSeq(stack') /\ Len(stack') = Len(stack)
    BY <1>3, <2>1
  <2>3. Near(pl, pc, pc + 1, 0) /\ Len(stack') >= Len(stack) + 0
    BY <1>1, <1>5, <2>1, <2>2
  <2> QED
    BY <1>6, <2>1, <2>2, <2>3
<1>18. CASE IterNext
  <2>1. At(pc).op = "IterNext" /\ stack # <<>> /\ UNCHANGED <<module, frames, handler_stack, native>>
    BY <1>18 DEF IterNext, Fetch
  <2>2. CASE HasNext
    <3>1. /\ stack' = Append(stack, iterators[Handle].items[iterators[Handle].pos + 1])
          /\ pc' = pc + 1
      BY <1>18, <2>2 DEF IterNext
    <3>2. IsSeq(stack') /\ Len(stack') = Len(stack) + 1
      BY <1>2, <3>1
    <3> QED
      BY <1>1, <1>5, <1>6, <2>1, <3>1, <3>2
  <2>3. CASE ~HasNext
    <3>1. stack' = Butlast(stack) /\ pc' = At(pc).a
      BY <1>18, <2>3 DEF IterNext
    <3> QED
      BY <1>1, <1>2, <1>5, <1>6, <2>1, <3>1
  <2> QED
    BY <2>2, <2>3
<1> QED
  BY <1>7, <1>8, <1>9, <1>10, <1>11, <1>12, <1>13, <1>14, <1>15, <1>16, <1>17, <1>18

LEMMA PlannedPushHandler ==
    ASSUME NEW pl, Planning(pl), PushHandler PROVE Planning2(pl)
<1> DEFINE h == [catch_pc |-> At(pc).a, depth |-> Len(frames)]
<1>1. /\ Fits(module, pl) /\ Shape(frames) /\ Len(stack) \in Int /\ Len(handler_stack) \in Nat
      /\ Arranged(module, pl, frames, Len(stack), pc, handler_stack, native)
      /\ OpAt(module, pc) = At(pc).op /\ pc \in DOMAIN pl /\ IsSeq(handler_stack)
  BY StateShape
<1>2. /\ At(pc).op = "PushHandler" /\ handler_stack' = Append(handler_stack, h)
      /\ pc' = pc + 1 /\ UNCHANGED <<module, stack, frames, native>>
  BY DEF PushHandler, Fetch
<1>3. Reaches(pl, pc, pc + 1, pl[pc].height, Append(pl[pc].tries, At(pc).a))
  <2>1. At(pc).a = module.code[pc + 1].a
    BY DEF At, code
  <2> QED
    BY <1>1, <1>2, <2>1, FlowTries
<1>4. /\ Len(handler_stack') = Len(handler_stack) + 1 /\ Prefix(handler_stack, handler_stack')
      /\ handler_stack'[Len(handler_stack) + 1].depth = Len(frames)
      /\ handler_stack'[Len(handler_stack) + 1].catch_pc = At(pc).a
  <2>1. h.depth = Len(frames) /\ h.catch_pc = At(pc).a
    OBVIOUS
  <2> HIDE DEF h
  <2> QED
    BY <1>1, <1>2, <2>1, AppendAny DEF Prefix
<1>5. Arranged(module, pl, frames, Len(stack), pc + 1, handler_stack', native)
  BY <1>1, <1>3, <1>4, PushTry
<1> QED
  BY <1>2, <1>5 DEF Planning2

LEMMA PlannedPopHandler ==
    ASSUME NEW pl, Planning(pl), PopHandler PROVE Planning2(pl)
<1>1. /\ Fits(module, pl) /\ Shape(frames) /\ Len(stack) \in Int /\ Len(handler_stack) \in Nat
      /\ Arranged(module, pl, frames, Len(stack), pc, handler_stack, native)
      /\ OpAt(module, pc) = At(pc).op /\ pc \in DOMAIN pl /\ IsSeq(handler_stack)
  BY StateShape
<1>2. /\ At(pc).op = "PopHandler"
      /\ handler_stack' = IF handler_stack = <<>> THEN <<>> ELSE Butlast(handler_stack)
      /\ pc' = pc + 1 /\ UNCHANGED <<module, stack, frames, native>>
  BY DEF PopHandler, Fetch
<1>3. pl[pc].tries # <<>> /\ Reaches(pl, pc, pc + 1, pl[pc].height, Butlast(pl[pc].tries))
  BY <1>1, <1>2, FlowTries, Planned
<1>4. handler_stack # <<>>
  <2>1. PICK off : /\ Offsets(TriesAt(pl, Sites(frames, pc), Len(frames)), Len(frames), handler_stack, off)
                   /\ Len(handler_stack) = off[Len(frames)] + Len(pl[pc].tries)
                   /\ off[Len(frames)] \in Nat
    BY <1>1, LastOffset
  <2>2. Len(pl[pc].tries) \in Nat /\ Len(pl[pc].tries) # 0
    BY <1>1, <1>3, Planned
  <2>3. Len(handler_stack) # 0
    BY <2>1, <2>2
  <2> QED
    BY <2>3
<1>5. Len(handler_stack') = Len(handler_stack) - 1 /\ Prefix(handler_stack', handler_stack)
  BY <1>1, <1>2, <1>4, ButlastAny DEF Prefix
<1>6. Arranged(module, pl, frames, Len(stack), pc + 1, handler_stack', native)
  BY <1>1, <1>3, <1>5, PopTry
<1> QED
  BY <1>2, <1>6 DEF Planning2

\* frames of which the last alone has changed, and not in its base
LEMMA LastChanged ==
    ASSUME VMInv, NEW d, frames' = [frames EXCEPT ![Len(frames)].defer_pcs = d]
    PROVE  /\ Len(frames') = Len(frames) /\ Returns(frames, frames', Len(frames))
           /\ \A j \in 1..(Len(frames) - 1) : frames'[j] = frames[j]
           /\ frames'[Len(frames)].stack_base = frames[Len(frames)].stack_base
           /\ frames'[Len(frames)].defer_pcs = d
<1> DEFINE n == Len(frames)
<1>1. frames \in Seq(FrameRecord) /\ n >= 1 /\ n \in Nat
  BY StateFacts
<1>2. frames[n] \in FrameRecord /\ n \in DOMAIN frames /\ DOMAIN frames = 1..n
  BY <1>1
<1>3. frames' = [frames EXCEPT ![n] = [frames[n] EXCEPT !.defer_pcs = d]]
  BY <1>2
<1> DEFINE f == [frames[n] EXCEPT !.defer_pcs = d]
<1>4. f.return_pc = frames[n].return_pc /\ f.stack_base = frames[n].stack_base /\ f.defer_pcs = d
  BY <1>2 DEF FrameRecord
<1> HIDE DEF f
<1>5. /\ Len(frames') = n /\ frames'[n] = f
      /\ \A j \in 1..(n - 1) : frames'[j] = frames[j]
  BY <1>1, <1>2, <1>3 DEF f
<1>6. Returns(frames, frames', n)
  <2> SUFFICES ASSUME NEW j \in 1..n PROVE frames'[j].return_pc = frames[j].return_pc
    BY <1>5 DEF Returns
  <2>1. CASE j = n
    BY <1>4, <1>5, <2>1
  <2>2. CASE j # n
    BY <1>1, <1>5, <2>2
  <2> QED
    BY <2>1, <2>2
<1> QED
  BY <1>4, <1>5, <1>6

LEMMA PlannedDefer ==
    ASSUME NEW pl, Planning(pl), DeferPush PROVE Planning2(pl)
<1> DEFINE n == Len(frames)
           d == Append(frames[n].defer_pcs, At(pc).a)
<1>1. /\ Fits(module, pl) /\ Shape(frames) /\ Len(stack) \in Int /\ Len(handler_stack) \in Nat
      /\ Arranged(module, pl, frames, Len(stack), pc, handler_stack, native)
      /\ OpAt(module, pc) = At(pc).op /\ pc \in DOMAIN pl
  BY StateShape
<1>2. /\ At(pc).op = "DeferPush" /\ pc' = pc + 1
      /\ UNCHANGED <<module, stack, handler_stack, native>>
  BY DEF DeferPush, Fetch
<1>3. frames' = [frames EXCEPT ![n].defer_pcs = d]
  <2>1. frames \in Seq(FrameRecord) /\ n \in DOMAIN frames
    BY StateFacts DEF Planning
  <2> QED
    BY <2>1 DEF DeferPush
<1> HIDE DEF d
<1>4. /\ Len(frames') = n /\ Returns(frames, frames', n)
      /\ \A j \in 1..(n - 1) : frames'[j] = frames[j]
      /\ frames'[n].stack_base = frames[n].stack_base
      /\ frames'[n].defer_pcs = d
  BY <1>3, LastChanged DEF Planning
<1>5. /\ Near(pl, pc, pc + 1, 0) /\ pl[pc + 1].defers /\ Allows(pl, At(pc).a, BlockStart)
      /\ ~pl[pc].block
  <2>1. At(pc).a = module.code[pc + 1].a
    BY DEF At, code
  <2> QED
    BY <1>1, <1>2, <2>1, FlowDefer, Planned
<1>6. Pending(pl, frames'[n], pc + 1)
  <2>1. FramesFit(module, pl, frames, Sites(frames, pc), Len(stack)) /\ Sites(frames, pc)[n] = pc /\ n \in 1..n
    BY <1>1, AtSite
  <2>2. \A i \in DOMAIN frames[n].defer_pcs : Allows(pl, frames[n].defer_pcs[i], BlockStart)
    BY <2>1 DEF FramesFit, Pending
  <2>3. IsSeq(frames[n].defer_pcs)
    <3>1. frames \in Seq(FrameRecord) /\ n \in DOMAIN frames
      BY StateFacts DEF Planning
    <3>2. frames[n] \in FrameRecord
      BY <3>1
    <3>3. frames[n].defer_pcs \in Seq(Pcs)
      BY <3>2 DEF FrameRecord
    <3> QED
      BY <3>3, SeqIsSeq
  <2>4. /\ DOMAIN d = 1..(Len(frames[n].defer_pcs) + 1) /\ d[Len(frames[n].defer_pcs) + 1] = At(pc).a
        /\ DOMAIN frames[n].defer_pcs = 1..Len(frames[n].defer_pcs)
        /\ \A i \in 1..Len(frames[n].defer_pcs) : d[i] = frames[n].defer_pcs[i]
        /\ Len(frames[n].defer_pcs) \in Nat
    BY <2>3, AppendAny DEF d, IsSeq
  <2>5. \A i \in DOMAIN d : Allows(pl, d[i], BlockStart)
    <3> SUFFICES ASSUME NEW i \in DOMAIN d PROVE Allows(pl, d[i], BlockStart)
      OBVIOUS
    <3>1. CASE i = Len(frames[n].defer_pcs) + 1
      BY <1>5, <2>4, <3>1
    <3>2. CASE i # Len(frames[n].defer_pcs) + 1
      <4>1. i \in 1..Len(frames[n].defer_pcs)
        BY <2>4, <3>2
      <4> QED
        BY <2>2, <2>4, <4>1
    <3> QED
      BY <3>1, <3>2
  <2>6. pl[pc + 1].block = FALSE
    <3>1. pl[pc + 1].block = pl[pc].block /\ pl[pc] \in PlanRecord(pl)
      BY <1>1, <1>5, Planned DEF Near, Reaches
    <3>2. pl[pc].block \in BOOLEAN
      BY <3>1 DEF PlanRecord
    <3> QED
      BY <1>5, <3>1, <3>2
  <2> QED
    BY <1>4, <1>5, <2>5, <2>6 DEF Pending
<1> HIDE DEF n
<1>7. Arranged(module, pl, frames', Len(stack), pc + 1, handler_stack, native)
  BY <1>1, <1>4, <1>5, <1>6, AddDefer DEF n
<1> QED
  BY <1>2, <1>7 DEF Planning2

LEMMA PlannedRaise ==
    ASSUME NEW pl, Planning(pl), NEW s, NEW v, IsSeq(s), Len(s) = Len(stack) - Operands(At(pc).op),
           Raise(s, v)
    PROVE  Planning2(pl)
<1>1. /\ Fits(module, pl) /\ Shape(frames) /\ Len(stack) \in Int /\ Len(handler_stack) \in Nat
      /\ Arranged(module, pl, frames, Len(stack), pc, handler_stack, native)
      /\ OpAt(module, pc) = At(pc).op /\ IsSeq(handler_stack)
  BY StateShape
<1>2. CASE handler_stack = <<>> \/ InBlocks(native)
  <2>1. status' = "error"
    BY <1>2 DEF Raise, Fail, InBlocks
  <2> QED
    BY <2>1 DEF Planning2
<1>3. CASE ~(handler_stack = <<>> \/ InBlocks(native))
  <2> DEFINE h == Top(handler_stack)
             d == TopDepth(handler_stack)
  <2>1. /\ handler_stack' = Butlast(handler_stack) /\ frames' = Truncate(frames, d)
        /\ stack' = Append(s, v) /\ pc' = h.catch_pc /\ native' = <<>>
    BY <1>3 DEF Raise, InBlocks, TopDepth, Top
  <2>2. Len(handler_stack) >= 1 /\ h = handler_stack[Len(handler_stack)]
    BY <1>1, <1>3, ButlastAny DEF Top
  <2> HIDE DEF h
  <2>3. d \in 1..Len(frames)
    BY <1>1, <2>2, TopHandler
  <2>4. Kept(frames, frames', d)
    <3>1. frames \in Seq(FrameRecord) /\ Len(frames) \in Nat
      BY StateFacts DEF Planning
    <3>2. frames' = SubSeq(frames, 1, d)
      BY <2>1, <2>3, <3>1 DEF Truncate
    <3> HIDE DEF d
    <3> QED
      BY <2>3, <3>1, <3>2, SubSeqProperties DEF Kept
  <2>5. Len(handler_stack') = Len(handler_stack) - 1 /\ Prefix(handler_stack', handler_stack)
    <3>1. /\ Len(handler_stack') = Len(handler_stack) - 1
          /\ \A i \in 1..(Len(handler_stack) - 1) : handler_stack'[i] = handler_stack[i]
      BY <1>1, <1>3, <2>1, ButlastAny
    <3>2. Len(handler_stack') <= Len(handler_stack)
      BY <1>1, <3>1
    <3> QED
      BY <3>1, <3>2 DEF Prefix
  <2>6. Len(stack') \in Int /\ Len(stack') = Len(stack) - Operands(OpAt(module, pc)) + 1
    BY <1>1, <2>1, AppendAny DEF IsSeq
  <2>7. ~InBlocks(native) /\ ~InBlocks(native')
    BY <1>3, <2>1 DEF InBlocks
  <2>8. Arranged(module, pl, frames', Len(stack'), handler_stack[Len(handler_stack)].catch_pc,
                 handler_stack', native')
    BY <1>1, <2>2, <2>4, <2>5, <2>6, <2>7, Resume
  <2> QED
    BY <2>1, <2>2, <2>8 DEF Planning2
<1> QED
  BY <1>2, <1>3

LEMMA PlannedError ==
    ASSUME NEW pl, Planning(pl), Throw \/ DivByZero \/ MulError \/ Underflow PROVE Planning2(pl)
<1>1. IsSeq(stack) /\ Len(stack) \in Nat
  BY StateShape
<1>2. CASE Throw
  <2>1. At(pc).op = "Throw" /\ stack # <<>> /\ Raise(Butlast(stack), Top(stack))
    BY <1>2 DEF Throw, Fetch
  <2>2. IsSeq(Butlast(stack)) /\ Len(Butlast(stack)) = Len(stack) - Operands(At(pc).op)
    BY <1>1, <2>1, ButlastAny DEF Operands
  <2> QED
    BY <2>1, <2>2, PlannedRaise
<1>3. CASE DivByZero
  <2>1. /\ At(pc).op = "Div" /\ Len(stack) >= 2
        /\ Raise(Butlast(Butlast(stack)), <<"str", "division by zero">>)
    BY <1>3 DEF DivByZero, Fetch
  <2>2. IsSeq(Butlast(stack)) /\ Len(Butlast(stack)) = Len(stack) - 1 /\ Butlast(stack) # <<>>
    <3>1. Len(stack) >= 2
      BY <2>1
    <3>2. stack # <<>>
      BY <3>1
    <3>3. IsSeq(Butlast(stack)) /\ Len(Butlast(stack)) = Len(stack) - 1
      BY <1>1, <3>2, ButlastAny
    <3>4. Len(Butlast(stack)) # 0
      BY <1>1, <3>1, <3>3
    <3> QED
      BY <3>3, <3>4
  <2>3. IsSeq(Butlast(Butlast(stack))) /\ Len(Butlast(Butlast(stack))) = Len(stack) - 2
    BY <1>1, <2>2, ButlastAny
  <2>4. Len(Butlast(Butlast(stack))) = Len(stack) - Operands(At(pc).op)
    BY <2>1, <2>3 DEF Operands
  <2> QED
    BY <2>1, <2>3, <2>4, PlannedRaise
<1>4. CASE MulError \/ Underflow
  BY <1>4 DEF MulError, Underflow, Fail, Planning2
<1> QED
  BY <1>2, <1>3, <1>4

\* a frame that is added
LEMMA FrameAdded ==
    ASSUME VMInv, NEW base, frames' = Append(frames, Frame(base))
    PROVE  /\ Len(frames') = Len(frames) + 1 /\ \A j \in 1..Len(frames) : frames'[j] = frames[j]
           /\ frames'[Len(frames) + 1].return_pc = pc + 1
           /\ frames'[Len(frames) + 1].stack_base = base
           /\ frames'[Len(frames) + 1].defer_pcs = <<>>
<1>1. IsSeq(frames)
  BY StateFacts, SeqIsSeq
<1>2. Frame(base).return_pc = pc + 1 /\ Frame(base).stack_base = base /\ Frame(base).defer_pcs = <<>>
  BY DEF Frame
<1> QED
  BY <1>1, <1>2, AppendAny

LEMMA PlannedCall ==
    ASSUME NEW pl, Planning(pl), CallByName \/ CallMethod PROVE Planning2(pl)
<1> DEFINE e == Entry(module, pc)
<1>1. /\ Fits(module, pl) /\ Shape(frames) /\ Len(stack) \in Int /\ Len(handler_stack) \in Nat
      /\ Arranged(module, pl, frames, Len(stack), pc, handler_stack, native)
      /\ OpAt(module, pc) = At(pc).op /\ pc \in DOMAIN pl /\ IsSeq(stack) /\ IsSeq(native)
  BY StateShape
<1>2. OpAt(module, pc) \in Calls /\ pc' = e /\ UNCHANGED <<module, handler_stack>>
  BY <1>1 DEF CallByName, CallMethod, Fetch, Calls, Entry, At, code
<1>3. /\ e \in DOMAIN pl /\ pl[e].height <= 0 /\ pl[e].tries = <<>>
      /\ pl[e].block = FALSE /\ (pl[pc].busy => pl[e].busy)
  BY <1>1, <1>2, FlowCall
<1> HIDE DEF e
<1>4. /\ Len(stack') \in Int /\ Len(stack') >= Len(stack) - Operands(OpAt(module, pc))
      /\ frames' = Append(frames, Frame(Len(stack'))) /\ SameLoop(native, native')
  <2>1. CASE CallByName
    <3>1. /\ At(pc).op = "CallByName" /\ stack' = stack /\ native' = native
          /\ frames' = Append(frames, Frame(Len(stack)))
      BY <2>1 DEF CallByName, Fetch
    <3>2. Operands(At(pc).op) = 0
      BY <3>1 DEF Operands
    <3> QED
      BY <1>1, <3>1, <3>2 DEF SameLoop
  <2>2. CASE CallMethod
    <3>1. /\ At(pc).op = "CallMethod" /\ stack # <<>> /\ stack' = Butlast(stack)
          /\ frames' = Append(frames, Frame(Len(stack) - 1))
          /\ \E t : native' = Append(native, t) /\ t.kind = "method"
      BY <2>2 DEF CallMethod, Fetch
    <3>2. Operands(At(pc).op) = 1
      BY <3>1 DEF Operands
    <3>3. Len(stack') = Len(stack) - 1
      BY <1>1, <3>1, ButlastAny
    <3>4. PICK t : native' = Append(native, t) /\ t.kind = "method"
      BY <3>1
    <3>5. SameLoop(native, native')
      <4>1. /\ Len(native) \in Nat /\ Len(native') = Len(native) + 1
            /\ \A i \in 1..Len(native) : native'[i] = native[i]
            /\ native'[Len(native) + 1] = t
        BY <1>1, <3>4, AppendAny DEF IsSeq
      <4>2. native' # <<>>
        BY <4>1
      <4>3. CASE Len(native) = 0
        <5>1. native = <<>> /\ native'[1] = t
          BY <1>1, <4>1, <4>3 DEF IsSeq
        <5> QED
          BY <3>4, <5>1 DEF SameLoop, InBlocks
      <4>4. CASE Len(native) # 0
        <5>1. native # <<>> /\ native'[1] = native[1]
          BY <4>1, <4>4
        <5> QED
          BY <4>2, <5>1 DEF SameLoop, InBlocks
      <4> QED
        BY <4>3, <4>4
    <3> QED
      BY <1>1, <3>1, <3>2, <3>3, <3>5
  <2> QED
    BY <2>1, <2>2
<1>5. /\ Len(frames') = Len(frames) + 1 /\ \A j \in 1..Len(frames) : frames'[j] = frames[j]
      /\ frames'[Len(frames) + 1].return_pc = pc + 1
      /\ frames'[Len(frames) + 1].stack_base = Len(stack')
      /\ frames'[Len(frames) + 1].defer_pcs = <<>>
  BY <1>4, FrameAdded DEF Planning
<1>6. Arranged(module, pl, frames', Len(stack'), e, handler_stack, native')
  BY <1>1, <1>2, <1>3, <1>4, <1>5, Enter
<1> QED
  BY <1>2, <1>6 DEF Planning2

\* a frame that is left: its caller goes on with one value more
LEMMA PlannedPopFrame ==
    ASSUME NEW pl, Planning(pl), NEW s, NEW v, IsSeq(s), Len(s) >= Len(stack) - 1, PopFrame(s, v),
           handler_stack' = handler_stack, pl[pc].tries = <<>>, pl[pc].height >= 1,
           Len(frames) > 1 => BlocksFit(pl, Sites(frames, pc), Len(frames) - 1, native')
    PROVE  Planning2(pl)
<1>1. /\ Fits(module, pl) /\ Shape(frames) /\ Len(stack) \in Int /\ Len(handler_stack) \in Nat
      /\ Arranged(module, pl, frames, Len(stack), pc, handler_stack, native)
  BY StateShape
<1>2. frames \in Seq(FrameRecord) /\ Len(frames) >= 1 /\ Len(frames) \in Nat
  BY StateFacts DEF Planning
<1>3. CASE Len(frames) = 1
  BY <1>3 DEF PopFrame, Planning2
<1>4. CASE Len(frames) > 1
  <2> DEFINE n == Len(frames)
             base == frames[n].stack_base
  <2>1. /\ stack' = Append(Truncate(s, base), v) /\ pc' = frames[n].return_pc
        /\ frames' = Butlast(frames)
    BY <1>4 DEF PopFrame, Top
  <2>2. base \in Nat
    <3>1. frames[n] \in FrameRecord
      BY <1>2
    <3> QED
      BY <3>1 DEF FrameRecord
  <2>3. base <= Len(s)
    <3>1. Len(stack) - base >= pl[pc].height /\ pl[pc].height \in Nat
      BY <1>1, AtSite
    <3> HIDE DEF base
    <3>2. Len(s) \in Nat
      BY DEF IsSeq
    <3> QED
      BY <1>1, <2>2, <3>1, <3>2
  <2>4. Len(stack') = base + 1
    <3> DEFINE S == {s[j] : j \in 1..Len(s)}
    <3>1. s \in Seq(S)
      BY IsSeqIn
    <3> HIDE DEF S, base
    <3>2. Truncate(s, base) \in Seq(S) /\ Len(Truncate(s, base)) = base
      BY <2>2, <2>3, <3>1, TruncateSeq
    <3> QED
      BY <2>1, <2>2, <3>2, SeqIsSeq, AppendAny
  <2>5. Kept(frames, frames', n - 1)
    <3>1. IsSeq(frames) /\ frames # <<>>
      BY <1>2, SeqIsSeq
    <3> QED
      BY <2>1, <3>1, ButlastAny DEF Kept
  <2>6. Arranged(module, pl, frames', base + 1, frames[n].return_pc, handler_stack, native')
    BY <1>1, <1>4, <2>5, Leave
  <2> QED
    BY <2>1, <2>4, <2>6 DEF Planning2
<1>5. Len(frames) = 1 \/ Len(frames) > 1
  <2> DEFINE n == Len(frames)
  <2>1. n \in Nat /\ n >= 1
    BY <1>2
  <2> HIDE DEF n
  <2>2. n = 1 \/ n > 1
    BY <2>1
  <2> QED
    BY <2>2 DEF n
<1> QED
  BY <1>3, <1>4, <1>5

\* what a Return finds
LEMMA AtReturn ==
    ASSUME NEW pl, Planning(pl), At(pc).op = "Return"
    PROVE  /\ pl[pc].tries = <<>> /\ pl[pc].height >= 1 /\ ~pl[pc].block /\ Len(stack) >= 1
           /\ (pl[pc].defers /\ pc + 1 \in DOMAIN pl /\ pl[pc + 1].busy) => EndsBlock(pl[pc + 1])
<1>1. /\ Fits(module, pl) /\ Shape(frames) /\ Len(stack) \in Int
      /\ Arranged(module, pl, frames, Len(stack), pc, handler_stack, native)
      /\ OpAt(module, pc) = "Return" /\ pc \in DOMAIN pl
  BY StateShape
<1>2. /\ pl[pc].tries = <<>> /\ ~pl[pc].block /\ pl[pc].height >= Operands("Return")
      /\ (pl[pc].defers /\ pc + 1 \in DOMAIN pl /\ pl[pc + 1].busy) => EndsBlock(pl[pc + 1])
  BY <1>1, Planned
<1>3. pl[pc].height >= 1
  BY <1>2 DEF Operands
<1>4. Len(stack) - frames[Len(frames)].stack_base >= pl[pc].height /\ pl[pc].height \in Nat
  BY <1>1, AtSite
<1>5. frames[Len(frames)].stack_base \in Nat
  <2>1. frames \in Seq(FrameRecord) /\ Len(frames) \in DOMAIN frames
    BY StateFacts DEF Planning
  <2>2. frames[Len(frames)] \in FrameRecord
    BY <2>1
  <2> QED
    BY <2>2 DEF FrameRecord
<1> QED
  BY <1>1, <1>2, <1>3, <1>4, <1>5

\* a function that returns was in no block: its caller's loop goes on
LEMMA ReturnBlocks ==
    ASSUME NEW pl, Planning(pl), At(pc).op = "Return", Len(frames) > 1, SameLoop(native, native')
    PROVE  BlocksFit(pl, Sites(frames, pc), Len(frames) - 1, native')
<1> DEFINE n == Len(frames)
           st == Sites(frames, pc)
<1>1. Shape(frames) /\ Arranged(module, pl, frames, Len(stack), pc, handler_stack, native)
  BY StateShape
<1>2. n \in Nat /\ st[n] = pc /\ BlocksFit(pl, st, n, native)
  BY <1>1, SitesOf DEF Arranged, Shape
<1>3. ~pl[pc].block
  BY AtReturn
<1>4. BlocksFit(pl, st, n - 1, native)
  <2>1. n > 1 /\ ~pl[st[n]].block
    BY <1>2, <1>3
  <2> HIDE DEF n, st
  <2> QED
    BY <1>2, <2>1, BlocksLeft
<1> QED
  BY <1>4 DEF BlocksFit, SameLoop

LEMMA PlannedReturnPlain ==
    ASSUME NEW pl, Planning(pl), ReturnPlain PROVE Planning2(pl)
<1>1. IsSeq(stack) /\ Len(stack) \in Nat
  BY StateShape
<1>2. /\ At(pc).op = "Return" /\ PopFrame(Butlast(stack), PopOrNull(stack))
      /\ UNCHANGED <<handler_stack, native>>
  BY DEF ReturnPlain, Fetch
<1>3. pl[pc].tries = <<>> /\ pl[pc].height >= 1 /\ Len(stack) >= 1
  BY <1>2, AtReturn
<1>4. IsSeq(Butlast(stack)) /\ Len(Butlast(stack)) >= Len(stack) - 1
  <2>1. stack # <<>>
    BY <1>3
  <2> QED
    BY <1>1, <2>1, ButlastAny
<1>5. SameLoop(native, native')
  BY <1>2 DEF SameLoop
<1>6. Len(frames) > 1 => BlocksFit(pl, Sites(frames, pc), Len(frames) - 1, native')
  BY <1>2, <1>5, ReturnBlocks
<1> QED
  BY <1>2, <1>3, <1>4, <1>6, PlannedPopFrame

LEMMA PlannedReturnNested ==
    ASSUME NEW pl, Planning(pl), ReturnNested PROVE Planning2(pl)
<1>1. IsSeq(stack) /\ Len(stack) \in Nat /\ IsSeq(native) /\ Len(native) \in Nat
  BY StateShape
<1>2. /\ At(pc).op = "Return" /\ stack # <<>> /\ native # <<>>
      /\ PopFrame(Butlast(stack), Top(stack)) /\ UNCHANGED handler_stack
  BY DEF ReturnNested, Fetch
<1>3. pl[pc].tries = <<>> /\ pl[pc].height >= 1
  BY <1>2, AtReturn
<1>4. IsSeq(Butlast(stack)) /\ Len(Butlast(stack)) >= Len(stack) - 1
  BY <1>1, <1>2, ButlastAny
<1>5. SameLoop(native, native')
  <2>1. native' = native \/ (native' = Butlast(native) /\ Top(native).kind = "method")
    BY DEF ReturnNested
  <2>2. CASE native' = native
    BY <2>2 DEF SameLoop
  <2>3. CASE native' = Butlast(native) /\ Top(native).kind = "method"
    <3>1. /\ Len(native') = Len(native) - 1 /\ Len(native) >= 1 /\ IsSeq(native')
          /\ \A i \in 1..(Len(native) - 1) : native'[i] = native[i]
      BY <1>1, <1>2, <2>3, ButlastAny
    <3>2. CASE Len(native) = 1
      <4>1. native[1].kind = "method" /\ native' = <<>>
        BY <2>3, <3>1, <3>2 DEF Top, IsSeq
      <4> QED
        BY <4>1 DEF SameLoop, InBlocks
    <3>3. CASE Len(native) # 1
      <4>1. Len(native') # 0 /\ 1 \in 1..(Len(native) - 1)
        BY <1>1, <3>1, <3>3
      <4>2. native' # <<>> /\ native'[1] = native[1]
        BY <3>1, <4>1
      <4> QED
        BY <1>2, <4>2 DEF SameLoop, InBlocks
    <3> QED
      BY <3>2, <3>3
  <2> QED
    BY <2>1, <2>2, <2>3
<1>6. Len(frames) > 1 => BlocksFit(pl, Sites(frames, pc), Len(frames) - 1, native')
  BY <1>2, <1>5, ReturnBlocks
<1> QED
  BY <1>2, <1>3, <1>4, <1>6, PlannedPopFrame

\* the deferred blocks of the frame that returns
LEMMA PendingBlocks ==
    ASSUME NEW pl, Planning(pl)
    PROVE  /\ Top(frames) = frames[Len(frames)] /\ Top(frames).defer_pcs \in Seq(Pcs)
           /\ Pending(pl, Top(frames), pc)
<1>1. /\ Fits(module, pl) /\ Shape(frames) /\ Len(stack) \in Int
      /\ Arranged(module, pl, frames, Len(stack), pc, handler_stack, native)
  BY StateShape
<1>2. FramesFit(module, pl, frames, Sites(frames, pc), Len(stack)) /\ Sites(frames, pc)[Len(frames)] = pc
  BY <1>1, AtSite
<1>3. Len(frames) \in 1..Len(frames) /\ frames[Len(frames)] \in FrameRecord
  BY StateFacts DEF Planning
<1>4. Pending(pl, frames[Len(frames)], pc)
  BY <1>2, <1>3 DEF FramesFit
<1> QED
  BY <1>3, <1>4 DEF Top, FrameRecord

\* reversed, the first of them and the others
LEMMA FirstAndRest ==
    ASSUME NEW pl, NEW b, b \in Seq(Pcs), b # <<>>, \A i \in DOMAIN b : Allows(pl, b[i], BlockStart)
    PROVE  /\ Allows(pl, Head(b), BlockStart)
           /\ \A i \in DOMAIN Tail(b) : Allows(pl, Tail(b)[i], BlockStart)
           /\ Tail(b) \in Seq(Pcs)
  BY HeadTailProperties

LEMMA ReversedBlocks ==
    ASSUME NEW pl, NEW b, b \in Seq(Pcs), b # <<>>, \A i \in DOMAIN b : Allows(pl, b[i], BlockStart)
    PROVE  /\ Reversed(b) \in Seq(Pcs) /\ Reversed(b) # <<>>
           /\ \A i \in DOMAIN Reversed(b) : Allows(pl, Reversed(b)[i], BlockStart)
<1> DEFINE r == Reversed(b)
<1>1. Len(b) \in Nat /\ Len(b) >= 1 /\ DOMAIN b = 1..Len(b)
  OBVIOUS
<1>2. r = [i \in 1..Len(b) |-> b[Len(b) + 1 - i]]
  BY DEF Reversed
<1>3. \A i \in 1..Len(b) : (Len(b) + 1) - i \in 1..Len(b)
  BY <1>1
<1>4. r \in [1..Len(b) -> Pcs] /\ DOMAIN r = 1..Len(b)
  BY <1>1, <1>2, <1>3
<1>5. r \in Seq(Pcs) /\ Len(r) = Len(b)
  BY <1>1, <1>4
<1>6. \A i \in DOMAIN r : Allows(pl, r[i], BlockStart)
  BY <1>1, <1>2, <1>3, <1>4
<1> QED
  BY <1>1, <1>5, <1>6

LEMMA PlannedReturnDefers ==
    ASSUME NEW pl, Planning(pl), ReturnDefers PROVE Planning2(pl)
<1> DEFINE n == Len(frames)
           b == Reversed(Top(frames).defer_pcs)
           d == DeferLoop(PopOrNull(stack), pc + 1, Tail(b))
           q == Head(b)
<1>1. /\ Fits(module, pl) /\ Shape(frames) /\ Len(stack) \in Int /\ Len(handler_stack) \in Nat
      /\ Arranged(module, pl, frames, Len(stack), pc, handler_stack, native) /\ IsSeq(stack)
  BY StateShape
<1>2. /\ At(pc).op = "Return" /\ native = <<>> /\ Top(frames).defer_pcs # <<>>
      /\ native' = <<d>> /\ pc' = q
      /\ stack' = Append(Butlast(stack), PopOrNull(stack))
      /\ frames' = [frames EXCEPT ![n].defer_pcs = <<>>]
      /\ handler_stack' = handler_stack
  BY DEF ReturnDefers, Fetch
<1>3. /\ pl[pc].tries = <<>> /\ pl[pc].height >= 1 /\ Len(stack) >= 1
      /\ (pl[pc].defers /\ pc + 1 \in DOMAIN pl /\ pl[pc + 1].busy) => EndsBlock(pl[pc + 1])
  BY <1>2, AtReturn
<1>4. /\ Allows(pl, q, BlockStart)
      /\ \A i \in DOMAIN Tail(b) : Allows(pl, Tail(b)[i], BlockStart)
  <2>1. Top(frames).defer_pcs \in Seq(Pcs) /\ Pending(pl, Top(frames), pc)
    BY PendingBlocks
  <2>2. \A i \in DOMAIN Top(frames).defer_pcs : Allows(pl, Top(frames).defer_pcs[i], BlockStart)
    BY <2>1 DEF Pending
  <2>3. /\ b \in Seq(Pcs) /\ b # <<>>
        /\ \A i \in DOMAIN b : Allows(pl, b[i], BlockStart)
    BY <1>2, <2>1, <2>2, ReversedBlocks
  <2> HIDE DEF b
  <2> QED
    BY <2>3, FirstAndRest
<1>5. pl[pc].defers
  <2>1. Top(frames).defer_pcs \in Seq(Pcs) /\ Pending(pl, Top(frames), pc)
    BY PendingBlocks
  <2>2. 1 \in DOMAIN Top(frames).defer_pcs
    BY <1>2, <2>1
  <2> QED
    BY <2>1, <2>2 DEF Pending
<1>6. InBlocks(native') /\ LoopFits(pl, native'[1])
  <2>1. d.kind = "defer" /\ d.cont = pc + 1 /\ d.rest = Tail(b)
    BY DEF DeferLoop
  <2> HIDE DEF d, b
  <2>2. native'[1] = d /\ native' # <<>>
    BY <1>2
  <2> QED
    BY <1>3, <1>4, <1>5, <2>1, <2>2 DEF InBlocks, LoopFits
<1> HIDE DEF d, b, q
<1>7. Len(stack') = Len(stack)
  <2>1. stack # <<>>
    BY <1>3
  <2> QED
    BY <1>1, <1>2, <2>1, ButlastAny, AppendAny
<1>8. /\ Len(frames') = n /\ Returns(frames, frames', n)
      /\ \A j \in 1..(n - 1) : frames'[j] = frames[j]
      /\ frames'[n].stack_base = frames[n].stack_base
      /\ frames'[n].defer_pcs = <<>>
  BY <1>2, LastChanged DEF Planning
<1>9. BlocksFit(pl, Sites(frames', q), n, native')
  <2>1. n \in Nat /\ n >= 1 /\ n \in 1..n
    BY <1>1 DEF Shape
  <2>2. NoBlock(pl, Sites(frames, pc), n)
    BY <1>1, <1>2 DEF Arranged, BlocksFit, InBlocks
  <2>3. SitesCut(Sites(frames, pc), Sites(frames', q), n) /\ Sites(frames', q)[n] = q
    BY <1>1, <1>8, <2>1, SitesOfCut
  <2> HIDE DEF n
  <2> QED
    BY <1>4, <1>6, <2>1, <2>2, <2>3, FirstBlock
<1>10. Arranged(module, pl, frames', Len(stack), q, handler_stack, native')
  BY <1>1, <1>3, <1>4, <1>8, <1>9, StartBlock
<1> QED
  BY <1>2, <1>7, <1>10 DEF Planning2

\* the loop of deferred blocks is alone on the Rust stack
LEMMA BlocksAlone ==
    ASSUME VMInv, InDefer
    PROVE  InBlocks(native) /\ Top(native) = native[1] /\ native[1].rest \in Seq(Pcs)
<1>1. IsSeq(native) /\ DOMAIN native = 1..Len(native) /\ Len(native) \in Nat
  BY StateFacts
<1>2. native # <<>> /\ native[Len(native)].kind = "defer"
  BY DEF InDefer, Top
<1>3. Len(native) >= 1
  BY <1>1, <1>2 DEF IsSeq
<1>4. Len(native) = 1
  <2> SUFFICES ASSUME Len(native) > 1 PROVE FALSE
    BY <1>1, <1>3
  <2>1. 1 \in DOMAIN native /\ Len(native) \in DOMAIN native
    BY <1>1
  <2>2. native[Len(native)].kind = "method"
    BY <2>1 DEF VMInv, LoopsNest
  <2> QED
    BY <1>2, <2>2
<1>5. native[1].rest \in Seq(Pcs)
  <2>1. 1 \in DOMAIN native /\ native[1].kind = "defer"
    BY <1>1, <1>2, <1>4
  <2> QED
    BY <2>1 DEF VMInv, TypeOK
<1> QED
  BY <1>2, <1>4, <1>5 DEF InBlocks, Top

LEMMA PlannedDeferNext ==
    ASSUME NEW pl, Planning(pl), DeferNext PROVE Planning2(pl)
<1> DEFINE n == Len(frames)
           d == native[1]
<1>1. /\ Fits(module, pl) /\ Shape(frames) /\ Len(stack) \in Int /\ Len(handler_stack) \in Nat
      /\ Arranged(module, pl, frames, Len(stack), pc, handler_stack, native)
      /\ IsSeq(stack) /\ Len(stack) \in Nat /\ OpAt(module, pc) = At(pc).op
  BY StateShape
<1>2. InBlocks(native) /\ Top(native) = d /\ d.rest \in Seq(Pcs)
  BY BlocksAlone DEF DeferNext, DeferEnd, Planning
<1>3. EndBlock(stack) /\ handler_stack' = handler_stack
  BY DEF DeferNext
<1>4. /\ pl[pc].block = TRUE /\ pl[pc].height >= 1 /\ pl[pc].tries = <<>>
      /\ NoBlock(pl, Sites(frames, pc), n - 1)
  <2>1. OpAt(module, pc) = "Nop" \/ pc = native[1].cont
    BY <1>1, <1>2 DEF DeferNext, DeferEnd
  <2> QED
    BY <1>1, <1>2, <2>1, BlockEnd
<1>5. /\ n \in Nat /\ n >= 1 /\ n \in 1..n /\ Sites(frames, pc)[n] = pc
      /\ BlocksFit(pl, Sites(frames, pc), n, native)
  BY <1>1, SitesOf DEF Arranged, Shape
<1>6. CASE d.rest # <<>>
  <2> DEFINE e == DeferLoop(d.ret, d.cont, Tail(d.rest))
             q == Head(d.rest)
  <2>1. native' = <<e>> /\ pc' = q /\ stack' = stack /\ frames' = frames
    BY <1>2, <1>3, <1>6 DEF EndBlock
  <2>2. LoopFits(pl, d)
    BY <1>2, <1>5 DEF BlocksFit
  <2>3. /\ Allows(pl, q, BlockStart)
        /\ \A i \in DOMAIN Tail(d.rest) : Allows(pl, Tail(d.rest)[i], BlockStart)
    <3>1. \A i \in DOMAIN d.rest : Allows(pl, d.rest[i], BlockStart)
      BY <2>2 DEF LoopFits
    <3> HIDE DEF d
    <3> QED
      BY <1>2, <1>6, <3>1, FirstAndRest
  <2>4. InBlocks(native') /\ LoopFits(pl, native'[1])
    <3>1. e.kind = "defer" /\ e.cont = d.cont /\ e.rest = Tail(d.rest)
      BY DEF DeferLoop
    <3> HIDE DEF e, d
    <3>2. native'[1] = e /\ native' # <<>>
      BY <2>1
    <3> QED
      BY <2>2, <2>3, <3>1, <3>2 DEF InBlocks, LoopFits
  <2> HIDE DEF e, q
  <2>5. Returns(frames, frames, n) /\ \A j \in 1..(n - 1) : frames[j] = frames[j]
    BY DEF Returns
  <2>6. frames[n].defer_pcs = <<>>
    BY <1>4, PendingBlocks DEF Pending
  <2>7. BlocksFit(pl, Sites(frames, q), n, native')
    <3>1. SitesCut(Sites(frames, pc), Sites(frames, q), n) /\ Sites(frames, q)[n] = q
      BY <1>1, <1>5, <2>5, SitesOfCut
    <3> HIDE DEF n
    <3> QED
      BY <1>2, <1>4, <1>5, <2>3, <2>4, <3>1, NextBlock
  <2>8. Arranged(module, pl, frames, Len(stack), q, handler_stack, native')
    BY <1>1, <1>4, <2>3, <2>5, <2>6, <2>7, StartBlock
  <2> QED
    BY <1>3, <2>1, <2>8 DEF Planning2
<1>7. CASE d.rest = <<>>
  <2>1. native' = <<>> /\ PopFrame(Butlast(stack), d.ret)
    BY <1>2, <1>3, <1>7 DEF EndBlock
  <2>2. BlocksFit(pl, Sites(frames, pc), n - 1, native')
    BY <1>4, <2>1 DEF BlocksFit, InBlocks
  <2>3. IsSeq(Butlast(stack)) /\ Len(Butlast(stack)) >= Len(stack) - 1
    <3>1. CASE stack = <<>>
      <4>1. IsSeq(Butlast(stack)) /\ Len(stack) = 0
        BY <1>1, <3>1, ButlastAny
      <4> QED
        BY <4>1 DEF IsSeq
    <3>2. CASE stack # <<>>
      BY <1>1, <3>2, ButlastAny
    <3> QED
      BY <3>1, <3>2
  <2> QED
    BY <1>3, <1>4, <2>1, <2>2, <2>3, PlannedPopFrame
<1> QED
  BY <1>6, <1>7

\* a deferred block does not end in a Return or a Halt
LEMMA PlannedEnd ==
    ASSUME NEW pl, Planning(pl), ReturnFromBlock \/ Halt PROVE Planning2(pl)
<1>1. CASE Halt
  BY <1>1 DEF Halt, Planning2
<1>2. CASE ReturnFromBlock
  <2> DEFINE n == Len(frames)
             st == Sites(frames, pc)
  <2>1. /\ Fits(module, pl) /\ Shape(frames)
        /\ Arranged(module, pl, frames, Len(stack), pc, handler_stack, native)
        /\ OpAt(module, pc) = At(pc).op /\ pc \in DOMAIN pl
    BY StateShape
  <2>2. InBlocks(native)
    BY <1>2, BlocksAlone DEF ReturnFromBlock, Planning
  <2>3. n \in Nat /\ n >= 1 /\ n \in 1..n /\ st[n] = pc /\ OneBlock(pl, st, n)
    BY <2>1, <2>2, SitesOf DEF Arranged, Shape, BlocksFit
  <2>4. PICK k \in 1..n : /\ pl[st[k]].block
                          /\ \A j \in 1..n : j >= k => pl[st[j]].busy
    BY <2>3 DEF OneBlock
  <2>5. pl[pc].busy
    BY <2>3, <2>4
  <2>6. At(pc).op = "Halt" \/ (At(pc).op = "Return" /\ Len(frames) = 1)
    BY <1>2 DEF ReturnFromBlock, Fetch
  <2>7. At(pc).op # "Halt"
    BY <2>1, <2>5, Planned
  <2>8. ~pl[pc].block /\ n = 1
    BY <2>1, <2>6, <2>7, Planned
  <2> QED
    BY <2>3, <2>4, <2>8
<1> QED
  BY <1>1, <1>2

\* a run that ends leaves the frames and the handlers
LEMMA EndKeeps ==
    ASSUME [Next]_vars, status' # "running" PROVE UNCHANGED <<frames, handler_stack>>
<1>1. CASE UNCHANGED vars
  BY <1>1 DEF vars
<1>2. ASSUME status = "running" PROVE ~Ended
  BY <1>2 DEF Ended
<1>3. ASSUME NEW s, NEW v, Raise(s, v), status = "running" PROVE UNCHANGED <<frames, handler_stack>>
  BY <1>3 DEF Raise, Fail
<1>4. ASSUME NEW s, NEW v, PopFrame(s, v), status = "running", handler_stack' = handler_stack
      PROVE  UNCHANGED <<frames, handler_stack>>
  BY <1>4 DEF PopFrame
<1>5. CASE Const \/ LoadSelf \/ Dup \/ Eq \/ MulNull \/ PopValue \/ PrintTop \/ CallBuiltin
             \/ Jump \/ JumpIfFalse \/ Iter \/ IterNext
  BY <1>5 DEF Const, LoadSelf, Dup, Eq, MulNull, PopValue, PrintTop, CallBuiltin, Jump, JumpIfFalse,
              Iter, IterNext, Push, Goto
<1>6. CASE PushHandler \/ PopHandler \/ DeferPush \/ CallByName \/ CallMethod \/ ReturnDefers
  BY <1>6 DEF PushHandler, PopHandler, DeferPush, CallByName, CallMethod, ReturnDefers, Fetch
<1>7. CASE Throw \/ DivByZero
  BY <1>3, <1>7 DEF Throw, DivByZero, Fetch
<1>8. CASE MulError \/ Underflow \/ Halt \/ Ended
  BY <1>8 DEF MulError, Underflow, Fail, Halt, Ended, vars
<1>9. CASE ReturnPlain \/ ReturnNested
  BY <1>4, <1>9 DEF ReturnPlain, ReturnNested, Fetch
<1>10. CASE DeferNext \/ ReturnFromBlock
  <2>1. status = "running" /\ handler_stack' = handler_stack
    BY <1>10 DEF DeferNext, ReturnFromBlock, Fetch
  <2>2. EndBlock(stack) \/ EndBlock(Butlast(stack))
    BY <1>10 DEF DeferNext, ReturnFromBlock
  <2>3. ASSUME NEW s, EndBlock(s) PROVE UNCHANGED <<frames, handler_stack>>
    BY <1>4, <2>1, <2>3 DEF EndBlock
  <2> QED
    BY <2>2, <2>3
<1> QED
  BY <1>1, <1>5, <1>6, <1>7, <1>8, <1>9, <1>10 DEF Next

LEMMA PlannedStep ==
    ASSUME NEW pl, Planning(pl), [Next]_vars PROVE Planning2(pl)
<1>1. CASE UNCHANGED vars
  <2>1. Arranged(module, pl, frames, Len(stack), pc, handler_stack, native)
    BY DEF Planning
  <2> QED
    BY <1>1, <2>1 DEF Planning2, vars
<1>2. CASE Ended
  <2>1. Arranged(module, pl, frames, Len(stack), pc, handler_stack, native)
    BY DEF Planning
  <2> QED
    BY <1>2, <2>1 DEF Planning2, Ended, vars
<1> QED
  BY <1>1, <1>2, PlannedStraight, PlannedPushHandler, PlannedPopHandler, PlannedDefer, PlannedError,
     PlannedCall, PlannedReturnPlain, PlannedReturnNested, PlannedReturnDefers, PlannedDeferNext,
     PlannedEnd
     DEF Next

LEMMA PlanInit == ASSUME PlansExist, Init PROVE PlanInv
<1> SUFFICES ASSUME module.ordered PROVE PlanInv
  BY DEF PlanInv
<1> DEFINE pl == ThePlan(module)
           st == Sites(frames, pc)
           tr == TriesAt(pl, st, 1)
<1>1. Fits(module, pl)
  BY DEF PlansExist, Init, ThePlan
<1> HIDE DEF pl
<1>2. /\ frames = <<[return_pc |-> 0, stack_base |-> 0, defer_pcs |-> <<>>]>>
      /\ handler_stack = <<>> /\ native = <<>> /\ stack = <<>> /\ pc = 0
  BY DEF Init
<1>3. Len(frames) = 1 /\ frames[1].stack_base = 0 /\ frames[1].defer_pcs = <<>>
  BY <1>2
<1>4. 0 \in DOMAIN pl /\ pl[0].height <= 0 /\ pl[0].tries = <<>> /\ ~pl[0].block /\ pl[0].height \in Nat
  BY <1>1, Starts, Planned DEF Fits, Allows
<1>5. st[1] = 0 /\ Len(stack) = 0 /\ Len(handler_stack) = 0
  BY <1>2, <1>3 DEF Sites
<1>6. FramesFit(module, pl, frames, st, 0)
  BY <1>3, <1>4, <1>5 DEF FramesFit, Pending
<1>7. HandlersFit(tr, 1, handler_stack)
  <2>1. Len(tr[1]) = 0
    BY <1>4, <1>5 DEF TriesAt
  <2> DEFINE off == [j \in 1..(1 + 1) |-> 0]
  <2> HIDE DEF tr
  <2>2. Offsets(tr, 1, handler_stack, off)
    BY <1>5, <2>1 DEF Offsets
  <2> QED
    BY <2>2 DEF HandlersFit
<1>8. BlocksFit(pl, st, 1, native)
  BY <1>2, <1>4, <1>5 DEF BlocksFit, InBlocks, NoBlock
<1>9. Arranged(module, pl, frames, Len(stack), pc, handler_stack, native)
  BY <1>3, <1>5, <1>6, <1>7, <1>8 DEF Arranged
<1>10. HandlersNest(frames, handler_stack)
  BY <1>2 DEF HandlersNest
<1> QED
  BY <1>9, <1>10 DEF PlanInv, pl

LEMMA PlanStep ==
    ASSUME PlansExist, VMInv, VMInv', PlanInv, [Next]_vars PROVE PlanInv'
<1> DEFINE pl == ThePlan(module)
<1>1. module' = module
  <2>1. CASE UNCHANGED vars
    BY <2>1 DEF vars
  <2>2. CASE Next
    BY <2>2 DEF Next, Const, LoadSelf, Dup, Eq, MulNull, PopValue, PrintTop, CallBuiltin, Jump,
                JumpIfFalse, Iter, IterNext, Push, Goto, PushHandler, PopHandler, DeferPush, Throw,
                DivByZero, MulError, Underflow, Raise, Fail, CallByName, CallMethod, ReturnPlain, ReturnDefers,
                DeferNext, ReturnNested, ReturnFromBlock, Halt, Ended, vars
  <2> QED
    BY <2>1, <2>2
<1> SUFFICES ASSUME module.ordered
             PROVE  /\ HandlersNest(frames', handler_stack')
                    /\ status' = "running" =>
                          Arranged(module, pl, frames', Len(stack'), pc', handler_stack', native')
  BY <1>1 DEF PlanInv, HandlersNest
<1>2. Fits(module, pl)
  BY DEF PlansExist, VMInv, ThePlan
<1>3. /\ HandlersNest(frames, handler_stack)
      /\ status = "running" => Arranged(module, pl, frames, Len(stack), pc, handler_stack, native)
  BY DEF PlanInv
<1> HIDE DEF pl
<1>4. CASE status' # "running"
  <2>1. UNCHANGED <<frames, handler_stack>>
    BY <1>4, EndKeeps
  <2> QED
    BY <1>3, <1>4, <2>1
<1>5. CASE status' = "running"
  <2>1. status = "running"
    <3>1. CASE UNCHANGED vars
      BY <1>5, <3>1 DEF vars
    <3>2. CASE Next
      BY <1>5, <3>2 DEF Next, Const, LoadSelf, Dup, Eq, MulNull, PopValue, PrintTop, CallBuiltin, Jump,
                JumpIfFalse, Iter, IterNext, PushHandler, PopHandler, DeferPush, Throw,
                DivByZero, MulError, Underflow, CallByName, CallMethod, ReturnPlain, ReturnDefers,
                DeferNext, ReturnNested, ReturnFromBlock, Halt, Ended, Fetch, vars
    <3> QED
      BY <3>1, <3>2
  <2>2. Planning(pl)
    BY <1>2, <1>3, <2>1 DEF Planning
  <2>3. Arranged(module, pl, frames', Len(stack'), pc', handler_stack', native')
    BY <1>5, <2>2, PlannedStep DEF Planning2
  <2>4. /\ Len(frames') \in Nat /\ Len(handler_stack') \in Nat
        /\ DOMAIN handler_stack' = 1..Len(handler_stack')
    BY DEF VMInv, TypeOK
  <2>5. HandlersNest(frames', handler_stack')
    BY <2>3, <2>4, NestedOf
  <2> QED
    BY <2>3, <2>5
<1> QED
  BY <1>4, <1>5

LEMMA PlanHolds == ASSUME PlansExist PROVE Spec => []PlanInv
<1>1. Init => PlanInv
  BY PlanInit
<1>2. VMInv /\ VMInv' /\ PlanInv /\ [Next]_vars => PlanInv'
  BY PlanStep
<1> QED
  BY <1>1, <1>2, Invariance, PTL DEF Spec

(***************************************************************************)
(* The theorems about ordered modules                                      *)
(***************************************************************************)

\* In every program whose code has a plan, whatever it calls, throws, catches,
\* defers or loops over, each instruction finds its operands above the base of
\* its own frame (the pops of execute() and run() never see a caller's value).
THEOREM OperandsAreOwn == ASSUME PlansExist PROVE Spec => []OwnOperands
<1>1. VMInv /\ PlanInv => OwnOperands
  <2> SUFFICES ASSUME VMInv, PlanInv, module.ordered, status = "running"
               PROVE  Len(stack) - Top(frames).stack_base >= Operands(At(pc).op)
    BY DEF OwnOperands
  <2> DEFINE pl == ThePlan(module)
  <2>1. Planning(pl)
    BY DEF PlanInv, Planning, PlansExist, VMInv, ThePlan
  <2> HIDE DEF pl
  <2>2. /\ Fits(module, pl) /\ Shape(frames) /\ Len(stack) \in Int
        /\ Arranged(module, pl, frames, Len(stack), pc, handler_stack, native)
        /\ OpAt(module, pc) = At(pc).op
    BY <2>1, StateShape
  <2>3. /\ pl[pc].height \in Nat /\ Len(stack) - frames[Len(frames)].stack_base >= pl[pc].height
        /\ pl[pc].height >= Operands(At(pc).op) /\ Operands(At(pc).op) \in 0..2
    BY <2>2, AtSite
  <2>4. Len(frames) \in 1..Len(frames)
    BY <2>2 DEF Shape
  <2>5. frames[Len(frames)].stack_base \in Int
    BY <2>2, <2>4 DEF Shape
  <2> QED
    BY <2>2, <2>3, <2>5 DEF Top
<1> QED
  BY <1>1, PlanHolds, Invariance, PTL

\* In every such program a handler goes with the function that installed it, so
\* the frames a throw cuts to (handler.depth) are those of its own try.
THEOREM HandlersDie == ASSUME PlansExist PROVE Spec => []HandlersLive
<1>1. PlanInv => HandlersLive
  BY DEF PlanInv, HandlersLive, HandlersNest
<1> QED
  BY <1>1, PlanHolds, PTL
=============================================================================
