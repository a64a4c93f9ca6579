---------------------------- MODULE LinearProofs ----------------------------
(***************************************************************************)
(* What the ownership checker guarantees of every function, of any number  *)
(* of variables, parameters and blocks, whatever its callees do with the   *)
(* pointers they are given.  The claim is about heap blocks, the checker's *)
(* states about variables: what ties them is OneOwner, which is inductive  *)
(* once no variable points to a block that was never allocated.            *)
(***************************************************************************)
EXTENDS Linear, TLAPS

Allocated == \A v \in Vars : Points(v) => heap[names[v]] # "unused"

IInv == TypeOK /\ OneOwner /\ Allocated /\ faults \subseteq {"callee"}

LEMMA InitIInv == Init => IInv
<1> SUFFICES ASSUME Init PROVE IInv
  OBVIOUS
<1> USE LinearAssumption DEF Init
<1>1. TypeOK
  <2>1. names \in [Vars -> Blocks \cup {NoBlock}]
    OBVIOUS
  <2>2. resources \in [Vars -> LinearState \cup {"None"}] /\ heap \in [Blocks -> {"unused", "live", "freed", "gone"}]
    BY DEF LinearState
  <2> QED
    BY <2>1, <2>2 DEF TypeOK
<1>2. \A v \in Vars : Points(v) => v \in Params /\ names[v] = ParamBlock[v]
  BY DEF Points
<1>3. OneOwner
  BY <1>2 DEF OneOwner, Holders, Points
<1>4. Allocated
  BY <1>2 DEF Allocated, Points
<1> QED
  BY <1>1, <1>3, <1>4 DEF IInv

\* the variables the checker lets a node use reach no block this function freed
LEMMA UseIsOwned ==
    ASSUME IInv, NEW v \in Vars, NotMovedOrConsumed(v), Points(v)
    PROVE  heap[names[v]] \in {"live", "gone"}
BY DEF IInv, OneOwner, Holders, Points

LEMMA TouchFaultless ==
    ASSUME IInv, NEW V \in SUBSET Vars, \A v \in V : NotMovedOrConsumed(v), Touch(V)
    PROVE  faults' \subseteq {"callee"}
<1>1. ASSUME NEW v \in V, Points(v) PROVE FreedBy(names[v]) \subseteq {"callee"}
  <2>1. heap[names[v]] \in {"live", "gone"}
    BY <1>1, UseIsOwned
  <2> QED
    BY <2>1 DEF FreedBy
<1>2. UNION {FreedBy(names[v]) : v \in {u \in V : Points(u)}} \subseteq {"callee"}
  BY <1>1
<1> QED
  BY <1>2 DEF Touch, IInv

LEMMA RejectStep == ASSUME IInv, Reject PROVE IInv'
BY DEF IInv, TypeOK, OneOwner, Allocated, Holders, NotMovedOrConsumed, Points, IsLive, Reject

LEMMA AllocStep ==
    ASSUME IInv, verdict = "checking", NEW dst \in Vars, NEW isPtr \in BOOLEAN, AllocLinear(dst, isPtr)
    PROVE  IInv'
<1>1. CASE Reject
  BY <1>1, RejectStep
<1>2. CASE ~Reject
  <2>1. PICK b \in Blocks :
           /\ heap[b] = "unused"
           /\ heap' = [heap EXCEPT ![b] = "live"]
           /\ names' = [names EXCEPT ![dst] = b]
           /\ Set(dst, "MustConsume")
           /\ UNCHANGED <<verdict, faults>>
    BY <1>2 DEF AllocLinear
  <2>2. TypeOK'
    BY <2>1 DEF IInv, TypeOK, Set, LinearState
  <2>3. \A v \in Vars : v # dst => names'[v] = names[v] /\ resources'[v] = resources[v] /\ names[v] # b
    BY <2>1, LinearAssumption DEF IInv, TypeOK, Set, Allocated, Points
  <2>4. names'[dst] = b /\ resources'[dst] = "MustConsume" /\ heap'[b] = "live"
    BY <2>1 DEF IInv, TypeOK, Set
  <2>5. \A c \in Blocks : c # b => heap'[c] = heap[c]
    BY <2>1 DEF IInv, TypeOK
  <2>6. OneOwner'
    <3> SUFFICES ASSUME NEW c \in Blocks
                 PROVE  /\ \A v, w \in Holders(c)' : v = w
                        /\ Holders(c)' # {} => heap'[c] \in {"live", "gone"}
      BY DEF OneOwner
    <3>1. CASE c = b
      BY <2>3, <2>4, <3>1 DEF Holders
    <3>2. CASE c # b
      <4>1. Holders(c)' \subseteq Holders(c)
        BY <2>3, <2>4, <3>2 DEF Holders, NotMovedOrConsumed
      <4> QED
        BY <2>5, <3>2, <4>1 DEF IInv, OneOwner
    <3> QED
      BY <3>1, <3>2
  <2>7. Allocated'
    BY <2>3, <2>4, <2>5 DEF IInv, Allocated, Points
  <2> QED
    BY <2>1, <2>2, <2>6, <2>7 DEF IInv
<1> QED
  BY <1>1, <1>2

LEMMA MoveStep ==
    ASSUME IInv, verdict = "checking", NEW dst \in Vars, NEW src \in Vars, NEW isPtr \in BOOLEAN,
           Move(dst, src, isPtr)
    PROVE  IInv'
<1>1. CASE Reject
  BY <1>1, RejectStep
<1>2. CASE ~Reject
  <2>1. /\ IsLive(src) /\ Points(src)
        /\ names' = [names EXCEPT ![dst] = names[src]]
        /\ resources' = IF isPtr THEN [resources EXCEPT ![src] = "Moved", ![dst] = "MustConsume"]
                                 ELSE [resources EXCEPT ![src] = "Moved"]
        /\ UNCHANGED <<heap, verdict, faults>>
    BY <1>2 DEF Move
  <2>2. TypeOK'
    BY <2>1 DEF IInv, TypeOK, LinearState
  <2>3. names'[dst] = names[src] /\ \A v \in Vars : v # dst => names'[v] = names[v]
    BY <2>1 DEF IInv, TypeOK
  <2>4. /\ src # dst => resources'[src] = "Moved"
        /\ \A v \in Vars : (v # dst /\ v # src) => resources'[v] = resources[v]
    BY <2>1 DEF IInv, TypeOK
  <2>5. src \in Holders(names[src])
    BY <2>1 DEF Holders, NotMovedOrConsumed, IsLive
  <2>6. ASSUME NEW c \in Blocks, NEW v \in Holders(c)'
        PROVE  IF v = dst THEN c = names[src] ELSE v \in Holders(c) /\ v # src
    BY <2>3, <2>4 DEF Holders, NotMovedOrConsumed
  <2>7. OneOwner'
    <3> SUFFICES ASSUME NEW c \in Blocks
                 PROVE  /\ \A v, w \in Holders(c)' : v = w
                        /\ Holders(c)' # {} => heap'[c] \in {"live", "gone"}
      BY DEF OneOwner
    <3>1. (\A v, w \in Holders(c) : v = w) /\ (Holders(c) # {} => heap[c] \in {"live", "gone"})
      BY DEF IInv, OneOwner
    <3> QED
      BY <2>1, <2>5, <2>6, <3>1
  <2>8. Allocated'
    BY <2>1, <2>3 DEF IInv, Allocated, Points
  <2> QED
    BY <2>1, <2>2, <2>7, <2>8 DEF IInv
<1> QED
  BY <1>1, <1>2

\* giving a variable up, with or without freeing its block
LEMMA GiveUpStep ==
    ASSUME IInv, verdict = "checking", NEW v \in Vars, Consume(v) \/ Free(v)
    PROVE  IInv'
<1>1. CASE Reject
  BY <1>1, RejectStep
<1>2. CASE ~Reject
  <2>1. IsLive(v) /\ Set(v, "Consumed") /\ UNCHANGED <<names, verdict>>
    BY <1>2 DEF Consume, Free
  <2>2. resources'[v] = "Consumed" /\ \A w \in Vars : w # v => resources'[w] = resources[w]
    BY <2>1 DEF IInv, TypeOK, Set
  <2>3. ASSUME NEW c \in Blocks PROVE Holders(c)' = Holders(c) \ {v}
    BY <2>1, <2>2 DEF Holders, NotMovedOrConsumed
  <2>4. CASE Consume(v)
    <3>1. UNCHANGED <<heap, faults>>
      BY <1>2, <2>4 DEF Consume
    <3>2. TypeOK'
      BY <2>1, <3>1 DEF IInv, TypeOK, Set, LinearState
    <3>3. OneOwner' /\ Allocated'
      BY <2>1, <2>3, <3>1 DEF IInv, OneOwner, Allocated, Points
    <3> QED
      BY <3>1, <3>2, <3>3 DEF IInv
  <2>5. CASE Free(v)
    <3>1. /\ Points(v)
          /\ Touch({v})
          /\ heap' = [heap EXCEPT ![names[v]] = "freed"]
      BY <1>2, <2>5 DEF Free
    <3>2. NotMovedOrConsumed(v) /\ v \in Holders(names[v])
      BY <2>1, <3>1 DEF IsLive, NotMovedOrConsumed, Holders, Points
    <3>3. faults' \subseteq {"callee"}
      BY <3>1, <3>2, TouchFaultless
    <3>4. /\ heap'[names[v]] = "freed"
          /\ \A c \in Blocks : c # names[v] => heap'[c] = heap[c]
      BY <3>1 DEF IInv, TypeOK, Points
    <3>5. TypeOK'
      BY <2>1, <3>1, <3>3 DEF IInv, TypeOK, Set, LinearState
    <3>6. OneOwner'
      <4> SUFFICES ASSUME NEW c \in Blocks
                   PROVE  /\ \A u, w \in Holders(c)' : u = w
                          /\ Holders(c)' # {} => heap'[c] \in {"live", "gone"}
        BY DEF OneOwner
      <4>1. (\A u, w \in Holders(c) : u = w) /\ (Holders(c) # {} => heap[c] \in {"live", "gone"})
        BY DEF IInv, OneOwner
      <4>2. c = names[v] => Holders(c)' = {}
        BY <2>3, <3>2, <4>1
      <4> QED
        BY <2>3, <3>4, <4>1, <4>2
    <3>7. Allocated'
      <4> SUFFICES ASSUME NEW w \in Vars, Points(w) PROVE heap'[names[w]] # "unused"
        BY <2>1 DEF Allocated, Points
      <4> QED
        BY <3>4 DEF IInv, Allocated, Points
    <3> QED
      BY <3>3, <3>5, <3>6, <3>7 DEF IInv
  <2> QED
    BY <2>4, <2>5
<1> QED
  BY <1>1, <1>2

\* callees free some blocks and some variables are overwritten with integers
LEMMA OverwriteStep ==
    ASSUME IInv,
           names' \in [Vars -> Blocks \cup {NoBlock}],
           \A v \in Vars : names'[v] = NoBlock \/ names'[v] = names[v],
           heap' \in [Blocks -> {"unused", "live", "freed", "gone"}],
           \A b \in Blocks : heap'[b] = "gone" \/ heap'[b] = heap[b],
           UNCHANGED <<resources, verdict>>, faults' \subseteq {"callee"}
    PROVE  IInv'
<1>1. TypeOK'
  BY DEF IInv, TypeOK, IsLive
<1>2. ASSUME NEW c \in Blocks PROVE Holders(c)' \subseteq Holders(c)
  BY LinearAssumption DEF Holders, NotMovedOrConsumed
<1>3. OneOwner'
  BY <1>2 DEF IInv, OneOwner
<1>4. Allocated'
  BY LinearAssumption DEF IInv, Allocated, Points
<1> QED
  BY <1>1, <1>3, <1>4 DEF IInv

LEMMA CallStep ==
    ASSUME IInv, NEW args \in SUBSET Vars, NEW D \in SUBSET Vars, Call(args, D)
    PROVE  IInv'
<1>1. CASE Reject
  BY <1>1, RejectStep
<1>2. CASE ~Reject
  <2>1. /\ \A v \in args : NotMovedOrConsumed(v)
        /\ Touch(args)
        /\ names' = [v \in Vars |-> IF v \in D THEN NoBlock ELSE names[v]]
        /\ UNCHANGED <<resources, verdict>>
    BY <1>2 DEF Call
  <2>2. PICK F \in SUBSET {names[v] : v \in args} :
           heap' = [b \in Blocks |-> IF b \in F THEN "gone" ELSE heap[b]]
    BY <1>2 DEF Call
  <2>3. /\ heap' \in [Blocks -> {"unused", "live", "freed", "gone"}]
        /\ \A b \in Blocks : heap'[b] = "gone" \/ heap'[b] = heap[b]
    BY <2>2 DEF IInv, TypeOK
  <2>5. /\ names' \in [Vars -> Blocks \cup {NoBlock}]
        /\ \A v \in Vars : names'[v] = NoBlock \/ names'[v] = names[v]
    BY <2>1 DEF IInv, TypeOK
  <2>4. faults' \subseteq {"callee"}
    BY <2>1, TouchFaultless
  <2> QED
    BY <2>1, <2>3, <2>4, <2>5, OverwriteStep
<1> QED
  BY <1>1, <1>2

LEMMA LoadStep == ASSUME IInv, NEW dst \in Vars, NEW ptr \in Vars, Load(dst, ptr) PROVE IInv'
<1>1. CASE Reject
  BY <1>1, RejectStep
<1>2. CASE ~Reject
  <2>1. /\ NotMovedOrConsumed(ptr) /\ Touch({ptr})
        /\ names' = [names EXCEPT ![dst] = NoBlock]
        /\ UNCHANGED <<resources, heap, verdict>>
    BY <1>2 DEF Load
  <2>2. faults' \subseteq {"callee"}
    BY <2>1, TouchFaultless
  <2>3. /\ names' \in [Vars -> Blocks \cup {NoBlock}]
        /\ \A v \in Vars : names'[v] = NoBlock \/ names'[v] = names[v]
    BY <2>1 DEF IInv, TypeOK
  <2>4. heap' \in [Blocks -> {"unused", "live", "freed", "gone"}]
    BY <2>1 DEF IInv, TypeOK
  <2> QED
    BY <2>1, <2>2, <2>3, <2>4, OverwriteStep
<1> QED
  BY <1>1, <1>2

LEMMA AccessStep == ASSUME IInv, NEW V \in SUBSET Vars, Access(V) PROVE IInv'
<1>1. CASE Reject
  BY <1>1, RejectStep
<1>2. CASE ~Reject
  <2>1. /\ \A v \in V : NotMovedOrConsumed(v)
        /\ Touch(V) /\ UNCHANGED <<resources, names, heap, verdict>>
    BY <1>2 DEF Access
  <2>2. faults' \subseteq {"callee"}
    BY <2>1, TouchFaultless
  <2>3. /\ names' \in [Vars -> Blocks \cup {NoBlock}]
        /\ \A v \in Vars : names'[v] = NoBlock \/ names'[v] = names[v]
    BY <2>1 DEF IInv, TypeOK
  <2>4. heap' \in [Blocks -> {"unused", "live", "freed", "gone"}]
    BY <2>1 DEF IInv, TypeOK
  <2> QED
    BY <2>1, <2>2, <2>3, <2>4, OverwriteStep
<1> QED
  BY <1>1, <1>2

LEMMA NextIInv == IInv /\ [Next]_vars => IInv'
<1> SUFFICES ASSUME IInv, [Next]_vars PROVE IInv'
  OBVIOUS
<1>1. CASE verdict = "checking" /\ Node
  BY <1>1, AllocStep, MoveStep, GiveUpStep, CallStep, LoadStep, AccessStep DEF Node
<1>2. CASE verdict = "checking" /\ FinishScope
  BY <1>2 DEF FinishScope, IInv, TypeOK, OneOwner, Allocated, Holders, NotMovedOrConsumed, Points, IsLive
<1>3. CASE UNCHANGED vars
  BY <1>3 DEF vars, IInv, TypeOK, OneOwner, Allocated, Holders, NotMovedOrConsumed, Points, IsLive
<1> QED
  BY <1>1, <1>2, <1>3 DEF Next

LEMMA Inductive == Spec => []IInv
BY InitIInv, NextIInv, PTL DEF Spec

(***************************************************************************)
(* Whatever callees do: at most one variable reaches a block, and the      *)
(* function has not freed it.                                              *)
(***************************************************************************)
THEOREM Owned == Spec => [](TypeOK /\ OneOwner)
<1>1. IInv => TypeOK /\ OneOwner
  BY DEF IInv
<1> QED
  BY <1>1, Inductive, PTL

(***************************************************************************)
(* A function the checker accepts frees no block it freed itself, and does *)
(* not use one; a block that is freed twice or used too late is one that a *)
(* callee freed.                                                           *)
(***************************************************************************)
THEOREM Sound == Spec => []MemorySafe
<1>1. IInv => MemorySafe
  BY DEF IInv, MemorySafe
<1> QED
  BY <1>1, Inductive, PTL
=============================================================================
