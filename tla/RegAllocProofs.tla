--------------------------- MODULE RegAllocProofs ---------------------------
(***************************************************************************)
(* The register allocator for any set of variables, pool and lengths of    *)
(* intervals.  NoSharing alone is not inductive: that a register is free   *)
(* must mean that the interval of everyone who had it is over (ActiveExact *)
(* and Succession), also when the end of its holder is moved by            *)
(* mark_last_use.  Agree says so of any maps, so that one call of allocate *)
(* is proved as expiry, then eviction, then entry.                         *)
(***************************************************************************)
EXTENDS RegAlloc, FiniteSetTheorems, TLAPS

Typed(act, alloc, lf) ==
    /\ act \in [Regs -> [var : Vars \cup {NoVar}, end : Nat]]
    /\ alloc \in [Vars -> Locs]
    /\ lf \in [Vars -> [start : Nat, end : Nat]]

\* what is held agrees with the answers given
Held(act, alloc, lf) ==
    \A r \in Regs : act[r] # Idle =>
       /\ act[r].var \in Vars
       /\ alloc[act[r].var] = Register(r)
       /\ lf[act[r].var].end = act[r].end

\* who lives in a register holds it
Holds(act, alloc, lf, pos) ==
    \A v \in Vars, r \in Regs :
       (alloc[v] = Register(r) /\ lf[v].end > pos) => act[r].var = v

\* everyone who had the register before its holder was over when that one came
Succession(act, alloc, lf) ==
    \A v, w \in Vars, r \in Regs :
       (alloc[v] = Register(r) /\ alloc[w] = Register(r) /\ v # w /\ act[r].var = v)
          => lf[w].end <= lf[v].start

Disjoint(alloc, lf) ==
    \A v, w \in Vars, r \in Regs :
       (v # w /\ alloc[v] = Register(r) /\ alloc[w] = Register(r))
          => (lf[v].end <= lf[w].start \/ lf[w].end <= lf[v].start)

\* slots are handed out downwards, each once
Slots(alloc, off) ==
    /\ \A v \in Vars : alloc[v].in = "stack" => alloc[v].at > off
    /\ \A v, w \in Vars : (v # w /\ alloc[v].in = "stack") => alloc[v] # alloc[w]

\* an answer is a register of the pool, a slot, or not given yet
Known(alloc) ==
    \A v \in Vars : alloc[v] = Absent \/ alloc[v].in = "stack" \/ \E r \in Regs : alloc[v] = Register(r)

Past(lf, pos) == \A v \in Vars : lf[v].start <= pos

Agree(act, alloc, lf, pos, off) ==
    /\ Typed(act, alloc, lf)
    /\ Held(act, alloc, lf)
    /\ Holds(act, alloc, lf, pos)
    /\ Succession(act, alloc, lf)
    /\ Disjoint(alloc, lf)
    /\ Slots(alloc, off)
    /\ Known(alloc)
    /\ Past(lf, pos)

IInv ==
    /\ Agree(active, allocations, life, current_pos, next_stack_offset)
    /\ current_pos \in Nat
    /\ next_stack_offset \in Int
    /\ next_stack_offset <= InitialOffset

LEMMA RegisterFacts ==
    ASSUME NEW r, NEW q, NEW o
    PROVE  /\ (Register(r) = Register(q)) => r = q
           /\ Register(r) # Absent
           /\ Register(r) # Spilled(o)
           /\ Spilled(o) # Absent
           /\ Register(r).in = "register"
           /\ Spilled(o).in = "stack" /\ Spilled(o).at = o
           /\ Absent.in = "none"
BY DEF Register, Absent, Spilled

\* the three properties follow from the inductive invariant
LEMMA IInvImplies == IInv => TypeOK /\ NoSharing /\ ActiveExact
<1> SUFFICES ASSUME IInv PROVE TypeOK /\ NoSharing /\ ActiveExact
  OBVIOUS
<1>1. TypeOK
  BY DEF IInv, Agree, Typed, TypeOK
<1>2. ActiveExact
  BY DEF IInv, Agree, Held, Holds, ActiveExact
<1>3. NoSharing
  <2> SUFFICES ASSUME NEW v \in Vars, NEW w \in Vars, v # w,
                      allocations[v] # Absent, allocations[v] = allocations[w]
               PROVE  allocations[v].in = "register" /\ Apart(v, w)
    BY DEF NoSharing
  <2>1. allocations[v].in # "stack"
    BY DEF IInv, Agree, Slots
  <2>2. PICK r \in Regs : allocations[v] = Register(r)
    BY <2>1 DEF IInv, Agree, Known
  <2>3. allocations[v].in = "register"
    BY <2>2, RegisterFacts
  <2> QED
    BY <2>2, <2>3 DEF IInv, Agree, Disjoint, Apart
<1> QED
  BY <1>1, <1>2, <1>3

LEMMA InitIInv == Init => IInv
<1> SUFFICES ASSUME Init PROVE IInv
  OBVIOUS
<1> USE RegAllocAssumption
<1>1. /\ active = [r \in Regs |-> Idle]
      /\ allocations = [v \in Vars |-> Absent]
      /\ life = [v \in Vars |-> [start |-> 0, end |-> 0]]
      /\ current_pos = 0 /\ next_stack_offset = InitialOffset
  BY DEF Init
<1>2. Typed(active, allocations, life)
  <2>1. Idle \in [var : Vars \cup {NoVar}, end : Nat]
    BY DEF Idle
  <2>2. Absent \in Locs
    BY DEF Absent, Locs
  <2> QED
    BY <1>1, <2>1, <2>2 DEF Typed
<1>3. \A v \in Vars : allocations[v] = Absent
  BY <1>1
<1>4. Held(active, allocations, life)
  BY <1>1 DEF Held
<1>5. /\ Holds(active, allocations, life, current_pos)
      /\ Succession(active, allocations, life)
      /\ Disjoint(allocations, life)
  BY <1>3, RegisterFacts DEF Holds, Succession, Disjoint
<1>6. Slots(allocations, next_stack_offset) /\ Known(allocations)
  BY <1>3, RegisterFacts DEF Slots, Known
<1>7. Past(life, current_pos)
  BY <1>1 DEF Past
<1> QED
  BY <1>1, <1>2, <1>4, <1>5, <1>6, <1>7 DEF IInv, Agree

-----------------------------------------------------------------------------
\* dropping the intervals that are over keeps the agreement
LEMMA ExpiredAgrees ==
    ASSUME IInv
    PROVE  Agree(Expired(current_pos), allocations, life, current_pos, next_stack_offset)
<1> DEFINE h == Expired(current_pos)
<1>1. \A r \in Regs : h[r] = IF active[r].end <= current_pos THEN Idle ELSE active[r]
  BY DEF Expired
<1>2. Typed(h, allocations, life)
  <2>1. Idle \in [var : Vars \cup {NoVar}, end : Nat]
    BY DEF Idle
  <2> QED
    BY <2>1 DEF Expired, IInv, Agree, Typed
<1>3. Held(h, allocations, life)
  BY <1>1 DEF IInv, Agree, Held
<1>4. Holds(h, allocations, life, current_pos)
  <2> SUFFICES ASSUME NEW v \in Vars, NEW r \in Regs,
                      allocations[v] = Register(r), life[v].end > current_pos
               PROVE  h[r].var = v
    BY DEF Holds
  <2>1. active[r].var = v
    BY DEF IInv, Agree, Holds
  <2>2. active[r] # Idle
    BY <2>1, RegAllocAssumption DEF Idle
  <2>3. life[v].end = active[r].end
    BY <2>1, <2>2 DEF IInv, Agree, Held
  <2>4. life[v].end \in Nat /\ current_pos \in Nat
    BY DEF IInv, Agree, Typed
  <2> QED
    BY <1>1, <2>1, <2>3, <2>4
<1>5. Succession(h, allocations, life)
  <2> SUFFICES ASSUME NEW v \in Vars, NEW w \in Vars, NEW r \in Regs,
                      allocations[v] = Register(r), allocations[w] = Register(r),
                      v # w, h[r].var = v
               PROVE  life[w].end <= life[v].start
    BY DEF Succession
  <2>1. active[r].var = v
    BY <1>1, RegAllocAssumption DEF Idle
  <2> QED
    BY <2>1 DEF IInv, Agree, Succession
<1> QED
  BY <1>2, <1>3, <1>4, <1>5 DEF IInv, Agree

\* a variable without a location enters an idle register
LEMMA EnterAgrees ==
    ASSUME NEW h, NEW al, NEW l, NEW p \in Nat, NEW o \in Int,
           Agree(h, al, l, p, o),
           NEW v \in Vars, al[v] = Absent,
           NEW r \in Regs, h[r] = Idle,
           NEW e \in Nat, e > p
    PROVE  Agree([h EXCEPT ![r] = [var |-> v, end |-> e]],
                 [al EXCEPT ![v] = Register(r)],
                 [l EXCEPT ![v] = [start |-> p, end |-> e]], p, o)
<1> DEFINE hh == [h EXCEPT ![r] = [var |-> v, end |-> e]]
           aa == [al EXCEPT ![v] = Register(r)]
           ll == [l EXCEPT ![v] = [start |-> p, end |-> e]]
<1>1. Typed(h, al, l)
  BY DEF Agree
<1>2. /\ hh[r] = [var |-> v, end |-> e]
      /\ \A q \in Regs : q # r => hh[q] = h[q]
      /\ aa[v] = Register(r)
      /\ \A w \in Vars : w # v => aa[w] = al[w]
      /\ ll[v] = [start |-> p, end |-> e]
      /\ \A w \in Vars : w # v => ll[w] = l[w]
  BY <1>1 DEF Typed
<1>3. \A q \in Regs : h[q].var # v
  <2> SUFFICES ASSUME NEW q \in Regs, h[q].var = v PROVE FALSE
    OBVIOUS
  <2>1. h[q] # Idle
    BY RegAllocAssumption DEF Idle
  <2> QED
    BY <2>1, RegisterFacts DEF Agree, Held
<1>4. \A w \in Vars : (w # v /\ al[w] = Register(r)) => l[w].end <= p
  <2> SUFFICES ASSUME NEW w \in Vars, w # v, al[w] = Register(r), ~(l[w].end <= p)
               PROVE  FALSE
    OBVIOUS
  <2>1. l[w].end > p
    BY <1>1 DEF Typed
  <2>2. h[r].var = w
    BY <2>1 DEF Agree, Holds
  <2> QED
    BY <2>2, RegAllocAssumption DEF Idle
<1>5. Typed(hh, aa, ll)
  <2>1. Register(r) \in Locs
    BY DEF Register, Locs, Regs
  <2> QED
    BY <1>1, <2>1 DEF Typed
<1>6. Held(hh, aa, ll)
  BY <1>2, <1>3 DEF Agree, Held
<1>7. Holds(hh, aa, ll, p)
  <2> SUFFICES ASSUME NEW w \in Vars, NEW q \in Regs, aa[w] = Register(q), ll[w].end > p
               PROVE  hh[q].var = w
    BY DEF Holds
  <2>1. CASE w = v
    BY <1>2, <2>1, RegisterFacts
  <2>2. CASE w # v
    <3>1. q # r
      BY <1>1, <1>2, <1>4, <2>2 DEF Typed
    <3> QED
      BY <1>2, <2>2, <3>1 DEF Agree, Holds
  <2> QED
    BY <2>1, <2>2
<1>8. Succession(hh, aa, ll)
  <2> SUFFICES ASSUME NEW u \in Vars, NEW w \in Vars, NEW q \in Regs,
                      aa[u] = Register(q), aa[w] = Register(q), u # w, hh[q].var = u
               PROVE  ll[w].end <= ll[u].start
    BY DEF Succession
  <2>1. CASE q = r
    <3>1. u = v
      BY <1>2, <2>1
    <3> QED
      BY <1>2, <1>4, <2>1, <3>1
  <2>2. CASE q # r
    <3>1. u # v /\ w # v
      BY <1>2, <2>2, RegisterFacts
    <3> QED
      BY <1>2, <2>2, <3>1 DEF Agree, Succession
  <2> QED
    BY <2>1, <2>2
<1>9. Disjoint(aa, ll)
  <2> SUFFICES ASSUME NEW u \in Vars, NEW w \in Vars, NEW q \in Regs,
                      u # w, aa[u] = Register(q), aa[w] = Register(q)
               PROVE  ll[u].end <= ll[w].start \/ ll[w].end <= ll[u].start
    BY DEF Disjoint
  <2>1. CASE u = v
    BY <1>2, <1>4, <2>1, RegisterFacts
  <2>2. CASE w = v
    BY <1>2, <1>4, <2>2, RegisterFacts
  <2>3. CASE u # v /\ w # v
    BY <1>2, <2>3 DEF Agree, Disjoint
  <2> QED
    BY <2>1, <2>2, <2>3
<1>10. Slots(aa, o)
  <2>1. \A w \in Vars : aa[w].in = "stack" => w # v
    BY <1>2, RegisterFacts
  <2>2. \A u \in Vars : (u # v /\ al[u].in = "stack") => al[u] # aa[v]
    BY <1>2, RegisterFacts
  <2> QED
    BY <1>2, <2>1, <2>2 DEF Agree, Slots
<1>11. Known(aa)
  BY <1>2 DEF Agree, Known
<1>12. Past(ll, p)
  BY <1>2 DEF Agree, Past
<1> QED
  BY <1>5, <1>6, <1>7, <1>8, <1>9, <1>10, <1>11, <1>12 DEF Agree

\* a variable without a location goes to the stack
LEMMA SpillAgrees ==
    ASSUME NEW h, NEW al, NEW l, NEW p \in Nat, NEW o \in Int,
           Agree(h, al, l, p, o),
           NEW v \in Vars, al[v] = Absent,
           NEW e \in Nat
    PROVE  Agree(h, [al EXCEPT ![v] = Spilled(o)],
                 [l EXCEPT ![v] = [start |-> p, end |-> e]], p, o - 8)
<1> DEFINE aa == [al EXCEPT ![v] = Spilled(o)]
           ll == [l EXCEPT ![v] = [start |-> p, end |-> e]]
<1>1. Typed(h, al, l)
  BY DEF Agree
<1>2. /\ aa[v] = Spilled(o)
      /\ \A w \in Vars : w # v => aa[w] = al[w]
      /\ ll[v] = [start |-> p, end |-> e]
      /\ \A w \in Vars : w # v => ll[w] = l[w]
  BY <1>1 DEF Typed
<1>3. \A w \in Vars, q \in Regs : aa[w] = Register(q) => w # v
  BY <1>2, RegisterFacts
<1>4. Typed(h, aa, ll)
  <2>1. Spilled(o) \in Locs
    BY DEF Spilled, Locs
  <2> QED
    BY <1>1, <2>1 DEF Typed
<1>5. Held(h, aa, ll)
  <2> SUFFICES ASSUME NEW r \in Regs, h[r] # Idle
               PROVE  /\ h[r].var \in Vars
                      /\ aa[h[r].var] = Register(r)
                      /\ ll[h[r].var].end = h[r].end
    BY DEF Held
  <2>1. h[r].var \in Vars /\ al[h[r].var] = Register(r) /\ l[h[r].var].end = h[r].end
    BY DEF Agree, Held
  <2>2. h[r].var # v
    BY <2>1, RegisterFacts
  <2> QED
    BY <1>2, <2>1, <2>2
<1>6. Holds(h, aa, ll, p)
  BY <1>2, <1>3 DEF Agree, Holds
<1>7. Succession(h, aa, ll)
  BY <1>2, <1>3 DEF Agree, Succession
<1>8. Disjoint(aa, ll)
  BY <1>2, <1>3 DEF Agree, Disjoint
<1>9. Slots(aa, o - 8)
  <2>1. \A w \in Vars : aa[w].in = "stack" => aa[w].at > o - 8
    <3> SUFFICES ASSUME NEW w \in Vars, aa[w].in = "stack" PROVE aa[w].at > o - 8
      OBVIOUS
    <3>1. CASE w = v
      BY <1>2, <3>1, RegisterFacts
    <3>2. CASE w # v
      <4>1. al[w].at > o /\ al[w].at \in Int
        BY <1>1, <1>2, <3>2 DEF Agree, Slots, Typed, Locs
      <4> QED
        BY <1>2, <3>2, <4>1
    <3> QED
      BY <3>1, <3>2
  <2>2. \A w \in Vars : w # v => al[w] # Spilled(o)
    <3> SUFFICES ASSUME NEW w \in Vars, al[w] = Spilled(o) PROVE FALSE
      OBVIOUS
    <3>1. al[w].in = "stack" /\ al[w].at = o
      BY RegisterFacts
    <3> QED
      BY <3>1 DEF Agree, Slots
  <2>3. ASSUME NEW w \in Vars, NEW x \in Vars, w # x, aa[w].in = "stack"
        PROVE  aa[w] # aa[x]
    <3>1. CASE w = v
      BY <1>2, <2>2, <2>3, <3>1
    <3>2. CASE x = v
      BY <1>2, <2>2, <2>3, <3>2
    <3>3. CASE w # v /\ x # v
      BY <1>2, <2>3, <3>3 DEF Agree, Slots
    <3> QED
      BY <3>1, <3>2, <3>3
  <2> QED
    BY <2>1, <2>3 DEF Slots
<1>10. Known(aa)
  BY <1>2, RegisterFacts DEF Agree, Known
<1>11. Past(ll, p)
  BY <1>2 DEF Agree, Past
<1> QED
  BY <1>4, <1>5, <1>6, <1>7, <1>8, <1>9, <1>10, <1>11 DEF Agree

\* the holder of a register goes to the stack and leaves it idle
LEMMA EvictAgrees ==
    ASSUME NEW h, NEW al, NEW l, NEW p \in Nat, NEW o \in Int,
           Agree(h, al, l, p, o),
           NEW r \in Regs, h[r] # Idle
    PROVE  Agree([h EXCEPT ![r] = Idle], [al EXCEPT ![h[r].var] = Spilled(o)], l, p, o - 8)
<1> DEFINE v == h[r].var
           hh == [h EXCEPT ![r] = Idle]
           aa == [al EXCEPT ![v] = Spilled(o)]
<1>1. Typed(h, al, l) /\ v \in Vars /\ al[v] = Register(r)
  BY DEF Agree, Held
<1>2. /\ hh[r] = Idle
      /\ \A q \in Regs : q # r => hh[q] = h[q]
      /\ aa[v] = Spilled(o)
      /\ \A w \in Vars : w # v => aa[w] = al[w]
  BY <1>1 DEF Typed
<1>3. \A w \in Vars, q \in Regs : aa[w] = Register(q) => w # v /\ al[w] = Register(q)
  BY <1>2, RegisterFacts
<1>4. Typed(hh, aa, l)
  <2>1. Spilled(o) \in Locs
    BY DEF Spilled, Locs
  <2>2. Idle \in [var : Vars \cup {NoVar}, end : Nat]
    BY DEF Idle
  <2> QED
    BY <1>1, <2>1, <2>2 DEF Typed
<1>5. Held(hh, aa, l)
  <2> SUFFICES ASSUME NEW q \in Regs, hh[q] # Idle
               PROVE  /\ hh[q].var \in Vars
                      /\ aa[hh[q].var] = Register(q)
                      /\ l[hh[q].var].end = hh[q].end
    BY DEF Held
  <2>1. q # r /\ hh[q] = h[q]
    BY <1>2
  <2>2. h[q].var \in Vars /\ al[h[q].var] = Register(q) /\ l[h[q].var].end = h[q].end
    BY <2>1 DEF Agree, Held
  <2>3. h[q].var # v
    BY <1>1, <2>1, <2>2, RegisterFacts
  <2> QED
    BY <1>2, <2>1, <2>2, <2>3
<1>6. Holds(hh, aa, l, p)
  <2> SUFFICES ASSUME NEW w \in Vars, NEW q \in Regs, aa[w] = Register(q), l[w].end > p
               PROVE  hh[q].var = w
    BY DEF Holds
  <2>1. w # v /\ h[q].var = w
    BY <1>3 DEF Agree, Holds
  <2> QED
    BY <1>2, <2>1
<1>7. Succession(hh, aa, l)
  <2> SUFFICES ASSUME NEW u \in Vars, NEW w \in Vars, NEW q \in Regs,
                      aa[u] = Register(q), aa[w] = Register(q), u # w, hh[q].var = u
               PROVE  l[w].end <= l[u].start
    BY DEF Succession
  <2>1. q # r
    BY <1>2, RegAllocAssumption DEF Idle
  <2> QED
    BY <1>2, <1>3, <2>1 DEF Agree, Succession
<1>8. Disjoint(aa, l)
  BY <1>3 DEF Agree, Disjoint
<1>9. Slots(aa, o - 8)
  <2>1. ASSUME NEW w \in Vars, aa[w].in = "stack" PROVE aa[w].at > o - 8
    <3>1. CASE w = v
      BY <1>2, <3>1, RegisterFacts
    <3>2. CASE w # v
      <4>1. al[w].at > o /\ al[w].at \in Int
        BY <1>1, <1>2, <2>1, <3>2 DEF Agree, Slots, Typed, Locs
      <4> QED
        BY <1>2, <3>2, <4>1
    <3> QED
      BY <3>1, <3>2
  <2>2. ASSUME NEW w \in Vars, al[w] = Spilled(o) PROVE FALSE
    <3>1. al[w].in = "stack" /\ al[w].at = o
      BY <2>2, RegisterFacts
    <3> QED
      BY <3>1 DEF Agree, Slots
  <2>3. ASSUME NEW w \in Vars, NEW x \in Vars, w # x, aa[w].in = "stack"
        PROVE  aa[w] # aa[x]
    <3>1. CASE w = v
      BY <1>2, <2>2, <2>3, <3>1
    <3>2. CASE x = v
      BY <1>2, <2>2, <2>3, <3>2
    <3>3. CASE w # v /\ x # v
      BY <1>2, <2>3, <3>3 DEF Agree, Slots
    <3> QED
      BY <3>1, <3>2, <3>3
  <2> QED
    BY <2>1, <2>3 DEF Slots
<1>10. Known(aa)
  BY <1>2, RegisterFacts DEF Agree, Known
<1> QED
  BY <1>4, <1>5, <1>6, <1>7, <1>8, <1>9, <1>10 DEF Agree

-----------------------------------------------------------------------------
LEMMA TakeFreeStep ==
    ASSUME IInv, NEW v \in Vars, NEW n \in Lengths,
           allocations[v] = Absent, TakeFree(v, n), Lives(v, n), UNCHANGED current_pos
    PROVE  IInv'
<1> DEFINE held == Expired(current_pos)
           e == current_pos + n
<1>1. Agree(held, allocations, life, current_pos, next_stack_offset)
  BY ExpiredAgrees
<1>2. current_pos \in Nat /\ e \in Nat /\ e > current_pos /\ next_stack_offset \in Int
  BY RegAllocAssumption DEF IInv
<1>3. PICK r \in Regs :
         /\ held[r] = Idle
         /\ active' = [held EXCEPT ![r] = [var |-> v, end |-> e]]
         /\ allocations' = [allocations EXCEPT ![v] = Register(r)]
         /\ next_stack_offset' = next_stack_offset
  BY DEF TakeFree, FreeRegs, Entry
<1>4. Agree([held EXCEPT ![r] = [var |-> v, end |-> e]],
            [allocations EXCEPT ![v] = Register(r)],
            [life EXCEPT ![v] = [start |-> current_pos, end |-> e]],
            current_pos, next_stack_offset)
  BY <1>1, <1>2, <1>3, EnterAgrees
<1> QED
  BY <1>3, <1>4 DEF IInv, Lives

LEMMA SpillSelfStep ==
    ASSUME IInv, NEW v \in Vars, NEW n \in Lengths,
           allocations[v] = Absent, SpillSelf(v, n), Lives(v, n), UNCHANGED current_pos
    PROVE  IInv'
<1>1. Agree(Expired(current_pos), allocations, life, current_pos, next_stack_offset)
  BY ExpiredAgrees
<1>2. current_pos \in Nat /\ current_pos + n \in Nat /\ next_stack_offset \in Int
      /\ next_stack_offset - 8 \in Int /\ next_stack_offset - 8 <= InitialOffset
  BY RegAllocAssumption DEF IInv
<1>3. Agree(Expired(current_pos), [allocations EXCEPT ![v] = Spilled(next_stack_offset)],
            [life EXCEPT ![v] = [start |-> current_pos, end |-> current_pos + n]],
            current_pos, next_stack_offset - 8)
  BY <1>1, <1>2, SpillAgrees
<1> QED
  BY <1>2, <1>3 DEF IInv, SpillSelf, Lives

LEMMA EvictStep ==
    ASSUME IInv, NEW v \in Vars, NEW n \in Lengths,
           allocations[v] = Absent, Evict(v, n), Lives(v, n), UNCHANGED current_pos
    PROVE  IInv'
<1> DEFINE held == Expired(current_pos)
           e == current_pos + n
           o == next_stack_offset
<1>1. Agree(held, allocations, life, current_pos, o)
  BY ExpiredAgrees
<1>2. current_pos \in Nat /\ e \in Nat /\ e > current_pos /\ o \in Int
      /\ o - 8 \in Int /\ o - 8 <= InitialOffset
  BY RegAllocAssumption DEF IInv
<1>3. PICK r \in Regs :
         /\ held[r] # Idle
         /\ active' = [held EXCEPT ![r] = [var |-> v, end |-> e]]
         /\ allocations' = [allocations EXCEPT ![held[r].var] = Spilled(o), ![v] = Register(r)]
         /\ next_stack_offset' = o - 8
  BY DEF Evict, Furthest, FreeRegs, Entry
<1> DEFINE u == held[r].var
           hh == [held EXCEPT ![r] = Idle]
           aa == [allocations EXCEPT ![u] = Spilled(o)]
<1>4. Agree(hh, aa, life, current_pos, o - 8)
  BY <1>1, <1>2, <1>3, EvictAgrees
<1>5. u # v /\ held \in [Regs -> [var : Vars \cup {NoVar}, end : Nat]]
  BY <1>1, <1>3, RegisterFacts DEF Agree, Held, Typed
<1>6. hh[r] = Idle /\ aa[v] = Absent
  BY <1>5
<1>7. Agree([hh EXCEPT ![r] = [var |-> v, end |-> e]], [aa EXCEPT ![v] = Register(r)],
            [life EXCEPT ![v] = [start |-> current_pos, end |-> e]], current_pos, o - 8)
  BY <1>2, <1>4, <1>6, EnterAgrees
<1>8. active' = [hh EXCEPT ![r] = [var |-> v, end |-> e]]
  BY <1>3, <1>5
<1>9. allocations' = [aa EXCEPT ![v] = Register(r)]
  BY <1>3
<1>10. life' = [life EXCEPT ![v] = [start |-> current_pos, end |-> e]]
  BY DEF Lives
<1> QED
  BY <1>2, <1>3, <1>7, <1>8, <1>9, <1>10 DEF IInv

\* the end of a holder's interval moves; everyone before it is over by its start
LEMMA MarkLastUseStep ==
    ASSUME IInv, NEW v \in Vars, MarkLastUse(v)
    PROVE  IInv'
<1>1. PICK r \in Regs :
         /\ active[r].var = v
         /\ active' = [active EXCEPT ![r].end = current_pos + 1]
  BY DEF MarkLastUse
<1>2. /\ life' = [life EXCEPT ![v].end = current_pos + 1]
      /\ allocations' = allocations
      /\ next_stack_offset' = next_stack_offset
      /\ current_pos' = current_pos
  BY DEF MarkLastUse
<1>3. Typed(active, allocations, life) /\ current_pos \in Nat
  BY DEF IInv, Agree
<1>4. active[r] # Idle
  BY <1>1, RegAllocAssumption DEF Idle
<1>5. allocations[v] = Register(r)
  BY <1>1, <1>4 DEF IInv, Agree, Held
<1>6. /\ active'[r].var = v /\ active'[r].end = current_pos + 1
      /\ \A q \in Regs : q # r => active'[q] = active[q]
      /\ \A q \in Regs : active'[q].var = active[q].var
  BY <1>1, <1>3 DEF Typed
<1>7. /\ life'[v].start = life[v].start /\ life'[v].end = current_pos + 1
      /\ \A w \in Vars : w # v => life'[w] = life[w]
  BY <1>2, <1>3 DEF Typed
<1>8. Typed(active', allocations, life')
  BY <1>1, <1>2, <1>3 DEF Typed
<1>9. Held(active', allocations, life')
  <2> SUFFICES ASSUME NEW q \in Regs, active'[q] # Idle
               PROVE  /\ active'[q].var \in Vars
                      /\ allocations[active'[q].var] = Register(q)
                      /\ life'[active'[q].var].end = active'[q].end
    BY DEF Held
  <2>1. CASE q = r
    BY <1>5, <1>6, <1>7, <2>1
  <2>2. CASE q # r
    <3>1. /\ active[q].var \in Vars /\ allocations[active[q].var] = Register(q)
          /\ life[active[q].var].end = active[q].end
      BY <1>6, <2>2 DEF IInv, Agree, Held
    <3>2. active[q].var # v
      BY <1>5, <2>2, <3>1, RegisterFacts
    <3> QED
      BY <1>6, <1>7, <2>2, <3>1, <3>2
  <2> QED
    BY <2>1, <2>2
<1>10. Holds(active', allocations, life', current_pos)
  <2> SUFFICES ASSUME NEW w \in Vars, NEW q \in Regs,
                      allocations[w] = Register(q), life'[w].end > current_pos
               PROVE  active'[q].var = w
    BY DEF Holds
  <2>1. CASE w = v
    BY <1>5, <1>6, <2>1, RegisterFacts
  <2>2. CASE w # v
    BY <1>6, <1>7, <2>2 DEF IInv, Agree, Holds
  <2> QED
    BY <2>1, <2>2
<1>11. ASSUME NEW w \in Vars, w # v, allocations[w] = Register(r)
       PROVE  life[w].end <= life[v].start
  BY <1>1, <1>5, <1>11 DEF IInv, Agree, Succession
<1>12. Succession(active', allocations, life')
  <2> SUFFICES ASSUME NEW u \in Vars, NEW w \in Vars, NEW q \in Regs,
                      allocations[u] = Register(q), allocations[w] = Register(q),
                      u # w, active'[q].var = u
               PROVE  life'[w].end <= life'[u].start
    BY DEF Succession
  <2>1. life[w].end <= life[u].start
    BY <1>6 DEF IInv, Agree, Succession
  <2>2. w # v
    BY <1>1, <1>5, <1>6, RegisterFacts
  <2> QED
    BY <1>7, <2>1, <2>2
<1>13. Disjoint(allocations, life')
  <2> SUFFICES ASSUME NEW u \in Vars, NEW w \in Vars, NEW q \in Regs,
                      u # w, allocations[u] = Register(q), allocations[w] = Register(q)
               PROVE  life'[u].end <= life'[w].start \/ life'[w].end <= life'[u].start
    BY DEF Disjoint
  <2>1. CASE u = v
    <3>1. q = r
      BY <1>5, <2>1, RegisterFacts
    <3> QED
      BY <1>7, <1>11, <2>1, <3>1
  <2>2. CASE w = v
    <3>1. q = r
      BY <1>5, <2>2, RegisterFacts
    <3> QED
      BY <1>7, <1>11, <2>2, <3>1
  <2>3. CASE u # v /\ w # v
    BY <1>7, <2>3 DEF IInv, Agree, Disjoint
  <2> QED
    BY <2>1, <2>2, <2>3
<1>14. Past(life', current_pos)
  BY <1>7 DEF IInv, Agree, Past
<1> QED
  BY <1>2, <1>8, <1>9, <1>10, <1>12, <1>13, <1>14 DEF IInv, Agree

LEMMA AdvanceStep == ASSUME IInv, Advance PROVE IInv'
<1>1. current_pos \in Nat /\ current_pos' = current_pos + 1
  BY DEF IInv, Advance
<1>2. UNCHANGED <<active, allocations, next_stack_offset, life>>
  BY DEF Advance
<1>3. Holds(active, allocations, life, current_pos + 1)
  <2> SUFFICES ASSUME NEW v \in Vars, NEW r \in Regs,
                      allocations[v] = Register(r), life[v].end > current_pos + 1
               PROVE  active[r].var = v
    BY DEF Holds
  <2>1. life[v].end > current_pos
    BY <1>1 DEF IInv, Agree, Typed
  <2> QED
    BY <2>1 DEF IInv, Agree, Holds
<1>4. Past(life, current_pos + 1)
  BY <1>1 DEF IInv, Agree, Past, Typed
<1> QED
  BY <1>1, <1>2, <1>3, <1>4 DEF IInv, Agree

LEMMA ResetStep == ASSUME Reset PROVE IInv'
<1>1. Init'
  BY DEF Reset, Init
<1>2. Init' => IInv'
  BY InitIInv, PTL
<1> QED
  BY <1>1, <1>2

LEMMA NextIInv == IInv /\ [Next]_vars => IInv'
<1> SUFFICES ASSUME IInv, [Next]_vars PROVE IInv'
  OBVIOUS
<1>1. ASSUME NEW v \in Vars, NEW n \in Lengths, Allocate(v, n) PROVE IInv'
  BY <1>1, TakeFreeStep, SpillSelfStep, EvictStep DEF Allocate
<1>2. ASSUME NEW v \in Vars, MarkLastUse(v) PROVE IInv'
  BY <1>2, MarkLastUseStep
<1>3. CASE Advance
  BY <1>3, AdvanceStep
<1>4. CASE ExpireOldIntervals
  BY <1>4, ExpiredAgrees DEF ExpireOldIntervals, IInv
<1>5. CASE Reset
  BY <1>5, ResetStep
<1>6. CASE UNCHANGED vars
  BY <1>6 DEF vars, IInv
<1> QED
  BY <1>1, <1>2, <1>3, <1>4, <1>5, <1>6 DEF Next

LEMMA Inductive == Spec => []IInv
BY InitIInv, NextIInv, PTL DEF Spec

(***************************************************************************)
(* The maps keep their shape and slots stay below the first one.           *)
(***************************************************************************)
THEOREM TypeCorrect == Spec => []TypeOK
BY Inductive, IInvImplies, PTL

(***************************************************************************)
(* Two variables of a function never share a place while both are live,    *)
(* whatever intervals are asked for, shortened or extended.                *)
(***************************************************************************)
THEOREM NeverShared == Spec => []NoSharing
BY Inductive, IInvImplies, PTL

(***************************************************************************)
(* `active` and `allocations` agree: the first is what the second says of  *)
(* the variables that are still live.                                      *)
(***************************************************************************)
THEOREM ActiveAgrees == Spec => []ActiveExact
BY Inductive, IInvImplies, PTL

-----------------------------------------------------------------------------
\* registers all held, and one more variable comes
LEMMA FullPool ==
    ASSUME IInv, NEW v \in Vars, NEW n \in Lengths, allocations[v] = Absent,
           FreeRegs(Expired(current_pos)) = {}, Lives(v, n)
    PROVE  Cardinality(LiveAt(current_pos, life')) > NumRegs
<1> DEFINE L == LiveAt(current_pos, life')
           f == [r \in Regs |-> active[r].var]
<1> USE RegAllocAssumption
<1>1. Typed(active, allocations, life) /\ current_pos \in Nat
  BY DEF IInv, Agree
<1>2. /\ life'[v] = [start |-> current_pos, end |-> current_pos + n]
      /\ \A w \in Vars : w # v => life'[w] = life[w]
  BY <1>1 DEF Lives, Typed
<1>3. v \in L
  BY <1>1, <1>2 DEF LiveAt
<1>4. ASSUME NEW r \in Regs
      PROVE  active[r].var \in L \ {v} /\ allocations[active[r].var] = Register(r)
  <2>1. Expired(current_pos)[r] # Idle
    BY DEF FreeRegs
  <2>2. active[r].end > current_pos /\ active[r] # Idle
    BY <1>1, <2>1 DEF Expired, Typed
  <2>3. /\ active[r].var \in Vars
        /\ allocations[active[r].var] = Register(r)
        /\ life[active[r].var].end = active[r].end
    BY <2>2 DEF IInv, Agree, Held
  <2>4. active[r].var # v
    BY <2>3, RegisterFacts
  <2>5. life[active[r].var].start <= current_pos
    BY <2>3 DEF IInv, Agree, Past
  <2> QED
    BY <1>1, <1>2, <2>2, <2>3, <2>4, <2>5 DEF LiveAt, Typed
<1>5. f \in Injection(Regs, L \ {v})
  <2>1. f \in [Regs -> L \ {v}]
    BY <1>4
  <2>2. ASSUME NEW r \in Regs, NEW q \in Regs, f[r] = f[q] PROVE r = q
    <3>1. active[r].var = active[q].var
      BY <2>2
    <3>2. Register(r) = Register(q)
      BY <1>4, <3>1
    <3> QED
      BY <3>2, RegisterFacts
  <2> QED
    BY <2>1, <2>2 DEF Injection, IsInjective
<1>6. IsFiniteSet(L)
  BY FS_Subset DEF LiveAt
<1>7. IsFiniteSet(L \ {v}) /\ Cardinality(L \ {v}) = Cardinality(L) - 1 /\ Cardinality(L) \in Nat
  <2> HIDE DEF L
  <2> QED
    BY <1>3, <1>6, FS_RemoveElement, FS_CardinalityType
<1>8. Cardinality(Regs) <= Cardinality(L \ {v})
  <2> HIDE DEF L, f
  <2> QED
    BY <1>5, <1>7, FS_Injection
<1>9. Cardinality(Regs) = NumRegs
  BY FS_Interval DEF Regs
<1> QED
  BY <1>7, <1>8, <1>9

LEMMA SpillStep ==
    ASSUME IInv, [Next]_vars, NEW v \in Vars, GoesToStack(v)
    PROVE  Cardinality(LiveAt(current_pos, life')) > NumRegs
<1>1. ASSUME NEW w \in Vars, NEW n \in Lengths, Allocate(w, n)
      PROVE  Cardinality(LiveAt(current_pos, life')) > NumRegs
  <2>1. CASE TakeFree(w, n)
    <3>1. PICK r \in Regs : allocations' = [allocations EXCEPT ![w] = Register(r)]
      BY <2>1 DEF TakeFree, FreeRegs
    <3>2. allocations \in [Vars -> Locs]
      BY DEF IInv, Agree, Typed
    <3> QED
      BY <3>1, <3>2, RegisterFacts DEF GoesToStack
  <2>2. CASE SpillSelf(w, n) \/ Evict(w, n)
    <3>1. FreeRegs(Expired(current_pos)) = {}
      BY <2>2 DEF SpillSelf, Evict
    <3> QED
      BY <1>1, <3>1, FullPool DEF Allocate
  <2> QED
    BY <1>1, <2>1, <2>2 DEF Allocate
<1>2. CASE Reset
  BY <1>2, RegisterFacts DEF Reset, GoesToStack
<1>3. CASE UNCHANGED allocations
  BY <1>3 DEF GoesToStack
<1> QED
  BY <1>1, <1>2, <1>3 DEF Next, MarkLastUse, Advance, ExpireOldIntervals, vars

(***************************************************************************)
(* No variable goes to the stack while a register is held by nobody who is *)
(* live: more variables are live at that position than the pool has.       *)
(***************************************************************************)
THEOREM SpillsOnlyWhenNeeded == Spec => SpillsNeeded
<1>1. IInv /\ [Next]_vars
        => ((\E v \in Vars : GoesToStack(v)) => Cardinality(LiveAt(current_pos, life')) > NumRegs)
  BY SpillStep
<1> QED
  BY <1>1, Inductive, PTL DEF Spec, SpillsNeeded
=============================================================================
