---------------------------- MODULE ImportsProofs ----------------------------
(***************************************************************************)
(* The import system, for every project, of any number of modules, and any *)
(* depth of the native stack.  The claims are about one VM or two          *)
(* neighbours of the stack; what ties them is Links, which says what a VM  *)
(* is doing for the one below it, and Kept, which says where a VM's cache  *)
(* comes from.                                                             *)
(***************************************************************************)
EXTENDS Imports, SequenceTheorems, TLAPS

\* a VM has loaded its imports or has them still to load, and loaded no others
Kept(vm) ==
    /\ vm.ready => vm.pending = <<>>
    /\ \A imp \in ImportsOf(vm.mod) : imp.from \in DOMAIN vm.cache \/ imp \in Range(vm.pending)
    /\ \A m \in DOMAIN vm.cache : \E imp \in ImportsOf(vm.mod) : imp.from = m

\* what the VM does for its parent, the one below it
Serves(vm, parent) ==
    /\ vm.job = "load" => parent.pending # <<>> /\ Head(parent.pending).from = vm.mod
    /\ vm.job = "call" => /\ parent.ready /\ parent.code # <<>>
                          /\ Head(parent.code) \notin Defines(parent.mod)
                          /\ vm.mod \in DOMAIN parent.cache
                          /\ Head(parent.code) \in Defines(vm.mod)

Links == \A i \in 2..Len(vms) : Serves(vms[i], vms[i - 1])

IInv == TypeOK /\ Links /\ \A i \in DOMAIN vms : Kept(vms[i])

\* the globals and the exports a VM keeps mean functions that exist
Bound(vm) ==
    /\ \A m \in DOMAIN vm.cache : \A f \in Defines(m) : f \in DOMAIN vm.cache[m] /\ vm.cache[m][f] = m
    /\ vm.ready => \A f \in Defines(vm.mod) : f \in DOMAIN vm.globals /\ vm.globals[f] = vm.mod
    /\ \A f \in DOMAIN vm.globals :
          /\ f \in Defines(vm.globals[f])
          /\ vm.globals[f] \in DOMAIN vm.cache \/ vm.globals[f] = vm.mod

BInv == \A i \in DOMAIN vms : Bound(vms[i])

\* libraries that import nothing of their own
Flat == \A m \in Modules \ {Root} : project.imports[m] = <<>>

\* no module the root has loaded is the root itself, and once it runs only
\* libraries run above it
FInv ==
    Flat => /\ \A i \in DOMAIN vms : Root \notin DOMAIN vms[i].cache
            /\ vms[1].ready => \A i \in 2..Len(vms) : vms[i].mod # Root

-----------------------------------------------------------------------------
(***************************************************************************)
(* The stack                                                               *)
(***************************************************************************)

LEMMA OfItsRange == ASSUME NEW S, NEW s \in Seq(S) PROVE s \in Seq(Range(s))
<1>1. s \in [1..Len(s) -> Range(s)]
  BY DEF Range
<1>2. Len(s) \in Nat
  OBVIOUS
<1> QED
  BY <1>1, <1>2

LEMMA Widened == ASSUME NEW S, NEW T, S \subseteq T, NEW s \in Seq(S) PROVE s \in Seq(T)
<1>1. s \in [1..Len(s) -> T] /\ Len(s) \in Nat
  OBVIOUS
<1> QED
  BY <1>1

LEMMA Grown ==
    ASSUME NEW S, NEW s \in Seq(S), NEW x
    PROVE  /\ Append(s, x) \in Seq(Range(Append(s, x))) /\ Len(Append(s, x)) = Len(s) + 1
           /\ Append(s, x)[Len(s) + 1] = x /\ \A i \in 1..Len(s) : Append(s, x)[i] = s[i]
<1>1. s \in Seq(S \cup {x})
  BY Widened
<1>2. /\ Append(s, x) \in Seq(S \cup {x}) /\ Len(Append(s, x)) = Len(s) + 1
      /\ Append(s, x)[Len(s) + 1] = x /\ \A i \in 1..Len(s) : Append(s, x)[i] = s[i]
  BY <1>1, AppendProperties
<1> QED
  BY <1>2, OfItsRange

ButLast(s) == SubSeq(s, 1, Len(s) - 1)

LEMMA Cut ==
    ASSUME NEW S, NEW s \in Seq(S), Len(s) > 0
    PROVE  /\ ButLast(s) \in Seq(S) /\ Len(ButLast(s)) = Len(s) - 1
           /\ \A i \in 1..Len(s) - 1 : ButLast(s)[i] = s[i]
<1> DEFINE n == Len(s) - 1
<1>1. n \in Nat /\ \A i \in 1..n : s[i] \in S
  OBVIOUS
<1>2. SubSeq(s, 1, n) \in Seq(S) /\ Len(SubSeq(s, 1, n)) = IF 1 <= n THEN n - 1 + 1 ELSE 0
  BY <1>1, SubSeqProperties
<1>3. \A i \in 1..n - 1 + 1 : SubSeq(s, 1, n)[i] = s[1 + i - 1]
  BY <1>1, SubSeqProperties
<1>4. SubSeq(s, 1, n) = ButLast(s) /\ Len(s) = n + 1
  BY DEF ButLast
<1> HIDE DEF n
<1>5. Len(ButLast(s)) = n /\ \A i \in 1..n : ButLast(s)[i] = s[i]
  BY <1>1, <1>2, <1>3, <1>4
<1> QED
  BY <1>1, <1>2, <1>4, <1>5

Swapped(s, x) == Append(ButLast(s), x)

LEMMA Replaced ==
    ASSUME NEW S, NEW s \in Seq(S), Len(s) > 0, NEW x
    PROVE  /\ Swapped(s, x) \in Seq(Range(Swapped(s, x))) /\ Len(Swapped(s, x)) = Len(s)
           /\ Swapped(s, x)[Len(s)] = x /\ \A i \in 1..Len(s) - 1 : Swapped(s, x)[i] = s[i]
<1>1. /\ ButLast(s) \in Seq(S) /\ Len(ButLast(s)) = Len(s) - 1 /\ Len(s) \in Nat
      /\ \A i \in 1..Len(s) - 1 : ButLast(s)[i] = s[i]
  BY Cut
<1> DEFINE t == Append(ButLast(s), x)
<1>2. /\ t \in Seq(Range(t)) /\ Len(t) = Len(ButLast(s)) + 1
      /\ t[Len(ButLast(s)) + 1] = x /\ \A i \in 1..Len(ButLast(s)) : t[i] = ButLast(s)[i]
  BY <1>1, Grown
<1>3. t = Swapped(s, x)
  BY DEF Swapped
<1> HIDE DEF t
<1> QED
  BY <1>1, <1>2, <1>3

LEMMA Dropped ==
    ASSUME NEW S, NEW s \in Seq(S), Len(s) > 1, NEW x
    PROVE  LET t == Swapped(ButLast(s), x)
           IN  /\ t \in Seq(Range(t)) /\ Len(t) = Len(s) - 1
               /\ t[Len(s) - 1] = x /\ \A i \in 1..Len(s) - 2 : t[i] = s[i]
<1>1. /\ ButLast(s) \in Seq(S) /\ Len(ButLast(s)) = Len(s) - 1 /\ Len(s) \in Nat
      /\ Len(ButLast(s)) > 0 /\ \A i \in 1..Len(s) - 1 : ButLast(s)[i] = s[i]
  BY Cut
<1> DEFINE t == Swapped(ButLast(s), x)
<1>2. /\ t \in Seq(Range(t)) /\ Len(t) = Len(ButLast(s))
      /\ t[Len(ButLast(s))] = x /\ \A i \in 1..Len(ButLast(s)) - 1 : t[i] = ButLast(s)[i]
  BY <1>1, Replaced
<1> HIDE DEF t
<1>3. /\ t \in Seq(Range(t)) /\ Len(t) = Len(s) - 1
      /\ t[Len(s) - 1] = x /\ \A i \in 1..Len(s) - 2 : t[i] = s[i]
  BY <1>1, <1>2
<1> QED
  BY <1>3 DEF t

(***************************************************************************)
(* A VM                                                                    *)
(***************************************************************************)

\* what ImportsAssumption says of the project that runs
LEMMA Shape ==
    ASSUME project \in Projects
    PROVE  /\ Root \in Modules
           /\ \A m \in Modules : /\ project.imports[m] \in Seq(ImportsOf(m))
                                 /\ \A imp \in ImportsOf(m) : imp.from \in Modules
                                 /\ project.top[m] \in Seq(Names)
                                 /\ \A f \in Defines(m) : project.body[m][f] \in Seq(Names)
<1>1. /\ Root \in Modules
      /\ \A m \in Modules : /\ project.imports[m] \in Seq(ImportsOf(m))
                            /\ \A imp \in ImportsOf(m) : imp.from \in Modules
                            /\ project.top[m] \in Seq(Range(project.top[m]))
                            /\ \A f \in Defines(m) : project.body[m][f] \in Seq(Range(project.body[m][f]))
  BY ImportsAssumption DEF Modules, ImportsOf, Defines
<1>2. ASSUME NEW m \in Modules PROVE project.top[m] \in Seq(Names)
  <2>1. Range(project.top[m]) \subseteq Names
    BY DEF Names
  <2> QED
    BY <1>1, <2>1
<1>3. ASSUME NEW m \in Modules, NEW f \in Defines(m) PROVE project.body[m][f] \in Seq(Names)
  <2>1. Range(project.body[m][f]) \subseteq Names
    BY DEF Names
  <2> QED
    BY <1>1, <2>1
<1> QED
  BY <1>1, <1>2, <1>3

LEMMA OverrideIs ==
    ASSUME NEW g, NEW h
    PROVE  /\ DOMAIN Override(g, h) = DOMAIN g \cup DOMAIN h
           /\ \A x \in DOMAIN h : Override(g, h)[x] = h[x]
           /\ \A x \in DOMAIN g \ DOMAIN h : Override(g, h)[x] = g[x]
           /\ Range(Override(g, h)) \subseteq Range(g) \cup Range(h)
BY DEF Override, Range

LEMMA NewVMIs ==
    ASSUME project \in Projects, NEW m \in Modules, NEW job \in {"run", "load", "call"},
           NEW code \in Seq(Names)
    PROVE  /\ VMRecord(NewVM(m, job, code)) /\ Kept(NewVM(m, job, code))
           /\ NewVM(m, job, code).mod = m /\ NewVM(m, job, code).job = job
           /\ ~NewVM(m, job, code).ready
           /\ DOMAIN NewVM(m, job, code).cache = {} /\ DOMAIN NewVM(m, job, code).globals = {}
<1>1. project.imports[m] \in Seq(ImportsOf(m))
  BY Shape
<1> QED
  BY <1>1 DEF NewVM, VMRecord, Kept, Range, ImportsOf

(***************************************************************************)
(* The three ways in which a step changes the stack                        *)
(***************************************************************************)

LEMMA TopIs ==
    ASSUME TypeOK
    PROVE  /\ vms \in Seq(Range(vms)) /\ Len(vms) \in Nat /\ Len(vms) > 0 /\ Len(vms) <= MaxDepth /\ MaxDepth \in Nat
           /\ DOMAIN vms = 1..Len(vms) /\ Len(vms) \in DOMAIN vms /\ VMRecord(Top)
<1>1. vms \in Seq(Range(vms)) /\ Len(vms) \in 1..MaxDepth /\ MaxDepth \in Nat
  BY ImportsAssumption DEF TypeOK
<1>2. DOMAIN vms = 1..Len(vms) /\ Len(vms) \in DOMAIN vms
  BY <1>1
<1> QED
  BY <1>1, <1>2 DEF TypeOK, Top

Around ==
    /\ project' = project
    /\ status' \in {"running", "done", "error", "overflow"}
    /\ reads' \in [Modules -> Nat]

LEMMA RewriteStep ==
    ASSUME IInv, Around, NEW x, vms' = With(x), VMRecord(x), Kept(x), x.mod = Top.mod, x.job = Top.job
    PROVE  /\ IInv'
           /\ Len(vms') = Len(vms) /\ vms'[Len(vms)] = x /\ \A i \in 1..Len(vms) - 1 : vms'[i] = vms[i]
<1>1. vms \in Seq(Range(vms)) /\ Len(vms) \in Nat /\ Len(vms) > 0 /\ Len(vms) <= MaxDepth /\ MaxDepth \in Nat /\ DOMAIN vms = 1..Len(vms)
  BY TopIs DEF IInv
<1>2. /\ vms' \in Seq(Range(vms')) /\ Len(vms') = Len(vms)
      /\ vms'[Len(vms)] = x /\ \A i \in 1..Len(vms) - 1 : vms'[i] = vms[i]
  <2>1. vms' = Swapped(vms, x)
    BY DEF With, Below, ButLast, Swapped
  <2> QED
    BY <1>1, <2>1, Replaced
<1>3. DOMAIN vms' = 1..Len(vms)
  BY <1>2
<1>4. ASSUME NEW i \in DOMAIN vms'
      PROVE  VMRecord(vms[i])' /\ Kept(vms[i])' /\ vms'[i].job = vms[i].job /\ vms'[i].mod = vms[i].mod
  <2>0. project' = project
    BY DEF Around
  <2>1. CASE i = Len(vms)
    <3>1. vms'[i] = x /\ VMRecord(x) /\ Kept(x) /\ x.job = vms[i].job /\ x.mod = vms[i].mod
      BY <1>2, <2>1 DEF Top
    <3>2. VMRecord(vms[i])' /\ Kept(vms[i])'
      BY ONLY <2>0, <3>1 DEF VMRecord, Kept, Modules, ImportsOf, Names, Defines
    <3> QED
      BY ONLY <3>1, <3>2
  <2>2. CASE i # Len(vms)
    <3>1. vms'[i] = vms[i] /\ VMRecord(vms[i]) /\ Kept(vms[i])
      BY <1>1, <1>2, <1>3, <2>2 DEF IInv, TypeOK
    <3>2. VMRecord(vms[i])' /\ Kept(vms[i])'
      BY ONLY <2>0, <3>1 DEF VMRecord, Kept, Modules, ImportsOf, Names, Defines
    <3> QED
      BY ONLY <3>1, <3>2
  <2> QED
    BY <2>1, <2>2
<1>5. TypeOK'
  BY <1>1, <1>2, <1>3, <1>4, ImportsAssumption DEF IInv, TypeOK, Around, Modules
<1>6. Links'
  <2> SUFFICES ASSUME NEW i \in 2..Len(vms') PROVE Serves(vms[i], vms[i - 1])'
    BY DEF Links
  <2>1. Serves(vms[i], vms[i - 1]) /\ vms'[i - 1] = vms[i - 1]
    BY <1>1, <1>2 DEF IInv, Links
  <2>2. vms'[i].job = vms[i].job /\ vms'[i].mod = vms[i].mod
    BY <1>1, <1>2, <1>3, <1>4
  <2> QED
    BY <2>1, <2>2 DEF Serves, Around, Defines
<1> QED
  BY <1>2, <1>4, <1>5, <1>6 DEF IInv

LEMMA EnterStep ==
    ASSUME IInv, Around, NEW x, vms' = Append(vms, x), Len(vms) < MaxDepth,
           VMRecord(x), Kept(x), x.job # "run", Serves(x, Top)
    PROVE  /\ IInv'
           /\ Len(vms') = Len(vms) + 1 /\ vms'[Len(vms) + 1] = x /\ \A i \in 1..Len(vms) : vms'[i] = vms[i]
<1>1. vms \in Seq(Range(vms)) /\ Len(vms) \in Nat /\ Len(vms) > 0 /\ Len(vms) <= MaxDepth /\ MaxDepth \in Nat /\ DOMAIN vms = 1..Len(vms)
  BY TopIs DEF IInv
<1>2. /\ vms' \in Seq(Range(vms')) /\ Len(vms') = Len(vms) + 1
      /\ vms'[Len(vms) + 1] = x /\ \A i \in 1..Len(vms) : vms'[i] = vms[i]
  BY <1>1, Grown
<1>3. DOMAIN vms' = 1..Len(vms) + 1
  BY <1>2
<1>4. ASSUME NEW i \in DOMAIN vms'
      PROVE  VMRecord(vms[i])' /\ Kept(vms[i])' /\ (vms'[i].job = "run" <=> i = 1)
  <2>0. project' = project
    BY DEF Around
  <2>1. CASE i = Len(vms) + 1
    <3>1. vms'[i] = x /\ VMRecord(x) /\ Kept(x) /\ x.job # "run" /\ i # 1
      BY <1>1, <1>2, <2>1
    <3> QED
      BY ONLY <2>0, <3>1 DEF VMRecord, Kept, Modules, ImportsOf, Names, Defines
  <2>2. CASE i # Len(vms) + 1
    <3>1. i \in 1..Len(vms) /\ i \in DOMAIN vms /\ vms'[i] = vms[i]
      BY <1>1, <1>2, <1>3, <2>2
    <3>2. VMRecord(vms[i]) /\ Kept(vms[i]) /\ (vms[i].job = "run" <=> i = 1)
      BY <3>1 DEF IInv, TypeOK
    <3>3. (VMRecord(vms[i]) /\ Kept(vms[i]))'
      BY ONLY <2>0, <3>1, <3>2 DEF VMRecord, Kept, Modules, ImportsOf, Names, Defines
    <3> QED
      BY ONLY <3>1, <3>2, <3>3
  <2> QED
    BY <2>1, <2>2
<1>5. TypeOK'
  BY <1>1, <1>2, <1>3, <1>4, ImportsAssumption DEF IInv, TypeOK, Around, Modules
<1>6. Links'
  <2> SUFFICES ASSUME NEW i \in 2..Len(vms') PROVE Serves(vms[i], vms[i - 1])'
    BY DEF Links
  <2>1. CASE i = Len(vms) + 1
    <3>1. i - 1 = Len(vms) /\ vms'[i] = x
      BY <1>1, <1>2, <2>1
    <3>2. vms'[i - 1] = Top
      BY <1>1, <1>2, <3>1 DEF Top
    <3> QED
      BY <3>1, <3>2 DEF Serves, Around, Defines
  <2>2. CASE i # Len(vms) + 1
    <3>1. Serves(vms[i], vms[i - 1]) /\ vms'[i - 1] = vms[i - 1] /\ vms'[i] = vms[i]
      BY <1>1, <1>2, <2>2 DEF IInv, Links
    <3> QED
      BY <3>1 DEF Serves, Around, Defines
  <2> QED
    BY <2>1, <2>2
<1> QED
  BY <1>2, <1>4, <1>5, <1>6 DEF IInv

LEMMA LeaveShape ==
    ASSUME TypeOK, Len(vms) > 1, NEW x, vms' = Append(SubSeq(Below, 1, Len(Below) - 1), x)
    PROVE  /\ vms' \in Seq(Range(vms')) /\ Len(vms') = Len(vms) - 1 /\ Below[Len(Below)] = vms[Len(vms) - 1]
           /\ vms'[Len(vms) - 1] = x /\ \A i \in 1..Len(vms) - 2 : vms'[i] = vms[i]
<1>1. vms \in Seq(Range(vms))
  BY TopIs
<1>2. vms' = Swapped(ButLast(vms), x) /\ Below = ButLast(vms)
  BY DEF Below, ButLast, Swapped
<1>3. Below[Len(Below)] = vms[Len(vms) - 1]
  BY <1>1, <1>2, Cut
<1> DEFINE t == Swapped(ButLast(vms), x)
<1>4. /\ t \in Seq(Range(t)) /\ Len(t) = Len(vms) - 1
      /\ t[Len(vms) - 1] = x /\ \A i \in 1..Len(vms) - 2 : t[i] = vms[i]
  BY <1>1, Dropped
<1>5. vms' = t
  BY <1>2
<1> HIDE DEF t
<1> QED
  BY <1>3, <1>4, <1>5

LEMMA LeaveStep ==
    ASSUME IInv, Around, Len(vms) > 1, NEW x,
           vms' \in Seq(Range(vms')), Len(vms') = Len(vms) - 1,
           vms'[Len(vms) - 1] = x, \A i \in 1..Len(vms) - 2 : vms'[i] = vms[i],
           VMRecord(x), Kept(x), x.mod = vms[Len(vms) - 1].mod, x.job = vms[Len(vms) - 1].job
    PROVE  IInv'
<1>1. vms \in Seq(Range(vms)) /\ Len(vms) \in Nat /\ Len(vms) <= MaxDepth /\ MaxDepth \in Nat /\ DOMAIN vms = 1..Len(vms)
  BY TopIs DEF IInv
<1>2. /\ vms' \in Seq(Range(vms')) /\ Len(vms') = Len(vms) - 1
      /\ vms'[Len(vms) - 1] = x /\ \A i \in 1..Len(vms) - 2 : vms'[i] = vms[i]
  OBVIOUS
<1>3. DOMAIN vms' = 1..Len(vms) - 1
  BY <1>2
<1>4. ASSUME NEW i \in DOMAIN vms'
      PROVE  VMRecord(vms[i])' /\ Kept(vms[i])' /\ vms'[i].job = vms[i].job /\ vms'[i].mod = vms[i].mod
  <2>1. CASE i = Len(vms) - 1
    <3>1. vms'[i] = x /\ VMRecord(x) /\ Kept(x) /\ x.job = vms[i].job /\ x.mod = vms[i].mod
      BY <1>2, <2>1
    <3>2. project' = project
      BY DEF Around
    <3>3. VMRecord(vms[i])' /\ Kept(vms[i])'
      BY ONLY <3>1, <3>2 DEF VMRecord, Kept, Modules, ImportsOf, Names, Defines
    <3> QED
      BY ONLY <3>1, <3>3
  <2>2. CASE i # Len(vms) - 1
    <3>0. i \in 1..Len(vms) - 2 /\ i \in DOMAIN vms
      BY <1>1, <1>3, <2>2
    <3>1. vms'[i] = vms[i] /\ VMRecord(vms[i]) /\ Kept(vms[i])
      BY <1>2, <3>0 DEF IInv, TypeOK
    <3>2. project' = project
      BY DEF Around
    <3>3. VMRecord(vms[i])' /\ Kept(vms[i])'
      BY ONLY <3>1, <3>2 DEF VMRecord, Kept, Modules, ImportsOf, Names, Defines
    <3> QED
      BY ONLY <3>1, <3>3
  <2> QED
    BY <2>1, <2>2
<1>5. TypeOK'
  <2>1. Len(vms') \in 1..MaxDepth /\ \A i \in DOMAIN vms' : vms[i].job = "run" <=> i = 1
    BY <1>1, <1>2, <1>3 DEF IInv, TypeOK
  <2>2. project' \in Projects /\ Modules' = Modules
    BY DEF IInv, TypeOK, Around, Modules
  <2> QED
    BY <1>2, <1>4, <2>1, <2>2 DEF TypeOK, Around
<1>6. Links'
  <2> SUFFICES ASSUME NEW i \in 2..Len(vms') PROVE Serves(vms[i], vms[i - 1])'
    BY DEF Links
  <2>1. Serves(vms[i], vms[i - 1]) /\ vms'[i - 1] = vms[i - 1]
    BY <1>1, <1>2 DEF IInv, Links
  <2>2. vms'[i].job = vms[i].job /\ vms'[i].mod = vms[i].mod
    BY <1>1, <1>2, <1>3, <1>4
  <2> QED
    BY <2>1, <2>2 DEF Serves, Around, Defines
<1> QED
  BY <1>4, <1>5, <1>6 DEF IInv

(***************************************************************************)
(* Binding an import                                                       *)
(***************************************************************************)

Meant(vm, exports) ==
    [f \in Head(vm.pending).names |-> IF f \in DOMAIN exports THEN exports[f] ELSE Head(vm.pending).from]

LEMMA PendingIs ==
    ASSUME project \in Projects, NEW vm, VMRecord(vm), vm.pending # <<>>
    PROVE  /\ Head(vm.pending) \in ImportsOf(vm.mod) /\ Head(vm.pending).from \in Modules
           /\ Tail(vm.pending) \in Seq(ImportsOf(vm.mod))
           /\ Range(vm.pending) \subseteq Range(Tail(vm.pending)) \cup {Head(vm.pending)}
<1>1. vm.mod \in Modules /\ vm.pending \in Seq(ImportsOf(vm.mod))
  BY DEF VMRecord
<1>2. Head(vm.pending) \in ImportsOf(vm.mod) /\ Tail(vm.pending) \in Seq(ImportsOf(vm.mod))
  <2> DEFINE s == vm.pending
             S == ImportsOf(vm.mod)
  <2>1. s \in Seq(S) /\ s # <<>>
    BY <1>1
  <2> HIDE DEF s, S
  <2>2. Head(s) \in S /\ Tail(s) \in Seq(S)
    BY <2>1
  <2> QED
    BY <2>2 DEF s, S
<1>3. Range(vm.pending) \subseteq Range(Tail(vm.pending)) \cup {Head(vm.pending)}
  <2> SUFFICES ASSUME NEW i \in DOMAIN vm.pending, i # 1
               PROVE  vm.pending[i] \in Range(Tail(vm.pending))
    BY <1>1 DEF Range
  <2>1. i - 1 \in DOMAIN Tail(vm.pending) /\ Tail(vm.pending)[i - 1] = vm.pending[i]
    BY <1>1
  <2> QED
    BY <2>1 DEF Range
<1> QED
  BY <1>1, <1>2, <1>3, Shape

LEMMA BindIs ==
    ASSUME project \in Projects, NEW vm, VMRecord(vm), vm.pending # <<>>,
           NEW exports, Range(exports) \subseteq Modules
    PROVE  LET b == Bind(vm, Head(vm.pending), exports)
           IN  /\ VMRecord(b) /\ b.mod = vm.mod /\ b.job = vm.job /\ b.ready = vm.ready
               /\ b.cache = vm.cache /\ b.code = vm.code /\ b.pending = Tail(vm.pending)
               /\ b.globals = Override(vm.globals, Meant(vm, exports))
<1> DEFINE b == Bind(vm, Head(vm.pending), exports)
           g == Override(vm.globals, Meant(vm, exports))
<1>1. b = [vm EXCEPT !.pending = Tail(vm.pending), !.globals = g]
  BY DEF Bind, Meant
<1>2. Range(Meant(vm, exports)) \subseteq Modules
  BY PendingIs DEF Meant, Range
<1>3. Range(g) \subseteq Modules
  BY <1>2, OverrideIs DEF VMRecord
<1>4. Tail(vm.pending) \in Seq(ImportsOf(vm.mod))
  BY PendingIs
<1> HIDE DEF g
<1>5. /\ b.mod = vm.mod /\ b.job = vm.job /\ b.ready = vm.ready
      /\ b.cache = vm.cache /\ b.code = vm.code /\ b.pending = Tail(vm.pending) /\ b.globals = g
  BY <1>1 DEF VMRecord
<1>6. VMRecord(b)
  BY <1>1, <1>3, <1>4, <1>5 DEF VMRecord
<1> QED
  BY <1>5, <1>6 DEF g

LEMMA BindKept ==
    ASSUME project \in Projects, NEW vm, VMRecord(vm), Kept(vm), vm.pending # <<>>,
           NEW exports, Range(exports) \subseteq Modules, Head(vm.pending).from \in DOMAIN vm.cache
    PROVE  Kept(Bind(vm, Head(vm.pending), exports))
<1> DEFINE b == Bind(vm, Head(vm.pending), exports)
<1>1. b.mod = vm.mod /\ b.ready = vm.ready /\ b.cache = vm.cache /\ b.pending = Tail(vm.pending)
  BY BindIs
<1>2. Range(vm.pending) \subseteq Range(Tail(vm.pending)) \cup {Head(vm.pending)}
  BY PendingIs
<1> HIDE DEF b
<1>3. Kept(b)
  BY <1>1, <1>2 DEF Kept
<1> QED
  BY <1>3 DEF b

Cached(vm, m, exports) == [vm EXCEPT !.cache = Override(@, [n \in {m} |-> exports])]

LEMMA CachedIs ==
    ASSUME project \in Projects, NEW vm, VMRecord(vm), NEW m \in Modules,
           NEW exports, Range(exports) \subseteq Modules
    PROVE  LET c == Cached(vm, m, exports)
           IN  /\ VMRecord(c) /\ c.mod = vm.mod /\ c.job = vm.job /\ c.ready = vm.ready
               /\ c.globals = vm.globals /\ c.code = vm.code /\ c.pending = vm.pending
               /\ DOMAIN c.cache = DOMAIN vm.cache \cup {m} /\ c.cache[m] = exports
               /\ \A n \in DOMAIN vm.cache \ {m} : c.cache[n] = vm.cache[n]
<1> DEFINE c == Cached(vm, m, exports)
           h == [n \in {m} |-> exports]
           k == Override(vm.cache, h)
<1>1. c = [vm EXCEPT !.cache = k]
  BY DEF Cached
<1>2. /\ DOMAIN k = DOMAIN vm.cache \cup {m} /\ k[m] = exports
      /\ \A n \in DOMAIN vm.cache \ {m} : k[n] = vm.cache[n]
  <2>1. DOMAIN h = {m} /\ h[m] = exports
    OBVIOUS
  <2> HIDE DEF h
  <2> QED
    BY <2>1, OverrideIs
<1> HIDE DEF k
<1>3. /\ c.mod = vm.mod /\ c.job = vm.job /\ c.ready = vm.ready
      /\ c.globals = vm.globals /\ c.code = vm.code /\ c.pending = vm.pending /\ c.cache = k
  BY <1>1 DEF VMRecord
<1>4. VMRecord(c)
  BY <1>1, <1>2, <1>3 DEF VMRecord
<1> QED
  BY <1>2, <1>3, <1>4

(***************************************************************************)
(* IInv is kept by every step                                              *)
(***************************************************************************)

LEMMA InitIInv == Init => IInv
<1> SUFFICES ASSUME Init PROVE IInv
  OBVIOUS
<1> DEFINE vm == NewVM(Root, "run", project.top[Root])
<1>1. project \in Projects /\ Root \in Modules /\ project.top[Root] \in Seq(Names)
  BY Shape DEF Init
<1>2. VMRecord(vm) /\ Kept(vm) /\ vm.job = "run"
  BY <1>1, NewVMIs
<1>3. vms = <<vm>> /\ status = "running" /\ reads \in [Modules -> Nat]
  BY DEF Init
<1> HIDE DEF vm
<1>4. vms \in Seq({vm}) /\ Len(vms) = 1 /\ DOMAIN vms = {1} /\ vms[1] = vm
  BY <1>3
<1>5. vms \in Seq(Range(vms))
  BY <1>4, OfItsRange
<1>6. 1 \in 1..MaxDepth
  BY ImportsAssumption
<1>7. TypeOK
  BY <1>1, <1>2, <1>3, <1>4, <1>5, <1>6 DEF TypeOK
<1>8. Links
  BY <1>4 DEF Links
<1> QED
  BY <1>2, <1>4, <1>7, <1>8 DEF IInv

LEMMA SameStep == ASSUME IInv, Around, vms' = vms PROVE IInv'
<1>1. TypeOK'
  <2>1. ASSUME NEW i \in DOMAIN vms PROVE VMRecord(vms[i])'
    <3>1. VMRecord(vms[i]) /\ vms'[i] = vms[i]
      BY DEF IInv, TypeOK
    <3> QED
      BY <3>1 DEF Around, VMRecord, Modules, ImportsOf, Names, Defines
  <2>2. project' \in Projects /\ Modules' = Modules
    BY DEF IInv, TypeOK, Around, Modules
  <2> QED
    BY <2>1, <2>2 DEF IInv, TypeOK, Around
<1>2. Links' /\ \A i \in DOMAIN vms' : Kept(vms[i])'
  BY DEF IInv, Links, Serves, Kept, Around, ImportsOf, Defines
<1> QED
  BY <1>1, <1>2 DEF IInv

\* what is known of the VM on top before a step
LEMMA TopKnown ==
    ASSUME IInv
    PROVE  /\ project \in Projects /\ VMRecord(Top) /\ Kept(Top) /\ Top.mod \in Modules
           /\ Top.pending \in Seq(ImportsOf(Top.mod)) /\ Top.code \in Seq(Names)
           /\ Len(vms) \in Nat /\ Len(vms) > 0 /\ Top = vms[Len(vms)]
           /\ status \in {"running", "done", "error", "overflow"} /\ reads \in [Modules -> Nat]
<1>1. Len(vms) \in DOMAIN vms /\ VMRecord(Top) /\ Len(vms) \in Nat /\ Len(vms) > 0
  BY TopIs DEF IInv
<1>2. Kept(Top)
  BY <1>1 DEF IInv, Top
<1>3. Top.mod \in Modules /\ Top.pending \in Seq(ImportsOf(Top.mod)) /\ Top.code \in Seq(Names)
  BY <1>1 DEF VMRecord
<1> QED
  BY <1>1, <1>2, <1>3 DEF IInv, TypeOK, Top

LEMMA ImportCachedStep ==
    ASSUME IInv, ImportCached
    PROVE  /\ IInv' /\ Around /\ Top.pending # <<>> /\ Head(Top.pending).from \in DOMAIN Top.cache
           /\ Len(vms') = Len(vms) /\ \A i \in 1..Len(vms) - 1 : vms'[i] = vms[i]
           /\ vms'[Len(vms)] = Bind(Top, Head(Top.pending), Top.cache[Head(Top.pending).from])
<1> DEFINE exports == Top.cache[Head(Top.pending).from]
           x == Bind(Top, Head(Top.pending), exports)
<1>1. /\ Top.pending # <<>> /\ Head(Top.pending).from \in DOMAIN Top.cache
      /\ vms' = With(x) /\ UNCHANGED <<project, status, reads>>
  BY DEF ImportCached
<1>2. Around
  BY <1>1, TopKnown DEF Around, IInv, TypeOK
<1>3. project \in Projects /\ VMRecord(Top) /\ Kept(Top)
  BY TopKnown
<1>4. Range(exports) \subseteq Modules
  BY <1>1, <1>3 DEF VMRecord
<1> HIDE DEF exports
<1>5. VMRecord(x) /\ x.mod = Top.mod /\ x.job = Top.job
  BY <1>1, <1>3, <1>4, BindIs
<1>6. Kept(x)
  BY <1>1, <1>3, <1>4, BindKept
<1> HIDE DEF x
<1>7. /\ IInv' /\ Len(vms') = Len(vms) /\ vms'[Len(vms)] = x
      /\ \A i \in 1..Len(vms) - 1 : vms'[i] = vms[i]
  BY <1>1, <1>2, <1>5, <1>6, RewriteStep
<1> QED
  BY <1>1, <1>2, <1>7 DEF x, exports

\* entering a VM, or finding no room for it
Entered(x) == \/ /\ Len(vms') = Len(vms) + 1 /\ vms'[Len(vms) + 1] = x
                 /\ \A i \in 1..Len(vms) : vms'[i] = vms[i]
              \/ vms' = vms

LEMMA EnterNew ==
    ASSUME IInv, Around, NEW m \in Modules, NEW job \in {"load", "call"}, NEW code \in Seq(Names),
           Enter(NewVM(m, job, code)), Serves(NewVM(m, job, code), Top)
    PROVE  IInv' /\ Entered(NewVM(m, job, code))
<1> DEFINE x == NewVM(m, job, code)
<1>1. VMRecord(x) /\ Kept(x) /\ x.job # "run"
  BY NewVMIs, TopKnown
<1>2. CASE Len(vms) < MaxDepth
  <2>1. vms' = Append(vms, x)
    BY <1>2 DEF Enter
  <2> HIDE DEF x
  <2>2. /\ IInv' /\ Len(vms') = Len(vms) + 1 /\ vms'[Len(vms) + 1] = x
        /\ \A i \in 1..Len(vms) : vms'[i] = vms[i]
    <3>1. Serves(x, Top)
      BY DEF x
    <3> QED
      BY <1>1, <1>2, <2>1, <3>1, EnterStep
  <2> QED
    BY <2>2 DEF Entered, x
<1>3. CASE ~(Len(vms) < MaxDepth)
  <2>1. vms' = vms
    BY <1>3 DEF Enter
  <2> QED
    BY <2>1, SameStep DEF Entered
<1> QED
  BY <1>2, <1>3

LEMMA ImportReadStep ==
    ASSUME IInv, ImportRead
    PROVE  LET m == Head(Top.pending).from
           IN  /\ IInv' /\ Around /\ Top.pending # <<>> /\ m \in Modules
               /\ Entered(NewVM(m, "load", project.top[m]))
<1> DEFINE m == Head(Top.pending).from
           x == NewVM(m, "load", project.top[m])
<1>1. /\ Top.pending # <<>> /\ reads' = [reads EXCEPT ![m] = @ + 1]
      /\ Enter(x) /\ UNCHANGED project
  BY DEF ImportRead
<1>2. m \in Modules /\ project.top[m] \in Seq(Names)
  BY <1>1, TopKnown, PendingIs, Shape
<1>3. Around
  BY <1>1, <1>2, TopKnown DEF Around, Enter
<1>4. Serves(x, Top)
  BY <1>1 DEF Serves, NewVM
<1> HIDE DEF m
<1>5. IInv' /\ Entered(x)
  BY <1>1, <1>2, <1>3, <1>4, EnterNew
<1> QED
  BY <1>1, <1>2, <1>3, <1>5 DEF m

LEMMA ReadyStep ==
    ASSUME IInv, Ready
    PROVE  LET x == [Top EXCEPT !.ready = TRUE, !.globals = Override(@, [f \in Defines(Top.mod) |-> Top.mod])]
           IN  /\ IInv' /\ Around /\ Top.pending = <<>> /\ Len(vms') = Len(vms) /\ vms'[Len(vms)] = x
               /\ \A i \in 1..Len(vms) - 1 : vms'[i] = vms[i]
<1> DEFINE own == [f \in Defines(Top.mod) |-> Top.mod]
           g == Override(Top.globals, own)
           x == [Top EXCEPT !.ready = TRUE, !.globals = g]
<1>1. Top.pending = <<>> /\ vms' = With(x) /\ UNCHANGED <<project, status, reads>>
  BY DEF Ready
<1>2. Around /\ VMRecord(Top) /\ Kept(Top)
  BY <1>1, TopKnown DEF Around
<1>3. Range(g) \subseteq Modules
  <2>1. Range(own) \subseteq Modules
    BY TopKnown DEF Range
  <2> HIDE DEF own
  <2> QED
    BY <1>2, <2>1, OverrideIs DEF VMRecord
<1> HIDE DEF g
<1>4. /\ x.mod = Top.mod /\ x.pending = Top.pending /\ x.cache = Top.cache /\ x.globals = g
      /\ x.job = Top.job /\ x.ready = TRUE /\ x.code = Top.code
  BY <1>2 DEF VMRecord
<1>5. VMRecord(x)
  BY <1>2, <1>3, <1>4 DEF VMRecord
<1>6. Kept(x)
  BY <1>1, <1>2, <1>4 DEF Kept
<1> HIDE DEF x
<1>7. /\ IInv' /\ Len(vms') = Len(vms) /\ vms'[Len(vms)] = x
      /\ \A i \in 1..Len(vms) - 1 : vms'[i] = vms[i]
  BY <1>1, <1>2, <1>4, <1>5, <1>6, RewriteStep
<1> QED
  BY <1>1, <1>2, <1>7 DEF x, g

LEMMA CodeStays ==
    ASSUME project \in Projects, NEW vm, VMRecord(vm), Kept(vm), NEW code \in Seq(Names)
    PROVE  LET x == [vm EXCEPT !.code = code]
           IN  /\ VMRecord(x) /\ Kept(x) /\ x.mod = vm.mod /\ x.job = vm.job /\ x.ready = vm.ready
               /\ x.cache = vm.cache /\ x.globals = vm.globals /\ x.pending = vm.pending /\ x.code = code
<1> DEFINE x == [vm EXCEPT !.code = code]
<1>1. /\ x.mod = vm.mod /\ x.job = vm.job /\ x.ready = vm.ready
      /\ x.cache = vm.cache /\ x.globals = vm.globals /\ x.pending = vm.pending /\ x.code = code
  BY DEF VMRecord
<1>2. VMRecord(x)
  BY <1>1 DEF VMRecord
<1> QED
  BY <1>1, <1>2 DEF Kept

LEMMA AtCallIs ==
    ASSUME IInv, AtCall
    PROVE  Top.ready /\ Top.code # <<>> /\ Tail(Top.code) \in Seq(Names)
<1>1. Top.code \in Seq(Names) /\ Top.ready /\ Top.code # <<>>
  BY TopKnown DEF AtCall
<1>2. Tail(Top.code) \in Seq(Names)
  BY <1>1, HeadTailProperties
<1> QED
  BY <1>1, <1>2

LEMMA CallOwnStep ==
    ASSUME IInv, CallOwn
    PROVE  /\ IInv' /\ Around
           /\ \E code \in Seq(Names) :
                 /\ Len(vms') = Len(vms) /\ vms'[Len(vms)] = [Top EXCEPT !.code = code]
                 /\ \A i \in 1..Len(vms) - 1 : vms'[i] = vms[i]
<1> DEFINE code == project.body[Top.mod][Callee] \o Tail(Top.code)
           x == [Top EXCEPT !.code = code]
<1>1. /\ AtCall /\ Callee \in Defines(Top.mod) /\ vms' = With(x)
      /\ UNCHANGED <<project, status, reads>>
  BY DEF CallOwn
<1>2. Around /\ project \in Projects /\ VMRecord(Top) /\ Kept(Top) /\ Top.mod \in Modules
  BY <1>1, TopKnown DEF Around
<1>3. code \in Seq(Names)
  <2>1. project.body[Top.mod][Callee] \in Seq(Names)
    BY <1>1, <1>2, Shape
  <2>2. Tail(Top.code) \in Seq(Names)
    BY <1>1, AtCallIs
  <2> QED
    BY <2>1, <2>2
<1> HIDE DEF code
<1>4. VMRecord(x) /\ Kept(x) /\ x.mod = Top.mod /\ x.job = Top.job
  BY <1>2, <1>3, CodeStays
<1>5. /\ IInv' /\ Len(vms') = Len(vms) /\ vms'[Len(vms)] = x
      /\ \A i \in 1..Len(vms) - 1 : vms'[i] = vms[i]
  <2> HIDE DEF x
  <2> QED
    BY <1>1, <1>2, <1>4, RewriteStep
<1> QED
  BY <1>2, <1>3, <1>5

LEMMA CallImportedStep ==
    ASSUME IInv, CallImported
    PROVE  /\ IInv' /\ Around /\ UNCHANGED reads
           /\ \E m \in Modules, code \in Seq(Names) : m \in DOMAIN Top.cache /\ Entered(NewVM(m, "call", code))
<1>1. /\ AtCall /\ Callee \notin Defines(Top.mod) /\ UNCHANGED <<project, reads>>
  BY DEF CallImported
<1>2. PICK m \in Candidates : Enter(NewVM(m, "call", project.body[m][Callee]))
  BY DEF CallImported
<1>3. m \in DOMAIN Top.cache /\ m \in Modules /\ Callee \in Defines(m)
  BY TopKnown DEF Candidates, VMRecord
<1>4. project.body[m][Callee] \in Seq(Names)
  BY <1>3, TopKnown, Shape
<1>5. Around
  BY <1>1, <1>2, TopKnown DEF Around, Enter
<1>6. Serves(NewVM(m, "call", project.body[m][Callee]), Top)
  BY <1>1, <1>3, AtCallIs DEF Serves, NewVM, Callee
<1>7. IInv' /\ Entered(NewVM(m, "call", project.body[m][Callee]))
  BY <1>2, <1>3, <1>4, <1>5, <1>6, EnterNew
<1> QED
  BY <1>1, <1>3, <1>4, <1>5, <1>7

\* the VM below one that ends
LEMMA ParentIs ==
    ASSUME IInv, Top.job # "run"
    PROVE  /\ Len(vms) > 1 /\ Len(vms) - 1 \in DOMAIN vms
           /\ VMRecord(vms[Len(vms) - 1]) /\ Kept(vms[Len(vms) - 1])
           /\ Serves(Top, vms[Len(vms) - 1])
<1>1. vms \in Seq(Range(vms)) /\ Len(vms) \in Nat /\ Len(vms) > 0 /\ DOMAIN vms = 1..Len(vms) /\ Len(vms) \in DOMAIN vms
  BY TopIs DEF IInv
<1>2. Len(vms) # 1
  BY <1>1 DEF IInv, TypeOK, Top
<1>3. Len(vms) > 1 /\ Len(vms) - 1 \in DOMAIN vms /\ Len(vms) \in 2..Len(vms)
  BY <1>1, <1>2
<1> QED
  BY <1>3 DEF IInv, TypeOK, Links, Top

LEMMA LoadedStep ==
    ASSUME IInv, Loaded
    PROVE  LET vm == vms[Len(vms) - 1]
           IN  /\ IInv' /\ Around /\ Len(vms) > 1 /\ Len(vms') = Len(vms) - 1
               /\ vm.pending # <<>> /\ Head(vm.pending).from = Top.mod /\ Top.ready
               /\ vms'[Len(vms) - 1] = Bind(Cached(vm, Top.mod, Top.globals), Head(vm.pending), Top.globals)
               /\ \A i \in 1..Len(vms) - 2 : vms'[i] = vms[i]
<1> DEFINE vm == vms[Len(vms) - 1]
           c == Cached(vm, Top.mod, Top.globals)
           x == Bind(c, Head(vm.pending), Top.globals)
<1>1. /\ Top.ready /\ Top.job = "load" /\ UNCHANGED <<project, status, reads>>
  BY DEF Loaded, Finished
<1>2. Around /\ project \in Projects /\ VMRecord(Top) /\ Top.mod \in Modules
  BY <1>1, TopKnown DEF Around
<1>3. /\ Len(vms) > 1 /\ VMRecord(vm) /\ Kept(vm)
      /\ vm.pending # <<>> /\ Head(vm.pending).from = Top.mod
  BY <1>1, ParentIs DEF Serves
<1>4. TypeOK
  BY DEF IInv
<1>5. Below[Len(Below)] = vm
  BY <1>3, <1>4, Cut, TopIs DEF Below, ButLast
<1>6. vms' = Append(SubSeq(Below, 1, Len(Below) - 1), x)
  BY <1>5 DEF Loaded, Cached
<1>7. /\ vms' \in Seq(Range(vms')) /\ Len(vms') = Len(vms) - 1
      /\ vms'[Len(vms) - 1] = x /\ \A i \in 1..Len(vms) - 2 : vms'[i] = vms[i]
  <2> HIDE DEF x
  <2> QED
    BY <1>3, <1>4, <1>6, LeaveShape
<1>8. Range(Top.globals) \subseteq Modules
  BY <1>2 DEF VMRecord
<1> HIDE DEF vm
<1>9. /\ VMRecord(c) /\ c.mod = vm.mod /\ c.job = vm.job /\ c.ready = vm.ready /\ c.pending = vm.pending
      /\ DOMAIN c.cache = DOMAIN vm.cache \cup {Top.mod}
  BY <1>2, <1>3, <1>8, CachedIs
<1> HIDE DEF c
<1>10. Head(vm.pending) \in ImportsOf(vm.mod)
  BY <1>2, <1>3, PendingIs
<1>11. Kept(c)
  BY <1>3, <1>9, <1>10 DEF Kept
<1>12. VMRecord(x) /\ x.mod = vm.mod /\ x.job = vm.job /\ Kept(x)
  BY <1>2, <1>3, <1>8, <1>9, <1>11, BindIs, BindKept
<1> HIDE DEF x
<1>13. IInv'
  BY <1>2, <1>3, <1>7, <1>12, LeaveStep DEF vm
<1> QED
  BY <1>1, <1>2, <1>3, <1>7, <1>13 DEF x, c, vm

LEMMA ReturnedStep ==
    ASSUME IInv, Returned
    PROVE  /\ IInv' /\ Around /\ Len(vms) > 1 /\ Len(vms') = Len(vms) - 1
           /\ \A i \in 1..Len(vms) - 2 : vms'[i] = vms[i]
           /\ \E code \in Seq(Names) : vms'[Len(vms) - 1] = [vms[Len(vms) - 1] EXCEPT !.code = code]
<1> DEFINE vm == vms[Len(vms) - 1]
           x == [vm EXCEPT !.code = Tail(vm.code)]
<1>1. /\ Top.job = "call" /\ UNCHANGED <<project, status, reads>>
  BY DEF Returned
<1>2. Around /\ project \in Projects
  BY <1>1, TopKnown DEF Around
<1>3. Len(vms) > 1 /\ VMRecord(vm) /\ Kept(vm) /\ vm.code # <<>>
  BY <1>1, ParentIs DEF Serves
<1>4. TypeOK
  BY DEF IInv
<1>5. Below[Len(Below)] = vm
  BY <1>3, <1>4, Cut, TopIs DEF Below, ButLast
<1>6. vms' = Append(SubSeq(Below, 1, Len(Below) - 1), x)
  BY <1>5 DEF Returned
<1>7. /\ vms' \in Seq(Range(vms')) /\ Len(vms') = Len(vms) - 1
      /\ vms'[Len(vms) - 1] = x /\ \A i \in 1..Len(vms) - 2 : vms'[i] = vms[i]
  <2> HIDE DEF x
  <2> QED
    BY <1>3, <1>4, <1>6, LeaveShape
<1>8. Tail(vm.code) \in Seq(Names)
  <2>1. vm.code \in Seq(Names)
    BY <1>3 DEF VMRecord
  <2> QED
    BY <1>3, <2>1, HeadTailProperties
<1> HIDE DEF vm
<1>9. VMRecord(x) /\ Kept(x) /\ x.mod = vm.mod /\ x.job = vm.job
  BY <1>2, <1>3, <1>8, CodeStays
<1>10. IInv'
  <2> HIDE DEF x
  <2> QED
    BY <1>2, <1>3, <1>7, <1>9, LeaveStep DEF vm
<1> QED
  BY <1>2, <1>3, <1>7, <1>8, <1>10 DEF vm

\* the steps that leave the VMs alone
LEMMA RestStep ==
    ASSUME IInv, CallUndefined \/ Done \/ Ended \/ UNCHANGED vars
    PROVE  IInv' /\ UNCHANGED <<project, vms, reads>>
<1>1. Around /\ UNCHANGED <<project, vms, reads>>
  BY TopKnown DEF Around, CallUndefined, Done, Ended, vars
<1> QED
  BY <1>1, SameStep

LEMMA NextIInv == IInv /\ [Next]_vars => IInv'
BY ImportCachedStep, ImportReadStep, ReadyStep, CallOwnStep, CallImportedStep, LoadedStep,
   ReturnedStep, RestStep DEF Next

LEMMA Invariance == Spec => []IInv
BY InitIInv, NextIInv, PTL DEF Spec

\* The shape of the stack: no VM is entered beyond the room of the native
\* stack, and only the one at the bottom runs the program (vm.rs:1849).
THEOREM TypeCorrect == Spec => []TypeOK
<1>1. IInv => TypeOK
  BY DEF IInv
<1> QED
  BY <1>1, Invariance, PTL

\* A VM runs nothing before it has loaded each of its own imports, and what
\* another VM loaded does not leak into it (vm.rs:1008, 1849).
THEOREM LoadsItsOwn == Spec => []OwnImports
<1>1. IInv => OwnImports
  <2> SUFFICES ASSUME IInv, NEW i \in DOMAIN vms
               PROVE  /\ \A m \in DOMAIN vms[i].cache : \E imp \in ImportsOf(vms[i].mod) : imp.from = m
                      /\ vms[i].ready => \A imp \in ImportsOf(vms[i].mod) : imp.from \in DOMAIN vms[i].cache
    BY DEF OwnImports
  <2>1. Kept(vms[i])
    BY DEF IInv
  <2>2. Range(<<>>) = {}
    BY DEF Range
  <2> QED
    BY <2>1, <2>2 DEF Kept
<1> QED
  BY <1>1, Invariance, PTL

(***************************************************************************)
(* What the globals mean: BInv, where the imports are unambiguous          *)
(***************************************************************************)

LEMMA BoundStays == ASSUME Around, NEW i, Bound(vms'[i]) PROVE Bound(vms[i])'
BY DEF Around, Bound, Defines

LEMMA NewBound == ASSUME NEW m, NEW job, NEW code PROVE Bound(NewVM(m, job, code))
BY DEF Bound, NewVM

LEMMA CodeBound ==
    ASSUME NEW vm, VMRecord(vm), Bound(vm), NEW code PROVE Bound([vm EXCEPT !.code = code])
<1> DEFINE x == [vm EXCEPT !.code = code]
<1>1. x.mod = vm.mod /\ x.cache = vm.cache /\ x.globals = vm.globals /\ x.ready = vm.ready
  BY DEF VMRecord
<1> HIDE DEF x
<1>2. Bound(x)
  BY <1>1 DEF Bound
<1> QED
  BY <1>2 DEF x

\* exports that give every function of their module
Gives(exports, m) == \A f \in Defines(m) : f \in DOMAIN exports /\ exports[f] = m

LEMMA BindBound ==
    ASSUME project \in Projects, Unambiguous(project),
           NEW vm, VMRecord(vm), Kept(vm), Bound(vm), vm.pending # <<>>,
           NEW exports, Range(exports) \subseteq Modules, Gives(exports, Head(vm.pending).from),
           Head(vm.pending).from \in DOMAIN vm.cache
    PROVE  Bound(Bind(vm, Head(vm.pending), exports))
<1> DEFINE imp == Head(vm.pending)
           h == Meant(vm, exports)
           x == Bind(vm, imp, exports)
<1>1. /\ x.mod = vm.mod /\ x.ready = vm.ready /\ x.cache = vm.cache
      /\ x.globals = Override(vm.globals, h)
  BY BindIs
<1>2. ~vm.ready
  BY DEF Kept
<1>3. imp.names \subseteq Defines(imp.from)
  <2>1. imp \in ImportsOf(vm.mod) /\ vm.mod \in Modules
    BY PendingIs DEF VMRecord
  <2> QED
    BY <2>1 DEF Unambiguous, ImportsOf, Modules, Defines
<1>4. DOMAIN h = imp.names /\ \A f \in imp.names : h[f] = imp.from
  BY <1>3 DEF Meant, Gives
<1> HIDE DEF h, x
<1>5. /\ DOMAIN x.globals = DOMAIN vm.globals \cup imp.names
      /\ \A f \in imp.names : x.globals[f] = imp.from
      /\ \A f \in DOMAIN vm.globals \ imp.names : x.globals[f] = vm.globals[f]
  <2> DEFINE g == Override(vm.globals, h)
  <2>1. /\ DOMAIN g = DOMAIN vm.globals \cup DOMAIN h /\ \A f \in DOMAIN h : g[f] = h[f]
        /\ \A f \in DOMAIN vm.globals \ DOMAIN h : g[f] = vm.globals[f]
    BY ONLY OverrideIs
  <2> HIDE DEF g
  <2>2. x.globals = g
    BY <1>1 DEF g
  <2> QED
    BY <1>4, <2>1, <2>2
<1>6. ASSUME NEW f \in DOMAIN x.globals
      PROVE  /\ f \in Defines(x.globals[f])
             /\ x.globals[f] \in DOMAIN x.cache \/ x.globals[f] = x.mod
  BY <1>1, <1>3, <1>5 DEF Bound
<1>7. Bound(x)
  BY <1>1, <1>2, <1>6 DEF Bound
<1> QED
  BY <1>7 DEF x

LEMMA CachedBound ==
    ASSUME project \in Projects, NEW vm, VMRecord(vm), Bound(vm), NEW m \in Modules,
           NEW exports, Range(exports) \subseteq Modules, Gives(exports, m)
    PROVE  Bound(Cached(vm, m, exports))
<1> DEFINE c == Cached(vm, m, exports)
<1>1. /\ c.mod = vm.mod /\ c.ready = vm.ready /\ c.globals = vm.globals
      /\ DOMAIN c.cache = DOMAIN vm.cache \cup {m} /\ c.cache[m] = exports
      /\ \A n \in DOMAIN vm.cache \ {m} : c.cache[n] = vm.cache[n]
  BY CachedIs
<1> HIDE DEF c
<1>2. Bound(c)
  BY <1>1 DEF Bound, Gives
<1> QED
  BY <1>2 DEF c

LEMMA ReadyBound ==
    ASSUME NEW vm, VMRecord(vm), Bound(vm)
    PROVE  Bound([vm EXCEPT !.ready = TRUE, !.globals = Override(@, [f \in Defines(vm.mod) |-> vm.mod])])
<1> DEFINE h == [f \in Defines(vm.mod) |-> vm.mod]
           g == Override(vm.globals, h)
           x == [vm EXCEPT !.ready = TRUE, !.globals = g]
<1>1. DOMAIN h = Defines(vm.mod) /\ \A f \in Defines(vm.mod) : h[f] = vm.mod
  OBVIOUS
<1> HIDE DEF h
<1>2. /\ DOMAIN g = DOMAIN vm.globals \cup Defines(vm.mod)
      /\ \A f \in Defines(vm.mod) : g[f] = vm.mod
      /\ \A f \in DOMAIN vm.globals \ Defines(vm.mod) : g[f] = vm.globals[f]
  <2>1. /\ DOMAIN g = DOMAIN vm.globals \cup DOMAIN h /\ \A f \in DOMAIN h : g[f] = h[f]
        /\ \A f \in DOMAIN vm.globals \ DOMAIN h : g[f] = vm.globals[f]
    BY ONLY OverrideIs
  <2> HIDE DEF g
  <2> QED
    BY <1>1, <2>1
<1> HIDE DEF g
<1>3. x.mod = vm.mod /\ x.cache = vm.cache /\ x.globals = g /\ x.ready = TRUE
  BY DEF VMRecord
<1> HIDE DEF x
<1>4. Bound(x)
  BY <1>2, <1>3 DEF Bound
<1> QED
  BY <1>4 DEF x, g, h

LEMMA NextBInv == ASSUME IInv, BInv, Unambiguous(project), [Next]_vars PROVE BInv'
<1>1. /\ project \in Projects /\ DOMAIN vms = 1..Len(vms) /\ Len(vms) \in Nat /\ Len(vms) > 0
      /\ VMRecord(Top) /\ Kept(Top) /\ Bound(Top)
  BY TopKnown, TopIs DEF IInv, BInv
<1>2. IInv' /\ DOMAIN vms' = 1..Len(vms')
  <2>1. IInv'
    BY NextIInv
  <2>2. vms' \in Seq(Range(vms'))
    BY <2>1 DEF IInv, TypeOK
  <2> QED
    BY <2>1, <2>2
<1>3. ASSUME Around, \A i \in DOMAIN vms' : Bound(vms'[i]) PROVE BInv'
  BY <1>3, BoundStays DEF BInv
<1>4. CASE ImportCached
  <2> DEFINE m == Head(Top.pending).from
             x == Bind(Top, Head(Top.pending), Top.cache[m])
  <2>1. /\ Around /\ Top.pending # <<>> /\ m \in DOMAIN Top.cache /\ Len(vms') = Len(vms)
        /\ vms'[Len(vms)] = x /\ \A i \in 1..Len(vms) - 1 : vms'[i] = vms[i]
    BY <1>4, ImportCachedStep
  <2>2. Range(Top.cache[m]) \subseteq Modules /\ Gives(Top.cache[m], m)
    BY <1>1, <2>1 DEF VMRecord, Bound, Gives
  <2>3. Bound(x)
    BY <1>1, <2>1, <2>2, BindBound
  <2> HIDE DEF x
  <2> QED
    BY <1>1, <1>2, <1>3, <2>1, <2>3 DEF BInv
<1>5. ASSUME Around, NEW m, NEW job, NEW code, Entered(NewVM(m, job, code)) PROVE BInv'
  <2> DEFINE x == NewVM(m, job, code)
  <2>1. Bound(x)
    BY NewBound
  <2> HIDE DEF x
  <2>2. CASE vms' = vms
    BY <1>3, <1>5, <2>2 DEF BInv
  <2>3. CASE vms' # vms
    <3>1. Len(vms') = Len(vms) + 1 /\ vms'[Len(vms) + 1] = x /\ \A i \in 1..Len(vms) : vms'[i] = vms[i]
      BY <1>5, <2>3 DEF Entered, x
    <3> QED
      BY <1>1, <1>2, <1>3, <1>5, <2>1, <3>1 DEF BInv
  <2> QED
    BY <2>2, <2>3
<1>6. CASE ImportRead
  BY <1>5, <1>6, ImportReadStep
<1>7. CASE Ready
  <2> DEFINE x == [Top EXCEPT !.ready = TRUE, !.globals = Override(@, [f \in Defines(Top.mod) |-> Top.mod])]
  <2>1. /\ Around /\ Len(vms') = Len(vms)
        /\ vms'[Len(vms)] = x /\ \A i \in 1..Len(vms) - 1 : vms'[i] = vms[i]
    BY <1>7, ReadyStep
  <2>2. Bound(x)
    BY <1>1, ReadyBound
  <2> HIDE DEF x
  <2> QED
    BY <1>1, <1>2, <1>3, <2>1, <2>2 DEF BInv
<1>8. CASE CallOwn
  <2>1. Around /\ Len(vms') = Len(vms) /\ \A i \in 1..Len(vms) - 1 : vms'[i] = vms[i]
    BY <1>8, CallOwnStep
  <2>2. PICK code \in Seq(Names) : vms'[Len(vms)] = [Top EXCEPT !.code = code]
    BY <1>8, CallOwnStep
  <2>3. Bound([Top EXCEPT !.code = code])
    BY <1>1, CodeBound
  <2>4. Bound(vms'[Len(vms)])
    BY <2>2, <2>3
  <2> QED
    BY <1>1, <1>2, <1>3, <2>1, <2>4 DEF BInv
<1>9. CASE CallImported
  BY <1>5, <1>9, CallImportedStep
<1>10. CASE Loaded
  <2> DEFINE vm == vms[Len(vms) - 1]
             c == Cached(vm, Top.mod, Top.globals)
             x == Bind(c, Head(vm.pending), Top.globals)
  <2>1. /\ Around /\ Len(vms) > 1 /\ Len(vms') = Len(vms) - 1
        /\ vm.pending # <<>> /\ Head(vm.pending).from = Top.mod /\ Top.ready
        /\ vms'[Len(vms) - 1] = x /\ \A i \in 1..Len(vms) - 2 : vms'[i] = vms[i]
    BY <1>10, LoadedStep
  <2>2. VMRecord(vm) /\ Kept(vm) /\ Bound(vm)
    BY <1>1, <2>1 DEF IInv, TypeOK, BInv
  <2>3. Range(Top.globals) \subseteq Modules /\ Top.mod \in Modules /\ Gives(Top.globals, Top.mod)
    BY <1>1, <2>1 DEF VMRecord, Bound, Gives
  <2> HIDE DEF vm
  <2>4. /\ VMRecord(c) /\ c.mod = vm.mod /\ c.ready = vm.ready /\ c.pending = vm.pending
        /\ DOMAIN c.cache = DOMAIN vm.cache \cup {Top.mod}
    BY <1>1, <2>2, <2>3, CachedIs
  <2>5. Bound(c)
    BY <1>1, <2>2, <2>3, CachedBound
  <2>6. Kept(c)
    <3>1. Head(vm.pending) \in ImportsOf(vm.mod)
      BY <1>1, <2>1, <2>2, PendingIs
    <3> QED
      BY <2>1, <2>2, <2>4, <3>1 DEF Kept
  <2> HIDE DEF c
  <2>7. Bound(x)
    BY <1>1, <2>1, <2>3, <2>4, <2>5, <2>6, BindBound
  <2> HIDE DEF x
  <2> QED
    BY <1>1, <1>2, <1>3, <2>1, <2>7 DEF BInv
<1>11. CASE Returned
  <2>1. Around /\ Len(vms) > 1 /\ Len(vms') = Len(vms) - 1 /\ \A i \in 1..Len(vms) - 2 : vms'[i] = vms[i]
    BY <1>11, ReturnedStep
  <2>2. VMRecord(vms[Len(vms) - 1]) /\ Bound(vms[Len(vms) - 1])
    BY <1>1, <2>1 DEF IInv, TypeOK, BInv
  <2> DEFINE vm == vms[Len(vms) - 1]
  <2>3. PICK code \in Seq(Names) : vms'[Len(vms) - 1] = [vm EXCEPT !.code = code]
    BY <1>11, ReturnedStep
  <2>4. Bound([vm EXCEPT !.code = code])
    BY <2>2, CodeBound
  <2>5. Bound(vms'[Len(vms) - 1])
    BY <2>3, <2>4
  <2> QED
    BY <1>1, <1>2, <1>3, <2>1, <2>5 DEF BInv
<1>12. CASE CallUndefined \/ Done \/ Ended \/ UNCHANGED vars
  <2>1. UNCHANGED <<project, vms>>
    BY <1>12, RestStep
  <2> QED
    BY <2>1 DEF BInv, Bound, Defines
<1> QED
  BY <1>4, <1>6, <1>7, <1>8, <1>9, <1>10, <1>11, <1>12 DEF Next

\* A call of a name that an import bound runs the function it was bound to,
\* though the caller looks for it again in a map without order, where no two
\* modules that one module imports define the same name (vm.rs:1879).
THEOREM CallsWhatWasBound == ASSUME \A p \in Projects : Unambiguous(p) PROVE Spec => []CalleeBound
<1> DEFINE Inv == IInv /\ BInv
<1>1. Init => Inv
  <2> SUFFICES ASSUME Init PROVE BInv
    BY InitIInv
  <2>1. vms = <<NewVM(Root, "run", project.top[Root])>>
    BY DEF Init
  <2> QED
    BY <2>1, NewBound DEF BInv
<1>2. Inv /\ [Next]_vars => Inv'
  BY NextIInv, NextBInv, TopKnown
<1>3. Inv => CalleeBound
  <2> SUFFICES ASSUME Inv, NEW i \in 2..Len(vms), vms[i].job = "call",
                      Head(vms[i - 1].code) \in DOMAIN vms[i - 1].globals
               PROVE  vms[i - 1].globals[Head(vms[i - 1].code)] = vms[i].mod
    BY DEF CalleeBound
  <2> DEFINE parent == vms[i - 1]
             called == Head(parent.code)
  <2>1. vms \in Seq(Range(vms)) /\ Len(vms) \in Nat /\ DOMAIN vms = 1..Len(vms)
    BY TopIs DEF IInv
  <2>2. i - 1 \in DOMAIN vms
    BY <2>1
  <2>3. project \in Projects /\ VMRecord(parent) /\ Kept(parent) /\ Bound(parent) /\ Serves(vms[i], parent)
    BY <2>2 DEF IInv, TypeOK, BInv, Links
  <2>4. /\ called \notin Defines(parent.mod) /\ called \in Defines(vms[i].mod)
        /\ vms[i].mod \in DOMAIN parent.cache
    BY <2>3 DEF Serves
  <2> DEFINE meant == parent.globals[called]
  <2>5. called \in Defines(meant) /\ meant \in DOMAIN parent.cache
    BY <2>3, <2>4 DEF Bound
  <2>6. PICK one \in ImportsOf(parent.mod) : one.from = meant
    BY <2>3, <2>5 DEF Kept
  <2>7. PICK other \in ImportsOf(parent.mod) : other.from = vms[i].mod
    BY <2>3, <2>4 DEF Kept
  <2>8. parent.mod \in Modules /\ Unambiguous(project)
    BY <2>3 DEF VMRecord
  <2> DEFINE D(m) == DOMAIN project.body[m]
  <2> HIDE DEF parent, called, meant
  <2>9. \A imp, oth \in Range(project.imports[parent.mod]) : D(imp.from) \cap D(oth.from) # {} => imp.from = oth.from
    BY ONLY <2>8 DEF Unambiguous, Modules
  <2>10. called \in D(one.from) /\ called \in D(other.from)
    BY ONLY <2>4, <2>5, <2>6, <2>7 DEF Defines
  <2>11. one \in Range(project.imports[parent.mod]) /\ other \in Range(project.imports[parent.mod])
    BY ONLY <2>6, <2>7 DEF ImportsOf
  <2> HIDE DEF D
  <2>12. one.from = other.from
    BY ONLY <2>9, <2>10, <2>11
  <2>13. meant = vms[i].mod
    BY ONLY <2>6, <2>7, <2>12
  <2> QED
    BY ONLY <2>13 DEF meant, parent, called
<1> QED
  BY <1>1, <1>2, <1>3, PTL DEF Spec

(***************************************************************************)
(* Libraries that import nothing: FInv                                     *)
(***************************************************************************)

\* of such a project only the root has anything to load
LEMMA RootLoads ==
    ASSUME Flat, project \in Projects, NEW vm, VMRecord(vm), vm.pending # <<>>
    PROVE  vm.mod = Root
<1>1. Head(vm.pending) \in ImportsOf(vm.mod) /\ vm.mod \in Modules
  BY PendingIs DEF VMRecord
<1>2. Range(<<>>) = {}
  BY DEF Range
<1> QED
  BY <1>1, <1>2 DEF Flat, ImportsOf

\* and once it runs nothing is left to load
LEMMA NothingToLoad == ASSUME IInv, FInv, Flat, vms[1].ready PROVE Top.pending = <<>>
<1> SUFFICES ASSUME Top.pending # <<>> PROVE FALSE
  OBVIOUS
<1>1. Top.mod = Root /\ Len(vms) \in Nat /\ Len(vms) > 0 /\ Top = vms[Len(vms)]
  BY TopKnown, RootLoads
<1>2. Len(vms) = 1
  <2>1. \A i \in 2..Len(vms) : vms[i].mod # Root
    BY DEF FInv
  <2> DEFINE n == Len(vms)
  <2>2. n \notin 2..n /\ n \in Nat /\ n > 0
    BY <1>1, <2>1
  <2> HIDE DEF n
  <2>3. n = 1
    BY <2>2
  <2> QED
    BY <2>3 DEF n
<1> QED
  BY <1>1, <1>2, TopKnown DEF Kept

LEMMA NextFInv == ASSUME IInv, FInv, [Next]_vars PROVE FInv'
<1> SUFFICES ASSUME Flat'
             PROVE  /\ \A i \in DOMAIN vms' : Root \notin DOMAIN vms'[i].cache
                    /\ vms'[1].ready => \A i \in 2..Len(vms') : vms'[i].mod # Root
  BY DEF FInv
<1>1. Flat
  BY DEF Flat, Modules, Next, ImportCached, ImportRead, Ready, CallOwn, CallImported, CallUndefined,
        Loaded, Returned, Done, Ended, vars
<1>2. /\ project \in Projects /\ DOMAIN vms = 1..Len(vms) /\ Len(vms) \in Nat /\ Len(vms) > 0
      /\ VMRecord(Top) /\ Kept(Top) /\ Top = vms[Len(vms)] /\ Root \notin DOMAIN Top.cache
  BY <1>1, TopKnown, TopIs DEF IInv, FInv
<1>3. DOMAIN vms' = 1..Len(vms')
  <2>1. IInv'
    BY NextIInv
  <2>2. vms' \in Seq(Range(vms'))
    BY <2>1 DEF IInv, TypeOK
  <2> QED
    BY <2>2
<1>4. /\ \A i \in DOMAIN vms : Root \notin DOMAIN vms[i].cache
      /\ vms[1].ready => \A i \in 2..Len(vms) : vms[i].mod # Root
  BY <1>1 DEF FInv
\* the VM on top rewritten
<1>5. ASSUME NEW x, Len(vms') = Len(vms), vms'[Len(vms)] = x, \A i \in 1..Len(vms) - 1 : vms'[i] = vms[i],
             x.mod = Top.mod, x.cache = Top.cache
      PROVE  /\ \A i \in DOMAIN vms' : Root \notin DOMAIN vms'[i].cache
             /\ vms'[1].ready => \A i \in 2..Len(vms') : vms'[i].mod # Root
  <2>1. \A i \in DOMAIN vms' : vms'[i].mod = vms[i].mod /\ vms'[i].cache = vms[i].cache
    BY <1>2, <1>3, <1>5
  <2>2. CASE Len(vms) = 1
    BY <1>2, <1>3, <1>4, <1>5, <2>1, <2>2
  <2>3. CASE Len(vms) > 1
    <3>1. vms'[1] = vms[1]
      BY <1>2, <1>5, <2>3
    <3> QED
      BY <1>2, <1>3, <1>4, <1>5, <2>1, <3>1
  <2> QED
    BY <1>2, <2>2, <2>3
\* a VM entered
<1>6. ASSUME NEW m, NEW job, NEW code, Entered(NewVM(m, job, code)), vms[1].ready => m # Root
      PROVE  /\ \A i \in DOMAIN vms' : Root \notin DOMAIN vms'[i].cache
             /\ vms'[1].ready => \A i \in 2..Len(vms') : vms'[i].mod # Root
  <2> DEFINE x == NewVM(m, job, code)
  <2>1. x.mod = m /\ DOMAIN x.cache = {}
    BY DEF NewVM
  <2> HIDE DEF x
  <2>2. CASE vms' = vms
    BY <1>4, <2>2
  <2>3. CASE vms' # vms
    <3>1. Len(vms') = Len(vms) + 1 /\ vms'[Len(vms) + 1] = x /\ \A i \in 1..Len(vms) : vms'[i] = vms[i]
      BY <1>6, <2>3 DEF Entered, x
    <3> QED
      BY <1>2, <1>3, <1>4, <1>6, <2>1, <3>1
  <2> QED
    BY <2>2, <2>3
\* a VM left
<1>7. ASSUME NEW x, Len(vms) > 1, Len(vms') = Len(vms) - 1, vms'[Len(vms) - 1] = x,
             \A i \in 1..Len(vms) - 2 : vms'[i] = vms[i],
             x.mod = vms[Len(vms) - 1].mod, Root \notin DOMAIN x.cache
      PROVE  /\ \A i \in DOMAIN vms' : Root \notin DOMAIN vms'[i].cache
             /\ vms'[1].ready => \A i \in 2..Len(vms') : vms'[i].mod # Root
  <2>1. \A i \in DOMAIN vms' : vms'[i].mod = vms[i].mod /\ Root \notin DOMAIN vms'[i].cache
    BY <1>2, <1>3, <1>4, <1>7
  <2>2. CASE Len(vms) = 2
    BY <1>7, <2>1, <2>2
  <2>3. CASE Len(vms) > 2
    <3>1. vms'[1] = vms[1]
      BY <1>2, <1>7, <2>3
    <3>2. \A i \in 2..Len(vms') : i \in 2..Len(vms) /\ i \in DOMAIN vms'
      BY ONLY <1>2, <1>7, <1>3, <2>3
    <3> QED
      BY <1>4, <2>1, <3>1, <3>2
  <2> QED
    BY <1>2, <1>7, <2>2, <2>3
<1>8. CASE ImportCached
  <2> DEFINE m == Head(Top.pending).from
             x == Bind(Top, Head(Top.pending), Top.cache[m])
  <2>1. /\ Top.pending # <<>> /\ m \in DOMAIN Top.cache /\ Len(vms') = Len(vms)
        /\ vms'[Len(vms)] = x /\ \A i \in 1..Len(vms) - 1 : vms'[i] = vms[i]
    BY <1>8, ImportCachedStep
  <2>2. x.mod = Top.mod /\ x.cache = Top.cache
    <3>1. Range(Top.cache[m]) \subseteq Modules
      BY <1>2, <2>1 DEF VMRecord
    <3>2. project \in Projects /\ VMRecord(Top) /\ Top.pending # <<>>
      BY <1>2, <2>1
    <3> QED
      BY ONLY <3>1, <3>2, BindIs
  <2> HIDE DEF x
  <2> QED
    BY <1>5, <2>1, <2>2
<1>9. CASE ImportRead
  <2>1. ~vms[1].ready
    BY <1>1, <1>9, NothingToLoad DEF ImportRead
  <2> QED
    BY <1>6, <1>9, <2>1, ImportReadStep
<1>10. CASE Ready
  <2> DEFINE x == [Top EXCEPT !.ready = TRUE, !.globals = Override(@, [f \in Defines(Top.mod) |-> Top.mod])]
  <2>1. Len(vms') = Len(vms) /\ vms'[Len(vms)] = x /\ \A i \in 1..Len(vms) - 1 : vms'[i] = vms[i]
    BY <1>10, ReadyStep
  <2>2. x.mod = Top.mod /\ x.cache = Top.cache
    BY <1>2 DEF VMRecord
  <2> HIDE DEF x
  <2> QED
    BY <1>5, <2>1, <2>2
<1>11. CASE CallOwn
  <2>1. PICK code \in Seq(Names) : /\ Len(vms') = Len(vms) /\ vms'[Len(vms)] = [Top EXCEPT !.code = code]
                                   /\ \A i \in 1..Len(vms) - 1 : vms'[i] = vms[i]
    BY <1>11, CallOwnStep
  <2> DEFINE x == [Top EXCEPT !.code = code]
  <2>2. x.mod = Top.mod /\ x.cache = Top.cache
    BY <1>2 DEF VMRecord
  <2>3. vms'[Len(vms)] = x
    BY <2>1
  <2> HIDE DEF x
  <2> QED
    BY <1>5, <2>1, <2>2, <2>3
<1>12. CASE CallImported
  <2>1. PICK m \in Modules, code \in Seq(Names) : m \in DOMAIN Top.cache /\ Entered(NewVM(m, "call", code))
    BY <1>12, CallImportedStep
  <2>2. m # Root
    BY <1>2, <2>1
  <2> QED
    BY <1>6, <2>1, <2>2
<1>13. CASE Loaded
  <2> DEFINE vm == vms[Len(vms) - 1]
             c == Cached(vm, Top.mod, Top.globals)
             x == Bind(c, Head(vm.pending), Top.globals)
  <2>1. /\ Len(vms) > 1 /\ Len(vms') = Len(vms) - 1
        /\ vm.pending # <<>> /\ Head(vm.pending).from = Top.mod /\ Top.ready
        /\ vms'[Len(vms) - 1] = x /\ \A i \in 1..Len(vms) - 2 : vms'[i] = vms[i]
    BY <1>13, LoadedStep
  <2>2. VMRecord(vm) /\ Root \notin DOMAIN vm.cache
    BY <1>2, <1>4, <2>1 DEF IInv, TypeOK
  <2>3. Top.mod # Root
    <3> SUFFICES ASSUME Top.mod = Root PROVE FALSE
      OBVIOUS
    <3>1. vm.mod = Root /\ Head(vm.pending) \in ImportsOf(Root)
      BY <1>1, <1>2, <2>1, <2>2, RootLoads, PendingIs
    <3>2. Range(Top.pending) = {}
      BY <1>2, <2>1 DEF Kept, Range
    <3> QED
      BY <1>2, <2>1, <3>1, <3>2 DEF Kept
  <2>4. Range(Top.globals) \subseteq Modules /\ Top.mod \in Modules
    BY <1>2 DEF VMRecord
  <2> HIDE DEF vm
  <2>5. /\ VMRecord(c) /\ c.mod = vm.mod /\ c.pending = vm.pending
        /\ DOMAIN c.cache = DOMAIN vm.cache \cup {Top.mod}
    BY <1>2, <2>2, <2>4, CachedIs
  <2> HIDE DEF c
  <2>6. x.mod = vm.mod /\ x.cache = c.cache
    <3>1. x = Bind(c, Head(c.pending), Top.globals) /\ c.pending # <<>>
      BY <2>1, <2>5
    <3> HIDE DEF x
    <3> QED
      BY <1>2, <2>4, <2>5, <3>1, BindIs
  <2> HIDE DEF x
  <2>7. x.mod = vms[Len(vms) - 1].mod /\ Root \notin DOMAIN x.cache
    BY <2>2, <2>3, <2>5, <2>6 DEF vm
  <2> QED
    BY <1>7, <2>1, <2>7
<1>14. CASE Returned
  <2> DEFINE vm == vms[Len(vms) - 1]
  <2>1. Len(vms) > 1 /\ Len(vms') = Len(vms) - 1 /\ \A i \in 1..Len(vms) - 2 : vms'[i] = vms[i]
    BY <1>14, ReturnedStep
  <2>2. PICK code \in Seq(Names) : vms'[Len(vms) - 1] = [vm EXCEPT !.code = code]
    BY <1>14, ReturnedStep
  <2> DEFINE x == [vm EXCEPT !.code = code]
  <2>3. VMRecord(vm) /\ Root \notin DOMAIN vm.cache
    <3>1. Len(vms) - 1 \in DOMAIN vms
      BY <1>2, <2>1
    <3> QED
      BY <1>4, <3>1 DEF IInv, TypeOK
  <2> HIDE DEF vm
  <2>4. x.mod = vm.mod /\ Root \notin DOMAIN x.cache /\ vms'[Len(vms) - 1] = x
    BY <2>2, <2>3 DEF VMRecord
  <2> HIDE DEF x
  <2> QED
    BY <1>7, <2>1, <2>4 DEF vm
<1>15. CASE CallUndefined \/ Done \/ Ended \/ UNCHANGED vars
  <2>1. UNCHANGED vms
    BY <1>15, RestStep
  <2> QED
    BY <1>4, <2>1
<1> QED
  BY <1>8, <1>9, <1>10, <1>11, <1>12, <1>13, <1>14, <1>15 DEF Next

\* Once the imports of the program are loaded no library that imports nothing
\* of its own is read from disk again by a call of one of its functions
\* (vm.rs:380).
THEOREM ReadsOnce == Spec => LoadedOnce
<1> DEFINE Inv == IInv /\ FInv
           Once == Flat /\ vms[1].ready => reads' = reads
<1>1. Init => Inv
  <2> SUFFICES ASSUME Init PROVE FInv
    BY InitIInv
  <2> DEFINE vm == NewVM(Root, "run", project.top[Root])
  <2>1. vms = <<vm>> /\ DOMAIN vm.cache = {} /\ ~vm.ready
    BY DEF Init, NewVM
  <2> HIDE DEF vm
  <2>2. DOMAIN vms = {1} /\ vms[1] = vm /\ Len(vms) = 1
    BY <2>1
  <2> QED
    BY <2>1, <2>2 DEF FInv
<1>2. Inv /\ [Next]_vars => Inv'
  BY NextIInv, NextFInv
<1>3. Inv /\ [Next]_vars => [Once]_vars
  <2> SUFFICES ASSUME Inv, Next, Flat, vms[1].ready PROVE reads' = reads
    BY DEF vars
  <2>1. ~ImportRead
    BY NothingToLoad DEF ImportRead
  <2>2. CASE CallImported
    BY <2>2 DEF CallImported
  <2> QED
    BY <2>1, <2>2 DEF Next, ImportCached, Ready, CallOwn, CallUndefined, Loaded, Returned, Done, Ended, vars
<1>4. LoadedOnce <=> [][Once]_vars
  BY DEF LoadedOnce, Flat
<1> QED
  BY <1>1, <1>2, <1>3, <1>4, PTL DEF Spec
=============================================================================
