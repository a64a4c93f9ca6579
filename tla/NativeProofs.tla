---------------------------- MODULE NativeProofs ----------------------------
(***************************************************************************)
(* The machine code of every set of modules whose functions are laid out   *)
(* as emit_function lays them out: the stack is aligned at every call, a   *)
(* function gives its caller back the registers it found, and, if its      *)
(* functions have plans, a program pops the catch frames it pushes.        *)
(***************************************************************************)
EXTENDS NativePlan, SequenceTheorems, TLAPS

(***************************************************************************)
(* The invariant                                                           *)
(***************************************************************************)

IsSeq(s) == Len(s) \in Nat /\ s = [j \in 1..Len(s) |-> s[j]]
IsFile(s) == s = [j \in 1..NCallee |-> s[j]]

\* the words of a frame: the saved registers, their padding, the frame
Size(f) == f.nsaved + (f.nsaved % 2) + f.frame

CallSite(fns, b) == /\ b \in [fn : DOMAIN fns, at : Nat]
                    /\ b.at \in DOMAIN fns[b.fn].code
                    /\ fns[b.fn].code[b.at].i \in {"call", "calldyn"}

\* activation k waits for activation k + 1
Waits(fns, fs, m, k) ==
    LET b == BackOf(fs, m, k + 1)
        f == fns[b.fn]
    IN /\ CallSite(fns, b)
       /\ fs[k + 1].depth = fs[k].depth + 2 + Size(f) + PushedFor(f.code[b.at])
       /\ fs[k + 1].fp = fs[k].depth + 2
       /\ m[fs[k].depth + 2] = fs[k].fp

Depths(fs) ==
    /\ IsSeq(fs) /\ Len(fs) >= 1 /\ fs[1].depth = 0
    /\ \A k \in 1..Len(fs) : fs[k].depth \in Nat /\ fs[k].depth % 2 = 0
    /\ \A k, l \in 1..Len(fs) : k <= l => fs[k].depth <= fs[l].depth

Newest == frames[Len(frames)]

Entering ==
    /\ pc.at = 0 /\ rax = <<>>
    /\ Len(mem) = Newest.depth + 1
    /\ fp = Newest.fp

Inside ==
    /\ pc.at \in DOMAIN Fun.code
    /\ fp = Newest.depth + 2 /\ mem[fp] = Newest.fp
    /\ \/ rax = <<>> /\ Len(mem) = fp + Size(Fun)
       \/ rax # <<>> /\ CallSite(program.fns, pc) /\ Len(mem) = fp + Size(Fun) + PushedFor(Insn)

\* the shape of the stack: what every return address, saved rbp and depth is
Shape ==
    /\ Linked(program.fns)
    /\ pc \in [fn : DOMAIN program.fns, at : Nat]
    /\ IsSeq(mem) /\ IsFile(saved) /\ Depths(frames)
    /\ BackOf(frames, mem, 1).fn = 0
    /\ \A k \in 1..(Len(frames) - 1) : Waits(program.fns, frames, mem, k)
    /\ Entering \/ Inside

Chosen == program \in UNION Families

StackShape == status = "running" => Shape

\* activation k keeps the registers it found: those its function uses in its
\* frame, the others in the registers
Keeps(fns, fs, m, k) ==
    LET n == fns[BackOf(fs, m, k + 1).fn].nsaved
    IN /\ \A j \in 1..n : m[fs[k].depth + 2 + j] = fs[k].saved[j]
       /\ \A j \in (n + 1)..NCallee : fs[k + 1].saved[j] = fs[k].saved[j]

Holding ==
    /\ \A k \in 1..Len(frames) : IsFile(frames[k].saved)
    /\ \A k \in 1..(Len(frames) - 1) : Keeps(program.fns, frames, mem, k)
    /\ pc.at = 0 => saved = Newest.saved
    /\ pc.at > 0 => /\ \A j \in 1..Fun.nsaved : mem[fp + j] = Newest.saved[j]
                    /\ \A j \in (Fun.nsaved + 1)..NCallee : saved[j] = Newest.saved[j]

RegistersHeld == status = "running" => Holding

(***************************************************************************)
(* Sequences whose elements have no common type                            *)
(***************************************************************************)

LEMMA SeqIsSeq == ASSUME NEW S, NEW s \in Seq(S) PROVE IsSeq(s) /\ DOMAIN s = 1..Len(s)
  BY DEF IsSeq

LEMMA FunIsSeq ==
    ASSUME NEW n \in Nat, NEW s, DOMAIN s = 1..n, s = [j \in 1..n |-> s[j]]
    PROVE  IsSeq(s) /\ Len(s) = n
<1> DEFINE S == {s[i] : i \in 1..n}
<1>1. s \in [1..n -> S]
  OBVIOUS
<1>2. s \in Seq(S)
  BY <1>1, SeqDef
<1> HIDE DEF S
<1>3. Len(s) = n
  BY <1>1, <1>2, LenProperties
<1> QED
  BY <1>2, <1>3, SeqIsSeq

LEMMA IsSeqIn ==
    ASSUME NEW s, IsSeq(s), NEW S, \A i \in 1..Len(s) : s[i] \in S
    PROVE  s \in Seq(S) /\ DOMAIN s = 1..Len(s)
<1>1. s \in [1..Len(s) -> S]
  BY DEF IsSeq
<1> QED
  BY <1>1, SeqDef DEF IsSeq

LEMMA CatAny ==
    ASSUME NEW s, IsSeq(s), NEW t, IsSeq(t)
    PROVE  /\ IsSeq(s \o t) /\ Len(s \o t) = Len(s) + Len(t)
           /\ \A i \in 1..Len(s) : (s \o t)[i] = s[i]
           /\ \A i \in 1..Len(t) : (s \o t)[Len(s) + i] = t[i]
<1> DEFINE S == {s[i] : i \in 1..Len(s)} \cup {t[i] : i \in 1..Len(t)}
<1>1. s \in Seq(S) /\ t \in Seq(S)
  BY IsSeqIn
<1> HIDE DEF S
<1>2. s \o t \in Seq(S) /\ Len(s \o t) = Len(s) + Len(t)
  BY <1>1, ConcatProperties
<1>3. \A i \in 1..(Len(s) + Len(t)) : (s \o t)[i] = IF i <= Len(s) THEN s[i] ELSE t[i - Len(s)]
  BY <1>1, ConcatProperties
<1>4. Len(s) \in Nat /\ Len(t) \in Nat
  BY DEF IsSeq
<1>5. \A i \in 1..Len(s) : (s \o t)[i] = s[i]
  BY <1>3, <1>4
<1>6. ASSUME NEW i \in 1..Len(t) PROVE (s \o t)[Len(s) + i] = t[i]
  <2>1. Len(s) + i \in 1..(Len(s) + Len(t)) /\ ~(Len(s) + i <= Len(s)) /\ (Len(s) + i) - Len(s) = i
    BY <1>4
  <2> QED
    BY <1>3, <2>1
<1> QED
  BY <1>2, <1>5, <1>6, SeqIsSeq

LEMMA AppendAny ==
    ASSUME NEW s, IsSeq(s), NEW v
    PROVE  /\ IsSeq(Append(s, v)) /\ Len(Append(s, v)) = Len(s) + 1
           /\ \A i \in 1..Len(s) : Append(s, v)[i] = s[i]
           /\ Append(s, v)[Len(s) + 1] = v
<1> DEFINE S == {s[i] : i \in 1..Len(s)} \cup {v}
<1>1. s \in Seq(S)
  BY IsSeqIn
<1>2. v \in S
  OBVIOUS
<1> HIDE DEF S
<1>3. Append(s, v) \in Seq(S)
  BY <1>1, <1>2
<1>4. /\ Len(Append(s, v)) = Len(s) + 1
      /\ \A i \in 1..Len(s) : Append(s, v)[i] = s[i]
      /\ Append(s, v)[Len(s) + 1] = v
  BY <1>1, <1>2, AppendProperties
<1> QED
  BY <1>3, <1>4, SeqIsSeq

LEMMA PrefixAny ==
    ASSUME NEW s, IsSeq(s), NEW n \in Nat, n <= Len(s)
    PROVE  /\ IsSeq(SubSeq(s, 1, n)) /\ Len(SubSeq(s, 1, n)) = n
           /\ \A i \in 1..n : SubSeq(s, 1, n)[i] = s[i]
<1> DEFINE S == {s[i] : i \in 1..Len(s)}
<1>1. s \in Seq(S) /\ Len(s) \in Nat
  BY IsSeqIn DEF IsSeq
<1>2. \A i \in 1..n : s[i] \in S
  OBVIOUS
<1> HIDE DEF S
<1>3. /\ SubSeq(s, 1, n) \in Seq(S)
      /\ Len(SubSeq(s, 1, n)) = n
      /\ \A i \in 1..n : SubSeq(s, 1, n)[i] = s[i]
  BY <1>2, SubSeqProperties
<1> QED
  BY <1>3, SeqIsSeq

LEMMA FrontAny ==
    ASSUME NEW s, IsSeq(s), Len(s) >= 1
    PROVE  /\ IsSeq(Front(s)) /\ Len(Front(s)) = Len(s) - 1
           /\ \A i \in 1..(Len(s) - 1) : Front(s)[i] = s[i]
  BY PrefixAny DEF Front, IsSeq

(***************************************************************************)
(* Writing a virtual register                                              *)
(***************************************************************************)

LEMMA EvenRound ==
    ASSUME NEW n \in Nat PROVE (n % 2) + n \in Nat /\ ((n % 2) + n) % 2 = 0
  OBVIOUS

LEMMA EvenSum ==
    ASSUME NEW n \in Nat, NEW h \in Nat, h % 2 = 0
    PROVE  /\ n + (n % 2) + h \in Nat /\ (n + (n % 2) + h) % 2 = 0
           /\ n <= n + (n % 2) + h /\ n + h <= n + (n % 2) + h
  OBVIOUS

LEMMA PlacedSize ==
    ASSUME NEW f, Placed(f)
    PROVE  /\ f.nsaved \in 0..NCallee /\ f.frame \in Nat
           /\ Size(f) \in Nat /\ Size(f) % 2 = 0 /\ f.nsaved <= Size(f)
           /\ f.nsaved + f.frame <= Size(f)
<1>1. f.nsaved \in 0..NCallee /\ f.nsaved \in Nat /\ f.frame \in Nat /\ f.frame % 2 = 0
  BY DEF Placed, NCallee
<1> QED
  BY <1>1, EvenSum DEF Size

LEMMA PushedEven ==
    ASSUME NEW i, i.i \in {"rt", "call"} => Len(i.args) \in Nat
    PROVE  PushedFor(i) \in Nat /\ PushedFor(i) % 2 = 0
<1>1. CASE i.i \in {"rt", "call"}
  <2>1. StackArgs(Len(i.args)) \in Nat
    BY <1>1 DEF StackArgs
  <2>2. PushedFor(i) = (StackArgs(Len(i.args)) % 2) + StackArgs(Len(i.args))
    BY <1>1 DEF PushedFor, Pushed, Pad
  <2> QED
    BY <2>1, <2>2, EvenRound
<1>2. CASE i.i \notin {"rt", "call"}
  BY <1>2 DEF PushedFor
<1> QED
  BY <1>1, <1>2

\* the frame at base keeps its shape and, when slots lie apart, the registers
\* that it saved
Untouched(f, base, st, st2) ==
    /\ IsSeq(st2.mem) /\ Len(st2.mem) = Len(st.mem)
    /\ \A j \in 1..base : st2.mem[j] = st.mem[j]
    /\ Apart(f) => \A j \in 1..f.nsaved : st2.mem[base + j] = st.mem[base + j]
    /\ IsFile(st2.saved)
    /\ \A j \in (f.nsaved + 1)..NCallee : st2.saved[j] = st.saved[j]

LEMMA WrittenKeeps ==
    ASSUME NEW f, Placed(f), NEW n \in DOMAIN f.place, NEW base \in Nat, NEW s, NEW m, NEW w,
           IsSeq(m), IsFile(s), base + Size(f) = Len(m)
    PROVE  Untouched(f, base, [saved |-> s, mem |-> m], Written(f, base, [saved |-> s, mem |-> m], n, w))
<1> DEFINE st == [saved |-> s, mem |-> m]
           st2 == Written(f, base, st, n, w)
<1>0. f.nsaved \in 0..NCallee /\ f.frame \in Nat /\ f.nsaved + f.frame <= Size(f) /\ Size(f) \in Nat
  BY PlacedSize
<1>1. CASE \E j \in 1..f.nsaved : f.place[n] = [k |-> "reg", j |-> j]
  <2>1. PICK j \in 1..f.nsaved : f.place[n] = [k |-> "reg", j |-> j]
    BY <1>1
  <2>2. st2 = [saved |-> [s EXCEPT ![j] = w], mem |-> m]
    BY <2>1 DEF Written
  <2>3. DOMAIN s = 1..NCallee
    BY DEF IsFile
  <2>4. IsFile([s EXCEPT ![j] = w])
    BY <2>3 DEF IsFile
  <2>5. \A l \in (f.nsaved + 1)..NCallee : [s EXCEPT ![j] = w][l] = s[l]
    BY <2>3, <1>0, <2>1 DEF NCallee
  <2> DEFINE s2 == [s EXCEPT ![j] = w]
  <2>6. IsFile(s2) /\ \A l \in (f.nsaved + 1)..NCallee : s2[l] = s[l]
    BY <2>4, <2>5
  <2>7. st2 = [saved |-> s2, mem |-> m]
    BY <2>2
  <2> HIDE DEF s2, st2
  <2> QED
    BY <2>6, <2>7 DEF Untouched, st2
<1>2. CASE \E j \in 1..f.frame : f.place[n] = [k |-> "slot", j |-> j]
  <2>1. PICK j \in 1..f.frame : f.place[n] = [k |-> "slot", j |-> j]
    BY <1>2
  <2>2. st2 = [saved |-> s, mem |-> [m EXCEPT ![base + j] = w]]
    BY <2>1 DEF Written
  <2>3. base + j \in 1..Len(m)
    BY <1>0, <2>1
  <2> DEFINE m2 == [m EXCEPT ![base + j] = w]
  <2>4. IsSeq(m2) /\ Len(m2) = Len(m) /\ \A l \in 1..Len(m) : l # base + j => m2[l] = m[l]
    <3>1. DOMAIN m = 1..Len(m) /\ Len(m) \in Nat
      BY DEF IsSeq
    <3>2. m2 = [l \in 1..Len(m) |-> IF l = base + j THEN w ELSE m[l]]
      BY ONLY <3>1
    <3> HIDE DEF m2
    <3>3. /\ DOMAIN m2 = 1..Len(m) /\ m2 = [l \in 1..Len(m) |-> m2[l]]
          /\ \A l \in 1..Len(m) : l # base + j => m2[l] = m[l]
      BY ONLY <3>2
    <3>4. IsSeq(m2) /\ Len(m2) = Len(m)
      BY ONLY <3>1, <3>3, FunIsSeq
    <3> QED
      BY ONLY <3>3, <3>4
  <2>5. \A l \in 1..base : l \in 1..Len(m) /\ l # base + j
    BY <1>0, <2>1
  <2>6. ASSUME Apart(f), NEW l \in 1..f.nsaved PROVE base + l \in 1..Len(m) /\ base + l # base + j
    <3>1. l # j
      BY <2>1, <2>6 DEF Apart
    <3> QED
      BY <3>1, <1>0, <2>1
  <2>8. st2 = [saved |-> s, mem |-> m2]
    BY <2>2
  <2> HIDE DEF m2, st2
  <2>9. Apart(f) => \A l \in 1..f.nsaved : m2[base + l] = m[base + l]
    BY <2>6, <2>4
  <2> QED
    BY <2>5, <2>4, <2>8, <2>9 DEF Untouched, st2
<1>3. CASE f.place[n] = [k |-> "none", j |-> 0]
  <2>1. st2 = st
    BY <1>3 DEF Written
  <2> QED
    BY <2>1 DEF Untouched
<1> QED
  BY <1>1, <1>2, <1>3 DEF Placed

(***************************************************************************)
(* Suspended activations depend on the words below the newest frame only   *)
(***************************************************************************)

\* two histories and stacks agree on activations k and k + 1
Agree(fs, m, fs2, m2, k) ==
    /\ fs2[k] = fs[k] /\ fs2[k + 1] = fs[k + 1]
    /\ \A j \in 1..(fs[k + 1].depth + 1) : m2[j] = m[j]

LEMMA WaitsGap ==
    ASSUME NEW fns, LaidOut(fns), NEW fs, NEW m, NEW k \in Nat, fs[k].depth \in Nat, Waits(fns, fs, m, k)
    PROVE  /\ fns[BackOf(fs, m, k + 1).fn].nsaved \in 0..NCallee
           /\ fs[k + 1].depth \in Nat
           /\ fs[k].depth + 2 + fns[BackOf(fs, m, k + 1).fn].nsaved <= fs[k + 1].depth
           /\ fs[k].depth % 2 = 0 => fs[k + 1].depth % 2 = 0
<1> DEFINE b == BackOf(fs, m, k + 1)
           f == fns[b.fn]
<1>1. b.fn \in DOMAIN fns /\ b.at \in DOMAIN f.code /\ f.code[b.at].i \in {"call", "calldyn"}
  BY DEF Waits, CallSite
<1>2. Contained(f) /\ Placed(f)
  BY <1>1 DEF LaidOut
<1>3. PushedFor(f.code[b.at]) \in Nat /\ PushedFor(f.code[b.at]) % 2 = 0
  BY <1>1, <1>2, PushedEven DEF Contained
<1>4. f.nsaved \in 0..NCallee /\ Size(f) \in Nat /\ Size(f) % 2 = 0 /\ f.nsaved <= Size(f)
  BY <1>2, PlacedSize
<1>5. fs[k + 1].depth = fs[k].depth + 2 + Size(f) + PushedFor(f.code[b.at])
  BY DEF Waits
<1> DEFINE a == fs[k].depth
           c == fs[k + 1].depth
           n == f.nsaved
           z == Size(f)
           p == PushedFor(f.code[b.at])
<1>6. /\ p \in Nat /\ p % 2 = 0 /\ n \in Nat /\ z \in Nat /\ z % 2 = 0 /\ n <= z
      /\ c = a + 2 + z + p /\ a \in Nat
  BY <1>3, <1>4, <1>5 DEF NCallee
<1> HIDE DEF b, f, a, c, n, z, p
<1>7. c \in Nat /\ a + 2 + n <= c /\ (a % 2 = 0 => c % 2 = 0)
  BY ONLY <1>6
<1> QED
  BY ONLY <1>4, <1>7 DEF a, c, n, f, b

LEMMA WaitsAgree ==
    ASSUME NEW fns, LaidOut(fns), NEW fs, NEW m, NEW fs2, NEW m2, NEW k \in Nat,
           fs[k].depth \in Nat, Waits(fns, fs, m, k), Agree(fs, m, fs2, m2, k)
    PROVE  Waits(fns, fs2, m2, k)
<1>1. /\ fs[k + 1].depth \in Nat
      /\ fs[k].depth + 2 <= fs[k + 1].depth
  BY WaitsGap DEF NCallee
<1>2. m2[fs[k + 1].depth + 1] = m[fs[k + 1].depth + 1] /\ m2[fs[k].depth + 2] = m[fs[k].depth + 2]
  BY <1>1 DEF Agree
<1>3. BackOf(fs2, m2, k + 1) = BackOf(fs, m, k + 1)
  BY <1>2 DEF BackOf, Agree
<1> QED
  BY <1>2, <1>3 DEF Waits, Agree

LEMMA KeepsAgree ==
    ASSUME NEW fns, LaidOut(fns), NEW fs, NEW m, NEW fs2, NEW m2, NEW k \in Nat,
           fs[k].depth \in Nat, Waits(fns, fs, m, k), Agree(fs, m, fs2, m2, k), Keeps(fns, fs, m, k)
    PROVE  Keeps(fns, fs2, m2, k)
<1> DEFINE n == fns[BackOf(fs, m, k + 1).fn].nsaved
<1>1. n \in 0..NCallee /\ fs[k + 1].depth \in Nat /\ fs[k].depth + 2 + n <= fs[k + 1].depth
  BY WaitsGap
<1>2. BackOf(fs2, m2, k + 1) = BackOf(fs, m, k + 1)
  <2>1. fs[k + 1].depth + 1 \in 1..(fs[k + 1].depth + 1)
    BY ONLY <1>1
  <2>2. m2[fs[k + 1].depth + 1] = m[fs[k + 1].depth + 1] /\ fs2[k + 1] = fs[k + 1]
    BY <2>1 DEF Agree
  <2> QED
    BY ONLY <2>2 DEF BackOf
<1>3. ASSUME NEW j \in 1..n PROVE m2[fs[k].depth + 2 + j] = m[fs[k].depth + 2 + j]
  <2>1. fs[k].depth + 2 + j \in 1..(fs[k + 1].depth + 1)
    BY <1>1 DEF NCallee
  <2> QED
    BY <2>1 DEF Agree
<1> QED
  BY <1>2, <1>3 DEF Keeps, Agree

LEMMA WaitsBelow ==
    ASSUME NEW fns, LaidOut(fns), NEW fs, NEW m, NEW fs2, NEW m2, Depths(fs), NEW top \in 1..Len(fs),
           \A k \in 1..top : fs2[k] = fs[k], \A j \in 1..(fs[top].depth + 1) : m2[j] = m[j],
           \A k \in 1..(Len(fs) - 1) : Waits(fns, fs, m, k)
    PROVE  /\ \A k \in 1..(top - 1) : Waits(fns, fs2, m2, k)
           /\ \A k \in 1..(top - 1) : Keeps(fns, fs, m, k) => Keeps(fns, fs2, m2, k)
           /\ BackOf(fs2, m2, 1) = BackOf(fs, m, 1)
<1>1. Len(fs) \in Nat /\ top \in Nat
  BY DEF Depths, IsSeq
<1>2. fs[top].depth \in Nat
  BY DEF Depths
<1>3. ASSUME NEW k \in 1..(top - 1)
      PROVE  /\ Waits(fns, fs2, m2, k)
             /\ Keeps(fns, fs, m, k) => Keeps(fns, fs2, m2, k)
  <2>1. k \in Nat /\ k \in 1..(Len(fs) - 1) /\ k \in 1..Len(fs) /\ k + 1 \in 1..Len(fs)
        /\ k \in 1..top /\ k + 1 \in 1..top /\ k + 1 <= top
    BY <1>1
  <2>2. fs[k].depth \in Nat /\ fs[k + 1].depth \in Nat /\ fs[k + 1].depth <= fs[top].depth
    BY <2>1 DEF Depths
  <2>3. \A j \in 1..(fs[k + 1].depth + 1) : j \in 1..(fs[top].depth + 1)
    BY <1>2, <2>2
  <2>4. Agree(fs, m, fs2, m2, k)
    BY <2>1, <2>3 DEF Agree
  <2>5. Waits(fns, fs, m, k)
    BY <2>1
  <2> QED
    BY <2>1, <2>2, <2>4, <2>5, WaitsAgree, KeepsAgree
<1>4. BackOf(fs2, m2, 1) = BackOf(fs, m, 1)
  <2>1. 1 \in 1..top /\ 1 \in 1..(fs[top].depth + 1) /\ fs[1].depth = 0
    BY <1>1, <1>2 DEF Depths
  <2> QED
    BY <2>1 DEF BackOf
<1> QED
  BY <1>3, <1>4

(***************************************************************************)
(* Steps inside the newest activation                                      *)
(***************************************************************************)

LEMMA Setting ==
    ASSUME AllLaidOut, Chosen, Shape
    PROVE  /\ LaidOut(program.fns) /\ Contained(Fun) /\ Placed(Fun)
           /\ Len(frames) \in Nat /\ Len(frames) >= 1
           /\ Newest.depth \in Nat /\ Newest.depth % 2 = 0
           /\ pc.at \in Nat /\ pc.fn \in DOMAIN program.fns
           /\ pc.at = 0 => Entering
           /\ pc.at > 0 => Inside
<1>1. LaidOut(program.fns)
  BY DEF AllLaidOut, Chosen, Shape
<1>2. pc.at \in Nat /\ pc.fn \in DOMAIN program.fns
  BY DEF Shape
<1>3. Contained(Fun) /\ Placed(Fun)
  BY <1>1, <1>2 DEF LaidOut, Fun
<1>4. Len(frames) \in Nat /\ Len(frames) >= 1 /\ Len(frames) \in 1..Len(frames)
  BY DEF Shape, Depths, IsSeq
<1>5. Newest.depth \in Nat /\ Newest.depth % 2 = 0
  BY <1>4 DEF Shape, Depths, Newest
<1>6. 0 \notin DOMAIN Fun.code
  BY <1>3 DEF Contained
<1> QED
  BY <1>1, <1>2, <1>3, <1>4, <1>5, <1>6 DEF Shape, Entering, Inside

LEMMA Here ==
    ASSUME AllLaidOut, Chosen, Shape, pc.at > 0
    PROVE  /\ fp = Newest.depth + 2 /\ fp \in Nat /\ IsSeq(mem) /\ IsFile(saved)
           /\ Size(Fun) \in Nat /\ Fun.nsaved \in 0..NCallee
           /\ PushedFor(Insn) \in Nat /\ PushedFor(Insn) % 2 = 0
           /\ Len(mem) = fp + Size(Fun) + (IF rax = <<>> THEN 0 ELSE PushedFor(Insn))
           /\ pc.at \in DOMAIN Fun.code /\ Target(Insn) \subseteq DOMAIN Fun.place
           /\ Insn.i \notin {"jump", "ret"} => pc.at + 1 \in DOMAIN Fun.code
           /\ Insn.i \in {"jump", "branch"} => Fun.target[Insn.to] \in DOMAIN Fun.code
           /\ rax # <<>> => Insn.i \in {"call", "calldyn"}
<1>1. Inside /\ Contained(Fun) /\ Placed(Fun) /\ Newest.depth \in Nat
  BY Setting
<1>2. /\ fp = Newest.depth + 2 /\ fp \in Nat /\ IsSeq(mem) /\ IsFile(saved)
      /\ pc.at \in DOMAIN Fun.code
  BY <1>1 DEF Inside, Shape
<1>3. Size(Fun) \in Nat /\ Fun.nsaved \in 0..NCallee
  BY <1>1, PlacedSize
<1>4. /\ Target(Insn) \subseteq DOMAIN Fun.place
      /\ Insn.i \notin {"jump", "ret"} => pc.at + 1 \in DOMAIN Fun.code
      /\ Insn.i \in {"jump", "branch"} => Fun.target[Insn.to] \in DOMAIN Fun.code
      /\ Insn.i \in {"rt", "call"} => Len(Insn.args) \in Nat
  BY <1>1, <1>2 DEF Contained, Placed, Insn
<1>5. PushedFor(Insn) \in Nat /\ PushedFor(Insn) % 2 = 0
  BY <1>4, PushedEven
<1>6. rax # <<>> => Insn.i \in {"call", "calldyn"}
  BY <1>1 DEF Inside, CallSite, Insn, Fun
<1>7. Len(mem) = fp + Size(Fun) + (IF rax = <<>> THEN 0 ELSE PushedFor(Insn))
  <2>1. CASE rax = <<>>
    <3>1. Len(mem) = fp + Size(Fun)
      BY <2>1, <1>1 DEF Inside
    <3>2. fp + Size(Fun) + 0 = fp + Size(Fun)
      BY <1>2, <1>3
    <3> QED
      BY <2>1, <3>1, <3>2
  <2>2. CASE rax # <<>>
    BY <2>2, <1>1 DEF Inside
  <2> QED
    BY <2>1, <2>2
<1> QED
  BY <1>2, <1>3, <1>4, <1>5, <1>6, <1>7

\* the code of the newest activation goes on; its frame keeps its shape
Local ==
    /\ program' = program /\ frames' = frames /\ fp' = fp /\ rax' = <<>>
    /\ \E n \in DOMAIN Fun.code : pc' = [pc EXCEPT !.at = n]
    /\ IsSeq(mem') /\ Len(mem') = fp + Size(Fun)
    /\ \A j \in 1..fp : mem'[j] = mem[j]
    /\ Apart(Fun) => \A j \in 1..Fun.nsaved : mem'[fp + j] = mem[fp + j]
    /\ IsFile(saved')
    /\ \A j \in (Fun.nsaved + 1)..NCallee : saved'[j] = saved[j]

LEMMA SetRegUntouched ==
    ASSUME AllLaidOut, Chosen, Shape, pc.at > 0, rax = <<>>, NEW d, NEW w,
           d # <<>> => d[1].n \in DOMAIN Fun.place, SetReg(d, w)
    PROVE  Untouched(Fun, fp, [saved |-> saved, mem |-> mem], [saved |-> saved', mem |-> mem'])
<1> DEFINE st == [saved |-> saved, mem |-> mem]
<1>1. /\ fp \in Nat /\ IsSeq(mem) /\ IsFile(saved) /\ Placed(Fun)
      /\ Size(Fun) \in Nat /\ Len(mem) = fp + Size(Fun) /\ Fun.nsaved \in 0..NCallee
  BY Setting, Here
<1>2. CASE d = <<>>
  <2>1. saved' = saved /\ mem' = mem
    BY <1>2 DEF SetReg
  <2> QED
    BY <1>1, <2>1 DEF Untouched
<1>3. CASE d # <<>>
  <2> DEFINE st2 == Written(Fun, fp, st, d[1].n, w)
  <2>1. Untouched(Fun, fp, st, st2)
    BY <1>1, <1>3, WrittenKeeps
  <2>2. saved' = st2.saved /\ mem' = st2.mem
    BY <1>3 DEF SetReg
  <2> HIDE DEF st2
  <2> QED
    BY <2>1, <2>2 DEF Untouched
<1> QED
  BY <1>2, <1>3

LEMMA SetsLocal ==
    ASSUME AllLaidOut, Chosen, Shape, pc.at > 0, rax = <<>>, NEW d, NEW w,
           d # <<>> => d[1].n \in DOMAIN Fun.place, SetReg(d, w),
           pc.at + 1 \in DOMAIN Fun.code, Next1,
           UNCHANGED <<program, rax, fp, frames>>
    PROVE  Local
<1>1. Untouched(Fun, fp, [saved |-> saved, mem |-> mem], [saved |-> saved', mem |-> mem'])
  BY SetRegUntouched
<1>2. Len(mem) = fp + Size(Fun) /\ fp \in Nat /\ Size(Fun) \in Nat
  BY Here
<1>3. \E n \in DOMAIN Fun.code : pc' = [pc EXCEPT !.at = n]
  BY DEF Next1, Goto
<1> QED
  BY <1>1, <1>2, <1>3 DEF Untouched, Local

\* a step that writes no register
LEMMA GoesLocal ==
    ASSUME AllLaidOut, Chosen, Shape, pc.at > 0, rax = <<>>, NEW n \in DOMAIN Fun.code, Goto(n),
           UNCHANGED <<program, rax, fp, frames, saved, mem>>
    PROVE  Local
  BY Here DEF Local, Goto

LEMMA LocalShape ==
    ASSUME AllLaidOut, Chosen, Shape, pc.at > 0, Local
    PROVE  Shape'
<1>1. /\ LaidOut(program.fns) /\ Len(frames) \in Nat /\ Len(frames) >= 1
      /\ Newest.depth \in Nat /\ pc \in [fn : DOMAIN program.fns, at : Nat]
      /\ Contained(Fun) /\ Inside
  BY Setting DEF Shape
<1>2. fp = Newest.depth + 2 /\ fp \in Nat /\ mem[fp] = Newest.fp
  BY <1>1 DEF Inside
<1>3. /\ program' = program /\ frames' = frames /\ fp' = fp /\ rax' = <<>>
      /\ IsSeq(mem') /\ Len(mem') = fp + Size(Fun) /\ IsFile(saved')
      /\ \A j \in 1..fp : mem'[j] = mem[j]
  BY DEF Local
<1>4. PICK n \in DOMAIN Fun.code : pc' = [pc EXCEPT !.at = n]
  BY DEF Local
<1>5. n \in Nat /\ pc' \in [fn : DOMAIN program.fns, at : Nat] /\ pc'.fn = pc.fn /\ pc'.at = n
  BY <1>1, <1>4 DEF Contained
<1>6. Linked(program.fns)' /\ Depths(frames)'
  BY <1>3 DEF Shape, Depths
<1>7. ASSUME NEW k \in 1..(Len(frames) - 1) PROVE Waits(program.fns, frames, mem', k)
  <2>1. k \in Nat /\ k \in 1..Len(frames) /\ k + 1 \in 1..Len(frames) /\ k + 1 <= Len(frames)
        /\ Len(frames) \in 1..Len(frames)
    BY <1>1
  <2>2. frames[k].depth \in Nat /\ frames[k + 1].depth \in Nat /\ frames[k + 1].depth <= Newest.depth
    BY <2>1 DEF Shape, Depths, Newest
  <2>3. Agree(frames, mem, frames, mem', k)
    BY <2>2, <1>1, <1>2, <1>3 DEF Agree
  <2> QED
    BY <1>1, <2>1, <2>2, <2>3, WaitsAgree DEF Shape
<1>8. BackOf(frames, mem', 1).fn = 0
  <2>1. frames[1].depth = 0 /\ BackOf(frames, mem, 1).fn = 0
    BY DEF Shape, Depths
  <2> QED
    BY <2>1, <1>2, <1>3, <1>1 DEF BackOf
<1>9. Inside'
  <2>1. Fun' = Fun /\ Newest' = Newest
    BY <1>3, <1>5 DEF Fun, Newest
  <2>2. mem'[fp] = mem[fp]
    BY <1>1, <1>2, <1>3
  <2> QED
    BY <2>1, <2>2, <1>2, <1>3, <1>4, <1>5 DEF Inside
<1> QED
  BY <1>3, <1>5, <1>6, <1>7, <1>8, <1>9 DEF Shape

LEMMA LocalHolds ==
    ASSUME AllLaidOut, Chosen, Shape, pc.at > 0, Local, Apart(Fun), Holding
    PROVE  Holding'
<1>1. /\ LaidOut(program.fns) /\ Len(frames) \in Nat /\ Len(frames) >= 1
      /\ Newest.depth \in Nat /\ pc \in [fn : DOMAIN program.fns, at : Nat]
      /\ Contained(Fun) /\ Inside
  BY Setting DEF Shape
<1>2. fp = Newest.depth + 2 /\ fp \in Nat
  BY <1>1 DEF Inside
<1>3. /\ program' = program /\ frames' = frames /\ fp' = fp
      /\ \A j \in 1..fp : mem'[j] = mem[j]
      /\ \A j \in 1..Fun.nsaved : mem'[fp + j] = mem[fp + j]
      /\ \A j \in (Fun.nsaved + 1)..NCallee : saved'[j] = saved[j]
  BY DEF Local
<1>4. PICK n \in DOMAIN Fun.code : pc' = [pc EXCEPT !.at = n]
  BY DEF Local
<1>5. n \in Nat /\ n > 0 /\ pc'.fn = pc.fn /\ pc'.at = n
  BY <1>1, <1>4 DEF Contained
<1>6. ASSUME NEW k \in 1..(Len(frames) - 1) PROVE Keeps(program.fns, frames, mem', k)
  <2>1. k \in Nat /\ k \in 1..Len(frames) /\ k + 1 \in 1..Len(frames) /\ k + 1 <= Len(frames)
        /\ Len(frames) \in 1..Len(frames)
    BY <1>1
  <2>2. frames[k].depth \in Nat /\ frames[k + 1].depth \in Nat /\ frames[k + 1].depth <= Newest.depth
    BY <2>1 DEF Shape, Depths, Newest
  <2>3. Agree(frames, mem, frames, mem', k)
    <3>1. \A j \in 1..(frames[k + 1].depth + 1) : j \in 1..fp
      BY ONLY <2>2, <1>1, <1>2
    <3> QED
      BY ONLY <3>1, <1>3 DEF Agree
  <2>4. Waits(program.fns, frames, mem, k) /\ Keeps(program.fns, frames, mem, k)
    BY DEF Shape, Holding
  <2> QED
    BY <1>1, <2>1, <2>2, <2>3, <2>4, KeepsAgree
<1>7. Fun' = Fun /\ Newest' = Newest
  BY <1>3, <1>5 DEF Fun, Newest
<1>8. /\ \A j \in 1..Fun.nsaved : mem'[fp + j] = Newest.saved[j]
      /\ \A j \in (Fun.nsaved + 1)..NCallee : saved'[j] = Newest.saved[j]
  BY <1>3 DEF Holding
<1> QED
  BY <1>3, <1>5, <1>6, <1>7, <1>8 DEF Holding

(***************************************************************************)
(* The steps that stay in an activation                                    *)
(***************************************************************************)

LEMMA InsideSteps ==
    ASSUME AllLaidOut, Chosen, Shape,
           Move \/ Arithmetic \/ Comparison \/ Not \/ RuntimeCall
    PROVE  pc.at > 0 /\ Local
<1>1. CASE Move
  <2>1. /\ pc.at > 0 /\ rax = <<>> /\ Insn.i \in {"mov", "box", "unbox"}
        /\ \E w : SetReg(<<Insn.d>>, w)
        /\ Next1 /\ UNCHANGED <<program, rax, fp, frames>>
    BY <1>1 DEF Move, At
  <2>2. Insn.d.n \in DOMAIN Fun.place /\ pc.at + 1 \in DOMAIN Fun.code
    BY <2>1, Here DEF Target
  <2> QED
    BY <2>1, <2>2, SetsLocal
<1>2. CASE Arithmetic
  <2>1. /\ pc.at > 0 /\ rax = <<>> /\ Insn.i = "bin"
        /\ \E w : SetReg(<<Insn.d>>, w)
        /\ Next1 /\ UNCHANGED <<program, rax, fp, frames>>
    BY <1>2 DEF Arithmetic, At
  <2>2. Insn.d.n \in DOMAIN Fun.place /\ pc.at + 1 \in DOMAIN Fun.code
    BY <2>1, Here DEF Target
  <2> QED
    BY <2>1, <2>2, SetsLocal
<1>3. CASE Comparison
  <2>1. /\ pc.at > 0 /\ rax = <<>> /\ Insn.i = "cmp"
        /\ \E w : SetReg(<<Insn.d>>, w)
        /\ Next1 /\ UNCHANGED <<program, rax, fp, frames>>
    BY <1>3 DEF Comparison, At
  <2>2. Insn.d.n \in DOMAIN Fun.place /\ pc.at + 1 \in DOMAIN Fun.code
    BY <2>1, Here DEF Target
  <2> QED
    BY <2>1, <2>2, SetsLocal
<1>4. CASE Not
  <2>1. /\ pc.at > 0 /\ rax = <<>> /\ Insn.i = "not"
        /\ \E w : SetReg(<<Insn.d>>, w)
        /\ Next1 /\ UNCHANGED <<program, rax, fp, frames>>
    BY <1>4 DEF Not, At
  <2>2. Insn.d.n \in DOMAIN Fun.place /\ pc.at + 1 \in DOMAIN Fun.code
    BY <2>1, Here DEF Target
  <2> QED
    BY <2>1, <2>2, SetsLocal
<1>5. CASE RuntimeCall
  <2>1. /\ pc.at > 0 /\ rax = <<>> /\ Insn.i = "rt"
        /\ \E w : SetReg(Insn.d, w)
        /\ Next1 /\ UNCHANGED <<program, rax, fp, frames>>
    BY <1>5 DEF RuntimeCall, At
  <2>2. (Insn.d # <<>> => Insn.d[1].n \in DOMAIN Fun.place) /\ pc.at + 1 \in DOMAIN Fun.code
    BY <2>1, Here DEF Target
  <2> QED
    BY <2>1, <2>2, SetsLocal
<1> QED
  BY <1>1, <1>2, <1>3, <1>4, <1>5

LEMMA ControlLocal ==
    ASSUME AllLaidOut, Chosen, Shape, Control \/ StoreElement
    PROVE  pc.at > 0 /\ Local
<1>1. CASE Control
  <2>1. /\ pc.at > 0 /\ rax = <<>> /\ Insn.i \in {"label", "jump", "branch"}
        /\ \/ Insn.i \in {"label", "branch"} /\ Goto(pc.at + 1)
           \/ Insn.i \in {"jump", "branch"} /\ Goto(Fun.target[Insn.to])
        /\ UNCHANGED <<program, rax, fp, frames, saved, mem>>
    BY <1>1 DEF Control, At, Next1, machine
  <2>2. \E n \in DOMAIN Fun.code : Goto(n)
    BY <2>1, Here
  <2> QED
    BY <2>1, <2>2, GoesLocal
<1>2. CASE StoreElement
  <2>1. /\ pc.at > 0 /\ rax = <<>> /\ Insn.i = "store" /\ Goto(pc.at + 1)
        /\ UNCHANGED <<program, rax, fp, frames, saved, mem>>
    BY <1>2 DEF StoreElement, At, Next1, machine
  <2>2. pc.at + 1 \in DOMAIN Fun.code
    BY <2>1, Here
  <2> QED
    BY <2>1, <2>2, GoesLocal
<1> QED
  BY <1>1, <1>2

LEMMA ResumeLocal ==
    ASSUME AllLaidOut, Chosen, Shape, Resume
    PROVE  pc.at > 0 /\ Local
<1>1. rax # <<>> /\ pc.at > 0
  BY Setting DEF Resume, Entering
<1>2. /\ fp \in Nat /\ IsSeq(mem) /\ IsFile(saved) /\ Placed(Fun)
      /\ Size(Fun) \in Nat /\ Fun.nsaved \in 0..NCallee /\ PushedFor(Insn) \in Nat
      /\ Len(mem) = fp + Size(Fun) + PushedFor(Insn)
      /\ Insn.i \in {"call", "calldyn"} /\ pc.at + 1 \in DOMAIN Fun.code
      /\ Insn.d # <<>> => Insn.d[1].n \in DOMAIN Fun.place
      /\ Fun.nsaved <= Size(Fun)
  BY <1>1, Here, Setting, PlacedSize DEF Target
<1> DEFINE m == SubSeq(mem, 1, Len(mem) - PushedFor(Insn))
           st == [saved |-> saved, mem |-> m]
           st2 == Written(Fun, fp, st, Insn.d[1].n, rax[1])
<1>3. Len(mem) - PushedFor(Insn) = fp + Size(Fun) /\ fp + Size(Fun) \in Nat /\ fp + Size(Fun) <= Len(mem)
  BY <1>2
<1>4. IsSeq(m) /\ Len(m) = fp + Size(Fun) /\ \A j \in 1..(fp + Size(Fun)) : m[j] = mem[j]
  BY <1>2, <1>3, PrefixAny
<1>5. /\ saved' = IF Insn.d = <<>> THEN st.saved ELSE st2.saved
      /\ mem' = IF Insn.d = <<>> THEN st.mem ELSE st2.mem
      /\ rax' = <<>> /\ Next1 /\ program' = program /\ fp' = fp /\ frames' = frames
  <2>1. CASE Insn.d = <<>>
    BY <2>1 DEF Resume
  <2>2. CASE Insn.d # <<>>
    BY <2>2 DEF Resume
  <2> QED
    BY <2>1, <2>2
<1> HIDE DEF m
<1>6. Untouched(Fun, fp, st, [saved |-> saved', mem |-> mem'])
  <2>1. CASE Insn.d = <<>>
    BY <2>1, <1>2, <1>4, <1>5 DEF Untouched
  <2>2. CASE Insn.d # <<>>
    <3>1. Untouched(Fun, fp, st, st2)
      BY <2>2, <1>2, <1>4, WrittenKeeps
    <3> HIDE DEF st2
    <3> QED
      BY <2>2, <3>1, <1>5 DEF Untouched
  <2> QED
    BY <2>1, <2>2
<1>7. /\ \A j \in 1..fp : m[j] = mem[j]
      /\ \A j \in 1..Fun.nsaved : m[fp + j] = mem[fp + j]
  <2>1. Fun.nsaved \in Nat
    BY <1>2 DEF NCallee
  <2>2. \A j \in 1..fp : j \in 1..(fp + Size(Fun))
    BY <1>2
  <2>3. \A j \in 1..Fun.nsaved : fp + j \in 1..(fp + Size(Fun))
    BY <1>2, <2>1
  <2> QED
    BY <1>4, <2>2, <2>3
<1>8. \E n \in DOMAIN Fun.code : pc' = [pc EXCEPT !.at = n]
  BY <1>2, <1>5 DEF Next1, Goto
<1> QED
  BY <1>1, <1>4, <1>5, <1>6, <1>7, <1>8 DEF Untouched, Local

(***************************************************************************)
(* Calls                                                                   *)
(***************************************************************************)

\* a call from the newest activation to function g
Calls(g, over) ==
    /\ program' = program /\ pc' = [fn |-> g, at |-> 0] /\ rax' = rax
    /\ saved' = saved /\ fp' = fp
    /\ IsSeq(mem') /\ Len(mem') = Len(mem) + over + 1
    /\ \A j \in 1..Len(mem) : mem'[j] = mem[j]
    /\ mem'[Len(mem) + over + 1] = [back |-> pc]
    /\ frames' = Append(frames, [saved |-> saved, fp |-> fp, depth |-> Len(mem) + over])

LEMMA EnterCalls ==
    ASSUME IsSeq(mem), NEW g, NEW ws, NEW over \in Nat, Enter(g, ws, over),
           UNCHANGED <<program, rax, saved, fp>>
    PROVE  Calls(g, over)
<1> DEFINE pad == [j \in 1..over |-> Junk]
           word == <<[back |-> pc]>>
<1>1. IsSeq(pad) /\ Len(pad) = over
  BY FunIsSeq
<1>2. IsSeq(word) /\ Len(word) = 1 /\ word[1] = [back |-> pc]
  BY DEF IsSeq
<1>3. mem' = (mem \o pad) \o word
  BY DEF Enter
<1>4. Len(mem) \in Nat
  BY DEF IsSeq
<1> HIDE DEF pad, word
<1>5. /\ IsSeq(mem \o pad) /\ Len(mem \o pad) = Len(mem) + over
      /\ \A j \in 1..Len(mem) : (mem \o pad)[j] = mem[j]
  BY <1>1, CatAny
<1> DEFINE low == mem \o pad
<1> HIDE DEF low
<1>6. /\ IsSeq(mem') /\ Len(mem') = Len(mem) + over + 1
      /\ \A j \in 1..(Len(mem) + over) : mem'[j] = low[j]
      /\ mem'[Len(mem) + over + 1] = word[1]
  <2>1. IsSeq(low) /\ Len(low) = Len(mem) + over /\ mem' = low \o word
    BY <1>3, <1>5 DEF low
  <2>2. /\ IsSeq(mem') /\ Len(mem') = Len(low) + Len(word)
        /\ \A j \in 1..Len(low) : mem'[j] = low[j]
        /\ \A j \in 1..Len(word) : mem'[Len(low) + j] = word[j]
    <3>1. IsSeq(low) /\ IsSeq(word)
      BY <1>2, <2>1
    <3>2. /\ IsSeq(low \o word) /\ Len(low \o word) = Len(low) + Len(word)
          /\ \A j \in 1..Len(low) : (low \o word)[j] = low[j]
          /\ \A j \in 1..Len(word) : (low \o word)[Len(low) + j] = word[j]
      BY <3>1, CatAny
    <3> QED
      BY ONLY <2>1, <3>2
  <2>3. 1 \in 1..1 /\ Len(low) + 1 = Len(mem) + over + 1 /\ Len(mem) + over + 1 = (Len(mem) + over) + 1
    BY <1>4, <2>1
  <2>4. mem'[Len(low) + 1] = word[1]
    BY <1>2, <2>2, <2>3
  <2> QED
    BY <1>2, <2>1, <2>2, <2>3, <2>4
<1>7. \A j \in 1..Len(mem) : mem'[j] = mem[j]
  <2>1. \A j \in 1..Len(mem) : j \in 1..(Len(mem) + over)
    BY <1>4
  <2> QED
    BY <1>5, <1>6, <2>1 DEF low
<1> QED
  BY <1>2, <1>6, <1>7 DEF Enter, Calls

LEMMA CallsShape ==
    ASSUME AllLaidOut, Chosen, Shape, pc.at > 0, rax = <<>>, Insn.i \in {"call", "calldyn"},
           NEW g \in DOMAIN program.fns, Calls(g, PushedFor(Insn))
    PROVE  Shape'
<1> DEFINE over == PushedFor(Insn)
           top == Len(frames)
           new == [saved |-> saved, fp |-> fp, depth |-> Len(mem) + over]
<1>1. /\ LaidOut(program.fns) /\ top \in Nat /\ top >= 1 /\ top \in 1..top
      /\ frames[top].depth \in Nat /\ frames[top].depth % 2 = 0
      /\ pc \in [fn : DOMAIN program.fns, at : Nat] /\ IsSeq(frames) /\ IsSeq(mem) /\ IsFile(saved)
      /\ Inside /\ Placed(Fun)
  BY Setting DEF Shape, Depths, Newest
<1>2. /\ fp = frames[top].depth + 2 /\ Size(Fun) \in Nat /\ Size(Fun) % 2 = 0 /\ over \in Nat /\ over % 2 = 0
      /\ Len(mem) = fp + Size(Fun) /\ pc.at \in DOMAIN Fun.code
  BY <1>1, Here, PlacedSize DEF Newest
<1>3. mem[fp] = frames[top].fp
  BY <1>1 DEF Inside, Newest
<1>4. /\ program' = program /\ pc' = [fn |-> g, at |-> 0] /\ rax' = <<>>
      /\ saved' = saved /\ fp' = fp
      /\ IsSeq(mem') /\ Len(mem') = Len(mem) + over + 1
      /\ \A j \in 1..Len(mem) : mem'[j] = mem[j]
      /\ mem'[Len(mem) + over + 1] = [back |-> pc]
      /\ frames' = Append(frames, new)
  BY DEF Calls
<1> HIDE DEF over
<1>5. /\ new.depth \in Nat /\ new.depth % 2 = 0 /\ frames[top].depth + 2 <= new.depth
      /\ new.depth = frames[top].depth + 2 + Size(Fun) + over
      /\ new.depth = Len(mem) + over /\ new.fp = fp /\ new.saved = saved
      /\ frames[top].depth + 2 <= Len(mem)
  <2>1. new.depth = Len(mem) + over /\ new.fp = fp /\ new.saved = saved
    OBVIOUS
  <2> HIDE DEF new, top
  <2> DEFINE d == frames[top].depth
             w == Size(Fun)
  <2>2. d \in Nat /\ d % 2 = 0 /\ w \in Nat /\ w % 2 = 0 /\ over \in Nat /\ over % 2 = 0
        /\ Len(mem) = (d + 2) + w
    BY <1>1, <1>2
  <2> HIDE DEF d, w
  <2>3. /\ d + 2 + w + over \in Nat /\ (d + 2 + w + over) % 2 = 0 /\ d + 2 <= d + 2 + w + over
        /\ Len(mem) + over = d + 2 + w + over /\ d + 2 <= Len(mem)
    BY <2>2
  <2> QED
    BY <2>1, <2>3 DEF d, w
<1> HIDE DEF new, top
<1>6. /\ IsSeq(frames') /\ Len(frames') = top + 1
      /\ \A k \in 1..top : frames'[k] = frames[k]
      /\ frames'[top + 1] = new
  BY <1>1, <1>4, AppendAny DEF top
<1>7. Depths(frames')
  <2>1. /\ \A k \in 1..top : frames[k].depth \in Nat /\ frames[k].depth % 2 = 0
        /\ \A k, l \in 1..top : k <= l => frames[k].depth <= frames[l].depth
        /\ frames[1].depth = 0
    BY DEF Shape, Depths, top
  <2>2. ASSUME NEW k \in 1..(top + 1)
        PROVE  frames'[k].depth \in Nat /\ frames'[k].depth % 2 = 0
    <3>1. CASE k = top + 1
      BY <3>1, <1>5, <1>6
    <3>2. CASE k # top + 1
      <4>1. k \in 1..top
        BY <3>2, <1>1
      <4> QED
        BY <4>1, <1>6, <2>1
    <3> QED
      BY <3>1, <3>2
  <2>3. ASSUME NEW k \in 1..(top + 1), NEW l \in 1..(top + 1), k <= l
        PROVE  frames'[k].depth <= frames'[l].depth
    <3>1. CASE k = top + 1
      <4>1. l = k
        BY <3>1, <2>3, <1>1
      <4> QED
        BY <4>1, <2>2
    <3>2. CASE k # top + 1 /\ l = top + 1
      <4>1. k \in 1..top
        BY <3>2, <1>1
      <4>2. frames[k].depth \in Nat /\ frames[k].depth <= frames[top].depth
        BY <4>1, <1>1, <2>1
      <4> QED
        BY <3>2, <4>1, <4>2, <1>1, <1>5, <1>6
    <3>3. CASE k # top + 1 /\ l # top + 1
      <4>1. k \in 1..top /\ l \in 1..top
        BY <3>3, <1>1
      <4> QED
        BY <4>1, <2>3, <1>6, <2>1
    <3> QED
      BY <3>1, <3>2, <3>3
  <2>4. frames'[1].depth = 0
    BY <1>1, <1>6, <2>1
  <2> QED
    BY <1>1, <1>6, <2>2, <2>3, <2>4 DEF Depths
<1>8. ASSUME NEW k \in 1..top PROVE Waits(program.fns, frames', mem', k)
  <2>1. CASE k = top
    <3>1. BackOf(frames', mem', k + 1) = pc
      BY <2>1, <1>4, <1>5, <1>6 DEF BackOf
    <3>2. CallSite(program.fns, pc)
      BY <1>1, <1>2 DEF CallSite, Fun, Insn
    <3>3. frames'[k] = frames[top] /\ frames'[k + 1] = new
      BY <2>1, <1>1, <1>6
    <3>4. mem'[frames[top].depth + 2] = frames[top].fp
      <4>1. frames[top].depth + 2 \in 1..Len(mem)
        <5>1. Len(mem) \in Nat
          BY <1>1 DEF IsSeq
        <5> QED
          BY <5>1, <1>1, <1>5
      <4> QED
        BY <4>1, <1>2, <1>3, <1>4
    <3> QED
      BY <3>1, <3>2, <3>3, <3>4, <1>2, <1>5 DEF Waits, Fun, Insn, over
  <2>2. CASE k # top
    <3>1. k \in Nat /\ k \in 1..(top - 1) /\ k + 1 \in 1..top /\ k + 1 <= top
      BY <2>2, <1>1
    <3>2. frames[k].depth \in Nat /\ frames[k + 1].depth \in Nat /\ frames[k + 1].depth <= frames[top].depth
      BY <3>1, <1>1 DEF Shape, Depths, top
    <3>3. Agree(frames, mem, frames', mem', k)
      <4>1. \A j \in 1..(frames[k + 1].depth + 1) : j \in 1..Len(mem)
        <5> DEFINE a == frames[k + 1].depth
                   b == frames[top].depth
        <5>1. a \in Nat /\ a <= b /\ b \in Int /\ Len(mem) \in Int /\ b + 1 <= Len(mem)
          BY <3>2, <1>1, <1>5
        <5> HIDE DEF a, b
        <5>2. \A j \in 1..(a + 1) : j \in 1..Len(mem)
          BY ONLY <5>1
        <5> QED
          BY ONLY <5>2 DEF a
      <4>2. k \in 1..top
        BY <3>1, <1>1
      <4> QED
        BY <3>1, <4>1, <4>2, <1>4, <1>6 DEF Agree
    <3>4. Waits(program.fns, frames, mem, k)
      BY <3>1 DEF Shape, top
    <3> QED
      BY <1>1, <3>1, <3>2, <3>3, <3>4, WaitsAgree
  <2> QED
    BY <2>1, <2>2
<1>9. BackOf(frames', mem', 1).fn = 0
  <2>1. frames[1].depth = 0 /\ BackOf(frames, mem, 1).fn = 0
    BY DEF Shape, Depths
  <2>2. frames'[1] = frames[1] /\ mem'[1] = mem[1]
    <3>1. 1 \in 1..top /\ 1 \in 1..Len(mem)
      <4> DEFINE b == frames[top].depth
      <4>1. b \in Nat /\ b + 1 <= Len(mem) /\ Len(mem) \in Int /\ top \in Nat /\ top >= 1
        BY <1>1, <1>5
      <4> HIDE DEF b, top
      <4> QED
        BY ONLY <4>1
    <3> QED
      BY <3>1, <1>4, <1>6
  <2> QED
    BY <2>1, <2>2 DEF BackOf
<1>10. Entering'
  BY <1>1, <1>4, <1>5, <1>6 DEF Entering, Newest
<1>11. pc' \in [fn : DOMAIN program.fns, at : Nat] /\ Linked(program.fns)'
  BY <1>4 DEF Shape
<1>12. (Len(frames') - 1) = top
  BY <1>1, <1>6
<1> QED
  BY <1>1, <1>4, <1>7, <1>8, <1>9, <1>10, <1>11, <1>12 DEF Shape

LEMMA CallsHold ==
    ASSUME AllLaidOut, Chosen, Shape, pc.at > 0, rax = <<>>, Insn.i \in {"call", "calldyn"},
           NEW g \in DOMAIN program.fns, Calls(g, PushedFor(Insn)), Holding
    PROVE  Holding'
<1> DEFINE over == PushedFor(Insn)
           top == Len(frames)
           new == [saved |-> saved, fp |-> fp, depth |-> Len(mem) + over]
<1>1. /\ LaidOut(program.fns) /\ top \in Nat /\ top >= 1 /\ top \in 1..top
      /\ frames[top].depth \in Nat
      /\ IsSeq(frames) /\ IsSeq(mem) /\ IsFile(saved) /\ Placed(Fun)
  BY Setting DEF Shape, Depths, Newest
<1>2. /\ fp = frames[top].depth + 2 /\ Size(Fun) \in Nat /\ over \in Nat
      /\ Len(mem) = fp + Size(Fun) /\ Fun.nsaved \in 0..NCallee /\ Fun.nsaved <= Size(Fun)
  BY <1>1, Here, PlacedSize DEF Newest
<1>3. /\ fp \in Nat /\ fp <= Len(mem) /\ Len(mem) \in Nat /\ frames[top].depth + 2 <= Len(mem)
      /\ Fun.nsaved \in Nat /\ \A j \in 1..Fun.nsaved : fp + j \in 1..Len(mem)
  <2> HIDE DEF top
  <2> DEFINE d == frames[top].depth
             w == Size(Fun)
             n == Fun.nsaved
  <2>1. d \in Nat /\ w \in Nat /\ n \in Nat /\ n <= w /\ fp = d + 2 /\ Len(mem) = fp + w
    BY <1>1, <1>2 DEF NCallee
  <2> HIDE DEF d, w, n
  <2>2. /\ fp \in Nat /\ fp <= Len(mem) /\ Len(mem) \in Nat /\ d + 2 <= Len(mem)
        /\ \A j \in 1..n : fp + j \in 1..Len(mem)
    BY <2>1
  <2> QED
    BY <2>1, <2>2 DEF d, n
<1>4. /\ program' = program /\ pc' = [fn |-> g, at |-> 0]
      /\ saved' = saved
      /\ \A j \in 1..Len(mem) : mem'[j] = mem[j]
      /\ mem'[Len(mem) + over + 1] = [back |-> pc]
      /\ frames' = Append(frames, new)
  BY DEF Calls
<1> HIDE DEF over
<1>5. new.depth = Len(mem) + over /\ new.saved = saved
  OBVIOUS
<1> HIDE DEF new, top
<1>6. /\ Len(frames') = top + 1
      /\ \A k \in 1..top : frames'[k] = frames[k]
      /\ frames'[top + 1] = new
  BY <1>1, <1>4, AppendAny DEF top
<1>7. ASSUME NEW k \in 1..Len(frames') PROVE IsFile(frames'[k].saved)
  <2>1. CASE k = top + 1
    BY <2>1, <1>1, <1>5, <1>6
  <2>2. CASE k # top + 1
    <3>1. k \in 1..top
      BY <2>2, <1>1, <1>6
    <3> QED
      BY <3>1, <1>6 DEF Holding, top
  <2> QED
    BY <2>1, <2>2
<1>8. ASSUME NEW k \in 1..top PROVE Keeps(program.fns, frames', mem', k)
  <2>1. CASE k = top
    <3>1. BackOf(frames', mem', k + 1) = pc
      BY <2>1, <1>4, <1>5, <1>6 DEF BackOf
    <3>2. frames'[k] = frames[top] /\ frames'[k + 1] = new
      BY <2>1, <1>1, <1>6
    <3>3. /\ \A j \in 1..Fun.nsaved : mem[fp + j] = frames[top].saved[j]
          /\ \A j \in (Fun.nsaved + 1)..NCallee : saved[j] = frames[top].saved[j]
      BY DEF Holding, Newest, top
    <3>4. ASSUME NEW j \in 1..Fun.nsaved PROVE mem'[frames[top].depth + 2 + j] = frames[top].saved[j]
      <4>1. fp + j \in 1..Len(mem) /\ frames[top].depth + 2 + j = fp + j
        BY <1>2, <1>3
      <4> QED
        BY <4>1, <1>4, <3>3
    <3> QED
      BY <3>1, <3>2, <3>3, <3>4, <1>5 DEF Keeps, Fun
  <2>2. CASE k # top
    <3>1. k \in Nat /\ k \in 1..(top - 1) /\ k + 1 \in 1..top /\ k + 1 <= top
      BY <2>2, <1>1
    <3>2. frames[k].depth \in Nat /\ frames[k + 1].depth \in Nat /\ frames[k + 1].depth <= frames[top].depth
      BY <3>1, <1>1 DEF Shape, Depths, top
    <3>3. Agree(frames, mem, frames', mem', k)
      <4>1. \A j \in 1..(frames[k + 1].depth + 1) : j \in 1..Len(mem)
        BY <3>2, <1>1, <1>3
      <4>2. k \in 1..top
        BY <3>1, <1>1
      <4> QED
        BY <3>1, <4>1, <4>2, <1>4, <1>6 DEF Agree
    <3>4. Waits(program.fns, frames, mem, k) /\ Keeps(program.fns, frames, mem, k)
      BY <3>1 DEF Shape, Holding, top
    <3> QED
      BY <1>1, <3>1, <3>2, <3>3, <3>4, KeepsAgree
  <2> QED
    BY <2>1, <2>2
<1>9. Len(frames') - 1 = top /\ frames'[Len(frames')].saved = saved /\ pc'.at = 0
  BY <1>1, <1>4, <1>5, <1>6
<1> QED
  BY <1>4, <1>7, <1>8, <1>9 DEF Holding, Newest

(***************************************************************************)
(* The prologue                                                            *)
(***************************************************************************)

LEMMA ArrivingNone ==
    ASSUME Placed(Fun), NEW j \in Int
    PROVE  /\ j <= 0 => Arriving("slot", j) = {}
           /\ Apart(Fun) /\ j \in 1..Fun.nsaved => Arriving("slot", j) = {}
           /\ j > Fun.nsaved => Arriving("reg", j) = {}
<1>1. ASSUME NEW m \in DOMAIN Fun.params, NEW k, Fun.place[Fun.params[m]] = [k |-> k, j |-> j]
      PROVE  /\ k = "slot" => j >= 1 /\ (Apart(Fun) => j \notin 1..Fun.nsaved)
             /\ k = "reg" => j <= Fun.nsaved
  <2>1. Fun.params[m] \in DOMAIN Fun.place /\ Fun.nsaved \in 0..NCallee
    BY DEF Placed
  <2>2. \/ \E l \in 1..Fun.nsaved : Fun.place[Fun.params[m]] = [k |-> "reg", j |-> l]
        \/ \E l \in 1..Fun.frame : Fun.place[Fun.params[m]] = [k |-> "slot", j |-> l]
        \/ Fun.place[Fun.params[m]] = [k |-> "none", j |-> 0]
    BY <2>1 DEF Placed
  <2>3. \/ k = "reg" /\ j \in 1..Fun.nsaved
        \/ k = "slot" /\ j \in 1..Fun.frame
        \/ k = "none"
    <3> DEFINE p == Fun.place[Fun.params[m]]
    <3>1. p.k = k /\ p.j = j
      BY <1>1
    <3>2. \/ p.k = "reg" /\ p.j \in 1..Fun.nsaved
          \/ p.k = "slot" /\ p.j \in 1..Fun.frame
          \/ p.k = "none"
      <4>1. CASE \E l \in 1..Fun.nsaved : p = [k |-> "reg", j |-> l]
        <5>1. PICK l \in 1..Fun.nsaved : p = [k |-> "reg", j |-> l]
          BY <4>1
        <5> QED
          BY <5>1
      <4>2. CASE \E l \in 1..Fun.frame : p = [k |-> "slot", j |-> l]
        <5>1. PICK l \in 1..Fun.frame : p = [k |-> "slot", j |-> l]
          BY <4>2
        <5> QED
          BY <5>1
      <4>3. CASE p = [k |-> "none", j |-> 0]
        BY <4>3
      <4> QED
        BY <2>2, <4>1, <4>2, <4>3
    <3> HIDE DEF p
    <3> QED
      BY <3>1, <3>2
  <2>4. k = "slot" /\ Apart(Fun) => j \notin 1..Fun.nsaved
    BY <1>1, <2>1 DEF Apart
  <2> QED
    BY <2>1, <2>3, <2>4 DEF NCallee
<1>2. Fun.nsaved \in Nat
  BY DEF Placed, NCallee
<1> QED
  BY <1>1, <1>2 DEF Arriving

Enters ==
    /\ program' = program /\ frames' = frames /\ rax' = rax
    /\ pc' = [pc EXCEPT !.at = 1]
    /\ fp' = Len(mem) + 1
    /\ IsSeq(mem') /\ Len(mem') = Len(mem) + 1 + Size(Fun)
    /\ \A j \in 1..Len(mem) : mem'[j] = mem[j]
    /\ mem'[Len(mem) + 1] = fp
    /\ Apart(Fun) => \A j \in 1..Fun.nsaved : mem'[Len(mem) + 1 + j] = saved[j]
    /\ IsFile(saved')
    /\ \A j \in (Fun.nsaved + 1)..NCallee : saved'[j] = saved[j]

LEMMA PrologueEnters ==
    ASSUME Placed(Fun), IsSeq(mem), IsFile(saved), Prologue
    PROVE  Enters
<1> DEFINE n == Fun.nsaved
           L == Len(mem)
           base == L + 1
           regs == SubSeq(saved, 1, n)
           pad == [j \in 1..((n % 2) + Fun.frame) |-> Junk]
           low == Append(mem, fp)
           mid == low \o regs
           pushed == mid \o pad
<1>1. n \in 0..NCallee /\ n \in Nat /\ Fun.frame \in Nat /\ L \in Nat /\ n <= NCallee
      /\ (n % 2) + Fun.frame \in Nat /\ Size(Fun) = n + ((n % 2) + Fun.frame)
  BY DEF Placed, NCallee, IsSeq, Size
<1>2. IsSeq(saved) /\ Len(saved) = NCallee
  BY FunIsSeq DEF IsFile, NCallee
<1>3. IsSeq(regs) /\ Len(regs) = n /\ \A j \in 1..n : regs[j] = saved[j]
  BY <1>1, <1>2, PrefixAny
<1>4. IsSeq(pad) /\ Len(pad) = (n % 2) + Fun.frame
  BY <1>1, FunIsSeq
<1>5. IsSeq(low) /\ Len(low) = L + 1 /\ (\A j \in 1..L : low[j] = mem[j]) /\ low[L + 1] = fp
  BY AppendAny
<1>6. /\ fp' = base
      /\ saved' = [j \in 1..NCallee |-> Stored("reg", j, saved[j])]
      /\ mem' = [j \in 1..Len(pushed) |-> Stored("slot", j - base, pushed[j])]
      /\ program' = program /\ frames' = frames /\ rax' = rax /\ pc' = [pc EXCEPT !.at = 1]
  BY DEF Prologue, Goto
<1> HIDE DEF low, regs, pad
<1>7. /\ IsSeq(mid) /\ Len(mid) = (L + 1) + n
      /\ \A j \in 1..Len(low) : mid[j] = low[j]
      /\ \A j \in 1..n : mid[Len(low) + j] = regs[j]
  <2>1. /\ IsSeq(mid) /\ Len(mid) = Len(low) + Len(regs)
        /\ \A j \in 1..Len(low) : mid[j] = low[j]
        /\ \A j \in 1..Len(regs) : mid[Len(low) + j] = regs[j]
    <3>1. IsSeq(low) /\ IsSeq(regs)
      BY <1>3, <1>5
    <3> QED
      BY ONLY <3>1, CatAny
  <2> HIDE DEF mid
  <2> QED
    BY <2>1, <1>3, <1>5
<1> HIDE DEF mid
<1>8. /\ IsSeq(pushed) /\ Len(pushed) = Len(mid) + ((n % 2) + Fun.frame)
      /\ \A j \in 1..Len(mid) : pushed[j] = mid[j]
  <2>1. /\ IsSeq(pushed) /\ Len(pushed) = Len(mid) + Len(pad)
        /\ \A j \in 1..Len(mid) : pushed[j] = mid[j]
    <3>1. IsSeq(mid) /\ IsSeq(pad)
      BY ONLY <1>4, <1>7
    <3> QED
      BY ONLY <3>1, CatAny
  <2> HIDE DEF pushed
  <2> QED
    BY <2>1, <1>4
<1> HIDE DEF pushed
<1>9. Len(pushed) = L + 1 + Size(Fun) /\ Len(pushed) \in Nat /\ n + (L + 1) <= Len(pushed)
  <2> DEFINE e == (n % 2) + Fun.frame
  <2>1. /\ L \in Nat /\ n \in Nat /\ e \in Nat /\ Size(Fun) = n + e
        /\ Len(pushed) = Len(mid) + e /\ Len(mid) = (L + 1) + n
    BY ONLY <1>1, <1>7, <1>8
  <2> HIDE DEF e
  <2> QED
    BY ONLY <2>1
<1>10. IsSeq(mem') /\ Len(mem') = L + 1 + Size(Fun)
  <2>1. DOMAIN mem' = 1..Len(pushed) /\ mem' = [j \in 1..Len(pushed) |-> mem'[j]]
    BY <1>6
  <2> QED
    BY <2>1, <1>9, FunIsSeq
<1>11. ASSUME NEW j \in 1..Len(pushed), Arriving("slot", j - base) = {} PROVE mem'[j] = pushed[j]
  BY <1>6, <1>11 DEF Stored
<1>12. ASSUME NEW j \in 1..(L + 1) PROVE mem'[j] = low[j]
  <2>1. j \in 1..Len(low) /\ j \in 1..Len(mid) /\ j \in 1..Len(pushed) /\ j - base \in Int /\ j - base <= 0
    BY <1>1, <1>5, <1>7, <1>9
  <2>2. Arriving("slot", j - base) = {}
    BY <2>1, ArrivingNone
  <2> QED
    BY <2>1, <2>2, <1>7, <1>8, <1>11
<1>13. /\ \A j \in 1..L : mem'[j] = mem[j]
       /\ mem'[L + 1] = fp
  <2>1. L + 1 \in 1..(L + 1) /\ \A j \in 1..L : j \in 1..(L + 1)
    BY <1>1
  <2> QED
    BY <2>1, <1>5, <1>12
<1>14. ASSUME Apart(Fun), NEW j \in 1..n PROVE mem'[L + 1 + j] = saved[j]
  <2>1. /\ L + 1 + j \in 1..Len(mid) /\ L + 1 + j \in 1..Len(pushed) /\ (L + 1 + j) - base = j
        /\ L + 1 + j = Len(low) + j /\ j \in Int
    <3>1. /\ L \in Nat /\ n \in Nat /\ j \in 1..n /\ Len(low) = L + 1 /\ Len(mid) = (L + 1) + n
          /\ n + (L + 1) <= Len(pushed) /\ Len(pushed) \in Nat /\ base = L + 1
      BY <1>1, <1>5, <1>7, <1>9
    <3> HIDE DEF n, base
    <3> QED
      BY ONLY <3>1
  <2>2. Arriving("slot", (L + 1 + j) - base) = {}
    BY <1>14, <2>1, ArrivingNone
  <2>3. mem'[L + 1 + j] = mid[L + 1 + j]
    BY <2>1, <2>2, <1>8, <1>11
  <2> QED
    BY <2>1, <2>3, <1>3, <1>7
<1>15. ASSUME NEW j \in (n + 1)..NCallee PROVE saved'[j] = saved[j]
  <2>1. j \in 1..NCallee /\ j \in Int /\ j > n
    BY <1>1 DEF NCallee
  <2>2. Arriving("reg", j) = {}
    BY <2>1, ArrivingNone
  <2> QED
    BY <2>1, <2>2, <1>6 DEF Stored
<1>16. IsFile(saved')
  BY <1>6 DEF IsFile
<1> QED
  BY <1>6, <1>10, <1>13, <1>14, <1>15, <1>16 DEF Enters

LEMMA EntersShape ==
    ASSUME AllLaidOut, Chosen, Shape, pc.at = 0, Enters
    PROVE  Shape'
<1>1. /\ LaidOut(program.fns) /\ Contained(Fun) /\ Placed(Fun) /\ Size(Fun) \in Nat
      /\ Len(frames) \in Nat /\ Len(frames) >= 1 /\ Len(frames) \in 1..Len(frames)
      /\ Newest.depth \in Nat /\ pc \in [fn : DOMAIN program.fns, at : Nat]
      /\ Depths(frames) /\ Entering
  BY Setting, PlacedSize DEF Shape
<1>2. rax = <<>> /\ Len(mem) = Newest.depth + 1 /\ fp = Newest.fp
  BY <1>1 DEF Entering
<1>3. /\ program' = program /\ frames' = frames /\ rax' = <<>>
      /\ pc' = [pc EXCEPT !.at = 1] /\ fp' = Newest.depth + 2
      /\ IsSeq(mem') /\ Len(mem') = fp' + Size(Fun) /\ IsFile(saved')
      /\ \A j \in 1..(Newest.depth + 1) : mem'[j] = mem[j]
      /\ mem'[fp'] = Newest.fp
  BY <1>1, <1>2 DEF Enters
<1>4. pc' \in [fn : DOMAIN program.fns, at : Nat] /\ pc'.fn = pc.fn /\ pc'.at = 1
  BY <1>1, <1>3
<1>5. Linked(program.fns)' /\ Depths(frames)'
  BY <1>3 DEF Shape, Depths
<1>6. /\ \A k \in 1..(Len(frames) - 1) : Waits(program.fns, frames, mem', k)
      /\ BackOf(frames, mem', 1) = BackOf(frames, mem, 1)
  <2>1. \A j \in 1..(frames[Len(frames)].depth + 1) : mem'[j] = mem[j]
    BY <1>3 DEF Newest
  <2>2. \A k \in 1..(Len(frames) - 1) : Waits(program.fns, frames, mem, k)
    BY DEF Shape
  <2> QED
    <3>1. LaidOut(program.fns) /\ Depths(frames) /\ Len(frames) \in 1..Len(frames)
      BY <1>1
    <3>2. \A k \in 1..Len(frames) : frames[k] = frames[k]
      OBVIOUS
    <3> QED
      BY ONLY <3>1, <3>2, <2>1, <2>2, WaitsBelow
<1>7. Fun' = Fun /\ Newest' = Newest
  BY <1>3, <1>4 DEF Fun, Newest
<1>8. Inside'
  BY <1>1, <1>3, <1>4, <1>7 DEF Inside, Contained
<1> QED
  BY <1>3, <1>4, <1>5, <1>6, <1>8 DEF Shape

LEMMA EntersHold ==
    ASSUME AllLaidOut, Chosen, Shape, pc.at = 0, Enters, Apart(Fun), Holding
    PROVE  Holding'
<1>1. /\ LaidOut(program.fns)
      /\ Len(frames) \in Nat /\ Len(frames) >= 1 /\ Len(frames) \in 1..Len(frames)
      /\ Newest.depth \in Nat /\ pc \in [fn : DOMAIN program.fns, at : Nat]
      /\ Depths(frames) /\ Entering
  BY Setting DEF Shape
<1>2. Len(mem) = Newest.depth + 1 /\ saved = Newest.saved
  BY <1>1 DEF Entering, Holding
<1>3. /\ program' = program /\ frames' = frames
      /\ pc' = [pc EXCEPT !.at = 1] /\ fp' = Len(mem) + 1
      /\ \A j \in 1..(Newest.depth + 1) : mem'[j] = mem[j]
      /\ \A j \in 1..Fun.nsaved : mem'[fp' + j] = saved[j]
      /\ \A j \in (Fun.nsaved + 1)..NCallee : saved'[j] = saved[j]
  BY <1>2 DEF Enters
<1>4. pc'.fn = pc.fn /\ pc'.at = 1
  BY <1>1, <1>3
<1>5. \A k \in 1..(Len(frames) - 1) : Keeps(program.fns, frames, mem', k)
  BY <1>1, <1>3, WaitsBelow DEF Shape, Holding, Newest
<1>6. Fun' = Fun /\ Newest' = Newest
  BY <1>3, <1>4 DEF Fun, Newest
<1> QED
  BY <1>2, <1>3, <1>4, <1>5, <1>6 DEF Holding

(***************************************************************************)
(* The return                                                              *)
(***************************************************************************)

LEMMA Before ==
    ASSUME NEW n \in Nat, n >= 1, n # 1
    PROVE  /\ n - 1 \in Nat /\ n - 1 >= 1 /\ n - 1 \in 1..(n - 1) /\ n - 1 \in 1..n
           /\ (n - 1) + 1 = n /\ n - 1 <= n
  OBVIOUS

Returns ==
    /\ program' = program /\ rax' # <<>>
    /\ pc' = BackOf(frames, mem, Len(frames))
    /\ fp' = Newest.fp
    /\ IsSeq(mem') /\ Len(mem') = Newest.depth
    /\ \A j \in 1..Newest.depth : mem'[j] = mem[j]
    /\ IsFile(saved')
    /\ \A j \in 1..Fun.nsaved : saved'[j] = mem[fp + j]
    /\ \A j \in (Fun.nsaved + 1)..NCallee : saved'[j] = saved[j]
    /\ frames' = Front(frames)
    /\ status' = IF pc'.fn = 0 THEN "done" ELSE "running"

LEMMA ReturnReturns ==
    ASSUME AllLaidOut, Chosen, Shape, Return
    PROVE  pc.at > 0 /\ Returns
<1>1. pc.at > 0 /\ rax = <<>>
  BY DEF Return, At
<1>2. /\ fp = Newest.depth + 2 /\ Newest.depth \in Nat /\ IsSeq(mem) /\ IsFile(saved)
      /\ Fun.nsaved \in 0..NCallee /\ Fun.frame \in Nat /\ Size(Fun) \in Nat
      /\ Len(mem) = fp + Size(Fun) /\ Inside
  BY <1>1, Setting, Here DEF Placed
<1>3. FrameBase = fp
  <2> DEFINE n == Fun.nsaved
             h == Fun.frame
             d == Newest.depth
  <2>1. n \in Nat /\ h \in Nat /\ n % 2 \in Nat /\ Len(mem) = (d + 2) + (n + (n % 2) + h) /\ d \in Nat
    BY <1>2 DEF Size, NCallee
  <2>2. FrameBase = Len(mem) - h - (n % 2) - n
    BY DEF FrameBase
  <2> HIDE DEF n, h, d
  <2>3. FrameBase = d + 2
    BY <2>1, <2>2
  <2> QED
    BY <2>3, <1>2 DEF d
<1>4. fp - 1 = Newest.depth + 1 /\ fp - 2 = Newest.depth /\ Newest.depth <= Len(mem)
  BY <1>2
<1>5. mem[fp] = Newest.fp
  BY <1>2 DEF Inside
<1>6. /\ program' = program /\ rax' # <<>> /\ pc' = mem[fp - 1].back
      /\ fp' = mem[fp] /\ mem' = SubSeq(mem, 1, fp - 2)
      /\ saved' = [j \in 1..NCallee |-> IF j <= Fun.nsaved THEN mem[fp + j] ELSE saved[j]]
      /\ frames' = Front(frames)
      /\ status' = IF pc'.fn = 0 THEN "done" ELSE "running"
  BY <1>3 DEF Return, Popped
<1>7. IsSeq(mem') /\ Len(mem') = Newest.depth /\ \A j \in 1..Newest.depth : mem'[j] = mem[j]
  <2> DEFINE d == Newest.depth
  <2>1. IsSeq(mem) /\ d \in Nat /\ d <= Len(mem) /\ mem' = SubSeq(mem, 1, d)
    BY ONLY <1>2, <1>4, <1>6
  <2> HIDE DEF d
  <2>2. IsSeq(mem') /\ Len(mem') = d /\ \A j \in 1..d : mem'[j] = mem[j]
    BY ONLY <2>1, PrefixAny
  <2> QED
    BY ONLY <2>2 DEF d
<1>8. pc' = BackOf(frames, mem, Len(frames))
  BY <1>4, <1>6 DEF BackOf, Newest
<1>9. /\ IsFile(saved')
      /\ \A j \in 1..Fun.nsaved : saved'[j] = mem[fp + j]
      /\ \A j \in (Fun.nsaved + 1)..NCallee : saved'[j] = saved[j]
  <2>1. IsFile(saved')
    BY <1>6 DEF IsFile
  <2>2. Fun.nsaved \in Nat /\ Fun.nsaved <= NCallee /\ NCallee \in Nat
    BY <1>2 DEF NCallee
  <2>3. ASSUME NEW j \in 1..Fun.nsaved PROVE saved'[j] = mem[fp + j]
    BY <1>6, <2>2
  <2>4. ASSUME NEW j \in (Fun.nsaved + 1)..NCallee PROVE saved'[j] = saved[j]
    <3>1. j \in 1..NCallee /\ ~(j <= Fun.nsaved)
      BY <2>2
    <3> QED
      BY <1>6, <3>1
  <2> QED
    BY <2>1, <2>3, <2>4
<1> QED
  BY <1>1, <1>5, <1>6, <1>7, <1>8, <1>9 DEF Returns

LEMMA ReturnsShape ==
    ASSUME AllLaidOut, Chosen, Shape, pc.at > 0, Returns, status' = "running"
    PROVE  Shape'
<1> DEFINE top == Len(frames)
<1>1. /\ LaidOut(program.fns) /\ top \in Nat /\ top >= 1 /\ top \in 1..top
      /\ IsSeq(frames) /\ Depths(frames)
  BY Setting DEF Shape, Depths
<1>2. /\ program' = program /\ rax' # <<>> /\ pc' = BackOf(frames, mem, top)
      /\ fp' = frames[top].fp /\ IsSeq(mem') /\ Len(mem') = frames[top].depth
      /\ \A j \in 1..frames[top].depth : mem'[j] = mem[j]
      /\ IsFile(saved') /\ frames' = Front(frames) /\ pc'.fn # 0
  BY DEF Returns, Newest
<1>3. top # 1
  <2>1. BackOf(frames, mem, 1).fn = 0
    BY DEF Shape
  <2> QED
    BY <1>2, <2>1
<1> DEFINE below == top - 1
<1>4. below \in Nat /\ below >= 1 /\ below \in 1..below /\ below \in 1..top /\ below + 1 = top /\ below <= top
  BY <1>1, <1>3, Before
<1> HIDE DEF top, below
<1>5. /\ IsSeq(frames') /\ Len(frames') = below
      /\ \A k \in 1..below : frames'[k] = frames[k]
  BY <1>1, <1>2, FrontAny DEF top, below
<1>6. /\ frames[below].depth \in Nat /\ frames[top].depth \in Nat
      /\ \A k \in 1..top : frames[k].depth \in Nat /\ frames[k].depth % 2 = 0
      /\ \A k, l \in 1..top : k <= l => frames[k].depth <= frames[l].depth
      /\ frames[1].depth = 0
  BY <1>1, <1>4 DEF Depths, top
<1>7. Depths(frames')
  <2>1. \A k \in 1..below : k \in 1..top
    BY <1>1, <1>4
  <2>2. 1 \in 1..below
    BY <1>4
  <2> QED
    BY <1>4, <1>5, <1>6, <2>1, <2>2 DEF Depths
<1>8. Waits(program.fns, frames, mem, below)
  BY <1>4 DEF Shape, top, below
<1>9. /\ CallSite(program.fns, pc')
      /\ frames[top].depth = frames[below].depth + 2 + Size(Fun') + PushedFor(Insn')
      /\ frames[top].fp = frames[below].depth + 2
      /\ mem[frames[below].depth + 2] = frames[below].fp
  BY <1>2, <1>4, <1>8 DEF Waits, Fun, Insn
<1>10. frames[below].depth + 2 <= frames[top].depth
  BY <1>1, <1>4, <1>6, <1>8, WaitsGap DEF NCallee
<1>11. \A j \in 1..(frames[below].depth + 1) : mem'[j] = mem[j]
  <2>1. \A j \in 1..(frames[below].depth + 1) : j \in 1..frames[top].depth
    BY <1>6, <1>10
  <2> QED
    BY <2>1, <1>2
<1>12. /\ \A k \in 1..(below - 1) : Waits(program.fns, frames', mem', k)
       /\ BackOf(frames', mem', 1) = BackOf(frames, mem, 1)
  <2>1. below \in 1..Len(frames)
    BY <1>4 DEF top
  <2>2. \A k \in 1..(Len(frames) - 1) : Waits(program.fns, frames, mem, k)
    BY DEF Shape
  <2> QED
    BY <1>1, <1>5, <1>11, <2>1, <2>2, WaitsBelow
<1>13. pc' \in [fn : DOMAIN program.fns, at : Nat] /\ Linked(program.fns)'
  BY <1>2, <1>9 DEF CallSite, Shape
<1>14. Inside'
  <2>1. Newest' = frames[below]
    BY <1>4, <1>5 DEF Newest
  <2>2. mem'[frames[below].depth + 2] = frames[below].fp
    <3>1. frames[below].depth + 2 \in 1..frames[top].depth
      BY <1>6, <1>10
    <3> QED
      BY <3>1, <1>2, <1>9
  <2>3. pc'.at \in DOMAIN Fun'.code /\ CallSite(program.fns', pc')
    BY <1>2, <1>9 DEF CallSite, Fun
  <2>4. fp' = frames[below].depth + 2 /\ Len(mem') = fp' + Size(Fun') + PushedFor(Insn')
    BY <1>2, <1>9
  <2> QED
    BY <2>1, <2>2, <2>3, <2>4, <1>2 DEF Inside
<1> QED
  BY <1>2, <1>5, <1>7, <1>12, <1>13, <1>14 DEF Shape

LEMMA ReturnsRegisters ==
    ASSUME AllLaidOut, Chosen, Shape, pc.at > 0, Returns, Holding
    PROVE  saved' = Newest.saved
<1>1. Fun.nsaved \in 0..NCallee /\ Len(frames) \in 1..Len(frames) /\ fp = Newest.depth + 2
  BY Setting, Here
<1>2. IsFile(Newest.saved) /\ IsFile(saved')
  BY <1>1 DEF Holding, Newest, Returns
<1>3. ASSUME NEW j \in 1..NCallee PROVE saved'[j] = Newest.saved[j]
  <2>1. j \in 1..Fun.nsaved \/ j \in (Fun.nsaved + 1)..NCallee
    BY <1>1 DEF NCallee
  <2> QED
    BY <2>1 DEF Returns, Holding
<1> QED
  BY <1>2, <1>3 DEF IsFile

LEMMA ReturnsHold ==
    ASSUME AllLaidOut, Chosen, Shape, pc.at > 0, Returns, Holding, status' = "running"
    PROVE  Holding'
<1> DEFINE top == Len(frames)
<1>1. /\ LaidOut(program.fns) /\ top \in Nat /\ top >= 1 /\ top \in 1..top
      /\ IsSeq(frames) /\ Depths(frames)
  BY Setting DEF Shape, Depths
<1>2. /\ program' = program /\ pc' = BackOf(frames, mem, top)
      /\ fp' = frames[top].fp
      /\ \A j \in 1..frames[top].depth : mem'[j] = mem[j]
      /\ frames' = Front(frames) /\ pc'.fn # 0
  BY DEF Returns, Newest
<1>3. top # 1
  <2>1. BackOf(frames, mem, 1).fn = 0
    BY DEF Shape
  <2> QED
    BY <1>2, <2>1
<1> DEFINE below == top - 1
<1>4. below \in Nat /\ below >= 1 /\ below \in 1..below /\ below \in 1..top /\ below + 1 = top
  BY <1>1, <1>3, Before
<1>5. saved' = frames[top].saved
  BY ReturnsRegisters DEF Newest
<1> HIDE DEF top, below
<1>6. /\ Len(frames') = below
      /\ \A k \in 1..below : frames'[k] = frames[k]
  BY <1>1, <1>2, FrontAny DEF top, below
<1>7. frames[below].depth \in Nat /\ frames[top].depth \in Nat
  BY <1>1, <1>4 DEF Depths, top
<1>8. Waits(program.fns, frames, mem, below) /\ Keeps(program.fns, frames, mem, below)
  BY <1>4 DEF Shape, Holding, top, below
<1> DEFINE n == Fun'.nsaved
<1>9. /\ n \in 0..NCallee /\ frames[below].depth + 2 + n <= frames[top].depth
      /\ frames[top].fp = frames[below].depth + 2
      /\ \A j \in 1..n : mem[frames[below].depth + 2 + j] = frames[below].saved[j]
      /\ \A j \in (n + 1)..NCallee : frames[top].saved[j] = frames[below].saved[j]
  BY <1>1, <1>2, <1>4, <1>7, <1>8, WaitsGap DEF Waits, Keeps, Fun
<1> HIDE DEF n
<1>10. \A j \in 1..(frames[below].depth + 1) : mem'[j] = mem[j]
  <2>1. \A j \in 1..(frames[below].depth + 1) : j \in 1..frames[top].depth
    BY <1>7, <1>9 DEF NCallee
  <2> QED
    BY <2>1, <1>2
<1>11. \A k \in 1..(below - 1) : Keeps(program.fns, frames', mem', k)
  <2>1. below \in 1..Len(frames) /\ \A k \in 1..(below - 1) : k \in 1..(Len(frames) - 1)
    BY <1>1, <1>4 DEF top
  <2>2. \A k \in 1..(Len(frames) - 1) : Waits(program.fns, frames, mem, k)
    BY DEF Shape
  <2>3. \A k \in 1..(below - 1) : Keeps(program.fns, frames, mem, k)
    BY <2>1 DEF Holding
  <2> QED
    BY <1>1, <1>6, <1>10, <2>1, <2>2, <2>3, WaitsBelow
<1>12. Newest' = frames[below]
  BY <1>4, <1>6 DEF Newest
<1>13. ASSUME NEW j \in 1..n PROVE mem'[fp' + j] = frames[below].saved[j]
  <2>1. frames[below].depth + 2 + j \in 1..frames[top].depth
    BY <1>7, <1>9 DEF NCallee
  <2> QED
    BY <2>1, <1>2, <1>9
<1>14. \A j \in (n + 1)..NCallee : saved'[j] = frames[below].saved[j]
  BY <1>5, <1>9
<1>15. \A k \in 1..below : IsFile(frames'[k].saved)
  <2>1. \A k \in 1..below : k \in 1..Len(frames)
    BY <1>1, <1>4 DEF top
  <2> QED
    BY <2>1, <1>6 DEF Holding
<1>16. pc'.at # 0
  <2>1. CallSite(program.fns, pc')
    BY <1>2, <1>4, <1>8 DEF Waits
  <2> QED
    BY <2>1, <1>1 DEF CallSite, LaidOut, Contained
<1> QED
  BY <1>2, <1>6, <1>11, <1>12, <1>13, <1>14, <1>15, <1>16 DEF Holding, n

(***************************************************************************)
(* The invariant is inductive                                              *)
(***************************************************************************)

LEMMA Runs == ASSUME Next PROVE status = "running" /\ program' = program
  BY DEF Next, Prologue, Move, Arithmetic, Comparison, Not, Control, StoreElement,
         RuntimeCall, CallFunction, CallClosure, Return, Resume, At

LEMMA FnIndexIn ==
    ASSUME NEW g, \E j \in DOMAIN program.fns : program.fns[j].name = g
    PROVE  FnIndex(g) \in DOMAIN program.fns
  BY DEF FnIndex

LEMMA CallsSomething ==
    ASSUME AllLaidOut, Chosen, Shape, CallFunction
    PROVE  /\ pc.at > 0 /\ rax = <<>> /\ Insn.i = "call"
           /\ \E g \in DOMAIN program.fns : Calls(g, PushedFor(Insn))
<1>1. /\ pc.at > 0 /\ rax = <<>> /\ Insn.i = "call"
      /\ Enter(FnIndex(Insn.fn), Firsts(Words(Insn.args), 6), Pushed(Len(Insn.args)))
      /\ UNCHANGED <<program, rax, saved, fp>>
  BY DEF CallFunction, At
<1>2. PushedFor(Insn) = Pushed(Len(Insn.args))
  BY <1>1 DEF PushedFor
<1>3. PushedFor(Insn) \in Nat /\ IsSeq(mem) /\ pc.at \in DOMAIN Fun.code /\ pc.fn \in DOMAIN program.fns
  BY <1>1, Here, Setting
<1>4. Calls(FnIndex(Insn.fn), PushedFor(Insn))
  BY <1>1, <1>2, <1>3, EnterCalls
<1>5. FnIndex(Insn.fn) \in DOMAIN program.fns
  <2>1. UNION {Callees(Fun.code[k]) : k \in DOMAIN Fun.code} \subseteq {program.fns[k].name : k \in DOMAIN program.fns}
    BY <1>3 DEF Shape, Linked, Fun
  <2>2. Insn.fn \in Callees(Insn)
    BY <1>1 DEF Callees
  <2>3. Insn.fn \in {program.fns[k].name : k \in DOMAIN program.fns}
    BY <1>3, <2>1, <2>2 DEF Insn
  <2> QED
    BY <2>3, FnIndexIn
<1> QED
  BY <1>1, <1>4, <1>5

LEMMA ClosureSteps ==
    ASSUME AllLaidOut, Chosen, Shape, CallClosure
    PROVE  /\ pc.at > 0
           /\ \/ Local
              \/ /\ rax = <<>> /\ Insn.i = "calldyn"
                 /\ \E g \in DOMAIN program.fns : Calls(g, PushedFor(Insn))
<1> DEFINE c == Word(Insn.callee)
           called == Points(c, "closure") /\ Obj(c).fn - CodeBase \in DOMAIN program.fns
<1>1. /\ pc.at > 0 /\ rax = <<>> /\ Insn.i = "calldyn" /\ UNCHANGED <<program, rax, fp>>
      /\ called => /\ Enter(Obj(c).fn - CodeBase, <<Obj(c).caps>> \o Firsts(Words(Insn.args), 5), 0)
                   /\ UNCHANGED saved
      /\ ~called => SetReg(Insn.d, 0) /\ Next1 /\ UNCHANGED frames
  BY DEF CallClosure, At
<1>2. CASE called
  <2>1. PushedFor(Insn) = 0 /\ IsSeq(mem) /\ 0 \in Nat
    BY <1>1, Here DEF PushedFor
  <2>2. Calls(Obj(c).fn - CodeBase, 0)
    BY <1>1, <1>2, <2>1, EnterCalls
  <2> QED
    BY <1>1, <1>2, <2>1, <2>2
<1>3. CASE ~called
  <2>1. (Insn.d # <<>> => Insn.d[1].n \in DOMAIN Fun.place) /\ pc.at + 1 \in DOMAIN Fun.code
    BY <1>1, Here DEF Target
  <2> QED
    BY <1>1, <1>3, <2>1, SetsLocal
<1> QED
  BY <1>2, <1>3

\* every step is one of four
Steps ==
    \/ pc.at > 0 /\ Local
    \/ pc.at = 0 /\ Enters
    \/ /\ pc.at > 0 /\ rax = <<>> /\ Insn.i \in {"call", "calldyn"}
       /\ \E g \in DOMAIN program.fns : Calls(g, PushedFor(Insn))
    \/ pc.at > 0 /\ Returns

LEMMA NextSteps == ASSUME AllLaidOut, Chosen, Shape, Next PROVE Steps
<1>1. CASE Prologue
  <2>1. pc.at = 0
    BY <1>1 DEF Prologue
  <2> QED
    BY <1>1, <2>1, Setting, PrologueEnters DEF Shape, Steps
<1>2. CASE Move \/ Arithmetic \/ Comparison \/ Not \/ RuntimeCall
  BY <1>2, InsideSteps DEF Steps
<1>3. CASE Control \/ StoreElement
  BY <1>3, ControlLocal DEF Steps
<1>4. CASE CallFunction
  BY <1>4, CallsSomething DEF Steps
<1>5. CASE CallClosure
  BY <1>5, ClosureSteps DEF Steps
<1>6. CASE Return
  BY <1>6, ReturnReturns DEF Steps
<1>7. CASE Resume
  BY <1>7, ResumeLocal DEF Steps
<1> QED
  BY <1>1, <1>2, <1>3, <1>4, <1>5, <1>6, <1>7 DEF Next

ShapeInv == Chosen /\ StackShape

LEMMA InitStack ==
    ASSUME AllLaidOut, Init
    PROVE  ShapeInv /\ RegistersHeld
<1>1. Chosen
  BY DEF Init, Chosen
<1>2. ASSUME status = "running" PROVE Shape /\ Holding
  <2>1. Linked(program.fns)
    BY <1>2 DEF Init
  <2> DEFINE frame == [saved |-> saved, fp |-> fp, depth |-> 0]
             word == [back |-> [fn |-> 0, at |-> 0]]
  <2>2. /\ pc = [fn |-> FnIndex(<<"main">>), at |-> 0] /\ rax = <<>>
        /\ saved = [j \in 1..NCallee |-> Junk + j]
        /\ mem = <<word>> /\ frames = <<frame>>
    BY <2>1 DEF Init
  <2>3. FnIndex(<<"main">>) \in DOMAIN program.fns
    BY <2>1, FnIndexIn DEF Linked
  <2>4. IsFile(saved)
    BY <2>2 DEF IsFile
  <2>5. frame.saved = saved /\ frame.fp = fp /\ frame.depth = 0 /\ word.back.fn = 0
    OBVIOUS
  <2> HIDE DEF frame, word
  <2>6. /\ IsSeq(mem) /\ Len(mem) = 1 /\ mem[1] = word
        /\ IsSeq(frames) /\ Len(frames) = 1 /\ frames[1] = frame
    BY <2>2 DEF IsSeq
  <2>7. /\ 1..Len(frames) = {1} /\ 1..(Len(frames) - 1) = {}
    BY <2>6
  <2>8. Depths(frames)
    BY <2>5, <2>6, <2>7 DEF Depths
  <2>9. BackOf(frames, mem, 1).fn = 0
    BY <2>5, <2>6 DEF BackOf
  <2>10. pc \in [fn : DOMAIN program.fns, at : Nat] /\ pc.at = 0
    BY <2>2, <2>3
  <2>11. Entering /\ Newest = frame
    BY <2>2, <2>5, <2>6, <2>10 DEF Entering, Newest
  <2>12. Shape
    BY <2>1, <2>4, <2>6, <2>7, <2>8, <2>9, <2>10, <2>11 DEF Shape
  <2>13. Holding
    BY <2>4, <2>5, <2>6, <2>7, <2>10, <2>11 DEF Holding
  <2> QED
    BY <2>12, <2>13
<1> QED
  BY <1>1, <1>2 DEF ShapeInv, StackShape, RegistersHeld

LEMMA NextShape ==
    ASSUME AllLaidOut, ShapeInv, [Next]_vars
    PROVE  ShapeInv'
<1>1. CASE Next
  <2>1. status = "running" /\ program' = program
    BY <1>1, Runs
  <2>2. Chosen /\ Shape /\ Chosen'
    BY <2>1 DEF ShapeInv, StackShape, Chosen
  <2>3. Steps
    BY <1>1, <2>2, NextSteps
  <2>4. status' = "running" => Shape'
    BY <2>2, <2>3, LocalShape, EntersShape, CallsShape, ReturnsShape DEF Steps
  <2> QED
    BY <2>2, <2>4 DEF ShapeInv, StackShape
<1>2. CASE UNCHANGED vars
  BY <1>2 DEF vars, ShapeInv, Chosen, StackShape, Shape, Entering, Inside, Newest, Fun, Insn
<1> QED
  BY <1>1, <1>2

LEMMA NextHolds ==
    ASSUME AllLaidOut, AllApart, ShapeInv, RegistersHeld, [Next]_vars
    PROVE  RegistersHeld'
<1>1. CASE Next
  <2>1. status = "running" /\ program' = program
    BY <1>1, Runs
  <2>2. Chosen /\ Shape /\ Holding
    BY <2>1 DEF ShapeInv, StackShape, RegistersHeld
  <2>3. Steps
    BY <1>1, <2>2, NextSteps
  <2>4. Apart(Fun)
    BY <2>2, Setting DEF AllApart, Chosen, Fun
  <2>5. status' = "running" => Holding'
    BY <2>2, <2>3, <2>4, LocalHolds, EntersHold, CallsHold, ReturnsHold DEF Steps
  <2> QED
    BY <2>5 DEF RegistersHeld
<1>2. CASE UNCHANGED vars
  BY <1>2 DEF vars, RegistersHeld, Holding, Newest, Fun
<1> QED
  BY <1>1, <1>2

(***************************************************************************)
(* The runtime functions that leave the exceptions alone                   *)
(***************************************************************************)

\* a runtime function that has nothing to do with exceptions and does not end
\* the process as a success
Plain(r) == r.exc = exc /\ r.status # "done"

CatchFunctions == {"vredrs_throw", "vredrs_push_catch", "vredrs_pop_catch", "vredrs_check_throw"}

LEMMA GivesPlain ==
    ASSUME NEW w, NEW h
    PROVE  /\ Plain(Gives(w)) /\ Plain([Gives(w) EXCEPT !.heap = h]) /\ Plain([Gives(w) EXCEPT !.out = h])
           /\ Plain(Allocates(w)) /\ Plain([Allocates(w) EXCEPT !.heap = h])
           /\ h # "done" => Plain(Ends(h))
  BY DEF Plain, Gives, Allocates, Ends

LEMMA VoidPlain ==
    ASSUME NEW h
    PROVE  Plain(Void) /\ Plain([Void EXCEPT !.heap = h]) /\ Plain([Void EXCEPT !.out = h]) /\ Plain(Prints(h))
  BY DEF Plain, Void, Gives, Prints

LEMMA OnPlain ==
    ASSUME NEW w, NEW k, NEW R, \A r \in R : Plain(r)
    PROVE  \A r \in On(w, k, R) : Plain(r)
  BY GivesPlain DEF On

LEMMA FieldPlain ==
    ASSUME NEW o, NEW w
    PROVE  /\ \A r \in KeyAt(o, w) : Plain(r)
           /\ \A r \in GetField(o, w) : Plain(r)
  BY OnPlain, GivesPlain DEF KeyAt, GetField

LEMMA SetFieldPlain ==
    ASSUME NEW o, NEW w, NEW v
    PROVE  \A r \in SetField(o, w, v) : Plain(r)
<1>1. Plain([Void EXCEPT !.heap[o - Base].f = Put(@, Content(w), v)])
  BY DEF Plain, Void, Gives
<1>2. Plain(Void) /\ Plain(Ends("fault")) /\ Plain(Ends("hang"))
  BY GivesPlain, VoidPlain
<1> QED
  BY ONLY <1>1, <1>2, OnPlain DEF SetField

LEMMA AppendPlain ==
    ASSUME NEW o, NEW w
    PROVE  \A r \in ListAppend(o, w) : Plain(r)
<1> DEFINE grown == [Obj(o) EXCEPT !.xs = Append(@, w), !.cap = IF Len(Obj(o).xs) < @ THEN @ ELSE 2 * @ + 4]
<1>1. Plain([Gives(o) EXCEPT !.heap[o - Base] = grown])
  BY DEF Plain, Gives
<1>2. Plain([Allocates(grown) EXCEPT !.heap[o - Base] = [k |-> "freed"]])
  BY DEF Plain, Allocates, Gives
<1> HIDE DEF grown
<1>3. \A r \in {[Gives(o) EXCEPT !.heap[o - Base] = grown]} \cup
          (IF Len(Obj(o).xs) < Obj(o).cap THEN {}
           ELSE {[Allocates(grown) EXCEPT !.heap[o - Base] = [k |-> "freed"]]}) : Plain(r)
  BY ONLY <1>1, <1>2
<1> QED
  BY ONLY <1>3, OnPlain DEF ListAppend, grown

LEMMA IndexPlain ==
    ASSUME NEW o, NEW w
    PROVE  \A r \in ListIndex(o, w) : Plain(r)
<1> DEFINE key == o # 0 /\ w > 65536
           item == IF w \in 0..(Len(Obj(o).xs) - 1) THEN Obj(o).xs[w + 1] ELSE 0
<1>1. ListIndex(o, w) = IF key THEN GetField(o, w) ELSE On(o, "list", {Gives(item)})
  BY DEF ListIndex
<1> HIDE DEF key, item
<1>2. \A r \in On(o, "list", {Gives(item)}) : Plain(r)
  BY OnPlain, GivesPlain
<1>3. \A r \in GetField(o, w) : Plain(r)
  BY FieldPlain
<1> QED
  BY ONLY <1>1, <1>2, <1>3

LEMMA DictPlain ==
    ASSUME NEW o, NEW w
    PROVE  \A r \in MakeDict(o, w) : Plain(r)
  BY GivesPlain DEF MakeDict

LEMMA MethodPlain ==
    ASSUME NEW o
    PROVE  \A r \in CallMethod(o) : Plain(r)
  BY GivesPlain, FieldPlain DEF CallMethod

LEMMA LengthPlain ==
    ASSUME NEW o
    PROVE  \A r \in Length(o) : Plain(r)
  BY OnPlain, GivesPlain DEF Length

LEMMA SlicePlain ==
    ASSUME NEW o, NEW w, NEW v
    PROVE  /\ \A r \in Slice(o, w, v) : Plain(r)
           /\ \A r \in MakeRange(o, w, v) : Plain(r)
  BY OnPlain, GivesPlain DEF Slice, MakeRange

LEMMA TextPlain ==
    ASSUME NEW o, NEW w
    PROVE  /\ o \in StringFunctions => \A r \in StrCall(o, w) : Plain(r)
           /\ \A r \in ToStr(o) : Plain(r)
           /\ \A r \in Joined(o) : Plain(r)
           /\ \A r \in Input(o) : Plain(r)
           /\ \A r \in AssertFail(o) : Plain(r)
<1>1. o \in StringFunctions => \A r \in StrCall(o, w) : Plain(r)
  <2> SUFFICES ASSUME o \in StringFunctions PROVE \A r \in StrCall(o, w) : Plain(r)
    OBVIOUS
  <2>1. \A x : Plain(Gives(x)) /\ Plain(Allocates(x))
    BY GivesPlain
  <2>2. Plain(Ends("fault"))
    BY GivesPlain
  <2> QED
    BY ONLY <2>1, <2>2, o \in StringFunctions DEF StrCall, StringFunctions
<1>2. \A r \in ToStr(o) : Plain(r)
  <2> DEFINE small == o <= 65536
             text == Str(ToString(o))
  <2>1. ToStr(o) = IF small THEN {Allocates(text)} ELSE IF IsStr(o) THEN {Gives(o)} ELSE {Ends("fault")}
    BY DEF ToStr
  <2> HIDE DEF small, text
  <2>2. Plain(Allocates(text)) /\ Plain(Gives(o)) /\ Plain(Ends("fault"))
    BY GivesPlain
  <2> QED
    BY ONLY <2>1, <2>2
<1>3. \A r \in Joined(o) : Plain(r)
  BY GivesPlain DEF Joined
<1>4. \A r \in Input(o) : Plain(r)
  <2>1. ASSUME NEW s PROVE \A r \in {[Gives(w1) EXCEPT !.out = IF s = "" THEN @ ELSE Append(@, [s |-> s])] : w1 \in Lines} : Plain(r)
    BY DEF Plain, Gives
  <2>2. Plain(Ends("fault"))
    BY GivesPlain
  <2> QED
    BY ONLY <2>1, <2>2 DEF Input
<1>5. \A r \in AssertFail(o) : Plain(r)
  BY GivesPlain DEF AssertFail
<1> QED
  BY <1>1, <1>2, <1>3, <1>4, <1>5

LEMMA ListPlain ==
    ASSUME NEW f \in ListFunctions, NEW a
    PROVE  \A r \in ListCall(f, a) : Plain(r)
<1>1. \A x : Plain(Gives(x)) /\ Plain(Allocates(x))
  BY GivesPlain
<1>2. Plain(Ends("fault"))
  BY GivesPlain
<1>3. Plain([Gives(Last(Obj(a[1]).xs)) EXCEPT !.heap[a[1] - Base].xs = Front(@)])
  BY DEF Plain, Gives
<1>4. \A r \in On(a[1], "list", IF Obj(a[1]).xs = <<>> THEN {Gives(0)}
                                ELSE {[Gives(Last(Obj(a[1]).xs)) EXCEPT !.heap[a[1] - Base].xs = Front(@)]}) : Plain(r)
  BY ONLY <1>1, <1>3, OnPlain
<1>5. \A x : \A r \in On(a[1], "list", {Gives(x)}) : Plain(r)
  BY ONLY <1>1, OnPlain
<1>6. \A x : \A r \in On(a[1], "list", {Allocates(x)}) : Plain(r)
  BY ONLY <1>1, OnPlain
<1> QED
  BY ONLY <1>1, <1>2, <1>4, <1>5, <1>6 DEF ListCall

LEMMA SharedPlain ==
    ASSUME NEW f \in SharedFunctions, NEW a
    PROVE  \A r \in SharedCall(f, a) : Plain(r)
<1>1. \A w : \A r \in ResumeGen(w) : Plain(r)
  <2> SUFFICES ASSUME NEW w PROVE \A r \in ResumeGen(w) : Plain(r)
    OBVIOUS
  <2> DEFINE how == IF Obj(w).fn - CodeBase \in DOMAIN program.fns THEN "outside" ELSE "fault"
             over == [Gives(0) EXCEPT !.heap[w - Base].done = TRUE]
  <2>1. how # "done"
    OBVIOUS
  <2>2. ResumeGen(w) = On(w, "gen", IF Obj(w).done THEN {Gives(0)} ELSE IF Obj(w).fn = 0 THEN {over} ELSE {Ends(how)})
    BY DEF ResumeGen
  <2>3. Plain(over)
    BY DEF Plain, Gives
  <2> HIDE DEF how, over
  <2>4. Plain(Gives(0)) /\ Plain(Ends(how))
    BY <2>1, GivesPlain
  <2> QED
    BY ONLY <2>2, <2>3, <2>4, OnPlain
<1>2. \A x : Plain(Gives(x)) /\ Plain(Allocates(x))
  BY GivesPlain
<1>3. Plain(Ends("hang"))
  BY GivesPlain
<1>4. \A x : /\ Plain([Gives(1) EXCEPT !.heap[x - Base].xs = Append(@, a[2])])
            /\ Plain([Gives(Head(Obj(x).xs)) EXCEPT !.heap[x - Base].xs = Tail(@)])
            /\ Plain([Void EXCEPT !.heap[x - Base].closed = TRUE])
            /\ Plain([Void EXCEPT !.heap[x - Base].locked = TRUE])
            /\ Plain([Void EXCEPT !.heap[x - Base].locked = FALSE])
  BY DEF Plain, Void, Gives
<1>5. CASE f = "vredrs_send"
  BY ONLY <1>5, <1>2, <1>4, OnPlain DEF SharedCall
<1>6. CASE f = "vredrs_recv"
  BY ONLY <1>6, <1>2, <1>4, OnPlain DEF SharedCall
<1>7. CASE f = "vredrs_close"
  BY ONLY <1>7, <1>4, OnPlain DEF SharedCall
<1>8. CASE f = "vredrs_lock"
  BY ONLY <1>8, <1>3, <1>4, OnPlain DEF SharedCall
<1>9. CASE f = "vredrs_unlock"
  BY ONLY <1>9, <1>4, OnPlain DEF SharedCall
<1>10. CASE f \in {"vredrs_make_channel", "vredrs_make_mutex", "vredrs_spawn", "vredrs_spawn_thread", "vredrs_gen_create",
                   "vredrs_coro", "vredrs_yield"}
  BY ONLY <1>10, <1>2 DEF SharedCall
<1>11. CASE f \in {"vredrs_await", "vredrs_resume"}
  BY ONLY <1>11, <1>1 DEF SharedCall
<1> QED
  BY ONLY <1>5, <1>6, <1>7, <1>8, <1>9, <1>10, <1>11, f \in SharedFunctions DEF SharedFunctions

LEMMA ProcessPlain ==
    ASSUME NEW f \in ProcessFunctions, f # "sys_exit", NEW a
    PROVE  \A r \in ProcessCall(f, a) : Plain(r)
<1>1. \A x : Plain(Prints(x))
  BY VoidPlain
<1>2. Plain(Void) /\ Plain(Ends("fault")) /\ Plain(Ends("panic"))
  BY GivesPlain, VoidPlain
<1>3. \A r \in Input(a) \cup AssertFail(a) : Plain(r)
  BY TextPlain
<1> QED
  BY ONLY <1>1, <1>2, <1>3, f \in ProcessFunctions, f # "sys_exit" DEF ProcessCall, ProcessFunctions

LEMMA ContainerPlain ==
    ASSUME NEW f \in ContainerFunctions, NEW a
    PROVE  \A r \in ContainerCall(f, a) : Plain(r)
<1>1. \A x : Plain(Gives(x)) /\ Plain(Allocates(x))
  BY GivesPlain
<1>2. \A w, x : \A r \in On(w, "list", {Gives(x)}) : Plain(r)
  BY ONLY <1>1, OnPlain
<1>3. /\ \A r \in MakeDict(a[1], Tail(a)) : Plain(r)
      /\ \A r \in Length(a[1]) : Plain(r)
      /\ \A r \in ListIndex(a[1], a[2]) : Plain(r)
      /\ \A r \in ListAppend(a[1], a[2]) : Plain(r)
      /\ \A r \in MakeRange(a[1], a[2], a[3]) : Plain(r)
      /\ \A r \in MakeRange(a[1], a[2], 0) : Plain(r)
      /\ \A r \in Slice(a[1], a[2], a[3]) : Plain(r)
  BY DictPlain, LengthPlain, IndexPlain, AppendPlain, SlicePlain
<1> QED
  BY ONLY <1>1, <1>2, <1>3, f \in ContainerFunctions DEF ContainerCall, ContainerFunctions

LEMMA ObjectPlain ==
    ASSUME NEW f \in ObjectFunctions, NEW a
    PROVE  \A r \in ObjectCall(f, a) : Plain(r)
<1>1. \A x : Plain(Gives(x)) /\ Plain(Allocates(x))
  BY GivesPlain
<1>2. \A w, x : \A r \in On(w, "captures", {Gives(x)}) : Plain(r)
  BY ONLY <1>1, OnPlain
<1>3. /\ \A r \in GetField(a[1], a[2]) : Plain(r)
      /\ \A r \in SetField(a[1], a[2], a[3]) : Plain(r)
      /\ \A r \in CallMethod(a[1]) : Plain(r)
  BY FieldPlain, SetFieldPlain, MethodPlain
<1> QED
  BY ONLY <1>1, <1>2, <1>3, f \in ObjectFunctions DEF ObjectCall, ObjectFunctions

LEMMA ValuePlain ==
    ASSUME NEW f \in ValueFunctions, NEW a
    PROVE  \A r \in ValueCall(f, a) : Plain(r)
<1>1. \A x : Plain(Gives(x))
  BY GivesPlain
<1>2. Plain(Void)
  BY VoidPlain
<1>3. \A r \in ToStr(a[1]) \cup Joined(Rest(a)) : Plain(r)
  BY TextPlain
<1> QED
  BY ONLY <1>1, <1>2, <1>3, f \in ValueFunctions DEF ValueCall, ValueFunctions

LEMMA StubPlain ==
    ASSUME NEW f \in StubFunctions, f \notin CatchFunctions, f # "sys_exit", NEW a
    PROVE  \A r \in Stub(f, a) : Plain(r)
<1>1. \A x : Plain(Gives(x))
  BY GivesPlain
<1>2. f \in ProcessFunctions => \A r \in ProcessCall(f, a) : Plain(r)
  BY ProcessPlain
<1>3. f \in ContainerFunctions => \A r \in ContainerCall(f, a) : Plain(r)
  BY ContainerPlain
<1>4. f \in ObjectFunctions => \A r \in ObjectCall(f, a) : Plain(r)
  BY ObjectPlain
<1>5. f \in ExceptionFunctions => \A r \in ExceptionCall(f, a) : Plain(r)
  <2>1. f \in ExceptionFunctions => f = "vredrs_get_exception"
    BY DEF ExceptionFunctions, CatchFunctions
  <2>2. ExceptionCall("vredrs_get_exception", a) = {Gives(exc.val)}
    BY DEF ExceptionCall
  <2> QED
    BY ONLY <2>1, <2>2, <1>1
<1>6. f \in ValueFunctions => \A r \in ValueCall(f, a) : Plain(r)
  BY ValuePlain
<1>7. f \in StringFunctions => \A r \in StrCall(f, a) : Plain(r)
  BY TextPlain
<1>8. f \in ListFunctions => \A r \in ListCall(f, a) : Plain(r)
  BY ListPlain
<1>9. f \in SharedFunctions => \A r \in SharedCall(f, a) : Plain(r)
  BY SharedPlain
<1>10. \E R \in {Stub(f, a)} : \A r \in R : Plain(r)
  BY ONLY <1>1, <1>2, <1>3, <1>4, <1>5, <1>6, <1>7, <1>8, <1>9, f \in StubFunctions DEF Stub, StubFunctions
<1> QED
  BY <1>10

(***************************************************************************)
(* What a step does to the exceptions                                      *)
(***************************************************************************)

\* what an instruction does to the catch depth and the flag
Effect(i) ==
    /\ IsException(exc')
    /\ Runtime(i, "vredrs_push_catch") => exc'.depth <= exc.depth + 1 /\ (exc'.flag => exc.flag)
    /\ Runtime(i, "vredrs_pop_catch") => (exc'.depth + 1 <= exc.depth \/ exc'.depth = 0) /\ exc'.flag = exc.flag
    /\ Runtime(i, "vredrs_check_throw") => exc'.depth = exc.depth /\ ~exc'.flag
    /\ Runtime(i, "vredrs_throw") => exc'.depth = exc.depth /\ (exc'.flag => exc.flag \/ exc.depth > 0)
    /\ ~(i.i = "rt" /\ i.f \in CatchFunctions) => exc' = exc

\* the code of the newest activation goes on
Goes ==
    /\ pc'.fn = pc.fn /\ pc'.at \in Successors(Fun, pc.at)
    /\ rax' = <<>> /\ Effect(Insn)
    /\ rax = <<>> \/ MayThrow(Insn)
    /\ status' = "done" => Runtime(Insn, "sys_exit")

LEMMA QuietEffect ==
    ASSUME IsException(exc), exc' = exc, NEW i, ~(i.i = "rt" /\ i.f \in CatchFunctions)
    PROVE  Effect(i)
  BY DEF Effect, Runtime, CatchFunctions

LEMMA CompareFunctions ==
    ASSUME NEW f \in Range(CmpStub)
    PROVE  f \in {"vredrs_value_eq", "vredrs_value_ne", "vredrs_value_lt", "vredrs_value_le", "vredrs_value_gt", "vredrs_value_ge"}
  BY DEF Range, CmpStub

LEMMA StubGroups ==
    ASSUME NEW f, NEW a
    PROVE  /\ f \in CatchFunctions => Stub(f, a) = ExceptionCall(f, a)
           /\ f = "sys_exit" => Stub(f, a) = {Ends("done")}
<1>1. ASSUME f \in CatchFunctions \cup {"sys_exit"} PROVE f \notin Range(CmpStub)
  BY <1>1, CompareFunctions DEF CatchFunctions
<1>2. ASSUME f \in CatchFunctions PROVE Stub(f, a) = ExceptionCall(f, a)
  BY <1>1, <1>2 DEF Stub, CatchFunctions, ExceptionFunctions, ProcessFunctions, ContainerFunctions, ObjectFunctions,
                    ValueFunctions, StringFunctions, ListFunctions, SharedFunctions
<1>3. ASSUME f = "sys_exit" PROVE Stub(f, a) = ProcessCall(f, a)
  BY <1>1, <1>3 DEF Stub, ExceptionFunctions, ProcessFunctions, ContainerFunctions, ObjectFunctions,
                    ValueFunctions, StringFunctions, ListFunctions, SharedFunctions
<1>4. ASSUME f = "sys_exit" PROVE ProcessCall(f, a) = {Ends("done")}
  BY <1>4 DEF ProcessCall
<1> QED
  BY <1>2, <1>3, <1>4

LEMMA CatchEffect ==
    ASSUME IsException(exc), NEW i, i.i = "rt", i.f \in CatchFunctions, NEW a, NEW r \in Stub(i.f, a), exc' = r.exc
    PROVE  Effect(i) /\ r.status # "done"
<1>1. Stub(i.f, a) = ExceptionCall(i.f, a)
  BY StubGroups
<1>2. CASE i.f = "vredrs_throw"
  <2>1. r = Throw(a[1])
    BY <1>1, <1>2 DEF ExceptionCall
  <2>2. /\ IsException(r.exc) /\ r.exc.depth = exc.depth /\ r.status # "done"
        /\ r.exc.flag => exc.flag \/ exc.depth > 0
    BY <2>1 DEF Throw, Void, Ends, Gives, IsException
  <2> QED
    BY <2>2, <1>2 DEF Effect, Runtime, CatchFunctions
<1>3. CASE i.f = "vredrs_push_catch"
  <2>1. r = PushCatch
    BY <1>1, <1>3 DEF ExceptionCall
  <2>2. /\ IsException(r.exc) /\ r.exc.depth <= exc.depth + 1 /\ r.status # "done"
        /\ r.exc.flag => exc.flag
    <3>1. CASE exc.depth < CatchMax
      <4>1. r.exc = [exc EXCEPT !.depth = @ + 1, !.flag = FALSE] /\ r.status = "running"
        BY <2>1, <3>1 DEF PushCatch, Void, Gives
      <4> QED
        BY <4>1 DEF IsException
    <3>2. CASE ~(exc.depth < CatchMax)
      <4>1. r.exc = exc /\ r.status = "running"
        BY <2>1, <3>2 DEF PushCatch, Void, Gives
      <4> QED
        BY <4>1 DEF IsException
    <3> QED
      BY <3>1, <3>2
  <2> QED
    BY <2>2, <1>3 DEF Effect, Runtime, CatchFunctions
<1>4. CASE i.f = "vredrs_pop_catch"
  <2>1. r = PopCatch
    BY <1>1, <1>4 DEF ExceptionCall
  <2>2. /\ IsException(r.exc) /\ (r.exc.depth + 1 <= exc.depth \/ r.exc.depth = 0) /\ r.status # "done"
        /\ r.exc.flag = exc.flag
    BY <2>1 DEF PopCatch, Void, Gives, IsException
  <2> QED
    BY <2>2, <1>4 DEF Effect, Runtime, CatchFunctions
<1>5. CASE i.f = "vredrs_check_throw"
  <2>1. r = CheckThrow
    BY <1>1, <1>5 DEF ExceptionCall
  <2>2. /\ IsException(r.exc) /\ r.exc.depth = exc.depth /\ r.status # "done" /\ ~r.exc.flag
    BY <2>1 DEF CheckThrow, Gives, IsException
  <2> QED
    BY <2>2, <1>5 DEF Effect, Runtime, CatchFunctions
<1> QED
  BY <1>2, <1>3, <1>4, <1>5 DEF CatchFunctions

LEMMA GoesNext ==
    ASSUME NEW n, Goto(n), pc \in [fn : DOMAIN program.fns, at : Nat]
    PROVE  pc'.fn = pc.fn /\ pc'.at = n
  BY DEF Goto

LEMMA SimpleGoes ==
    ASSUME Shape, IsException(exc),
           Move \/ Arithmetic \/ Comparison \/ Not \/ StoreElement
    PROVE  Goes
<1>1. /\ rax = <<>> /\ rax' = rax /\ exc' = exc /\ Goto(pc.at + 1)
      /\ status = "running" /\ status' \in {status, "running", "fault"}
      /\ Insn.i \in {"mov", "box", "unbox", "bin", "cmp", "not", "store"}
  BY DEF Move, Arithmetic, Comparison, Not, StoreElement, At, Next1, runtime
<1>2. pc'.fn = pc.fn /\ pc'.at = pc.at + 1
  BY <1>1, GoesNext DEF Shape
<1>3. Effect(Insn)
  BY <1>1, QuietEffect
<1>4. pc'.at \in Successors(Fun, pc.at)
  BY <1>1, <1>2 DEF Successors, Insn
<1> QED
  BY <1>1, <1>2, <1>3, <1>4 DEF Goes

LEMMA ControlGoes ==
    ASSUME Shape, IsException(exc), Control
    PROVE  Goes
<1>1. /\ rax = <<>> /\ rax' = rax /\ exc' = exc
      /\ status = "running" /\ status' = status
      /\ Insn.i \in {"label", "jump", "branch"}
      /\ \/ Insn.i \in {"label", "branch"} /\ Goto(pc.at + 1)
         \/ Insn.i \in {"jump", "branch"} /\ Goto(Fun.target[Insn.to])
  BY DEF Control, At, Next1, runtime
<1>2. pc'.fn = pc.fn /\ pc'.at \in Successors(Fun, pc.at)
  BY <1>1, GoesNext DEF Shape, Successors, Insn
<1>3. Effect(Insn)
  BY <1>1, QuietEffect
<1> QED
  BY <1>1, <1>2, <1>3 DEF Goes

LEMMA RuntimeGoes ==
    ASSUME AllLaidOut, Chosen, Shape, IsException(exc), RuntimeCall
    PROVE  Goes
<1>1. /\ pc.at > 0 /\ rax = <<>> /\ rax' = rax /\ Insn.i = "rt" /\ Goto(pc.at + 1)
  BY DEF RuntimeCall, At, Next1
<1>2. PICK r \in Stub(Insn.f, Words(Insn.args)) : exc' = r.exc /\ status' = r.status
  BY DEF RuntimeCall
<1>3. pc'.fn = pc.fn /\ pc'.at \in Successors(Fun, pc.at)
  BY <1>1, GoesNext DEF Shape, Successors, Insn
<1>4. Insn.f \in StubFunctions
  <2>1. pc.at \in DOMAIN Fun.code /\ pc.fn \in DOMAIN program.fns
    BY <1>1, Here, Setting
  <2>2. \A k \in DOMAIN Fun.code : Fun.code[k].i = "rt" => Fun.code[k].f \in StubFunctions
    BY <2>1 DEF Shape, Linked, Fun
  <2> QED
    BY <1>1, <2>1, <2>2 DEF Insn
<1>5. CASE Insn.f \in CatchFunctions
  BY <1>1, <1>2, <1>3, <1>5, CatchEffect DEF Goes
<1>6. CASE Insn.f = "sys_exit"
  <2>1. Stub("sys_exit", Words(Insn.args)) = {Ends("done")}
    BY StubGroups
  <2>2. exc' = exc
    BY <1>2, <1>6, <2>1 DEF Ends, Gives
  <2>3. Effect(Insn)
    BY <1>6, <2>2, QuietEffect DEF CatchFunctions
  <2> QED
    BY <1>1, <1>3, <1>6, <2>3 DEF Goes, Runtime
<1>7. CASE Insn.f \notin CatchFunctions /\ Insn.f # "sys_exit"
  <2>1. Plain(r)
    BY <1>2, <1>4, <1>7, StubPlain
  <2>2. exc' = exc /\ status' # "done"
    BY <1>2, <2>1 DEF Plain
  <2>3. Effect(Insn)
    BY <1>7, <2>2, QuietEffect
  <2> QED
    BY <1>1, <1>3, <2>2, <2>3 DEF Goes
<1> QED
  BY <1>5, <1>6, <1>7

LEMMA ResumeGoes ==
    ASSUME AllLaidOut, Chosen, Shape, IsException(exc), Resume
    PROVE  Goes
<1>1. /\ rax # <<>> /\ rax' = <<>> /\ exc' = exc /\ Goto(pc.at + 1) /\ status = "running" /\ status' = status
  BY DEF Resume, Next1, runtime
<1>2. pc.at > 0 /\ Insn.i \in {"call", "calldyn"}
  BY <1>1, ResumeLocal, Here
<1>3. pc'.fn = pc.fn /\ pc'.at \in Successors(Fun, pc.at)
  BY <1>1, <1>2, GoesNext DEF Shape, Successors, Insn
<1>4. Effect(Insn)
  BY <1>1, <1>2, QuietEffect
<1> QED
  BY <1>1, <1>2, <1>3, <1>4 DEF Goes, MayThrow

ClosureCalled ==
    LET c == Word(Insn.callee)
    IN Points(c, "closure") /\ Obj(c).fn - CodeBase \in DOMAIN program.fns

LEMMA ClosureGoes ==
    ASSUME AllLaidOut, Chosen, Shape, IsException(exc), CallClosure
    PROVE  /\ pc.at > 0 /\ exc' = exc /\ status' # "done"
           /\ ~(Goes /\ Local) => /\ rax = <<>> /\ Insn.i \in {"call", "calldyn"}
                                  /\ \E g \in DOMAIN program.fns : Calls(g, PushedFor(Insn))
<1>1. /\ rax = <<>> /\ Insn.i = "calldyn" /\ exc' = exc /\ rax' = rax /\ status = "running" /\ pc.at > 0
      /\ status' \in {status, "running", "fault"}
      /\ ~ClosureCalled => Goto(pc.at + 1) /\ SetReg(Insn.d, 0) /\ Next1 /\ UNCHANGED <<program, rax, fp, frames>>
  BY DEF CallClosure, At, Next1, ClosureCalled
<1>2. Effect(Insn)
  BY <1>1, QuietEffect
<1>3. CASE ~ClosureCalled
  <2>1. pc'.fn = pc.fn /\ pc'.at \in Successors(Fun, pc.at)
    BY <1>1, <1>3, GoesNext DEF Shape, Successors, Insn
  <2>2. Goes
    BY <1>1, <1>2, <2>1 DEF Goes
  <2>3. (Insn.d # <<>> => Insn.d[1].n \in DOMAIN Fun.place) /\ pc.at + 1 \in DOMAIN Fun.code
    BY <1>1, Here DEF Target
  <2>4. Local
    BY <1>1, <1>3, <2>3, SetsLocal
  <2> QED
    BY <1>1, <2>2, <2>4
<1>4. CASE ClosureCalled
  <2> DEFINE g == Obj(Word(Insn.callee)).fn - CodeBase
  <2>1. g \in DOMAIN program.fns
    BY <1>4 DEF ClosureCalled
  <2>2. Enter(g, <<Obj(Word(Insn.callee)).caps>> \o Firsts(Words(Insn.args), 5), 0) /\ UNCHANGED <<program, rax, saved, fp>>
    BY <1>4 DEF CallClosure, ClosureCalled
  <2>3. PushedFor(Insn) = 0 /\ IsSeq(mem) /\ 0 \in Nat
    BY <1>1, Here DEF PushedFor
  <2> HIDE DEF g
  <2>4. Calls(g, PushedFor(Insn))
    BY <2>2, <2>3, EnterCalls
  <2> QED
    BY <1>1, <2>1, <2>4
<1> QED
  BY <1>3, <1>4

\* every step, with what it does to the exceptions
CatchSteps ==
    \/ pc.at > 0 /\ Local /\ Goes
    \/ pc.at = 0 /\ Enters /\ exc' = exc /\ status' # "done"
    \/ /\ pc.at > 0 /\ rax = <<>> /\ Insn.i \in {"call", "calldyn"} /\ exc' = exc /\ status' # "done"
       /\ \E g \in DOMAIN program.fns : Calls(g, PushedFor(Insn))
    \/ pc.at > 0 /\ Returns /\ exc' = exc /\ Insn.i = "ret" /\ rax = <<>>

LEMMA NextCatchSteps == ASSUME AllLaidOut, Chosen, Shape, IsException(exc), Next PROVE CatchSteps
<1>1. CASE Prologue
  <2>1. pc.at = 0 /\ exc' = exc /\ status' # "done"
    BY <1>1 DEF Prologue, runtime
  <2> QED
    BY <1>1, <2>1, Setting, PrologueEnters DEF Shape, CatchSteps
<1>2. CASE Move \/ Arithmetic \/ Comparison \/ Not
  BY <1>2, InsideSteps, SimpleGoes DEF CatchSteps
<1>3. CASE RuntimeCall
  BY <1>3, InsideSteps, RuntimeGoes DEF CatchSteps
<1>4. CASE Control
  BY <1>4, ControlLocal, ControlGoes DEF CatchSteps
<1>5. CASE StoreElement
  BY <1>5, ControlLocal, SimpleGoes DEF CatchSteps
<1>6. CASE CallFunction
  <2>1. exc' = exc /\ status' # "done"
    BY <1>6 DEF CallFunction, At, runtime
  <2> QED
    BY <1>6, <2>1, CallsSomething DEF CatchSteps
<1>7. CASE CallClosure
  BY <1>7, ClosureGoes DEF CatchSteps
<1>8. CASE Return
  <2>1. exc' = exc /\ Insn.i = "ret" /\ rax = <<>>
    BY <1>8 DEF Return, At
  <2> QED
    BY <1>8, <2>1, ReturnReturns DEF CatchSteps
<1>9. CASE Resume
  BY <1>9, ResumeLocal, ResumeGoes DEF CatchSteps
<1> QED
  BY <1>1, <1>2, <1>3, <1>4, <1>5, <1>6, <1>7, <1>8, <1>9 DEF Next

(***************************************************************************)
(* A plan along the steps                                                  *)
(***************************************************************************)

\* the depth and flag fit what the plan has, above `base` frames of the callers
Fits(x, base, e) ==
    /\ e.depth <= base + x.depth
    /\ e.flag => base + x.depth > 0
    /\ x.quiet => ~e.flag

LEMMA PlanRecord ==
    ASSUME NEW f, NEW plan, Balances(f, plan), NEW k \in DOMAIN plan
    PROVE  /\ k \in DOMAIN f.code /\ plan[k].depth \in Nat /\ plan[k].quiet \in BOOLEAN
           /\ plan[k] = [depth |-> plan[k].depth, quiet |-> plan[k].quiet]
           /\ Runtime(f.code[k], "vredrs_pop_catch") => plan[k].depth >= 1 /\ plan[k].quiet
           /\ f.code[k].i = "ret" => plan[k].depth = 0
           /\ ~Runtime(f.code[k], "sys_exit")
           /\ \A to \in Successors(f, k) : Admits(plan, to, Passed(f.code[k], plan[k]))
  BY DEF Balances

LEMMA FitsFlow ==
    ASSUME NEW f, NEW plan, Balances(f, plan), NEW k \in DOMAIN plan, NEW to \in Successors(f, k),
           NEW base \in Nat, IsException(exc), Effect(f.code[k]),
           exc.depth <= base + plan[k].depth, exc.flag => base + plan[k].depth > 0,
           plan[k].quiet => (~exc.flag \/ MayThrow(f.code[k]))
    PROVE  to \in DOMAIN plan /\ Fits(plan[to], base, exc')
<1> DEFINE i == f.code[k]
           x == plan[k]
           y == plan[to]
<1>1. /\ x.depth \in Nat /\ x.quiet \in BOOLEAN /\ x = [depth |-> x.depth, quiet |-> x.quiet]
      /\ Runtime(i, "vredrs_pop_catch") => x.depth >= 1 /\ x.quiet
      /\ Admits(plan, to, Passed(i, x))
  BY PlanRecord
<1>2. to \in DOMAIN plan /\ y.depth = Passed(i, x).depth /\ (y.quiet => Passed(i, x).quiet)
  BY <1>1 DEF Admits
<1>3. /\ exc.depth \in Nat /\ exc.flag \in BOOLEAN /\ exc'.depth \in Nat /\ exc'.flag \in BOOLEAN
  BY DEF Effect, IsException
<1>4. /\ exc.depth <= base + x.depth /\ (exc.flag => base + x.depth > 0)
      /\ x.quiet => (~exc.flag \/ MayThrow(i))
  OBVIOUS
<1>5. Effect(i)
  OBVIOUS
<1> HIDE DEF i, x, y
<1>6. CASE Runtime(i, "vredrs_push_catch")
  <2>1. y.depth = x.depth + 1 /\ (y.quiet => x.quiet) /\ ~MayThrow(i)
    BY ONLY <1>1, <1>2, <1>6 DEF Passed, Runtime, MayThrow
  <2>2. exc'.depth <= exc.depth + 1 /\ (exc'.flag => exc.flag)
    BY ONLY <1>5, <1>6 DEF Effect
  <2> QED
    BY ONLY <1>1, <1>2, <1>3, <1>4, <2>1, <2>2, base \in Nat DEF Fits, y
<1>7. CASE Runtime(i, "vredrs_pop_catch")
  <2>1. y.depth = x.depth - 1 /\ (y.quiet => x.quiet) /\ ~MayThrow(i)
    BY ONLY <1>1, <1>2, <1>7 DEF Passed, Runtime, MayThrow
  <2>2. (exc'.depth + 1 <= exc.depth \/ exc'.depth = 0) /\ exc'.flag = exc.flag
    BY ONLY <1>5, <1>7 DEF Effect
  <2> QED
    BY ONLY <1>1, <1>2, <1>3, <1>4, <1>7, <2>1, <2>2, base \in Nat DEF Fits, y
<1>8. CASE Runtime(i, "vredrs_check_throw")
  <2>1. y.depth = x.depth
    BY ONLY <1>1, <1>2, <1>8 DEF Passed, Runtime
  <2>2. exc'.depth = exc.depth /\ ~exc'.flag
    BY ONLY <1>5, <1>8 DEF Effect
  <2> QED
    BY ONLY <1>1, <1>2, <1>3, <1>4, <2>1, <2>2, base \in Nat DEF Fits, y
<1>9. CASE Runtime(i, "vredrs_throw")
  <2>1. y.depth = x.depth /\ ~y.quiet
    BY ONLY <1>1, <1>2, <1>9 DEF Passed, Runtime, MayThrow
  <2>2. exc'.depth = exc.depth /\ (exc'.flag => exc.flag \/ exc.depth > 0)
    BY ONLY <1>5, <1>9 DEF Effect
  <2> QED
    BY ONLY <1>1, <1>2, <1>3, <1>4, <2>1, <2>2, base \in Nat DEF Fits, y
<1>10. CASE ~(i.i = "rt" /\ i.f \in CatchFunctions)
  <2>1. y.depth = x.depth /\ (y.quiet => x.quiet /\ ~MayThrow(i))
    BY ONLY <1>1, <1>2, <1>10 DEF Passed, Runtime, MayThrow, CatchFunctions
  <2>2. exc' = exc
    BY ONLY <1>5, <1>10 DEF Effect
  <2> QED
    BY ONLY <1>1, <1>2, <1>3, <1>4, <2>1, <2>2, base \in Nat DEF Fits, y
<1> QED
  BY ONLY <1>6, <1>7, <1>8, <1>9, <1>10 DEF Runtime, CatchFunctions

(***************************************************************************)
(* The plans of the suspended activations                                  *)
(***************************************************************************)

\* two histories and stacks agree up to activation top
AgreeTo(fs, m, fs2, m2, top) ==
    /\ \A k \in 1..top : fs2[k] = fs[k]
    /\ \A j \in 1..(fs[top].depth + 1) : m2[j] = m[j]

LEMMA BacksAgree ==
    ASSUME NEW fs, NEW m, NEW fs2, NEW m2, Depths(fs), NEW top \in 1..Len(fs), NEW k \in 1..top,
           AgreeTo(fs, m, fs2, m2, top)
    PROVE  BackOf(fs2, m2, k) = BackOf(fs, m, k)
<1>1. Len(fs) \in Nat
  BY DEF Depths, IsSeq
<1>2. k \in 1..Len(fs) /\ top \in 1..Len(fs) /\ k <= top
  BY <1>1
<1>3. fs[k].depth \in Nat /\ fs[top].depth \in Nat /\ fs[k].depth <= fs[top].depth
  BY <1>2 DEF Depths
<1>4. fs[k].depth + 1 \in 1..(fs[top].depth + 1)
  BY ONLY <1>3
<1> QED
  BY <1>4 DEF BackOf, AgreeTo

LEMMA OffsetsBelow ==
    ASSUME NEW plan, NEW fs, NEW m, NEW fs2, NEW m2, NEW off, Offsets(plan, fs, m, off), Depths(fs),
           NEW top \in 1..Len(fs), Len(fs2) = top, AgreeTo(fs, m, fs2, m2, top)
    PROVE  Offsets(plan, fs2, m2, [k \in 1..top |-> off[k]])
<1> DEFINE off2 == [k \in 1..top |-> off[k]]
<1>1. Len(fs) \in Nat /\ top \in Nat /\ top >= 1 /\ top <= Len(fs)
  BY DEF Depths, IsSeq
<1>2. \A k \in 1..top : off[k] \in Nat /\ off2[k] = off[k]
  BY <1>1 DEF Offsets
<1>3. off2 \in [1..Len(fs2) -> Nat] /\ off2[1] = 0
  BY <1>1, <1>2 DEF Offsets
<1> HIDE DEF off2
<1>4. ASSUME NEW k \in 1..(Len(fs2) - 1)
      PROVE  LET b == BackOf(fs2, m2, k + 1)
             IN b.at \in DOMAIN plan[b.fn] /\ off2[k + 1] = off2[k] + plan[b.fn][b.at].depth
  <2>1. k \in 1..(Len(fs) - 1) /\ k \in 1..top /\ k + 1 \in 1..top
    BY <1>1
  <2>3. BackOf(fs2, m2, k + 1) = BackOf(fs, m, k + 1)
    BY <2>1, BacksAgree
  <2> QED
    BY <2>1, <2>3, <1>2 DEF Offsets
<1>5. Offsets(plan, fs2, m2, off2)
  BY <1>3, <1>4 DEF Offsets
<1> QED
  BY <1>5 DEF off2

LEMMA OffsetsSame ==
    ASSUME NEW plan, NEW fs, NEW m, NEW fs2, NEW m2, NEW off, Offsets(plan, fs, m, off), Depths(fs),
           fs2 = fs, \A j \in 1..(fs[Len(fs)].depth + 1) : m2[j] = m[j]
    PROVE  Offsets(plan, fs2, m2, off)
<1>1. Len(fs) \in 1..Len(fs)
  BY DEF Depths, IsSeq
<1>2. [k \in 1..Len(fs) |-> off[k]] = off
  BY DEF Offsets
<1> QED
  BY <1>1, <1>2, OffsetsBelow DEF AgreeTo

\* what the four kinds of steps have in common
Planned(plan) == \A j \in DOMAIN program.fns : Balances(program.fns[j], plan[j])

LEMMA PlanHere ==
    ASSUME AllLaidOut, Chosen, Shape, IsException(exc), NEW plan, Planned(plan),
           NEW off, Offsets(plan, frames, mem, off), Caught(plan, off)
    PROVE  /\ Depths(frames) /\ Len(frames) \in Nat /\ Len(frames) >= 1 /\ Len(frames) \in 1..Len(frames)
           /\ off[Len(frames)] \in Nat /\ Newest.depth \in Nat
           /\ exc.depth \in Nat /\ exc.flag \in BOOLEAN
           /\ Balances(Fun, plan[pc.fn])
           /\ pc.at = 0 => exc.depth <= off[Len(frames)] /\ (exc.flag => off[Len(frames)] > 0)
           /\ pc.at > 0 => /\ pc.at \in DOMAIN plan[pc.fn] /\ plan[pc.fn][pc.at].depth \in Nat
                           /\ exc.depth <= off[Len(frames)] + plan[pc.fn][pc.at].depth
                           /\ exc.flag => off[Len(frames)] + plan[pc.fn][pc.at].depth > 0
                           /\ plan[pc.fn][pc.at].quiet /\ rax = <<>> => ~exc.flag
<1>1. Depths(frames) /\ Len(frames) \in Nat /\ Len(frames) >= 1 /\ Len(frames) \in 1..Len(frames) /\ Newest.depth \in Nat
      /\ pc.at \in Nat /\ pc.fn \in DOMAIN program.fns
  BY Setting DEF Shape
<1>2. off[Len(frames)] \in Nat
  BY <1>1 DEF Offsets
<1>3. exc.depth \in Nat /\ exc.flag \in BOOLEAN
  BY DEF IsException
<1>4. Balances(Fun, plan[pc.fn])
  BY <1>1 DEF Planned, Fun
<1>5. ASSUME pc.at = 0 PROVE exc.depth <= off[Len(frames)] /\ (exc.flag => off[Len(frames)] > 0)
  <2>1. exc.depth <= off[Len(frames)] + 0 /\ (exc.flag => off[Len(frames)] + 0 > 0)
    BY <1>5 DEF Caught, Outermost
  <2> QED
    BY ONLY <2>1, <1>2
<1>6. ASSUME pc.at > 0
      PROVE  /\ pc.at \in DOMAIN plan[pc.fn] /\ plan[pc.fn][pc.at].depth \in Nat
             /\ exc.depth <= off[Len(frames)] + plan[pc.fn][pc.at].depth
             /\ exc.flag => off[Len(frames)] + plan[pc.fn][pc.at].depth > 0
             /\ plan[pc.fn][pc.at].quiet /\ rax = <<>> => ~exc.flag
  <2>1. pc.at # 0
    BY <1>1, <1>6
  <2>2. pc.at \in DOMAIN plan[pc.fn]
    BY <1>6 DEF Caught
  <2>3. plan[pc.fn][pc.at].depth \in Nat
    BY <1>4, <2>2, PlanRecord
  <2> QED
    BY <2>1, <2>2, <2>3 DEF Caught
<1> QED
  BY <1>1, <1>2, <1>3, <1>4, <1>5, <1>6

LEMMA LocalCatches ==
    ASSUME AllLaidOut, Chosen, Shape, IsException(exc), NEW plan, Planned(plan),
           NEW off, Offsets(plan, frames, mem, off), Caught(plan, off),
           pc.at > 0, Local, Goes
    PROVE  Offsets(plan, frames', mem', off) /\ Caught(plan, off)' /\ IsException(exc') /\ status' # "done"
<1> DEFINE n == Len(frames)
           p == plan[pc.fn]
<1>1. /\ Depths(frames) /\ n \in Nat /\ off[n] \in Nat /\ Newest.depth \in Nat /\ Balances(Fun, p)
      /\ pc.at \in DOMAIN p /\ exc.depth <= off[n] + p[pc.at].depth
      /\ exc.flag => off[n] + p[pc.at].depth > 0
      /\ p[pc.at].quiet /\ rax = <<>> => ~exc.flag
  BY PlanHere
<1>2. /\ frames' = frames /\ \A j \in 1..fp : mem'[j] = mem[j]
      /\ pc'.fn = pc.fn /\ pc'.at \in Successors(Fun, pc.at) /\ Effect(Insn)
      /\ rax = <<>> \/ MayThrow(Insn)
      /\ status' = "done" => Runtime(Insn, "sys_exit")
  BY DEF Local, Goes
<1>3. fp = Newest.depth + 2 /\ Fun.code[pc.at] = Insn
  BY Here DEF Insn
<1>4. \A j \in 1..(Newest.depth + 1) : mem'[j] = mem[j]
  <2>1. \A j \in 1..(Newest.depth + 1) : j \in 1..fp
    BY <1>1, <1>3
  <2> QED
    BY <1>2, <2>1
<1>5. Offsets(plan, frames', mem', off)
  BY <1>1, <1>2, <1>4, OffsetsSame DEF Newest
<1>6. status' # "done"
  BY <1>1, <1>2, <1>3, PlanRecord
<1>7. pc'.at \in DOMAIN p /\ Fits(p[pc'.at], off[n], exc')
  BY <1>1, <1>2, <1>3, FitsFlow
<1>8. pc'.at # 0
  <2>1. pc'.at \in DOMAIN Fun.code
    BY <1>1, <1>7, PlanRecord
  <2> QED
    BY <2>1, Setting DEF Contained
<1>9. Caught(plan, off)'
  BY <1>2, <1>7, <1>8 DEF Caught, Fits
<1> QED
  BY <1>2, <1>5, <1>6, <1>9 DEF Effect

LEMMA EntersCatches ==
    ASSUME AllLaidOut, Chosen, Shape, IsException(exc), NEW plan, Planned(plan),
           NEW off, Offsets(plan, frames, mem, off), Caught(plan, off),
           pc.at = 0, Enters, exc' = exc
    PROVE  Offsets(plan, frames', mem', off) /\ Caught(plan, off)'
<1> DEFINE n == Len(frames)
           p == plan[pc.fn]
<1>1. /\ Depths(frames) /\ n \in Nat /\ off[n] \in Nat /\ Newest.depth \in Nat /\ Balances(Fun, p)
      /\ exc.depth <= off[n] /\ (exc.flag => off[n] > 0)
  BY PlanHere
<1>2. Len(mem) = Newest.depth + 1
  BY Setting DEF Entering
<1>3. /\ frames' = frames /\ \A j \in 1..(Newest.depth + 1) : mem'[j] = mem[j]
      /\ pc'.fn = pc.fn /\ pc'.at = 1
  BY <1>2 DEF Enters, Shape
<1>4. Offsets(plan, frames', mem', off)
  BY <1>1, <1>3, OffsetsSame DEF Newest
<1>5. 1 \in DOMAIN p /\ p[1].depth = 0 /\ ~p[1].quiet
  BY <1>1 DEF Balances, Admits, Outermost
<1>6. off[n] + p[1].depth = off[n]
  BY <1>1, <1>5
<1>7. Caught(plan, off)'
  BY <1>1, <1>3, <1>5, <1>6 DEF Caught
<1> QED
  BY <1>4, <1>7

LEMMA CallsCatches ==
    ASSUME AllLaidOut, Chosen, Shape, IsException(exc), NEW plan, Planned(plan),
           NEW off, Offsets(plan, frames, mem, off), Caught(plan, off),
           pc.at > 0, rax = <<>>, Insn.i \in {"call", "calldyn"}, exc' = exc,
           NEW g \in DOMAIN program.fns, Calls(g, PushedFor(Insn))
    PROVE  \E off2 : Offsets(plan, frames', mem', off2) /\ Caught(plan, off2)'
<1> DEFINE n == Len(frames)
           over == PushedFor(Insn)
           h == plan[pc.fn][pc.at].depth
           new == [saved |-> saved, fp |-> fp, depth |-> Len(mem) + over]
<1>1. /\ Depths(frames) /\ n \in Nat /\ n >= 1 /\ n \in 1..n /\ off[n] \in Nat /\ Newest.depth \in Nat
      /\ pc.at \in DOMAIN plan[pc.fn] /\ h \in Nat /\ exc.depth <= off[n] + h /\ (exc.flag => off[n] + h > 0)
  BY PlanHere
<1>2. fp = Newest.depth + 2 /\ Size(Fun) \in Nat /\ over \in Nat /\ Len(mem) = fp + Size(Fun) + 0
  BY Here
<1>3. /\ frames' = Append(frames, new) /\ \A j \in 1..Len(mem) : mem'[j] = mem[j]
      /\ mem'[Len(mem) + over + 1] = [back |-> pc] /\ pc' = [fn |-> g, at |-> 0]
  BY DEF Calls
<1>4. /\ Len(frames') = n + 1 /\ \A k \in 1..n : frames'[k] = frames[k]
      /\ frames'[n + 1] = new
  BY <1>1, <1>3, AppendAny DEF Depths
<1>5. \A j \in 1..(frames[n].depth + 1) : mem'[j] = mem[j]
  <2>1. \A j \in 1..(Newest.depth + 1) : j \in 1..Len(mem)
    BY <1>1, <1>2
  <2> QED
    BY <2>1, <1>3 DEF Newest
<1>6. ASSUME NEW k \in 1..n PROVE BackOf(frames', mem', k) = BackOf(frames, mem, k)
  <2>1. AgreeTo(frames, mem, frames', mem', n)
    BY ONLY <1>4, <1>5 DEF AgreeTo
  <2> QED
    BY ONLY <1>1, <1>6, <2>1, BacksAgree
<1>7. BackOf(frames', mem', n + 1) = pc
  BY <1>3, <1>4 DEF BackOf
<1>8. PICK off2 : off2 = [k \in 1..(n + 1) |-> IF k <= n THEN off[k] ELSE off[n] + h]
  OBVIOUS
<1>9. /\ \A k \in 1..n : off2[k] = off[k] /\ off[k] \in Nat
      /\ off2[n + 1] = off[n] + h /\ DOMAIN off2 = 1..(n + 1)
      /\ off2 = [k \in 1..(n + 1) |-> off2[k]]
  <2>1. \A k \in 1..n : off[k] \in Nat
    BY <1>1 DEF Offsets
  <2>2. n + 1 \in 1..(n + 1) /\ ~(n + 1 <= n) /\ \A k \in 1..n : k \in 1..(n + 1) /\ k <= n
    BY ONLY <1>1
  <2> HIDE DEF n, h
  <2> QED
    BY ONLY <1>8, <2>1, <2>2
<1>10. off2 \in [1..Len(frames') -> Nat] /\ off2[1] = 0
  <2>1. 1 \in 1..n /\ off[1] = 0
    BY <1>1 DEF Offsets
  <2>2. \A k \in 1..(n + 1) : k \in 1..n \/ k = n + 1
    BY ONLY <1>1
  <2>3. off[n] + h \in Nat
    BY ONLY <1>1
  <2>4. \A k \in 1..(n + 1) : off2[k] \in Nat
    BY ONLY <1>9, <2>2, <2>3
  <2>5. off2[1] = 0
    BY ONLY <1>9, <2>1
  <2>6. off2 \in [1..(n + 1) -> Nat]
    BY ONLY <1>9, <2>4
  <2> QED
    BY ONLY <1>4, <2>5, <2>6
<1> HIDE DEF new
<1>11. ASSUME NEW k \in 1..(Len(frames') - 1)
       PROVE  LET b == BackOf(frames', mem', k + 1)
              IN b.at \in DOMAIN plan[b.fn] /\ off2[k + 1] = off2[k] + plan[b.fn][b.at].depth
  <2>1. CASE k = n
    BY <2>1, <1>1, <1>7, <1>9
  <2>2. CASE k # n
    <3>1. k \in 1..n /\ k + 1 \in 1..n /\ k \in 1..(n - 1)
      BY ONLY <2>2, <1>1, <1>4
    <3>2. LET b == BackOf(frames, mem, k + 1)
          IN b.at \in DOMAIN plan[b.fn] /\ off[k + 1] = off[k] + plan[b.fn][b.at].depth
      BY <3>1 DEF Offsets
    <3> QED
      BY ONLY <3>1, <3>2, <1>6, <1>9
  <2> QED
    BY <2>1, <2>2
<1>12. Offsets(plan, frames', mem', off2)
  BY <1>10, <1>11 DEF Offsets
<1>13. off2[n + 1] + 0 = off[n] + h
  BY ONLY <1>1, <1>9
<1>14. Caught(plan, off2)'
  <2>1. pc'.at = 0 /\ Len(frames') = n + 1 /\ exc' = exc
    BY <1>3, <1>4
  <2> QED
    BY ONLY <2>1, <1>1, <1>13 DEF Caught, Outermost
<1> QED
  BY <1>12, <1>14

LEMMA ReturnsCatches ==
    ASSUME AllLaidOut, Chosen, Shape, IsException(exc), NEW plan, Planned(plan),
           NEW off, Offsets(plan, frames, mem, off), Caught(plan, off),
           pc.at > 0, rax = <<>>, Returns, Insn.i = "ret", exc' = exc
    PROVE  /\ status' = "running" => \E off2 : Offsets(plan, frames', mem', off2) /\ Caught(plan, off2)'
           /\ status' = "done" => exc'.depth = 0 /\ ~exc'.flag
<1> DEFINE n == Len(frames)
<1>1. /\ Depths(frames) /\ n \in Nat /\ n >= 1 /\ n \in 1..n /\ off[n] \in Nat /\ exc.depth \in Nat /\ exc.flag \in BOOLEAN
      /\ pc.at \in DOMAIN plan[pc.fn] /\ Balances(Fun, plan[pc.fn])
      /\ exc.depth <= off[n] + plan[pc.fn][pc.at].depth /\ (exc.flag => off[n] + plan[pc.fn][pc.at].depth > 0)
  BY PlanHere
<1>2. plan[pc.fn][pc.at].depth = 0
  BY <1>1, PlanRecord DEF Insn
<1>3. exc.depth <= off[n] /\ (exc.flag => off[n] > 0)
  BY ONLY <1>1, <1>2
<1>4. /\ pc' = BackOf(frames, mem, n) /\ rax' # <<>> /\ frames' = Front(frames)
      /\ \A j \in 1..Newest.depth : mem'[j] = mem[j]
      /\ status' = IF pc'.fn = 0 THEN "done" ELSE "running"
  BY DEF Returns
<1>5. LaidOut(program.fns)
  BY Setting
<1>6. CASE n = 1
  <2>1. off[n] = 0 /\ pc'.fn = 0
    BY <1>6, <1>4 DEF Offsets, Shape
  <2> QED
    BY <2>1, <1>1, <1>3, <1>4
<1>7. CASE n # 1
  <2> DEFINE below == n - 1
  <2>1. below \in Nat /\ below >= 1 /\ below \in 1..below /\ below \in 1..n /\ below + 1 = n /\ below \in 1..(n - 1)
    BY <1>1, <1>7, Before
  <2> DEFINE low == frames[below].depth
             high == frames[n].depth
  <2> HIDE DEF below, n
  <2>2. Waits(program.fns, frames, mem, below)
    BY <2>1 DEF Shape, n
  <2>3. CallSite(program.fns, pc')
    BY <2>1, <2>2, <1>4 DEF Waits
  <2>4. pc'.fn \in DOMAIN program.fns /\ pc'.at \in DOMAIN program.fns[pc'.fn].code /\ pc'.at \in Nat
    BY <2>3 DEF CallSite
  <2>5. pc'.fn # 0 /\ pc'.at > 0
    <3>1. 0 \notin DOMAIN program.fns /\ DOMAIN program.fns[pc'.fn].code \subseteq Nat \ {0}
      BY ONLY <2>4, <1>5 DEF LaidOut, Contained
    <3> QED
      BY ONLY <3>1, <2>4
  <2>6. /\ Len(frames') = below /\ \A k \in 1..below : frames'[k] = frames[k]
    BY <1>1, <1>4, FrontAny DEF Depths, n, below
  <2>7. low \in Nat /\ high \in Nat /\ high = Newest.depth
    BY <1>1, <2>1 DEF Depths, n, Newest
  <2>8. low + 2 <= high
    <3> DEFINE w == program.fns[BackOf(frames, mem, below + 1).fn].nsaved
    <3>1. w \in 0..NCallee /\ low + 2 + w <= frames[below + 1].depth
      BY <1>5, <2>1, <2>2, <2>7, WaitsGap
    <3>2. frames[below + 1].depth = high
      BY <2>1
    <3> HIDE DEF w, low, high
    <3> QED
      BY ONLY <3>1, <3>2, <2>7 DEF NCallee
  <2>9. \A j \in 1..(frames[below].depth + 1) : mem'[j] = mem[j]
    <3> HIDE DEF low, high
    <3>1. \A j \in 1..(low + 1) : j \in 1..high
      BY ONLY <2>7, <2>8
    <3> QED
      BY <3>1, <1>4, <2>7 DEF low
  <2> PICK off2 : off2 = [k \in 1..below |-> off[k]]
    OBVIOUS
  <2>10. Offsets(plan, frames', mem', off2)
    <3>1. below \in 1..Len(frames) /\ AgreeTo(frames, mem, frames', mem', below)
      BY <2>1, <2>6, <2>9 DEF AgreeTo, n
    <3> QED
      BY <1>1, <3>1, <2>6, <2>9, OffsetsBelow
  <2>11. pc'.at \in DOMAIN plan[pc'.fn] /\ off[n] = off[below] + plan[pc'.fn][pc'.at].depth
    BY <1>4, <2>1 DEF Offsets, n
  <2>12. off2[below] = off[below]
    BY <2>1
  <2>13. Caught(plan, off2)'
    <3>1. Len(frames') = below /\ pc'.at # 0 /\ rax' # <<>> /\ exc' = exc
      BY <1>4, <2>5, <2>6
    <3>2. off2[Len(frames')] + plan[pc'.fn][pc'.at].depth = off[n]
      BY ONLY <3>1, <2>11, <2>12
    <3> QED
      BY ONLY <3>1, <3>2, <1>3, <2>11 DEF Caught
  <2> QED
    BY <1>4, <2>5, <2>10, <2>13
<1> QED
  BY <1>6, <1>7

LEMMA PlansArePlanned ==
    ASSUME PlansExist, Chosen, program.balanced, Linked(program.fns)
    PROVE  Planned(PlansOf(program.fns))
<1>1. \A j \in DOMAIN program.fns : \E plan : Balances(program.fns[j], plan)
  BY DEF PlansExist, Chosen
<1>2. \A j \in DOMAIN program.fns : Balances(program.fns[j], PlanOf(program.fns[j]))
  BY <1>1 DEF PlanOf
<1> QED
  BY <1>2 DEF Planned, PlansOf

LEMMA InitCatches ==
    ASSUME AllLaidOut, Init
    PROVE  CatchInv
<1> SUFFICES ASSUME program.balanced PROVE CatchInv
  BY DEF CatchInv
<1>1. IsException(exc) /\ exc.depth = 0 /\ ~exc.flag
  BY DEF Init, IsException
<1>2. status # "done"
  BY DEF Init
<1>3. pc.at = 0 /\ frames = <<[saved |-> saved, fp |-> fp, depth |-> 0]>>
  BY DEF Init
<1>4. Len(frames) = 1
  BY <1>3
<1> DEFINE off == [k \in 1..1 |-> 0]
<1>5. off[1] = 0 /\ off \in [1..1 -> Nat] /\ 1..(1 - 1) = {}
  OBVIOUS
<1> HIDE DEF off
<1>6. Offsets(PlansOf(program.fns), frames, mem, off)
  BY <1>4, <1>5 DEF Offsets
<1>7. Caught(PlansOf(program.fns), off)
  BY <1>1, <1>3, <1>4, <1>5 DEF Caught, Outermost
<1>8. CatchesFit(PlansOf(program.fns))
  BY <1>6, <1>7 DEF CatchesFit
<1> QED
  BY <1>1, <1>2, <1>8 DEF CatchInv

LEMMA NextCatches ==
    ASSUME AllLaidOut, PlansExist, ShapeInv, CatchInv, [Next]_vars
    PROVE  CatchInv'
<1>1. CASE Next
  <2>1. status = "running" /\ program' = program
    BY <1>1, Runs
  <2>2. Chosen /\ Shape
    BY <2>1 DEF ShapeInv, StackShape
  <2> SUFFICES ASSUME program.balanced PROVE CatchInv'
    BY <2>1 DEF CatchInv
  <2>3. IsException(exc) /\ CatchesFit(PlansOf(program.fns))
    BY <2>1 DEF CatchInv
  <2> PICK plan : plan = PlansOf(program.fns)
    OBVIOUS
  <2>4. Planned(plan)
    BY <2>2, PlansArePlanned DEF Shape
  <2> PICK off : Offsets(plan, frames, mem, off) /\ Caught(plan, off)
    BY <2>3 DEF CatchesFit
  <2>5. CatchSteps
    BY <1>1, <2>2, <2>3, NextCatchSteps
  <2>6. /\ IsException(exc')
        /\ status' = "running" => \E off2 : Offsets(plan, frames', mem', off2) /\ Caught(plan, off2)'
        /\ status' = "done" => exc'.depth = 0 /\ ~exc'.flag
    <3>1. CASE pc.at > 0 /\ Local /\ Goes
      BY <3>1, <2>2, <2>3, <2>4, LocalCatches
    <3>2. CASE pc.at = 0 /\ Enters /\ exc' = exc /\ status' # "done"
      BY <3>2, <2>2, <2>3, <2>4, EntersCatches
    <3>3. CASE /\ pc.at > 0 /\ rax = <<>> /\ Insn.i \in {"call", "calldyn"} /\ exc' = exc /\ status' # "done"
               /\ \E g \in DOMAIN program.fns : Calls(g, PushedFor(Insn))
      BY <3>3, <2>2, <2>3, <2>4, CallsCatches
    <3>4. CASE pc.at > 0 /\ Returns /\ exc' = exc /\ Insn.i = "ret" /\ rax = <<>>
      BY <3>4, <2>2, <2>3, <2>4, ReturnsCatches
    <3> QED
      BY <2>5, <3>1, <3>2, <3>3, <3>4 DEF CatchSteps
  <2>7. PlansOf(program.fns)' = plan
    BY <2>1
  <2>8. ASSUME status' = "running" PROVE CatchesFit(PlansOf(program.fns))'
    BY <2>6, <2>7, <2>8 DEF CatchesFit
  <2> QED
    BY <2>6, <2>8 DEF CatchInv
<1>2. CASE UNCHANGED vars
  BY <1>2 DEF vars, CatchInv, CatchesFit, Caught
<1> QED
  BY <1>1, <1>2

(***************************************************************************)
(* Theorems                                                                *)
(***************************************************************************)

\* At every call of a C function or of a function of the program the stack is
\* aligned to 16 bytes: what the prologue pushes, the padding of the saved
\* registers, the frame and the padding of pushed arguments add up, at any depth
\* of calls and closures.
THEOREM StackIsAligned ==
    ASSUME AllLaidOut
    PROVE  Spec => []StackAligned
<1>1. Init => ShapeInv
  BY InitStack
<1>2. ShapeInv /\ [Next]_vars => ShapeInv'
  BY NextShape
<1>3. ShapeInv => StackAligned
  <2> SUFFICES ASSUME ShapeInv, status = "running", pc.at > 0, rax = <<>>
               PROVE  (Len(mem) + PushedFor(Insn)) % 2 = 0
    BY DEF StackAligned
  <2>1. Chosen /\ Shape
    BY DEF ShapeInv, StackShape
  <2> DEFINE d == Newest.depth
             w == Size(Fun)
             p == PushedFor(Insn)
  <2>2. d \in Nat /\ d % 2 = 0 /\ w \in Nat /\ w % 2 = 0 /\ p \in Nat /\ p % 2 = 0
    BY <2>1, Setting, Here, PlacedSize
  <2>3. Len(mem) = (d + 2) + w
    BY <2>1, <2>2, Here
  <2> HIDE DEF d, w, p
  <2>4. (((d + 2) + w) + p) % 2 = 0
    BY <2>2
  <2> QED
    BY <2>3, <2>4 DEF p
<1> QED
  BY <1>1, <1>2, <1>3, PTL DEF Spec

\* A function gives its caller back the registers it found and the depth of the
\* stack, whatever it and the functions it calls did with their own virtual
\* registers, when no slot lies among the words of the saved registers.
THEOREM RegistersAreKept ==
    ASSUME AllLaidOut, AllApart
    PROVE  Spec => RegistersKept
<1>1. Init => ShapeInv /\ RegistersHeld
  BY InitStack
<1>2. ShapeInv /\ RegistersHeld /\ [Next]_vars => ShapeInv' /\ RegistersHeld'
  BY NextShape, NextHolds
<1>3. ShapeInv /\ RegistersHeld /\ [Next]_vars =>
        [Len(frames') < Len(frames) =>
           saved' = Last(frames).saved /\ fp' = Last(frames).fp /\ Len(mem') = Last(frames).depth]_vars
  <2> SUFFICES ASSUME ShapeInv, RegistersHeld, Next, Len(frames') < Len(frames)
               PROVE  saved' = Last(frames).saved /\ fp' = Last(frames).fp /\ Len(mem') = Last(frames).depth
    OBVIOUS
  <2>1. status = "running"
    BY Runs
  <2>2. Chosen /\ Shape /\ Holding
    BY <2>1 DEF ShapeInv, StackShape, RegistersHeld
  <2>3. Len(frames) \in Nat /\ IsSeq(frames)
    BY <2>2, Setting DEF Shape, Depths
  <2>4. ASSUME NEW g, Calls(g, PushedFor(Insn)) PROVE Len(frames') = Len(frames) + 1
    BY <2>3, <2>4, AppendAny DEF Calls
  <2>5. pc.at > 0 /\ Returns
    BY <2>2, <2>3, <2>4, NextSteps DEF Steps, Local, Enters
  <2> QED
    BY <2>2, <2>5, ReturnsRegisters DEF Returns, Newest, Last
<1> QED
  BY <1>1, <1>2, <1>3, PTL DEF Spec, RegistersKept

\* A program that ends has popped every catch frame it pushed and left no
\* exception pending, when its functions have plans: whatever the calls and
\* closures between a throw and the try that catches it, and with nested tries
\* beyond the 64 frames of the runtime.
THEOREM CatchesAreBalanced ==
    ASSUME AllLaidOut, PlansExist
    PROVE  Spec => []CatchBalanced
<1>1. Init => ShapeInv /\ CatchInv
  BY InitStack, InitCatches
<1>2. ShapeInv /\ CatchInv /\ [Next]_vars => ShapeInv' /\ CatchInv'
  BY NextShape, NextCatches
<1>3. CatchInv => CatchBalanced
  BY DEF CatchInv, CatchBalanced
<1> QED
  BY <1>1, <1>2, <1>3, PTL DEF Spec
=============================================================================
