---------------------------- MODULE ChannelProofs ----------------------------
(***************************************************************************)
(* Proofs about Channel.tla, for every set of handles, every capacity and  *)
(* every number of sends.  A step of Next is first sorted by what it does  *)
(* under the mutex (StepCases); each invariant is then shown to survive    *)
(* each kind of step that can disturb it.                                  *)
(***************************************************************************)
EXTENDS Channel, TLAPS, FiniteSetTheorems, SequenceTheorems

(***************************************************************************)
(* The kinds of step                                                       *)
(***************************************************************************)

rest == <<buffer, closed, senders, count, sent, received, refused>>

Running(t) == pc[t] \in {"idle", "woken"}

PushStep == \E s \in Senders :
    Running(s) /\ count[s] < MaxSends /\ ~closed /\ ~Full /\ Push(s)

RefuseStep == \E s \in Senders :
    Running(s) /\ count[s] < MaxSends /\ closed /\ Refuse(s)

SleepStep == \E t \in Threads :
    /\ Running(t) /\ ~closed
    /\ t \in Senders => count[t] < MaxSends /\ Full
    /\ t \in Receivers => buffer = <<>>
    /\ Sleep(t) /\ UNCHANGED rest

CloneStep == \E s, t \in Senders : Clone(s, t)

DropStep == \E s \in Senders : Drop(s)

PopStep == \E r \in Receivers : Running(r) /\ buffer # <<>> /\ Pop(r)

EndStep == \E r \in Receivers :
    /\ Running(r) /\ buffer = <<>> /\ closed
    /\ pc' = [pc EXCEPT ![r] = "none"] /\ UNCHANGED rest

LeaveStep == \E r \in Receivers :
    /\ pc[r] \in {"none", "idle"}
    /\ pc' = [pc EXCEPT ![r] = "dropped"] /\ UNCHANGED rest

WakeStep == \E t \in Threads :
    pc[t] = "waiting" /\ pc' = [pc EXCEPT ![t] = "woken"] /\ UNCHANGED rest

\* A send that is asleep or about to retake the mutex has not completed, so
\* its handle still has a send to count: what TypeOK needs to be inductive.
PendingSend ==
    \A s \in Senders : pc[s] \in {"waiting", "woken"} => count[s] < MaxSends

TypeInv == TypeOK /\ PendingSend

LEMMA SenderStepCases ==
  ASSUME TypeInv, NEW s \in Senders, SenderStep(s)
  PROVE  PushStep \/ RefuseStep \/ SleepStep \/ CloneStep \/ DropStep
<1>1. CASE Send(s) \/ SendResume(s)
  <2>1. Running(s) /\ count[s] < MaxSends /\ SendLocked(s)
    BY <1>1 DEF Send, SendResume, Running, TypeInv, PendingSend
  <2>2. CASE closed
    BY <2>1, <2>2 DEF SendLocked, RefuseStep
  <2>3. CASE ~closed /\ Full
    <3>1. Sleep(s) /\ UNCHANGED rest
      BY <2>1, <2>3 DEF SendLocked, rest
    <3>2. s \in Threads /\ s \notin Receivers
      BY ChannelAssumption DEF Threads
    <3> QED BY <2>1, <2>3, <3>1, <3>2 DEF SleepStep
  <2>4. CASE ~closed /\ ~Full
    BY <2>1, <2>4 DEF SendLocked, PushStep
  <2> QED BY <2>2, <2>3, <2>4
<1>2. CASE Drop(s)
  BY <1>2 DEF DropStep
<1>3. CASE \E t \in Senders : Clone(s, t)
  BY <1>3 DEF CloneStep
<1> QED BY <1>1, <1>2, <1>3 DEF SenderStep

LEMMA ReceiverStepCases ==
  ASSUME NEW r \in Receivers, ReceiverStep(r)
  PROVE  PopStep \/ EndStep \/ SleepStep \/ LeaveStep
<1>1. CASE Recv(r) \/ RecvResume(r) \/ TryRecv(r)
  <2>1. Running(r) /\ ((buffer # <<>> /\ Pop(r)) \/ RecvLocked(r))
    BY <1>1 DEF Recv, RecvResume, TryRecv, Running
  <2>2. CASE buffer # <<>> /\ Pop(r)
    BY <2>1, <2>2 DEF PopStep
  <2>3. CASE /\ buffer = <<>>
             /\ IF closed THEN pc' = [pc EXCEPT ![r] = "none"] ELSE Sleep(r)
             /\ UNCHANGED <<buffer, closed, senders, count, sent, received, refused>>
    <3>1. r \in Threads /\ r \notin Senders
      BY ChannelAssumption DEF Threads
    <3>2. CASE closed
      BY <2>1, <2>3, <3>2 DEF EndStep, rest
    <3>3. CASE ~closed
      BY <2>1, <2>3, <3>1, <3>3 DEF SleepStep, rest
    <3> QED BY <3>2, <3>3
  <2> QED BY <2>1, <2>2, <2>3 DEF RecvLocked
<1>2. CASE DropReceiver(r)
  BY <1>2 DEF DropReceiver, LeaveStep, rest
<1> QED BY <1>1, <1>2 DEF ReceiverStep

LEMMA StepCases ==
  ASSUME TypeInv, [Next]_vars
  PROVE  \/ PushStep \/ RefuseStep \/ SleepStep \/ CloneStep \/ DropStep
         \/ PopStep \/ EndStep \/ LeaveStep \/ WakeStep
         \/ UNCHANGED vars
<1>1. CASE \E s \in Senders : SenderStep(s)
  BY <1>1, SenderStepCases
<1>2. CASE \E r \in Receivers : ReceiverStep(r)
  BY <1>2, ReceiverStepCases
<1>3. CASE \E t \in Threads : SpuriousWake(t)
  BY <1>3 DEF SpuriousWake, WakeStep, rest
<1>4. CASE Joined \/ UNCHANGED vars
  BY <1>4 DEF Joined
<1> QED BY <1>1, <1>2, <1>3, <1>4 DEF Next
(***************************************************************************)
(* Types                                                                   *)
(***************************************************************************)

PcOK ==
    /\ pc \in [Threads -> Status]
    /\ \A s \in Senders : pc[s] # "none"
    /\ \A r \in Receivers : pc[r] # "unborn"

LEMMA NotifyAllPcOK ==
  ASSUME PcOK, NEW t \in Threads, NEW status \in Status, NotifyAll(t, status),
         t \in Senders => status # "none",
         t \in Receivers => status # "unborn"
  PROVE  /\ PcOK'
         /\ pc'[t] = status
         /\ \A u \in Threads : u # t /\ pc[u] = "waiting" => pc'[u] = "woken"
         /\ \A u \in Threads : u # t /\ pc[u] # "waiting" => pc'[u] = pc[u]
<1>1. pc' \in [Threads -> Status]
  BY DEF PcOK, NotifyAll, Status
<1>2. /\ pc'[t] = status
      /\ \A u \in Threads : u # t /\ pc[u] = "waiting" => pc'[u] = "woken"
      /\ \A u \in Threads : u # t /\ pc[u] # "waiting" => pc'[u] = pc[u]
  BY DEF NotifyAll
<1>3. /\ \A s \in Senders : pc'[s] # "none"
      /\ \A r \in Receivers : pc'[r] # "unborn"
  BY <1>2, ChannelAssumption DEF PcOK, Threads
<1> QED BY <1>1, <1>2, <1>3 DEF PcOK

LEMMA LiveFinite == IsFiniteSet(Live) /\ Cardinality(Live) \in Nat
  BY ChannelAssumption, FS_Subset, FS_CardinalityType DEF Live

LEMMA InitTypeInv == Init => TypeInv
<1> SUFFICES ASSUME Init PROVE TypeInv
  OBVIOUS
<1>1. /\ buffer \in Seq(Message) /\ sent \in Seq(Message)
      /\ received \in Seq(Message)
  BY DEF Init
<1>2. pc \in [Threads -> Status]
  BY DEF Init, Status
<1>3. /\ \A s \in Senders : pc[s] \in {"idle", "unborn"}
      /\ \A r \in Receivers : pc[r] = "idle"
  BY ChannelAssumption DEF Init, Threads
<1>4. count \in [Senders -> 0..MaxSends]
  BY ChannelAssumption DEF Init
<1>5. PendingSend
  BY <1>3 DEF PendingSend
<1> QED BY <1>1, <1>2, <1>3, <1>4, <1>5 DEF Init, TypeInv, TypeOK

LEMMA NextTypeInv ==
  ASSUME TypeInv, CloseIffNoSender, [Next]_vars
  PROVE  TypeInv'
<1> USE ChannelAssumption
<1>0. PcOK
  BY DEF TypeInv, TypeOK, PcOK
<1>1. CASE PushStep
  <2> PICK s \in Senders : Running(s) /\ count[s] < MaxSends /\ Push(s)
    BY <1>1 DEF PushStep
  <2> DEFINE m == <<s, count[s] + 1>>
  <2>1. m \in Message
    BY DEF Message, TypeInv, TypeOK
  <2>2. buffer' \in Seq(Message) /\ sent' \in Seq(Message)
    BY <2>1 DEF Push, TypeInv, TypeOK
  <2>3. count' \in [Senders -> 0..MaxSends]
    BY DEF Push, TypeInv, TypeOK
  <2>4. NotifyAll(s, "idle") /\ s \in Threads /\ s \notin Receivers
    BY DEF Push, Threads
  <2>5. PcOK' /\ \A u \in Senders : pc'[u] \in {"waiting", "woken"} =>
                    u # s /\ pc[u] \in {"waiting", "woken"}
    BY <1>0, <2>4, NotifyAllPcOK, "idle" \in Status DEF Status, Threads
  <2>6. PendingSend'
    BY <2>5 DEF Push, PendingSend, TypeInv, TypeOK
  <2> QED BY <2>2, <2>3, <2>5, <2>6 DEF Push, TypeInv, TypeOK, PcOK
<1>2. CASE RefuseStep
  <2> PICK s \in Senders : count[s] < MaxSends /\ Refuse(s)
    BY <1>2 DEF RefuseStep
  <2>1. count' \in [Senders -> 0..MaxSends] /\ refused' \subseteq Senders
    BY DEF Refuse, TypeInv, TypeOK
  <2>2. PcOK' /\ PendingSend'
    BY <1>0 DEF PcOK, Refuse, PendingSend, TypeInv, TypeOK, Threads, Status
  <2> QED BY <2>1, <2>2 DEF Refuse, TypeInv, TypeOK, PcOK
<1>3. CASE SleepStep
  BY <1>3 DEF SleepStep, Sleep, rest, TypeInv, TypeOK, PendingSend, Threads, Status
<1>4. CASE CloneStep
  BY <1>4 DEF CloneStep, Clone, TypeInv, TypeOK, PendingSend, Threads, Status
<1>5. CASE DropStep
  <2> PICK s \in Senders : Drop(s)
    BY <1>5 DEF DropStep
  <2>1. senders' \in Nat
    <3>1. s \in Live
      BY DEF Live, Drop
    <3>2. Cardinality(Live) # 0
      BY <3>1, LiveFinite, FS_EmptySet
    <3> QED BY <3>2, LiveFinite DEF CloseIffNoSender, Drop
  <2>2. NotifyAll(s, "dropped") /\ s \in Threads /\ s \notin Receivers
    BY DEF Drop, Threads
  <2>3. PcOK' /\ \A u \in Senders : pc'[u] \in {"waiting", "woken"} =>
                    u # s /\ pc[u] \in {"waiting", "woken"}
    BY <1>0, <2>2, NotifyAllPcOK, "dropped" \in Status DEF Status, Threads
  <2>4. PendingSend'
    BY <2>3 DEF Drop, PendingSend, TypeInv
  <2> QED BY <2>1, <2>3, <2>4 DEF Drop, TypeInv, TypeOK, PcOK
<1>6. CASE PopStep
  <2> PICK r \in Receivers : buffer # <<>> /\ Pop(r)
    BY <1>6 DEF PopStep
  <2>1. buffer' \in Seq(Message) /\ received' \in Seq(Message)
    BY HeadTailProperties DEF Pop, TypeInv, TypeOK
  <2>2. NotifyAll(r, "idle") /\ r \in Threads /\ r \notin Senders
    BY DEF Pop, Threads
  <2>3. PcOK' /\ \A u \in Senders : pc'[u] \in {"waiting", "woken"} =>
                    pc[u] \in {"waiting", "woken"}
    BY <1>0, <2>2, NotifyAllPcOK, "idle" \in Status DEF Status, Threads
  <2>4. PendingSend'
    BY <2>3 DEF Pop, PendingSend, TypeInv
  <2> QED BY <2>1, <2>3, <2>4 DEF Pop, TypeInv, TypeOK, PcOK
<1>7. CASE EndStep
  BY <1>7 DEF EndStep, rest, TypeInv, TypeOK, PendingSend, Threads, Status
<1>8. CASE LeaveStep
  BY <1>8 DEF LeaveStep, rest, TypeInv, TypeOK, PendingSend, Threads, Status
<1>9. CASE WakeStep
  BY <1>9 DEF WakeStep, rest, TypeInv, TypeOK, PendingSend, Threads, Status
<1>10. CASE UNCHANGED vars
  BY <1>10 DEF vars, TypeInv, TypeOK, PendingSend
<1> QED BY <1>1, <1>2, <1>3, <1>4, <1>5, <1>6, <1>7, <1>8, <1>9, <1>10, StepCases

(***************************************************************************)
(* Closing                                                                 *)
(***************************************************************************)

LEMMA LiveUnchanged ==
  ASSUME \A s \in Senders : (pc'[s] \in {"idle", "waiting", "woken"})
                              <=> (pc[s] \in {"idle", "waiting", "woken"}),
         CloseIffNoSender, UNCHANGED <<senders, closed>>
  PROVE  CloseIffNoSender'
<1>1. Live' = Live
  BY DEF Live
<1> QED BY <1>1 DEF CloseIffNoSender

LEMMA CloneCounts ==
  ASSUME TypeInv, CloseIffNoSender, CloneStep
  PROVE  CloseIffNoSender'
<1> PICK s \in Senders, t \in Senders : Clone(s, t)
  BY DEF CloneStep
<1>1. t \notin Live /\ s \in Live /\ s \in Live' /\ Live' = Live \cup {t}
  BY ChannelAssumption DEF Clone, Live, TypeInv, TypeOK, Threads
<1>2. Cardinality(Live') = Cardinality(Live) + 1
  BY <1>1, LiveFinite, FS_AddElement
<1> QED BY <1>1, <1>2 DEF Clone, CloseIffNoSender

LEMMA DropCounts ==
  ASSUME TypeInv, CloseIffNoSender, DropStep
  PROVE  CloseIffNoSender'
<1> PICK s \in Senders : Drop(s)
  BY DEF DropStep
<1>0. NotifyAll(s, "dropped") /\ s \in Threads /\ s \notin Receivers /\ PcOK
  BY ChannelAssumption DEF Drop, Threads, TypeInv, TypeOK, PcOK
<1>1. /\ pc'[s] = "dropped"
      /\ \A u \in Senders : u # s =>
            (pc'[u] \in {"idle", "waiting", "woken"}
               <=> pc[u] \in {"idle", "waiting", "woken"})
  BY <1>0, NotifyAllPcOK DEF Status, Threads
<1>2. s \in Live /\ Live' = Live \ {s}
  BY <1>1 DEF Live, Drop
<1>3. Cardinality(Live') = Cardinality(Live) - 1 /\ IsFiniteSet(Live')
  BY <1>2, LiveFinite, FS_RemoveElement
<1>4. Cardinality(Live') = 0 <=> Live' = {}
  BY <1>3, FS_EmptySet
<1> QED BY <1>2, <1>3, <1>4, LiveFinite DEF Drop, CloseIffNoSender

LEMMA NextCloseIffNoSender ==
  ASSUME TypeInv, CloseIffNoSender, [Next]_vars
  PROVE  CloseIffNoSender'
<1> USE ChannelAssumption
<1>0. PcOK
  BY DEF TypeInv, TypeOK, PcOK
<1>1. CASE PushStep
  <2> PICK s \in Senders : Running(s) /\ Push(s)
    BY <1>1 DEF PushStep
  <2>1. NotifyAll(s, "idle") /\ s \in Threads /\ s \notin Receivers
    BY DEF Push, Threads
  <2>2. pc'[s] = "idle" /\ \A u \in Senders : u # s =>
            (pc'[u] \in {"idle", "waiting", "woken"}
               <=> pc[u] \in {"idle", "waiting", "woken"})
    BY <1>0, <2>1, NotifyAllPcOK, "idle" \in Status DEF Status, Threads
  <2> QED BY <2>2, LiveUnchanged DEF Push, Running
<1>2. CASE RefuseStep
  BY <1>2, LiveUnchanged DEF RefuseStep, Refuse, Running, TypeInv, TypeOK, Threads
<1>3. CASE SleepStep
  BY <1>3, LiveUnchanged DEF SleepStep, Sleep, rest, Running, TypeInv, TypeOK, Threads
<1>4. CASE PopStep
  <2> PICK r \in Receivers : Pop(r)
    BY <1>4 DEF PopStep
  <2>1. NotifyAll(r, "idle") /\ r \in Threads /\ r \notin Senders
    BY DEF Pop, Threads
  <2>2. \A u \in Senders :
            (pc'[u] \in {"idle", "waiting", "woken"}
               <=> pc[u] \in {"idle", "waiting", "woken"})
    BY <1>0, <2>1, NotifyAllPcOK, "idle" \in Status DEF Status, Threads
  <2> QED BY <2>2, LiveUnchanged DEF Pop
<1>5. CASE EndStep \/ LeaveStep
  BY <1>5, LiveUnchanged DEF EndStep, LeaveStep, rest, TypeInv, TypeOK, Threads
<1>6. CASE WakeStep
  BY <1>6, LiveUnchanged DEF WakeStep, rest, TypeInv, TypeOK, Threads
<1>7. CASE UNCHANGED vars
  BY <1>7, LiveUnchanged DEF vars
<1> QED BY <1>1, <1>2, <1>3, <1>4, <1>5, <1>6, <1>7, CloneCounts, DropCounts, StepCases

(***************************************************************************)
(* Order, capacity, refusal, end of stream                                 *)
(***************************************************************************)

Contents == SendNeverRefused /\ FifoExactlyOnce /\ Bounded /\ NoneMeansDrained

LEMMA ConcatAppend ==
  ASSUME NEW S, NEW a \in Seq(S), NEW b \in Seq(S), NEW m \in S
  PROVE  Append(a \o b, m) = a \o Append(b, m)
  OBVIOUS

LEMMA ConcatHeadTail ==
  ASSUME NEW S, NEW a \in Seq(S), NEW b \in Seq(S), b # <<>>
  PROVE  a \o b = Append(a, Head(b)) \o Tail(b)
<1>1. Head(b) \in S /\ Tail(b) \in Seq(S) /\ Len(Tail(b)) = Len(b) - 1
  BY HeadTailProperties
<1>2. Len(b) \in Nat \ {0}
  BY EmptySeq
<1>3. Len(a \o b) = Len(Append(a, Head(b)) \o Tail(b))
  BY <1>1, <1>2
<1>4. ASSUME NEW i \in 1..Len(a \o b)
      PROVE  (a \o b)[i] = (Append(a, Head(b)) \o Tail(b))[i]
  BY <1>1, <1>2
<1> QED BY <1>1, <1>3, <1>4, SeqEqual

LEMMA NextContents ==
  ASSUME TypeInv, CloseIffNoSender, Contents, [Next]_vars
  PROVE  Contents'
<1> USE ChannelAssumption DEF Contents, SendNeverRefused, FifoExactlyOnce, Bounded,
                              NoneMeansDrained
<1>0. PcOK /\ buffer \in Seq(Message) /\ sent \in Seq(Message)
      /\ received \in Seq(Message)
  BY DEF TypeInv, TypeOK, PcOK
<1>1. CASE PushStep
  <2> PICK s \in Senders : count[s] < MaxSends /\ ~closed /\ ~Full /\ Push(s)
    BY <1>1 DEF PushStep
  <2> DEFINE m == <<s, count[s] + 1>>
  <2>1. m \in Message
    BY DEF Message, TypeInv, TypeOK
  <2>2. sent' = Append(sent, m) /\ buffer' = Append(buffer, m) /\ received' = received
    BY DEF Push
  <2>3. sent' = received' \o buffer'
    <3> HIDE DEF m
    <3>1. Append(received \o buffer, m) = received \o Append(buffer, m)
      BY <1>0, <2>1, ConcatAppend
    <3> QED BY <2>2, <3>1
  <2>4. Len(buffer') = Len(buffer) + 1
    BY <1>0, <2>2
  <2>5. Capacity > 0 => Len(buffer') <= Capacity
    BY <1>0, <2>4 DEF Full
  <2>6. \A r \in Receivers : pc'[r] # "none"
    <3>1. NotifyAll(s, "idle") /\ s \in Threads /\ s \notin Receivers
      BY DEF Push, Threads
    <3> QED BY <1>0, <3>1 DEF NotifyAll, Threads
  <2> QED BY <2>3, <2>5, <2>6 DEF Push
<1>2. CASE RefuseStep
  <2> PICK s \in Senders : Running(s) /\ closed
    BY <1>2 DEF RefuseStep
  <2>1. s \in Live
    BY DEF Live, Running
  <2> QED BY <2>1 DEF CloseIffNoSender
<1>3. CASE SleepStep
  BY <1>0, <1>3 DEF SleepStep, Sleep, rest, PcOK, Threads
<1>4. CASE CloneStep
  BY <1>0, <1>4 DEF CloneStep, Clone, PcOK, Threads
<1>5. CASE DropStep
  <2> PICK s \in Senders : Drop(s)
    BY <1>5 DEF DropStep
  <2>1. \A r \in Receivers : pc'[r] = "none" => pc[r] = "none"
    BY DEF Drop, NotifyAll, Threads
  <2> QED BY <2>1 DEF Drop
<1>6. CASE PopStep
  <2> PICK r \in Receivers : buffer # <<>> /\ Pop(r)
    BY <1>6 DEF PopStep
  <2>1. sent' = received' \o buffer'
    BY <1>0, ConcatHeadTail DEF Pop
  <2>2. Len(buffer') <= Len(buffer)
    BY <1>0, HeadTailProperties DEF Pop
  <2>3. \A q \in Receivers : pc'[q] # "none"
    <3>1. received # sent
      <4>1. Len(received \o buffer) # Len(received)
        BY <1>0, EmptySeq
      <4> QED BY <4>1
    <3>2. \A q \in Receivers : pc[q] # "none"
      BY <3>1
    <3> QED BY <3>2 DEF Pop, NotifyAll, Threads
  <2> QED BY <1>0, <2>1, <2>2, <2>3 DEF Pop
<1>7. CASE EndStep
  <2>1. buffer = <<>> /\ closed /\ UNCHANGED rest
    BY <1>7 DEF EndStep
  <2>2. received \o buffer = received
    BY <1>0, <2>1
  <2> QED BY <2>1, <2>2 DEF rest
<1>8. CASE LeaveStep
  BY <1>0, <1>8 DEF LeaveStep, rest, PcOK, Threads
<1>9. CASE WakeStep
  BY <1>0, <1>9 DEF WakeStep, rest, PcOK, Threads
<1>10. CASE UNCHANGED vars
  BY <1>10 DEF vars
<1> QED BY <1>1, <1>2, <1>3, <1>4, <1>5, <1>6, <1>7, <1>8, <1>9, <1>10, StepCases

(***************************************************************************)
(* Sleepers                                                                *)
(***************************************************************************)

LEMMA NextNoLostWakeup ==
  ASSUME TypeInv, NoLostWakeup, [Next]_vars
  PROVE  NoLostWakeup'
<1> USE ChannelAssumption
<1>0. PcOK
  BY DEF TypeInv, TypeOK, PcOK
<1>1. ASSUME NEW t \in Threads, NEW status \in Status \ {"waiting"}, NotifyAll(t, status)
      PROVE  NoLostWakeup'
  <2>1. \A u \in Threads : pc'[u] # "waiting"
    BY <1>1 DEF NotifyAll, Status
  <2> QED BY <2>1 DEF NoLostWakeup, Threads
<1>2. ASSUME UNCHANGED rest,
             \A u \in Threads : pc'[u] = "waiting" => pc[u] = "waiting"
      PROVE  NoLostWakeup'
  BY <1>2 DEF NoLostWakeup, rest, Threads, Full
<1>3. CASE PushStep
  BY <1>1, <1>3 DEF PushStep, Push, Threads, Status
<1>4. CASE DropStep
  BY <1>1, <1>4 DEF DropStep, Drop, Threads, Status
<1>5. CASE PopStep
  BY <1>1, <1>5 DEF PopStep, Pop, Threads, Status
<1>6. CASE RefuseStep
  BY <1>0, <1>6 DEF RefuseStep, Refuse, NoLostWakeup, Full, PcOK, Threads
<1>7. CASE SleepStep
  BY <1>0, <1>7 DEF SleepStep, Sleep, rest, NoLostWakeup, Full, PcOK, Threads
<1>8. CASE CloneStep
  BY <1>0, <1>8 DEF CloneStep, Clone, NoLostWakeup, Full, PcOK, Threads
<1>9. CASE EndStep \/ LeaveStep \/ WakeStep
  BY <1>0, <1>2, <1>9 DEF EndStep, LeaveStep, WakeStep, PcOK, Threads
<1>10. CASE UNCHANGED vars
  BY <1>2, <1>10 DEF vars, rest
<1> QED BY <1>3, <1>4, <1>5, <1>6, <1>7, <1>8, <1>9, <1>10, StepCases

(***************************************************************************)
(* The theorems                                                            *)
(***************************************************************************)

IInv == TypeInv /\ CloseIffNoSender /\ NoLostWakeup /\ Contents

LEMMA InitIInv == Init => IInv
<1> SUFFICES ASSUME Init PROVE IInv
  OBVIOUS
<1> USE ChannelAssumption DEF Init
<1>1. CloseIffNoSender
  <2>1. Live = {First}
    BY DEF Live, Threads
  <2> QED BY <2>1, FS_Singleton DEF CloseIffNoSender
<1>2. \A t \in Threads : pc[t] \in {"idle", "unborn"}
  OBVIOUS
<1>3. NoLostWakeup
  BY <1>2 DEF NoLostWakeup, Threads
<1>4. Contents
  <2>1. \A r \in Receivers : pc[r] # "none"
    BY <1>2 DEF Threads
  <2>2. <<>> \o <<>> = <<>> /\ Len(<<>>) = 0
    OBVIOUS
  <2> QED BY <2>1, <2>2 DEF Contents, SendNeverRefused, FifoExactlyOnce, Bounded,
                            NoneMeansDrained
<1> QED BY <1>1, <1>3, <1>4, InitTypeInv DEF IInv

LEMMA NextIInv == IInv /\ [Next]_vars => IInv'
  BY NextTypeInv, NextCloseIffNoSender, NextNoLostWakeup, NextContents DEF IInv

\* The strengthened invariant of the channel holds in every reachable state.
THEOREM Invariance == Spec => []IInv
  BY InitIInv, NextIInv, PTL DEF Spec

\* The variables have their types; in particular the usize counter `senders`
\* never goes below zero (channel.rs:100).
THEOREM Typing == Spec => []TypeOK
<1>1. IInv => TypeOK
  BY DEF IInv, TypeInv
<1> QED BY <1>1, Invariance, PTL

\* The channel closes exactly when the last of its sender handles is dropped.
THEOREM ClosesOnLastDrop == Spec => []CloseIffNoSender
<1>1. IInv => CloseIffNoSender
  BY DEF IInv
<1> QED BY <1>1, Invariance, PTL

\* No sender or receiver ever sleeps in wait() while it could proceed.
THEOREM WakesSleepers == Spec => []NoLostWakeup
<1>1. IInv => NoLostWakeup
  BY DEF IInv
<1> QED BY <1>1, Invariance, PTL

\* No send on a live handle is refused, messages are received exactly once
\* and in the order they were sent, the capacity is respected, and a receiver
\* is told Ok(None) only after the last message.
THEOREM Delivery ==
  Spec => []SendNeverRefused /\ []FifoExactlyOnce /\ []Bounded /\ []NoneMeansDrained
<1>1. IInv => SendNeverRefused /\ FifoExactlyOnce /\ Bounded /\ NoneMeansDrained
  BY DEF IInv, Contents
<1> QED BY <1>1, Invariance, PTL

\* The channel implements the pipe of Pipe.tla: each step under the mutex is
\* one step of the pipe or is invisible to it.
LEMMA PipeInit == Init => P!Init
<1> SUFFICES ASSUME Init PROVE P!Init
  OBVIOUS
<1>1. \A r \in Receivers : pc[r] # "none"
  BY DEF Init, Threads
<1> QED BY <1>1 DEF Init, P!Init

told == {r \in Receivers : pc[r] = "none"}

LEMMA PipeStep ==
  ASSUME IInv, [Next]_vars
  PROVE  [P!Next]_(P!pvars)
<1> USE ChannelAssumption
<1>0. /\ PcOK /\ TypeInv /\ Contents /\ CloseIffNoSender
      /\ buffer \in Seq(Message) /\ received \in Seq(Message)
      /\ sent = received \o buffer
  BY DEF IInv, TypeInv, TypeOK, PcOK, Contents, FifoExactlyOnce
<1>1. Len(sent) = Len(received) + Len(buffer)
  BY <1>0
<1>2. ASSUME UNCHANGED <<sent, received, closed, told>>
      PROVE  UNCHANGED P!pvars
  BY <1>2 DEF P!pvars, told
<1>3. CASE PushStep
  <2> PICK s \in Senders : count[s] < MaxSends /\ ~closed /\ ~Full /\ Push(s)
    BY <1>3 DEF PushStep
  <2> DEFINE m == <<s, count[s] + 1>>
  <2>1. m \in Message
    BY <1>0 DEF Message, TypeInv, TypeOK
  <2>2. told' = told
    <3>1. NotifyAll(s, "idle") /\ s \in Threads /\ s \notin Receivers
      BY DEF Push, Threads
    <3> QED BY <1>0, <3>1 DEF NotifyAll, Threads, told
  <2>3. Capacity > 0 => Len(sent) - Len(received) < Capacity
    BY <1>0, <1>1 DEF Full
  <2>4. P!Put(m)
    BY <2>2, <2>3 DEF Push, P!Put, told
  <2> QED BY <2>1, <2>4 DEF P!Next
<1>4. CASE RefuseStep
  <2>1. told' = told
    BY <1>0, <1>4 DEF RefuseStep, Refuse, PcOK, Threads, told
  <2> QED BY <1>2, <1>4, <2>1 DEF RefuseStep, Refuse
<1>5. CASE SleepStep
  <2>1. told' = told
    BY <1>0, <1>5 DEF SleepStep, Sleep, Running, PcOK, Threads, told
  <2> QED BY <1>2, <1>5, <2>1 DEF SleepStep, rest
<1>6. CASE CloneStep
  <2>1. told' = told
    BY <1>0, <1>6 DEF CloneStep, Clone, PcOK, Threads, told
  <2> QED BY <1>2, <1>6, <2>1 DEF CloneStep, Clone
<1>7. CASE DropStep
  <2> PICK s \in Senders : Drop(s)
    BY <1>7 DEF DropStep
  <2>1. told' = told /\ s \in Live
    <3>1. NotifyAll(s, "dropped") /\ s \in Threads /\ s \notin Receivers
      BY DEF Drop, Threads
    <3> QED BY <1>0, <3>1 DEF NotifyAll, Threads, told, Drop, Live
  <2>2. ~closed
    BY <1>0, <2>1 DEF CloseIffNoSender
  <2>3. CASE closed'
    BY <2>1, <2>2, <2>3 DEF Drop, P!Close, P!Next, told
  <2>4. CASE ~closed'
    <3>1. closed \in BOOLEAN /\ closed' \in BOOLEAN
      BY <1>0 DEF Drop, TypeInv, TypeOK
    <3>2. closed' = closed
      BY <2>2, <2>4, <3>1, Zenon
    <3>3. UNCHANGED <<sent, received, closed, told>>
      BY <2>1, <3>2 DEF Drop
    <3> QED BY <1>2, <3>3
  <2> QED BY <2>3, <2>4
<1>8. CASE PopStep
  <2> PICK r \in Receivers : buffer # <<>> /\ Pop(r)
    BY <1>8 DEF PopStep
  <2>1. Len(buffer) \in Nat \ {0} /\ Len(received) \in Nat
    BY <1>0, EmptySeq
  <2>2. Len(received) < Len(sent) /\ sent[Len(received) + 1] = Head(buffer)
    BY <1>0, <1>1, <2>1
  <2>3. told' = {} /\ told = {}
    <3>1. received # sent
      BY <2>2
    <3>2. \A q \in Receivers : pc[q] # "none"
      BY <1>0, <3>1 DEF Contents, NoneMeansDrained
    <3> QED BY <3>2 DEF Pop, NotifyAll, Threads, told
  <2>4. P!Take
    BY <2>2, <2>3 DEF Pop, P!Take, told
  <2> QED BY <2>4 DEF P!Next
<1>9. CASE EndStep
  <2> PICK r \in Receivers : /\ Running(r) /\ buffer = <<>> /\ closed
                             /\ pc' = [pc EXCEPT ![r] = "none"] /\ UNCHANGED rest
    BY <1>9 DEF EndStep
  <2>1. received = sent
    BY <1>0
  <2>2. told' = told \cup {r}
    BY <1>0 DEF PcOK, Threads, told
  <2>3. P!Tell(r)
    BY <2>1, <2>2 DEF P!Tell, rest, told
  <2> QED BY <2>3 DEF P!Next
<1>10. CASE LeaveStep
  <2> PICK r \in Receivers : pc' = [pc EXCEPT ![r] = "dropped"] /\ UNCHANGED rest
    BY <1>10 DEF LeaveStep
  <2>1. told' = told \ {r}
    BY <1>0 DEF PcOK, Threads, told
  <2>2. P!Leave(r)
    BY <2>1 DEF P!Leave, rest, told
  <2> QED BY <2>2 DEF P!Next
<1>11. CASE WakeStep
  <2>1. told' = told
    BY <1>0, <1>11 DEF WakeStep, PcOK, Threads, told
  <2> QED BY <1>2, <1>11, <2>1 DEF WakeStep, rest
<1>12. CASE UNCHANGED vars
  BY <1>2, <1>12 DEF vars, told
<1> QED BY <1>0, <1>3, <1>4, <1>5, <1>6, <1>7, <1>8, <1>9, <1>10, <1>11, <1>12, StepCases

THEOREM ImplementsPipe == Spec => PipeSpec
<1>1. IInv /\ [Next]_vars => [P!Next]_(P!pvars)
  BY PipeStep
<1> QED BY PipeInit, <1>1, Invariance, PTL DEF Spec, PipeSpec, P!Spec
==============================================================================
