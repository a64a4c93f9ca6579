--------------------------- MODULE SchedulerProofs ---------------------------
(***************************************************************************)
(* The scheduler's queue and counter for any number of coroutines and of   *)
(* steps.  TypeOK, QueueExact and CountExact are inductive together: the   *)
(* counter only goes down for a coroutine that was not finished, which the *)
(* queue guarantees of whatever it holds.  Round robin needs one more      *)
(* fact, about the order of the queue: who ran since a coroutine was       *)
(* enqueued is never ahead of it.                                          *)
(***************************************************************************)
EXTENDS Scheduler, FiniteSetTheorems, TLAPS

ServedBehind ==
    \A j, k \in DOMAIN ready_queue : j < k => ready_queue[j] \notin served[ready_queue[k]]

IInv == TypeOK /\ QueueExact /\ CountExact /\ ServedBehind

Live == {id \in Ids : coroutines[id] # "Finished"}

LEMMA InitIInv == Init => IInv
<1> SUFFICES ASSUME Init PROVE IInv
  OBVIOUS
<1>1. Ids = {}
  BY DEF Init, Ids
<1>2. TypeOK
  <2>1. coroutines \in [Ids -> CoroState]
    BY <1>1 DEF Init
  <2>2. steps \in [Ids -> Nat]
    BY <1>1 DEF Init
  <2>4. served \in [Ids -> SUBSET Ids]
    <3>1. served = [id \in Ids |-> {}]
      BY <1>1 DEF Init
    <3> QED
      BY <3>1
  <2>3. ready_queue \in Seq(Ids)
    BY DEF Init
  <2>5. next_id \in 0..MaxCoros /\ running_count \in Nat
    <3>1. next_id = 0 /\ running_count = 0
      BY Zenon DEF Init
    <3> QED
      BY <3>1, SchedulerAssumption
  <2>6. in_run \in BOOLEAN
    BY Zenon DEF Init
  <2> QED
    BY <2>1, <2>2, <2>3, <2>4, <2>5, <2>6 DEF TypeOK
<1>3. QueueExact
  BY <1>1 DEF Init, QueueExact
<1>4. CountExact
  <2>1. {id \in Ids : coroutines[id] # "Finished"} = {}
    BY <1>1
  <2> QED
    BY <2>1, FS_EmptySet DEF Init, CountExact
<1>5. ServedBehind
  BY DEF Init, ServedBehind
<1> QED
  BY <1>2, <1>3, <1>4, <1>5 DEF IInv

\* a new coroutine is one more that has not finished
LEMMA SpawnStep == ASSUME IInv, Spawn PROVE IInv'
<1> USE DEF IInv
<1>0. next_id \in Nat /\ MaxCoros \in Nat /\ next_id + 1 \in 0..MaxCoros
  BY SchedulerAssumption DEF TypeOK, Spawn
<1>1. Ids' = Ids \cup {next_id} /\ next_id \notin Ids
  BY <1>0 DEF Spawn, Ids
<1>2. \A id \in Ids : coroutines'[id] = coroutines[id]
  BY <1>0 DEF Spawn, Ids
<1>3. coroutines'[next_id] = "Ready"
  BY <1>0 DEF Spawn
<1>4. TypeOK'
  <2>1. ready_queue' \in Seq(Ids')
    <3>1. ready_queue \in Seq(Ids')
      BY <1>1 DEF TypeOK
    <3> QED
      BY <3>1, <1>1 DEF Spawn
  <2>2. coroutines' \in [Ids' -> CoroState]
    BY <1>0 DEF Spawn, TypeOK, Ids, CoroState
  <2>3. steps' \in [Ids' -> Nat] /\ served' \in [Ids' -> SUBSET Ids']
    BY <1>0 DEF Spawn, TypeOK, Ids
  <2> QED
    BY <2>1, <2>2, <2>3, <1>0 DEF Spawn, TypeOK
<1>5. QueueExact'
  <2>1. ready_queue \in Seq(Ids) /\ ready_queue' = Append(ready_queue, next_id)
    BY DEF Spawn, TypeOK
  <2>2. DOMAIN ready_queue' = DOMAIN ready_queue \cup {Len(ready_queue) + 1}
    BY <2>1
  <2>3. /\ \A k \in DOMAIN ready_queue : ready_queue'[k] = ready_queue[k] /\ ready_queue[k] \in Ids
        /\ ready_queue'[Len(ready_queue) + 1] = next_id
    BY <2>1
  <2> QED
    BY <1>1, <1>2, <1>3, <2>1, <2>2, <2>3 DEF QueueExact
<1>6. CountExact'
  <2>1. Live' = Live \cup {next_id} /\ next_id \notin Live
    BY <1>1, <1>2, <1>3 DEF Live
  <2>2. IsFiniteSet(Live)
    <3>1. IsFiniteSet(Ids)
      BY <1>0, FS_Interval DEF Ids
    <3> QED
      BY <3>1, FS_Subset DEF Live
  <2>3. Cardinality(Live') = Cardinality(Live) + 1
    BY <2>1, <2>2, FS_AddElement
  <2> QED
    BY <2>3 DEF CountExact, Live, Spawn
<1>7. ServedBehind'
  <2>1. ready_queue \in Seq(Ids) /\ ready_queue' = Append(ready_queue, next_id)
    BY DEF Spawn, TypeOK
  <2>2. /\ DOMAIN ready_queue = 1..Len(ready_queue) /\ Len(ready_queue) \in Nat
        /\ DOMAIN ready_queue' = 1..(Len(ready_queue) + 1)
        /\ \A k \in DOMAIN ready_queue : ready_queue'[k] = ready_queue[k] /\ ready_queue[k] \in Ids
        /\ ready_queue'[Len(ready_queue) + 1] = next_id
    BY <2>1
  <2>3. served'[next_id] = {} /\ \A i \in Ids : served'[i] = served[i]
    BY <1>0 DEF Spawn, Ids
  <2> SUFFICES ASSUME NEW j \in DOMAIN ready_queue', NEW k \in DOMAIN ready_queue', j < k
               PROVE  ready_queue'[j] \notin served'[ready_queue'[k]]
    BY DEF ServedBehind
  <2>4. CASE k = Len(ready_queue) + 1
    BY <2>2, <2>3, <2>4
  <2>5. CASE k # Len(ready_queue) + 1
    <3>1. j \in DOMAIN ready_queue /\ k \in DOMAIN ready_queue
      BY <2>2, <2>5
    <3> QED
      BY <3>1, <2>2, <2>3 DEF ServedBehind
  <2> QED
    BY <2>4, <2>5
<1> QED
  BY <1>4, <1>5, <1>6, <1>7

\* resume_coro enqueues a coroutine the queue does not hold: it was Waiting
LEMMA ResumeStep == ASSUME IInv, NEW id \in Ids, ResumeCoro(id) PROVE IInv'
<1> USE DEF IInv
<1>1. Ids' = Ids
  BY DEF ResumeCoro, Ids
<1>2. /\ coroutines \in [Ids -> CoroState]
      /\ coroutines' = [coroutines EXCEPT ![id] = "Ready"]
      /\ coroutines[id] = "Waiting"
      /\ ready_queue \in Seq(Ids)
      /\ ready_queue' = Append(ready_queue, id)
  BY DEF ResumeCoro, TypeOK
<1>3. TypeOK'
  <2>1. ready_queue' \in Seq(Ids') /\ coroutines' \in [Ids' -> CoroState]
    BY <1>1, <1>2 DEF CoroState
  <2> QED
    BY <1>1, <2>1 DEF TypeOK, ResumeCoro
<1>4. QueueExact'
  <2>2. DOMAIN ready_queue' = DOMAIN ready_queue \cup {Len(ready_queue) + 1}
    BY <1>2
  <2>3. /\ \A k \in DOMAIN ready_queue : ready_queue'[k] = ready_queue[k] /\ ready_queue[k] \in Ids
        /\ ready_queue'[Len(ready_queue) + 1] = id
    BY <1>2
  <2>4. \A k \in DOMAIN ready_queue : ready_queue[k] # id
    BY <1>2, <2>3 DEF QueueExact
  <2>5. \A i \in Ids : coroutines'[i] = IF i = id THEN "Ready" ELSE coroutines[i]
    BY <1>2
  <2>6. \A i \in Ids : coroutines'[i] = "Ready"
                         <=> \E k \in DOMAIN ready_queue' : ready_queue'[k] = i
    BY <2>2, <2>3, <2>5 DEF QueueExact
  <2>7. \A j, k \in DOMAIN ready_queue' : ready_queue'[j] = ready_queue'[k] => j = k
    BY <2>2, <2>3, <2>4 DEF QueueExact
  <2> QED
    BY <1>1, <2>6, <2>7 DEF QueueExact
<1>5. CountExact'
  <2>1. Live' = Live
    BY <1>1, <1>2 DEF Live
  <2> QED
    BY <2>1 DEF CountExact, Live, ResumeCoro
<1>6. ServedBehind'
  <2>2. /\ DOMAIN ready_queue = 1..Len(ready_queue) /\ Len(ready_queue) \in Nat
        /\ DOMAIN ready_queue' = 1..(Len(ready_queue) + 1)
        /\ \A k \in DOMAIN ready_queue : ready_queue'[k] = ready_queue[k] /\ ready_queue[k] \in Ids
        /\ ready_queue'[Len(ready_queue) + 1] = id
    BY <1>2
  <2>3. served'[id] = {} /\ \A i \in Ids : i # id => served'[i] = served[i]
    BY DEF ResumeCoro, TypeOK
  <2>4. \A k \in DOMAIN ready_queue : ready_queue[k] # id
    BY <1>2, <2>2 DEF QueueExact
  <2> SUFFICES ASSUME NEW j \in DOMAIN ready_queue', NEW k \in DOMAIN ready_queue', j < k
               PROVE  ready_queue'[j] \notin served'[ready_queue'[k]]
    BY DEF ServedBehind
  <2>5. CASE k = Len(ready_queue) + 1
    BY <2>2, <2>3, <2>5
  <2>6. CASE k # Len(ready_queue) + 1
    <3>1. j \in DOMAIN ready_queue /\ k \in DOMAIN ready_queue
      BY <2>2, <2>6
    <3> QED
      BY <3>1, <2>2, <2>3, <2>4 DEF ServedBehind
  <2> QED
    BY <2>5, <2>6
<1> QED
  BY <1>3, <1>4, <1>5, <1>6

\* the coroutine taken from the head was Ready, so it has not finished
LEMMA RunStepStep ==
    ASSUME IInv, NEW id \in Ids, NEW next \in CoroState, RunStep(id, next) PROVE IInv'
<1> USE DEF IInv
<1>1. Ids' = Ids
  BY DEF RunStep, Ids
<1>2. ready_queue \in Seq(Ids) /\ ready_queue # <<>> /\ id = ready_queue[1] /\ Len(ready_queue) \in Nat
  BY DEF RunStep, TypeOK
<1>3. coroutines[id] = "Ready"
  BY <1>2 DEF QueueExact
<1>4. /\ coroutines \in [Ids -> CoroState]
      /\ coroutines' = [coroutines EXCEPT ![id] = next]
      /\ steps' = [steps EXCEPT ![id] = @ + 1]
      /\ served' = [i \in DOMAIN served |-> IF i = id THEN {} ELSE served[i] \cup {id}]
      /\ ready_queue' = IF next = "Ready" THEN Append(Tail(ready_queue), id) ELSE Tail(ready_queue)
      /\ running_count' = IF next = "Finished" THEN running_count - 1 ELSE running_count
  BY <1>3 DEF RunStep, TypeOK, Dispatch
<1>5. \A i \in Ids : coroutines'[i] = IF i = id THEN next ELSE coroutines[i]
  BY <1>4
<1>6. Tail(ready_queue) \in Seq(Ids)
  BY <1>2
<1>7. TypeOK'
  <2>1. ready_queue' \in Seq(Ids') /\ coroutines' \in [Ids' -> CoroState]
    BY <1>1, <1>4, <1>6
  <2>2. steps' \in [Ids' -> Nat] /\ served' \in [Ids' -> SUBSET Ids']
    BY <1>1, <1>4 DEF TypeOK
  <2>3. running_count' \in Nat
    BY <1>4 DEF TypeOK, RunStep
  <2> QED
    BY <1>1, <2>1, <2>2, <2>3 DEF TypeOK, RunStep
<1>8. QueueExact'
  <2> DEFINE q == Tail(ready_queue)
  <2>1. /\ Len(q) = Len(ready_queue) - 1
        /\ DOMAIN q = 1..(Len(ready_queue) - 1)
        /\ DOMAIN ready_queue = 1..Len(ready_queue)
        /\ \A k \in DOMAIN q : q[k] = ready_queue[k + 1] /\ q[k] \in Ids
    BY <1>2
  <2>2. \A k \in DOMAIN q : q[k] # id
    BY <1>2, <2>1 DEF QueueExact
  <2>3. \A i \in Ids \ {id} : coroutines[i] = "Ready" <=> \E k \in DOMAIN q : q[k] = i
    <3> SUFFICES ASSUME NEW i \in Ids \ {id}
                 PROVE  coroutines[i] = "Ready" <=> \E k \in DOMAIN q : q[k] = i
      OBVIOUS
    <3>1. ASSUME coroutines[i] = "Ready" PROVE \E k \in DOMAIN q : q[k] = i
      <4>1. PICK k \in DOMAIN ready_queue : ready_queue[k] = i
        BY <3>1 DEF QueueExact
      <4>2. k # 1 /\ k - 1 \in DOMAIN q
        BY <4>1, <1>2, <2>1
      <4>3. q[k - 1] = i
        BY <4>1, <4>2, <1>2, <2>1
      <4> QED
        BY <4>2, <4>3
    <3>2. ASSUME NEW k \in DOMAIN q, q[k] = i PROVE coroutines[i] = "Ready"
      BY <3>2, <1>2, <2>1 DEF QueueExact
    <3> QED
      BY <3>1, <3>2
  <2>4. \A j, k \in DOMAIN q : q[j] = q[k] => j = k
    BY <1>2, <2>1 DEF QueueExact
  <2>5. CASE next = "Ready"
    <3> HIDE DEF q
    <3>1. ready_queue' = Append(q, id) /\ q \in Seq(Ids)
      BY <1>4, <1>6, <2>5 DEF q
    <3>2. DOMAIN ready_queue' = DOMAIN q \cup {Len(q) + 1}
      BY <3>1
    <3>3. /\ \A k \in DOMAIN q : ready_queue'[k] = q[k]
          /\ ready_queue'[Len(q) + 1] = id
      BY <3>1
    <3>4. \A i \in Ids : coroutines'[i] = "Ready"
                           <=> \E k \in DOMAIN ready_queue' : ready_queue'[k] = i
      BY <1>5, <2>3, <2>2, <2>5, <3>2, <3>3
    <3>5. \A j, k \in DOMAIN ready_queue' : ready_queue'[j] = ready_queue'[k] => j = k
      BY <2>2, <2>4, <3>2, <3>3
    <3> QED
      BY <1>1, <3>4, <3>5 DEF QueueExact
  <2>6. CASE next # "Ready"
    <3>1. ready_queue' = q
      BY <1>4, <2>6
    <3>2. \A i \in Ids : coroutines'[i] = "Ready" <=> \E k \in DOMAIN q : q[k] = i
      BY <1>5, <2>2, <2>3, <2>6
    <3> QED
      BY <1>1, <2>4, <3>1, <3>2 DEF QueueExact
  <2> QED
    BY <2>5, <2>6
<1>9. CountExact'
  <2>1. IsFiniteSet(Live) /\ id \in Live
    <3>1. IsFiniteSet(Ids)
      BY FS_Interval DEF Ids, TypeOK
    <3> QED
      BY <1>3, <3>1, FS_Subset DEF Live
  <2>2. CASE next = "Finished"
    <3>1. Live' = Live \ {id}
      BY <1>1, <1>5, <2>2 DEF Live
    <3>2. Cardinality(Live') = Cardinality(Live) - 1
      BY <2>1, <3>1, FS_RemoveElement
    <3> QED
      BY <1>4, <2>2, <3>2 DEF CountExact, Live
  <2>3. CASE next # "Finished"
    <3>1. Live' = Live
      BY <1>1, <1>3, <1>5, <2>3 DEF Live
    <3> QED
      BY <1>4, <2>3, <3>1 DEF CountExact, Live
  <2> QED
    BY <2>2, <2>3
<1>10. ServedBehind'
  <2> DEFINE q == Tail(ready_queue)
  <2>1. /\ Len(q) = Len(ready_queue) - 1
        /\ DOMAIN q = 1..(Len(ready_queue) - 1)
        /\ DOMAIN ready_queue = 1..Len(ready_queue)
        /\ \A k \in DOMAIN q : q[k] = ready_queue[k + 1] /\ q[k] \in Ids
    BY <1>2
  <2>2. \A k \in DOMAIN q : q[k] # id
    BY <1>2, <2>1 DEF QueueExact
  <2>3. \A j, k \in DOMAIN q : j < k => q[j] \notin served[q[k]]
    BY <1>2, <2>1 DEF ServedBehind
  <2>4. \A i \in Ids : served'[i] = IF i = id THEN {} ELSE served[i] \cup {id}
    BY <1>4 DEF TypeOK
  <2>5. \A j, k \in DOMAIN q : j < k => q[j] \notin served'[q[k]]
    <3> SUFFICES ASSUME NEW j \in DOMAIN q, NEW k \in DOMAIN q, j < k
                 PROVE  q[j] \notin served'[q[k]]
      OBVIOUS
    <3>1. q[k] \in Ids /\ q[j] # id /\ q[k] # id /\ q[j] \notin served[q[k]]
      BY <2>1, <2>2, <2>3
    <3> HIDE DEF q
    <3>2. served'[q[k]] = served[q[k]] \cup {id}
      BY <3>1, <2>4
    <3> QED
      BY <3>1, <3>2
  <2>6. CASE next # "Ready"
    BY <1>4, <2>5, <2>6 DEF ServedBehind
  <2>7. CASE next = "Ready"
    <3>1. q \in Seq(Ids) /\ ready_queue' = Append(q, id) /\ Len(q) \in Nat
      BY <1>4, <1>6, <2>7
    <3> HIDE DEF q
    <3>2. /\ DOMAIN q = 1..Len(q)
          /\ DOMAIN ready_queue' = 1..(Len(q) + 1)
          /\ \A k \in DOMAIN q : ready_queue'[k] = q[k]
          /\ ready_queue'[Len(q) + 1] = id
      BY <3>1
    <3> SUFFICES ASSUME NEW j \in DOMAIN ready_queue', NEW k \in DOMAIN ready_queue', j < k
                 PROVE  ready_queue'[j] \notin served'[ready_queue'[k]]
      BY DEF ServedBehind
    <3>3. CASE k = Len(q) + 1
      BY <2>4, <3>2, <3>3
    <3>4. CASE k # Len(q) + 1
      <4>1. j \in DOMAIN q /\ k \in DOMAIN q
        BY <3>1, <3>2, <3>4
      <4> QED
        BY <2>5, <3>2, <4>1
    <3> QED
      BY <3>3, <3>4
  <2> QED
    BY <2>6, <2>7
<1> QED
  BY <1>7, <1>8, <1>9, <1>10

LEMMA NextIInv == IInv /\ [Next]_vars => IInv'
<1> SUFFICES ASSUME IInv, [Next]_vars PROVE IInv'
  OBVIOUS
<1>1. CASE Spawn
  BY <1>1, SpawnStep
<1>2. CASE RunEnter
  BY <1>2 DEF RunEnter, IInv, TypeOK, QueueExact, CountExact, ServedBehind, Ids
<1>3. CASE RunExit
  BY <1>3 DEF RunExit, IInv, TypeOK, QueueExact, CountExact, ServedBehind, Ids
<1>4. CASE \E id \in Ids : ResumeCoro(id)
  BY <1>4, ResumeStep
<1>5. CASE \E id \in Ids, next \in CoroState : RunStep(id, next)
  BY <1>5, RunStepStep
<1>6. CASE UNCHANGED vars
  BY <1>6 DEF vars, IInv, TypeOK, QueueExact, CountExact, ServedBehind, Ids
<1> QED
  BY <1>1, <1>2, <1>3, <1>4, <1>5, <1>6 DEF Next

THEOREM Invariance == Spec => []IInv
<1> QED
  BY InitIInv, NextIInv, PTL DEF Spec

\* The state stays well typed; in particular running_count, an unsigned
\* counter, is never decremented below zero.
THEOREM Typing == Spec => []TypeOK
<1>1. IInv => TypeOK
  BY DEF IInv
<1> QED
  BY <1>1, Invariance, PTL

\* spawn, run and resume_coro keep in the queue exactly the Ready coroutines,
\* once each.
THEOREM QueueIsReady == Spec => []QueueExact
<1>1. IInv => QueueExact
  BY DEF IInv
<1> QED
  BY <1>1, Invariance, PTL

\* active_count() is the number of coroutines that have not finished.
THEOREM CountIsLive == Spec => []CountExact
<1>1. IInv => CountExact
  BY DEF IInv
<1> QED
  BY <1>1, Invariance, PTL

\* run() returns only when no coroutine is Ready: the counter reaches zero, or
\* the queue is empty, and either way the queue tells who is Ready.
THEOREM ReturnsIdle == Spec => ExitsIdle
<1>1. IInv /\ [Next]_vars
        => [in_run /\ ~in_run' => \A id \in Ids : coroutines[id] # "Ready"]_vars
  <2> SUFFICES ASSUME IInv, Next, in_run, ~in_run', NEW id \in Ids
               PROVE  coroutines[id] # "Ready"
    BY DEF vars
  <2>1. RunExit
    BY DEF Next, Spawn, RunEnter, ResumeCoro, RunStep
  <2>2. CASE ready_queue = <<>>
    BY <2>2 DEF IInv, QueueExact
  <2>3. CASE running_count = 0
    <3>1. IsFiniteSet(Ids)
      BY FS_Interval DEF Ids, IInv, TypeOK
    <3>2. IsFiniteSet(Live) /\ Cardinality(Live) = 0
      BY <2>3, <3>1, FS_Subset DEF Live, IInv, CountExact
    <3>3. Live = {}
      BY <3>2, FS_EmptySet
    <3> QED
      BY <3>3 DEF Live
  <2> QED
    BY <2>1, <2>2, <2>3 DEF RunExit
<1> QED
  BY <1>1, Invariance, PTL DEF Spec, ExitsIdle

\* Round robin: a coroutine in the queue is passed by no other one twice.
THEOREM RoundRobin == Spec => NoOvertaking
<1> DEFINE Overtakes(i, j) == /\ coroutines[i] = "Ready" /\ steps'[i] = steps[i]
                              /\ steps'[j] # steps[j] /\ j \in served[i]
<1>1. IInv /\ [Next]_vars => [\A i, j \in Ids : ~Overtakes(i, j)]_vars
  <2> SUFFICES ASSUME IInv, Next, NEW i \in Ids, NEW j \in Ids, Overtakes(i, j) PROVE FALSE
    BY DEF vars
  <2> USE DEF IInv
  <2>1. PICK id \in Ids, next \in CoroState : RunStep(id, next)
    <3>1. ~RunEnter /\ ~RunExit /\ \A id \in Ids : ~ResumeCoro(id)
      BY DEF RunEnter, RunExit, ResumeCoro
    <3>2. ~Spawn
      BY DEF Spawn, TypeOK, Ids
    <3> QED
      BY <3>1, <3>2 DEF Next
  <2>2. ready_queue \in Seq(Ids) /\ ready_queue # <<>> /\ id = ready_queue[1] /\ 1 \in DOMAIN ready_queue
    BY <2>1 DEF RunStep, TypeOK
  <2>3. steps' = steps \/ steps' = [steps EXCEPT ![id] = @ + 1]
    BY <2>1 DEF RunStep
  <2>4. j = id /\ steps'[j] # steps[j] /\ i # j
    BY <2>3 DEF TypeOK
  <2>5. PICK k \in DOMAIN ready_queue : ready_queue[k] = i
    BY DEF QueueExact
  <2>6. 1 < k
    BY <2>2, <2>4, <2>5
  <2> QED
    BY <2>2, <2>4, <2>5, <2>6 DEF ServedBehind
<1>2. [\A i, j \in Ids : ~Overtakes(i, j)]_vars
        => [\A i, j \in Ids :
              (coroutines[i] = "Ready" /\ steps'[i] = steps[i] /\ steps'[j] # steps[j])
                  => j \notin served[i]]_vars
  OBVIOUS
<1> QED
  BY <1>1, <1>2, Invariance, PTL DEF Spec, NoOvertaking
=============================================================================
