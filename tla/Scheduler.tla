------------------------------ MODULE Scheduler ------------------------------
(***************************************************************************)
(* The cooperative scheduler of src/runtime/coroutine.rs.  run() holds     *)
(* `&mut self`, so bodies and callers cannot spawn or resume while it      *)
(* runs: those happen between two calls of run().  One iteration of its    *)
(* loop, with the call of the coroutine's body, is one action; what the    *)
(* body answers is nondeterministic.                                       *)
(***************************************************************************)
EXTENDS Naturals, Sequences, FiniteSets

CONSTANTS MaxCoros,       \* bound: coroutines spawned
          MaxSteps        \* bound: calls of a body before it must finish

ASSUME SchedulerAssumption == MaxCoros \in Nat /\ MaxSteps \in Nat

VARIABLES coroutines,     \* id |-> CoroState
          ready_queue,
          next_id,
          running_count,
          in_run,         \* a call of run() is in progress
          steps,          \* id |-> calls of its body (bound)
          served          \* history: id |-> who ran since it was last enqueued

vars == <<coroutines, ready_queue, next_id, running_count, in_run, steps, served>>

CoroState == {"Ready", "Waiting", "Finished"}
Ids == 0..(next_id - 1)

Init ==
    /\ coroutines = [id \in {} |-> "Ready"]
    /\ ready_queue = <<>>
    /\ next_id = 0
    /\ running_count = 0
    /\ in_run = FALSE
    /\ steps = [id \in {} |-> 0]
    /\ served = [id \in {} |-> {}]

Spawn ==
    /\ ~in_run
    /\ next_id < MaxCoros
    /\ coroutines' = [id \in 0..next_id |-> IF id = next_id THEN "Ready" ELSE coroutines[id]]
    /\ ready_queue' = Append(ready_queue, next_id)
    /\ next_id' = next_id + 1
    /\ running_count' = running_count + 1
    /\ steps' = [id \in 0..next_id |-> IF id = next_id THEN 0 ELSE steps[id]]
    /\ served' = [id \in 0..next_id |-> IF id = next_id THEN {} ELSE served[id]]
    /\ UNCHANGED in_run

\* [mutant] resume_coro without the test of the state
ResumeAny(id) ==
    /\ ~in_run
    /\ coroutines' = [coroutines EXCEPT ![id] = "Ready"]
    /\ ready_queue' = Append(ready_queue, id)
    /\ served' = [served EXCEPT ![id] = {}]
    /\ UNCHANGED <<next_id, running_count, in_run, steps>>

\* [mutant] resume_coro that forgets to enqueue
ResumeUnqueued(id) ==
    /\ ~in_run
    /\ coroutines[id] = "Waiting"
    /\ coroutines' = [coroutines EXCEPT ![id] = "Ready"]
    /\ served' = [served EXCEPT ![id] = {}]
    /\ UNCHANGED <<ready_queue, next_id, running_count, in_run, steps>>

\* resume_coro on a coroutine in another state changes nothing
ResumeCoro(id) ==
    /\ ~in_run
    /\ coroutines[id] = "Waiting"
    /\ coroutines' = [coroutines EXCEPT ![id] = "Ready"]
    /\ ready_queue' = Append(ready_queue, id)
    /\ served' = [served EXCEPT ![id] = {}]
    /\ UNCHANGED <<next_id, running_count, in_run, steps>>

RunEnter ==
    /\ ~in_run
    /\ in_run' = TRUE
    /\ UNCHANGED <<coroutines, ready_queue, next_id, running_count, steps, served>>

\* what the body of id may answer: it finishes by its last call
Answers(id) == IF steps[id] < MaxSteps THEN CoroState ELSE {"Finished"}

\* [mutant] a suspended coroutine taken for one that is done
DispatchUncounting(id, next) ==
    /\ ready_queue' = IF next = "Ready" THEN Append(Tail(ready_queue), id) ELSE Tail(ready_queue)
    /\ running_count' = IF next = "Ready" THEN running_count ELSE running_count - 1

\* [mutant] a yielding coroutine put back at the front
DispatchFront(id, next) ==
    /\ ready_queue' = IF next = "Ready" THEN ready_queue ELSE Tail(ready_queue)
    /\ running_count' = IF next = "Finished" THEN running_count - 1 ELSE running_count

\* the match on the state the body answered
Dispatch(id, next) ==
    /\ ready_queue' = IF next = "Ready" THEN Append(Tail(ready_queue), id) ELSE Tail(ready_queue)
    /\ running_count' = IF next = "Finished" THEN running_count - 1 ELSE running_count

\* one turn of the loop for the coroutine at the head of the queue; an entry
\* for one that has finished would only be popped
RunStep(id, next) ==
    /\ in_run
    /\ running_count > 0
    /\ ready_queue # <<>> /\ id = Head(ready_queue)
    /\ next \in Answers(id)
    /\ IF coroutines[id] = "Finished"
       THEN /\ ready_queue' = Tail(ready_queue)
            /\ UNCHANGED <<coroutines, steps, served, running_count>>
       ELSE /\ coroutines' = [coroutines EXCEPT ![id] = next]
            /\ steps' = [steps EXCEPT ![id] = @ + 1]
            /\ served' = [i \in DOMAIN served |-> IF i = id THEN {} ELSE served[i] \cup {id}]
            /\ Dispatch(id, next)
    /\ UNCHANGED <<next_id, in_run>>

\* [mutant] a loop that polls an empty queue instead of breaking
RunExitPolls ==
    /\ in_run
    /\ \/ running_count = 0 /\ in_run' = FALSE
       \/ running_count # 0 /\ ready_queue = <<>> /\ in_run' = in_run
    /\ UNCHANGED <<coroutines, ready_queue, next_id, running_count, steps, served>>

\* the loop ends when all have finished, or breaks on an empty queue
RunExit ==
    /\ in_run
    /\ running_count = 0 \/ ready_queue = <<>>
    /\ in_run' = FALSE
    /\ UNCHANGED <<coroutines, ready_queue, next_id, running_count, steps, served>>

Next ==
    \/ Spawn
    \/ RunEnter
    \/ RunExit
    \/ \E id \in Ids : ResumeCoro(id) \/ \E next \in CoroState : RunStep(id, next)

Spec == Init /\ [][Next]_vars

(***************************************************************************)
(* Fairness: the loop of run() goes on until it exits.  Whether and when   *)
(* run() is called is the program's affair.                                *)
(***************************************************************************)
Fairness ==
    /\ WF_vars(\E id \in Ids, next \in CoroState : RunStep(id, next))
    /\ WF_vars(RunExit)

FairSpec == Spec /\ Fairness

-----------------------------------------------------------------------------

TypeOK ==
    /\ next_id \in 0..MaxCoros
    /\ coroutines \in [Ids -> CoroState]
    /\ ready_queue \in Seq(Ids)
    /\ running_count \in Nat
    /\ in_run \in BOOLEAN
    /\ steps \in [Ids -> Nat]
    /\ served \in [Ids -> SUBSET Ids]

\* The ready queue holds exactly the Ready coroutines, each of them once, also
\* after several resume_coro of the same one (coroutine.rs:115): no coroutine
\* is lost to the scheduler and none is run twice in a round.
QueueExact ==
    /\ \A id \in Ids : coroutines[id] = "Ready" <=> \E k \in DOMAIN ready_queue : ready_queue[k] = id
    /\ \A j, k \in DOMAIN ready_queue : ready_queue[j] = ready_queue[k] => j = k

\* running_count, which ends run() and is active_count()'s answer, counts the
\* coroutines that have not finished (coroutine.rs:100).
CountExact ==
    running_count = Cardinality({id \in Ids : coroutines[id] # "Finished"})

\* run() hands control back only when nothing more can run without an outside
\* event: no coroutine is Ready when the loop is left.
ExitsIdle ==
    [][in_run /\ ~in_run' => \A id \in Ids : coroutines[id] # "Ready"]_vars

\* Round robin: while a coroutine is in the queue no other one runs twice.
NoOvertaking ==
    [][\A i, j \in Ids :
          (coroutines[i] = "Ready" /\ steps'[i] = steps[i] /\ steps'[j] # steps[j])
              => j \notin served[i]]_vars

\* A coroutine that is Ready when run() is called, or yields meanwhile, gets its
\* next step from this very call, however the others yield, suspend and finish in
\* between (coroutine.rs:85): nobody has to call run() again for its sake.
ReadyRuns ==
    \A id \in 0..(MaxCoros - 1), n \in 0..MaxSteps :
        (in_run /\ id \in Ids /\ coroutines[id] = "Ready" /\ steps[id] = n)
            ~> (in_run /\ id \in Ids /\ steps[id] > n)

\* Every call of run() returns when the bodies finish or suspend.
RunReturns == in_run ~> ~in_run
=============================================================================
