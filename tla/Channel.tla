------------------------------- MODULE Channel -------------------------------
(***************************************************************************)
(* The blocking channel of src/runtime/channel.rs: a VecDeque behind one   *)
(* Mutex and one Condvar, shared by cloneable Sender and Receiver handles. *)
(* The mutex is held from the first line of an operation to its return or  *)
(* to Condvar::wait, so each such region is one action.  A thread drives   *)
(* one handle; "waiting" is a thread asleep in wait(), "woken" is one that *)
(* has been notified (or woke spuriously) and must take the mutex again    *)
(* before it looks at the buffer.                                          *)
(***************************************************************************)
EXTENDS Naturals, Sequences, FiniteSets

CONSTANTS Senders,        \* sender handles that can ever exist
          First,          \* the handle make_channel returns
          Receivers,      \* receiver handles, one thread each
          Capacity,       \* the capacity argument; 0 never blocks a send
          MaxSends,       \* bound: sends one handle starts
          MayQuit         \* whether a receiver may be dropped before it drains

ASSUME ChannelAssumption ==
    /\ First \in Senders
    /\ IsFiniteSet(Senders)
    /\ Senders \cap Receivers = {}
    /\ Capacity \in Nat
    /\ MaxSends \in Nat
    /\ MayQuit \in BOOLEAN

VARIABLES buffer,         \* ChannelInner.buffer
          closed,         \* ChannelInner.closed
          senders,        \* ChannelInner.senders
          pc,             \* what each handle's thread is doing
          count,          \* sends each handle has completed
          sent,           \* history: the messages pushed, in order
          received,       \* history: the messages popped, in order
          refused         \* handles whose send returned Err("channel closed")

vars == <<buffer, closed, senders, pc, count, sent, received, refused>>

Threads == Senders \cup Receivers
Message == Senders \X (1..MaxSends)
Status == {"unborn", "idle", "waiting", "woken", "none", "dropped"}

\* handles that exist: cloned (or made) and not yet dropped
Live == {s \in Senders : pc[s] \in {"idle", "waiting", "woken"}}

\* [mutant] the capacity test off by one
FullOffByOne == Capacity > 0 /\ Len(buffer) > Capacity

Full == Capacity > 0 /\ Len(buffer) >= Capacity

Init ==
    /\ buffer = <<>>
    /\ closed = FALSE
    /\ senders = 1
    /\ pc = [t \in Threads |-> IF t = First \/ t \in Receivers THEN "idle" ELSE "unborn"]
    /\ count = [s \in Senders |-> 0]
    /\ sent = <<>>
    /\ received = <<>>
    /\ refused = {}

\* Condvar::notify_all, together with the caller's own change of status
NotifyAll(t, status) ==
    pc' = [u \in Threads |-> IF u = t THEN status
                             ELSE IF pc[u] = "waiting" THEN "woken" ELSE pc[u]]

Sleep(t) == pc' = [pc EXCEPT ![t] = "waiting"]

(***************************************************************************)
(* Sender                                                                  *)
(***************************************************************************)

Push(s) ==
    LET m == <<s, count[s] + 1>> IN
    /\ buffer' = Append(buffer, m)
    /\ sent' = Append(sent, m)
    /\ count' = [count EXCEPT ![s] = @ + 1]
    /\ NotifyAll(s, "idle")
    /\ UNCHANGED <<closed, senders, received, refused>>

Refuse(s) ==
    /\ refused' = refused \cup {s}
    /\ count' = [count EXCEPT ![s] = @ + 1]
    /\ pc' = [pc EXCEPT ![s] = "idle"]
    /\ UNCHANGED <<buffer, closed, senders, sent, received>>

\* send() from the moment it holds the mutex, on entry and after each wait
SendLocked(s) ==
    IF closed THEN Refuse(s)
    ELSE IF Full
    THEN Sleep(s) /\ UNCHANGED <<buffer, closed, senders, count, sent, received, refused>>
    ELSE Push(s)

Send(s) == pc[s] = "idle" /\ count[s] < MaxSends /\ SendLocked(s)

SendResume(s) == pc[s] = "woken" /\ SendLocked(s)

Clone(s, t) ==
    /\ pc[s] = "idle"
    /\ pc[t] = "unborn"
    /\ senders' = senders + 1
    /\ pc' = [pc EXCEPT ![t] = "idle"]
    /\ UNCHANGED <<buffer, closed, count, sent, received, refused>>

\* [mutant] Drop that tests the counter before the decrement
DropEarly(s) ==
    /\ pc[s] = "idle"
    /\ senders' = senders - 1
    /\ closed' = (closed \/ senders - 1 <= 1)
    /\ NotifyAll(s, "dropped")
    /\ UNCHANGED <<buffer, count, sent, received, refused>>

\* [mutant] Drop that closes the channel and wakes nobody
DropSilent(s) ==
    /\ pc[s] = "idle"
    /\ senders' = senders - 1
    /\ closed' = (closed \/ senders - 1 = 0)
    /\ pc' = [pc EXCEPT ![s] = "dropped"]
    /\ UNCHANGED <<buffer, count, sent, received, refused>>

\* `inner.senders -= 1` on a usize; the last handle closes the channel
Drop(s) ==
    /\ pc[s] = "idle"
    /\ senders' = senders - 1
    /\ closed' = (closed \/ senders - 1 = 0)
    /\ NotifyAll(s, "dropped")
    /\ UNCHANGED <<buffer, count, sent, received, refused>>

(***************************************************************************)
(* Receiver                                                                *)
(***************************************************************************)

\* [mutant] a receive that frees a slot and wakes nobody
PopSilent(r) ==
    /\ buffer' = Tail(buffer)
    /\ received' = Append(received, Head(buffer))
    /\ pc' = [pc EXCEPT ![r] = "idle"]
    /\ UNCHANGED <<closed, senders, count, sent, refused>>

\* [mutant] pop_back for pop_front
PopLast(r) ==
    /\ buffer' = SubSeq(buffer, 1, Len(buffer) - 1)
    /\ received' = Append(received, buffer[Len(buffer)])
    /\ NotifyAll(r, "idle")
    /\ UNCHANGED <<closed, senders, count, sent, refused>>

Pop(r) ==
    /\ buffer' = Tail(buffer)
    /\ received' = Append(received, Head(buffer))
    /\ NotifyAll(r, "idle")
    /\ UNCHANGED <<closed, senders, count, sent, refused>>

\* [mutant] recv that looks at `closed` before it looks at the buffer
RecvClosedFirst(r) ==
    \/ buffer # <<>> /\ ~closed /\ Pop(r)
    \/ /\ closed \/ buffer = <<>>
       /\ IF closed THEN pc' = [pc EXCEPT ![r] = "none"] ELSE Sleep(r)
       /\ UNCHANGED <<buffer, closed, senders, count, sent, received, refused>>

\* recv() from the moment it holds the mutex; "none" is the Ok(None) return
RecvLocked(r) ==
    \/ buffer # <<>> /\ Pop(r)
    \/ /\ buffer = <<>>
       /\ IF closed THEN pc' = [pc EXCEPT ![r] = "none"] ELSE Sleep(r)
       /\ UNCHANGED <<buffer, closed, senders, count, sent, received, refused>>

Recv(r) == pc[r] = "idle" /\ RecvLocked(r)

RecvResume(r) == pc[r] = "woken" /\ RecvLocked(r)

\* try_recv() on an empty buffer returns Ok(None) and changes nothing
TryRecv(r) == pc[r] = "idle" /\ buffer # <<>> /\ Pop(r)

\* Receiver has no Drop of its own: the channel does not learn of it
DropReceiver(r) ==
    /\ pc[r] = "none" \/ (MayQuit /\ pc[r] = "idle")
    /\ pc' = [pc EXCEPT ![r] = "dropped"]
    /\ UNCHANGED <<buffer, closed, senders, count, sent, received, refused>>

\* std::sync::Condvar may wake a waiter that nobody notified
SpuriousWake(t) ==
    /\ pc[t] = "waiting"
    /\ pc' = [pc EXCEPT ![t] = "woken"]
    /\ UNCHANGED <<buffer, closed, senders, count, sent, received, refused>>

\* every handle has been dropped: the threads have joined
Joined ==
    /\ \A t \in Threads : pc[t] \in {"dropped", "unborn"}
    /\ UNCHANGED vars

SenderStep(s) ==
    \/ Send(s) \/ SendResume(s) \/ Drop(s)
    \/ \E t \in Senders : Clone(s, t)

ReceiverStep(r) == Recv(r) \/ RecvResume(r) \/ TryRecv(r) \/ DropReceiver(r)

Next ==
    \/ \E s \in Senders : SenderStep(s)
    \/ \E r \in Receivers : ReceiverStep(r)
    \/ \E t \in Threads : SpuriousWake(t)
    \/ Joined

Spec == Init /\ [][Next]_vars

(***************************************************************************)
(* Fairness: a thread that was woken gets the mutex in the end (the OS     *)
(* schedules every runnable thread); a sender thread runs its loop of      *)
(* sends to the end and drops its handle; a receiver thread is the         *)
(* consumer loop `while let Some(v) = rx.recv()` and then drops.  Nothing  *)
(* is assumed of try_recv, of Clone or of spurious wake-ups.               *)
(***************************************************************************)
Fairness ==
    /\ \A s \in Senders : WF_vars(Send(s)) /\ WF_vars(SendResume(s))
    /\ \A s \in Senders : WF_vars(count[s] = MaxSends /\ Drop(s))
    /\ \A r \in Receivers : WF_vars(Recv(r)) /\ WF_vars(RecvResume(r))
    /\ \A r \in Receivers : WF_vars(pc[r] = "none" /\ DropReceiver(r))

FairSpec == Spec /\ Fairness

-----------------------------------------------------------------------------

TypeOK ==
    /\ buffer \in Seq(Message)
    /\ closed \in BOOLEAN
    /\ senders \in Nat
    /\ pc \in [Threads -> Status]
    /\ \A s \in Senders : pc[s] # "none"
    /\ \A r \in Receivers : pc[r] # "unborn"
    /\ count \in [Senders -> 0..MaxSends]
    /\ sent \in Seq(Message)
    /\ received \in Seq(Message)
    /\ refused \subseteq Senders

\* The senders counter counts exactly the handles that exist, and the channel
\* is closed exactly when there is none: Clone and Drop in any order, from any
\* thread, neither close it early nor leave it open (channel.rs:27, :100).
CloseIffNoSender ==
    /\ senders = Cardinality(Live)
    /\ closed <=> Live = {}

\* No thread sleeps through its wake-up: a sender asleep in wait() has a full
\* buffer in front of it and an open channel, a receiver asleep has an empty
\* buffer and an open channel.  One Condvar serves both sides (channel.rs:49,
\* :73), so every change that could release a waiter must notify it.
NoLostWakeup ==
    /\ \A s \in Senders : pc[s] = "waiting" => Full /\ ~closed
    /\ \A r \in Receivers : pc[r] = "waiting" => buffer = <<>> /\ ~closed

\* A live handle's send is never answered "channel closed": the Err branches
\* of send() (channel.rs:46, :51) cannot be taken.
SendNeverRefused == refused = {}

\* What was sent is what was received followed by what is buffered: nothing is
\* lost, duplicated or reordered, whatever the interleaving.
FifoExactlyOnce == sent = received \o buffer

\* The buffer never exceeds a positive capacity, although several senders may
\* be woken by one pop (notify_all) and race for the free slot.
Bounded == Capacity > 0 => Len(buffer) <= Capacity

\* A receiver is told Ok(None) only when nothing can ever arrive any more.
NoneMeansDrained ==
    (\E r \in Receivers : pc[r] = "none") => closed /\ received = sent

\* The channel implements Pipe.tla: seen through the two histories, it is a
\* bounded first-in first-out pipe that ends once, after its last message.
P == INSTANCE Pipe WITH in <- sent, out <- received, open <- ~closed,
                        told <- {r \in Receivers : pc[r] = "none"},
                        Readers <- Receivers
PipeSpec == P!Spec

\* no receiver is left though messages are buffered or may still be sent
Abandoned == (\A r \in Receivers : pc[r] = "dropped") /\ (Live # {} \/ buffer # <<>>)

\* As long as one receiver keeps receiving, all threads finish and every message
\* is delivered: no deadlock of senders and receivers on the one Condvar, and
\* no wake-up lost to a receiver that has left (channel.rs:55).
AllDelivered ==
    []~Abandoned => <>[](/\ \A s \in Senders : pc[s] \in {"unborn", "dropped"}
                         /\ received = sent)
=============================================================================
