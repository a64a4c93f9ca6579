-------------------------------- MODULE Pipe --------------------------------
(***************************************************************************)
(* What a channel promises (src/runtime/channel.rs), with no mutex, no     *)
(* condition variable and no buffer: messages go in while the pipe is      *)
(* open, come out in the order they went in, no more than Capacity of them *)
(* are in transit, and a reader is told of the end only when the pipe is   *)
(* closed and everything that went in has come out.                        *)
(***************************************************************************)
EXTENDS Naturals, Sequences

CONSTANTS Message, Readers, Capacity

VARIABLES in, out,        \* what has been put and what has been taken
          open,
          told            \* the readers that have been told of the end

pvars == <<in, out, open, told>>

Init == in = <<>> /\ out = <<>> /\ open = TRUE /\ told = {}

Put(m) ==
    /\ open
    /\ Capacity > 0 => Len(in) - Len(out) < Capacity
    /\ in' = Append(in, m)
    /\ UNCHANGED <<out, open, told>>

Take ==
    /\ Len(out) < Len(in)
    /\ out' = Append(out, in[Len(out) + 1])
    /\ UNCHANGED <<in, open, told>>

Close == open /\ open' = FALSE /\ UNCHANGED <<in, out, told>>

Tell(r) ==
    /\ ~open
    /\ out = in
    /\ told' = told \cup {r}
    /\ UNCHANGED <<in, out, open>>

Leave(r) == told' = told \ {r} /\ UNCHANGED <<in, out, open>>

Next ==
    \/ \E m \in Message : Put(m)
    \/ Take
    \/ Close
    \/ \E r \in Readers : Tell(r) \/ Leave(r)

Spec == Init /\ [][Next]_pvars
=============================================================================
