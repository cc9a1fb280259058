----------------------------- MODULE LossyFifo -----------------------------
(***************************************************************************)
(* What the async queue of csi/delivery.rs promises its one consumer,       *)
(* without slots, wakers or polls: a measurement is accepted at most once,  *)
(* at most Capacity accepted ones wait, the oldest of them may be discarded *)
(* to make room, the rest are received in the order they were accepted, and *)
(* a consumer that keeps asking is served, unless it stops asking.          *)
(***************************************************************************)
EXTENDS Naturals, Sequences

CONSTANTS Frames, Capacity

VARIABLES
    waiting,    \* the measurements that wait, oldest first
    discarded,  \* the accepted measurements that were discarded
    received,   \* the measurements next_csi_packet returned, in order
    asking      \* whether the consumer is inside next_csi_packet

vars == <<waiting, discarded, received, asking>>

Init == waiting = <<>> /\ discarded = {} /\ received = <<>> /\ asking = FALSE

Elements(s) == {s[i] : i \in 1 .. Len(s)}

Accept(f) ==
    /\ Len(waiting) < Capacity
    /\ f \notin Elements(waiting) \cup Elements(received) \cup discarded
    /\ waiting' = Append(waiting, f)
    /\ UNCHANGED <<discarded, received, asking>>

Discard ==
    /\ waiting # <<>>
    /\ waiting' = Tail(waiting)
    /\ discarded' = discarded \cup {Head(waiting)}
    /\ UNCHANGED <<received, asking>>

Ask ==
    /\ ~asking
    /\ asking' = TRUE
    /\ UNCHANGED <<waiting, discarded, received>>

Withdraw ==
    /\ asking
    /\ asking' = FALSE
    /\ UNCHANGED <<waiting, discarded, received>>

Serve ==
    /\ asking /\ waiting # <<>>
    /\ waiting' = Tail(waiting)
    /\ received' = Append(received, Head(waiting))
    /\ asking' = FALSE
    /\ UNCHANGED discarded

Next == (\E f \in Frames : Accept(f)) \/ Discard \/ Ask \/ Withdraw \/ Serve

\* The safety part, and with it the promise that a consumer which asks while
\* measurements wait is served.
SafeSpec == Init /\ [][Next]_vars

Spec == SafeSpec /\ WF_vars(Serve)
=============================================================================
