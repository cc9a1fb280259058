------------------------------ MODULE CsiQueue ------------------------------
(***************************************************************************)
(* The async path of csi/delivery.rs: the producers' side of deliver() in   *)
(* CsiDeliveryMode::Async, with both overflow policies, and the consumer's  *)
(* next_csi_packet(), with the waker that stands between them.              *)
(*                                                                          *)
(* A producer is a context that runs deliver(): the Wi-Fi task's callback,  *)
(* and a task that calls emit().  The ring (heapless mpmc, lock-free) is    *)
(* external: one enqueue or dequeue is one atomic step.  So are             *)
(* AtomicWaker::register and wake, each a critical section.                 *)
(***************************************************************************)
EXTENDS Naturals, Sequences, FiniteSets

CONSTANTS
    Producers,  \* contexts that deliver measurements
    Capacity,   \* slots of the ring (32 in the code)
    MaxFrames   \* bound on the measurements of a behaviour

ASSUME ProducersAssumption == IsFiniteSet(Producers)
ASSUME CapacityAssumption == Capacity \in Nat \ {0}
ASSUME MaxFramesAssumption == MaxFrames \in Nat

\* A measurement is its serial number, given as deliver() is entered.
Frames == 1 .. MaxFrames

NoFrame == 0

VARIABLES
    queue,      \* CSI_QUEUE, oldest first
    dropOldest, \* OVERFLOW_DROP_OLDEST
    queueFull,  \* STATS.rx_queue_full
    ppc,        \* ppc[p]: what producer p does next
    frame,      \* frame[p]: the measurement p is delivering
    registered, \* CSI_WAKER holds the consumer's waker
    scheduled,  \* the executor has the consumer's task in its run queue
    cpc,        \* what the consumer does next
    made,       \* history: how many measurements were made
    received,   \* history: the measurements next_csi_packet returned, in order
    evicted,    \* history: measurements that were in the ring and dropped
    refused     \* history: measurements dropped without having been in the ring

ring == <<queue, evicted>>
producers == <<ppc, frame, made, refused, queueFull>>
consumer == <<cpc, registered, received>>
vars == <<ring, producers, consumer, dropOldest, scheduled>>

Init ==
    /\ queue = <<>> /\ evicted = {}
    /\ dropOldest = FALSE
    /\ queueFull = 0
    /\ ppc = [p \in Producers |-> "idle"]
    /\ frame = [p \in Producers |-> NoFrame]
    /\ registered = FALSE /\ scheduled = FALSE
    /\ cpc = "working"
    /\ made = 0
    /\ received = <<>>
    /\ refused = {}

\* Mutant: the ring holds one measurement too many.
FullLate == Len(queue) > Capacity

\* The ring refuses another measurement.
Full == Len(queue) >= Capacity

-----------------------------------------------------------------------------
(* deliver(), in the Async mode. *)

Goto(p, to) == ppc' = [ppc EXCEPT ![p] = to]

\* A measurement reaches the async branch.
Deliver(p) ==
    /\ ppc[p] = "idle" /\ made < MaxFrames
    /\ Goto(p, "enqueue")
    /\ made' = made + 1
    /\ frame' = [frame EXCEPT ![p] = made + 1]
    /\ UNCHANGED <<ring, refused, queueFull, consumer, dropOldest, scheduled>>

\* Mutant: a drop is counted only under the policy that drops the newest.
EnqueueUncounted(p) ==
    /\ ppc[p] = "enqueue"
    /\ \/ ~Full /\ Goto(p, "wake") /\ queue' = Append(queue, frame[p]) /\ UNCHANGED queueFull
       \/ /\ Full /\ Goto(p, "full") /\ UNCHANGED queue
          /\ queueFull' = IF dropOldest THEN queueFull ELSE queueFull + 1
    /\ UNCHANGED <<evicted, frame, made, refused, consumer, dropOldest, scheduled>>

\* The first enqueue.  On a full ring one drop is counted at once.
Enqueue(p) ==
    /\ ppc[p] = "enqueue"
    /\ \/ ~Full /\ Goto(p, "wake") /\ queue' = Append(queue, frame[p]) /\ UNCHANGED queueFull
       \/ Full /\ Goto(p, "full") /\ queueFull' = queueFull + 1 /\ UNCHANGED queue
    /\ UNCHANGED <<evicted, frame, made, refused, consumer, dropOldest, scheduled>>

\* The overflow policy is read after the enqueue failed.
Overflow(p) ==
    /\ ppc[p] = "full"
    /\ \/ dropOldest /\ Goto(p, "evict") /\ UNCHANGED refused
       \/ ~dropOldest /\ Goto(p, "idle") /\ refused' = refused \cup {frame[p]}
    /\ UNCHANGED <<ring, frame, made, queueFull, consumer, dropOldest, scheduled>>

\* Mutant: the newest measurement of the ring is discarded.
EvictNewest(p) ==
    /\ ppc[p] = "evict"
    /\ Goto(p, "retry")
    /\ \/ queue = <<>> /\ UNCHANGED ring
       \/ /\ queue # <<>>
          /\ queue' = SubSeq(queue, 1, Len(queue) - 1)
          /\ evicted' = evicted \cup {queue[Len(queue)]}
    /\ UNCHANGED <<frame, made, refused, queueFull, consumer, dropOldest, scheduled>>

\* The oldest measurement is discarded, unless the consumer emptied the ring.
Evict(p) ==
    /\ ppc[p] = "evict"
    /\ Goto(p, "retry")
    /\ \/ queue = <<>> /\ UNCHANGED ring
       \/ queue # <<>> /\ queue' = Tail(queue) /\ evicted' = evicted \cup {Head(queue)}
    /\ UNCHANGED <<frame, made, refused, queueFull, consumer, dropOldest, scheduled>>

\* Mutant: the retry's success does not wake the consumer.
RetrySilently(p) ==
    /\ ppc[p] = "retry"
    /\ Goto(p, "idle")
    /\ \/ ~Full /\ queue' = Append(queue, frame[p]) /\ UNCHANGED refused
       \/ Full /\ refused' = refused \cup {frame[p]} /\ UNCHANGED queue
    /\ UNCHANGED <<evicted, frame, made, queueFull, consumer, dropOldest, scheduled>>

\* The second enqueue.  Another producer may have taken the slot.
Retry(p) ==
    /\ ppc[p] = "retry"
    /\ \/ ~Full /\ Goto(p, "wake") /\ queue' = Append(queue, frame[p]) /\ UNCHANGED refused
       \/ Full /\ Goto(p, "idle") /\ refused' = refused \cup {frame[p]} /\ UNCHANGED queue
    /\ UNCHANGED <<evicted, frame, made, queueFull, consumer, dropOldest, scheduled>>

\* CSI_WAKER.wake(): schedules the task whose waker is registered.
Wake(p) ==
    /\ ppc[p] = "wake"
    /\ Goto(p, "idle")
    /\ scheduled' = (scheduled \/ registered)
    /\ UNCHANGED <<ring, frame, made, refused, queueFull, consumer, dropOldest>>

-----------------------------------------------------------------------------
(* next_csi_packet(): dequeue, register the waker, dequeue again. *)

\* The consumer's task calls next_csi_packet, whose first poll follows.
Await ==
    /\ cpc = "working"
    /\ cpc' = "first_dequeue"
    /\ UNCHANGED <<ring, producers, registered, received, dropOldest, scheduled>>

\* The dequeue at `from'; an empty ring sends the consumer on to `to'.
Dequeue(from, to) ==
    /\ cpc = from
    /\ \/ queue = <<>> /\ cpc' = to /\ UNCHANGED <<queue, received>>
       \/ /\ queue # <<>> /\ cpc' = "working"
          /\ received' = Append(received, Head(queue))
          /\ queue' = Tail(queue)
    /\ UNCHANGED <<evicted, producers, registered, dropOldest, scheduled>>

FirstDequeue == Dequeue("first_dequeue", "register")

\* Mutant: the ring is not looked at again once the waker is registered.
RegisterAndPark ==
    /\ cpc = "register"
    /\ cpc' = "parked"
    /\ registered' = TRUE
    /\ UNCHANGED <<ring, producers, received, dropOldest, scheduled>>

RegisterWaker ==
    /\ cpc = "register"
    /\ cpc' = "second_dequeue"
    /\ registered' = TRUE
    /\ UNCHANGED <<ring, producers, received, dropOldest, scheduled>>

SecondDequeue == Dequeue("second_dequeue", "parked")

\* The executor polls the scheduled task, which runs the closure again.
Poll ==
    /\ cpc = "parked" /\ scheduled
    /\ scheduled' = FALSE
    /\ cpc' = "first_dequeue"
    /\ UNCHANGED <<ring, producers, registered, received, dropOldest>>

\* The pending future is dropped, as the time limit of csi_data_collection
\* does.  The waker stays registered.
Cancel ==
    /\ cpc = "parked"
    /\ cpc' = "working"
    /\ UNCHANGED <<ring, producers, registered, received, dropOldest, scheduled>>

\* set_csi_queue_overflow, from any task.
SetCsiQueueOverflow ==
    /\ dropOldest' = ~dropOldest
    /\ UNCHANGED <<ring, producers, consumer, scheduled>>

-----------------------------------------------------------------------------
Finish(p) == Enqueue(p) \/ Overflow(p) \/ Evict(p) \/ Retry(p) \/ Wake(p)

Consume == FirstDequeue \/ RegisterWaker \/ SecondDequeue \/ Poll

Next ==
    \/ \E p \in Producers : Deliver(p) \/ Finish(p)
    \/ Await \/ Consume \/ Cancel \/ SetCsiQueueOverflow

\* A context that entered deliver() leaves it: it never blocks.  A poll that
\* began ends, and the executor polls a task it scheduled.  Nothing obliges
\* frames to come, the consumer to ask or the policy to stay.
Fairness ==
    /\ \A p \in Producers : WF_vars(Finish(p))
    /\ WF_vars(Consume)

Spec == Init /\ [][Next]_vars /\ Fairness

-----------------------------------------------------------------------------
(* What the queue promises. *)

TypeOK ==
    /\ queue \in Seq(Frames) /\ Len(queue) <= Capacity
    /\ evicted \subseteq Frames /\ refused \subseteq Frames
    /\ dropOldest \in BOOLEAN /\ registered \in BOOLEAN /\ scheduled \in BOOLEAN
    /\ queueFull \in Nat /\ made \in 0 .. MaxFrames
    /\ ppc \in [Producers -> {"idle", "enqueue", "full", "evict", "retry", "wake"}]
    /\ frame \in [Producers -> Frames \cup {NoFrame}]
    /\ cpc \in {"working", "first_dequeue", "register", "second_dequeue", "parked"}
    /\ received \in Seq(Frames)

\* The consumer never sleeps beside a non-empty ring with nobody about to
\* wake it: next_csi_packet's dequeue, register, dequeue against deliver's
\* enqueue, wake.
NoLostWakeup ==
    cpc = "parked" /\ queue # <<>> => scheduled \/ \E p \in Producers : ppc[p] = "wake"

\* Every measurement the ring dropped or refused was counted: the comment of
\* CSI_QUEUE, "either way the drop is counted as queue_full".
DropsAreCounted == Cardinality(evicted \cup refused) <= queueFull

\* Under DropOldest the consumer always sees the most recent measurements:
\* what that policy drops is older than all it keeps.
DropOldestKeepsNewest ==
    [][\A p \in Producers : ppc[p] \in {"evict", "retry"} =>
          \A f \in (evicted' \cup refused') \ (evicted \cup refused) :
             \A i \in 1 .. Len(queue') : f < queue'[i]]_vars

\* The queue implements its specification: the consumer inside
\* next_csi_packet is the one that asks.
Fifo == INSTANCE LossyFifo WITH
            waiting <- queue, discarded <- evicted, asking <- cpc # "working"

ImplementsLossyFifo == Fifo!Spec
=============================================================================
