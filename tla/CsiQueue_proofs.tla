-------------------------- MODULE CsiQueue_proofs --------------------------
(***************************************************************************)
(* Proofs about CsiQueue, for every capacity, every number of producers and *)
(* every number of measurements.                                            *)
(***************************************************************************)
EXTENDS CsiQueue, SequenceTheorems, FiniteSetTheorems, TLAPS

USE CapacityAssumption, MaxFramesAssumption

-----------------------------------------------------------------------------
(* Sequences and their elements. *)

LEMMA AppendElements ==
    ASSUME NEW S, NEW s \in Seq(S), NEW x \in S
    PROVE  Fifo!Elements(Append(s, x)) = Fifo!Elements(s) \cup {x}
  <1>1. /\ Append(s, x) \in Seq(S)
        /\ Len(Append(s, x)) = Len(s) + 1
        /\ \A i \in 1 .. Len(s) : Append(s, x)[i] = s[i]
        /\ Append(s, x)[Len(s) + 1] = x
    BY AppendProperties
  <1>2. Len(s) \in Nat
    BY LenProperties
  <1>3. 1 .. Len(s) + 1 = (1 .. Len(s)) \cup {Len(s) + 1}
    BY <1>2
  <1>4. \A y : y \in Fifo!Elements(Append(s, x)) <=> y \in Fifo!Elements(s) \cup {x}
    BY <1>1, <1>2, <1>3 DEF Fifo!Elements
  <1> QED
    BY <1>4

LEMMA TailElements ==
    ASSUME NEW S, NEW s \in Seq(S), s # <<>>
    PROVE  Fifo!Elements(s) = Fifo!Elements(Tail(s)) \cup {Head(s)}
  <1>1. /\ Head(s) = s[1]
        /\ Len(s) \in Nat \ {0}
        /\ Len(Tail(s)) = Len(s) - 1
        /\ \A i \in 1 .. Len(Tail(s)) : Tail(s)[i] = s[i + 1]
    BY EmptySeq, LenProperties, HeadTailProperties
  <1>2. \A y : y \in Fifo!Elements(s) => y \in Fifo!Elements(Tail(s)) \cup {Head(s)}
    <2> TAKE y
    <2> HAVE y \in Fifo!Elements(s)
    <2>1. PICK i \in 1 .. Len(s) : y = s[i]
      BY DEF Fifo!Elements
    <2>2. CASE i = 1
      BY <1>1, <2>1, <2>2
    <2>3. CASE i # 1
      <3>1. i - 1 \in 1 .. Len(Tail(s)) /\ Tail(s)[i - 1] = s[i]
        BY <1>1, <2>3
      <3> QED
        BY <2>1, <3>1 DEF Fifo!Elements
    <2> QED
      BY <2>2, <2>3
  <1>3. \A y : y \in Fifo!Elements(Tail(s)) \cup {Head(s)} => y \in Fifo!Elements(s)
    BY <1>1 DEF Fifo!Elements
  <1> QED
    BY <1>2, <1>3

-----------------------------------------------------------------------------
(* Types. *)

Busy(p) == ppc[p] \in {"enqueue", "full", "evict", "retry"}

\* The type invariant, with what the types of later steps rest on: a busy
\* producer holds a measurement that was made.
Typed ==
    /\ TypeOK
    /\ \A p \in Producers : Busy(p) => frame[p] \in 1 .. made

LEMMA InitTyped == Init => Typed
  <1> SUFFICES ASSUME Init PROVE Typed
    OBVIOUS
  <1>1. /\ queue \in Seq(Frames) /\ Len(queue) <= Capacity
        /\ received \in Seq(Frames)
    BY EmptySeq DEF Init
  <1>2. /\ ppc \in [Producers -> {"idle", "enqueue", "full", "evict", "retry", "wake"}]
        /\ frame \in [Producers -> Frames \cup {NoFrame}]
        /\ \A p \in Producers : ~Busy(p)
    BY DEF Init, Busy
  <1>3. dropOldest \in BOOLEAN /\ registered \in BOOLEAN /\ scheduled \in BOOLEAN
    BY DEF Init
  <1>4. /\ evicted \subseteq Frames /\ refused \subseteq Frames
        /\ queueFull \in Nat /\ made \in 0 .. MaxFrames /\ cpc = "working"
    BY SMT DEF Init
  <1> QED
    BY <1>1, <1>2, <1>3, <1>4 DEF Typed, TypeOK

LEMMA NextTyped == Typed /\ [Next]_vars => Typed'
  <1> SUFFICES ASSUME Typed, [Next]_vars PROVE Typed'
    OBVIOUS
  <1> USE DEF Typed, TypeOK, Busy, Frames, NoFrame
  <1>1. ASSUME NEW p \in Producers, Deliver(p) PROVE Typed'
    BY <1>1 DEF Deliver, Goto, ring, consumer
  <1>2. ASSUME NEW p \in Producers, Enqueue(p) PROVE Typed'
    <2>1. frame[p] \in Frames
      BY <1>2 DEF Enqueue
    <2>2. ~Full => Append(queue, frame[p]) \in Seq(Frames)
                   /\ Len(Append(queue, frame[p])) <= Capacity
      BY <2>1, AppendProperties, LenProperties DEF Full
    <2>3. CASE ~Full
      BY <1>2, <2>2, <2>3 DEF Enqueue, Goto, consumer
    <2>4. CASE Full
      BY <1>2, <2>4 DEF Enqueue, Goto, consumer
    <2> QED
      BY <2>3, <2>4
  <1>3. ASSUME NEW p \in Producers, Overflow(p) PROVE Typed'
    <2>1. frame[p] \in Frames
      BY <1>3 DEF Overflow
    <2>2. CASE dropOldest
      BY <1>3, <2>2 DEF Overflow, Goto, ring, consumer
    <2>3. CASE ~dropOldest
      BY <1>3, <2>1, <2>3 DEF Overflow, Goto, ring, consumer
    <2> QED
      BY <2>2, <2>3
  <1>4. ASSUME NEW p \in Producers, Evict(p) PROVE Typed'
    <2>1. queue' \in Seq(Frames) /\ Len(queue') <= Capacity /\ evicted' \subseteq Frames
      <3>1. CASE queue = <<>>
        BY <1>4, <3>1 DEF Evict, ring
      <3>2. CASE queue # <<>>
        <4>1. Tail(queue) \in Seq(Frames) /\ Len(Tail(queue)) <= Capacity
          BY <3>2, HeadTailProperties, LenProperties
        <4>2. Head(queue) \in Frames
          BY <3>2, HeadTailProperties
        <4> QED
          BY <1>4, <3>2, <4>1, <4>2 DEF Evict
      <3> QED
        BY <3>1, <3>2
    <2> QED
      BY <1>4, <2>1 DEF Evict, Goto, consumer
  <1>5. ASSUME NEW p \in Producers, Retry(p) PROVE Typed'
    <2>1. frame[p] \in Frames
      BY <1>5 DEF Retry
    <2>2. ~Full => Append(queue, frame[p]) \in Seq(Frames)
                   /\ Len(Append(queue, frame[p])) <= Capacity
      BY <2>1, AppendProperties, LenProperties DEF Full
    <2> QED
      BY <1>5, <2>1, <2>2 DEF Retry, Goto, consumer
  <1>6. ASSUME NEW p \in Producers, Wake(p) PROVE Typed'
    BY <1>6 DEF Wake, Goto, ring, consumer
  <1>7. ASSUME NEW from, NEW to \in {"register", "parked"}, Dequeue(from, to) PROVE Typed'
    <2>1. queue # <<>> => /\ Tail(queue) \in Seq(Frames) /\ Len(Tail(queue)) <= Capacity
                          /\ Append(received, Head(queue)) \in Seq(Frames)
      BY HeadTailProperties, LenProperties, AppendProperties
    <2> QED
      BY <1>7, <2>1 DEF Dequeue, producers
  <1>8. CASE RegisterWaker \/ Poll \/ Await \/ Cancel \/ SetCsiQueueOverflow
    BY <1>8 DEF RegisterWaker, Poll, Await, Cancel, SetCsiQueueOverflow,
                ring, producers, consumer
  <1>9. CASE UNCHANGED vars
    BY <1>9 DEF vars, ring, producers, consumer
  <1> QED
    BY <1>1, <1>2, <1>3, <1>4, <1>5, <1>6, <1>7, <1>8, <1>9
    DEF Next, Finish, Consume, FirstDequeue, SecondDequeue

\* Type correctness: every state of every behaviour is well typed, and the
\* ring never holds more than Capacity measurements.
THEOREM TypeCorrect == Spec => []TypeOK
  <1>1. Typed => TypeOK
    BY DEF Typed
  <1> QED
    BY <1>1, InitTyped, NextTyped, PTL DEF Spec

-----------------------------------------------------------------------------
(* No lost wakeup. *)

\* NoLostWakeup is inductive once the waker is known to be registered from
\* the second dequeue on.
WakeInv ==
    /\ NoLostWakeup
    /\ cpc \in {"second_dequeue", "parked"} => registered

LEMMA NextWake == Typed /\ WakeInv /\ [Next]_vars => WakeInv'
  <1> SUFFICES ASSUME Typed, WakeInv, [Next]_vars PROVE WakeInv'
    OBVIOUS
  <1> USE DEF Typed, TypeOK, WakeInv, NoLostWakeup
  <1>1. ASSUME NEW p \in Producers, Deliver(p) \/ Overflow(p) PROVE WakeInv'
    BY <1>1 DEF Deliver, Overflow, Goto, ring, consumer
  <1>2. ASSUME NEW p \in Producers, Enqueue(p) PROVE WakeInv'
    <2>1. CASE ~Full
      <3>1. ppc'[p] = "wake"
        BY <1>2, <2>1 DEF Enqueue, Goto
      <3> QED
        BY <1>2, <3>1 DEF Enqueue, consumer
    <2>2. CASE Full
      BY <1>2, <2>2 DEF Enqueue, Goto, consumer
    <2> QED
      BY <2>1, <2>2
  <1>3. ASSUME NEW p \in Producers, Evict(p) PROVE WakeInv'
    BY <1>3 DEF Evict, Goto, ring, consumer
  <1>4. ASSUME NEW p \in Producers, Retry(p) PROVE WakeInv'
    <2>1. CASE ~Full
      <3>1. ppc'[p] = "wake"
        BY <1>4, <2>1 DEF Retry, Goto
      <3> QED
        BY <1>4, <3>1 DEF Retry, consumer
    <2>2. CASE Full
      BY <1>4, <2>2 DEF Retry, Goto, consumer
    <2> QED
      BY <2>1, <2>2
  <1>5. ASSUME NEW p \in Producers, Wake(p) PROVE WakeInv'
    BY <1>5 DEF Wake, Goto, ring, consumer
  <1>6. CASE FirstDequeue \/ SecondDequeue
    BY <1>6 DEF FirstDequeue, SecondDequeue, Dequeue, producers
  <1>7. CASE RegisterWaker \/ Poll \/ Await \/ Cancel \/ SetCsiQueueOverflow
    BY <1>7 DEF RegisterWaker, Poll, Await, Cancel, SetCsiQueueOverflow,
                ring, producers, consumer
  <1>8. CASE UNCHANGED vars
    BY <1>8 DEF vars, ring, producers, consumer
  <1> QED
    BY <1>1, <1>2, <1>3, <1>4, <1>5, <1>6, <1>7, <1>8 DEF Next, Finish, Consume

\* However many contexts deliver and whichever overflow policies they meet,
\* the consumer never sleeps beside a non-empty ring with no wakeup due.
THEOREM NeverLosesAWakeup == Spec => []NoLostWakeup
  <1>1. Init => WakeInv
    BY DEF Init, WakeInv, NoLostWakeup
  <1>2. WakeInv => NoLostWakeup
    BY DEF WakeInv
  <1> QED
    BY <1>1, <1>2, InitTyped, NextTyped, NextWake, PTL DEF Spec
-----------------------------------------------------------------------------
(* The queue implements LossyFifo. *)

Accepted == Fifo!Elements(queue) \cup Fifo!Elements(received) \cup evicted

\* No measurement is in two places: what a busy producer holds has not been
\* accepted, and no two of them hold the same.
Distinct ==
    /\ Accepted \subseteq 1 .. made
    /\ \A p \in Producers : Busy(p) => frame[p] \notin Accepted
    /\ \A p, q \in Producers : p # q /\ Busy(p) /\ Busy(q) => frame[p] # frame[q]

\* An enqueue by a busy producer accepts what it held.
LEMMA AcceptStep ==
    ASSUME Typed, Distinct, NEW p \in Producers, ppc[p] \in {"enqueue", "retry"}, ~Full,
           ppc' = [ppc EXCEPT ![p] = "wake"], queue' = Append(queue, frame[p]),
           UNCHANGED <<frame, made, evicted, consumer>>
    PROVE  Distinct' /\ Fifo!Accept(frame[p])
  <1> USE DEF Typed, TypeOK, Busy
  <1>1. frame[p] \in Frames /\ frame[p] \in 1 .. made
    BY DEF Frames
  <1>2. Fifo!Elements(queue') = Fifo!Elements(queue) \cup {frame[p]}
    BY <1>1, AppendElements
  <1>3. Fifo!Elements(received)' = Fifo!Elements(received)
    BY DEF consumer
  <1>4. Accepted' = Accepted \cup {frame[p]}
    BY <1>2, <1>3 DEF Accepted
  <1>5. Distinct'
    BY <1>1, <1>4 DEF Distinct
  <1>6. Len(queue) < Capacity
    BY LenProperties DEF Full
  <1>7. frame[p] \notin Accepted
    BY DEF Distinct
  <1>8. (cpc # "working")' = (cpc # "working") /\ UNCHANGED received
    BY DEF consumer
  <1>9. Fifo!Accept(frame[p])
    BY <1>6, <1>7, <1>8 DEF Fifo!Accept, Accepted
  <1> QED
    BY <1>5, <1>9

\* A dequeue by the consumer moves the oldest element, and by a producer that
\* makes room discards it: in both cases what was accepted is the same.
LEMMA RemoveStep ==
    ASSUME Typed, Distinct, queue # <<>>, queue' = Tail(queue),
           UNCHANGED <<frame, made>>,
           \A p \in Producers : Busy(p)' => Busy(p),
           \/ evicted' = evicted \cup {Head(queue)} /\ UNCHANGED received
           \/ received' = Append(received, Head(queue)) /\ UNCHANGED evicted
    PROVE  Distinct'
  <1> USE DEF Typed, TypeOK
  <1>1. Fifo!Elements(queue) = Fifo!Elements(queue') \cup {Head(queue)}
    BY TailElements
  <1>2. Head(queue) \in Frames
    BY HeadTailProperties
  <1>3. Fifo!Elements(Append(received, Head(queue))) = Fifo!Elements(received) \cup {Head(queue)}
    BY <1>2, AppendElements
  <1>4. Accepted' = Accepted
    <2>1. CASE evicted' = evicted \cup {Head(queue)} /\ UNCHANGED received
      BY <1>1, <2>1 DEF Accepted
    <2>2. CASE received' = Append(received, Head(queue)) /\ UNCHANGED evicted
      BY <1>1, <1>3, <2>2 DEF Accepted
    <2> QED
      BY <2>1, <2>2
  <1> QED
    BY <1>4 DEF Distinct, Busy

\* What is neither accepted nor moved stays distinct.
LEMMA KeepStep ==
    ASSUME Distinct, UNCHANGED <<queue, received, evicted, frame, made>>,
           \A p \in Producers : Busy(p)' => Busy(p)
    PROVE  Distinct'
  <1>1. Accepted' = Accepted
    BY DEF Accepted
  <1> QED
    BY <1>1 DEF Distinct, Busy

LEMMA NextDistinct ==
    Typed /\ Distinct /\ [Next]_vars => Distinct' /\ [Fifo!Next]_(Fifo!vars)
  <1> SUFFICES ASSUME Typed, Distinct, [Next]_vars
               PROVE  Distinct' /\ [Fifo!Next]_(Fifo!vars)
    OBVIOUS
  <1> USE DEF Typed, TypeOK
  <1>1. ASSUME NEW p \in Producers, Deliver(p)
        PROVE  Distinct' /\ UNCHANGED Fifo!vars
    <2>1. UNCHANGED <<queue, received, evicted, cpc>>
      BY <1>1 DEF Deliver, ring, consumer
    <2>2. Accepted' = Accepted
      BY <2>1 DEF Accepted
    <2>3. made' = made + 1 /\ frame'[p] = made + 1
          /\ \A q \in Producers : q # p => frame'[q] = frame[q] /\ ppc'[q] = ppc[q]
      BY <1>1 DEF Deliver, Goto
    <2>4. Distinct'
      BY <2>2, <2>3 DEF Distinct, Busy
    <2> QED
      BY <2>1, <2>4 DEF Fifo!vars
  <1>2. ASSUME NEW p \in Producers, Enqueue(p) \/ Retry(p)
        PROVE  Distinct' /\ [Fifo!Next]_(Fifo!vars)
    <2>1. CASE ~Full
      <3>1. Distinct' /\ Fifo!Accept(frame[p])
        BY <1>2, <2>1, AcceptStep DEF Enqueue, Retry, Goto, consumer
      <3>2. frame[p] \in Frames
        BY <1>2 DEF Enqueue, Retry, Busy, Frames
      <3> QED
        BY <3>1, <3>2 DEF Fifo!Next
    <2>2. CASE Full
      <3>1. UNCHANGED <<queue, received, evicted, frame, made, cpc>>
        BY <1>2, <2>2 DEF Enqueue, Retry, consumer
      <3>2. \A q \in Producers : Busy(q)' => Busy(q)
        BY <1>2, <2>2 DEF Enqueue, Retry, Goto, Busy
      <3> QED
        BY <3>1, <3>2, KeepStep DEF Fifo!vars
    <2> QED
      BY <2>1, <2>2
  <1>3. ASSUME NEW p \in Producers, Overflow(p) \/ Wake(p)
        PROVE  Distinct' /\ UNCHANGED Fifo!vars
    <2>1. UNCHANGED <<queue, received, evicted, frame, made, cpc>>
      BY <1>3 DEF Overflow, Wake, ring, consumer
    <2>2. \A q \in Producers : Busy(q)' => Busy(q)
      BY <1>3 DEF Overflow, Wake, Goto, Busy
    <2> QED
      BY <2>1, <2>2, KeepStep DEF Fifo!vars
  <1>4. ASSUME NEW p \in Producers, Evict(p)
        PROVE  Distinct' /\ [Fifo!Next]_(Fifo!vars)
    <2>1. \A q \in Producers : Busy(q)' => Busy(q)
      BY <1>4 DEF Evict, Goto, Busy
    <2>2. UNCHANGED <<frame, made, received, cpc>>
      BY <1>4 DEF Evict, consumer
    <2>3. CASE queue = <<>>
      BY <1>4, <2>1, <2>2, <2>3, KeepStep DEF Evict, ring, Fifo!vars
    <2>4. CASE queue # <<>>
      <3>1. queue' = Tail(queue) /\ evicted' = evicted \cup {Head(queue)}
        BY <1>4, <2>4 DEF Evict
      <3> QED
        BY <2>1, <2>2, <2>4, <3>1, RemoveStep DEF Fifo!Next, Fifo!Discard
    <2> QED
      BY <2>3, <2>4
  <1>5. CASE FirstDequeue \/ SecondDequeue
    <2>1. UNCHANGED <<ppc, frame, made, evicted>> /\ cpc # "working"
      BY <1>5 DEF FirstDequeue, SecondDequeue, Dequeue, producers
    <2>2. \A q \in Producers : Busy(q)' => Busy(q)
      BY <2>1 DEF Busy
    <2>3. CASE queue = <<>>
      <3>1. UNCHANGED <<queue, received>> /\ cpc' # "working"
        BY <1>5, <2>3 DEF FirstDequeue, SecondDequeue, Dequeue
      <3> QED
        BY <2>1, <2>2, <3>1, KeepStep DEF Fifo!vars
    <2>4. CASE queue # <<>>
      <3>1. /\ queue' = Tail(queue) /\ received' = Append(received, Head(queue))
            /\ cpc' = "working"
        BY <1>5, <2>4 DEF FirstDequeue, SecondDequeue, Dequeue
      <3> QED
        BY <2>1, <2>2, <2>4, <3>1, RemoveStep DEF Fifo!Next, Fifo!Serve
    <2> QED
      BY <2>3, <2>4
  <1>6. CASE RegisterWaker \/ Poll \/ SetCsiQueueOverflow
    <2>1. UNCHANGED <<queue, received, evicted, frame, made, ppc, cpc # "working">>
      BY <1>6 DEF RegisterWaker, Poll, SetCsiQueueOverflow, ring, producers, consumer
    <2> QED
      BY <2>1, KeepStep DEF Fifo!vars, Busy
  <1>7. CASE Await \/ Cancel
    <2>1. UNCHANGED <<queue, received, evicted, frame, made, ppc>>
      BY <1>7 DEF Await, Cancel, ring, producers
    <2>2. Fifo!Ask \/ Fifo!Withdraw
      BY <1>7, <2>1 DEF Await, Cancel, Fifo!Ask, Fifo!Withdraw
    <2> QED
      BY <2>1, <2>2, KeepStep DEF Fifo!Next, Busy
  <1>8. CASE UNCHANGED vars
    <2>1. UNCHANGED <<queue, received, evicted, frame, made, ppc, cpc>>
      BY <1>8 DEF vars, ring, producers, consumer
    <2> QED
      BY <2>1, KeepStep DEF Fifo!vars, Busy
  <1> QED
    BY <1>1, <1>2, <1>3, <1>4, <1>5, <1>6, <1>7, <1>8 DEF Next, Finish, Consume

\* Each measurement is accepted at most once, leaves the ring in order, and is
\* received or discarded: the queue's safety part implements LossyFifo's.
THEOREM ImplementsLossyFifoSafely == Spec => Fifo!SafeSpec
  <1>1. Init => Distinct /\ Fifo!Init
    BY EmptySeq DEF Init, Distinct, Accepted, Busy, Fifo!Init, Fifo!Elements
  <1> QED
    BY <1>1, InitTyped, NextTyped, NextDistinct, PTL DEF Spec, Fifo!SafeSpec
-----------------------------------------------------------------------------
(* What a drop costs. *)

Dropped == evicted \cup refused

Pending(S) == {p \in Producers : ppc[p] \in S}

Waiting == Cardinality(Pending({"full", "evict"}))

Trying == Cardinality(Pending({"full", "evict", "retry"}))

\* Each of a producer's two ways to drop is preceded by its own count.
CountInv ==
    /\ Cardinality(evicted) + Waiting <= queueFull
    /\ Cardinality(refused) + Trying <= queueFull

LEMMA FiniteParts ==
    ASSUME TypeOK
    PROVE  /\ IsFiniteSet(evicted) /\ IsFiniteSet(refused)
           /\ \A S : IsFiniteSet(Pending(S)) /\ Cardinality(Pending(S)) \in Nat
           /\ Cardinality(evicted) \in Nat /\ Cardinality(refused) \in Nat
  <1>1. IsFiniteSet(Frames)
    BY FS_Interval DEF Frames
  <1>2. IsFiniteSet(evicted) /\ IsFiniteSet(refused)
    BY <1>1, FS_Subset DEF TypeOK
  <1>3. \A S : IsFiniteSet(Pending(S))
    BY ProducersAssumption, FS_Subset DEF Pending
  <1> QED
    BY <1>2, <1>3, FS_CardinalityType

\* A producer that goes from one step to another joins or leaves the producers
\* at S, or is among them still or not at all.
LEMMA PendingStep ==
    ASSUME TypeOK, NEW p \in Producers, NEW to, ppc' = [ppc EXCEPT ![p] = to], NEW S
    PROVE  /\ (ppc[p] \in S <=> to \in S) => Pending(S)' = Pending(S)
           /\ ppc[p] \notin S /\ to \in S =>
                Cardinality(Pending(S)') = Cardinality(Pending(S)) + 1
           /\ ppc[p] \in S /\ to \notin S =>
                Cardinality(Pending(S)') = Cardinality(Pending(S)) - 1
  <1> USE DEF TypeOK
  <1>1. ASSUME NEW q \in Producers PROVE ppc'[q] = IF q = p THEN to ELSE ppc[q]
    OBVIOUS
  <1>2. (ppc[p] \in S <=> to \in S) => Pending(S)' = Pending(S)
    BY <1>1 DEF Pending
  <1>3. ASSUME ppc[p] \notin S, to \in S
        PROVE  Cardinality(Pending(S)') = Cardinality(Pending(S)) + 1
    <2>1. Pending(S)' = Pending(S) \cup {p} /\ p \notin Pending(S)
      BY <1>1, <1>3 DEF Pending
    <2> QED
      BY <2>1, FiniteParts, FS_AddElement
  <1>4. ASSUME ppc[p] \in S, to \notin S
        PROVE  Cardinality(Pending(S)') = Cardinality(Pending(S)) - 1
    <2>1. Pending(S)' = Pending(S) \ {p} /\ p \in Pending(S)
      BY <1>1, <1>4 DEF Pending
    <2>2. Cardinality(Pending(S) \ {p}) = Cardinality(Pending(S)) - 1
      BY <2>1, FiniteParts, FS_RemoveElement
    <2> QED
      BY <2>1, <2>2
  <1> QED
    BY <1>2, <1>3, <1>4

\* How a producer's step changes the two counts.
LEMMA CountsStep ==
    ASSUME TypeOK, NEW p \in Producers, ppc' = [ppc EXCEPT ![p] = ppc'[p]]
    PROVE  /\ ppc[p] \notin {"full", "evict"} /\ ppc'[p] \notin {"full", "evict"} => Waiting' = Waiting
           /\ ppc[p] \in {"full", "evict"} /\ ppc'[p] \in {"full", "evict"} => Waiting' = Waiting
           /\ ppc[p] \in {"full", "evict"} /\ ppc'[p] \notin {"full", "evict"} =>
                Waiting' = Waiting - 1
           /\ ppc[p] \notin {"full", "evict"} /\ ppc'[p] \in {"full", "evict"} =>
                Waiting' = Waiting + 1
           /\ ppc[p] \notin {"full", "evict", "retry"} /\ ppc'[p] \notin {"full", "evict", "retry"} =>
                Trying' = Trying
           /\ ppc[p] \in {"full", "evict", "retry"} /\ ppc'[p] \in {"full", "evict", "retry"} =>
                Trying' = Trying
           /\ ppc[p] \in {"full", "evict", "retry"} /\ ppc'[p] \notin {"full", "evict", "retry"} =>
                Trying' = Trying - 1
           /\ ppc[p] \notin {"full", "evict", "retry"} /\ ppc'[p] \in {"full", "evict", "retry"} =>
                Trying' = Trying + 1
  <1> DEFINE to == ppc'[p]
  <1>1. ppc' = [ppc EXCEPT ![p] = to]
    OBVIOUS
  <1> HIDE DEF to
  <1>2. \A S : /\ (ppc[p] \in S <=> to \in S) => Pending(S)' = Pending(S)
               /\ ppc[p] \notin S /\ to \in S =>
                    Cardinality(Pending(S)') = Cardinality(Pending(S)) + 1
               /\ ppc[p] \in S /\ to \notin S =>
                    Cardinality(Pending(S)') = Cardinality(Pending(S)) - 1
    BY <1>1, PendingStep
  <1> QED
    BY <1>2 DEF Waiting, Trying, to

\* A step that neither drops nor changes whose drops are counted.
LEMMA CountKept ==
    ASSUME TypeOK, CountInv, UNCHANGED <<evicted, refused, queueFull, ppc>>
    PROVE  CountInv'
  BY DEF CountInv, Waiting, Trying, Pending

\* One more element adds at most one.
LEMMA OneMore ==
    ASSUME NEW T, IsFiniteSet(T), NEW x
    PROVE  /\ IsFiniteSet(T \cup {x})
           /\ Cardinality(T) \in Nat /\ Cardinality(T \cup {x}) \in Nat
           /\ Cardinality(T \cup {x}) <= Cardinality(T) + 1
  <1>1. IsFiniteSet(T \cup {x}) /\ Cardinality(T \cup {x}) =
            IF x \in T THEN Cardinality(T) ELSE Cardinality(T) + 1
    BY FS_AddElement
  <1>2. Cardinality(T) \in Nat
    BY FS_CardinalityType
  <1> QED
    BY <1>1, <1>2

LEMMA NextCounts == Typed /\ CountInv /\ [Next]_vars => CountInv'
  <1> SUFFICES ASSUME Typed, CountInv, [Next]_vars PROVE CountInv'
    OBVIOUS
  <1> USE DEF Typed
  <1>0. /\ Waiting \in Nat /\ Trying \in Nat /\ queueFull \in Nat
        /\ Cardinality(evicted) \in Nat /\ Cardinality(refused) \in Nat
        /\ Cardinality(evicted) + Waiting <= queueFull
        /\ Cardinality(refused) + Trying <= queueFull
    BY FiniteParts DEF TypeOK, CountInv, Waiting, Trying
  <1>1. ASSUME NEW p \in Producers, Deliver(p) \/ Wake(p) PROVE CountInv'
    <2>1. ppc' = [ppc EXCEPT ![p] = ppc'[p]] /\ ppc'[p] \in {"enqueue", "idle"}
      BY <1>1 DEF Deliver, Wake, Goto, TypeOK
    <2>2. ppc[p] \in {"idle", "wake"} /\ UNCHANGED <<evicted, refused, queueFull>>
      BY <1>1 DEF Deliver, Wake, ring
    <2>3. Waiting' = Waiting /\ Trying' = Trying
      BY <2>1, <2>2, CountsStep
    <2> QED
      BY <1>0, <2>2, <2>3 DEF CountInv
  <1>2. ASSUME NEW p \in Producers, Enqueue(p) PROVE CountInv'
    <2>1. ppc[p] = "enqueue" /\ UNCHANGED <<evicted, refused>>
      BY <1>2 DEF Enqueue
    <2>2. CASE ~Full
      <3>1. ppc' = [ppc EXCEPT ![p] = ppc'[p]] /\ ppc'[p] = "wake" /\ UNCHANGED queueFull
        BY <1>2, <2>2 DEF Enqueue, Goto, TypeOK
      <3>2. Waiting' = Waiting /\ Trying' = Trying
        BY <2>1, <3>1, CountsStep
      <3> QED
        BY <1>0, <2>1, <3>1, <3>2 DEF CountInv
    <2>3. CASE Full
      <3>1. ppc' = [ppc EXCEPT ![p] = ppc'[p]] /\ ppc'[p] = "full" /\ queueFull' = queueFull + 1
        BY <1>2, <2>3 DEF Enqueue, Goto, TypeOK
      <3>2. Waiting' = Waiting + 1 /\ Trying' = Trying + 1
        BY <2>1, <3>1, CountsStep
      <3> QED
        BY <1>0, <2>1, <3>1, <3>2 DEF CountInv
    <2> QED
      BY <2>2, <2>3
  <1>3. ASSUME NEW p \in Producers, Overflow(p) PROVE CountInv'
    <2>1. ppc[p] = "full" /\ UNCHANGED <<evicted, queueFull>>
      BY <1>3 DEF Overflow, ring
    <2>2. CASE dropOldest
      <3>1. ppc' = [ppc EXCEPT ![p] = ppc'[p]] /\ ppc'[p] = "evict" /\ UNCHANGED refused
        BY <1>3, <2>2 DEF Overflow, Goto, TypeOK
      <3>2. Waiting' = Waiting /\ Trying' = Trying
        BY <2>1, <3>1, CountsStep
      <3> QED
        BY <1>0, <2>1, <3>1, <3>2 DEF CountInv
    <2>3. CASE ~dropOldest
      <3>1. ppc' = [ppc EXCEPT ![p] = ppc'[p]] /\ ppc'[p] = "idle" /\ refused' = refused \cup {frame[p]}
        BY <1>3, <2>3 DEF Overflow, Goto, TypeOK
      <3>2. Waiting' = Waiting - 1 /\ Trying' = Trying - 1
        BY <2>1, <3>1, CountsStep
      <3>3. Cardinality(refused') \in Nat /\ Cardinality(refused') <= Cardinality(refused) + 1
        BY <3>1, FiniteParts, OneMore
      <3> QED
        BY <1>0, <2>1, <3>2, <3>3 DEF CountInv
    <2> QED
      BY <2>2, <2>3
  <1>4. ASSUME NEW p \in Producers, Evict(p) PROVE CountInv'
    <2>1. /\ ppc[p] = "evict" /\ ppc' = [ppc EXCEPT ![p] = ppc'[p]] /\ ppc'[p] = "retry"
          /\ UNCHANGED <<refused, queueFull>>
      BY <1>4 DEF Evict, Goto, TypeOK
    <2>2. Waiting' = Waiting - 1 /\ Trying' = Trying
      BY <2>1, CountsStep
    <2>3. evicted' = evicted \/ evicted' = evicted \cup {Head(queue)}
      BY <1>4 DEF Evict, ring
    <2>4. Cardinality(evicted') \in Nat /\ Cardinality(evicted') <= Cardinality(evicted) + 1
      <3>1. IsFiniteSet(evicted)
        BY FiniteParts
      <3>2. CASE evicted' = evicted
        BY <1>0, <3>2
      <3>3. CASE evicted' = evicted \cup {Head(queue)}
        BY <3>1, <3>3, OneMore
      <3> QED
        BY <2>3, <3>2, <3>3
    <2> QED
      BY <1>0, <2>1, <2>2, <2>4 DEF CountInv
  <1>5. ASSUME NEW p \in Producers, Retry(p) PROVE CountInv'
    <2>1. ppc[p] = "retry" /\ UNCHANGED <<evicted, queueFull>>
      BY <1>5 DEF Retry
    <2>2. ppc' = [ppc EXCEPT ![p] = ppc'[p]] /\ ppc'[p] \in {"wake", "idle"}
      BY <1>5 DEF Retry, Goto, TypeOK
    <2>3. Waiting' = Waiting /\ Trying' = Trying - 1
      BY <2>1, <2>2, CountsStep
    <2>4. refused' = refused \/ refused' = refused \cup {frame[p]}
      BY <1>5 DEF Retry
    <2>5. Cardinality(refused') \in Nat /\ Cardinality(refused') <= Cardinality(refused) + 1
      <3>1. IsFiniteSet(refused)
        BY FiniteParts
      <3>2. CASE refused' = refused
        BY <1>0, <3>2
      <3>3. CASE refused' = refused \cup {frame[p]}
        BY <3>1, <3>3, OneMore
      <3> QED
        BY <2>4, <3>2, <3>3
    <2> QED
      BY <1>0, <2>1, <2>3, <2>5 DEF CountInv
  <1>6. CASE FirstDequeue \/ SecondDequeue
    BY <1>6, CountKept DEF FirstDequeue, SecondDequeue, Dequeue, producers
  <1>7. CASE RegisterWaker \/ Poll \/ Await \/ Cancel \/ SetCsiQueueOverflow
    BY <1>7, CountKept DEF RegisterWaker, Poll, Await, Cancel, SetCsiQueueOverflow,
                           ring, producers
  <1>8. CASE UNCHANGED vars
    BY <1>8, CountKept DEF vars, ring, producers
  <1> QED
    BY <1>1, <1>2, <1>3, <1>4, <1>5, <1>6, <1>7, <1>8 DEF Next, Finish, Consume

LEMMA InitCounts == Init => CountInv
  <1> SUFFICES ASSUME Init PROVE CountInv
    OBVIOUS
  <1>1. Pending({"full", "evict"}) = {} /\ Pending({"full", "evict", "retry"}) = {}
    BY DEF Init, Pending
  <1>2. Waiting = 0 /\ Trying = 0
    BY <1>1, FS_EmptySet DEF Waiting, Trying
  <1> QED
    BY <1>2, FS_EmptySet DEF Init, CountInv

EachKindCounted == Cardinality(evicted) <= queueFull /\ Cardinality(refused) <= queueFull

\* However many contexts deliver, neither the measurements dropped from the
\* ring nor those that never got in outnumber the counted drops: a count stands
\* for at most two losses, one of either kind (deliver's first enqueue counts,
\* its dequeue and its second enqueue may each lose one).
THEOREM CountsBoundLosses == Spec => []EachKindCounted
  <1>1. Typed /\ CountInv => EachKindCounted
    <2> SUFFICES ASSUME Typed, CountInv PROVE EachKindCounted
      OBVIOUS
    <2>1. /\ Waiting \in Nat /\ Trying \in Nat /\ queueFull \in Nat
          /\ Cardinality(evicted) \in Nat /\ Cardinality(refused) \in Nat
      BY FiniteParts DEF Typed, TypeOK, Waiting, Trying
    <2> QED
      BY <2>1 DEF CountInv, EachKindCounted
  <1> QED
    BY <1>1, InitTyped, NextTyped, InitCounts, NextCounts, PTL DEF Spec

-----------------------------------------------------------------------------
(* A sole producer. *)

SoleProducer == \A p, q \in Producers : p = q

\* The ring is in the order of making, and older than what is being delivered.
Ordered ==
    /\ \A i, j \in 1 .. Len(queue) : i < j => queue[i] < queue[j]
    /\ \A i \in 1 .. Len(queue) : queue[i] <= made
    /\ \A p \in Producers : Busy(p) => \A i \in 1 .. Len(queue) : queue[i] < frame[p]

\* Nobody takes the slot that a sole producer made, so a pass loses one
\* measurement: the oldest, or its own under the other policy.
SoleInv ==
    /\ Ordered
    /\ \A p \in Producers : ppc[p] = "retry" => ~Full
    /\ Cardinality(Dropped) + Waiting <= queueFull

LEMMA DroppedFinite ==
    ASSUME TypeOK
    PROVE  IsFiniteSet(Dropped) /\ Cardinality(Dropped) \in Nat /\ Waiting \in Nat
  <1>1. IsFiniteSet(Dropped)
    BY FiniteParts, FS_Union DEF Dropped
  <1> QED
    BY <1>1, FiniteParts, FS_CardinalityType DEF Waiting

\* A measurement put into the ring is the newest.
LEMMA AppendOrdered ==
    ASSUME Typed, Ordered, SoleProducer, NEW p \in Producers, Busy(p),
           queue' = Append(queue, frame[p]), ppc'[p] = "wake",
           UNCHANGED <<frame, made>>
    PROVE  Ordered'
  <1> USE DEF Typed, TypeOK
  <1>1. frame[p] \in 1 .. made
    BY DEF Busy
  <1>2. /\ Len(queue) \in Nat /\ Len(queue') = Len(queue) + 1
        /\ \A i \in 1 .. Len(queue) : queue'[i] = queue[i] /\ queue[i] \in Frames
        /\ queue'[Len(queue) + 1] = frame[p]
    BY <1>1, AppendProperties, LenProperties, ElementOfSeq DEF Frames
  <1>3. \A i \in 1 .. Len(queue) : queue[i] < frame[p] /\ queue[i] <= made
    BY DEF Ordered
  <1>4. \A i, j \in 1 .. Len(queue') : i < j => queue'[i] < queue'[j]
    <2> TAKE i, j \in 1 .. Len(queue')
    <2> HAVE i < j
    <2>1. i \in 1 .. Len(queue) /\ (j \in 1 .. Len(queue) \/ j = Len(queue) + 1)
      <3>1. PICK n \in Nat : n = Len(queue)
        BY <1>2
      <3>2. i \in Int /\ j \in Int /\ 1 <= i /\ 1 <= j /\ i < j /\ j <= n + 1
        BY <1>2, <3>1
      <3>3. i \in 1 .. n /\ (j \in 1 .. n \/ j = n + 1)
        BY <3>2
      <3> QED
        BY <3>1, <3>3
    <2> QED
      BY <1>2, <1>3, <2>1 DEF Ordered
  <1>5. \A i \in 1 .. Len(queue') : queue'[i] <= made'
    <2> TAKE i \in 1 .. Len(queue')
    <2>1. i \in 1 .. Len(queue) \/ i = Len(queue) + 1
      BY <1>2
    <2> QED
      BY <1>1, <1>2, <1>3, <2>1
  <1>6. \A q \in Producers : ~Busy(q)'
    BY DEF SoleProducer, Busy
  <1> QED
    BY <1>4, <1>5, <1>6 DEF Ordered

\* The ring without its oldest element.
LEMMA TailOrdered ==
    ASSUME Typed, Ordered, queue # <<>>, queue' = Tail(queue), UNCHANGED <<frame, made>>,
           \A p \in Producers : Busy(p)' => Busy(p)
    PROVE  Ordered' /\ \A i \in 1 .. Len(queue') : Head(queue) < queue'[i]
  <1> USE DEF Typed, TypeOK
  <1>1. /\ Head(queue) = queue[1]
        /\ Len(queue) \in Nat \ {0}
        /\ Len(queue') = Len(queue) - 1
        /\ \A i \in 1 .. Len(queue') : queue'[i] = queue[i + 1]
    BY EmptySeq, LenProperties, HeadTailProperties
  <1>2. \A i \in 1 .. Len(queue') : i + 1 \in 1 .. Len(queue)
    BY <1>1
  <1>3. \A i \in 1 .. Len(queue') : Head(queue) < queue'[i]
    BY <1>1, <1>2 DEF Ordered
  <1>4. \A i, j \in 1 .. Len(queue') : i < j => queue'[i] < queue'[j]
    BY <1>1, <1>2 DEF Ordered
  <1>5. /\ \A i \in 1 .. Len(queue') : queue'[i] <= made'
        /\ \A p \in Producers : Busy(p)' => \A i \in 1 .. Len(queue') : queue'[i] < frame'[p]
    BY <1>1, <1>2 DEF Ordered
  <1> QED
    BY <1>3, <1>4, <1>5 DEF Ordered

\* Steps that leave the ring alone.
LEMMA SameOrdered ==
    ASSUME Ordered, UNCHANGED <<queue, frame, made>>,
           \A p \in Producers : Busy(p)' => Busy(p)
    PROVE  Ordered'
  BY DEF Ordered, Busy

LEMMA InitSole == Init => SoleInv
  <1> SUFFICES ASSUME Init PROVE SoleInv
    OBVIOUS
  <1>1. Pending({"full", "evict"}) = {} /\ Dropped = {} /\ queueFull = 0
    BY DEF Init, Pending, Dropped
  <1>2. Waiting = 0 /\ Cardinality(Dropped) = 0
    BY <1>1, FS_EmptySet DEF Waiting
  <1>3. Ordered /\ \A p \in Producers : ppc[p] = "idle"
    BY EmptySeq DEF Init, Ordered, Busy
  <1> QED
    BY <1>1, <1>2, <1>3 DEF SoleInv

\* Steps of others, of which a sole producer has none, or that drop nothing.
LEMMA SameSole ==
    ASSUME TypeOK, SoleInv, Ordered', UNCHANGED <<evicted, refused, queueFull, ppc>>,
           Len(queue') \in Nat, Len(queue') <= Len(queue)
    PROVE  SoleInv'
  <1>1. Dropped' = Dropped /\ Waiting' = Waiting
    BY DEF Dropped, Waiting, Pending
  <1>2. Len(queue) \in Nat
    BY LenProperties DEF TypeOK
  <1>3. ~Full => ~Full'
    BY <1>2 DEF Full
  <1> QED
    BY <1>1, <1>3 DEF SoleInv

LEMMA NextSole == SoleProducer /\ Typed /\ SoleInv /\ [Next]_vars => SoleInv'
  <1> SUFFICES ASSUME SoleProducer, Typed, SoleInv, [Next]_vars PROVE SoleInv'
    OBVIOUS
  <1>0. /\ TypeOK /\ TypeOK' /\ Ordered
        /\ Cardinality(Dropped) \in Nat /\ Waiting \in Nat /\ queueFull \in Nat
        /\ Waiting' \in Nat /\ Cardinality(Dropped') \in Nat
        /\ Cardinality(Dropped) + Waiting <= queueFull
        /\ Len(queue) \in Nat /\ Len(queue') \in Nat /\ IsFiniteSet(Dropped)
    <2>1. TypeOK /\ TypeOK'
      BY NextTyped DEF Typed
    <2>2. Waiting' \in Nat /\ Cardinality(Dropped') \in Nat
      <3>1. IsFiniteSet(Frames)
        BY FS_Interval DEF Frames
      <3>2. Dropped' \subseteq Frames /\ Pending({"full", "evict"})' \subseteq Producers
        BY <2>1 DEF Dropped, TypeOK, Pending
      <3> QED
        BY <3>1, <3>2, ProducersAssumption, FS_Subset, FS_CardinalityType DEF Waiting
    <2> QED
      BY <2>1, <2>2, DroppedFinite, LenProperties DEF SoleInv, TypeOK
  <1>1. ASSUME NEW p \in Producers, Deliver(p) PROVE SoleInv'
    <2>1. /\ ppc' = [ppc EXCEPT ![p] = ppc'[p]] /\ ppc'[p] = "enqueue" /\ ppc[p] = "idle"
          /\ made' = made + 1 /\ frame'[p] = made + 1
      BY <1>0, <1>1 DEF Deliver, Goto, TypeOK
    <2>2. UNCHANGED <<queue, evicted, refused, queueFull>>
      BY <1>1 DEF Deliver, ring
    <2>3. Waiting' = Waiting /\ Dropped' = Dropped
      BY <1>0, <2>1, <2>2, CountsStep DEF Dropped
    <2>4. \A q \in Producers : q = p
      BY DEF SoleProducer
    <2>5. made \in Nat /\ \A i \in 1 .. Len(queue) : queue[i] \in Nat
      <3>1. \A i \in 1 .. Len(queue) : queue[i] \in Frames
        BY <1>0, ElementOfSeq DEF TypeOK
      <3>2. made \in Nat /\ Frames \subseteq Nat
        BY <1>0 DEF TypeOK, Frames
      <3> QED
        BY <3>1, <3>2
    <2>6. Ordered'
      BY <1>0, <2>1, <2>2, <2>4, <2>5 DEF Ordered
    <2> QED
      BY <1>0, <2>1, <2>2, <2>3, <2>4, <2>6 DEF SoleInv
  <1>2. ASSUME NEW p \in Producers, Enqueue(p) PROVE SoleInv'
    <2>1. ppc[p] = "enqueue" /\ UNCHANGED <<evicted, refused, frame, made>>
      BY <1>2 DEF Enqueue
    <2>2. Dropped' = Dropped /\ \A q \in Producers : q = p
      BY <2>1 DEF Dropped, SoleProducer
    <2>3. CASE ~Full
      <3>1. /\ ppc' = [ppc EXCEPT ![p] = ppc'[p]] /\ ppc'[p] = "wake"
            /\ queue' = Append(queue, frame[p]) /\ UNCHANGED queueFull
        BY <1>0, <1>2, <2>3 DEF Enqueue, Goto, TypeOK
      <3>2. Waiting' = Waiting
        BY <1>0, <2>1, <3>1, CountsStep
      <3>3. Ordered'
        BY <1>0, <2>1, <3>1, AppendOrdered DEF Busy
      <3> QED
        BY <1>0, <2>2, <3>1, <3>2, <3>3 DEF SoleInv
    <2>4. CASE Full
      <3>1. /\ ppc' = [ppc EXCEPT ![p] = ppc'[p]] /\ ppc'[p] = "full"
            /\ queueFull' = queueFull + 1 /\ UNCHANGED queue
        BY <1>0, <1>2, <2>4 DEF Enqueue, Goto, TypeOK
      <3>2. Waiting' = Waiting + 1
        BY <1>0, <2>1, <3>1, CountsStep
      <3>3. Ordered'
        BY <1>0, <2>1, <2>2, <3>1, SameOrdered DEF Busy
      <3> QED
        BY <1>0, <2>2, <3>1, <3>2, <3>3 DEF SoleInv
    <2> QED
      BY <2>3, <2>4
  <1>3. ASSUME NEW p \in Producers, Overflow(p) PROVE SoleInv'
    <2>1. ppc[p] = "full" /\ UNCHANGED <<queue, evicted, queueFull, frame, made>>
      BY <1>3 DEF Overflow, ring
    <2>2. \A q \in Producers : q = p
      BY DEF SoleProducer
    <2>3. Ordered'
      BY <1>0, <2>1, <2>2, SameOrdered DEF Busy
    <2>4. CASE dropOldest
      <3>1. /\ ppc' = [ppc EXCEPT ![p] = ppc'[p]] /\ ppc'[p] = "evict" /\ UNCHANGED refused
        BY <1>0, <1>3, <2>4 DEF Overflow, Goto, TypeOK
      <3>2. Waiting' = Waiting /\ Dropped' = Dropped
        BY <1>0, <2>1, <3>1, CountsStep DEF Dropped
      <3> QED
        BY <1>0, <2>1, <2>2, <2>3, <3>1, <3>2 DEF SoleInv
    <2>5. CASE ~dropOldest
      <3>1. /\ ppc' = [ppc EXCEPT ![p] = ppc'[p]] /\ ppc'[p] = "idle"
            /\ refused' = refused \cup {frame[p]}
        BY <1>0, <1>3, <2>5 DEF Overflow, Goto, TypeOK
      <3>2. Waiting' = Waiting - 1 /\ Dropped' = Dropped \cup {frame[p]}
        BY <1>0, <2>1, <3>1, CountsStep DEF Dropped
      <3>3. Cardinality(Dropped') <= Cardinality(Dropped) + 1
        BY <1>0, <3>2, OneMore
      <3> QED
        BY <1>0, <2>1, <2>2, <2>3, <3>1, <3>2, <3>3 DEF SoleInv
    <2> QED
      BY <2>4, <2>5
  <1>4. ASSUME NEW p \in Producers, Evict(p) PROVE SoleInv'
    <2>1. /\ ppc' = [ppc EXCEPT ![p] = ppc'[p]] /\ ppc'[p] = "retry" /\ ppc[p] = "evict"
          /\ UNCHANGED <<refused, queueFull, frame, made>>
      BY <1>0, <1>4 DEF Evict, Goto, TypeOK
    <2>2. Waiting' = Waiting - 1 /\ \A q \in Producers : q = p
      BY <1>0, <2>1, CountsStep DEF SoleProducer
    <2>3. CASE queue = <<>>
      <3>1. UNCHANGED <<queue, evicted>> /\ Len(queue) = 0
        BY <1>4, <2>3, EmptySeq DEF Evict, ring
      <3>2. Ordered' /\ ~Full' /\ Dropped' = Dropped
        BY <1>0, <2>1, <2>2, <3>1, SameOrdered DEF Busy, Full, Dropped
      <3> QED
        BY <1>0, <2>1, <2>2, <3>2 DEF SoleInv
    <2>4. CASE queue # <<>>
      <3>1. queue' = Tail(queue) /\ evicted' = evicted \cup {Head(queue)}
        BY <1>4, <2>4 DEF Evict
      <3>2. Len(queue') = Len(queue) - 1 /\ Len(queue) <= Capacity
        BY <1>0, <2>4, <3>1, HeadTailProperties DEF TypeOK
      <3>3. ~Full'
        BY <1>0, <3>2 DEF Full
      <3>4. Ordered'
        BY <1>0, <2>1, <2>2, <2>4, <3>1, TailOrdered DEF Busy
      <3>5. Dropped' = Dropped \cup {Head(queue)}
        BY <2>1, <3>1 DEF Dropped
      <3>6. Cardinality(Dropped') <= Cardinality(Dropped) + 1
        BY <1>0, <3>5, OneMore
      <3> QED
        BY <1>0, <2>1, <2>2, <3>3, <3>4, <3>6 DEF SoleInv
    <2> QED
      BY <2>3, <2>4
  <1>5. ASSUME NEW p \in Producers, Retry(p) PROVE SoleInv'
    <2>1. ppc[p] = "retry" /\ ~Full
      BY <1>5 DEF Retry, SoleInv
    <2>2. /\ ppc' = [ppc EXCEPT ![p] = ppc'[p]] /\ ppc'[p] = "wake"
          /\ queue' = Append(queue, frame[p])
          /\ UNCHANGED <<evicted, refused, queueFull, frame, made>>
      BY <1>0, <1>5, <2>1 DEF Retry, Goto, TypeOK
    <2>3. /\ Waiting' = Waiting /\ Dropped' = Dropped
          /\ \A q \in Producers : q = p
      BY <1>0, <2>1, <2>2, CountsStep DEF Dropped, SoleProducer
    <2>4. Ordered'
      BY <1>0, <2>1, <2>2, AppendOrdered DEF Busy
    <2> QED
      BY <1>0, <2>2, <2>3, <2>4 DEF SoleInv
  <1>6. ASSUME NEW p \in Producers, Wake(p) PROVE SoleInv'
    <2>1. /\ ppc' = [ppc EXCEPT ![p] = ppc'[p]] /\ ppc'[p] = "idle" /\ ppc[p] = "wake"
          /\ UNCHANGED <<queue, evicted, refused, queueFull, frame, made>>
      BY <1>0, <1>6 DEF Wake, Goto, TypeOK, ring
    <2>2. /\ Waiting' = Waiting /\ Dropped' = Dropped
          /\ \A q \in Producers : q = p
      BY <1>0, <2>1, CountsStep DEF Dropped, SoleProducer
    <2>3. Ordered'
      BY <1>0, <2>1, <2>2, SameOrdered DEF Busy
    <2> QED
      BY <1>0, <2>1, <2>2, <2>3 DEF SoleInv
  <1>7. CASE FirstDequeue \/ SecondDequeue
    <2>1. UNCHANGED <<evicted, refused, queueFull, ppc, frame, made>>
      BY <1>7 DEF FirstDequeue, SecondDequeue, Dequeue, producers
    <2>2. CASE UNCHANGED queue
      BY <1>0, <2>1, <2>2, SameOrdered, SameSole DEF Busy
    <2>3. CASE queue # <<>> /\ queue' = Tail(queue)
      <3>1. Ordered' /\ Len(queue') <= Len(queue)
        BY <1>0, <2>1, <2>3, TailOrdered, HeadTailProperties DEF Busy, TypeOK
      <3> QED
        BY <1>0, <2>1, <3>1, SameSole
    <2> QED
      BY <1>7, <2>2, <2>3 DEF FirstDequeue, SecondDequeue, Dequeue
  <1>8. CASE UNCHANGED <<queue, evicted, refused, queueFull, ppc, frame, made>>
    BY <1>0, <1>8, SameOrdered, SameSole DEF Busy
  <1>9. CASE RegisterWaker \/ Poll \/ Await \/ Cancel \/ SetCsiQueueOverflow \/ UNCHANGED vars
    BY <1>8, <1>9 DEF RegisterWaker, Poll, Await, Cancel, SetCsiQueueOverflow, vars,
                      ring, producers
  <1> QED
    BY <1>1, <1>2, <1>3, <1>4, <1>5, <1>6, <1>7, <1>9 DEF Next, Finish, Consume

\* With one producer each lost measurement has a count of its own (the comment
\* of CSI_QUEUE, "either way the drop is counted as queue_full").
THEOREM SoleProducerCountsDrops ==
    ASSUME SoleProducer
    PROVE  Spec => []DropsAreCounted
  <1>1. Typed /\ SoleInv => DropsAreCounted
    <2> SUFFICES ASSUME Typed, SoleInv PROVE DropsAreCounted
      OBVIOUS
    <2>1. Cardinality(Dropped) \in Nat /\ Waiting \in Nat /\ queueFull \in Nat
      BY DroppedFinite DEF Typed, TypeOK
    <2> QED
      BY <2>1 DEF SoleInv, DropsAreCounted, Dropped
  <1>2. Typed /\ SoleInv /\ [Next]_vars => SoleInv'
    BY NextSole
  <1> QED
    BY <1>1, <1>2, InitTyped, NextTyped, InitSole, PTL DEF Spec

\* With one producer what DropOldest drops is older than all the ring keeps.
THEOREM SoleProducerKeepsNewest ==
    ASSUME SoleProducer
    PROVE  Spec => DropOldestKeepsNewest
  <1> DEFINE Step == \A p \in Producers : ppc[p] \in {"evict", "retry"} =>
                        \A f \in (evicted' \cup refused') \ (evicted \cup refused) :
                           \A i \in 1 .. Len(queue') : f < queue'[i]
  <1>1. Typed /\ SoleInv /\ [Next]_vars => [Step]_vars
    <2> SUFFICES ASSUME Typed, SoleInv, Next, NEW p \in Producers,
                        ppc[p] \in {"evict", "retry"},
                        NEW f \in (evicted' \cup refused') \ (evicted \cup refused),
                        NEW i \in 1 .. Len(queue')
                 PROVE  f < queue'[i]
      OBVIOUS
    <2>0. \A q \in Producers : q = p
      BY DEF SoleProducer
    <2>1. Evict(p) \/ Retry(p)
      BY <2>0 DEF Next, Finish, Consume, Deliver, Enqueue, Overflow, Wake, FirstDequeue,
                 SecondDequeue, Dequeue, RegisterWaker, Poll, Await, Cancel,
                 SetCsiQueueOverflow, ring, producers
    <2>2. CASE Evict(p)
      <3>1. queue # <<>> /\ queue' = Tail(queue) /\ f = Head(queue)
        BY <2>2 DEF Evict, ring
      <3>2. UNCHANGED <<frame, made>> /\ \A q \in Producers : Busy(q)' => Busy(q)
        BY <2>0, <2>2 DEF Evict, Busy
      <3> QED
        BY <3>1, <3>2, TailOrdered DEF SoleInv
    <2>3. CASE Retry(p)
      BY <2>3 DEF Retry, SoleInv
    <2> QED
      BY <2>1, <2>2, <2>3
  <1>2. Typed /\ SoleInv /\ [Next]_vars => SoleInv'
    BY NextSole
  <1> QED
    BY <1>1, <1>2, InitTyped, NextTyped, InitSole, PTL DEF Spec, DropOldestKeepsNewest

=============================================================================
