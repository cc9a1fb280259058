-------------------------- MODULE CsiSession_proofs --------------------------
(***************************************************************************)
(* Proofs about the session context: CsiSession (identity, stream numbers   *)
(* and announcement) and ReceiveClock (the widening of receive times), for  *)
(* every size of CSI_QUEUE, every number of runs, frames and calls, every   *)
(* width of the raw counter and every bound on the wraps.                   *)
(***************************************************************************)
EXTENDS ReceiveClock, CsiSession, Integers, SequenceTheorems, TLAPS

-----------------------------------------------------------------------------
(* The session: types. *)

SessionTypes ==
    /\ now \in Nat /\ sessionId \in Nat /\ epochUnix \in Nat /\ epochAt \in Nat
    /\ streamSeq \in Nat /\ run \in Nat /\ calls \in Nat /\ captured \in Nat
    /\ lost \subseteq Nat \X Nat
    /\ dropOldest \in BOOLEAN /\ pinned \in BOOLEAN /\ epochSet \in BOOLEAN
    /\ pending \in BOOLEAN /\ intent \in BOOLEAN /\ reports \in BOOLEAN
    /\ armed \in BOOLEAN /\ inRun \in BOOLEAN /\ disturbed \in BOOLEAN
    /\ muddled \in BOOLEAN /\ anchorWrong \in BOOLEAN /\ misnumbered \in BOOLEAN
    /\ taskPc \in {"idle", "pin", "epoch_none", "epoch_unix", "epoch_at", "epoch_set",
                   "session_id", "stream_seq", "pending"}
    /\ capPc \in {"idle", "announce", "epoch", "now", "at", "unix", "envelope", "deliver",
                  "overflow", "evict", "retry"}
    /\ call \in [session : Nat, epoch : Nat, replaces : BOOLEAN]
    /\ packet \in Packets /\ ring \in Seq(Packets) /\ Len(ring) <= Depth
    /\ heard \subseteq Nat /\ tally \in [run : Nat, next : Nat]
    /\ epochAt <= now

LEMMA SessionTypesMeanOK == SessionTypes => SessionTypeOK
  BY DEF SessionTypes, SessionTypeOK

LEMMA SessionInitTypes == SessionInit => SessionTypes
  <1> SUFFICES ASSUME SessionInit PROVE SessionTypes
    OBVIOUS
  <1>1. ring \in Seq(Packets) /\ Len(ring) <= Depth
    BY DepthAssumption DEF SessionInit
  <1>2. packet \in Packets
    BY DEF SessionInit, Packets, NoPacket, NoEpoch, Producers
  <1>3. tally \in [run : Nat, next : Nat] /\ heard \subseteq Nat
    BY DEF SessionInit
  <1>4. call \in [session : Nat, epoch : Nat, replaces : BOOLEAN]
    BY DEF SessionInit, NoEpoch
  <1>5. /\ pinned \in BOOLEAN /\ epochSet \in BOOLEAN /\ pending \in BOOLEAN
        /\ intent \in BOOLEAN /\ reports \in BOOLEAN /\ armed \in BOOLEAN /\ inRun \in BOOLEAN
        /\ disturbed \in BOOLEAN /\ muddled \in BOOLEAN /\ anchorWrong \in BOOLEAN
        /\ misnumbered \in BOOLEAN /\ dropOldest \in BOOLEAN
    BY Zenon DEF SessionInit
  <1>6. lost \subseteq Nat \X Nat
    BY DEF SessionInit
  <1> QED BY <1>1, <1>2, <1>3, <1>4, <1>5, <1>6 DEF SessionInit, SessionTypes

LEMMA SessionTypesStep == SessionTypes /\ [SessionNext]_sessionVars => SessionTypes'
  <1> SUFFICES ASSUME SessionTypes, [SessionNext]_sessionVars PROVE SessionTypes'
    OBVIOUS
  <1> USE DEF SessionTypes
  <1>1. CASE PassTime
    BY <1>1 DEF PassTime, idVars, epochVars, gateVars, queueVars, capVars, hostVars
  <1>2. ASSUME NEW b \in BOOLEAN, CallSetSession(b) PROVE SessionTypes'
    <2>1. call' \in [session : Nat, epoch : Nat, replaces : BOOLEAN]
      BY <1>2, MaxRunsAssumption, WallOffsetAssumption DEF CallSetSession, NoEpoch
    <2>2. sessionId' \in Nat
      BY <1>2, <2>1 DEF CallSetSession
    <2> QED BY <1>2, <2>1, <2>2
            DEF CallSetSession, taskFrame, epochVars, gateVars, queueVars, hostVars
  <1>3. CASE StorePinned
    BY <1>3 DEF StorePinned, taskFrame, epochVars, gateVars, queueVars, hostVars
  <1>4. CASE StoreNoEpoch
    <2>1. epochSet' \in BOOLEAN
      BY <1>4, Zenon DEF StoreNoEpoch
    <2> QED BY <1>4, <2>1 DEF StoreNoEpoch, taskFrame, idVars, gateVars, queueVars, hostVars
  <1>5. CASE StoreUnix
    <2>1. disturbed' \in BOOLEAN
      BY <1>5, Zenon DEF StoreUnix
    <2> QED BY <1>5, <2>1 DEF StoreUnix, taskFrame, idVars, gateVars, queueVars, hostVars
  <1>6. CASE StoreAt
    <2>1. disturbed' \in BOOLEAN
      BY <1>6, Zenon DEF StoreAt
    <2> QED BY <1>6, <2>1 DEF StoreAt, taskFrame, idVars, gateVars, queueVars, hostVars
  <1>7. CASE StoreEpochSet
    BY <1>7 DEF StoreEpochSet, taskFrame, idVars, gateVars, queueVars, hostVars
  <1>8. CASE StartRun
    BY <1>8 DEF StartRun, runFrame, idVars, epochVars, queueVars, capVars, hostVars
  <1>9. CASE StoreSessionId
    <2>1. muddled' \in BOOLEAN
      BY <1>9, Zenon DEF StoreSessionId
    <2> QED BY <1>9, <2>1
            DEF StoreSessionId, runFrame, gateVars, epochVars, queueVars, capVars, hostVars
  <1>10. CASE StoreStreamSeq
    <2>1. muddled' \in BOOLEAN
      BY <1>10, Zenon DEF StoreStreamSeq
    <2> QED BY <1>10, <2>1
            DEF StoreStreamSeq, runFrame, idVars, gateVars, epochVars, queueVars, capVars, hostVars
  <1>11. CASE StorePending
    <2>1. muddled' \in BOOLEAN
      BY <1>11, Zenon DEF StorePending
    <2> QED BY <1>11, <2>1
            DEF StorePending, runFrame, idVars, epochVars, queueVars, capVars, hostVars
  <1>12. CASE EndRun
    <2>1. intent' \in BOOLEAN /\ inRun' \in BOOLEAN
      BY <1>12, Zenon DEF EndRun
    <2> QED BY <1>12, <2>1 DEF EndRun, runFrame, idVars, epochVars, queueVars, capVars, hostVars
  <1>13. ASSUME NEW producer \in Producers, Build(producer) PROVE SessionTypes'
    <2>1. muddled' \in BOOLEAN /\ disturbed' \in BOOLEAN
      BY <1>13, Zenon DEF Build
    <2>2. packet' \in Packets
      BY <1>13 DEF Build, NoPacket, NoEpoch, Packets
    <2>3. /\ UNCHANGED <<now, idVars, epochVars, taskPc, call, gateVars, dropOldest, run, calls,
                       hostVars, streamSeq, pending, ring, lost, anchorWrong>>
          /\ captured' \in Nat /\ capPc' = "announce"
      BY <1>13 DEF Build, capFrame
    <2> QED BY <2>1, <2>2, <2>3 DEF idVars, epochVars, gateVars, hostVars
  <1>14. CASE Capture \/ Emit
    BY <1>13, <1>14 DEF Capture, Emit, Producers
  <1>15. CASE TakeAnnouncement
    <2>1. packet' \in Packets
      BY <1>15 DEF TakeAnnouncement, Packets
    <2>2. pending' \in BOOLEAN
      BY <1>15, Zenon DEF TakeAnnouncement
    <2> QED BY <1>15, <2>1, <2>2
            DEF TakeAnnouncement, buildFrame, capFrame, idVars, epochVars, gateVars, hostVars
  <1>16. CASE LoadEpochSet
    <2>1. disturbed' \in BOOLEAN
      BY <1>16 DEF LoadEpochSet
    <2> QED BY <1>16, <2>1
            DEF LoadEpochSet, buildFrame, capFrame, idVars, epochVars, gateVars, hostVars
  <1>17. CASE ReadNow
    <2>1. packet' \in Packets
      BY <1>17 DEF ReadNow, Packets
    <2> QED BY <1>17, <2>1
            DEF ReadNow, buildFrame, capFrame, idVars, epochVars, gateVars, hostVars
  <1>18. CASE LoadAt
    <2>0. packet.epoch \in Nat
      BY DEF Packets
    <2>1. (IF epochAt < packet.epoch THEN packet.epoch - epochAt ELSE 0) \in Nat
      BY <2>0
    <2>2. packet' \in Packets
      BY <1>18, <2>1 DEF LoadAt, Packets
    <2> QED BY <1>18, <2>2
            DEF LoadAt, buildFrame, capFrame, idVars, epochVars, gateVars, hostVars
  <1>19. CASE LoadUnix
    <2>1. packet' \in Packets
      <3>1. epochUnix + packet.epoch \in Nat
        BY DEF Packets
      <3> QED BY <1>19, <3>1 DEF LoadUnix, Packets
    <2>2. anchorWrong' \in BOOLEAN
      BY <1>19, Zenon DEF LoadUnix
    <2> QED BY <1>19, <2>1, <2>2
            DEF LoadUnix, buildFrame, capFrame, idVars, epochVars, gateVars, hostVars
  <1>20. CASE NextEnvelope
    <2>1. packet' \in Packets
      BY <1>20 DEF NextEnvelope, Packets
    <2>2. /\ UNCHANGED <<now, idVars, epochVars, taskPc, call, gateVars, dropOldest, run, calls,
                       hostVars, pending, ring, lost, muddled, captured, disturbed, anchorWrong>>
          /\ streamSeq' \in Nat /\ capPc' = "deliver"
      BY <1>20 DEF NextEnvelope, capFrame
    <2> QED BY <2>1, <2>2 DEF idVars, epochVars, gateVars, hostVars
  <1>21. Place(packet) \in Nat \X Nat
    BY DEF Place, Packets
  <1>22. CASE Enqueue \/ Overflow \/ Evict \/ Retry
    <2>0. /\ ring \in Seq(Packets) /\ packet \in Packets /\ Depth \in Nat /\ lost \subseteq Nat \X Nat
          /\ Len(ring) \in Nat /\ Len(ring) <= Depth
      BY DepthAssumption, LenProperties
    <2>1. /\ UNCHANGED <<now, idVars, epochVars, taskPc, call, gateVars, dropOldest, run, calls,
                       hostVars, streamSeq, pending, muddled, packet, captured,
                       disturbed, anchorWrong>>
          /\ capPc' \in {"idle", "overflow", "evict", "retry"}
      BY <1>22 DEF Enqueue, Overflow, Evict, Retry, deliverFrame, capFrame
    <2>2. ring' \in Seq(Packets) /\ Len(ring') <= Depth /\ lost' \subseteq Nat \X Nat
      <3>1. CASE ring' = ring /\ lost' \in {lost, lost \cup {Place(packet)}}
        BY <1>21, <2>0, <3>1
      <3>2. CASE Len(ring) < Depth /\ ring' = Append(ring, packet) /\ lost' = lost
        BY <2>0, <3>2, AppendProperties
      <3>3. CASE ring # <<>> /\ ring' = Tail(ring) /\ lost' = lost \cup {Place(Head(ring))}
        <4>1. Head(ring) \in Packets /\ ring' \in Seq(Packets) /\ Len(ring') <= Depth
          BY <2>0, <3>3, HeadTailProperties
        <4>2. Place(Head(ring)) \in Nat \X Nat
          BY <4>1 DEF Place, Packets
        <4> QED BY <2>0, <3>3, <4>1, <4>2
      <3> QED BY <1>22, <3>1, <3>2, <3>3 DEF Enqueue, Overflow, Evict, Retry
    <2> QED BY <2>1, <2>2 DEF idVars, epochVars, gateVars, hostVars
  <1>23. CASE Install \/ SetOverflow
    <2>1. intent' \in BOOLEAN /\ dropOldest' \in BOOLEAN
      BY <1>23, Zenon DEF Install, SetOverflow, queueVars
    <2>2. /\ UNCHANGED <<ring, lost, hostVars, now, idVars, epochVars, streamSeq, pending, taskPc,
                       call, reports, armed, inRun, capVars, run, calls, muddled>>
      BY <1>23 DEF Install, SetOverflow, hostFrame, queueVars
    <2> QED BY <2>1, <2>2 DEF idVars, epochVars, capVars, hostVars
  <1>24. CASE Receive
    <2>0. /\ ring \in Seq(Packets) /\ ring # <<>> /\ Depth \in Nat /\ Len(ring) \in Nat
          /\ Len(ring) <= Depth /\ heard \subseteq Nat
      BY <1>24, DepthAssumption, LenProperties DEF Receive
    <2>1. Head(ring) \in Packets /\ Tail(ring) \in Seq(Packets) /\ Len(Tail(ring)) <= Depth
      BY <2>0, HeadTailProperties
    <2>2. /\ Head(ring).run \in Nat /\ Head(ring).seq \in Nat
      BY <2>1 DEF Packets
    <2>3. heard' \subseteq Nat /\ tally' \in [run : Nat, next : Nat]
      <3>1. /\ heard' \in {heard, heard \cup {Head(ring).run}}
            /\ tally' = [run |-> Head(ring).run, next |-> Head(ring).seq + 1]
        BY <1>24 DEF Receive
      <3> QED BY <2>0, <2>2, <3>1
    <2>4. misnumbered' \in BOOLEAN
      BY <1>24, Zenon DEF Receive
    <2>5. /\ UNCHANGED <<now, idVars, epochVars, streamSeq, pending, taskPc, call, reports, armed,
                       inRun, capVars, run, calls, muddled, intent, dropOldest, lost>>
          /\ ring' = Tail(ring)
      BY <1>24 DEF Receive, hostFrame
    <2> QED BY <2>1, <2>3, <2>4, <2>5 DEF idVars, epochVars, capVars
  <1>25. CASE UNCHANGED sessionVars
    BY <1>25 DEF sessionVars, idVars, epochVars, gateVars, queueVars, capVars, hostVars
  <1> QED BY <1>1, <1>2, <1>3, <1>4, <1>5, <1>6, <1>7, <1>8, <1>9, <1>10, <1>11, <1>12, <1>14,
             <1>15, <1>16, <1>17, <1>18, <1>19, <1>20, <1>22, <1>23, <1>24, <1>25 DEF SessionNext

-----------------------------------------------------------------------------
(* The anchor of a run in wall-clock time. *)

AnchorInv ==
    /\ taskPc = "epoch_unix" => call.epoch # NoEpoch
    /\ taskPc \in {"pin", "epoch_unix"} /\ call.epoch # NoEpoch => call.epoch = WallOffset + now
    /\ taskPc = "epoch_at" => epochUnix = WallOffset + now
    /\ taskPc = "epoch_set" => epochUnix = WallOffset + epochAt
    /\ epochSet /\ taskPc # "epoch_at" => epochUnix = WallOffset + epochAt
    /\ epochSet /\ taskPc \in {"pin", "epoch_none", "epoch_unix", "epoch_at", "epoch_set"}
          => call.replaces
    /\ Reading /\ ~disturbed => epochUnix = WallOffset + epochAt
    /\ capPc = "at" => packet.epoch = now
    /\ capPc = "unix" /\ ~disturbed => packet.epoch = now - epochAt
    /\ ~anchorWrong

LEMMA AnchorInit == SessionInit => AnchorInv
  BY DEF SessionInit, AnchorInv, Reading

LEMMA AnchorStep == SessionTypes /\ AnchorInv /\ [SessionNext]_sessionVars => AnchorInv'
  <1> SUFFICES ASSUME SessionTypes, AnchorInv, [SessionNext]_sessionVars PROVE AnchorInv'
    OBVIOUS
  <1>0. /\ now \in Nat /\ epochAt \in Nat /\ epochAt <= now /\ epochUnix \in Nat /\ WallOffset \in Nat
        /\ call \in [session : Nat, epoch : Nat, replaces : BOOLEAN] /\ packet \in Packets
        /\ epochSet \in BOOLEAN /\ disturbed \in BOOLEAN /\ anchorWrong \in BOOLEAN
    BY WallOffsetAssumption DEF SessionTypes
  <1> USE DEF AnchorInv, Reading
  <1>1. CASE PassTime
    BY <1>0, <1>1 DEF PassTime, epochVars, capVars
  <1>2. ASSUME NEW b \in BOOLEAN, CallSetSession(b) PROVE AnchorInv'
    <2>1. /\ call'.epoch = IF b THEN WallOffset + now ELSE NoEpoch
          /\ call'.replaces = epochSet
      BY <1>2 DEF CallSetSession
    <2> QED BY <1>0, <1>2, <2>1 DEF CallSetSession, taskFrame, epochVars
  <1>3. CASE StorePinned
    BY <1>0, <1>3 DEF StorePinned, taskFrame, epochVars
  <1>4. CASE StoreNoEpoch
    BY <1>0, <1>4 DEF StoreNoEpoch, taskFrame
  <1>5. CASE StoreUnix
    BY <1>0, <1>5 DEF StoreUnix, taskFrame
  <1>6. CASE StoreAt
    BY <1>0, <1>6 DEF StoreAt, taskFrame
  <1>7. CASE StoreEpochSet
    BY <1>0, <1>7 DEF StoreEpochSet, taskFrame
  <1>8. CASE StartRun \/ StoreSessionId \/ StoreStreamSeq \/ StorePending \/ EndRun
    BY <1>0, <1>8 DEF StartRun, StoreSessionId, StoreStreamSeq, StorePending, EndRun, runFrame,
                      epochVars, capVars
  <1>9. CASE Capture \/ Emit
    BY <1>0, <1>9 DEF Capture, Emit, Build, capFrame, epochVars
  <1>10. CASE TakeAnnouncement
    BY <1>0, <1>10 DEF TakeAnnouncement, buildFrame, capFrame, epochVars
  <1>11. CASE LoadEpochSet
    BY <1>0, <1>11 DEF LoadEpochSet, buildFrame, capFrame, epochVars
  <1>12. CASE ReadNow
    <2>1. packet'.epoch = now
      BY <1>0, <1>12 DEF ReadNow, Packets
    <2> QED BY <1>0, <1>12, <2>1 DEF ReadNow, buildFrame, capFrame, epochVars
  <1>13. CASE LoadAt
    <2>1. packet'.epoch = now - epochAt
      BY <1>0, <1>13 DEF LoadAt, Packets
    <2> QED BY <1>0, <1>13, <2>1 DEF LoadAt, buildFrame, capFrame, epochVars
  <1>14. CASE LoadUnix
    <2>1. ~disturbed => packet'.epoch = WallOffset + now
      BY <1>0, <1>14 DEF LoadUnix, Packets
    <2>2. ~anchorWrong'
      BY <1>14, <2>1, Zenon DEF LoadUnix
    <2> QED BY <1>0, <1>14, <2>2 DEF LoadUnix, buildFrame, capFrame, epochVars
  <1>15. CASE NextEnvelope \/ Enqueue \/ Overflow \/ Evict \/ Retry
    BY <1>0, <1>15 DEF NextEnvelope, Enqueue, Overflow, Evict, Retry, deliverFrame, capFrame,
                       epochVars
  <1>16. CASE Install \/ Receive \/ SetOverflow
    BY <1>0, <1>16 DEF Install, Receive, SetOverflow, hostFrame, epochVars, capVars
  <1>17. CASE UNCHANGED sessionVars
    BY <1>17 DEF sessionVars, epochVars, capVars
  <1> QED BY <1>1, <1>2, <1>3, <1>4, <1>5, <1>6, <1>7, <1>8, <1>9, <1>10, <1>11, <1>12, <1>13,
             <1>14, <1>15, <1>16, <1>17 DEF SessionNext

-----------------------------------------------------------------------------
(* The numbers of the stream. *)

\* A consumer at t has no number of run x from s on behind it.
Due(t, x, s) == t.run < x \/ (t.run = x /\ t.next <= s)

\* Packet p comes before number s of run x.
Precedes(p, x, s) == p.run < x \/ (p.run = x /\ p.seq < s)

\* Number n of run x was received, is lost, or is among the first k packets of r.
SettledNumber(t, r, l, k, x, n) ==
    \/ t.run = x /\ n < t.next
    \/ <<x, n>> \in l
    \/ \E j \in 1 .. k : r[j].run = x /\ r[j].seq = n

\* Number s of run x is the next after the first k packets of r, for a consumer
\* at t, when the packets of l are lost.
Follows(t, r, l, k, x, s) ==
    /\ Due(t, x, s)
    /\ \A j \in 1 .. k : Precedes(r[j], x, s)
    /\ <<x, s>> \notin l
    /\ \A n \in Nat : n < s => SettledNumber(t, r, l, k, x, n)

\* Every packet of r is the next after those before it.
InOrder(t, r, l) == \A i \in 1 .. Len(r) : Follows(t, r, l, i - 1, r[i].run, r[i].seq)

\* Number s of run x is the next to be given.
Given(t, r, l, x, s) ==
    /\ Follows(t, r, l, Len(r), x, s)
    /\ \A n \in Nat : <<x, n>> \in l => n < s

\* Nothing is of a run after x.
Past(t, r, l, x) ==
    /\ t.run <= x
    /\ \A k \in 1 .. Len(r) : r[k].run <= x
    /\ \A m, n \in Nat : <<m, n>> \in l => m <= x

Tallies == [run : Nat, next : Nat]

\* The packet in the making has its number.
HasNumber == capPc \in {"deliver", "overflow", "evict", "retry"}

\* The number that is not settled yet.
Top == IF HasNumber THEN packet.seq ELSE streamSeq

NumberInv ==
    ~muddled =>
        /\ ~misnumbered
        /\ InOrder(tally, ring, lost)
        /\ Past(tally, ring, lost, run)
        /\ taskPc \in {"stream_seq", "pending"} => capPc = "idle"
        /\ taskPc = "pending" => streamSeq = 0
        /\ capPc \notin {"idle", "announce"} => packet.run = run
        /\ HasNumber => streamSeq = packet.seq + 1
        /\ taskPc # "pending" => Given(tally, ring, lost, run, Top)

\* The head of the queue accounts for what is lost since the last one received.
LEMMA HeadAccounts ==
    ASSUME NEW t \in Tallies, NEW r \in Seq(Packets), r # <<>>, InOrder(t, r, lost)
    PROVE  LET p == Head(r)
           IN Accounts(p.run, p.seq, IF t.run = p.run THEN t.next ELSE 0)
  <1> DEFINE p == Head(r)
             due == IF t.run = p.run THEN t.next ELSE 0
  <1>1. Len(r) \in Nat /\ Len(r) > 0 /\ p = r[1] /\ p \in Packets
    BY HeadTailProperties, LenProperties, EmptySeq
  <1>2. p.run \in Nat /\ p.seq \in Nat /\ t.run \in Nat /\ t.next \in Nat
    BY <1>1 DEF Packets, Tallies
  <1>3. Follows(t, r, lost, 0, p.run, p.seq)
    BY <1>1 DEF InOrder
  <1> HIDE DEF p
  <1>4. due \in Nat /\ due <= p.seq
    BY <1>2, <1>3 DEF Follows, Due
  <1>5. ASSUME NEW n \in due .. p.seq PROVE <<p.run, n>> \in lost <=> n < p.seq
    <2>1. n \in Nat /\ n <= p.seq /\ (t.run = p.run => t.next <= n)
      BY <1>2, <1>4
    <2>2. CASE n < p.seq
      BY <1>2, <1>3, <2>1, <2>2 DEF Follows, SettledNumber
    <2>3. CASE n = p.seq
      BY <1>2, <1>3, <2>3 DEF Follows
    <2> QED BY <1>2, <2>1, <2>2, <2>3
  <1> QED BY <1>4, <1>5 DEF Accounts, p

\* What follows still does when the head has been received.
LEMMA HeadReceived ==
    ASSUME NEW t \in Tallies, NEW r \in Seq(Packets), r # <<>>, NEW l,
           NEW k \in 1 .. Len(r), NEW x \in Nat, NEW s \in Nat,
           Follows(t, r, l, 0, Head(r).run, Head(r).seq), Follows(t, r, l, k, x, s)
    PROVE  Follows([run |-> Head(r).run, next |-> Head(r).seq + 1], Tail(r), l, k - 1, x, s)
  <1> DEFINE p == Head(r)
             q == Tail(r)
             c == [run |-> p.run, next |-> p.seq + 1]
  <1>1. /\ Len(r) \in Nat /\ Len(r) > 0 /\ p = r[1] /\ p \in Packets
        /\ \A j \in 1 .. Len(r) - 1 : q[j] = r[j + 1]
    BY HeadTailProperties, LenProperties, EmptySeq
  <1>2. p.run \in Nat /\ p.seq \in Nat /\ t.run \in Nat /\ t.next \in Nat
    BY <1>1 DEF Packets, Tallies
  <1> HIDE DEF p, q
  <1>3. c.run = p.run /\ c.next = p.seq + 1
    OBVIOUS
  <1> HIDE DEF c
  <1>4. Precedes(p, x, s)
    BY <1>1 DEF Follows
  <1>5. Due(c, x, s)
    BY <1>2, <1>3, <1>4 DEF Due, Precedes
  <1>6. ASSUME NEW j \in 1 .. k - 1 PROVE Precedes(q[j], x, s)
    <2>1. j + 1 \in 1 .. k /\ q[j] = r[j + 1]
      BY <1>1
    <2> QED BY <2>1 DEF Follows
  <1>7. ASSUME NEW n \in Nat, n < s PROVE SettledNumber(c, q, l, k - 1, x, n)
    <2>1. CASE t.run = x /\ n < t.next
      BY <1>2, <1>3, <1>4, <2>1 DEF Follows, Due, Precedes, SettledNumber, p
    <2>2. CASE <<x, n>> \in l
      BY <2>2 DEF SettledNumber
    <2>3. ASSUME NEW j \in 1 .. k, r[j].run = x, r[j].seq = n PROVE SettledNumber(c, q, l, k - 1, x, n)
      <3>1. CASE j = 1
        BY <1>1, <1>2, <1>3, <2>3, <3>1 DEF SettledNumber
      <3>2. CASE j # 1
        <4>1. j - 1 \in 1 .. k - 1 /\ q[j - 1] = r[j]
          BY <1>1, <3>2
        <4> QED BY <2>3, <4>1 DEF SettledNumber
      <3> QED BY <3>1, <3>2
    <2>4. SettledNumber(t, r, l, k, x, n)
      BY <1>7 DEF Follows
    <2> QED BY <2>1, <2>2, <2>3, <2>4 DEF SettledNumber
  <1>8. <<x, s>> \notin l
    BY DEF Follows
  <1> QED BY <1>5, <1>6, <1>7, <1>8 DEF Follows, p, q, c

\* And when it has been discarded.
LEMMA HeadDiscarded ==
    ASSUME NEW t \in Tallies, NEW r \in Seq(Packets), r # <<>>, NEW l,
           NEW k \in 1 .. Len(r), NEW x \in Nat, NEW s \in Nat, Follows(t, r, l, k, x, s)
    PROVE  Follows(t, Tail(r), l \cup {Place(Head(r))}, k - 1, x, s)
  <1> DEFINE p == Head(r)
             q == Tail(r)
             m == l \cup {Place(p)}
  <1>1. /\ Len(r) \in Nat /\ Len(r) > 0 /\ p = r[1] /\ p \in Packets
        /\ \A j \in 1 .. Len(r) - 1 : q[j] = r[j + 1]
    BY HeadTailProperties, LenProperties, EmptySeq
  <1>2. p.run \in Nat /\ p.seq \in Nat
    BY <1>1 DEF Packets
  <1> HIDE DEF p, q
  <1>3. \A y, n : <<y, n>> \in m <=> <<y, n>> \in l \/ (y = p.run /\ n = p.seq)
    BY DEF Place
  <1> HIDE DEF m
  <1>4. Precedes(p, x, s)
    BY <1>1 DEF Follows
  <1>5. <<x, s>> \notin m
    BY <1>2, <1>3, <1>4 DEF Follows, Precedes
  <1>6. ASSUME NEW j \in 1 .. k - 1 PROVE Precedes(q[j], x, s)
    <2>1. j + 1 \in 1 .. k /\ q[j] = r[j + 1]
      BY <1>1
    <2> QED BY <2>1 DEF Follows
  <1>7. ASSUME NEW n \in Nat, n < s PROVE SettledNumber(t, q, m, k - 1, x, n)
    <2>1. CASE t.run = x /\ n < t.next
      BY <2>1 DEF SettledNumber
    <2>2. CASE <<x, n>> \in l
      BY <1>3, <2>2 DEF SettledNumber
    <2>3. ASSUME NEW j \in 1 .. k, r[j].run = x, r[j].seq = n PROVE SettledNumber(t, q, m, k - 1, x, n)
      <3>1. CASE j = 1
        BY <1>1, <1>3, <2>3, <3>1 DEF SettledNumber
      <3>2. CASE j # 1
        <4>1. j - 1 \in 1 .. k - 1 /\ q[j - 1] = r[j]
          BY <1>1, <3>2
        <4> QED BY <2>3, <4>1 DEF SettledNumber
      <3> QED BY <3>1, <3>2
    <2>4. SettledNumber(t, r, l, k, x, n)
      BY <1>7 DEF Follows
    <2> QED BY <2>1, <2>2, <2>3, <2>4 DEF SettledNumber
  <1>8. Due(t, x, s)
    BY DEF Follows
  <1> QED BY <1>5, <1>6, <1>7, <1>8 DEF Follows, p, q, m

\* The queue without its head is in order.
LEMMA TailInOrder ==
    ASSUME NEW t \in Tallies, NEW r \in Seq(Packets), r # <<>>, NEW l, InOrder(t, r, l),
           NEW x \in Nat
    PROVE  LET c == [run |-> Head(r).run, next |-> Head(r).seq + 1]
               m == l \cup {Place(Head(r))}
           IN /\ InOrder(c, Tail(r), l) /\ InOrder(t, Tail(r), m)
              /\ \A s \in Nat : Given(t, r, l, x, s)
                    => /\ Given(c, Tail(r), l, x, s)
                       /\ Given(t, Tail(r), m, x, s)
              /\ Past(t, r, l, x) => Past(c, Tail(r), l, x) /\ Past(t, Tail(r), m, x)
  <1> DEFINE p == Head(r)
             q == Tail(r)
             c == [run |-> p.run, next |-> p.seq + 1]
             m == l \cup {Place(p)}
  <1>0. PICK n \in Nat : n = Len(r) /\ n > 0
    BY LenProperties, EmptySeq
  <1>1. /\ q \in Seq(Packets) /\ Len(q) = n - 1 /\ p = r[1] /\ p \in Packets
        /\ \A j \in 1 .. n - 1 : q[j] = r[j + 1]
    BY <1>0, HeadTailProperties
  <1>2. /\ p.run \in Nat /\ p.seq \in Nat
        /\ \A j \in 1 .. n : r[j].run \in Nat /\ r[j].seq \in Nat
    <2>1. \A j \in 1 .. n : r[j] \in Packets
      BY <1>0, ElementOfSeq
    <2> QED BY <1>1, <2>1 DEF Packets
  <1>3. Follows(t, r, l, 0, p.run, p.seq)
    BY <1>0, <1>1 DEF InOrder
  <1>4. ASSUME NEW k \in 1 .. n, NEW y \in Nat, NEW s \in Nat, Follows(t, r, l, k, y, s)
        PROVE  Follows(c, q, l, k - 1, y, s) /\ Follows(t, q, m, k - 1, y, s)
    BY <1>0, <1>3, <1>4, HeadReceived, HeadDiscarded
  <1>5. c.run = p.run /\ \A y, i : <<y, i>> \in m <=> <<y, i>> \in l \/ (y = p.run /\ i = p.seq)
    BY DEF Place
  <1> HIDE DEF p, q, c, m
  <1>6. ASSUME NEW i \in 1 .. Len(q)
        PROVE  /\ Follows(c, q, l, i - 1, q[i].run, q[i].seq)
               /\ Follows(t, q, m, i - 1, q[i].run, q[i].seq)
    <2>1. i \in 1 .. n /\ i + 1 \in 1 .. n /\ (i + 1) - 1 = i /\ q[i] = r[i + 1]
      BY <1>0, <1>1
    <2>2. Follows(t, r, l, i, q[i].run, q[i].seq)
      BY <1>0, <2>1 DEF InOrder
    <2> QED BY <1>2, <1>4, <2>1, <2>2
  <1>7. InOrder(c, q, l) /\ InOrder(t, q, m)
    BY <1>6 DEF InOrder
  <1>8. ASSUME NEW s \in Nat, Given(t, r, l, x, s) PROVE Given(c, q, l, x, s) /\ Given(t, q, m, x, s)
    <2>1. Follows(c, q, l, n - 1, x, s) /\ Follows(t, q, m, n - 1, x, s)
      BY <1>0, <1>4, <1>8 DEF Given
    <2>2. Precedes(p, x, s)
      BY <1>0, <1>1, <1>8 DEF Given, Follows
    <2>3. \A i \in Nat : <<x, i>> \in m => i < s
      BY <1>2, <1>5, <1>8, <2>2 DEF Given, Precedes
    <2> QED BY <1>1, <1>8, <2>1, <2>3 DEF Given
  <1>9. ASSUME Past(t, r, l, x) PROVE Past(c, q, l, x) /\ Past(t, q, m, x)
    <2>1. p.run <= x /\ \A i \in 1 .. Len(q) : q[i].run <= x
      BY <1>0, <1>1, <1>9 DEF Past
    <2> QED BY <1>5, <1>9, <2>1 DEF Past
  <1> QED BY <1>7, <1>8, <1>9 DEF p, q, c, m

\* The packet that follows all of them is appended.
LEMMA Appended ==
    ASSUME NEW t \in Tallies, NEW r \in Seq(Packets), NEW l, NEW p \in Packets,
           InOrder(t, r, l), Past(t, r, l, p.run), Given(t, r, l, p.run, p.seq)
    PROVE  /\ InOrder(t, Append(r, p), l) /\ Past(t, Append(r, p), l, p.run)
           /\ Given(t, Append(r, p), l, p.run, p.seq + 1)
  <1> DEFINE q == Append(r, p)
  <1>0. PICK n \in Nat : n = Len(r)
    BY LenProperties
  <1>1. /\ Len(q) = n + 1 /\ q[n + 1] = p /\ \A k \in 1 .. n : q[k] = r[k]
    BY <1>0, AppendProperties
  <1>2. p.run \in Nat /\ p.seq \in Nat /\ t.run \in Nat /\ t.next \in Nat
    BY DEF Packets, Tallies
  <1> HIDE DEF q
  <1>3. ASSUME NEW i \in 1 .. n + 1 PROVE Follows(t, q, l, i - 1, q[i].run, q[i].seq)
    <2>1. \A j \in 1 .. i - 1 : j \in 1 .. n /\ q[j] = r[j]
      BY <1>1
    <2>2. Follows(t, r, l, i - 1, q[i].run, q[i].seq)
      <3>1. CASE i \in 1 .. n
        BY <1>0, <1>1, <3>1 DEF InOrder
      <3>2. CASE i = n + 1
        BY <1>0, <1>1, <3>2 DEF Given
      <3> QED BY <3>1, <3>2
    <2> QED BY <2>1, <2>2 DEF Follows, SettledNumber
  <1>4. InOrder(t, q, l)
    BY <1>1, <1>3 DEF InOrder
  <1>5. Past(t, q, l, p.run)
    BY <1>0, <1>1, <1>2 DEF Past
  <1>6. Given(t, q, l, p.run, p.seq + 1)
    <2>1. Due(t, p.run, p.seq + 1)
      BY <1>2 DEF Given, Follows, Due
    <2>2. ASSUME NEW j \in 1 .. n + 1 PROVE Precedes(q[j], p.run, p.seq + 1)
      <3>1. CASE j \in 1 .. n
        <4>1. r[j] \in Packets
          BY <1>0, <3>1, ElementOfSeq
        <4>2. q[j] = r[j] /\ r[j].seq \in Nat /\ r[j].run \in Nat
          BY <1>1, <3>1, <4>1 DEF Packets
        <4>3. Precedes(r[j], p.run, p.seq)
          BY <1>0, <3>1 DEF Given, Follows
        <4> QED BY <1>2, <4>2, <4>3 DEF Precedes
      <3>2. CASE j = n + 1
        BY <1>1, <1>2, <3>2 DEF Precedes
      <3> QED BY <3>1, <3>2
    <2>3. <<p.run, p.seq + 1>> \notin l
      BY <1>2 DEF Given
    <2>4. ASSUME NEW i \in Nat, i < p.seq + 1 PROVE SettledNumber(t, q, l, n + 1, p.run, i)
      <3>1. CASE i < p.seq
        <4>1. SettledNumber(t, r, l, n, p.run, i)
          BY <1>0, <3>1 DEF Given, Follows
        <4> QED BY <1>1, <4>1 DEF SettledNumber
      <3>2. CASE i = p.seq
        BY <1>1, <3>2 DEF SettledNumber
      <3> QED BY <1>2, <2>4, <3>1, <3>2
    <2>5. \A i \in Nat : <<p.run, i>> \in l => i < p.seq + 1
      BY <1>2 DEF Given
    <2> QED BY <1>1, <2>1, <2>2, <2>3, <2>4, <2>5 DEF Given, Follows
  <1> QED BY <1>4, <1>5, <1>6 DEF q

\* Or lost.
LEMMA NextLost ==
    ASSUME NEW t \in Tallies, NEW r \in Seq(Packets), NEW l, NEW p \in Packets,
           InOrder(t, r, l), Past(t, r, l, p.run), Given(t, r, l, p.run, p.seq)
    PROVE  LET m == l \cup {Place(p)}
           IN /\ InOrder(t, r, m) /\ Past(t, r, m, p.run)
              /\ Given(t, r, m, p.run, p.seq + 1)
  <1> DEFINE m == l \cup {Place(p)}
  <1>0. PICK n \in Nat : n = Len(r)
    BY LenProperties
  <1>1. /\ p.run \in Nat /\ p.seq \in Nat /\ t.run \in Nat /\ t.next \in Nat
        /\ \A j \in 1 .. n : r[j].run \in Nat /\ r[j].seq \in Nat
    <2>1. \A j \in 1 .. n : r[j] \in Packets
      BY <1>0, ElementOfSeq
    <2> QED BY <2>1 DEF Packets, Tallies
  <1>2. \A y, i : <<y, i>> \in m <=> <<y, i>> \in l \/ (y = p.run /\ i = p.seq)
    BY DEF Place
  <1> HIDE DEF m
  <1>3. ASSUME NEW k \in 0 .. n, NEW y, NEW s, Follows(t, r, l, k, y, s), <<y, s>> # <<p.run, p.seq>>
        PROVE  Follows(t, r, m, k, y, s)
    BY <1>2, <1>3 DEF Follows, SettledNumber
  <1>4. ASSUME NEW i \in 1 .. n PROVE Follows(t, r, m, i - 1, r[i].run, r[i].seq)
    <2>1. Follows(t, r, l, i - 1, r[i].run, r[i].seq) /\ Precedes(r[i], p.run, p.seq)
      BY <1>0 DEF InOrder, Given, Follows
    <2>2. <<r[i].run, r[i].seq>> # <<p.run, p.seq>>
      BY <1>1, <2>1 DEF Precedes
    <2>3. i - 1 \in 0 .. n
      OBVIOUS
    <2> QED BY <1>3, <2>1, <2>2, <2>3
  <1>5. InOrder(t, r, m) /\ Past(t, r, m, p.run)
    BY <1>0, <1>1, <1>2, <1>4 DEF InOrder, Past
  <1>6. Given(t, r, m, p.run, p.seq + 1)
    <2>1. Due(t, p.run, p.seq + 1)
      BY <1>1 DEF Given, Follows, Due
    <2>2. \A j \in 1 .. n : Precedes(r[j], p.run, p.seq + 1)
      BY <1>0, <1>1 DEF Given, Follows, Precedes
    <2>3. <<p.run, p.seq + 1>> \notin m /\ \A i \in Nat : <<p.run, i>> \in m => i < p.seq + 1
      BY <1>1, <1>2 DEF Given
    <2>4. ASSUME NEW i \in Nat, i < p.seq + 1 PROVE SettledNumber(t, r, m, n, p.run, i)
      <3>1. CASE i < p.seq
        BY <1>0, <1>2, <3>1 DEF Given, Follows, SettledNumber
      <3>2. CASE i = p.seq
        BY <1>2, <3>2 DEF SettledNumber
      <3> QED BY <1>1, <2>4, <3>1, <3>2
    <2> QED BY <1>0, <2>1, <2>2, <2>3, <2>4 DEF Given, Follows
  <1> QED BY <1>5, <1>6 DEF m

\* Nothing of a run that has not begun is settled.
LEMMA NothingOfNext ==
    ASSUME NEW t \in Tallies, NEW r \in Seq(Packets), NEW l, NEW x \in Nat, Past(t, r, l, x)
    PROVE  Given(t, r, l, x + 1, 0) /\ Past(t, r, l, x + 1)
  <1>0. PICK n \in Nat : n = Len(r)
    BY LenProperties
  <1>1. t.run \in Nat /\ \A j \in 1 .. n : r[j].run \in Nat
    <2>1. \A j \in 1 .. n : r[j] \in Packets
      BY <1>0, ElementOfSeq
    <2> QED BY <2>1 DEF Packets, Tallies
  <1>2. \A i \in Nat : <<x + 1, i>> \notin l
    BY DEF Past
  <1>3. \A j \in 1 .. n : Precedes(r[j], x + 1, 0)
    BY <1>0, <1>1 DEF Past, Precedes
  <1>4. Due(t, x + 1, 0)
    BY <1>1 DEF Past, Due
  <1>5. Past(t, r, l, x + 1)
    BY <1>0, <1>1 DEF Past
  <1> QED BY <1>0, <1>2, <1>3, <1>4, <1>5 DEF Given, Follows

LEMMA NumberInit == SessionInit => NumberInv
  <1> SUFFICES ASSUME SessionInit PROVE NumberInv
    OBVIOUS
  <1>1. /\ ring = <<>> /\ tally = [run |-> 0, next |-> 0] /\ run = 0 /\ Len(ring) = 0 /\ lost = {}
        /\ streamSeq = 0 /\ ~misnumbered /\ taskPc = "idle" /\ capPc = "idle"
    BY DEF SessionInit
  <1>2. InOrder(tally, ring, lost) /\ Past(tally, ring, lost, run)
    BY <1>1 DEF InOrder, Past
  <1>3. Given(tally, ring, lost, run, Top) /\ ~HasNumber
    BY <1>1 DEF Given, Follows, Due, Top, HasNumber
  <1> QED BY <1>1, <1>2, <1>3 DEF NumberInv

\* What the numbers depend on, as seen by a step.
LEMMA NumbersKept ==
    ASSUME UNCHANGED <<tally, ring, lost, run, misnumbered>>
    PROVE  /\ InOrder(tally, ring, lost)' <=> InOrder(tally, ring, lost)
           /\ Past(tally, ring, lost, run)' <=> Past(tally, ring, lost, run)
           /\ Given(tally, ring, lost, run, Top)' <=> Given(tally, ring, lost, run, Top')
  BY DEF InOrder, Past, Given, Follows, Due, Precedes, SettledNumber

\* A packet that is built takes the next number; the queue takes the packet,
\* refuses it, or discards its head.
LEMMA BuildNumbers ==
    ASSUME SessionTypes, SessionTypes', NumberInv, ~muddled, ~muddled',
           Capture \/ Emit \/ TakeAnnouncement \/ LoadEpochSet \/ ReadNow \/ LoadAt \/ LoadUnix
           \/ NextEnvelope
    PROVE  NumberInv'
  <1>0. packet \in Packets /\ streamSeq \in Nat /\ run \in Nat
    BY DEF SessionTypes
  <1>1. UNCHANGED <<tally, ring, lost, run, misnumbered, taskPc>>
    BY DEF Capture, Emit, Build, TakeAnnouncement, LoadEpochSet, ReadNow, LoadAt, LoadUnix,
           NextEnvelope, buildFrame, capFrame, hostVars
  <1>2. CASE Capture \/ Emit
    <2>1. capPc' = "announce" /\ taskPc \notin {"stream_seq", "pending"} /\ streamSeq' = streamSeq
          /\ capPc = "idle"
      BY <1>2 DEF Capture, Emit, Build
    <2>2. Top' = Top /\ ~HasNumber'
      BY <2>1 DEF Top, HasNumber
    <2> QED BY <1>1, <2>1, <2>2, NumbersKept DEF NumberInv
  <1>3. CASE TakeAnnouncement \/ LoadEpochSet \/ ReadNow \/ LoadAt \/ LoadUnix
    <2>1. /\ capPc \in {"announce", "epoch", "now", "at", "unix"} /\ streamSeq' = streamSeq
          /\ capPc' \in {"epoch", "now", "at", "unix", "envelope"}
          /\ packet'.run = IF capPc = "announce" THEN run ELSE packet.run
      BY <1>0, <1>3 DEF TakeAnnouncement, LoadEpochSet, ReadNow, LoadAt, LoadUnix, buildFrame, Packets
    <2>2. Top' = Top /\ ~HasNumber'
      BY <2>1 DEF Top, HasNumber
    <2> QED BY <1>1, <2>1, <2>2, NumbersKept DEF NumberInv
  <1>4. CASE NextEnvelope
    <2>1. capPc = "envelope" /\ capPc' = "deliver" /\ streamSeq' = streamSeq + 1
      BY <1>4 DEF NextEnvelope
    <2>2. packet'.seq = streamSeq /\ packet'.run = packet.run
      BY <1>0, <1>4 DEF NextEnvelope, Packets
    <2>3. Top' = Top
      BY <2>1, <2>2 DEF Top, HasNumber
    <2> QED BY <1>1, <2>1, <2>2, <2>3, NumbersKept DEF NumberInv
  <1> QED BY <1>2, <1>3, <1>4

LEMMA DeliverNumbers ==
    ASSUME SessionTypes, SessionTypes', NumberInv, ~muddled, ~muddled',
           Enqueue \/ Overflow \/ Evict \/ Retry
    PROVE  NumberInv'
  <1>0. /\ packet \in Packets /\ streamSeq \in Nat /\ run \in Nat /\ ring \in Seq(Packets)
        /\ tally \in Tallies /\ packet.seq \in Nat
    BY DEF SessionTypes, Tallies, Packets
  <1>1. UNCHANGED <<tally, run, misnumbered, taskPc, streamSeq, packet>> /\ HasNumber
    BY DEF Enqueue, Overflow, Evict, Retry, deliverFrame, capFrame, hostVars, HasNumber
  <1>2. /\ capPc # "idle" /\ packet.run = run /\ streamSeq = packet.seq + 1 /\ ~misnumbered
        /\ taskPc \notin {"stream_seq", "pending"} /\ Top = packet.seq
        /\ InOrder(tally, ring, lost) /\ Past(tally, ring, lost, packet.run)
        /\ Given(tally, ring, lost, packet.run, packet.seq)
    BY <1>1 DEF NumberInv, HasNumber, Top
  <1>3. CASE UNCHANGED <<ring, lost>> /\ HasNumber'
    <2>1. Top' = Top
      BY <1>1, <1>3 DEF Top
    <2> QED BY <1>1, <1>2, <1>3, <2>1, NumbersKept DEF NumberInv, HasNumber
  <1>4. CASE capPc' = "idle" /\ ring' = Append(ring, packet) /\ lost' = lost
    <2>1. Top' = packet.seq + 1 /\ ~HasNumber'
      BY <1>1, <1>2, <1>4 DEF Top, HasNumber
    <2>2. /\ InOrder(tally, Append(ring, packet), lost)
          /\ Past(tally, Append(ring, packet), lost, packet.run)
          /\ Given(tally, Append(ring, packet), lost, packet.run, packet.seq + 1)
      BY <1>0, <1>2, Appended
    <2>3. /\ InOrder(tally, ring, lost)' <=> InOrder(tally, Append(ring, packet), lost)
          /\ Past(tally, ring, lost, run)' <=> Past(tally, Append(ring, packet), lost, run)
          /\ Given(tally, ring, lost, run, Top)'
                <=> Given(tally, Append(ring, packet), lost, run, packet.seq + 1)
      BY <1>1, <1>4, <2>1 DEF InOrder, Past, Given, Follows, Due, Precedes, SettledNumber
    <2> QED BY <1>1, <1>2, <1>4, <2>1, <2>2, <2>3 DEF NumberInv
  <1>5. CASE capPc' = "idle" /\ ring' = ring /\ lost' = lost \cup {Place(packet)}
    <2> DEFINE m == lost \cup {Place(packet)}
    <2>1. Top' = packet.seq + 1 /\ ~HasNumber'
      BY <1>1, <1>2, <1>5 DEF Top, HasNumber
    <2>2. /\ InOrder(tally, ring, m) /\ Past(tally, ring, m, packet.run)
          /\ Given(tally, ring, m, packet.run, packet.seq + 1)
      BY <1>0, <1>2, NextLost
    <2> HIDE DEF m
    <2>3. lost' = m
      BY <1>5 DEF m
    <2>4. /\ InOrder(tally, ring, lost)' <=> InOrder(tally, ring, m)
          /\ Past(tally, ring, lost, run)' <=> Past(tally, ring, m, run)
          /\ Given(tally, ring, lost, run, Top)' <=> Given(tally, ring, m, run, packet.seq + 1)
      BY <1>1, <1>5, <2>1, <2>3 DEF InOrder, Past, Given, Follows, Due, Precedes, SettledNumber
    <2> QED BY <1>1, <1>2, <1>5, <2>1, <2>2, <2>4 DEF NumberInv
  <1>6. CASE HasNumber' /\ ring # <<>> /\ ring' = Tail(ring) /\ lost' = lost \cup {Place(Head(ring))}
    <2> DEFINE m == lost \cup {Place(Head(ring))}
    <2>1. Top' = packet.seq
      BY <1>1, <1>6 DEF Top
    <2>2. /\ InOrder(tally, Tail(ring), m) /\ Past(tally, Tail(ring), m, packet.run)
          /\ Given(tally, Tail(ring), m, packet.run, packet.seq)
      BY <1>0, <1>2, <1>6, TailInOrder
    <2> HIDE DEF m
    <2>3. lost' = m
      BY <1>6 DEF m
    <2>4. /\ InOrder(tally, ring, lost)' <=> InOrder(tally, Tail(ring), m)
          /\ Past(tally, ring, lost, run)' <=> Past(tally, Tail(ring), m, run)
          /\ Given(tally, ring, lost, run, Top)' <=> Given(tally, Tail(ring), m, run, packet.seq)
      <3>1. tally' = tally /\ ring' = Tail(ring) /\ lost' = m /\ run' = run /\ Top' = packet.seq
        BY <1>1, <1>6, <2>1, <2>3
      <3> QED BY <3>1 DEF InOrder, Past, Given, Follows, Due, Precedes, SettledNumber
    <2> QED BY <1>1, <1>2, <1>6, <2>1, <2>2, <2>4 DEF NumberInv, HasNumber
  <1> QED BY <1>3, <1>4, <1>5, <1>6 DEF Enqueue, Overflow, Evict, Retry, HasNumber

LEMMA ReceiveNumbers ==
    ASSUME SessionTypes, SessionTypes', NumberInv, ~muddled, ~muddled', Receive
    PROVE  NumberInv'
  <1> DEFINE p == Head(ring)
             c == [run |-> p.run, next |-> p.seq + 1]
             due == IF tally.run = p.run THEN tally.next ELSE 0
  <1>0. /\ streamSeq \in Nat /\ run \in Nat /\ ring \in Seq(Packets) /\ tally \in Tallies
        /\ packet \in Packets
    BY DEF SessionTypes, Tallies
  <1>1. /\ UNCHANGED <<capPc, packet, run, streamSeq, lost, taskPc>>
        /\ ring # <<>> /\ ring' = Tail(ring) /\ tally' = c
        /\ misnumbered' = (misnumbered \/ ~Accounts(p.run, p.seq, due))
    BY DEF Receive, hostFrame, capVars
  <1>2. InOrder(tally, ring, lost) /\ Past(tally, ring, lost, run) /\ ~misnumbered
    BY DEF NumberInv
  <1>3. Accounts(p.run, p.seq, due)
    BY <1>0, <1>1, <1>2, HeadAccounts
  <1>4. ~misnumbered'
    BY <1>1, <1>2, <1>3, Zenon
  <1>5. /\ Top \in Nat /\ Top' = Top /\ HasNumber' = HasNumber
    BY <1>0, <1>1 DEF Top, HasNumber, Packets
  <1>6. /\ InOrder(c, Tail(ring), lost) /\ Past(c, Tail(ring), lost, run)
        /\ Given(tally, ring, lost, run, Top) => Given(c, Tail(ring), lost, run, Top)
    BY <1>0, <1>1, <1>2, <1>5, TailInOrder
  <1> HIDE DEF c
  <1>7. /\ InOrder(tally, ring, lost)' <=> InOrder(c, Tail(ring), lost)
        /\ Past(tally, ring, lost, run)' <=> Past(c, Tail(ring), lost, run)
        /\ Given(tally, ring, lost, run, Top)' <=> Given(c, Tail(ring), lost, run, Top)
    BY <1>1, <1>5 DEF InOrder, Past, Given, Follows, Due, Precedes, SettledNumber
  <1> QED BY <1>1, <1>4, <1>5, <1>6, <1>7 DEF NumberInv

LEMMA NumberStep ==
    SessionTypes /\ SessionTypes' /\ NumberInv /\ [SessionNext]_sessionVars => NumberInv'
  <1> SUFFICES ASSUME SessionTypes, SessionTypes', NumberInv, [SessionNext]_sessionVars, ~muddled'
               PROVE  NumberInv'
    BY DEF NumberInv
  <1>0. streamSeq \in Nat /\ run \in Nat /\ ring \in Seq(Packets) /\ tally \in Tallies
    BY DEF SessionTypes, Tallies
  <1>1. ~muddled
    BY DEF SessionNext, PassTime, CallSetSession, StorePinned, StoreNoEpoch, StoreUnix, StoreAt,
           StoreEpochSet, StartRun, StoreSessionId, StoreStreamSeq, StorePending, EndRun, Capture,
           Emit, Build, TakeAnnouncement, LoadEpochSet, ReadNow, LoadAt, LoadUnix, NextEnvelope,
           Enqueue, Overflow, Evict, Retry, Install, Receive, SetOverflow, taskFrame, runFrame,
           buildFrame, deliverFrame, capFrame, hostFrame, sessionVars
  <1>2. CASE \/ PassTime \/ (\E b \in BOOLEAN : CallSetSession(b)) \/ StorePinned \/ StoreNoEpoch
             \/ StoreUnix \/ StoreAt \/ StoreEpochSet \/ Install \/ SetOverflow \/ StartRun
             \/ EndRun \/ UNCHANGED sessionVars
    <2>1. UNCHANGED <<tally, ring, lost, run, misnumbered, capPc, packet, streamSeq>>
      BY <1>2 DEF PassTime, CallSetSession, StorePinned, StoreNoEpoch, StoreUnix, StoreAt,
                  StoreEpochSet, Install, SetOverflow, StartRun, EndRun, taskFrame, runFrame,
                  hostFrame, queueVars, capVars, hostVars, sessionVars
    <2>2. /\ taskPc' \notin {"stream_seq", "pending"} \/ taskPc' = taskPc
          /\ taskPc = "pending" => taskPc' = "pending"
      BY <1>2 DEF PassTime, CallSetSession, StorePinned, StoreNoEpoch, StoreUnix, StoreAt,
                  StoreEpochSet, Install, SetOverflow, StartRun, EndRun, taskFrame, runFrame,
                  hostFrame, sessionVars
    <2>3. Top' = Top /\ HasNumber' = HasNumber
      BY <2>1 DEF Top, HasNumber
    <2> QED BY <1>1, <2>1, <2>2, <2>3, NumbersKept DEF NumberInv
  <1>3. CASE StoreSessionId
    <2>1. UNCHANGED <<tally, ring, lost, run, misnumbered, capPc, packet, streamSeq>>
          /\ taskPc = "session_id" /\ taskPc' = "stream_seq" /\ capPc = "idle"
      BY <1>3 DEF StoreSessionId, Overlap, runFrame, queueVars, capVars, hostVars
    <2>2. Top' = Top /\ ~HasNumber'
      BY <2>1 DEF Top, HasNumber
    <2> QED BY <1>1, <2>1, <2>2, NumbersKept DEF NumberInv
  <1>4. CASE StoreStreamSeq
    <2>1. UNCHANGED <<tally, ring, lost, run, misnumbered, capPc, packet>> /\ taskPc' = "pending"
          /\ capPc = "idle" /\ streamSeq' = 0
      BY <1>4 DEF StoreStreamSeq, Overlap, runFrame, queueVars, capVars, hostVars
    <2>2. ~HasNumber'
      BY <2>1 DEF HasNumber
    <2> QED BY <1>1, <2>1, <2>2, NumbersKept DEF NumberInv
  <1>5. CASE StorePending
    <2>1. /\ UNCHANGED <<tally, ring, lost, misnumbered, capPc, packet, streamSeq>>
          /\ run' = run + 1 /\ taskPc = "pending" /\ taskPc' = "idle" /\ capPc = "idle"
      BY <1>5 DEF StorePending, Overlap, runFrame, queueVars, capVars, hostVars
    <2>2. /\ InOrder(tally, ring, lost) /\ Past(tally, ring, lost, run) /\ ~misnumbered
          /\ streamSeq = 0
      BY <1>1, <2>1 DEF NumberInv
    <2>3. Given(tally, ring, lost, run + 1, 0) /\ Past(tally, ring, lost, run + 1)
      BY <1>0, <2>2, NothingOfNext
    <2>4. Top' = 0 /\ ~HasNumber'
      BY <2>1, <2>2 DEF Top, HasNumber
    <2>5. /\ InOrder(tally, ring, lost)' <=> InOrder(tally, ring, lost)
          /\ Past(tally, ring, lost, run)' <=> Past(tally, ring, lost, run + 1)
          /\ Given(tally, ring, lost, run, Top)' <=> Given(tally, ring, lost, run + 1, 0)
      BY <2>1, <2>4 DEF InOrder, Past, Given, Follows, Due, Precedes, SettledNumber
    <2> QED BY <2>1, <2>2, <2>3, <2>4, <2>5 DEF NumberInv
  <1>6. CASE Capture \/ Emit \/ TakeAnnouncement \/ LoadEpochSet \/ ReadNow \/ LoadAt \/ LoadUnix
             \/ NextEnvelope
    BY <1>1, <1>6, BuildNumbers
  <1>7. CASE Enqueue \/ Overflow \/ Evict \/ Retry
    BY <1>1, <1>7, DeliverNumbers
  <1>8. CASE Receive
    BY <1>1, <1>8, ReceiveNumbers
  <1> QED BY <1>2, <1>3, <1>4, <1>5, <1>6, <1>7, <1>8 DEF SessionNext

-----------------------------------------------------------------------------
(* The announcement of a run. *)

BeginRun == {"session_id", "stream_seq", "pending"}

\* The packet in the making has not taken its announcement yet.
Unmade == capPc \in {"idle", "announce"}

AnnouncedInv ==
    /\ reports => run > 0 \/ taskPc \in BeginRun
    /\ ~muddled =>
        /\ capPc # "idle" => run > 0
        /\ pending => streamSeq = 0 /\ Unmade
        /\ run > 0 /\ streamSeq = 0 /\ taskPc # "pending" /\ Unmade => pending
        /\ Top = 0 /\ ~Unmade => packet.announces
        /\ \A i \in 1 .. Len(ring) : ring[i].seq = 0 => ring[i].announces
        /\ tally.next > 0 => tally.run \in heard \/ <<tally.run, 0>> \in lost

LEMMA AnnouncedInit == SessionInit => AnnouncedInv
  BY DEF SessionInit, AnnouncedInv, Unmade

\* begin_run and the executor's other steps.
LEMMA BeginAnnounced ==
    ASSUME SessionTypes, NumberInv, AnnouncedInv, ~muddled', ~muddled,
           StartRun \/ StoreSessionId \/ StoreStreamSeq \/ StorePending
    PROVE  AnnouncedInv'
  <1>0. run \in Nat /\ streamSeq \in Nat
    BY DEF SessionTypes
  <1>1. UNCHANGED <<capPc, packet, ring, tally, heard, lost>>
    BY DEF StartRun, StoreSessionId, StoreStreamSeq, StorePending, runFrame, queueVars, capVars,
           hostVars
  <1>2. Unmade' = Unmade /\ HasNumber' = HasNumber
    BY <1>1 DEF Unmade, HasNumber
  <1>3. CASE StartRun \/ StoreSessionId
    <2>1. /\ UNCHANGED <<streamSeq, pending, run>> /\ taskPc # "pending"
          /\ taskPc' \in {"session_id", "stream_seq"}
      BY <1>3 DEF StartRun, StoreSessionId
    <2>2. Top' = Top
      BY <1>1, <1>2, <2>1 DEF Top
    <2> QED BY <1>1, <1>2, <2>1, <2>2 DEF AnnouncedInv, BeginRun
  <1>4. CASE StoreStreamSeq
    <2>1. /\ UNCHANGED <<pending, run>> /\ streamSeq' = 0 /\ taskPc' = "pending" /\ capPc = "idle"
      BY <1>4 DEF StoreStreamSeq, Overlap
    <2> QED BY <1>1, <1>2, <2>1 DEF AnnouncedInv, BeginRun, Unmade
  <1>5. CASE StorePending
    <2>1. /\ UNCHANGED streamSeq /\ run' = run + 1 /\ pending' /\ taskPc = "pending"
          /\ capPc = "idle"
      BY <1>5 DEF StorePending, Overlap
    <2>2. streamSeq = 0
      BY <2>1 DEF NumberInv
    <2> QED BY <1>0, <1>1, <1>2, <2>1, <2>2 DEF AnnouncedInv, Unmade
  <1> QED BY <1>3, <1>4, <1>5

\* The packet with number 0 takes the announcement.
LEMMA BuildAnnounced ==
    ASSUME SessionTypes, NumberInv, AnnouncedInv, ~muddled', ~muddled,
           Capture \/ Emit \/ TakeAnnouncement \/ LoadEpochSet \/ ReadNow \/ LoadAt \/ LoadUnix
           \/ NextEnvelope
    PROVE  AnnouncedInv'
  <1>0. packet \in Packets /\ run \in Nat /\ streamSeq \in Nat
    BY DEF SessionTypes
  <1>1. UNCHANGED <<taskPc, reports, run, ring, tally, heard, lost>>
    BY DEF Capture, Emit, Build, TakeAnnouncement, LoadEpochSet, ReadNow, LoadAt, LoadUnix,
           NextEnvelope, buildFrame, capFrame, hostVars, gateVars
  <1>2. CASE Capture \/ Emit
    <2>1. /\ capPc = "idle" /\ capPc' = "announce" /\ taskPc \notin BeginRun /\ reports
          /\ UNCHANGED <<streamSeq, pending>>
      BY <1>2 DEF Capture, Emit, Build, BeginRun
    <2> QED BY <1>0, <1>1, <2>1 DEF AnnouncedInv, Unmade, BeginRun
  <1>3. CASE TakeAnnouncement
    <2>1. /\ capPc = "announce" /\ capPc' \in {"epoch", "envelope"} /\ ~pending'
          /\ packet'.announces = pending /\ UNCHANGED streamSeq
      BY <1>0, <1>3 DEF TakeAnnouncement, buildFrame, Packets
    <2>2. taskPc # "pending" /\ run > 0 /\ Top' = streamSeq
      BY <2>1 DEF NumberInv, AnnouncedInv, Top, HasNumber
    <2> QED BY <1>0, <1>1, <2>1, <2>2 DEF AnnouncedInv, Unmade
  <1>4. CASE LoadEpochSet \/ ReadNow \/ LoadAt \/ LoadUnix
    <2>1. /\ capPc \in {"epoch", "now", "at", "unix"} /\ capPc' \in {"now", "at", "unix", "envelope"}
          /\ packet'.announces = packet.announces /\ UNCHANGED <<pending, streamSeq>>
      BY <1>0, <1>4 DEF LoadEpochSet, ReadNow, LoadAt, LoadUnix, buildFrame, Packets
    <2>2. Top' = Top
      BY <2>1 DEF Top, HasNumber
    <2> QED BY <1>1, <2>1, <2>2 DEF AnnouncedInv, Unmade
  <1>5. CASE NextEnvelope
    <2>1. /\ capPc = "envelope" /\ capPc' = "deliver" /\ UNCHANGED pending
          /\ packet'.announces = packet.announces /\ packet'.seq = streamSeq
      BY <1>0, <1>5 DEF NextEnvelope, Packets
    <2>2. Top' = Top
      BY <2>1 DEF Top, HasNumber
    <2> QED BY <1>1, <2>1, <2>2 DEF AnnouncedInv, Unmade
  <1> QED BY <1>2, <1>3, <1>4, <1>5

\* The queue takes, refuses or discards a packet as it is.
LEMMA DeliverAnnounced ==
    ASSUME SessionTypes, NumberInv, AnnouncedInv, ~muddled', ~muddled,
           Enqueue \/ Overflow \/ Evict \/ Retry
    PROVE  AnnouncedInv'
  <1>0. /\ packet \in Packets /\ run \in Nat /\ streamSeq \in Nat /\ ring \in Seq(Packets)
        /\ Len(ring) \in Nat /\ packet.seq \in Nat
    BY LenProperties DEF SessionTypes, Packets
  <1>1. /\ UNCHANGED <<taskPc, reports, run, tally, heard, streamSeq, pending, packet>>
        /\ HasNumber /\ ~Unmade /\ (HasNumber' \/ capPc' = "idle") /\ lost \subseteq lost'
    BY DEF Enqueue, Overflow, Evict, Retry, deliverFrame, capFrame, hostVars, gateVars, HasNumber,
           Unmade
  <1>2. streamSeq > 0 /\ ~pending /\ run > 0 /\ (packet.seq = 0 => packet.announces)
    BY <1>0, <1>1 DEF NumberInv, AnnouncedInv, Top, HasNumber
  <1>3. \A i \in 1 .. Len(ring') : ring'[i].seq = 0 => ring'[i].announces
    <2>1. CASE ring' = ring
      BY <2>1 DEF AnnouncedInv
    <2>2. CASE ring' = Append(ring, packet)
      <3>1. /\ Len(ring') = Len(ring) + 1 /\ ring'[Len(ring) + 1] = packet
            /\ \A i \in 1 .. Len(ring) : ring'[i] = ring[i]
        BY <1>0, <2>2, AppendProperties
      <3> QED BY <1>0, <1>2, <3>1 DEF AnnouncedInv
    <2>3. CASE ring # <<>> /\ ring' = Tail(ring)
      <3>1. Len(ring') = Len(ring) - 1 /\ \A i \in 1 .. Len(ring) - 1 : ring'[i] = ring[i + 1]
        BY <1>0, <2>3, HeadTailProperties
      <3> QED BY <1>0, <3>1 DEF AnnouncedInv
    <2> QED BY <2>1, <2>2, <2>3 DEF Enqueue, Overflow, Evict, Retry
  <1>4. HasNumber' => Top' = Top
    BY <1>1 DEF Top
  <1> QED BY <1>0, <1>1, <1>2, <1>3, <1>4 DEF AnnouncedInv, Unmade, HasNumber

\* A packet received is number 0, with the announcement, or number 0 is settled.
LEMMA ReceiveAnnounced ==
    ASSUME SessionTypes, NumberInv, AnnouncedInv, ~muddled', ~muddled, Receive
    PROVE  AnnouncedInv'
  <1> DEFINE p == Head(ring)
  <1>0. /\ ring \in Seq(Packets) /\ ring # <<>> /\ Len(ring) \in Nat /\ Len(ring) > 0
        /\ tally \in Tallies
    BY LenProperties, EmptySeq DEF SessionTypes, Tallies, Receive
  <1>1. /\ UNCHANGED <<capPc, packet, run, streamSeq, pending, taskPc, reports, lost>>
        /\ ring' = Tail(ring) /\ tally' = [run |-> p.run, next |-> p.seq + 1]
        /\ heard' = IF p.announces THEN heard \cup {p.run} ELSE heard
    BY DEF Receive, hostFrame, capVars
  <1>2. /\ p = ring[1] /\ p \in Packets /\ Len(ring') = Len(ring) - 1
        /\ \A i \in 1 .. Len(ring) - 1 : ring'[i] = ring[i + 1]
    BY <1>0, <1>1, HeadTailProperties
  <1>3. p.seq \in Nat /\ p.run \in Nat
    BY <1>2 DEF Packets
  <1> HIDE DEF p
  <1>4. p.run \in heard' \/ <<p.run, 0>> \in lost
    <2>1. CASE p.seq = 0
      BY <1>0, <1>1, <1>2, <2>1 DEF AnnouncedInv
    <2>2. CASE p.seq > 0
      <3>1. Follows(tally, ring, lost, 0, p.run, p.seq)
        BY <1>0, <1>2 DEF NumberInv, InOrder
      <3>2. (tally.run = p.run /\ 0 < tally.next) \/ <<p.run, 0>> \in lost
        BY <2>2, <3>1 DEF Follows, SettledNumber
      <3> QED BY <1>1, <3>2 DEF AnnouncedInv
    <2> QED BY <1>3, <2>1, <2>2
  <1>5. \A i \in 1 .. Len(ring') : ring'[i].seq = 0 => ring'[i].announces
    BY <1>0, <1>2 DEF AnnouncedInv
  <1>6. Top' = Top /\ Unmade' = Unmade
    BY <1>1 DEF Top, HasNumber, Unmade
  <1>7. tally'.run = p.run /\ lost' = lost
    BY <1>1
  <1> QED BY <1>1, <1>4, <1>5, <1>6, <1>7 DEF AnnouncedInv

LEMMA AnnouncedStep ==
    SessionTypes /\ NumberInv /\ AnnouncedInv /\ [SessionNext]_sessionVars => AnnouncedInv'
  <1> SUFFICES ASSUME SessionTypes, NumberInv, AnnouncedInv, [SessionNext]_sessionVars
               PROVE  AnnouncedInv'
    OBVIOUS
  <1>0. reports' => run' > 0 \/ taskPc' \in BeginRun
    <2>0. run \in Nat
      BY DEF SessionTypes
    <2>1. CASE StartRun \/ StoreSessionId \/ StoreStreamSeq
      BY <2>1 DEF StartRun, StoreSessionId, StoreStreamSeq, BeginRun
    <2>2. CASE StorePending
      BY <2>0, <2>2 DEF StorePending
    <2>3. CASE \/ PassTime \/ (\E b \in BOOLEAN : CallSetSession(b)) \/ StorePinned \/ StoreNoEpoch
               \/ StoreUnix \/ StoreAt \/ StoreEpochSet \/ Install \/ SetOverflow \/ Receive
               \/ EndRun \/ UNCHANGED sessionVars
      <3>1. UNCHANGED <<reports, run>> /\ (taskPc \in BeginRun => taskPc' = taskPc)
        BY <2>3 DEF PassTime, CallSetSession, StorePinned, StoreNoEpoch, StoreUnix, StoreAt,
                    StoreEpochSet, Install, SetOverflow, Receive, EndRun, taskFrame, runFrame,
                    hostFrame, gateVars, sessionVars, BeginRun
      <3> QED BY <3>1 DEF AnnouncedInv
    <2>4. CASE Capture \/ Emit \/ TakeAnnouncement \/ LoadEpochSet \/ ReadNow \/ LoadAt \/ LoadUnix
               \/ NextEnvelope \/ Enqueue \/ Overflow \/ Evict \/ Retry
      <3>1. UNCHANGED <<reports, run, taskPc>>
        BY <2>4 DEF Capture, Emit, Build, TakeAnnouncement, LoadEpochSet, ReadNow, LoadAt,
                    LoadUnix, NextEnvelope, Enqueue, Overflow, Evict, Retry, buildFrame,
                    deliverFrame, capFrame, gateVars
      <3> QED BY <3>1 DEF AnnouncedInv
    <2> QED BY <2>1, <2>2, <2>3, <2>4 DEF SessionNext
  <1> SUFFICES ASSUME ~muddled' PROVE AnnouncedInv'
    BY <1>0 DEF AnnouncedInv
  <1>1. ~muddled
    BY DEF SessionNext, PassTime, CallSetSession, StorePinned, StoreNoEpoch, StoreUnix, StoreAt,
           StoreEpochSet, StartRun, StoreSessionId, StoreStreamSeq, StorePending, EndRun, Capture,
           Emit, Build, TakeAnnouncement, LoadEpochSet, ReadNow, LoadAt, LoadUnix, NextEnvelope,
           Enqueue, Overflow, Evict, Retry, Install, Receive, SetOverflow, taskFrame, runFrame,
           buildFrame, deliverFrame, capFrame, hostFrame, sessionVars
  <1>2. CASE \/ PassTime \/ (\E b \in BOOLEAN : CallSetSession(b)) \/ StorePinned \/ StoreNoEpoch
             \/ StoreUnix \/ StoreAt \/ StoreEpochSet \/ Install \/ SetOverflow
             \/ EndRun \/ UNCHANGED sessionVars
    <2>1. UNCHANGED <<tally, heard, ring, lost, run, capPc, packet, streamSeq, pending>>
      BY <1>2 DEF PassTime, CallSetSession, StorePinned, StoreNoEpoch, StoreUnix, StoreAt,
                  StoreEpochSet, Install, SetOverflow, EndRun, taskFrame, runFrame,
                  hostFrame, queueVars, capVars, hostVars, sessionVars
    <2>2. taskPc = "pending" => taskPc' = "pending"
      BY <1>2 DEF PassTime, CallSetSession, StorePinned, StoreNoEpoch, StoreUnix, StoreAt,
                  StoreEpochSet, Install, SetOverflow, EndRun, taskFrame, runFrame,
                  hostFrame, sessionVars
    <2>3. Top' = Top /\ Unmade' = Unmade
      BY <2>1 DEF Top, HasNumber, Unmade
    <2> QED BY <1>0, <1>1, <2>1, <2>2, <2>3 DEF AnnouncedInv
  <1>3. CASE StartRun \/ StoreSessionId \/ StoreStreamSeq \/ StorePending
    BY <1>1, <1>3, BeginAnnounced
  <1>4. CASE Capture \/ Emit \/ TakeAnnouncement \/ LoadEpochSet \/ ReadNow \/ LoadAt \/ LoadUnix
             \/ NextEnvelope
    BY <1>1, <1>4, BuildAnnounced
  <1>5. CASE Enqueue \/ Overflow \/ Evict \/ Retry
    BY <1>1, <1>5, DeliverAnnounced
  <1>6. CASE Receive
    BY <1>1, <1>6, ReceiveAnnounced
  <1> QED BY <1>2, <1>3, <1>4, <1>5, <1>6 DEF SessionNext

-----------------------------------------------------------------------------
(* The theorems about the session. *)

\* The statics of session.rs, CSI_QUEUE and the packet in the making keep their
\* types, and the queue its capacity, whatever the interleaving of set_session,
\* begin_run and the CSI callback.
THEOREM SessionContextTypes == SessionSpec => []SessionTypeOK
  <1>1. SessionSpec => []SessionTypes
    BY SessionInitTypes, SessionTypesStep, PTL DEF SessionSpec
  <1> QED BY <1>1, SessionTypesMeanOK, PTL

\* An announcement's wall time is its frame's, for every number of runs and of
\* calls of set_session, unless a call replaced the anchor while the callback
\* read it (set_session and take_announcement, session.rs:46-55, :178-200).
THEOREM AnnouncedTimesAreTrue == SessionSpec => []AnchorIsTrue
  <1>1. AnchorInv => AnchorIsTrue
    BY DEF AnchorInv, AnchorIsTrue
  <1> QED BY <1>1, SessionInitTypes, SessionTypesStep, AnchorInit, AnchorStep, PTL DEF SessionSpec

\* Unless a frame is captured across a begin_run, the gaps in the stream numbers
\* the consumer receives are exactly the packets CSI_QUEUE refused or discarded,
\* in every run, under either overflow policy and through its changes, for every
\* size of the queue (next_envelope, session.rs:157; deliver, delivery.rs:912).
THEOREM GapsCountTheDrops == SessionSpec => []GapsAreDrops
  <1>1. NumberInv => GapsAreDrops
    BY DEF NumberInv, GapsAreDrops
  <1> QED BY <1>1, SessionInitTypes, SessionTypesStep, NumberInit, NumberStep, PTL DEF SessionSpec

\* Unless a frame is captured across a begin_run, a consumer that receives a
\* packet of a run knows the run's announcement, or CSI_QUEUE lost the run's
\* first packet, for every size of the queue and under either overflow policy
\* (take_announcement, session.rs:191).
THEOREM RunsHideByLossOnly == SessionSpec => []OnlyLossHidesARun
  <1>1. AnnouncedInv => OnlyLossHidesARun
    BY DEF AnnouncedInv, OnlyLossHidesARun
  <1> QED BY <1>1, SessionInitTypes, SessionTypesStep, NumberInit, NumberStep, AnnouncedInit,
             AnnouncedStep, PTL DEF SessionSpec

-----------------------------------------------------------------------------
(* The receive clock. *)

USE HalfAssumption, MaxEpochAssumption

LEMMA ClockInitInv == ClockInit => ClockInv
  <1> SUFFICES ASSUME ClockInit PROVE ClockInv
    OBVIOUS
  <1>1. 0 \in Raw
    BY DEF Raw, Modulus
  <1>2. fresh \in BOOLEAN /\ calm \in BOOLEAN /\ ~calm
    BY Zenon DEF ClockInit
  <1>3. ClockTypeOK
    BY <1>1, <1>2 DEF ClockInit, ClockTypeOK
  <1> QED
    BY <1>2, <1>3
    DEF ClockInv, TimestampsAreTrue, Restarting, Untouched, Settled, Entered, Judging, Storing

-----------------------------------------------------------------------------
(* Types. *)

LEMMA EnterTypes ==
    ASSUME ClockTypeOK, NEW e \in 0 .. MaxEpoch, NEW r \in Raw, Enter(e, r)
    PROVE  ClockTypeOK'
  <1>1. calm' \in BOOLEAN /\ fresh' \in BOOLEAN
    BY Zenon DEF Enter
  <1>2. newestEpoch' \in {e, newestEpoch} /\ newestRaw' \in {r, newestRaw}
    BY Zenon DEF Enter
  <1>3. /\ rxEpoch' = e /\ rxRaw' = r /\ loaded' = last /\ stampPc' = "judge"
        /\ UNCHANGED <<last, wraps, runPc, count, stampEpoch, stampRaw, trueEpoch, trueRaw>>
    BY DEF Enter, statics, stampHistory
  <1>4. e \in Nat
    OBVIOUS
  <1> QED BY <1>1, <1>2, <1>3, <1>4 DEF ClockTypeOK

LEMMA ClockTypeStep == ClockTypeOK /\ [ClockNext]_clockVars => ClockTypeOK'
  <1> SUFFICES ASSUME ClockTypeOK, [ClockNext]_clockVars PROVE ClockTypeOK'
    OBVIOUS
  <1>1. CASE RestartLast
    <2>1. calm' \in BOOLEAN
      BY <1>1, Zenon DEF RestartLast
    <2>2. 0 \in Raw
      BY DEF Raw, Modulus
    <2> QED BY <1>1, <2>1, <2>2 DEF RestartLast, stampVars, ClockTypeOK
  <1>2. CASE RestartWraps
    BY <1>2 DEF RestartWraps, stampVars, stampHistory, frameHistory, ClockTypeOK
  <1>3. ASSUME NEW e \in 0 .. MaxEpoch, NEW r \in Raw, Enter(e, r) PROVE ClockTypeOK'
    BY <1>3, EnterTypes
  <1>4. CASE Judge
    BY <1>4 DEF Judge, Straggler, stampHistory, frameHistory, ClockTypeOK
  <1>5. CASE Return64
    BY <1>5 DEF Return64, frameHistory, ClockTypeOK
  <1>6. CASE UNCHANGED clockVars
    BY <1>6 DEF clockVars, statics, stampVars, stampHistory, frameHistory, ClockTypeOK
  <1> QED BY <1>1, <1>2, <1>3, <1>4, <1>5, <1>6 DEF ClockNext

-----------------------------------------------------------------------------
(* The invariant, action by action. *)

\* A frame enters: the newest receive time and the statics are one wrap apart
\* at most.
LEMMA EnterInv ==
    ASSUME ClockInv, NEW e \in 0 .. MaxEpoch, NEW r \in Raw, Enter(e, r)
    PROVE  ClockInv'
  <1>1. ClockTypeOK'
    BY EnterTypes DEF ClockInv
  <1> SUFFICES ASSUME calm' PROVE ClockInv'
    BY <1>1 DEF ClockInv, TimestampsAreTrue, Restarting, Untouched, Settled, Entered,
              Judging, Storing
  <1>2. calm /\ runPc = "idle" /\ e > 0 /\ (fresh \/ SoonAfter(e, r) \/ SlightlyLate(e, r))
    BY Zenon DEF Enter, Ordinary
  <1>3. /\ stampPc = "idle" /\ stampPc' = "judge" /\ fresh' = FALSE
        /\ rxEpoch' = e /\ rxRaw' = r /\ loaded' = last
        /\ UNCHANGED <<last, wraps, runPc, stampEpoch, stampRaw, trueEpoch, trueRaw>>
    BY DEF Enter, statics, stampHistory
  <1>4. TimestampsAreTrue' /\ Restarting' /\ Untouched' /\ Settled' /\ Entered' /\ Storing'
    BY <1>2, <1>3 DEF ClockInv, TimestampsAreTrue, Restarting, Untouched, Settled, Entered,
                      Storing
  <1>5. Judging'
    <2>1. CASE fresh
      <3>1. last = 0 /\ wraps = 0 /\ newestEpoch' = 1 /\ newestRaw' = r /\ e = 1
        BY <1>2, <2>1 DEF ClockInv, Untouched, Enter, IsNewest
      <3> QED BY <1>3, <3>1 DEF Judging, Raw, Modulus
    <2>2. CASE ~fresh
      <3>1. last = newestRaw /\ wraps + 1 = newestEpoch
        BY <1>2, <1>3, <2>2 DEF ClockInv, Settled
      <3>2. CASE SoonAfter(e, r)
        <4>1. newestEpoch' = e /\ newestRaw' = r
          BY <2>2, <3>2 DEF Enter, IsNewest, SoonAfter, ClockInv, ClockTypeOK, Raw, Modulus
        <4> QED
          BY <1>3, <3>1, <3>2, <4>1
          DEF Judging, SoonAfter, Wrapped, ClockInv, ClockTypeOK, Raw, Modulus
      <3>3. CASE SlightlyLate(e, r)
        <4>1. newestEpoch' = newestEpoch /\ newestRaw' = newestRaw
          BY <2>2, <3>3 DEF Enter, IsNewest, SlightlyLate, ClockInv, ClockTypeOK, Raw, Modulus
        <4> QED
          BY <1>3, <3>1, <3>3, <4>1
          DEF Judging, SlightlyLate, ClockInv, ClockTypeOK, Raw, Modulus
      <3> QED BY <1>2, <2>2, <3>2, <3>3
    <2> QED BY <2>1, <2>2
  <1> QED BY <1>1, <1>4, <1>5 DEF ClockInv

\* The comparison tells a wrap, a straggler and a late frame apart.
LEMMA JudgeInv ==
    ASSUME ClockInv, Judge
    PROVE  ClockInv'
  <1>1. ClockTypeOK'
    BY ClockTypeStep DEF ClockInv, ClockNext
  <1> SUFFICES ASSUME calm PROVE ClockInv'
    BY <1>1 DEF Judge, frameHistory, ClockInv, TimestampsAreTrue, Restarting, Untouched,
              Settled, Entered, Judging, Storing
  <1>2. /\ stampPc = "judge" /\ stampPc' \in {"advance", "keep"}
        /\ UNCHANGED <<last, runPc, loaded, rxEpoch, rxRaw, stampEpoch, stampRaw,
                       trueEpoch, trueRaw, newestEpoch, newestRaw, fresh, calm>>
    BY DEF Judge, stampHistory, frameHistory
  <1>3. loaded = last /\ rxEpoch > 0 /\ ~fresh
    BY <1>2 DEF ClockInv, Entered
  <1>4. TimestampsAreTrue' /\ Restarting' /\ Untouched' /\ Settled' /\ Entered' /\ Judging'
    BY <1>2, <1>3 DEF ClockInv, TimestampsAreTrue, Restarting, Untouched, Settled, Entered,
                      Judging
  <1>5. Storing'
    BY <1>2, <1>3
    DEF Judge, Wrapped, Straggler, Advances, ClockInv, ClockTypeOK, Judging, Storing,
        SlightlyLate, Raw, Modulus
  <1> QED BY <1>1, <1>4, <1>5 DEF ClockInv

LEMMA Return64Inv ==
    ASSUME ClockInv, Return64
    PROVE  ClockInv'
  <1>1. ClockTypeOK'
    BY ClockTypeStep DEF ClockInv, ClockNext
  <1> QED
    BY <1>1
    DEF Return64, frameHistory, ClockInv, TimestampsAreTrue, Restarting, Untouched, Settled,
        Entered, Judging, Storing

LEMMA ClockStepInv == ClockInv /\ [ClockNext]_clockVars => ClockInv'
  <1> SUFFICES ASSUME ClockInv, [ClockNext]_clockVars PROVE ClockInv'
    OBVIOUS
  <1>0. ClockTypeOK'
    BY ClockTypeStep DEF ClockInv
  <1>1. CASE RestartLast
    <2>1. calm' => stampPc' = "idle"
      BY <1>1 DEF RestartLast, stampVars
    <2>2. /\ fresh' /\ newestEpoch' = 1 /\ newestRaw' = 0 /\ last' = 0 /\ runPc' = "wraps"
          /\ stampEpoch' = 0 /\ stampRaw' = 0 /\ trueEpoch' = 1 /\ trueRaw' = 0
      BY <1>1 DEF RestartLast
    <2> QED
      BY <1>0, <2>1, <2>2
      DEF ClockInv, TimestampsAreTrue, Restarting, Untouched, Settled, Entered, Judging, Storing
  <1>2. CASE RestartWraps
    BY <1>0, <1>2
    DEF RestartWraps, stampVars, stampHistory, frameHistory, ClockInv, TimestampsAreTrue,
        Restarting, Untouched, Settled, Entered, Judging, Storing
  <1>3. ASSUME NEW e \in 0 .. MaxEpoch, NEW r \in Raw, Enter(e, r) PROVE ClockInv'
    BY <1>3, EnterInv
  <1>4. CASE Judge
    BY <1>4, JudgeInv
  <1>5. CASE Return64
    BY <1>5, Return64Inv
  <1>6. CASE UNCHANGED clockVars
    BY <1>0, <1>6
    DEF clockVars, statics, stampVars, stampHistory, frameHistory, ClockInv,
        TimestampsAreTrue, Restarting, Untouched, Settled, Entered, Judging, Storing,
        Wrapped, SlightlyLate
  <1> QED BY <1>1, <1>2, <1>3, <1>4, <1>5, <1>6 DEF ClockNext

-----------------------------------------------------------------------------
(* The theorems about the receive clock. *)

\* The statics, locals and histories keep their types (session.rs:28-30,
\* 111-112, 135-154), whatever the order of the frames and the restarts.
THEOREM ClockTypes == ClockSpec => []ClockTypeOK
  <1>1. ClockInit => ClockTypeOK
    BY ClockInitInv DEF ClockInv
  <1> QED BY <1>1, ClockTypeStep, PTL DEF ClockSpec

\* Every frame of a calm run is stamped with its receive time, for every width
\* of the raw counter (widen_timestamp, session.rs:135-154).
THEOREM WidenedTimestampsAreTrue == ClockSpec => []TimestampsAreTrue
  <1>1. ClockInv => TimestampsAreTrue
    BY DEF ClockInv
  <1> QED BY <1>1, ClockInitInv, ClockStepInv, PTL DEF ClockSpec
=============================================================================
