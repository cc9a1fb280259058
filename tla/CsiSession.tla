----------------------------- MODULE CsiSession -----------------------------
(***************************************************************************)
(* The session context of csi/session.rs: which session a delivered frame   *)
(* belongs to, its place in the stream, and the announcement that anchors   *)
(* the run to wall-clock time.  The executor runs set_session() and         *)
(* begin_run(); the Wi-Fi task's CSI callback reads and consumes the        *)
(* context while it builds a packet.  Every access to a static is a step.   *)
(*                                                                          *)
(* Between them stand the publish gate, which a new run opens before        *)
(* begin_run, and CSI_QUEUE, which no run clears and which discards its     *)
(* oldest packet or refuses the newest when it is full.  A packet that a    *)
(* task builds in emit() passes through the same statics; the two contexts  *)
(* build one packet at a time.  The widening of the timestamps is in        *)
(* ReceiveClock.                                                            *)
(***************************************************************************)
EXTENDS Naturals, Sequences

CONSTANTS
    Depth,      \* slots of CSI_QUEUE (32 in the code)
    WallOffset, \* UNIX time when the monotonic clock shows 0
    MaxNow,     \* bound on the monotonic clock
    MaxRuns,    \* bound on the runs
    Emits,      \* a task emits frames of another source
    MaxFrames,  \* bound on the frames captured
    MaxCalls    \* bound on the calls of set_session

ASSUME DepthAssumption == Depth \in Nat \ {0}
ASSUME WallOffsetAssumption == WallOffset \in Nat \ {0}
ASSUME MaxRunsAssumption == MaxRuns \in Nat
ASSUME EmitsAssumption == Emits \in BOOLEAN

NoEpoch == 0

VARIABLES
    now,            \* Instant::now()
    sessionId,      \* SESSION_ID
    pinned,         \* SESSION_PINNED
    epochUnix,      \* EPOCH_UNIX_US
    epochAt,        \* EPOCH_AT_TICKS
    epochSet,       \* EPOCH_SET
    streamSeq,      \* STREAM_SEQ
    pending,        \* ANCHOR_PENDING
    taskPc,         \* what the executor does next
    call,           \* the set_session in progress, and whether it replaces an anchor
    intent,         \* USER_PUBLISH_INTENT: a consumer is installed
    reports,        \* REPORTS: set by every run, cleared by none
    armed,          \* the radio's CSI callback is registered
    inRun,          \* a run is in progress
    ring,           \* CSI_QUEUE
    dropOldest,     \* OVERFLOW_DROP_OLDEST
    capPc,          \* what the CSI callback, or emit, does next
    packet,         \* the packet it builds
    run,            \* history: runs begun
    calls,          \* history: calls of set_session
    captured,       \* history: frames captured
    lost,           \* history: the packets CSI_QUEUE refused or discarded, <<run, number>>
    disturbed,      \* history: set_session wrote the anchor while it was read
    muddled,        \* history: a frame was captured across a begin_run
    anchorWrong,    \* history: an announcement carried a wrong wall time
    heard,          \* history: runs whose announcement the consumer received
    tally,          \* history: the run of the last packet received, the number due next
    misnumbered     \* history: a received number does not account for the lost ones

epochVars == <<epochUnix, epochAt, epochSet>>
idVars == <<sessionId, pinned>>
gateVars == <<intent, reports, armed, inRun>>
queueVars == <<ring, dropOldest, lost>>
capVars == <<capPc, packet, captured, disturbed, anchorWrong>>
hostVars == <<heard, tally, misnumbered>>
sessionVars == <<now, idVars, epochVars, streamSeq, pending, taskPc, call, gateVars, queueVars,
                 capVars, run, calls, muddled, hostVars>>

\* Who builds packets: the CSI callback, and emit() in a task of the executor.
Producers == {"callback", "emit"}

NoPacket == [announces |-> FALSE, epoch |-> NoEpoch, session |-> 0, seq |-> 0, run |-> 0,
             source |-> "callback"]

SessionInit ==
    /\ now = 0
    /\ sessionId = 0 /\ pinned = FALSE
    /\ epochUnix = 0 /\ epochAt = 0 /\ epochSet = FALSE
    /\ streamSeq = 0 /\ pending = FALSE
    /\ taskPc = "idle" /\ call = [session |-> 0, epoch |-> NoEpoch, replaces |-> FALSE]
    /\ intent = FALSE /\ reports = FALSE /\ armed = FALSE /\ inRun = FALSE
    /\ ring = <<>> /\ dropOldest = FALSE /\ lost = {}
    /\ capPc = "idle" /\ packet = NoPacket
    /\ captured = 0 /\ disturbed = FALSE /\ anchorWrong = FALSE
    /\ run = 0 /\ calls = 0 /\ muddled = FALSE
    /\ heard = {} /\ tally = [run |-> 0, next |-> 0]
    /\ misnumbered = FALSE

\* A task is inside emit(): the executor does nothing else.
Emitting == capPc # "idle" /\ packet.source = "emit"

\* Time passes while neither context is in the middle of a call: what the code
\* leaves to a callback's latency is not counted as an error.
PassTime ==
    /\ now < MaxNow
    /\ taskPc = "idle" /\ capPc = "idle"
    /\ now' = now + 1
    /\ UNCHANGED <<idVars, epochVars, streamSeq, pending, taskPc, call, gateVars, queueVars,
                   capVars, run, calls, muddled, hostVars>>

-----------------------------------------------------------------------------
(* set_session(), on the executor, before a run or during it. *)

taskFrame == <<now, gateVars, queueVars, capPc, packet, captured, anchorWrong, run,
               muddled, hostVars, streamSeq, pending>>

\* take_announcement has seen EPOCH_SET and not yet read the whole anchor.
Reading == capPc \in {"now", "at", "unix"}

\* The controller names the session, with or without the present UNIX time.
CallSetSession(withEpoch) ==
    /\ taskPc = "idle" /\ ~Emitting
    /\ calls < MaxCalls
    /\ calls' = calls + 1
    /\ call' = [session |-> MaxRuns + calls + 1,
                epoch |-> IF withEpoch THEN WallOffset + now ELSE NoEpoch,
                replaces |-> epochSet]
    /\ sessionId' = call'.session
    /\ taskPc' = "pin"
    /\ UNCHANGED <<taskFrame, pinned, epochVars, disturbed>>

StorePinned ==
    /\ taskPc = "pin"
    /\ pinned' = TRUE
    /\ taskPc' = IF call.epoch = NoEpoch THEN "epoch_none" ELSE "epoch_unix"
    /\ UNCHANGED <<taskFrame, sessionId, epochVars, disturbed, call, calls>>

StoreNoEpoch ==
    /\ taskPc = "epoch_none"
    /\ epochSet' = FALSE
    /\ taskPc' = "idle"
    /\ UNCHANGED <<taskFrame, idVars, epochUnix, epochAt, disturbed, call, calls>>

\* Mutant: the anchor is published before its instant is stored.
StoreUnixPublished ==
    /\ taskPc = "epoch_unix"
    /\ epochUnix' = call.epoch
    /\ epochSet' = TRUE
    /\ disturbed' = (disturbed \/ Reading)
    /\ taskPc' = "epoch_at"
    /\ UNCHANGED <<taskFrame, idVars, epochAt, call, calls>>

\* A reader that already saw EPOCH_SET is disturbed.
StoreUnix ==
    /\ taskPc = "epoch_unix"
    /\ epochUnix' = call.epoch
    /\ disturbed' = (disturbed \/ Reading)
    /\ taskPc' = "epoch_at"
    /\ UNCHANGED <<taskFrame, idVars, epochAt, epochSet, call, calls>>

StoreAt ==
    /\ taskPc = "epoch_at"
    /\ epochAt' = now
    /\ disturbed' = (disturbed \/ Reading)
    /\ taskPc' = "epoch_set"
    /\ UNCHANGED <<taskFrame, idVars, epochUnix, epochSet, call, calls>>

StoreEpochSet ==
    /\ taskPc = "epoch_set"
    /\ epochSet' = TRUE
    /\ taskPc' = "idle"
    /\ UNCHANGED <<taskFrame, idVars, epochUnix, epochAt, disturbed, call, calls>>

-----------------------------------------------------------------------------
(* run_inner(): the reporting opens the gate, begin_run() prepares the       *)
(* context, set_csi() arms the radio; and the end of the run.                *)

runFrame == <<now, epochVars, call, queueVars, capVars, calls, hostVars>>

\* set_runtime_reporting, then begin_run's session id: a fresh one unless pinned.
StartRun ==
    /\ taskPc = "idle" /\ ~inRun /\ ~Emitting
    /\ run < MaxRuns
    /\ reports' = TRUE
    /\ inRun' = TRUE
    /\ taskPc' = "session_id"
    /\ UNCHANGED <<runFrame, idVars, streamSeq, pending, intent, armed, run, muddled>>

\* A capture overlaps begin_run.
Overlap == capPc # "idle"

StoreSessionId ==
    /\ taskPc = "session_id"
    /\ sessionId' = IF pinned THEN sessionId ELSE run + 1
    /\ muddled' = (muddled \/ Overlap)
    /\ taskPc' = "stream_seq"
    /\ UNCHANGED <<runFrame, pinned, streamSeq, pending, gateVars, run>>

StoreStreamSeq ==
    /\ taskPc = "stream_seq"
    /\ streamSeq' = 0
    /\ muddled' = (muddled \/ Overlap)
    /\ taskPc' = "pending"
    /\ UNCHANGED <<runFrame, idVars, pending, gateVars, run>>

\* The last store of begin_run; set_csi follows.
StorePending ==
    /\ taskPc = "pending"
    /\ pending' = TRUE
    /\ armed' = TRUE
    /\ run' = run + 1
    /\ muddled' = (muddled \/ Overlap)
    /\ taskPc' = "idle"
    /\ UNCHANGED <<runFrame, idVars, streamSeq, intent, reports, inRun>>

\* reset_globals: the consumer is removed; CSI_QUEUE keeps what it holds.
EndRun ==
    /\ taskPc = "idle" /\ inRun /\ ~Emitting
    /\ intent' = FALSE
    /\ inRun' = FALSE
    /\ UNCHANGED <<runFrame, idVars, streamSeq, pending, taskPc, reports, armed, run,
                   muddled>>

-----------------------------------------------------------------------------
(* The CSI callback and emit(): CsiPacket::new() and the async queue. *)

capFrame == <<now, idVars, epochVars, taskPc, call, gateVars, dropOldest, run, calls, hostVars>>

\* Packet construction begins.
Build(producer) ==
    /\ capPc = "idle"
    /\ captured < MaxFrames
    /\ captured' = captured + 1
    /\ packet' = [NoPacket EXCEPT !.source = producer]
    /\ disturbed' = FALSE
    /\ muddled' = (muddled \/ taskPc \in {"session_id", "stream_seq", "pending"})
    /\ capPc' = "announce"
    /\ UNCHANGED <<capFrame, streamSeq, pending, ring, lost, anchorWrong>>

\* capture_csi_info: the radio delivers a frame and the gate is open.
Capture == armed /\ intent /\ reports /\ Build("callback")

\* emit(): a task has a frame of another source, and the gate is open.
Emit == Emits /\ taskPc = "idle" /\ intent /\ reports /\ Build("emit")

buildFrame == <<capFrame, streamSeq, ring, lost, muddled, captured>>

\* Mutant: without a wall time the announcement is consumed but not made.
TakeAnchorOnly ==
    /\ capPc = "announce"
    /\ pending' = FALSE
    /\ packet' = [packet EXCEPT !.announces = pending /\ epochSet, !.run = run]
    /\ capPc' = IF pending THEN "epoch" ELSE "envelope"
    /\ UNCHANGED <<buildFrame, disturbed, anchorWrong>>

\* take_announcement: ANCHOR_PENDING is swapped.
TakeAnnouncement ==
    /\ capPc = "announce"
    /\ pending' = FALSE
    /\ packet' = [packet EXCEPT !.announces = pending, !.run = run]
    /\ capPc' = IF pending THEN "epoch" ELSE "envelope"
    /\ UNCHANGED <<buildFrame, disturbed, anchorWrong>>

\* EPOCH_SET is loaded, perhaps while an anchor in force is half replaced.
LoadEpochSet ==
    /\ capPc = "epoch"
    /\ disturbed' = (call.replaces /\ taskPc = "epoch_at")
    /\ capPc' = IF epochSet THEN "now" ELSE "envelope"
    /\ UNCHANGED <<buildFrame, pending, packet, anchorWrong>>

ReadNow ==
    /\ capPc = "now"
    /\ packet' = [packet EXCEPT !.epoch = now]
    /\ capPc' = "at"
    /\ UNCHANGED <<buildFrame, pending, disturbed, anchorWrong>>

\* EPOCH_AT_TICKS is loaded and subtracted, saturating.
LoadAt ==
    /\ capPc = "at"
    /\ packet' = [packet EXCEPT !.epoch = IF epochAt < packet.epoch
                                          THEN packet.epoch - epochAt ELSE 0]
    /\ capPc' = "unix"
    /\ UNCHANGED <<buildFrame, pending, disturbed, anchorWrong>>

\* EPOCH_UNIX_US is loaded and the elapsed time added.
LoadUnix ==
    /\ capPc = "unix"
    /\ packet' = [packet EXCEPT !.epoch = epochUnix + packet.epoch]
    /\ anchorWrong' = (anchorWrong \/ (~disturbed /\ packet'.epoch # WallOffset + now))
    /\ capPc' = "envelope"
    /\ UNCHANGED <<buildFrame, pending, disturbed>>

\* next_envelope: the session id and the next number of the stream.
NextEnvelope ==
    /\ capPc = "envelope"
    /\ packet' = [packet EXCEPT !.session = sessionId, !.seq = streamSeq]
    /\ streamSeq' = streamSeq + 1
    /\ capPc' = "deliver"
    /\ UNCHANGED <<capFrame, pending, ring, lost, muddled, captured, disturbed, anchorWrong>>

deliverFrame == <<capFrame, pending, muddled, packet, captured, disturbed, anchorWrong>>

Place(p) == <<p.run, p.seq>>

\* deliver(): CSI_QUEUE takes the packet, or is full.
Enqueue ==
    /\ capPc = "deliver"
    /\ \/ Len(ring) < Depth /\ ring' = Append(ring, packet) /\ capPc' = "idle"
       \/ Len(ring) = Depth /\ capPc' = "overflow" /\ UNCHANGED ring
    /\ UNCHANGED <<deliverFrame, streamSeq, lost>>

\* Mutant: a refused packet gives its number back.
OverflowReusesNumber ==
    /\ capPc = "overflow"
    /\ \/ dropOldest /\ capPc' = "evict" /\ UNCHANGED <<lost, streamSeq>>
       \/ ~dropOldest /\ capPc' = "idle" /\ lost' = lost \cup {Place(packet)}
          /\ streamSeq' = packet.seq
    /\ UNCHANGED <<deliverFrame, ring>>

\* The overflow policy is read after the queue was found full: the packet is
\* refused, or room is made for it.
Overflow ==
    /\ capPc = "overflow"
    /\ \/ dropOldest /\ capPc' = "evict" /\ UNCHANGED lost
       \/ ~dropOldest /\ capPc' = "idle" /\ lost' = lost \cup {Place(packet)}
    /\ UNCHANGED <<deliverFrame, streamSeq, ring>>

\* The oldest packet is discarded, if the consumer has left any.
Evict ==
    /\ capPc = "evict"
    /\ \/ ring # <<>> /\ ring' = Tail(ring) /\ lost' = lost \cup {Place(Head(ring))}
       \/ ring = <<>> /\ UNCHANGED <<ring, lost>>
    /\ capPc' = "retry"
    /\ UNCHANGED <<deliverFrame, streamSeq>>

\* The second attempt; a failure is ignored.
Retry ==
    /\ capPc = "retry"
    /\ IF Len(ring) < Depth
       THEN ring' = Append(ring, packet) /\ UNCHANGED lost
       ELSE lost' = lost \cup {Place(packet)} /\ UNCHANGED ring
    /\ capPc' = "idle"
    /\ UNCHANGED <<deliverFrame, streamSeq>>

-----------------------------------------------------------------------------
(* The consumer: next_csi_packet(), and the choice of the overflow policy. *)

hostFrame == <<now, idVars, epochVars, streamSeq, pending, taskPc, call, reports, armed, inRun,
               capVars, run, calls, muddled>>

\* The first await installs the consumer.
Install ==
    /\ ~intent /\ ~Emitting
    /\ intent' = TRUE
    /\ UNCHANGED <<hostFrame, queueVars, hostVars>>

\* Number s of run x accounts for the packets lost since number `due': the
\* numbers left out are those of lost packets, and s is not.
Accounts(x, s, due) == due <= s /\ \A n \in due .. s : <<x, n>> \in lost <=> n < s

\* A packet is received.
Receive ==
    /\ intent /\ ring # <<>> /\ ~Emitting
    /\ ring' = Tail(ring)
    /\ LET p == Head(ring)
           due == IF tally.run = p.run THEN tally.next ELSE 0
       IN /\ heard' = IF p.announces THEN heard \cup {p.run} ELSE heard
          /\ tally' = [run |-> p.run, next |-> p.seq + 1]
          /\ misnumbered' = (misnumbered \/ ~Accounts(p.run, p.seq, due))
    /\ UNCHANGED <<hostFrame, intent, dropOldest, lost>>

\* set_csi_queue_overflow.
SetOverflow ==
    /\ ~Emitting
    /\ dropOldest' = ~dropOldest
    /\ UNCHANGED <<hostFrame, intent, ring, lost, hostVars>>

SessionNext ==
    \/ PassTime
    \/ \E withEpoch \in BOOLEAN : CallSetSession(withEpoch)
    \/ StorePinned \/ StoreNoEpoch \/ StoreUnix \/ StoreAt \/ StoreEpochSet
    \/ StartRun \/ StoreSessionId \/ StoreStreamSeq \/ StorePending \/ EndRun
    \/ Capture \/ Emit
    \/ TakeAnnouncement \/ LoadEpochSet \/ ReadNow \/ LoadAt \/ LoadUnix \/ NextEnvelope
    \/ Enqueue \/ Overflow \/ Evict \/ Retry
    \/ Install \/ Receive \/ SetOverflow

SessionSpec == SessionInit /\ [][SessionNext]_sessionVars

-----------------------------------------------------------------------------
(* Types and properties. *)

Packets == [announces : BOOLEAN, epoch : Nat, session : Nat, seq : Nat, run : Nat,
            source : Producers]

SessionTypeOK ==
    /\ {now, sessionId, epochUnix, epochAt, streamSeq, run, calls, captured} \subseteq Nat
    /\ lost \subseteq Nat \X Nat
    /\ {dropOldest, pinned, epochSet, pending, intent, reports, armed, inRun, disturbed,
        muddled, anchorWrong, misnumbered} \subseteq BOOLEAN
    /\ taskPc \in {"idle", "pin", "epoch_none", "epoch_unix", "epoch_at", "epoch_set",
                   "session_id", "stream_seq", "pending"}
    /\ capPc \in {"idle", "announce", "epoch", "now", "at", "unix", "envelope", "deliver",
                  "overflow", "evict", "retry"}
    /\ call \in [session : Nat, epoch : Nat, replaces : BOOLEAN]
    /\ packet \in Packets /\ ring \in Seq(Packets) /\ Len(ring) <= Depth
    /\ heard \subseteq Nat /\ tally \in [run : Nat, next : Nat]

\* An announcement's wall time is the time of its frame, whenever set_session
\* is called: the flag is stored after the values it publishes (session.rs:51,
\* :190).  Only a call that replaces an earlier anchor while the callback reads
\* it can tear it.
AnchorIsTrue == ~anchorWrong

\* Where no frame is captured across a begin_run, a gap in the received stream
\* numbers is exactly the packets CSI_QUEUE refused or discarded, in every run
\* and under both overflow policies, and a lost packet is never received
\* (next_envelope, session.rs:157; deliver, delivery.rs:912-933).  The counter is
\* the stream's, shared by the callback and emit(), where the docs of the number
\* call it a "per-source frame counter" (wire/mod.rs:53).
GapsAreDrops == ~muddled => ~misnumbered

\* The consumer hears of a run before its frames, unless CSI_QUEUE refused or
\* discarded the run's first packet: the announcement is consumed when that
\* packet is built, for whoever builds it, and is not renewed when the packet
\* is lost (take_announcement, session.rs:191), although the docs promise one
\* to every run (lib.rs:172).
OnlyLossHidesARun ==
    ~muddled /\ tally.next > 0 => tally.run \in heard \/ <<tally.run, 0>> \in lost
=============================================================================
