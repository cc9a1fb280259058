----------------------------- MODULE CsiStats -----------------------------
(***************************************************************************)
(* The statistics of stats.rs, as far as they relate frames to each other:  *)
(* the table of transmitters, whose 802.11 sequence numbers tell how many    *)
(* frames are missing.  The CSI callback folds the frames in; the executor   *)
(* clears the table when a run begins, and asks for a resynchronisation      *)
(* after CSI output was switched off or on.  The other counters and the      *)
(* rates only count, and are left out.                                      *)
(*                                                                          *)
(* The histories count the numbers that no first transmission recorded: the  *)
(* frame was lost on the air, a filter or the policy withheld it, it came     *)
(* while output was off, or only a retry of it was recorded.                 *)
(***************************************************************************)
EXTENDS Integers, Sequences, FiniteSets

CONSTANTS
    Transmitters,
    TrackedTx,   \* MAX_TRACKED_TX (16)
    SeqModulus,  \* the sequence numbers are modulo 0x1000
    GapLimit,    \* a longer gap is a restart (500)
    FirstSeq,    \* the number every transmitter begins with
    MaxSent,     \* bound on the frames on the air
    MaxToggles,  \* bound on the switches of CSI output
    MaxRestarts  \* bound on the runs begun while frames arrive

ASSUME TrackedTxAssumption == TrackedTx \in Nat \ {0}
ASSUME NumbersAssumption ==
    /\ SeqModulus \in Nat \ {0, 1}
    /\ GapLimit \in 1 .. SeqModulus
    /\ FirstSeq \in 0 .. SeqModulus - 1

VARIABLES
    table,         \* PER_TX: the transmitters tracked
    txClock,       \* PER_TX_CLOCK
    resetTracker,  \* RESET_SEQ_TRACKER
    output,        \* CSI_OUTPUT_ENABLED, and the publish gate with it
    outputChanged, \* CSI_OUTPUT_CHANGED, not yet handled by run_process_csi_packet
    seqGap,        \* STATS.rx_seq_gap
    framePc,       \* what the callback does next
    frame,         \* the frame it works on
    resyncAll,     \* RESET_SEQ_TRACKER, as swapped
    stamp,         \* the value drawn from PER_TX_CLOCK
    gap,           \* the gap found, to be recorded as a loss
    restarts,      \* history: runs begun
    resetPc,       \* what stats_begin_run clears next
    air,           \* the next number of each transmitter
    sent,          \* history: frames sent
    toggles,       \* history: switches of CSI output
    missing,       \* history: numbers of each transmitter since the last that a first
                   \* transmission recorded
    truth,         \* history: the gaps of each tracked transmitter, as they were
    toggled,       \* history: output was switched since the transmitter was recorded
    recency,       \* history: the transmitters recorded, the latest first
    total,         \* history: the gaps to be counted since the counters were cleared
    mixed          \* history: a frame amid a switch of output

callbackVars == <<framePc, frame, resyncAll, stamp, gap>>
airVars == <<air, sent>>
truthVars == <<missing, truth, total, toggled, recency>>
switchVars == <<output, outputChanged, toggles>>
statsVars == <<table, txClock, resetTracker, switchVars, seqGap,
               callbackVars, resetPc, restarts, airVars, truthVars, mixed>>

NoFrame == [tx |-> "nobody", seq |-> 0, retry |-> FALSE, skipped |-> 0]

StatsInit ==
    /\ table = <<>> /\ txClock = 0 /\ resetTracker = FALSE
    /\ output = TRUE /\ outputChanged = FALSE /\ toggles = 0
    /\ seqGap = 0
    /\ framePc = "idle" /\ frame = NoFrame
    /\ resyncAll = FALSE /\ stamp = 0 /\ gap = 0
    /\ resetPc = "idle" /\ restarts = 0
    /\ air = [t \in Transmitters |-> FirstSeq] /\ sent = 0
    /\ missing = [t \in Transmitters |-> 0]
    /\ truth = [t \in Transmitters |-> 0] /\ total = 0
    /\ toggled = [t \in Transmitters |-> FALSE] /\ recency = <<>>
    /\ mixed = FALSE

-----------------------------------------------------------------------------
(* The air. *)

Advance(t) ==
    /\ sent < MaxSent
    /\ sent' = sent + 1
    /\ air' = [air EXCEPT ![t] = (@ + 1) % SeqModulus]

\* How many numbers went by since a first transmission of t was recorded, those
\* that a retry in hand still carries included.
Silence(t) == missing[t] + (IF frame.tx = t /\ frame.retry THEN frame.skipped ELSE 0)

\* A frame is not recorded: it is lost on the air, or output is off, or a filter,
\* the policy or its length withholds it.  A silence longer than the numbers can
\* tell is out of the model.
Misses(t) ==
    /\ Advance(t)
    /\ Silence(t) < SeqModulus - 2
    /\ missing' = [missing EXCEPT ![t] = @ + 1]
    /\ UNCHANGED <<table, txClock, resetTracker, switchVars, seqGap, callbackVars, resetPc,
                   restarts, truth, total, toggled, recency, mixed>>

-----------------------------------------------------------------------------
(* capture_csi_info() and deliver(), in the CSI callback. *)

callbackFrame == <<seqGap, resetTracker, table, txClock, switchVars, resetPc, restarts>>

\* The frame passes the gate, the filters, the policy and the size check.
Recorded(t, seq, retry, skipped) ==
    /\ output
    /\ frame' = [tx |-> t, seq |-> seq, retry |-> retry, skipped |-> skipped]
    /\ missing' = [missing EXCEPT ![t] = 0]
    /\ framePc' = "swap"
    /\ mixed' = (mixed \/ outputChanged)
    /\ UNCHANGED <<resyncAll, stamp, gap>>

\* The next frame of a transmitter is heard and recorded.
Hear(t) ==
    /\ framePc = "idle"
    /\ Advance(t)
    /\ Recorded(t, air[t], FALSE, missing[t])
    /\ UNCHANGED <<callbackFrame, truth, total, toggled, recency>>

\* What is missing before the transmitter's last number.
Earlier(t) == IF missing[t] = 0 THEN 0 ELSE missing[t] - 1

\* Its last frame is heard again; the retry bit is known with the header digest,
\* and of a retry the number itself is not recorded.
HearAgain(t, retry) ==
    /\ framePc = "idle"
    /\ sent < MaxSent /\ air[t] # FirstSeq
    /\ sent' = sent + 1
    /\ Recorded(t, (air[t] + SeqModulus - 1) % SeqModulus, retry,
                IF retry THEN missing[t] ELSE Earlier(t))
    /\ UNCHANGED <<callbackFrame, air, truth, total, toggled, recency>>

\* record_tx_frame: the clock is drawn and the resynchronisation taken.
DrawClock ==
    /\ framePc = "swap"
    /\ stamp' = txClock /\ txClock' = txClock + 1
    /\ resyncAll' = resetTracker /\ resetTracker' = FALSE
    /\ framePc' = "fold"
    /\ UNCHANGED <<table, switchVars, seqGap, frame, gap, resetPc, restarts, airVars,
                   truthVars, mixed>>

\* The least recently heard transmitter.
Oldest == CHOOSE m \in DOMAIN table : \A n \in DOMAIN table : table[m].lastUsed <= table[n].lastUsed

\* Mutant: one transmitter too many is tracked.
KeptOneMore ==
    IF frame.tx \in DOMAIN table \/ Cardinality(DOMAIN table) <= TrackedTx
    THEN DOMAIN table ELSE DOMAIN table \ {Oldest}

\* The slots left when this frame's transmitter has one.
Kept ==
    IF frame.tx \in DOMAIN table \/ Cardinality(DOMAIN table) < TrackedTx
    THEN DOMAIN table ELSE DOMAIN table \ {Oldest}

Resynced == [m \in DOMAIN table |-> [table[m] EXCEPT !.resync = @ \/ resyncAll]]

Known == frame.tx \in DOMAIN table

\* Mutant: the numbers are compared as if they never wrapped.
GapFoundNoWrap ==
    LET diff == frame.seq - table[frame.tx].lastSeq
    IN IF Known /\ ~Resynced[frame.tx].resync /\ ~frame.retry /\ diff > 1 /\ diff < GapLimit
       THEN diff - 1 ELSE 0

\* The frames between the entry's number and this one, unless it is the first,
\* a retry, or too far off.
GapFound ==
    LET diff == (frame.seq + SeqModulus - table[frame.tx].lastSeq) % SeqModulus
    IN IF Known /\ ~Resynced[frame.tx].resync /\ ~frame.retry /\ diff > 1 /\ diff < GapLimit
       THEN diff - 1 ELSE 0

Entry(used) ==
    [gaps     |-> IF Known THEN table[frame.tx].gaps + GapFound ELSE 0,
     lastSeq  |-> IF Known /\ frame.retry THEN table[frame.tx].lastSeq ELSE frame.seq,
     lastUsed |-> used,
     resync   |-> FALSE]

Folded(used) == [m \in Kept \cup {frame.tx} |-> IF m = frame.tx THEN Entry(used) ELSE Resynced[m]]

\* The place a transmitter leaves when it comes first: its own, or else the
\* next free one, or else the last.
PlaceOf(t) ==
    IF \E i \in 1 .. Len(recency) : recency[i] = t
    THEN CHOOSE i \in 1 .. Len(recency) : recency[i] = t
    ELSE IF Len(recency) < TrackedTx THEN Len(recency) + 1 ELSE TrackedTx

\* Those before that place make room.
MovedToFront(t) ==
    [i \in 1 .. (IF PlaceOf(t) > Len(recency) THEN PlaceOf(t) ELSE Len(recency)) |->
        IF i = 1 THEN t ELSE IF i <= PlaceOf(t) THEN recency[i - 1] ELSE recency[i]]

\* What the frame says of its transmitter's numbers, whatever the table holds: a
\* first transmission ends the silence, a retry of a recent transmitter does not.
TrueFold ==
    LET t == frame.tx
        recent == \E i \in 1 .. Len(recency) : recency[i] = t
        counted == IF frame.retry \/ toggled[t] \/ frame.skipped + 1 >= GapLimit
                   THEN 0 ELSE frame.skipped
    IN /\ truth' = [truth EXCEPT ![t] = IF recent THEN @ + counted ELSE 0]
       /\ total' = IF recent THEN total + counted ELSE total
       /\ missing' = [missing EXCEPT ![t] = IF recent /\ frame.retry THEN @ + frame.skipped ELSE @]
       /\ toggled' = [toggled EXCEPT ![t] = FALSE]
       /\ recency' = MovedToFront(t)

\* The gap is all that is left when the lock is released.
Unlock ==
    /\ framePc' = "loss"
    /\ gap' = GapFound
    /\ frame' = NoFrame /\ resyncAll' = FALSE /\ stamp' = 0
    /\ UNCHANGED <<txClock, resetTracker, switchVars, seqGap, resetPc, restarts, airVars, mixed>>

\* The frame is folded into its transmitter's entry, under the lock.
FoldFrame ==
    /\ framePc = "fold"
    /\ table' = Folded(stamp)
    /\ TrueFold
    /\ Unlock

\* record_loss for the gap, outside the lock.
RecordGap ==
    /\ framePc = "loss"
    /\ seqGap' = seqGap + gap
    /\ gap' = 0
    /\ framePc' = "idle"
    /\ UNCHANGED <<table, txClock, resetTracker, switchVars, frame, resyncAll, stamp, resetPc,
                   restarts, airVars, truthVars, mixed>>

-----------------------------------------------------------------------------
(* The executor: output switches, run_process_csi_packet, a run's beginning. *)

executorFrame == <<txClock, callbackVars, airVars, missing>>
truthHistory == <<truth, total, toggled, recency, mixed>>

\* set_csi_output_enabled: the gate is recomputed, the task is signalled.
SetOutput ==
    /\ toggles < MaxToggles
    /\ output' = ~output /\ outputChanged' = TRUE /\ toggles' = toggles + 1
    /\ toggled' = [t \in Transmitters |-> TRUE]
    /\ mixed' = (mixed \/ framePc \in {"swap", "fold"})
    /\ UNCHANGED <<executorFrame, table, resetTracker, seqGap, resetPc, restarts, truth, total,
                   recency>>

\* run_process_csi_packet sees the signal.
HandleToggle ==
    /\ outputChanged
    /\ outputChanged' = FALSE
    /\ resetTracker' = TRUE
    /\ UNCHANGED <<executorFrame, table, output, toggles, seqGap, resetPc, restarts,
                   truthHistory>>

\* stats_begin_run clears the counters, then the table; the radio may be
\* delivering since an earlier run, and a gap found before is counted after.
ResetCounters ==
    /\ resetPc = "idle"
    /\ restarts < MaxRestarts /\ restarts' = restarts + 1
    /\ seqGap' = 0
    /\ total' = IF framePc = "loss" THEN gap ELSE 0
    /\ resetPc' = "table"
    /\ UNCHANGED <<executorFrame, table, resetTracker, switchVars, truth, toggled, recency,
                   mixed>>

ResetTable ==
    /\ resetPc = "table"
    /\ table' = <<>>
    /\ recency' = <<>>
    /\ truth' = [t \in Transmitters |-> 0]
    /\ resetPc' = "idle"
    /\ UNCHANGED <<executorFrame, restarts, resetTracker, switchVars, seqGap, total, toggled,
                   mixed>>

StatsNext ==
    \/ \E t \in Transmitters : Hear(t)
    \/ \E t \in Transmitters : Misses(t)
    \/ \E t \in Transmitters, retry \in BOOLEAN : HearAgain(t, retry)
    \/ DrawClock \/ FoldFrame \/ RecordGap
    \/ SetOutput \/ HandleToggle
    \/ ResetCounters \/ ResetTable

StatsSpec == StatsInit /\ [][StatsNext]_statsVars

-----------------------------------------------------------------------------
(* Types and properties. *)

StatsTypeOK ==
    /\ DOMAIN table \subseteq Transmitters /\ Cardinality(DOMAIN table) <= TrackedTx
    /\ \A m \in DOMAIN table :
          table[m] \in [gaps : Nat, lastSeq : 0 .. SeqModulus - 1, lastUsed : Nat,
                        resync : BOOLEAN]
    /\ {txClock, seqGap, stamp, gap, sent, toggles, restarts, total} \subseteq Nat
    /\ {resetTracker, output, outputChanged, resyncAll, mixed} \subseteq BOOLEAN
    /\ framePc \in {"idle", "swap", "fold", "loss"}
    /\ resetPc \in {"idle", "table"}

\* Unless a frame comes between a switch of output and its handling, a tracked
\* transmitter's gaps are the numbers that went by between two of its first
\* transmissions that were recorded, save where there were too many or output
\* was switched since its frame before; and the counter is their sum.  So it is
\* across the wrap of the numbers, retries, evictions, resynchronisations and
\* restarts (record_tx_frame, stats.rs:323).  Such a number was not always lost:
\* one that a filter or the policy withheld counts, which stats.rs:24-26 and
\* :252 call no loss; so does one recorded as a retry only (:293); and a retry
\* uses up the resynchronisation (:358), so that what output being off hid is
\* counted with the frame after it, against :73-75.
GapsAreUnrecordedNumbers ==
    ~mixed => /\ \A m \in DOMAIN table : table[m].gaps = truth[m]
              /\ framePc = "idle" => seqGap = total
=============================================================================
