---------------------------- MODULE ReceiveClock ----------------------------
(***************************************************************************)
(* The receive clock of csi/session.rs: widen_timestamp() stretches the     *)
(* radio's 32-bit microsecond timestamp to 64 bits inside the CSI callback, *)
(* while begin_run() restarts it from the executor.  Every access to the    *)
(* two statics is a step of its own.                                        *)
(*                                                                          *)
(* A receive time is a pair <<epoch, raw>>: how often the radio's counter   *)
(* has wrapped, and what it shows.  A stamp is the same pair as the code    *)
(* computes it.  The epoch of a run's first frame is 1, so that a straggler *)
(* from the epoch before it can be told.                                    *)
(***************************************************************************)
EXTENDS Naturals

CONSTANTS
    Half,       \* HALF: u32::MAX / 2
    MaxEpoch    \* bound on the wraps of a behaviour

ASSUME HalfAssumption == Half \in Nat \ {0}
ASSUME MaxEpochAssumption == MaxEpoch \in Nat

\* The raw counter runs modulo 2^32, and u32::MAX / 2 rounds down.
Modulus == 2 * Half + 2
Raw == 0 .. Modulus - 1

VARIABLES
    last,       \* TS_LAST_RAW
    wraps,      \* TS_WRAPS
    runPc,      \* what begin_run does next
    stampPc,    \* what widen_timestamp does next
    loaded,     \* `last`, as widen_timestamp loaded it
    count,      \* `wraps`, as widen_timestamp computed it
    rxEpoch, rxRaw,         \* the receive time of the frame being stamped
    newestEpoch, newestRaw, \* history: the latest receive time stamped in this run
    fresh,      \* history: no frame was stamped in this run
    calm,       \* history: the run kept within what the widening is built for
    stampEpoch, stampRaw,   \* history: the last stamp given
    trueEpoch, trueRaw      \* history: the receive time that stamp stands for

statics == <<last, wraps>>
stampVars == <<stampPc, loaded, count, rxEpoch, rxRaw>>
stampHistory == <<stampEpoch, stampRaw, trueEpoch, trueRaw>>
frameHistory == <<newestEpoch, newestRaw, fresh, calm>>
clockVars == <<statics, runPc, stampVars, stampHistory, frameHistory>>

ClockInit ==
    /\ last = 0 /\ wraps = 0
    /\ runPc = "idle"
    /\ stampPc = "idle" /\ loaded = 0 /\ count = 0 /\ rxEpoch = 1 /\ rxRaw = 0
    /\ fresh = TRUE /\ newestEpoch = 1 /\ newestRaw = 0
    /\ stampEpoch = 0 /\ stampRaw = 0 /\ trueEpoch = 1 /\ trueRaw = 0
    /\ calm = FALSE

-----------------------------------------------------------------------------
(* begin_run(), on the executor. *)

\* A new run, with no stamp given yet.  A frame that is being stamped now
\* straddles the restart.
RestartLast ==
    /\ runPc = "idle"
    /\ last' = 0
    /\ runPc' = "wraps"
    /\ fresh' = TRUE /\ newestEpoch' = 1 /\ newestRaw' = 0
    /\ stampEpoch' = 0 /\ stampRaw' = 0 /\ trueEpoch' = 1 /\ trueRaw' = 0
    /\ calm' = (stampPc = "idle")
    /\ UNCHANGED <<wraps, stampVars>>

RestartWraps ==
    /\ runPc = "wraps"
    /\ wraps' = 0
    /\ runPc' = "idle"
    /\ UNCHANGED <<last, stampVars, stampHistory, frameHistory>>

-----------------------------------------------------------------------------
(* widen_timestamp(), in the CSI callback. *)

\* A frame received at <<e, r>> is the newest, by at most Half.
SoonAfter(e, r) ==
    \/ e = newestEpoch /\ r >= newestRaw /\ r - newestRaw <= Half
    \/ e = newestEpoch + 1 /\ r + Modulus - newestRaw <= Half

\* A frame received at <<e, r>> is older than the newest, by at most Half.
SlightlyLate(e, r) ==
    \/ e = newestEpoch /\ r < newestRaw /\ newestRaw - r <= Half
    \/ e + 1 = newestEpoch /\ newestRaw + Modulus - r <= Half

\* What the widening is built for: silences and delays of at most half the
\* range, nothing from before the first frame's epoch, and no restart of the
\* clock around the stamp.
Ordinary(e, r) ==
    /\ runPc = "idle"
    /\ e > 0
    /\ fresh \/ SoonAfter(e, r) \/ SlightlyLate(e, r)

\* A frame received at <<e, r>> is the newest of its run.
IsNewest(e, r) ==
    fresh \/ e > newestEpoch \/ (e = newestEpoch /\ r > newestRaw)

\* The callback enters with a frame received at <<e, r>> and loads `last`.
Enter(e, r) ==
    /\ stampPc = "idle"
    /\ wraps <= MaxEpoch
    /\ fresh => e = 1
    /\ rxEpoch' = e /\ rxRaw' = r
    /\ loaded' = last
    /\ calm' = (calm /\ Ordinary(e, r))
    /\ newestEpoch' = IF IsNewest(e, r) THEN e ELSE newestEpoch
    /\ newestRaw' = IF IsNewest(e, r) THEN r ELSE newestRaw
    /\ fresh' = FALSE
    /\ stampPc' = "judge"
    /\ UNCHANGED <<statics, runPc, count, stampHistory>>

\* The cases of widen_timestamp, on the loaded `last`.
Wrapped == rxRaw < loaded /\ loaded - rxRaw > Half
Straggler == rxRaw >= loaded /\ rxRaw - loaded > Half /\ wraps > 0
Advances == rxRaw >= loaded /\ ~Straggler

\* Mutant: a straggler from before the wrap is stamped with the new epoch.
JudgeNoStraggler ==
    /\ stampPc = "judge"
    /\ wraps' = IF Wrapped THEN wraps + 1 ELSE wraps
    /\ count' = wraps'
    /\ stampPc' = IF Wrapped \/ Advances THEN "advance" ELSE "keep"
    /\ UNCHANGED <<last, runPc, loaded, rxEpoch, rxRaw, stampHistory, frameHistory>>

\* Load `wraps`, compare, and count a wrap.
Judge ==
    /\ stampPc = "judge"
    /\ wraps' = IF Wrapped THEN wraps + 1 ELSE wraps
    /\ count' = IF Straggler THEN wraps - 1 ELSE wraps'
    /\ stampPc' = IF Wrapped \/ Advances THEN "advance" ELSE "keep"
    /\ UNCHANGED <<last, runPc, loaded, rxEpoch, rxRaw, stampHistory, frameHistory>>

\* Store `last` unless the frame was late, and return the stamp.
Return64 ==
    /\ stampPc \in {"advance", "keep"}
    /\ last' = IF stampPc = "advance" THEN rxRaw ELSE last
    /\ stampEpoch' = count /\ stampRaw' = rxRaw
    /\ trueEpoch' = rxEpoch /\ trueRaw' = rxRaw
    /\ stampPc' = "idle"
    /\ UNCHANGED <<wraps, runPc, loaded, count, rxEpoch, rxRaw, frameHistory>>

ClockNext ==
    \/ RestartLast \/ RestartWraps
    \/ \E e \in 0 .. MaxEpoch, r \in Raw : Enter(e, r)
    \/ Judge \/ Return64

ClockSpec == ClockInit /\ [][ClockNext]_clockVars

-----------------------------------------------------------------------------
(* Types and properties. *)

ClockTypeOK ==
    /\ last \in Raw /\ wraps \in Nat
    /\ runPc \in {"idle", "wraps"}
    /\ stampPc \in {"idle", "judge", "advance", "keep"}
    /\ loaded \in Raw /\ count \in Nat /\ rxEpoch \in Nat /\ rxRaw \in Raw
    /\ newestEpoch \in Nat /\ newestRaw \in Raw
    /\ fresh \in BOOLEAN /\ calm \in BOOLEAN
    /\ stampEpoch \in Nat /\ stampRaw \in Raw
    /\ trueEpoch \in Nat /\ trueRaw \in Raw

\* A run whose silences and delays stay within half the counter's range, and
\* that is not restarted under a frame, stamps every frame with its receive
\* time: late frames on either side of a wrap included (widen_timestamp,
\* session.rs:135; RxMeta::timestamp_us, wire/mod.rs:180).  Epochs are counted
\* from that of the run's first frame.
TimestampsAreTrue ==
    calm => stampEpoch + 1 = trueEpoch /\ stampRaw = trueRaw

\* The inductive strengthening: in a calm run the statics hold the newest
\* receive time, except while that frame is being stamped.
Restarting == (calm /\ runPc = "wraps") => fresh
Untouched == (calm /\ fresh) =>
    /\ stampPc = "idle" /\ last = 0 /\ newestEpoch = 1 /\ newestRaw = 0
    /\ runPc = "idle" => wraps = 0
Settled == (calm /\ ~fresh /\ stampPc = "idle") =>
    last = newestRaw /\ wraps + 1 = newestEpoch
Entered == (calm /\ stampPc # "idle") => loaded = last /\ rxEpoch > 0 /\ ~fresh
Judging == (calm /\ stampPc = "judge") =>
    \/ /\ rxEpoch = newestEpoch /\ rxRaw = newestRaw
       /\ wraps + 1 = rxEpoch /\ rxRaw >= last
       /\ rxRaw - last > Half => wraps = 0
    \/ /\ rxEpoch = newestEpoch /\ rxRaw = newestRaw
       /\ wraps + 2 = rxEpoch /\ Wrapped
    \/ newestEpoch = wraps + 1 /\ newestRaw = last /\ SlightlyLate(rxEpoch, rxRaw)
Storing == (calm /\ stampPc \in {"advance", "keep"}) =>
    /\ count + 1 = rxEpoch
    /\ wraps + 1 = newestEpoch
    /\ stampPc = "advance" => rxRaw = newestRaw
    /\ stampPc = "keep" => last = newestRaw

ClockInv ==
    /\ ClockTypeOK /\ TimestampsAreTrue
    /\ Restarting /\ Untouched /\ Settled /\ Entered /\ Judging /\ Storing
=============================================================================
