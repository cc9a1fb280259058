----------------------------- MODULE CsiPolicy -----------------------------
(***************************************************************************)
(* The reporting policy of csi/delivery.rs and csi/policy.rs: a policy is   *)
(* written store by store by set_runtime_reporting() and read load by load  *)
(* by the context that judges a measurement, which also keeps the threshold *)
(* and decimation state.  That context is the CSI callback, or a task that  *)
(* calls emit(); emit()'s documentation forbids both at once under a policy *)
(* with state, so one measurement is judged at a time.                      *)
(*                                                                          *)
(* A measurement is abstracted to its buffer's layout (0 for no raw         *)
(* estimate), its source, and its score against the last one of its layout: *)
(* any score is possible.                                                   *)
(***************************************************************************)
EXTENDS Naturals

CONSTANTS
    Policies,   \* the policies set: records [kind, a, b, variation]
    Layouts,    \* buffer lengths of the raw measurements
    MaxScore,   \* 65535 in the code
    MaxTime,    \* bound on the clock
    MaxChanges, \* bound on the policy changes
    MaxJudged   \* bound on the measurements judged

Kinds == {"none", "report", "threshold", "decimate"}

PolicyType == [kind : Kinds, a : Nat, b : Nat, variation : BOOLEAN]

ASSUME PoliciesAssumption == Policies \subseteq PolicyType
ASSUME LayoutsAssumption == Layouts \subseteq Nat \ {0}
ASSUME MaxScoreAssumption == MaxScore \in Nat

VARIABLES
    policyKind,     \* POLICY_KIND
    policyA,        \* POLICY_A: the threshold's level, or the decimation factor
    policyB,        \* POLICY_B: the threshold's hold time
    variation,      \* POLICY_VARIATION
    policyReset,    \* POLICY_RESET
    gate,           \* REPORTS, as far as the publish gate follows it
    writerPc,       \* what set_runtime_reporting stores next
    writing,        \* its argument
    clock,          \* embassy_time::Instant::now()
    bufLen,         \* ThresholdState::buf_len
    holdUntil,      \* ThresholdState::hold_until_us
    decimated,      \* Decimator::count
    judgePc,        \* what the judging context does next
    item,           \* the measurement judged
    kindSeen,       \* POLICY_KIND, as policy_admits_frame loaded it
    level,          \* POLICY_A, as loaded
    score,          \* the measurement's score
    keep,           \* whether it is delivered
    payload,        \* what was delivered of the last measurement
    judged,         \* history: measurements judged
    version,        \* history: how many policies asked for a reset
    turn,           \* history: the version when the measurement passed the reset
    holdVersion,    \* history: the version in which the hold window was opened
    ticks,          \* history: measurements decimated in this version
    offBeat         \* history: a decimated stream kept or lost a wrong one

policyVars == <<policyKind, policyA, policyB, variation, policyReset, gate>>
writerVars == <<writerPc, writing, version>>
stateVars == <<bufLen, holdUntil, decimated, holdVersion, offBeat>>
judgeVars == <<judgePc, item, kindSeen, level, score, keep, payload, judged, turn>>
policyAll == <<policyVars, writerVars, stateVars, judgeVars, ticks, clock>>

NoItem == [layout |-> 0, score |-> 0, emitted |-> FALSE]
Report == [kind |-> "report", a |-> 0, b |-> 0, variation |-> FALSE]

PolicyInit ==
    /\ policyKind = "none" /\ policyA = 0 /\ policyB = 0
    /\ variation = FALSE /\ policyReset = FALSE /\ gate = FALSE
    /\ writerPc = "idle" /\ writing = Report /\ version = 0
    /\ clock = 0
    /\ bufLen = 0 /\ holdUntil = 0 /\ decimated = 0
    /\ holdVersion = 0 /\ ticks = 0 /\ offBeat = FALSE /\ turn = 0
    /\ judgePc = "idle" /\ item = NoItem /\ kindSeen = "none"
    /\ level = 0 /\ score = 0 /\ keep = FALSE /\ payload = "nothing" /\ judged = 0

PassClock ==
    /\ clock < MaxTime
    /\ clock' = clock + 1
    /\ UNCHANGED <<policyVars, writerVars, stateVars, judgeVars, ticks>>

-----------------------------------------------------------------------------
(* set_runtime_reporting(): one store after the other. *)

writerFrame == <<stateVars, judgeVars, clock>>

\* A new policy; a decimation factor is at least 1.
StoreA(p) ==
    /\ writerPc = "idle"
    /\ version < MaxChanges
    /\ writing' = p
    /\ policyA' = IF p.kind = "decimate" /\ p.a = 0 THEN 1 ELSE p.a
    /\ writerPc' = "b"
    /\ UNCHANGED <<writerFrame, policyKind, policyB, variation, policyReset, gate, version, ticks>>

StoreB ==
    /\ writerPc = "b"
    /\ policyB' = writing.b
    /\ writerPc' = "variation"
    /\ UNCHANGED <<writerFrame, writing, version, ticks, policyKind, policyA, variation,
                   policyReset, gate>>

StoreVariation ==
    /\ writerPc = "variation"
    /\ variation' = writing.variation
    /\ writerPc' = "reset"
    /\ UNCHANGED <<writerFrame, writing, version, ticks, policyKind, policyA, policyB,
                   policyReset, gate>>

\* The parameters are in place: a new beat begins.
StoreReset ==
    /\ writerPc = "reset"
    /\ policyReset' = TRUE
    /\ version' = version + 1 /\ ticks' = 0
    /\ writerPc' = "kind"
    /\ UNCHANGED <<writerFrame, writing, policyKind, policyA, policyB, variation, gate>>

StoreKind ==
    /\ writerPc = "kind"
    /\ policyKind' = writing.kind
    /\ writerPc' = "reports"
    /\ UNCHANGED <<writerFrame, writing, version, ticks, policyA, policyB, variation,
                   policyReset, gate>>

StoreReports ==
    /\ writerPc = "reports"
    /\ gate' = (writing.kind # "none")
    /\ writerPc' = "idle" /\ writing' = Report
    /\ UNCHANGED <<writerFrame, version, ticks, policyKind, policyA, policyB, variation,
                   policyReset>>

-----------------------------------------------------------------------------
(* capture_csi_info() and policy_admits_frame(). *)

judgeFrame == <<policyKind, policyA, policyB, variation, gate, writerVars, clock>>

Goto(pc) == judgePc' = pc

\* The context's locals are gone when it returns.
Return ==
    /\ judgePc' = "idle" /\ item' = NoItem /\ kindSeen' = "none"
    /\ level' = 0 /\ score' = 0 /\ keep' = FALSE /\ turn' = version

\* The gate is open: a measurement is judged, and POLICY_KIND is loaded.
\* A report policy passes at once; emit() passes a threshold policy too when
\* the payload has no raw estimate.
BeginJudging(m) ==
    /\ judgePc = "idle"
    /\ gate
    /\ judged < MaxJudged
    /\ judged' = judged + 1
    /\ LET atOnce == policyKind = "report"
                      \/ (m.emitted /\ m.layout = 0 /\ policyKind = "threshold")
       IN IF atOnce /\ m.emitted
          THEN payload' = "channel" /\ Return
          ELSE /\ payload' = "nothing"
               /\ item' = m /\ kindSeen' = policyKind /\ keep' = atOnce
               /\ Goto(IF atOnce THEN "shape" ELSE "reset")
               /\ UNCHANGED <<level, score, turn>>
    /\ UNCHANGED <<judgeFrame, policyReset, stateVars, ticks>>

\* Mutant: the reset leaves an open hold window.
TakeResetKeepsHold ==
    /\ judgePc = "reset"
    /\ policyReset' = FALSE
    /\ bufLen' = IF policyReset THEN 0 ELSE bufLen
    /\ decimated' = IF policyReset THEN 0 ELSE decimated
    /\ turn' = version
    /\ Goto("kind")
    /\ UNCHANGED <<judgeFrame, holdUntil, holdVersion, offBeat, ticks, item, kindSeen, level,
                   score, keep, payload, judged>>

\* policy_admits: a requested reset is taken and carried out.
TakeReset ==
    /\ judgePc = "reset"
    /\ policyReset' = FALSE
    /\ bufLen' = IF policyReset THEN 0 ELSE bufLen
    /\ holdUntil' = IF policyReset THEN 0 ELSE holdUntil
    /\ decimated' = IF policyReset THEN 0 ELSE decimated
    /\ turn' = version
    /\ Goto("kind")
    /\ UNCHANGED <<judgeFrame, holdVersion, offBeat, ticks, item, kindSeen, level, score, keep,
                   payload, judged>>

\* The kind is loaded again.  A threshold scores the buffer: the first one of a
\* layout, and an empty one, score 0.
LoadKind ==
    /\ judgePc = "kind"
    /\ LET scored == policyKind = "threshold" /\ item.layout # 0
       IN /\ score' = IF scored /\ item.layout = bufLen THEN item.score ELSE 0
          /\ bufLen' = IF scored THEN item.layout ELSE bufLen
    /\ keep' = (policyKind \in {"none", "report"})
    /\ Goto(CASE policyKind = "threshold" -> "level"
              [] policyKind = "decimate" -> "factor"
              [] OTHER -> "shape")
    /\ UNCHANGED <<judgeFrame, policyReset, holdUntil, decimated, holdVersion, offBeat, ticks, item,
                   kindSeen, level, payload, judged, turn>>

LoadLevel ==
    /\ judgePc = "level"
    /\ level' = policyA
    /\ Goto("hold")
    /\ UNCHANGED <<judgeFrame, policyReset, stateVars, ticks, item, kindSeen, score, keep,
                   payload, judged, turn>>

\* ThresholdState::decide, with the hold time loaded last.
Decide ==
    /\ judgePc = "hold"
    /\ keep' = (score >= level \/ clock < holdUntil)
    /\ holdUntil' = IF score >= level THEN clock + policyB ELSE holdUntil
    /\ holdVersion' = IF score >= level THEN version ELSE holdVersion
    /\ Goto("shape")
    /\ UNCHANGED <<judgeFrame, policyReset, bufLen, decimated, offBeat, ticks, item, kindSeen,
                   level, score, payload, judged, turn>>

Factor == IF policyA = 0 THEN 1 ELSE policyA

\* The measurement is judged by the beat of the policy in force: it passed the
\* reset in this version, and the factor is this version's.
OnBeat == turn = version /\ writerPc \notin {"b", "variation", "reset"}

\* Decimator::tick.
Tick ==
    /\ judgePc = "factor"
    /\ keep' = (decimated = 0)
    /\ decimated' = IF decimated + 1 >= Factor THEN 0 ELSE decimated + 1
    /\ ticks' = IF turn = version THEN ticks + 1 ELSE ticks
    /\ offBeat' = (offBeat \/ (OnBeat /\ keep' # (ticks % Factor = 0)))
    /\ Goto("shape")
    /\ UNCHANGED <<judgeFrame, policyReset, bufLen, holdUntil, holdVersion, item, kindSeen,
                   level, score, payload, judged, turn>>

\* A kept measurement is delivered: as the channel, or as its score alone when
\* the policy asks for variations.  emit() goes by the kind it loaded first.
Shape ==
    /\ judgePc = "shape"
    /\ LET kind == IF item.emitted THEN kindSeen ELSE policyKind
       IN payload' = IF ~keep THEN "nothing"
                     ELSE IF variation /\ kind = "threshold" THEN "variation" ELSE "channel"
    /\ Return
    /\ UNCHANGED <<judgeFrame, policyReset, stateVars, ticks, judged>>

Items == [layout : Layouts \cup {0}, score : 0 .. MaxScore, emitted : BOOLEAN]

PolicyNext ==
    \/ PassClock
    \/ \E p \in Policies : StoreA(p)
    \/ StoreB \/ StoreVariation \/ StoreReset \/ StoreKind \/ StoreReports
    \/ \E m \in Items : BeginJudging(m)
    \/ TakeReset \/ LoadKind \/ LoadLevel \/ Decide \/ Tick \/ Shape

PolicySpec == PolicyInit /\ [][PolicyNext]_policyAll

-----------------------------------------------------------------------------
(* Types and properties. *)

PolicyTypeOK ==
    /\ policyKind \in Kinds /\ {policyA, policyB} \subseteq Nat
    /\ {variation, policyReset, gate, keep, offBeat} \subseteq BOOLEAN
    /\ writerPc \in {"idle", "b", "variation", "reset", "kind", "reports"}
    /\ writing \in PolicyType
    /\ {clock, holdUntil, decimated, judged, version, turn, holdVersion, ticks} \subseteq Nat
    /\ bufLen \in Layouts \cup {0}
    /\ judgePc \in {"idle", "reset", "kind", "level", "hold", "factor", "shape"}
    /\ item \in Items /\ kindSeen \in Kinds
    /\ level \in Nat /\ score \in 0 .. MaxScore
    /\ payload \in {"nothing", "channel", "variation"}

\* However a policy change is interleaved with the measurements, the stream of
\* the policy in force keeps the first of every n measurements and no other
\* (Decimator::tick, policy.rs:124; POLICY_RESET, delivery.rs:463).
NthIsKept == ~offBeat

\* No hold window outlives its policy: once a change is complete and its reset
\* taken, an open window was opened by the policy in force (set_runtime_reporting
\* stores the parameters before the reset, the reset before the kind,
\* delivery.rs:472; policy_admits, :548).
HoldBelongsToPolicy ==
    (writerPc = "idle" /\ judgePc = "idle" /\ ~policyReset /\ holdUntil > clock)
        => holdVersion = version

\* What is delivered is what the policy in force asks for: the beat of a
\* decimation and the hold of a threshold belong to it (policy_admits runs in
\* the callback, set_runtime_reporting on the executor, delivery.rs:548, :472).
PolicyIsFollowed == NthIsKept /\ HoldBelongsToPolicy
=============================================================================
