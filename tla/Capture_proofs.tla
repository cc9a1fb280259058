---------------------------- MODULE Capture_proofs ----------------------------
(***************************************************************************)
(* Proofs about what a capture keeps from frame to frame: the reporting      *)
(* policy (CsiPolicy), for every set of policies, every layout and score,    *)
(* and any number of changes and measurements; and the statistics            *)
(* (CsiStats), for every size of the table, every modulus and limit, and     *)
(* any number of transmitters and frames.  At the end, the four parts of a   *)
(* capture taken together, as MCCapture runs them.                           *)
(***************************************************************************)
EXTENDS MCCapture, CsiSession_proofs, SequenceTheorems, FiniteSetTheorems, TLAPS

-----------------------------------------------------------------------------
(* Arithmetic: how a beat advances. *)

LEMMA DivMod ==
    ASSUME NEW f \in Nat \ {0}, NEW n \in Nat
    PROVE  \E q \in Nat, r \in 0 .. f - 1 : r = n % f /\ n = f * q + r
  <1>1. PICK q \in Int, r \in Int : q = n \div f /\ r = n % f
    OBVIOUS
  <1>2. f \in Int /\ n \in Int /\ f > 0
    OBVIOUS
  <1>3. n = f * q + r
    BY <1>1, <1>2, SMT
  <1>4. r \in 0 .. f - 1
    BY <1>1
  <1>5. q >= 0
    <2> SUFFICES ASSUME q <= -1 PROVE FALSE
      OBVIOUS
    <2>1. f * (-1 - q) >= 0 /\ f * q \in Int
      OBVIOUS
    <2>2. f * (-1 - q) = -f - f * q
      OBVIOUS
    <2>3. PICK z \in Int : z = f * q
      BY <2>1
    <2>4. n = z + r /\ -f - z >= 0
      BY <1>3, <2>1, <2>2, <2>3
    <2>5. /\ f \in Int /\ r \in Int /\ z \in Int /\ n \in Int
          /\ r < f /\ n >= 0
      BY <1>1, <1>2, <1>4
    <2> QED BY <2>4, <2>5
  <1>6. q \in Nat
    BY <1>1, <1>5
  <1> QED BY <1>1, <1>3, <1>4, <1>6, Zenon

LEMMA MultiplesApart ==
    ASSUME NEW f \in Nat, NEW a \in Nat, NEW b \in Nat, a + 1 <= b
    PROVE  f * a + f <= f * b
  <1>1. PICK d \in Nat : b = a + 1 + d
     <2> WITNESS b - a - 1 \in Nat
     <2> QED OBVIOUS
  <1>2. f * b = f * a + f + f * d
     BY <1>1
  <1>3. f * d \in Nat /\ f * a \in Nat
     OBVIOUS
  <1> QED BY <1>2, <1>3

LEMMA RemainderIsUnique ==
    ASSUME NEW f \in Nat \ {0}, NEW a \in Nat, NEW b \in Nat,
           NEW r \in 0 .. f - 1, NEW s \in 0 .. f - 1, f * a + r = f * b + s
    PROVE  r = s
  <1>0. f * a \in Nat /\ f * b \in Nat
    OBVIOUS
  <1>1. CASE a = b
    BY <1>0, <1>1
  <1>2. CASE a + 1 <= b
    BY <1>0, <1>2, MultiplesApart
  <1>3. CASE b + 1 <= a
    BY <1>0, <1>3, MultiplesApart
  <1> QED BY <1>1, <1>2, <1>3

LEMMA NextBeat ==
    ASSUME NEW f \in Nat \ {0}, NEW n \in Nat
    PROVE  (n + 1) % f = IF (n % f) + 1 >= f THEN 0 ELSE (n % f) + 1
  <1>1. PICK q \in Nat, r \in 0 .. f - 1 : r = n % f /\ n = f * q + r
    BY DivMod
  <1>2. PICK p \in Nat, s \in 0 .. f - 1 : s = (n + 1) % f /\ n + 1 = f * p + s
    <2>1. n + 1 \in Nat
      OBVIOUS
    <2> QED BY <2>1, DivMod
  <1>3. /\ r \in Int /\ s \in Int /\ r >= 0 /\ r < f /\ s >= 0 /\ s < f
        /\ f * q \in Int
    OBVIOUS
  <1>4. CASE r + 1 >= f
    <2>1. n + 1 = f * (q + 1) + 0
      BY <1>3, <1>1, <1>4
    <2>2. q + 1 \in Nat /\ 0 \in 0 .. f-1
      BY <1>3, <1>1
    <2>3. s = 0
      BY <1>3, <1>2, <2>1, <2>2, RemainderIsUnique
    <2> QED BY <1>4, <2>3, <1>1, <1>2
  <1>5. CASE r + 1 < f
    <2>1. n + 1 = f * q + (r + 1)
      BY <1>3, <1>1
    <2>2. r + 1 \in 0 .. f-1
      BY <1>3, <1>1, <1>5
    <2>3. s = r + 1
      BY <1>3, <1>1, <1>2, <2>1, <2>2, RemainderIsUnique
    <2>4. ~(r + 1 >= f)
      BY <1>3, <1>1, <1>5
    <2> QED BY <2>3, <2>4, <1>1, <1>2
  <1> QED BY <1>3, <1>4, <1>5

LEMMA FirstBeat ==
    ASSUME NEW f \in Nat \ {0}
    PROVE  0 % f = 0
  OBVIOUS

-----------------------------------------------------------------------------
(* Types, in three parts. *)

PolicyFlags ==
    /\ variation \in BOOLEAN /\ policyReset \in BOOLEAN /\ gate \in BOOLEAN
    /\ keep \in BOOLEAN /\ offBeat \in BOOLEAN

PolicyPlaces ==
    /\ policyKind \in Kinds /\ kindSeen \in Kinds
    /\ writerPc \in {"idle", "b", "variation", "reset", "kind", "reports"}
    /\ writing \in PolicyType
    /\ judgePc \in {"idle", "reset", "kind", "level", "hold", "factor", "shape"}
    /\ item \in Items
    /\ payload \in {"nothing", "channel", "variation"}

PolicyNumbers ==
    /\ policyA \in Nat /\ policyB \in Nat
    /\ clock \in Nat /\ holdUntil \in Nat /\ decimated \in Nat /\ judged \in Nat
    /\ version \in Nat /\ turn \in Nat /\ holdVersion \in Nat /\ ticks \in Nat
    /\ bufLen \in Layouts \cup {0}
    /\ level \in Nat /\ score \in 0 .. MaxScore

LEMMA PolicyTypesInParts == PolicyTypeOK <=> PolicyFlags /\ PolicyPlaces /\ PolicyNumbers
  <1>1. {variation, policyReset, gate, keep, offBeat} \subseteq BOOLEAN <=> PolicyFlags
    BY Zenon DEF PolicyFlags
  <1>2. {policyA, policyB} \subseteq Nat <=> policyA \in Nat /\ policyB \in Nat
    BY Zenon
  <1>3. {clock, holdUntil, decimated, judged, version, turn, holdVersion, ticks} \subseteq Nat
          <=> /\ clock \in Nat /\ holdUntil \in Nat /\ decimated \in Nat /\ judged \in Nat
              /\ version \in Nat /\ turn \in Nat /\ holdVersion \in Nat /\ ticks \in Nat
    BY Zenon
  <1> QED BY <1>1, <1>2, <1>3, Zenon DEF PolicyTypeOK, PolicyPlaces, PolicyNumbers

\* The fields of the records in use, and the empty ones.
LEMMA PolicyRecords ==
    /\ Report \in PolicyType
    /\ NoItem \in Items
    /\ \A p \in Policies : p \in PolicyType
    /\ \A p \in PolicyType : /\ p.kind \in Kinds /\ p.a \in Nat /\ p.b \in Nat
                             /\ p.variation \in BOOLEAN
    /\ \A m \in Items : m.layout \in Layouts \cup {0} /\ m.score \in 0 .. MaxScore
  <1>1. Report \in PolicyType
    BY DEF Report, PolicyType, Kinds
  <1>2. NoItem \in Items
    BY MaxScoreAssumption DEF NoItem, Items
  <1>3. \A p \in Policies : p \in PolicyType
    BY PoliciesAssumption
  <1>4. \A p \in PolicyType : /\ p.kind \in Kinds /\ p.a \in Nat /\ p.b \in Nat
                             /\ p.variation \in BOOLEAN
    BY DEF PolicyType
  <1>5. \A m \in Items : m.layout \in Layouts \cup {0} /\ m.score \in 0 .. MaxScore
    BY DEF Items
  <1> QED BY <1>1, <1>2, <1>3, <1>4, <1>5

LEMMA PolicyFlagsStep == PolicyPlaces /\ PolicyFlags /\ [PolicyNext]_policyAll => PolicyFlags'
  <1> SUFFICES ASSUME PolicyPlaces, PolicyFlags, [PolicyNext]_policyAll PROVE PolicyFlags'
    OBVIOUS
  <1> USE DEF PolicyFlags, writerFrame, judgeFrame, policyVars, writerVars, stateVars, judgeVars
  <1>1. CASE PassClock
    BY <1>1, Zenon DEF PassClock
  <1>2. ASSUME NEW p \in Policies, StoreA(p) PROVE PolicyFlags'
    BY <1>2, Zenon DEF StoreA
  <1>3. ASSUME NEW m \in Items, BeginJudging(m) PROVE PolicyFlags'
    BY <1>3, Zenon DEF BeginJudging, Return, Goto
  <1>4. CASE StoreB
    BY <1>4, Zenon DEF StoreB
  <1>5. CASE StoreVariation
    <2>1. writing.variation \in BOOLEAN
      BY PolicyRecords, Zenon DEF PolicyPlaces
    <2> QED BY <1>5, <2>1, Zenon DEF StoreVariation
  <1>6. CASE StoreReset
    BY <1>6, Zenon DEF StoreReset
  <1>7. CASE StoreKind
    BY <1>7, Zenon DEF StoreKind
  <1>8. CASE StoreReports
    BY <1>8, Zenon DEF StoreReports
  <1>9. CASE TakeReset
    BY <1>9, Zenon DEF TakeReset, Goto
  <1>10. CASE LoadKind
    <2>1. keep' \in BOOLEAN
      BY <1>10 DEF LoadKind
    <2> QED BY <1>10, <2>1, Zenon DEF LoadKind
  <1>11. CASE LoadLevel
    BY <1>11, Zenon DEF LoadLevel, Goto
  <1>12. CASE Decide
    BY <1>12, Zenon DEF Decide, Goto
  <1>13. CASE Tick
    BY <1>13, Zenon DEF Tick, Goto, Factor, OnBeat
  <1>14. CASE Shape
    BY <1>14, Zenon DEF Shape, Return
  <1>15. CASE UNCHANGED policyAll
    BY <1>15, Zenon DEF policyAll
  <1> QED
    BY <1>1, <1>2, <1>3, <1>4, <1>5, <1>6, <1>7, <1>8, <1>9,
       <1>10, <1>11, <1>12, <1>13, <1>14, <1>15, Zenon
    DEF PolicyNext

LEMMA PolicyPlacesStep == PolicyPlaces /\ [PolicyNext]_policyAll => PolicyPlaces'
  <1> SUFFICES ASSUME PolicyPlaces, [PolicyNext]_policyAll PROVE PolicyPlaces'
    OBVIOUS
  <1> USE DEF PolicyPlaces, Kinds
  <1> USE DEF writerFrame, judgeFrame, policyVars, writerVars, stateVars, judgeVars
  <1>1. CASE PassClock
    BY <1>1 DEF PassClock
  <1>2. ASSUME NEW p \in Policies, StoreA(p) PROVE PolicyPlaces'
    BY <1>2, PolicyRecords DEF StoreA
  <1>3. ASSUME NEW m \in Items, BeginJudging(m) PROVE PolicyPlaces'
    BY <1>3, PolicyRecords, Zenon DEF BeginJudging, Return, Goto
  <1>4. CASE StoreB
    BY <1>4 DEF StoreB
  <1>5. CASE StoreVariation
    BY <1>5 DEF StoreVariation
  <1>6. CASE StoreReset
    BY <1>6 DEF StoreReset
  <1>7. CASE StoreKind
    BY <1>7, PolicyRecords DEF StoreKind
  <1>8. CASE StoreReports
    BY <1>8, PolicyRecords DEF StoreReports
  <1>9. CASE TakeReset
    BY <1>9 DEF TakeReset, Goto
  <1>10. CASE LoadKind
    BY <1>10 DEF LoadKind, Goto
  <1>11. CASE LoadLevel
    BY <1>11 DEF LoadLevel, Goto
  <1>12. CASE Decide
    BY <1>12 DEF Decide, Goto
  <1>13. CASE Tick
    BY <1>13 DEF Tick, Goto, Factor, OnBeat
  <1>14. CASE Shape
    BY <1>14, PolicyRecords DEF Shape, Return
  <1>15. CASE UNCHANGED policyAll
    BY <1>15 DEF policyAll
  <1> QED
    BY <1>1, <1>2, <1>3, <1>4, <1>5, <1>6, <1>7, <1>8, <1>9,
       <1>10, <1>11, <1>12, <1>13, <1>14, <1>15, Zenon
    DEF PolicyNext

LEMMA PolicyNumbersStep == PolicyPlaces /\ PolicyNumbers /\ [PolicyNext]_policyAll => PolicyNumbers'
  <1> SUFFICES ASSUME PolicyPlaces, PolicyNumbers, [PolicyNext]_policyAll PROVE PolicyNumbers'
    OBVIOUS
  <1> USE DEF PolicyNumbers, writerFrame, judgeFrame, policyVars, writerVars, stateVars, judgeVars
  <1>1. CASE PassClock
    BY <1>1 DEF PassClock
  <1>2. ASSUME NEW p \in Policies, StoreA(p) PROVE PolicyNumbers'
    <2>1. p.a \in Nat
      BY PolicyRecords
    <2>2. policyA' \in {1, p.a}
      BY <1>2, Zenon DEF StoreA
    <2> QED BY <1>2, <2>1, <2>2 DEF StoreA
  <1>3. ASSUME NEW m \in Items, BeginJudging(m) PROVE PolicyNumbers'
    <2>1. /\ judged' = judged + 1
          /\ level' \in {0, level} /\ score' \in {0, score} /\ turn' \in {version, turn}
          /\ UNCHANGED <<policyA, policyB, clock, holdUntil, decimated, version, holdVersion,
                         ticks, bufLen>>
      BY <1>3, Zenon DEF BeginJudging, Return
    <2> QED BY <2>1, MaxScoreAssumption
  <1>4. CASE StoreB
    BY <1>4, PolicyRecords DEF StoreB, PolicyPlaces
  <1>5. CASE StoreVariation
    BY <1>5 DEF StoreVariation
  <1>6. CASE StoreReset
    BY <1>6 DEF StoreReset
  <1>7. CASE StoreKind
    BY <1>7 DEF StoreKind
  <1>8. CASE StoreReports
    BY <1>8 DEF StoreReports
  <1>9. CASE TakeReset
    BY <1>9 DEF TakeReset, Goto
  <1>10. CASE LoadKind
    <2>1. item.layout \in Layouts \cup {0} /\ item.score \in 0 .. MaxScore
      BY PolicyRecords DEF PolicyPlaces
    <2>2. score' \in {0, item.score} /\ bufLen' \in {item.layout, bufLen}
      BY <1>10, Zenon DEF LoadKind
    <2>3. UNCHANGED <<policyA, policyB, clock, holdUntil, decimated, judged, version, turn,
                      holdVersion, ticks, level>>
      BY <1>10, Zenon DEF LoadKind
    <2> QED BY <2>1, <2>2, <2>3, MaxScoreAssumption
  <1>11. CASE LoadLevel
    BY <1>11 DEF LoadLevel, Goto
  <1>12. CASE Decide
    BY <1>12 DEF Decide, Goto
  <1>13. CASE Tick
    BY <1>13 DEF Tick, Goto, Factor, OnBeat
  <1>14. CASE Shape
    BY <1>14, MaxScoreAssumption DEF Shape, Return
  <1>15. CASE UNCHANGED policyAll
    BY <1>15 DEF policyAll
  <1> QED
    BY <1>1, <1>2, <1>3, <1>4, <1>5, <1>6, <1>7, <1>8, <1>9,
       <1>10, <1>11, <1>12, <1>13, <1>14, <1>15, Zenon
    DEF PolicyNext

-----------------------------------------------------------------------------
(* The invariants. *)

\* A hold window of an earlier policy is about to be cleared.
HoldInv == policyReset \/ holdUntil = 0 \/ holdVersion = version

\* Between the stores of a new policy's parameters the beat is in neither.
Settling == writerPc \in {"b", "variation", "reset"}

\* The beat is that of the measurements counted since the reset was asked for,
\* unless the reset is still to be taken; a context past the reset that belongs
\* to an earlier policy has one to come.
BeatInv ==
    /\ ~offBeat
    /\ turn <= version
    /\ policyReset => ticks = 0
    /\ judgePc \in {"kind", "level", "hold", "factor"} => (policyReset <=> turn # version)
    /\ policyReset \/ Settling \/ decimated = ticks % Factor

LEMMA HoldStep == PolicyNumbers /\ HoldInv /\ [PolicyNext]_policyAll => HoldInv'
  <1> SUFFICES ASSUME PolicyNumbers, HoldInv, [PolicyNext]_policyAll PROVE HoldInv'
    OBVIOUS
  <1> USE DEF HoldInv, writerFrame, judgeFrame, policyVars, writerVars, stateVars, judgeVars
  <1>1. CASE PassClock
    BY <1>1 DEF PassClock
  <1>2. ASSUME NEW p \in Policies, StoreA(p) PROVE HoldInv'
    BY <1>2 DEF StoreA
  <1>3. ASSUME NEW m \in Items, BeginJudging(m) PROVE HoldInv'
    BY <1>3 DEF BeginJudging, Return, Goto
  <1>4. CASE StoreB
    BY <1>4 DEF StoreB
  <1>5. CASE StoreVariation
    BY <1>5 DEF StoreVariation
  <1>6. CASE StoreReset
    BY <1>6 DEF StoreReset
  <1>7. CASE StoreKind
    BY <1>7 DEF StoreKind
  <1>8. CASE StoreReports
    BY <1>8 DEF StoreReports
  <1>9. CASE TakeReset
    BY <1>9 DEF TakeReset, Goto
  <1>10. CASE LoadKind
    BY <1>10 DEF LoadKind, Goto
  <1>11. CASE LoadLevel
    BY <1>11 DEF LoadLevel, Goto
  <1>12. CASE Decide
    BY <1>12 DEF Decide, Goto
  <1>13. CASE Tick
    BY <1>13 DEF Tick, Goto, Factor, OnBeat
  <1>14. CASE Shape
    BY <1>14 DEF Shape, Return
  <1>15. CASE UNCHANGED policyAll
    BY <1>15 DEF policyAll
  <1> QED
    BY <1>1, <1>2, <1>3, <1>4, <1>5, <1>6, <1>7, <1>8, <1>9,
       <1>10, <1>11, <1>12, <1>13, <1>14, <1>15, Zenon
    DEF PolicyNext

LEMMA BeatStep == PolicyPlaces /\ PolicyNumbers /\ BeatInv /\ [PolicyNext]_policyAll => BeatInv'
  <1> SUFFICES ASSUME PolicyPlaces, PolicyNumbers, BeatInv, [PolicyNext]_policyAll PROVE BeatInv'
    OBVIOUS
  <1> USE DEF BeatInv, Settling, Factor
  <1> USE DEF writerFrame, judgeFrame, policyVars, writerVars, stateVars, judgeVars
  <1>1. CASE PassClock
    BY <1>1 DEF PassClock
  <1>2. ASSUME NEW p \in Policies, StoreA(p) PROVE BeatInv'
    BY <1>2 DEF StoreA
  <1>3. ASSUME NEW m \in Items, BeginJudging(m) PROVE BeatInv'
    <2>1. judgePc' \in {"idle", "shape", "reset"} /\ turn' \in {turn, version}
      BY <1>3, Zenon DEF BeginJudging, Return, Goto
    <2>2. UNCHANGED <<offBeat, version, policyReset, ticks, policyA, writerPc, decimated>>
      BY <1>3, Zenon DEF BeginJudging, Return, Goto
    <2> QED BY <2>1, <2>2 DEF PolicyNumbers
  <1>4. CASE StoreB
    BY <1>4 DEF StoreB
  <1>5. CASE StoreVariation
    BY <1>5 DEF StoreVariation
  <1>6. CASE StoreReset
    BY <1>6 DEF StoreReset, PolicyNumbers
  <1>7. CASE StoreKind
    BY <1>7 DEF StoreKind
  <1>8. CASE StoreReports
    BY <1>8 DEF StoreReports
  <1>9. CASE TakeReset
    <2>1. Factor \in Nat \ {0}
      BY DEF PolicyNumbers
    <2>2. 0 % Factor = 0
      BY <2>1, FirstBeat
    <2>3. Factor' = Factor
      BY <1>9 DEF TakeReset
    <2> HIDE DEF Factor
    <2> QED BY <1>9, <2>1, <2>2, <2>3 DEF TakeReset, Goto, PolicyNumbers
  <1>10. CASE LoadKind
    BY <1>10 DEF LoadKind, Goto
  <1>11. CASE LoadLevel
    BY <1>11 DEF LoadLevel, Goto
  <1>12. CASE Decide
    BY <1>12 DEF Decide, Goto
  <1>13. CASE Tick
    <2>1. Factor \in Nat \ {0}
      BY DEF PolicyNumbers
    <2>2. Factor' = Factor
      BY <1>13 DEF Tick
    <2> HIDE DEF Factor
    <2>3. (ticks + 1) % Factor = IF (ticks % Factor) + 1 >= Factor THEN 0 ELSE (ticks % Factor) + 1
      BY <2>1, NextBeat DEF PolicyNumbers
    <2>4. CASE policyReset
      BY <1>13, <2>4 DEF Tick, Goto, OnBeat, PolicyNumbers
    <2>5. CASE ~policyReset
      BY <1>13, <2>1, <2>2, <2>3, <2>5 DEF Tick, Goto, OnBeat, PolicyNumbers
    <2> QED BY <2>4, <2>5
  <1>14. CASE Shape
    <2>1. judgePc' \in {"idle", "shape", "reset"} /\ turn' \in {turn, version}
      BY <1>14, Zenon DEF Shape, Return
    <2>2. UNCHANGED <<offBeat, version, policyReset, ticks, policyA, writerPc, decimated>>
      BY <1>14, Zenon DEF Shape, Return
    <2> QED BY <2>1, <2>2 DEF PolicyNumbers
  <1>15. CASE UNCHANGED policyAll
    BY <1>15 DEF policyAll
  <1> QED
    BY <1>1, <1>2, <1>3, <1>4, <1>5, <1>6, <1>7, <1>8, <1>9,
       <1>10, <1>11, <1>12, <1>13, <1>14, <1>15, Zenon
    DEF PolicyNext

-----------------------------------------------------------------------------
(* The theorems. *)

PolicyInv == PolicyFlags /\ PolicyPlaces /\ PolicyNumbers /\ HoldInv /\ BeatInv

LEMMA PolicyInitInv == PolicyInit => PolicyInv
  <1> SUFFICES ASSUME PolicyInit PROVE PolicyInv
    OBVIOUS
  <1>1. PolicyFlags
    BY Zenon DEF PolicyInit, PolicyFlags
  <1>2. PolicyPlaces
    BY PolicyRecords DEF PolicyInit, PolicyPlaces, Kinds
  <1>3. PolicyNumbers
    BY MaxScoreAssumption DEF PolicyInit, PolicyNumbers
  <1>4. HoldInv
    BY DEF PolicyInit, HoldInv
  <1>5. BeatInv
    <2>1. Factor = 1
      BY DEF PolicyInit, Factor
    <2>2. 0 % 1 = 0
      BY FirstBeat
    <2> QED BY <2>1, <2>2 DEF PolicyInit, BeatInv
  <1> QED BY <1>1, <1>2, <1>3, <1>4, <1>5 DEF PolicyInv

LEMMA PolicyInvHolds == PolicySpec => []PolicyInv
  <1>1. PolicyInv /\ [PolicyNext]_policyAll => PolicyInv'
    BY PolicyFlagsStep, PolicyPlacesStep, PolicyNumbersStep, HoldStep, BeatStep, Zenon
    DEF PolicyInv
  <1> QED BY <1>1, PolicyInitInv, PTL DEF PolicySpec

\* The policy's atomics, its state, both contexts' places and the histories keep
\* their types (delivery.rs:452-466, :548).
THEOREM PolicyTypes == PolicySpec => []PolicyTypeOK
  <1>1. PolicyInv => PolicyTypeOK
    BY PolicyTypesInParts, Zenon DEF PolicyInv
  <1> QED BY <1>1, PolicyInvHolds, PTL

\* However the five stores of a change fall between the loads of a judgement, a
\* decimated stream keeps the first of every n measurements of the policy in
\* force, and no open hold window is an earlier policy's (policy_admits,
\* delivery.rs:548; Decimator::tick, policy.rs:124).
THEOREM PolicyInForceIsFollowed == PolicySpec => []PolicyIsFollowed
  <1>1. PolicyInv => NthIsKept
    BY Zenon DEF PolicyInv, BeatInv, NthIsKept
  <1>2. PolicyInv => HoldBelongsToPolicy
    BY DEF PolicyInv, PolicyNumbers, HoldInv, HoldBelongsToPolicy
  <1>3. PolicyInv => PolicyIsFollowed
    BY <1>1, <1>2, Zenon DEF PolicyIsFollowed
  <1> QED BY <1>3, PolicyInvHolds, PTL

-----------------------------------------------------------------------------
(* Statistics: the invariant. *)

\* As many numbers missing as the numbers can tell apart.
Silences == 0 .. SeqModulus - 2

FrameType ==
    [tx : Transmitters, seq : 0 .. SeqModulus - 1, retry : BOOLEAN,
     skipped : Silences]

InHand == framePc \in {"swap", "fold"}

\* Types of the histories, and of the frame in hand.
HistoryTypes ==
    /\ air \in [Transmitters -> 0 .. SeqModulus - 1]
    /\ missing \in [Transmitters -> Silences]
    /\ truth \in [Transmitters -> Nat]
    /\ toggled \in [Transmitters -> BOOLEAN]
    /\ InHand => frame \in FrameType
    /\ frame.retry => InHand /\ missing[frame.tx] + frame.skipped <= SeqModulus - 2

StatsFlags ==
    /\ resetTracker \in BOOLEAN /\ output \in BOOLEAN /\ outputChanged \in BOOLEAN
    /\ resyncAll \in BOOLEAN /\ mixed \in BOOLEAN

StatsNumbers ==
    /\ txClock \in Nat /\ seqGap \in Nat /\ stamp \in Nat /\ gap \in Nat /\ sent \in Nat
    /\ toggles \in Nat /\ restarts \in Nat /\ total \in Nat

EntryType == [gaps : Nat, lastSeq : 0 .. SeqModulus - 1, lastUsed : Nat, resync : BOOLEAN]

TableTypes ==
    /\ DOMAIN table \subseteq Transmitters /\ Cardinality(DOMAIN table) <= TrackedTx
    /\ \A m \in DOMAIN table : table[m] \in EntryType

StatsPlaces == framePc \in {"idle", "swap", "fold", "loss"} /\ resetPc \in {"idle", "table"}

StatsTyped == StatsFlags /\ StatsNumbers /\ TableTypes /\ StatsPlaces /\ HistoryTypes

\* The table holds the transmitters heard last, in the order of their stamps.
RecencyInv ==
    /\ recency \in Seq(Transmitters) /\ Len(recency) <= TrackedTx
    /\ \A m : m \in DOMAIN table <=> \E i \in 1 .. Len(recency) : recency[i] = m
    /\ IsFiniteSet(DOMAIN table) /\ Cardinality(DOMAIN table) = Len(recency)
    /\ \A i, j \in 1 .. Len(recency) :
          i < j => table[recency[j]].lastUsed < table[recency[i]].lastUsed
    /\ \A m \in DOMAIN table : table[m].lastUsed < txClock
    /\ framePc = "fold" =>
          stamp < txClock /\ \A m \in DOMAIN table : table[m].lastUsed < stamp

\* The k-th number after x.
After(x, k) == IF x + k < SeqModulus THEN x + k ELSE x + k - SeqModulus

\* A first transmission is the next of its transmitter after the skipped ones, or
\* the one with the number `seq' again; a retry is the last of those it carries.
Continues(f, seq) ==
    IF f.retry THEN f.seq = After(seq, f.skipped)
    ELSE \/ f.seq = After(seq, f.skipped + 1)
         \/ f.seq = seq /\ f.skipped = 0

NumbersInv ==
    /\ InHand => air[frame.tx] = After(frame.seq, missing[frame.tx] + 1)
    /\ \A m \in DOMAIN table :
          IF InHand /\ frame.tx = m THEN Continues(frame, table[m].lastSeq)
          ELSE air[m] = After(table[m].lastSeq, missing[m] + 1)

\* The flags of a switch that has not yet reached the entry of a transmitter.
Switched(m) ==
    \/ table[m].resync \/ resetTracker \/ outputChanged
    \/ framePc = "fold" /\ resyncAll

SwitchInv ==
    /\ \A m \in DOMAIN table : toggled[m] <=> Switched(m)
    /\ InHand => ~outputChanged
    /\ framePc = "fold" => ~resetTracker

SumsInv ==
    /\ \A m \in DOMAIN table : table[m].gaps = truth[m]
    /\ total = IF framePc = "loss" THEN seqGap + gap ELSE seqGap

TruthInv == ~mixed => NumbersInv /\ SwitchInv /\ SumsInv

LEMMA StatsTypesInParts ==
    StatsTypeOK <=> StatsFlags /\ StatsNumbers /\ TableTypes /\ StatsPlaces
  <1>1. {resetTracker, output, outputChanged, resyncAll, mixed} \subseteq BOOLEAN <=> StatsFlags
    BY Zenon DEF StatsFlags
  <1>2. {txClock, seqGap, stamp, gap, sent, toggles, restarts, total} \subseteq Nat
            <=> StatsNumbers
    BY Zenon DEF StatsNumbers
  <1> QED
    BY <1>1, <1>2, Zenon DEF StatsTypeOK, TableTypes, StatsPlaces, EntryType

-----------------------------------------------------------------------------
(* Statistics: numbers that wrap. *)

LEMMA WrapOnce ==
    ASSUME NEW a \in Nat, a < 2 * SeqModulus
    PROVE  a % SeqModulus = IF a < SeqModulus THEN a ELSE a - SeqModulus
  <1>0. SeqModulus \in Nat \ {0}
    BY NumbersAssumption
  <1>1. PICK q \in Nat, r \in 0 .. SeqModulus - 1 :
            r = a % SeqModulus /\ a = SeqModulus * q + r
    BY <1>0, DivMod
  <1>2. CASE a < SeqModulus
    <2>1. a \in 0 .. SeqModulus - 1 /\ a = SeqModulus * 0 + a /\ 0 \in Nat
      BY <1>0, <1>2
    <2>2. r = a
      BY <1>0, <1>1, <2>1, RemainderIsUnique
    <2> QED
      BY <1>1, <1>2, <2>2
  <1>3. CASE a >= SeqModulus
    <2>1. /\ a - SeqModulus \in 0 .. SeqModulus - 1 /\ 1 \in Nat
          /\ a = SeqModulus * 1 + (a - SeqModulus)
      BY <1>0, <1>3
    <2>2. r = a - SeqModulus
      BY <1>0, <1>1, <2>1, RemainderIsUnique
    <2>3. ~(a < SeqModulus)
      BY <1>0, <1>3
    <2> QED
      BY <1>1, <2>2, <2>3
  <1> QED
    BY <1>0, <1>2, <1>3

\* The number after, the one before, and the distance of two.
LEMMA AfterSteps ==
    ASSUME NEW x \in 0 .. SeqModulus - 1, NEW k \in 0 .. SeqModulus - 1
    PROVE  /\ After(x, k) \in 0 .. SeqModulus - 1
           /\ (After(x, k) + 1) % SeqModulus = After(x, k + 1)
           /\ k > 0 => (After(x, k) + SeqModulus - 1) % SeqModulus = After(x, k - 1)
           /\ (After(x, k) + SeqModulus - x) % SeqModulus = k
  <1>0. PICK m \in Nat \ {0, 1} : m = SeqModulus
    BY NumbersAssumption
  <1>a. x \in Nat /\ x < m /\ k \in Nat /\ k < m
    BY <1>0
  <1>b. (IF x + k < m THEN x + k ELSE x + k - m) \in 0 .. m - 1
    BY <1>0, <1>a
  <1>c. After(x, k) = IF x + k < m THEN x + k ELSE x + k - m
    BY <1>0 DEF After
  <1>1. PICK y \in 0 .. m - 1 : y = After(x, k) /\ y = IF x + k < m THEN x + k ELSE x + k - m
    BY <1>b, <1>c
  <1>2. /\ y + 1 \in Nat /\ y + 1 < 2 * m
        /\ y + m - 1 \in Nat /\ y + m - 1 < 2 * m
        /\ y + m - x \in Nat /\ y + m - x < 2 * m
    BY <1>0, <1>1
  <1>3. (y + 1) % SeqModulus = IF y + 1 < m THEN y + 1 ELSE y + 1 - m
    BY <1>0, <1>2, WrapOnce
  <1>4. (y + m - 1) % SeqModulus = IF y + m - 1 < m THEN y + m - 1 ELSE y + m - 1 - m
    BY <1>0, <1>2, WrapOnce
  <1>5. (y + m - x) % SeqModulus = IF y + m - x < m THEN y + m - x ELSE y + m - x - m
    BY <1>0, <1>2, WrapOnce
  <1>6. (IF y + 1 < m THEN y + 1 ELSE y + 1 - m)
            = IF x + (k + 1) < m THEN x + (k + 1) ELSE x + (k + 1) - m
    BY <1>0, <1>1
  <1>7. k > 0 => (IF y + m - 1 < m THEN y + m - 1 ELSE y + m - 1 - m)
                     = IF x + (k - 1) < m THEN x + (k - 1) ELSE x + (k - 1) - m
    BY <1>0, <1>1
  <1>8. (IF y + m - x < m THEN y + m - x ELSE y + m - x - m) = k
    BY <1>0, <1>1
  <1>9. /\ After(x, k + 1) = IF x + (k + 1) < m THEN x + (k + 1) ELSE x + (k + 1) - m
        /\ After(x, k - 1) = IF x + (k - 1) < m THEN x + (k - 1) ELSE x + (k - 1) - m
    BY <1>0 DEF After
  <1> QED
    BY <1>0, <1>1, <1>3, <1>4, <1>5, <1>6, <1>7, <1>8, <1>9

LEMMA AfterTwice ==
    ASSUME NEW x \in 0 .. SeqModulus - 1, NEW j \in Nat, NEW k \in Nat, j + k <= SeqModulus - 1
    PROVE  After(After(x, j), k) = After(x, j + k)
  <1>0. PICK m \in Nat \ {0, 1} : m = SeqModulus
    BY NumbersAssumption
  <1> DEFINE y == IF x + j < m THEN x + j ELSE x + j - m
  <1>1. y \in 0 .. m - 1 /\ After(x, j) = y
    BY <1>0 DEF After
  <1>2. (IF y + k < m THEN y + k ELSE y + k - m)
            = IF x + (j + k) < m THEN x + (j + k) ELSE x + (j + k) - m
    BY <1>0
  <1> HIDE DEF y
  <1>3. /\ After(y, k) = IF y + k < m THEN y + k ELSE y + k - m
        /\ After(x, j + k) = IF x + (j + k) < m THEN x + (j + k) ELSE x + (j + k) - m
    BY <1>0 DEF After
  <1> QED
    BY <1>1, <1>2, <1>3

\* What is missing is counted as far as the numbers tell it apart.
LEMMA SilencesAreNumbers == 0 \in Silences /\ Silences \subseteq Nat
  BY NumbersAssumption DEF Silences

-----------------------------------------------------------------------------
(* Statistics: the transmitters heard last. *)

\* The transmitter evicted is the one heard longest ago.
LEMMA OldestIsLast ==
    ASSUME StatsTyped, RecencyInv, Len(recency) > 0
    PROVE  Oldest = recency[Len(recency)]
  <1> DEFINE n == Len(recency)
             Least(m) == \A k \in DOMAIN table : table[m].lastUsed <= table[k].lastUsed
  <1>1. n \in Nat \ {0}
    BY LenProperties DEF RecencyInv
  <1>2. \A m \in DOMAIN table : table[m].lastUsed \in Nat
    BY DEF StatsTyped, TableTypes, EntryType
  <1>3. recency[n] \in DOMAIN table
    BY <1>1 DEF RecencyInv
  <1>4. Least(recency[n])
    <2> SUFFICES ASSUME NEW m \in DOMAIN table
                 PROVE  table[recency[n]].lastUsed <= table[m].lastUsed
      OBVIOUS
    <2>1. PICK i \in 1 .. n : recency[i] = m
      BY DEF RecencyInv
    <2>2. CASE i = n
      BY <1>2, <2>1, <2>2
    <2>3. CASE i < n
      BY <1>1, <1>2, <1>3, <2>1, <2>3 DEF RecencyInv
    <2> QED
      BY <1>1, <2>2, <2>3
  <1>5. Oldest \in DOMAIN table /\ Least(Oldest)
    BY <1>3, <1>4 DEF Oldest
  <1>6. PICK i \in 1 .. n : recency[i] = Oldest
    BY <1>5 DEF RecencyInv
  <1>7. ~(i < n)
    <2> SUFFICES ASSUME i < n PROVE FALSE
      OBVIOUS
    <2>1. table[recency[n]].lastUsed < table[Oldest].lastUsed
      BY <1>1, <1>6 DEF RecencyInv
    <2>2. table[Oldest].lastUsed <= table[recency[n]].lastUsed
      BY <1>3, <1>5
    <2> QED
      BY <1>2, <1>3, <1>5, <2>1, <2>2
  <1> QED
    BY <1>1, <1>6, <1>7

\* Nobody is in two places.
LEMMA RecencyDistinct ==
    ASSUME StatsTyped, RecencyInv,
           NEW i \in 1 .. Len(recency), NEW j \in 1 .. Len(recency), recency[i] = recency[j]
    PROVE  i = j
  <1>1. recency[i] \in DOMAIN table /\ table[recency[i]].lastUsed \in Nat
    BY DEF RecencyInv, StatsTyped, TableTypes, EntryType
  <1>2. ~(i < j) /\ ~(j < i)
    BY <1>1 DEF RecencyInv
  <1>3. i \in Int /\ j \in Int
    OBVIOUS
  <1> QED
    BY <1>2, <1>3

\* The place a transmitter leaves, and who is kept beside it.
LEMMA Places ==
    ASSUME StatsTyped, RecencyInv, frame.tx \in Transmitters
    PROVE  /\ Len(recency) \in Nat
           /\ Known <=> \E i \in 1 .. Len(recency) : recency[i] = frame.tx
           /\ PlaceOf(frame.tx) \in 1 .. Len(recency) + 1 /\ PlaceOf(frame.tx) <= TrackedTx
           /\ Known => PlaceOf(frame.tx) \in 1 .. Len(recency)
                       /\ recency[PlaceOf(frame.tx)] = frame.tx
           /\ \A m : m \in Kept /\ m # frame.tx <=>
                 \E k \in 1 .. Len(recency) : k # PlaceOf(frame.tx) /\ recency[k] = m
           /\ IsFiniteSet(Kept \cup {frame.tx})
           /\ Cardinality(Kept \cup {frame.tx}) =
                 IF PlaceOf(frame.tx) > Len(recency) THEN PlaceOf(frame.tx) ELSE Len(recency)
  <1> DEFINE t == frame.tx
             p == PlaceOf(t)
  <1>1. PICK n \in Nat : n = Len(recency)
    BY LenProperties DEF RecencyInv
  <1>2. TrackedTx \in Nat \ {0} /\ n <= TrackedTx
    BY <1>1, TrackedTxAssumption DEF RecencyInv
  <1>3. /\ \A m : m \in DOMAIN table <=> \E i \in 1 .. n : recency[i] = m
        /\ IsFiniteSet(DOMAIN table) /\ Cardinality(DOMAIN table) = n
    BY <1>1 DEF RecencyInv
  <1>4. Known <=> \E i \in 1 .. n : recency[i] = t
    BY <1>3 DEF Known
  <1>5. CASE Known
    <2>1. p \in 1 .. n /\ recency[p] = t
      BY <1>1, <1>4, <1>5 DEF PlaceOf
    <2>2. Kept = DOMAIN table /\ t \in DOMAIN table
      BY <1>5 DEF Kept, Known
    <2>3. \A m : m \in Kept /\ m # t <=> \E k \in 1 .. n : k # p /\ recency[k] = m
      BY <1>1, <1>3, <2>1, <2>2, RecencyDistinct
    <2>4. Kept \cup {t} = DOMAIN table
      BY <2>2
    <2> HIDE DEF p
    <2>5. p \in 1 .. n + 1 /\ p <= TrackedTx /\ n = IF p > n THEN p ELSE n
      BY <1>1, <1>2, <2>1
    <2> QED
      BY <1>1, <1>3, <1>4, <2>1, <2>3, <2>4, <2>5 DEF p
  <1>6. CASE ~Known /\ n < TrackedTx
    <2>1. p = n + 1
      BY <1>1, <1>4, <1>6 DEF PlaceOf
    <2>2. Kept = DOMAIN table /\ t \notin DOMAIN table
      BY <1>3, <1>6 DEF Kept, Known
    <2>3. \A m : m \in Kept /\ m # t <=> \E k \in 1 .. n : k # p /\ recency[k] = m
      BY <1>3, <2>1, <2>2
    <2>4. IsFiniteSet(Kept \cup {t}) /\ Cardinality(Kept \cup {t}) = n + 1
      BY <1>3, <2>2, FS_AddElement
    <2> HIDE DEF p
    <2>5. p \in 1 .. n + 1 /\ p <= TrackedTx /\ n + 1 = IF p > n THEN p ELSE n
      BY <1>1, <1>2, <1>6, <2>1
    <2> QED
      BY <1>1, <1>4, <1>6, <2>3, <2>4, <2>5 DEF p
  <1>7. CASE ~Known /\ n = TrackedTx
    <2>1. p = n
      <3>1. ~(n < TrackedTx)
        BY <1>2, <1>7
      <3> QED
        BY <1>1, <1>4, <1>7, <3>1 DEF PlaceOf
    <2>2. Oldest = recency[n] /\ Oldest \in DOMAIN table
      BY <1>1, <1>2, <1>3, <1>7, OldestIsLast
    <2>3. Kept = DOMAIN table \ {Oldest} /\ t \notin DOMAIN table
      <3>1. ~(Cardinality(DOMAIN table) < TrackedTx)
        BY <1>2, <1>3, <1>7
      <3> QED
        BY <1>7, <3>1 DEF Kept, Known
    <2>4. \A m : m \in Kept /\ m # t <=> \E k \in 1 .. n : k # p /\ recency[k] = m
      <3>1. \A k \in 1 .. n : recency[k] = recency[n] => k = n
        BY <1>1, <1>2, <1>7, RecencyDistinct
      <3> QED
        BY <1>3, <2>1, <2>2, <2>3, <3>1
    <2>5. IsFiniteSet(Kept) /\ Cardinality(Kept) = n - 1 /\ t \notin Kept
      BY <1>3, <2>2, <2>3, FS_RemoveElement
    <2>6. IsFiniteSet(Kept \cup {t}) /\ Cardinality(Kept \cup {t}) = n
      BY <1>1, <2>5, FS_AddElement
    <2> HIDE DEF p
    <2>7. p \in 1 .. n + 1 /\ p <= TrackedTx /\ n = IF p > n THEN p ELSE n
      BY <1>1, <1>2, <1>7, <2>1
    <2> QED
      BY <1>1, <1>4, <1>7, <2>4, <2>6, <2>7 DEF p
  <1> QED
    BY <1>2, <1>5, <1>6, <1>7

\* How the order changes when a frame is folded.
LEMMA MovedToFrontIs ==
    ASSUME StatsTyped, RecencyInv, frame.tx \in Transmitters,
           NEW n \in Nat, n = Len(recency), NEW p \in Nat, p = PlaceOf(frame.tx),
           NEW l \in Nat, l = IF p > n THEN p ELSE n
    PROVE  /\ MovedToFront(frame.tx) \in Seq(Transmitters)
           /\ Len(MovedToFront(frame.tx)) = l /\ l >= 1 /\ l <= TrackedTx
           /\ MovedToFront(frame.tx)[1] = frame.tx
           /\ \A i \in 2 .. p : i - 1 \in 1 .. n /\ MovedToFront(frame.tx)[i] = recency[i - 1]
           /\ \A i \in p + 1 .. l : i \in 1 .. n /\ MovedToFront(frame.tx)[i] = recency[i]
  <1> DEFINE t == frame.tx
             r == MovedToFront(t)
  <1>1. p >= 1 /\ p <= n + 1 /\ p <= TrackedTx /\ TrackedTx \in Nat /\ n <= TrackedTx
    BY Places, TrackedTxAssumption DEF RecencyInv
  <1>2. l >= 1 /\ l <= TrackedTx /\ p <= l
    BY <1>1
  <1>3. r = [i \in 1 .. l |-> IF i = 1 THEN t ELSE IF i <= p THEN recency[i - 1] ELSE recency[i]]
    BY DEF MovedToFront
  <1>4. \A i \in 1 .. n : recency[i] \in Transmitters
    BY ElementOfSeq DEF RecencyInv
  <1>5. \A i \in 2 .. p : i - 1 \in 1 .. n /\ i \in 1 .. l /\ i # 1 /\ i <= p
    BY <1>1, <1>2
  <1>6. \A i \in p + 1 .. l : i \in 1 .. n /\ i \in 1 .. l /\ i # 1 /\ ~(i <= p)
    BY <1>1, <1>2
  <1>7. 1 \in 1 .. l
    BY <1>2
  <1>8. \A i \in 1 .. l : i = 1 \/ i \in 2 .. p \/ i \in p + 1 .. l
    BY <1>1, <1>2
  <1> HIDE DEF r
  <1>9. /\ r[1] = t
        /\ \A i \in 2 .. p : r[i] = recency[i - 1]
        /\ \A i \in p + 1 .. l : r[i] = recency[i]
    BY <1>3, <1>5, <1>6, <1>7
  <1>10. \A i \in 1 .. l : r[i] \in Transmitters
    BY <1>4, <1>5, <1>6, <1>8, <1>9
  <1>11. r \in [1 .. l -> Transmitters]
    BY <1>3, <1>10
  <1>12. r \in Seq(Transmitters) /\ Len(r) = l
    BY <1>11, SeqDef, LenProperties
  <1> QED
    BY <1>2, <1>5, <1>6, <1>9, <1>12 DEF r

\* Where a transmitter at place i of the new order came from, and went to.
LEMMA NewPlaces ==
    ASSUME StatsTyped, RecencyInv, frame.tx \in Transmitters,
           NEW n \in Nat, n = Len(recency), NEW p \in Nat, p = PlaceOf(frame.tx),
           NEW l \in Nat, l = IF p > n THEN p ELSE n,
           NEW r, r = MovedToFront(frame.tx)
    PROVE  /\ \A i \in 2 .. l : \E k \in 1 .. n : /\ k # p /\ r[i] = recency[k]
                                                  /\ k = IF i <= p THEN i - 1 ELSE i
           /\ \A k \in 1 .. n : k # p => \E i \in 2 .. l : r[i] = recency[k]
  <1>0. p >= 1 /\ p <= n + 1 /\ l >= 1 /\ p <= l
    BY Places
  <1>1. ASSUME NEW i \in 2 .. l
        PROVE  \E k \in 1 .. n : k # p /\ r[i] = recency[k] /\ k = IF i <= p THEN i - 1 ELSE i
    <2>1. CASE i <= p
      <3>1. i \in 2 .. p /\ i - 1 # p
        BY <1>0, <2>1
      <3>2. i - 1 \in 1 .. n /\ r[i] = recency[i - 1]
        BY <3>1, MovedToFrontIs
      <3> QED
        BY <2>1, <3>1, <3>2
    <2>2. CASE ~(i <= p)
      <3>1. i \in p + 1 .. l /\ i # p
        BY <1>0, <2>2
      <3>2. i \in 1 .. n /\ r[i] = recency[i]
        BY <3>1, MovedToFrontIs
      <3> QED
        BY <2>2, <3>1, <3>2
    <2> QED
      BY <2>1, <2>2
  <1>2. ASSUME NEW k \in 1 .. n, k # p
        PROVE  \E i \in 2 .. l : r[i] = recency[k]
    <2>1. CASE k < p
      <3>1. k + 1 \in 2 .. p /\ k + 1 \in 2 .. l /\ (k + 1) - 1 = k
        BY <1>0, <2>1
      <3>2. r[k + 1] = recency[(k + 1) - 1]
        BY <3>1, MovedToFrontIs
      <3> QED
        BY <3>1, <3>2
    <2>2. CASE k > p
      <3>1. k \in p + 1 .. l /\ k \in 2 .. l
        BY <1>0, <2>2
      <3>2. r[k] = recency[k]
        BY <3>1, MovedToFrontIs
      <3> QED
        BY <3>1, <3>2
    <2> QED
      BY <1>0, <1>2, <2>1, <2>2
  <1> QED
    BY <1>1, <1>2

\* The table after a frame is folded.
LEMMA FoldedTable ==
    ASSUME StatsTyped, FoldFrame
    PROVE  /\ DOMAIN table' = Kept \cup {frame.tx}
           /\ Kept \subseteq DOMAIN table
           /\ table'[frame.tx] = Entry(stamp)
           /\ \A m \in Kept : m # frame.tx =>
                 table'[m] = [table[m] EXCEPT !.resync = @ \/ resyncAll]
  <1>1. Kept \subseteq DOMAIN table
    BY DEF Kept
  <1>2. table' = [m \in Kept \cup {frame.tx} |-> IF m = frame.tx THEN Entry(stamp) ELSE Resynced[m]]
    BY DEF FoldFrame, Folded
  <1>3. \A m \in DOMAIN table : Resynced[m] = [table[m] EXCEPT !.resync = @ \/ resyncAll]
    BY DEF Resynced
  <1> QED
    BY <1>1, <1>2, <1>3

LEMMA FoldRecency ==
    ASSUME StatsTyped, RecencyInv, FoldFrame
    PROVE  RecencyInv'
  <1> DEFINE t == frame.tx
             r == MovedToFront(t)
  <1>1. framePc = "fold" /\ t \in Transmitters /\ stamp \in Nat /\ txClock \in Nat
    BY DEF FoldFrame, StatsTyped, HistoryTypes, InHand, FrameType, StatsNumbers
  <1>2. PICK n \in Nat, p \in Nat, l \in Nat :
            n = Len(recency) /\ p = PlaceOf(t) /\ l = IF p > n THEN p ELSE n
    <2>1. Len(recency) \in Nat /\ PlaceOf(t) \in Nat
      BY <1>1, Places
    <2> QED
      BY <2>1
  <1>3. /\ r \in Seq(Transmitters) /\ Len(r) = l /\ l >= 1 /\ l <= TrackedTx /\ r[1] = t
    BY <1>1, <1>2, MovedToFrontIs
  <1>4. /\ \A i \in 2 .. l : \E k \in 1 .. n : /\ k # p /\ r[i] = recency[k]
                                               /\ k = IF i <= p THEN i - 1 ELSE i
        /\ \A k \in 1 .. n : k # p => \E i \in 2 .. l : r[i] = recency[k]
    <2> HIDE DEF r
    <2> QED
      BY <1>1, <1>2, NewPlaces DEF r
  <1>5. /\ \A m : m \in Kept /\ m # t <=> \E k \in 1 .. n : k # p /\ recency[k] = m
        /\ IsFiniteSet(Kept \cup {t}) /\ Cardinality(Kept \cup {t}) = l
    BY <1>1, <1>2, Places
  <1>6. /\ recency' = r /\ framePc' = "loss" /\ txClock' = txClock
    BY DEF FoldFrame, TrueFold, Unlock
  <1>7. /\ DOMAIN table' = Kept \cup {t} /\ Kept \subseteq DOMAIN table
        /\ table'[t] = Entry(stamp)
        /\ \A m \in Kept : m # t => table'[m] = [table[m] EXCEPT !.resync = @ \/ resyncAll]
    BY FoldedTable
  <1> HIDE DEF r, t
  <1>8. \A m \in DOMAIN table :
            /\ table[m] \in [gaps : Nat, lastSeq : 0 .. SeqModulus - 1, lastUsed : Nat,
                             resync : BOOLEAN]
            /\ table[m].lastUsed \in Nat /\ table[m].lastUsed < stamp
    BY <1>1 DEF RecencyInv, StatsTyped, TableTypes, EntryType
  <1>9. /\ table'[t].lastUsed = stamp
        /\ \A m \in Kept : m # t => table'[m].lastUsed = table[m].lastUsed
    BY <1>7, <1>8 DEF Entry
  <1>10. \A m : m \in DOMAIN table' <=> \E i \in 1 .. l : r[i] = m
    <2> TAKE m
    <2>1. m \in DOMAIN table' <=> m = t \/ \E k \in 1 .. n : k # p /\ recency[k] = m
      BY <1>5, <1>7
    <2>2. (\E k \in 1 .. n : k # p /\ recency[k] = m) <=> \E i \in 2 .. l : r[i] = m
      BY <1>4
    <2>3. (\E i \in 1 .. l : r[i] = m) <=> m = t \/ \E i \in 2 .. l : r[i] = m
      <3>1. \A i : i \in 1 .. l <=> i = 1 \/ i \in 2 .. l
        BY <1>3
      <3> QED
        BY <1>3, <3>1
    <2> QED
      BY <2>1, <2>2, <2>3
  <1>11. \A i, j \in 1 .. l : i < j => table'[r[j]].lastUsed < table'[r[i]].lastUsed
    <2> SUFFICES ASSUME NEW i \in 1 .. l, NEW j \in 1 .. l, i < j
                 PROVE  table'[r[j]].lastUsed < table'[r[i]].lastUsed
      OBVIOUS
    <2>1. j \in 2 .. l
      OBVIOUS
    <2>2. PICK k \in 1 .. n : k # p /\ r[j] = recency[k] /\ k = IF j <= p THEN j - 1 ELSE j
      BY <1>4, <2>1
    <2>3. r[j] \in Kept /\ r[j] # t /\ recency[k] \in DOMAIN table
      BY <1>5, <1>7, <2>2
    <2>4. table'[r[j]].lastUsed = table[recency[k]].lastUsed
      BY <1>9, <2>2, <2>3
    <2>5. CASE i = 1
      BY <1>3, <1>8, <1>9, <2>3, <2>4, <2>5
    <2>6. CASE i # 1
      <3>1. i \in 2 .. l
        BY <2>6
      <3>2. PICK h \in 1 .. n : h # p /\ r[i] = recency[h] /\ h = IF i <= p THEN i - 1 ELSE i
        BY <1>4, <3>1
      <3>3. r[i] \in Kept /\ r[i] # t
        BY <1>5, <3>2
      <3>4. table'[r[i]].lastUsed = table[recency[h]].lastUsed
        BY <1>9, <3>2, <3>3
      <3>5. h < k
        BY <2>2, <3>2
      <3>6. table[recency[k]].lastUsed < table[recency[h]].lastUsed
        BY <1>2, <3>5 DEF RecencyInv
      <3> QED
        BY <2>4, <3>4, <3>6
    <2> QED
      BY <2>5, <2>6
  <1>12. \A m \in DOMAIN table' : table'[m].lastUsed < txClock'
    <2> TAKE m \in DOMAIN table'
    <2>1. stamp < txClock
      BY <1>1 DEF RecencyInv
    <2>2. CASE m = t
      BY <1>1, <1>6, <1>9, <2>1, <2>2
    <2>3. CASE m # t
      <3>1. m \in Kept /\ m \in DOMAIN table
        BY <1>7, <2>3
      <3> QED
        BY <1>1, <1>6, <1>8, <1>9, <2>1, <2>3, <3>1
    <2> QED
      BY <2>2, <2>3
  <1>13. Len(recency') = l
    BY <1>3, <1>6
  <1>14. IsFiniteSet(DOMAIN table') /\ Cardinality(DOMAIN table') = l
    BY <1>5, <1>7
  <1> QED
    BY <1>3, <1>6, <1>10, <1>11, <1>12, <1>13, <1>14 DEF RecencyInv

LEMMA NextRecency == StatsTyped /\ RecencyInv /\ [StatsNext]_statsVars => RecencyInv'
  <1> SUFFICES ASSUME StatsTyped, RecencyInv, [StatsNext]_statsVars PROVE RecencyInv'
    OBVIOUS
  <1>1. ASSUME UNCHANGED <<table, recency, txClock>>, framePc' = "fold" => UNCHANGED <<framePc, stamp>>
        PROVE  RecencyInv'
    BY <1>1 DEF RecencyInv
  <1>2. ASSUME NEW t \in Transmitters, Hear(t) \/ Misses(t) \/ \E retry \in BOOLEAN : HearAgain(t, retry)
        PROVE  RecencyInv'
    BY <1>1, <1>2 DEF Hear, Misses, HearAgain, Recorded, callbackFrame, callbackVars
  <1>3. CASE DrawClock
    <2>1. /\ UNCHANGED <<table, recency>> /\ txClock' = txClock + 1 /\ stamp' = txClock
          /\ txClock \in Nat /\ \A m \in DOMAIN table : table[m].lastUsed \in Nat
      BY <1>3 DEF DrawClock, truthVars, StatsTyped, StatsNumbers, TableTypes, EntryType
    <2>2. /\ \A m \in DOMAIN table : /\ table[m].lastUsed < txClock
                                     /\ table[m].lastUsed < txClock + 1
          /\ txClock < txClock + 1
      BY <2>1 DEF RecencyInv
    <2>3. /\ \A m \in DOMAIN table' : table'[m].lastUsed < txClock'
          /\ stamp' < txClock' /\ \A m \in DOMAIN table' : table'[m].lastUsed < stamp'
      BY <2>1, <2>2
    <2>4. /\ recency' \in Seq(Transmitters) /\ Len(recency') <= TrackedTx
          /\ \A m : m \in DOMAIN table' <=> \E i \in 1 .. Len(recency') : recency'[i] = m
          /\ IsFiniteSet(DOMAIN table') /\ Cardinality(DOMAIN table') = Len(recency')
          /\ \A i, j \in 1 .. Len(recency') :
                i < j => table'[recency'[j]].lastUsed < table'[recency'[i]].lastUsed
      BY <2>1, Zenon DEF RecencyInv
    <2> QED
      BY <2>3, <2>4, Zenon DEF RecencyInv
  <1>4. CASE FoldFrame
    BY <1>4, FoldRecency
  <1>5. CASE RecordGap \/ SetOutput \/ HandleToggle \/ ResetCounters
    BY <1>1, <1>5 DEF RecordGap, SetOutput, HandleToggle, ResetCounters, executorFrame,
                      callbackVars, truthVars, truthHistory
  <1>6. CASE ResetTable
    <2>1. /\ DOMAIN table' = {} /\ recency' = <<>> /\ Len(recency') = 0
      BY <1>6, EmptySeq DEF ResetTable
    <2>2. framePc' = framePc /\ stamp' = stamp /\ txClock' = txClock
      BY <1>6 DEF ResetTable, executorFrame, callbackVars
    <2>3. IsFiniteSet(DOMAIN table') /\ Cardinality(DOMAIN table') = 0
      BY <2>1, FS_EmptySet
    <2>4. recency' \in Seq(Transmitters) /\ Len(recency') <= TrackedTx
      BY <2>1, EmptySeq, TrackedTxAssumption
    <2> QED
      BY <2>1, <2>2, <2>3, <2>4 DEF RecencyInv
  <1>7. CASE UNCHANGED statsVars
    BY <1>1, <1>7 DEF statsVars, callbackVars, truthVars
  <1> QED
    BY <1>2, <1>3, <1>4, <1>5, <1>6, <1>7 DEF StatsNext

-----------------------------------------------------------------------------
(* Statistics: types. *)

LEMMA WrapType ==
    ASSUME NEW a \in Nat
    PROVE  a % SeqModulus \in 0 .. SeqModulus - 1
  BY NumbersAssumption, DivMod

\* The gap that record_tx_frame finds is a number of frames.
LEMMA GapFoundType ==
    ASSUME StatsTyped, framePc = "fold"
    PROVE  GapFound \in Nat
  <1> DEFINE diff == (frame.seq + SeqModulus - table[frame.tx].lastSeq) % SeqModulus
  <1>1. CASE ~Known
    BY <1>1 DEF GapFound
  <1>2. CASE Known
    <2>1. /\ frame.seq \in 0 .. SeqModulus - 1 /\ SeqModulus \in Nat
          /\ table[frame.tx].lastSeq \in 0 .. SeqModulus - 1
      BY <1>2, NumbersAssumption
      DEF StatsTyped, TableTypes, EntryType, StatsNumbers, HistoryTypes, InHand, FrameType, Known
    <2>2. frame.seq + SeqModulus - table[frame.tx].lastSeq \in Nat
      BY <2>1
    <2>3. diff \in Nat
      BY <2>2, WrapType
    <2> HIDE DEF diff
    <2>4. diff > 1 => diff - 1 \in Nat
      BY <2>3
    <2> QED
      BY <2>4 DEF GapFound, diff
  <1> QED
    BY <1>1, <1>2

LEMMA EntryTyped ==
    ASSUME StatsTyped, framePc = "fold"
    PROVE  Entry(stamp) \in EntryType
  <1>1. /\ frame.seq \in 0 .. SeqModulus - 1 /\ stamp \in Nat /\ GapFound \in Nat
        /\ Known => table[frame.tx] \in EntryType
    BY GapFoundType
    DEF StatsTyped, TableTypes, EntryType, StatsNumbers, HistoryTypes, InHand, FrameType, Known
  <1>2. CASE Known
    <2>1. table[frame.tx].gaps \in Nat /\ table[frame.tx].lastSeq \in 0 .. SeqModulus - 1
      BY <1>1, <1>2 DEF EntryType
    <2> QED
      BY <1>1, <1>2, <2>1 DEF Entry, EntryType
  <1>3. CASE ~Known
    BY <1>1, <1>3 DEF Entry, EntryType
  <1> QED
    BY <1>2, <1>3

LEMMA FoldTyped ==
    ASSUME StatsTyped, RecencyInv, FoldFrame
    PROVE  StatsTyped'
  <1> DEFINE t == frame.tx
  <1>0. /\ framePc = "fold" /\ t \in Transmitters /\ frame \in FrameType
        /\ frame.skipped \in Silences
        /\ StatsFlags /\ StatsNumbers /\ TableTypes /\ StatsPlaces /\ HistoryTypes
    BY DEF FoldFrame, StatsTyped, HistoryTypes, InHand, FrameType
  <1>1. /\ framePc = "fold" /\ t \in Transmitters /\ frame \in FrameType
        /\ frame.skipped \in Nat
        /\ StatsFlags /\ StatsNumbers /\ TableTypes /\ StatsPlaces /\ HistoryTypes
    BY <1>0, SilencesAreNumbers
  <1>2. /\ DOMAIN table' = Kept \cup {t} /\ Kept \subseteq DOMAIN table
        /\ table'[t] = Entry(stamp)
        /\ \A m \in Kept : m # t => table'[m] = [table[m] EXCEPT !.resync = @ \/ resyncAll]
    BY FoldedTable
  <1>3. TableTypes'
    <2>1. Cardinality(DOMAIN table') <= TrackedTx
      BY FoldRecency DEF RecencyInv
    <2>2. DOMAIN table' \subseteq Transmitters
      BY <1>1, <1>2 DEF TableTypes
    <2>3. ASSUME NEW m \in DOMAIN table' PROVE table'[m] \in EntryType
      <3>1. CASE m = t
        BY <1>1, <1>2, <3>1, EntryTyped
      <3>2. CASE m # t
        <4>1. m \in Kept /\ table[m] \in EntryType
          BY <1>1, <1>2, <2>3, <3>2 DEF TableTypes
        <4>2. (table[m].resync \/ resyncAll) \in BOOLEAN
          BY <1>1, <4>1, Zenon
        <4>3. table'[m] = [table[m] EXCEPT !.resync = (table[m].resync \/ resyncAll)]
          BY <1>2, <3>2, <4>1
        <4> DEFINE b == table[m].resync \/ resyncAll
        <4> HIDE DEF b
        <4>4. b \in BOOLEAN /\ table'[m] = [table[m] EXCEPT !.resync = b]
          BY <4>2, <4>3 DEF b
        <4> QED
          BY <4>1, <4>4 DEF EntryType
      <3> QED
        BY <3>1, <3>2
    <2> QED
      BY <2>1, <2>2, <2>3 DEF TableTypes
  <1>4. /\ framePc' = "loss" /\ gap' = GapFound /\ resyncAll' = FALSE /\ stamp' = 0
        /\ frame' = NoFrame
        /\ UNCHANGED <<txClock, resetTracker, switchVars, seqGap, resetPc, restarts, airVars>>
    BY DEF FoldFrame, Unlock
  <1>5. mixed' \in BOOLEAN
    BY <1>1, Zenon DEF FoldFrame, Unlock, StatsFlags
  <1>6. GapFound \in Nat
    BY <1>1, GapFoundType
  <1>7. StatsFlags' /\ StatsPlaces'
    BY <1>1, <1>4, <1>5 DEF StatsFlags, StatsPlaces, switchVars
  <1> DEFINE known == \E i \in 1 .. Len(recency) : recency[i] = t
             counted == IF frame.retry \/ toggled[t] \/ frame.skipped + 1 >= GapLimit
                        THEN 0 ELSE frame.skipped
  <1>8. /\ truth' = [truth EXCEPT ![t] = IF known THEN @ + counted ELSE 0]
        /\ total' = IF known THEN total + counted ELSE total
        /\ toggled' = [toggled EXCEPT ![t] = FALSE]
        /\ missing' = [missing EXCEPT ![t] = IF known /\ frame.retry THEN @ + frame.skipped ELSE @]
    BY DEF FoldFrame, TrueFold
  <1>a. missing' \in [Transmitters -> Silences]
    <2>1. missing[t] \in Silences
      BY <1>0 DEF HistoryTypes
    <2>2. ASSUME frame.retry PROVE missing[t] + frame.skipped \in Silences
      <3>1. missing[t] + frame.skipped <= SeqModulus - 2
        BY <1>0, <2>2 DEF HistoryTypes
      <3> QED
        BY <1>0, <2>1, <3>1, NumbersAssumption DEF Silences
    <2> DEFINE left == IF known /\ frame.retry THEN missing[t] + frame.skipped ELSE missing[t]
    <2>3. left \in Silences
      BY <2>1, <2>2
    <2>4. missing' = [missing EXCEPT ![t] = left]
      BY <1>8
    <2> HIDE DEF left
    <2> QED
      BY <1>0, <2>3, <2>4 DEF HistoryTypes
  <1>9. counted \in Nat
    BY <1>1
  <1> HIDE DEF known, counted
  <1>10. StatsNumbers'
    BY <1>1, <1>4, <1>6, <1>8, <1>9 DEF StatsNumbers, switchVars, airVars
  <1>11. HistoryTypes'
    <2>1. ~frame'.retry /\ ~InHand' /\ air' = air
      BY <1>4 DEF NoFrame, InHand, airVars
    <2>2. truth' \in [Transmitters -> Nat] /\ toggled' \in [Transmitters -> BOOLEAN]
      BY <1>1, <1>8, <1>9 DEF HistoryTypes
    <2> QED
      BY <1>0, <1>a, <2>1, <2>2, Zenon DEF HistoryTypes
  <1> QED
    BY <1>3, <1>7, <1>10, <1>11 DEF StatsTyped

LEMMA NextStatsTyped == StatsTyped /\ RecencyInv /\ [StatsNext]_statsVars => StatsTyped'
  <1> SUFFICES ASSUME StatsTyped, RecencyInv, [StatsNext]_statsVars PROVE StatsTyped'
    OBVIOUS
  <1>0. StatsFlags /\ StatsNumbers /\ TableTypes /\ StatsPlaces /\ HistoryTypes
    BY DEF StatsTyped
  <1>a. SUFFICES StatsFlags' /\ StatsNumbers' /\ TableTypes' /\ StatsPlaces' /\ HistoryTypes'
    BY DEF StatsTyped
  <1>b. UNCHANGED table => TableTypes'
    BY <1>0 DEF TableTypes
  <1>c. ASSUME NEW t \in Transmitters, Advance(t)
        PROVE  sent' \in Nat /\ air' \in [Transmitters -> 0 .. SeqModulus - 1]
    <2>1. air[t] + 1 \in Nat /\ sent' = sent + 1
      BY <1>0, <1>c, NumbersAssumption DEF HistoryTypes, Advance
    <2>2. (air[t] + 1) % SeqModulus \in 0 .. SeqModulus - 1
      BY <2>1, WrapType
    <2> QED
      BY <1>0, <1>c, <2>1, <2>2 DEF Advance, HistoryTypes, StatsNumbers
  <1>1. ASSUME NEW t \in Transmitters, Misses(t)
        PROVE  StatsFlags' /\ StatsNumbers' /\ TableTypes' /\ StatsPlaces' /\ HistoryTypes'
    <2>1. /\ missing' = [missing EXCEPT ![t] = @ + 1] /\ Silence(t) < SeqModulus - 2
          /\ UNCHANGED <<table, txClock, resetTracker, switchVars, seqGap, callbackVars,
                         resetPc, restarts, truth, total, toggled, recency, mixed>>
          /\ Advance(t)
      BY <1>1 DEF Misses
    <2>2. /\ missing[t] \in Silences /\ missing[t] \in Nat
          /\ InHand => frame.skipped \in Silences /\ frame.skipped \in Nat
      BY <1>0, SilencesAreNumbers DEF HistoryTypes, FrameType
    <2>3. frame.retry => InHand
      BY <1>0 DEF HistoryTypes
    <2>4. missing[t] < SeqModulus - 2
      BY <2>1, <2>2, <2>3, NumbersAssumption DEF Silence
    <2>5. missing[t] + 1 \in Silences
      BY <2>2, <2>4, NumbersAssumption DEF Silences
    <2>6. missing' \in [Transmitters -> Silences]
      BY <1>0, <2>1, <2>5 DEF HistoryTypes
    <2>7. frame.retry => InHand /\ missing'[frame.tx] + frame.skipped <= SeqModulus - 2
      <3>1. frame.retry => InHand /\ frame.tx \in Transmitters
        BY <1>0 DEF HistoryTypes, FrameType
      <3>2. missing'[t] = missing[t] + 1
            /\ \A m \in Transmitters : m # t => missing'[m] = missing[m]
        BY <1>0, <2>1 DEF HistoryTypes
      <3>3. CASE frame.retry /\ frame.tx = t
        <4>1. missing[t] + frame.skipped < SeqModulus - 2
          BY <2>1, <3>3 DEF Silence
        <4>2. missing[t] + 1 + frame.skipped <= SeqModulus - 2
          BY <2>2, <3>1, <3>3, <4>1, NumbersAssumption
        <4> QED
          BY <3>1, <3>2, <3>3, <4>2
      <3>4. CASE frame.retry /\ frame.tx # t
        BY <1>0, <3>1, <3>2, <3>4 DEF HistoryTypes
      <3> QED
        BY <3>3, <3>4
    <2> QED
      BY <1>0, <1>b, <1>c, <2>1, <2>6, <2>7
      DEF StatsFlags, StatsNumbers, StatsPlaces, HistoryTypes, switchVars, callbackVars, InHand
  <1>d. ASSUME NEW t \in Transmitters, NEW seq \in 0 .. SeqModulus - 1, NEW retry \in BOOLEAN,
               NEW skipped \in Silences,
               Recorded(t, seq, retry, skipped), UNCHANGED callbackFrame,
               UNCHANGED <<truth, total, toggled, recency>>,
               sent' \in Nat, air' \in [Transmitters -> 0 .. SeqModulus - 1]
        PROVE  StatsFlags' /\ StatsNumbers' /\ TableTypes' /\ StatsPlaces' /\ HistoryTypes'
    <2>1. /\ frame' \in FrameType /\ framePc' = "swap" /\ UNCHANGED <<resyncAll, stamp, gap>>
          /\ frame'.tx = t /\ frame'.skipped = skipped
          /\ missing' = [missing EXCEPT ![t] = 0]
      BY <1>d DEF Recorded, FrameType
    <2>2. mixed' \in BOOLEAN
      BY <1>0, <1>d, Zenon DEF Recorded, StatsFlags
    <2>3. missing' \in [Transmitters -> Silences] /\ missing'[t] = 0
      BY <1>0, <2>1, SilencesAreNumbers DEF HistoryTypes
    <2>4. missing'[frame'.tx] + frame'.skipped <= SeqModulus - 2
      BY <1>d, <2>1, <2>3, NumbersAssumption DEF Silences
    <2>5. HistoryTypes'
      BY <1>0, <1>d, <2>1, <2>3, <2>4, Zenon DEF HistoryTypes, InHand
    <2> QED
      BY <1>0, <1>b, <1>d, <2>1, <2>2, <2>5
      DEF StatsFlags, StatsNumbers, StatsPlaces, switchVars, callbackFrame
  <1>2. ASSUME NEW t \in Transmitters, Hear(t)
        PROVE  StatsFlags' /\ StatsNumbers' /\ TableTypes' /\ StatsPlaces' /\ HistoryTypes'
    <2>1. /\ Advance(t) /\ Recorded(t, air[t], FALSE, missing[t])
          /\ UNCHANGED callbackFrame /\ UNCHANGED <<truth, total, toggled, recency>>
      BY <1>2 DEF Hear
    <2>2. air[t] \in 0 .. SeqModulus - 1 /\ missing[t] \in Silences
      BY <1>0 DEF HistoryTypes
    <2> QED
      BY <1>c, <1>d, <2>1, <2>2
  <1>3. ASSUME NEW t \in Transmitters, NEW retry \in BOOLEAN, HearAgain(t, retry)
        PROVE  StatsFlags' /\ StatsNumbers' /\ TableTypes' /\ StatsPlaces' /\ HistoryTypes'
    <2> DEFINE seq == (air[t] + SeqModulus - 1) % SeqModulus
               skipped == IF retry THEN missing[t] ELSE Earlier(t)
    <2>1. /\ Recorded(t, seq, retry, skipped)
          /\ UNCHANGED callbackFrame /\ UNCHANGED <<truth, total, toggled, recency>>
          /\ sent' = sent + 1 /\ air' = air
      BY <1>3 DEF HearAgain
    <2>2. air[t] \in 0 .. SeqModulus - 1 /\ missing[t] \in Silences
      BY <1>0 DEF HistoryTypes
    <2>3. air[t] + SeqModulus - 1 \in Nat
      BY <2>2, NumbersAssumption
    <2>4. seq \in 0 .. SeqModulus - 1
      BY <2>3, WrapType
    <2>5. skipped \in Silences
      BY <2>2, NumbersAssumption DEF Earlier, Silences
    <2>6. sent' \in Nat /\ air' \in [Transmitters -> 0 .. SeqModulus - 1]
      BY <1>0, <2>1 DEF StatsNumbers, HistoryTypes
    <2> HIDE DEF seq, skipped
    <2> QED
      BY <1>d, <2>1, <2>4, <2>5, <2>6
  <1>4. CASE DrawClock
    <2>1. /\ UNCHANGED <<table, switchVars, seqGap, frame, gap, resetPc, restarts, airVars,
                         truthVars, mixed>>
          /\ stamp' = txClock /\ txClock' = txClock + 1 /\ framePc = "swap" /\ framePc' = "fold"
      BY <1>4 DEF DrawClock
    <2>2. resyncAll' \in BOOLEAN /\ resetTracker' \in BOOLEAN
      BY <1>0, <1>4, Zenon DEF DrawClock, StatsFlags
    <2>3. StatsFlags'
      BY <1>0, <2>1, <2>2, Zenon DEF StatsFlags, switchVars
    <2>4. StatsNumbers' /\ StatsPlaces'
      BY <1>0, <2>1 DEF StatsNumbers, StatsPlaces, switchVars, airVars, truthVars
    <2>5. HistoryTypes'
      BY <1>0, <2>1 DEF HistoryTypes, InHand, airVars, truthVars
    <2> QED
      BY <1>b, <2>1, <2>3, <2>4, <2>5
  <1>5. CASE FoldFrame
    BY <1>5, FoldTyped DEF StatsTyped
  <1>6. CASE RecordGap
    BY <1>0, <1>6, <1>b
    DEF RecordGap, StatsFlags, StatsNumbers, StatsPlaces, HistoryTypes, InHand, switchVars,
        airVars, truthVars
  <1>7. CASE SetOutput
    <2>1. mixed' \in BOOLEAN /\ output' \in BOOLEAN
      BY <1>0, <1>7, Zenon DEF SetOutput, StatsFlags
    <2>2. /\ UNCHANGED <<table, resetTracker, resyncAll, framePc, resetPc, txClock, seqGap, stamp,
                         gap, sent, restarts, total, air, missing, truth, frame>>
          /\ outputChanged' = TRUE /\ toggles' = toggles + 1
          /\ toggled' = [m \in Transmitters |-> TRUE]
      BY <1>7 DEF SetOutput, executorFrame, callbackVars, airVars
    <2>3. HistoryTypes'
      BY <1>0, <2>2 DEF HistoryTypes, InHand
    <2> QED
      BY <1>0, <1>b, <2>1, <2>2, <2>3 DEF StatsFlags, StatsNumbers, StatsPlaces
  <1>8. CASE HandleToggle
    <2>1. /\ UNCHANGED <<table, output, mixed, resyncAll, framePc, resetPc, txClock, seqGap, stamp,
                         gap, sent, toggles, restarts, total, air, missing, truth, toggled, frame>>
          /\ outputChanged' = FALSE /\ resetTracker' = TRUE
      BY <1>8 DEF HandleToggle, executorFrame, callbackVars, airVars, truthHistory
    <2>2. HistoryTypes'
      BY <1>0, <2>1 DEF HistoryTypes, InHand
    <2> QED
      BY <1>0, <1>b, <2>1, <2>2 DEF StatsFlags, StatsNumbers, StatsPlaces
  <1>9. CASE ResetCounters
    <2>1. /\ UNCHANGED <<table, output, outputChanged, resetTracker, mixed, resyncAll, framePc,
                         txClock, stamp, gap, sent, toggles, air, missing, truth, toggled, frame>>
          /\ seqGap' = 0 /\ restarts' = restarts + 1 /\ resetPc' = "table"
          /\ total' = IF framePc = "loss" THEN gap ELSE 0
      BY <1>9 DEF ResetCounters, executorFrame, callbackVars, airVars, switchVars
    <2>2. HistoryTypes'
      BY <1>0, <2>1 DEF HistoryTypes, InHand
    <2> QED
      BY <1>0, <1>b, <2>1, <2>2 DEF StatsFlags, StatsNumbers, StatsPlaces
  <1>10. CASE ResetTable
    <2>1. DOMAIN table' = {} /\ Cardinality(DOMAIN table') = 0
      BY <1>10, EmptySeq, FS_EmptySet DEF ResetTable
    <2>2. TableTypes'
      BY <2>1, TrackedTxAssumption DEF TableTypes
    <2> QED
      BY <1>0, <1>10, <2>2
      DEF ResetTable, StatsFlags, StatsNumbers, StatsPlaces, HistoryTypes, InHand,
          executorFrame, callbackVars, airVars, switchVars
  <1>11. CASE UNCHANGED statsVars
    BY <1>0, <1>11, <1>b
    DEF statsVars, StatsFlags, StatsNumbers, StatsPlaces, HistoryTypes, InHand, switchVars,
        callbackVars, airVars, truthVars
  <1> QED
    BY <1>1, <1>2, <1>3, <1>4, <1>5, <1>6, <1>7, <1>8, <1>9, <1>10, <1>11 DEF StatsNext

-----------------------------------------------------------------------------
(* Statistics: the numbers of a transmitter's frames. *)

LEMMA NumberBefore ==
    ASSUME NEW x \in 0 .. SeqModulus - 1
    PROVE  /\ (x + SeqModulus - 1) % SeqModulus \in 0 .. SeqModulus - 1
           /\ After((x + SeqModulus - 1) % SeqModulus, 1) = x
           /\ (x + 1) % SeqModulus = After(x, 1)
           /\ After(x, 0) = x
  <1>0. PICK m \in Nat \ {0, 1} : m = SeqModulus
    BY NumbersAssumption
  <1>1. x + m - 1 \in Nat /\ x + m - 1 < 2 * m /\ x + 1 \in Nat /\ x + 1 < 2 * m
    BY <1>0
  <1>2. (x + m - 1) % SeqModulus = IF x + m - 1 < m THEN x + m - 1 ELSE x + m - 1 - m
    BY <1>0, <1>1, WrapOnce
  <1>3. (x + 1) % SeqModulus = IF x + 1 < m THEN x + 1 ELSE x + 1 - m
    BY <1>0, <1>1, WrapOnce
  <1> DEFINE y == IF x + m - 1 < m THEN x + m - 1 ELSE x + m - 1 - m
  <1>4. y \in 0 .. m - 1 /\ x = IF y + 1 < m THEN y + 1 ELSE y + 1 - m
    BY <1>0
  <1>5. (x + SeqModulus - 1) % SeqModulus = y
    BY <1>0, <1>2
  <1> HIDE DEF y
  <1>6. After(y, 1) = x
    BY <1>0, <1>4 DEF After
  <1>7. After(x, 1) = (IF x + 1 < m THEN x + 1 ELSE x + 1 - m) /\ After(x, 0) = x
    BY <1>0 DEF After
  <1> QED
    BY <1>0, <1>3, <1>4, <1>5, <1>6, <1>7

\* The parts of the types that the numbers rest on.
LEMMA NumberTypes ==
    ASSUME StatsTyped
    PROVE  /\ \A t \in Transmitters : /\ air[t] \in 0 .. SeqModulus - 1
                                      /\ missing[t] \in Silences
                                      /\ missing[t] \in 0 .. SeqModulus - 2
           /\ \A m \in DOMAIN table : /\ m \in Transmitters
                                      /\ table[m].lastSeq \in 0 .. SeqModulus - 1
           /\ InHand => /\ frame.tx \in Transmitters /\ frame.seq \in 0 .. SeqModulus - 1
                        /\ frame.skipped \in Silences /\ frame.retry \in BOOLEAN
                        /\ frame.skipped \in 0 .. SeqModulus - 2
           /\ SeqModulus \in Nat \ {0, 1}
  BY NumbersAssumption
  DEF StatsTyped, HistoryTypes, TableTypes, EntryType, FrameType, InHand, Silences

LEMMA MissesNumbers ==
    ASSUME StatsTyped, NumbersInv, NEW t \in Transmitters, Misses(t)
    PROVE  NumbersInv'
  <1>1. /\ air' = [air EXCEPT ![t] = (@ + 1) % SeqModulus]
        /\ missing' = [missing EXCEPT ![t] = @ + 1]
        /\ UNCHANGED <<table, framePc, frame>>
    BY DEF Misses, Advance, callbackVars
  <1>2. ASSUME NEW x \in 0 .. SeqModulus - 1, air[t] = After(x, missing[t] + 1)
        PROVE  air'[t] = After(x, missing'[t] + 1)
    <2>1. missing'[t] = missing[t] + 1 /\ air'[t] = (air[t] + 1) % SeqModulus
      BY <1>1 DEF StatsTyped, HistoryTypes
    <2>2. missing[t] + 1 \in 0 .. SeqModulus - 1
      BY NumberTypes
    <2> QED
      BY <1>2, <2>1, <2>2, AfterSteps
  <1>3. \A m \in Transmitters : m # t => air'[m] = air[m] /\ missing'[m] = missing[m]
    BY <1>1 DEF StatsTyped, HistoryTypes
  <1>4. InHand => air'[frame.tx] = After(frame.seq, missing'[frame.tx] + 1)
    BY <1>2, <1>3, NumberTypes DEF NumbersInv
  <1>5. ASSUME NEW m \in DOMAIN table, ~(InHand /\ frame.tx = m)
        PROVE  air'[m] = After(table[m].lastSeq, missing'[m] + 1)
    BY <1>2, <1>3, <1>5, NumberTypes DEF NumbersInv
  <1> QED
    BY <1>1, <1>4, <1>5 DEF NumbersInv, InHand

\* A frame comes into hand.
LEMMA RecordedNumbers ==
    ASSUME StatsTyped, NumbersInv, ~InHand, NEW t \in Transmitters,
           framePc' = "swap", frame'.tx = t, UNCHANGED table,
           missing' = [missing EXCEPT ![t] = 0],
           \A m \in Transmitters : m # t => air'[m] = air[m],
           air'[t] = After(frame'.seq, 1),
           \A x \in 0 .. SeqModulus - 1 :
               air[t] = After(x, missing[t] + 1) => Continues(frame', x)
    PROVE  NumbersInv'
  <1>0. /\ missing'[t] = 0 /\ \A m \in Transmitters : m # t => missing'[m] = missing[m]
        /\ missing'[t] + 1 = 1
    BY DEF StatsTyped, HistoryTypes
  <1>1. InHand' => air'[frame'.tx] = After(frame'.seq, missing'[frame'.tx] + 1)
    BY <1>0
  <1>2. ASSUME NEW m \in DOMAIN table, m # t
        PROVE  air'[m] = After(table[m].lastSeq, missing'[m] + 1)
    BY <1>0, <1>2, NumberTypes DEF NumbersInv
  <1>3. t \in DOMAIN table => Continues(frame', table[t].lastSeq)
    BY NumberTypes DEF NumbersInv
  <1> QED
    BY <1>1, <1>2, <1>3 DEF NumbersInv, InHand

LEMMA HearNumbers ==
    ASSUME StatsTyped, NumbersInv, NEW t \in Transmitters, Hear(t)
    PROVE  NumbersInv'
  <1>1. /\ framePc = "idle" /\ framePc' = "swap" /\ UNCHANGED table
        /\ frame' = [tx |-> t, seq |-> air[t], retry |-> FALSE, skipped |-> missing[t]]
        /\ air' = [air EXCEPT ![t] = (@ + 1) % SeqModulus]
        /\ missing' = [missing EXCEPT ![t] = 0]
    BY DEF Hear, Advance, Recorded, callbackFrame
  <1>2. /\ frame'.tx = t /\ frame'.seq = air[t] /\ frame'.skipped = missing[t]
        /\ ~frame'.retry
    BY <1>1
  <1>3. /\ \A m \in Transmitters : m # t => air'[m] = air[m]
        /\ air'[t] = (air[t] + 1) % SeqModulus
    BY <1>1 DEF StatsTyped, HistoryTypes
  <1>4. air'[t] = After(frame'.seq, 1)
    BY <1>2, <1>3, NumberTypes, NumberBefore
  <1>5. \A x \in 0 .. SeqModulus - 1 :
            air[t] = After(x, missing[t] + 1) => Continues(frame', x)
    BY <1>2 DEF Continues
  <1> QED
    BY <1>1, <1>2, <1>3, <1>4, <1>5, RecordedNumbers DEF InHand

LEMMA HearAgainNumbers ==
    ASSUME StatsTyped, NumbersInv, NEW t \in Transmitters, NEW retry \in BOOLEAN,
           HearAgain(t, retry)
    PROVE  NumbersInv'
  <1> DEFINE before == (air[t] + SeqModulus - 1) % SeqModulus
             skipped == IF retry THEN missing[t] ELSE Earlier(t)
  <1>1. /\ framePc = "idle" /\ framePc' = "swap" /\ UNCHANGED <<table, air>>
        /\ frame' = [tx |-> t, seq |-> before, retry |-> retry, skipped |-> skipped]
        /\ missing' = [missing EXCEPT ![t] = 0]
    BY DEF HearAgain, Recorded, callbackFrame
  <1>2. /\ air[t] \in 0 .. SeqModulus - 1 /\ missing[t] \in Silences
        /\ missing[t] \in 0 .. SeqModulus - 2 /\ SeqModulus \in Nat \ {0, 1}
    BY NumberTypes
  <1>3. air[t] = After(before, 1)
    BY <1>2, NumberBefore
  <1>4. ASSUME NEW x \in 0 .. SeqModulus - 1, air[t] = After(x, missing[t] + 1)
        PROVE  before = After(x, missing[t])
    <2>1. missing[t] + 1 \in 0 .. SeqModulus - 1 /\ missing[t] + 1 > 0
          /\ (missing[t] + 1) - 1 = missing[t]
      BY <1>2
    <2>2. (After(x, missing[t] + 1) + SeqModulus - 1) % SeqModulus
              = After(x, (missing[t] + 1) - 1)
      BY <2>1, AfterSteps
    <2> QED
      BY <1>4, <2>1, <2>2
  <1>5. /\ retry => skipped = missing[t]
        /\ ~retry => \/ skipped + 1 = missing[t]
                     \/ skipped = 0 /\ missing[t] = 0
    BY <1>2 DEF Earlier
  <1> HIDE DEF before, skipped
  <1>6. /\ frame'.tx = t /\ frame'.seq = before /\ frame'.retry = retry
        /\ frame'.skipped = skipped
        /\ \A m \in Transmitters : m # t => air'[m] = air[m]
    BY <1>1
  <1>7. ASSUME NEW x \in 0 .. SeqModulus - 1, air[t] = After(x, missing[t] + 1)
        PROVE  Continues(frame', x)
    <2>1. before = After(x, missing[t]) /\ After(x, 0) = x
      BY <1>4, <1>7, NumberBefore
    <2>2. CASE retry
      BY <1>5, <1>6, <2>1, <2>2 DEF Continues
    <2>3. CASE ~retry
      BY <1>5, <1>6, <2>1, <2>3 DEF Continues
    <2> QED
      BY <2>2, <2>3
  <1> QED
    BY <1>1, <1>3, <1>6, <1>7, RecordedNumbers DEF InHand

\* A first transmission takes the entry to its own number; a retry leaves the
\* entry's, and what it carried is missing still.
LEMMA FoldNumbers ==
    ASSUME StatsTyped, RecencyInv, NumbersInv, FoldFrame
    PROVE  NumbersInv'
  <1> DEFINE t == frame.tx
             known == \E i \in 1 .. Len(recency) : recency[i] = t
  <1>1. /\ framePc = "fold" /\ framePc' = "loss" /\ UNCHANGED air
        /\ missing' = [missing EXCEPT ![t] = IF known /\ frame.retry THEN @ + frame.skipped ELSE @]
    BY DEF FoldFrame, Unlock, TrueFold, airVars
  <1>2. /\ air[t] = After(frame.seq, missing[t] + 1) /\ t \in Transmitters
        /\ missing[t] \in Silences /\ frame.skipped \in Silences
        /\ missing[t] \in Nat /\ frame.skipped \in Nat
        /\ frame.retry => missing[t] + frame.skipped <= SeqModulus - 2
        /\ SeqModulus \in Nat \ {0, 1}
    <2>1. InHand
      BY <1>1 DEF InHand
    <2>2. /\ t \in Transmitters /\ frame.skipped \in Silences
          /\ frame.skipped \in 0 .. SeqModulus - 2 /\ SeqModulus \in Nat \ {0, 1}
          /\ missing[t] \in Silences /\ missing[t] \in 0 .. SeqModulus - 2
      BY <2>1, NumberTypes
    <2>3. frame.retry => missing[t] + frame.skipped <= SeqModulus - 2
      BY DEF StatsTyped, HistoryTypes
    <2>4. air[t] = After(frame.seq, missing[t] + 1)
      BY <2>1 DEF NumbersInv
    <2>5. \A n \in 0 .. SeqModulus - 2 : n \in Nat
      BY NumbersAssumption
    <2> QED
      BY <2>2, <2>3, <2>4, <2>5, Zenon
  <1>k. known <=> Known
    BY <1>2, Places
  <1> HIDE DEF known
  <1>3. /\ DOMAIN table' = Kept \cup {t} /\ Kept \subseteq DOMAIN table
        /\ table'[t] = Entry(stamp)
        /\ \A m \in Kept : m # t => table'[m] = [table[m] EXCEPT !.resync = @ \/ resyncAll]
    BY FoldedTable
  <1>m. /\ \A m \in Transmitters : m # t => missing'[m] = missing[m]
        /\ missing'[t] = IF Known /\ frame.retry THEN missing[t] + frame.skipped ELSE missing[t]
    BY <1>1, <1>2, <1>k DEF StatsTyped, HistoryTypes
  <1>4. air[t] = After(table'[t].lastSeq, missing'[t] + 1)
    <2>1. CASE Known /\ frame.retry
      <3>1. Continues(frame, table[t].lastSeq) /\ table[t].lastSeq \in 0 .. SeqModulus - 1
        BY <1>1, <2>1, NumberTypes DEF NumbersInv, InHand, Known
      <3>2. frame.seq = After(table[t].lastSeq, frame.skipped)
        BY <2>1, <3>1 DEF Continues
      <3>3. missing'[t] = missing[t] + frame.skipped
        BY <1>m, <2>1
      <3>4. /\ frame.skipped + (missing[t] + 1) <= SeqModulus - 1
            /\ missing[t] + 1 \in Nat
            /\ frame.skipped + (missing[t] + 1) = missing'[t] + 1
        BY <1>2, <2>1, <3>3, NumbersAssumption
      <3>5. After(After(table[t].lastSeq, frame.skipped), missing[t] + 1)
                = After(table[t].lastSeq, frame.skipped + (missing[t] + 1))
        BY <1>2, <3>1, <3>4, AfterTwice
      <3>6. table'[t].lastSeq = table[t].lastSeq
        BY <1>3, <2>1 DEF Entry
      <3> QED
        BY <1>2, <3>2, <3>4, <3>5, <3>6
    <2>2. CASE ~(Known /\ frame.retry)
      <3>1. table'[t].lastSeq = frame.seq
        BY <1>3, <2>2 DEF Entry
      <3>2. missing'[t] = missing[t]
        BY <1>m, <2>2
      <3> QED
        BY <1>2, <3>1, <3>2
    <2> QED
      BY <2>1, <2>2
  <1>5. ASSUME NEW m \in Kept, m # t
        PROVE  air[m] = After(table'[m].lastSeq, missing'[m] + 1)
    <2>1. m \in DOMAIN table /\ table[m] \in EntryType /\ m \in Transmitters
      BY <1>3 DEF StatsTyped, TableTypes
    <2>2. table'[m].lastSeq = table[m].lastSeq
      BY <1>3, <1>5, <2>1 DEF EntryType
    <2>3. missing'[m] = missing[m]
      BY <1>5, <1>m, <2>1
    <2> QED
      BY <1>5, <2>1, <2>2, <2>3 DEF NumbersInv
  <1>6. \A m \in DOMAIN table' : air[m] = After(table'[m].lastSeq, missing'[m] + 1)
    BY <1>3, <1>4, <1>5
  <1>7. ~InHand' /\ air' = air
    BY <1>1 DEF InHand
  <1> QED
    BY <1>6, <1>7 DEF NumbersInv

LEMMA NextNumbers ==
    ASSUME StatsTyped, RecencyInv, NumbersInv, [StatsNext]_statsVars
    PROVE  NumbersInv'
  <1>1. ASSUME UNCHANGED <<table, air, missing, frame>>, InHand' <=> InHand
        PROVE  NumbersInv'
    BY <1>1 DEF NumbersInv
  <1>2. ASSUME NEW t \in Transmitters, Hear(t) \/ Misses(t) \/ \E retry \in BOOLEAN : HearAgain(t, retry)
        PROVE  NumbersInv'
    BY <1>2, HearNumbers, MissesNumbers, HearAgainNumbers
  <1>3. CASE FoldFrame
    BY <1>3, FoldNumbers
  <1>4. CASE DrawClock \/ RecordGap \/ SetOutput \/ HandleToggle \/ ResetCounters \/ UNCHANGED statsVars
    BY <1>1, <1>4 DEF DrawClock, RecordGap, SetOutput, HandleToggle, ResetCounters, statsVars,
                      executorFrame, callbackVars, airVars, truthVars, InHand
  <1>5. CASE ResetTable
    <2>1. DOMAIN table' = {} /\ UNCHANGED <<air, missing, frame, framePc>>
      BY <1>5, EmptySeq DEF ResetTable, executorFrame, callbackVars, airVars
    <2> QED
      BY <2>1 DEF NumbersInv, InHand
  <1> QED
    BY <1>2, <1>3, <1>4, <1>5 DEF StatsNext

-----------------------------------------------------------------------------
(* Statistics: switches of output, and the sums. *)

LEMMA FoldSwitches ==
    ASSUME StatsTyped, SwitchInv, FoldFrame
    PROVE  SwitchInv'
  <1> DEFINE t == frame.tx
  <1>1. /\ framePc = "fold" /\ framePc' = "loss" /\ UNCHANGED <<resetTracker, outputChanged>>
        /\ toggled' = [toggled EXCEPT ![t] = FALSE]
    BY DEF FoldFrame, Unlock, TrueFold, switchVars
  <1>2. ~resetTracker' /\ ~outputChanged'
    BY <1>1 DEF SwitchInv, InHand
  <1>3. /\ DOMAIN table' = Kept \cup {t} /\ Kept \subseteq DOMAIN table
        /\ table'[t] = Entry(stamp)
        /\ \A m \in Kept : m # t => table'[m] = [table[m] EXCEPT !.resync = @ \/ resyncAll]
    BY FoldedTable
  <1>4. ~toggled'[t] /\ ~table'[t].resync
    <2>1. table'[t].resync = FALSE
      BY <1>3 DEF Entry
    <2>2. toggled'[t] = FALSE
      BY <1>1, NumberTypes DEF StatsTyped, HistoryTypes, InHand
    <2> QED
      BY <2>1, <2>2
  <1>5. ASSUME NEW m \in Kept, m # t
        PROVE  toggled'[m] <=> table'[m].resync
    <2>1. m \in DOMAIN table /\ table[m] \in EntryType /\ m \in Transmitters
      BY <1>3 DEF StatsTyped, TableTypes
    <2> DEFINE b == table[m].resync \/ resyncAll
    <2>2. table'[m] = [table[m] EXCEPT !.resync = b]
      BY <1>3, <1>5
    <2> HIDE DEF b
    <2>3. table'[m].resync = b
      BY <2>1, <2>2 DEF EntryType
    <2>4. toggled'[m] = toggled[m]
      BY <1>1, <1>5, <2>1 DEF StatsTyped, HistoryTypes
    <2>5. toggled[m] <=> b
      BY <1>1, <1>2, <2>1, Zenon DEF SwitchInv, Switched, b
    <2> QED
      BY <2>3, <2>4, <2>5
  <1>6. \A m \in DOMAIN table' : toggled'[m] <=> table'[m].resync
    BY <1>3, <1>4, <1>5
  <1>7. framePc' # "fold" /\ ~InHand'
    BY <1>1 DEF InHand
  <1> QED
    BY <1>2, <1>6, <1>7, Zenon DEF SwitchInv, Switched

LEMMA NextSwitches ==
    ASSUME StatsTyped, SwitchInv, [StatsNext]_statsVars, ~mixed'
    PROVE  SwitchInv'
  <1>1. ASSUME UNCHANGED <<table, toggled, resetTracker, outputChanged>>,
               framePc # "fold", framePc' # "fold", InHand' => ~outputChanged
        PROVE  SwitchInv'
    BY <1>1, Zenon DEF SwitchInv, Switched
  <1>2. ASSUME NEW t \in Transmitters, NEW seq, NEW retry, NEW skipped,
               framePc = "idle", Recorded(t, seq, retry, skipped),
               UNCHANGED callbackFrame, UNCHANGED toggled
        PROVE  SwitchInv'
    <2>1. framePc' = "swap" /\ ~outputChanged
          /\ UNCHANGED <<table, resetTracker, outputChanged>>
      BY <1>2 DEF Recorded, callbackFrame, switchVars
    <2> QED
      BY <1>1, <1>2, <2>1
  <1>3. ASSUME NEW t \in Transmitters, Hear(t) \/ \E retry \in BOOLEAN : HearAgain(t, retry)
        PROVE  SwitchInv'
    BY <1>2, <1>3 DEF Hear, HearAgain
  <1>4. ASSUME UNCHANGED <<table, toggled, resetTracker, outputChanged, framePc, resyncAll>>
        PROVE  SwitchInv'
    BY <1>4, Zenon DEF SwitchInv, Switched, InHand
  <1>5. CASE \/ \E t \in Transmitters : Misses(t)
             \/ ResetCounters \/ UNCHANGED statsVars
    BY <1>4, <1>5 DEF Misses, ResetCounters, statsVars, switchVars, callbackVars, truthVars,
                      executorFrame
  <1>6. CASE DrawClock
    <2>1. /\ framePc = "swap" /\ framePc' = "fold" /\ resyncAll' = resetTracker
          /\ ~resetTracker' /\ UNCHANGED <<table, toggled, outputChanged>>
      BY <1>6 DEF DrawClock, switchVars, truthVars
    <2>2. ~outputChanged
      BY <2>1 DEF SwitchInv, InHand
    <2>3. framePc # "fold"
      BY <2>1
    <2> QED
      BY <2>1, <2>2, <2>3, Zenon DEF SwitchInv, Switched
  <1>7. CASE FoldFrame
    BY <1>7, FoldSwitches
  <1>8. CASE RecordGap
    <2>1. /\ framePc = "loss" /\ framePc' = "idle"
          /\ UNCHANGED <<table, toggled, resetTracker, outputChanged>>
      BY <1>8 DEF RecordGap, switchVars, truthVars
    <2> QED
      BY <1>1, <2>1 DEF InHand
  <1>9. CASE SetOutput
    <2>1. /\ outputChanged' /\ toggled' = [t \in Transmitters |-> TRUE]
          /\ UNCHANGED <<table, framePc>>
      BY <1>9 DEF SetOutput, executorFrame, callbackVars
    <2>2. ~InHand
      BY <1>9 DEF SetOutput, InHand
    <2>3. \A m \in DOMAIN table : toggled'[m]
      BY <2>1, NumberTypes
    <2>4. ~InHand' /\ framePc' # "fold"
      BY <2>1, <2>2 DEF InHand
    <2> QED
      BY <2>1, <2>3, <2>4, Zenon DEF SwitchInv, Switched
  <1>10. CASE HandleToggle
    <2>1. /\ outputChanged /\ ~outputChanged' /\ resetTracker'
          /\ UNCHANGED <<table, toggled, framePc>>
      BY <1>10 DEF HandleToggle, executorFrame, callbackVars, truthHistory
    <2>2. ~InHand
      BY <2>1 DEF SwitchInv
    <2>3. \A m \in DOMAIN table : toggled[m]
      BY <2>1, Zenon DEF SwitchInv, Switched
    <2>4. framePc' # "fold"
      BY <2>1, <2>2 DEF InHand
    <2> QED
      BY <2>1, <2>3, <2>4, Zenon DEF SwitchInv, Switched
  <1>11. CASE ResetTable
    <2>1. DOMAIN table' = {} /\ UNCHANGED <<resetTracker, outputChanged, framePc>>
      BY <1>11, EmptySeq DEF ResetTable, executorFrame, callbackVars, switchVars
    <2> QED
      BY <2>1, Zenon DEF SwitchInv, Switched, InHand
  <1> QED
    BY <1>3, <1>5, <1>6, <1>7, <1>8, <1>9, <1>10, <1>11 DEF StatsNext

\* What the table finds missing is what was.
LEMMA GapFoundIsTrue ==
    ASSUME StatsTyped, NumbersInv, SwitchInv, framePc = "fold", Known
    PROVE  GapFound = IF frame.retry \/ toggled[frame.tx] \/ frame.skipped + 1 >= GapLimit
                      THEN 0 ELSE frame.skipped
  <1> DEFINE t == frame.tx
             previous == table[t].lastSeq
             diff == (frame.seq + SeqModulus - previous) % SeqModulus
  <1>1. /\ t \in DOMAIN table /\ t \in Transmitters
        /\ previous \in 0 .. SeqModulus - 1 /\ frame.skipped \in 0 .. SeqModulus - 2
        /\ SeqModulus \in Nat \ {0, 1} /\ GapLimit \in Nat \ {0}
    BY NumberTypes, NumbersAssumption DEF Known, InHand
  <1>2. Resynced[t].resync <=> toggled[t]
    <2>1. table[t] \in EntryType /\ Resynced[t] = [table[t] EXCEPT !.resync = @ \/ resyncAll]
      BY <1>1 DEF Resynced, StatsTyped, TableTypes
    <2> DEFINE b == table[t].resync \/ resyncAll
    <2>2. Resynced[t] = [table[t] EXCEPT !.resync = b]
      BY <2>1
    <2> HIDE DEF b
    <2>3. Resynced[t].resync = b
      BY <2>1, <2>2 DEF EntryType
    <2>4. ~outputChanged /\ ~resetTracker
      BY DEF SwitchInv, InHand
    <2>5. toggled[t] <=> b
      BY <1>1, <2>4, Zenon DEF SwitchInv, Switched, b
    <2> QED
      BY <2>3, <2>5
  <1>3. Continues(frame, previous)
    BY <1>1 DEF NumbersInv, InHand
  <1>4. ~frame.retry => \/ diff = frame.skipped + 1
                        \/ diff = 0 /\ frame.skipped = 0
    <2>1. CASE frame.seq = After(previous, frame.skipped + 1)
      <3>1. frame.skipped + 1 \in 0 .. SeqModulus - 1
        BY <1>1
      <3>2. (After(previous, frame.skipped + 1) + SeqModulus - previous) % SeqModulus
                = frame.skipped + 1
        BY <1>1, <3>1, AfterSteps
      <3> QED
        BY <2>1, <3>2
    <2>2. CASE frame.seq = previous /\ frame.skipped = 0
      <3>1. 0 \in 0 .. SeqModulus - 1 /\ After(previous, 0) = previous
        BY <1>1, NumberBefore
      <3>2. (After(previous, 0) + SeqModulus - previous) % SeqModulus = 0
        BY <1>1, <3>1, AfterSteps
      <3> QED
        BY <2>2, <3>1, <3>2
    <2> QED
      BY <1>3, <2>1, <2>2 DEF Continues
  <1>5. GapFound = IF ~Resynced[t].resync /\ ~frame.retry /\ diff > 1 /\ diff < GapLimit
                   THEN diff - 1 ELSE 0
    BY DEF GapFound
  <1> HIDE DEF diff, previous, t
  <1>6. CASE frame.retry \/ toggled[t]
    <2>1. GapFound = 0
      BY <1>2, <1>5, <1>6
    <2> QED
      BY <1>6, <2>1 DEF t
  <1>7. CASE ~frame.retry /\ ~toggled[t]
    <2>1. GapFound = IF diff > 1 /\ diff < GapLimit THEN diff - 1 ELSE 0
      BY <1>2, <1>5, <1>7
    <2>2. GapFound = IF frame.skipped + 1 >= GapLimit THEN 0 ELSE frame.skipped
      BY <1>1, <1>4, <1>7, <2>1
    <2> QED
      BY <1>7, <2>2 DEF t
  <1> QED
    BY <1>6, <1>7

LEMMA FoldSums ==
    ASSUME StatsTyped, RecencyInv, NumbersInv, SwitchInv, SumsInv, FoldFrame
    PROVE  SumsInv'
  <1> DEFINE t == frame.tx
             counted == IF frame.retry \/ toggled[t] \/ frame.skipped + 1 >= GapLimit
                        THEN 0 ELSE frame.skipped
  <1>1. /\ framePc = "fold" /\ framePc' = "loss" /\ gap' = GapFound /\ UNCHANGED seqGap
    BY DEF FoldFrame, Unlock
  <1>2. t \in Transmitters
    BY <1>1, NumberTypes DEF InHand
  <1>3. Known <=> \E i \in 1 .. Len(recency) : recency[i] = t
    BY <1>2, Places
  <1>4. /\ truth' = [truth EXCEPT ![t] = IF Known THEN @ + counted ELSE 0]
        /\ total' = IF Known THEN total + counted ELSE total
    BY <1>3 DEF FoldFrame, TrueFold
  <1>5. Known => GapFound = counted
    BY <1>1, GapFoundIsTrue
  <1>6. /\ DOMAIN table' = Kept \cup {t} /\ Kept \subseteq DOMAIN table
        /\ table'[t] = Entry(stamp)
        /\ \A m \in Kept : m # t => table'[m] = [table[m] EXCEPT !.resync = @ \/ resyncAll]
    BY FoldedTable
  <1> HIDE DEF counted
  <1>7. table'[t].gaps = truth'[t]
    <2>1. truth'[t] = IF Known THEN truth[t] + counted ELSE 0
      BY <1>2, <1>4 DEF StatsTyped, HistoryTypes
    <2>2. table'[t].gaps = IF Known THEN table[t].gaps + GapFound ELSE 0
      BY <1>6 DEF Entry
    <2>3. Known => table[t].gaps = truth[t]
      BY DEF SumsInv, Known
    <2> QED
      BY <1>5, <2>1, <2>2, <2>3
  <1>8. ASSUME NEW m \in Kept, m # t PROVE table'[m].gaps = truth'[m]
    <2>1. m \in DOMAIN table /\ table[m] \in EntryType /\ m \in Transmitters
      BY <1>6 DEF StatsTyped, TableTypes
    <2>2. table'[m].gaps = table[m].gaps
      BY <1>6, <1>8, <2>1 DEF EntryType
    <2>3. truth'[m] = truth[m]
      BY <1>4, <1>8, <2>1 DEF StatsTyped, HistoryTypes
    <2> QED
      BY <2>1, <2>2, <2>3 DEF SumsInv
  <1>9. total' = seqGap' + gap'
    <2>1. total = seqGap /\ seqGap \in Nat
      BY <1>1 DEF SumsInv, StatsTyped, StatsNumbers
    <2>2. CASE Known
      BY <1>1, <1>4, <1>5, <2>1, <2>2
    <2>3. CASE ~Known
      <3>1. GapFound = 0
        BY <2>3 DEF GapFound
      <3> QED
        BY <1>1, <1>4, <2>1, <2>3, <3>1
    <2> QED
      BY <2>2, <2>3
  <1> QED
    BY <1>1, <1>6, <1>7, <1>8, <1>9 DEF SumsInv

LEMMA NextSums ==
    ASSUME StatsTyped, RecencyInv, NumbersInv, SwitchInv, SumsInv, [StatsNext]_statsVars
    PROVE  SumsInv'
  <1>1. ASSUME UNCHANGED <<table, truth, total, seqGap, gap>>,
               framePc' = "loss" <=> framePc = "loss"
        PROVE  SumsInv'
    BY <1>1 DEF SumsInv
  <1>2. ASSUME NEW t \in Transmitters, Hear(t) \/ Misses(t) \/ \E retry \in BOOLEAN : HearAgain(t, retry)
        PROVE  SumsInv'
    BY <1>1, <1>2 DEF Hear, Misses, HearAgain, Recorded, callbackFrame, callbackVars
  <1>3. CASE DrawClock \/ SetOutput \/ HandleToggle \/ UNCHANGED statsVars
    BY <1>1, <1>3 DEF DrawClock, SetOutput, HandleToggle, statsVars, executorFrame,
                      callbackVars, truthVars, truthHistory
  <1>4. CASE FoldFrame
    BY <1>4, FoldSums
  <1>5. CASE RecordGap
    BY <1>5 DEF RecordGap, SumsInv, truthVars
  <1>6. CASE ResetCounters
    <2>1. seqGap' = 0 /\ gap' = gap /\ gap \in Nat /\ UNCHANGED <<table, truth, framePc>>
          /\ total' = IF framePc = "loss" THEN gap ELSE 0
      BY <1>6 DEF ResetCounters, executorFrame, callbackVars, StatsTyped, StatsNumbers
    <2> QED
      BY <2>1 DEF SumsInv
  <1>7. CASE ResetTable
    <2>1. DOMAIN table' = {} /\ UNCHANGED <<total, seqGap, gap, framePc>>
      BY <1>7, EmptySeq DEF ResetTable, executorFrame, callbackVars
    <2> QED
      BY <2>1 DEF SumsInv
  <1> QED
    BY <1>2, <1>3, <1>4, <1>5, <1>6, <1>7 DEF StatsNext

-----------------------------------------------------------------------------
(* Statistics: the theorems. *)

StatsInv == StatsTyped /\ RecencyInv /\ TruthInv

LEMMA InitStats == StatsInit => StatsInv
  <1> SUFFICES ASSUME StatsInit PROVE StatsInv
    OBVIOUS
  <1>1. DOMAIN table = {} /\ Len(recency) = 0 /\ recency \in Seq(Transmitters)
    BY EmptySeq DEF StatsInit
  <1>2. IsFiniteSet(DOMAIN table) /\ Cardinality(DOMAIN table) = 0
    BY <1>1, FS_EmptySet
  <1>3. framePc = "idle"
    BY DEF StatsInit
  <1>4. StatsFlags
    BY Zenon DEF StatsInit, StatsFlags
  <1>5. StatsNumbers /\ StatsPlaces /\ total = seqGap
    BY DEF StatsInit, StatsNumbers, StatsPlaces
  <1>6. TableTypes /\ RecencyInv
    BY <1>1, <1>2, <1>3, TrackedTxAssumption DEF TableTypes, RecencyInv
  <1>7. HistoryTypes
    BY <1>3, NumbersAssumption, SilencesAreNumbers DEF StatsInit, HistoryTypes, InHand, NoFrame
  <1>8. NumbersInv /\ SumsInv
    BY <1>1, <1>3, <1>5 DEF NumbersInv, SumsInv, InHand
  <1>9. SwitchInv
    BY <1>1, <1>3 DEF SwitchInv, InHand
  <1> QED
    BY <1>4, <1>5, <1>6, <1>7, <1>8, <1>9 DEF StatsInv, StatsTyped, TruthInv

LEMMA NextStats == StatsInv /\ [StatsNext]_statsVars => StatsInv'
  <1> SUFFICES ASSUME StatsInv, [StatsNext]_statsVars PROVE StatsInv'
    OBVIOUS
  <1>1. StatsTyped' /\ RecencyInv'
    BY NextStatsTyped, NextRecency DEF StatsInv
  <1>2. ASSUME ~mixed' PROVE NumbersInv' /\ SwitchInv' /\ SumsInv'
    <2>1. ~mixed
      BY <1>2 DEF StatsNext, Hear, Misses, HearAgain, Recorded, DrawClock, FoldFrame, Unlock,
                  RecordGap, SetOutput, HandleToggle, ResetCounters, ResetTable, truthHistory,
                  statsVars
    <2>2. NumbersInv /\ SwitchInv /\ SumsInv
      BY <2>1 DEF StatsInv, TruthInv
    <2> QED
      BY <1>2, <2>2, NextNumbers, NextSwitches, NextSums DEF StatsInv
  <1> QED
    BY <1>1, <1>2 DEF StatsInv, TruthInv

\* The table never tracks more transmitters than it has entries for, and every
\* variable of the statistics keeps its type.
THEOREM StatsTypes == StatsSpec => []StatsTypeOK
  <1>1. StatsInv => StatsTypeOK
    BY StatsTypesInParts DEF StatsInv, StatsTyped
  <1> QED
    BY <1>1, InitStats, NextStats, PTL DEF StatsSpec

\* Unless a frame comes between a switch of output and its handling, a tracked
\* transmitter's gaps are the numbers, whatever became of them, that went by
\* between two of its first transmissions that were recorded, save where there were
\* too many or output was switched, and the counter is their sum
\* (record_tx_frame, stats.rs:323).
THEOREM GapsAreTrue == StatsSpec => []GapsAreUnrecordedNumbers
  <1>1. StatsInv => GapsAreUnrecordedNumbers
    BY DEF StatsInv, TruthInv, SumsInv, GapsAreUnrecordedNumbers
  <1> QED
    BY <1>1, InitStats, NextStats, PTL DEF StatsSpec

-----------------------------------------------------------------------------
(* The parts together. *)

LEMMA CaptureSteps ==
    [MCNext]_captureVars =>
        /\ [ClockNext]_clockVars /\ [SessionNext]_sessionVars
        /\ [PolicyNext]_policyAll /\ [StatsNext]_statsVars
  <1>1. CASE UNCHANGED captureVars
    BY <1>1 DEF captureVars
  <1>2. CASE ClockSteps
    BY <1>2 DEF ClockSteps, OfClock, ClockNext
  <1>3. CASE SessionSteps
    BY <1>3 DEF SessionSteps, OfSession, SessionNext
  <1>4. CASE PolicySteps
    BY <1>4 DEF PolicySteps, OfPolicy, PolicyNext
  <1>5. CASE StatsSteps
    BY <1>5 DEF StatsSteps, OfStats, StatsNext
  <1> QED
    BY <1>1, <1>2, <1>3, <1>4, <1>5 DEF MCNext

\* A capture implements each of its parts: what is proved of a part holds of
\* the capture as it is run.
THEOREM CaptureImplementsItsParts ==
    MCSpec => ClockSpec /\ SessionSpec /\ PolicySpec /\ StatsSpec
  <1>1. MCInit => ClockInit /\ SessionInit /\ PolicyInit /\ StatsInit
    BY DEF MCInit
  <1> QED
    BY <1>1, CaptureSteps, PTL DEF MCSpec, ClockSpec, SessionSpec, PolicySpec, StatsSpec

\* Every variable of a capture keeps its type.
THEOREM CaptureTypes == MCSpec => []CaptureTypeOK
  <1>1. ClockTypeOK /\ SessionTypeOK /\ PolicyTypeOK /\ StatsTypeOK => CaptureTypeOK
    BY DEF CaptureTypeOK
  <1> QED
    BY <1>1, CaptureImplementsItsParts, ClockTypes, SessionContextTypes, PolicyTypes,
       StatsTypes, PTL
=============================================================================
