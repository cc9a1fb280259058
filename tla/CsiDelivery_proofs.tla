------------------------- MODULE CsiDelivery_proofs -------------------------
(***************************************************************************)
(* Proofs about CsiDelivery, for every set of callbacks and of API calls,   *)
(* and for both ways the two threads may be scheduled.                      *)
(***************************************************************************)
EXTENDS CsiDelivery, TLAPS

USE CallsAssumption, ParallelAssumption, CallbacksAssumption

Functions ==
    {"set_csi_logging_enabled", "set_csi_output_enabled", "set_csi_delivery_mode",
     "set_csi_callback", "set_csi_raw_callback", "set_runtime_reporting",
     "clear_csi_callback", "next_csi_packet", "reset"}

LEMMA ApiArguments ==
    ASSUME NEW c \in ApiCalls
    PROVE  /\ c.fn \in Functions
           /\ c.fn \in {"set_csi_logging_enabled", "set_csi_output_enabled"} => c.arg \in BOOLEAN
           /\ c.fn = "set_csi_delivery_mode" => c.arg \in Modes
           /\ c.fn \in {"set_csi_callback", "set_csi_raw_callback"} => c.arg \in Callbacks
           /\ c.fn = "set_runtime_reporting" => c.arg \in Reportings
  BY DEF ApiCalls, Functions

LEMMA NothingRequested == NoRequest \in ApiCalls
  BY DEF NoRequest, ApiCalls

-----------------------------------------------------------------------------
(* Types. *)

\* The type invariant, with what the type of a later store rests on: the call
\* a thread is in is the one whose access comes next.
Typed ==
    /\ TypeOK
    /\ \A t \in Threads :
        /\ pc[t] \in Functions => call[t].fn = pc[t]
        /\ pc[t] = "logging_intent" => call[t].fn = "set_csi_logging_enabled"
        /\ pc[t] = "reporting_gate" => call[t].fn = "set_runtime_reporting"

LEMMA InitTyped == Init => Typed
  <1> SUFFICES ASSUME Init PROVE Typed
    OBVIOUS
  <1> USE DEF Init, InitMem
  <1>1. NoRequest \in ApiCalls
    BY NothingRequested
  <1>2. TypeOK
    BY <1>1 DEF TypeOK, Modes, Reportings, Fates
  <1> QED
    BY <1>2 DEF Typed, Threads, Functions

\* Every step leaves `torn' one of its three values.
LEMMA TornTyped ==
    ASSUME Typed, NEW t \in Threads, NEW from, NEW to, Step(t, from, to)
    PROVE  torn' \in {"no", "amid", "stale"}
  BY DEF Step, Tear, Typed, TypeOK

\* A step of a call: the calls stay well typed.
LEMMA AccessTyped ==
    ASSUME Typed, NEW t \in Threads, NEW from, NEW to, ApiAccess(t, from, to)
    PROVE  /\ pc[t] = from /\ pc' = [pc EXCEPT ![t] = to]
           /\ call' \in [Threads -> ApiCalls]
           /\ call' = IF to = "idle" THEN [call EXCEPT ![t] = NoRequest] ELSE call
           /\ UNCHANGED <<fate, calm, window>>
           /\ torn' \in {"no", "amid", "stale"}
  BY TornTyped, NothingRequested DEF ApiAccess, Step, frames, Typed, TypeOK

\* A store that keeps the atomics well typed, at an access that leads to
\* another of the same call, keeps the invariant.
LEMMA StoreTyped ==
    ASSUME Typed, NEW t \in Threads, NEW from, NEW to \in CallPoints \cup {"idle"}, NEW m,
           Store(t, from, to, m),
           m \in [intent : BOOLEAN, reports : BOOLEAN, output : BOOLEAN, gate : BOOLEAN,
                  inlineLog : BOOLEAN, local : BOOLEAN, mode : Modes,
                  callback : Callbacks \cup {NULL}, raw : Callbacks \cup {NULL}],
           to \notin Functions,
           to = "logging_intent" => call[t].fn = "set_csi_logging_enabled",
           to = "reporting_gate" => call[t].fn = "set_runtime_reporting"
    PROVE  Typed'
  <1>1. ApiAccess(t, from, to) /\ mem' = m /\ UNCHANGED <<known, rep>>
    BY DEF Store
  <1>2. /\ pc' = [pc EXCEPT ![t] = to] /\ call' \in [Threads -> ApiCalls]
        /\ call' = IF to = "idle" THEN [call EXCEPT ![t] = NoRequest] ELSE call
        /\ UNCHANGED <<fate, calm, window>> /\ torn' \in {"no", "amid", "stale"}
    BY <1>1, AccessTyped
  <1>3. TypeOK'
    BY <1>1, <1>2 DEF Typed, TypeOK
  <1> QED
    BY <1>2, <1>3 DEF Typed, TypeOK, Functions

\* A frame's step moves its thread to an access that is not in a call.
LEMMA FrameTyped ==
    ASSUME Typed, NEW t \in Threads,
           \/ \E from, to \in FramePoints : Pass(t, from, to) \/ PassGate(t, from, to)
           \/ \E to \in FramePoints : Begin(t, to)
           \/ \E from \in FramePoints, f \in Callbacks \cup Fates : Land(t, from, f)
           \/ Return(t)
    PROVE  Typed'
  <1>1. PICK to \in FramePoints \cup {"idle"} : \E from : Step(t, from, to)
    BY DEF Pass, PassGate, Begin, Land, Return, FramePoints
  <1>0. pc' = [pc EXCEPT ![t] = to] /\ torn' \in {"no", "amid", "stale"}
    BY <1>1, TornTyped DEF Step
  <1>2. UNCHANGED <<mem, call, known, rep>>
    BY DEF Pass, PassGate, Begin, Land, Return
  <1>3. InForce \subseteq Reportings
    BY ApiArguments DEF InForce, Typed, TypeOK
  <1>4. NoCall \in BOOLEAN
    BY DEF NoCall
  <1>5. /\ fate' \in [Threads -> Callbacks \cup Fates]
        /\ calm' \in [Threads -> BOOLEAN]
        /\ window' \in [Threads -> SUBSET (Reportings \cup {"torn"})]
    <2>0. /\ fate \in [Threads -> Callbacks \cup Fates]
          /\ calm \in [Threads -> BOOLEAN]
          /\ window \in [Threads -> SUBSET (Reportings \cup {"torn"})]
      BY DEF Typed, TypeOK
    <2>1. CASE \E from, to_ \in FramePoints : Pass(t, from, to_)
      BY <2>0, <2>1 DEF Pass, frames
    <2>5. CASE \E from, to_ \in FramePoints : PassGate(t, from, to_)
      BY <2>0, <2>5 DEF PassGate
    <2>2. CASE \E to_ \in FramePoints : Begin(t, to_)
      BY <1>3, <1>4, <2>0, <2>2 DEF Begin, Fates
    <2>3. CASE \E from \in FramePoints, f \in Callbacks \cup Fates : Land(t, from, f)
      BY <2>0, <2>3 DEF Land
    <2>4. CASE Return(t)
      BY <2>0, <2>4 DEF Return, Fates
    <2> QED
      BY <2>1, <2>2, <2>3, <2>4, <2>5
  <1>6. TypeOK'
    BY <1>0, <1>1, <1>2, <1>5 DEF Typed, TypeOK
  <1>7. to \notin Functions \cup {"logging_intent", "reporting_gate"}
    BY DEF FramePoints, Functions
  <1> QED
    BY <1>0, <1>2, <1>6, <1>7 DEF Typed, TypeOK

LEMMA NextTyped == Typed /\ [Next]_vars => Typed'
  <1> SUFFICES ASSUME Typed, [Next]_vars PROVE Typed'
    OBVIOUS
  <1>0. /\ mem \in [intent : BOOLEAN, reports : BOOLEAN, output : BOOLEAN, gate : BOOLEAN,
                   inlineLog : BOOLEAN, local : BOOLEAN, mode : Modes,
                   callback : Callbacks \cup {NULL}, raw : Callbacks \cup {NULL}]
        /\ \A t \in Threads : call[t] \in ApiCalls
    BY DEF Typed, TypeOK
  <1>1. ASSUME NEW t \in Threads, NEW c \in AppCalls \cup CallbackCalls, Call(t, c)
        PROVE  Typed'
    <2>1. c \in ApiCalls /\ c.fn \in Functions
      BY ApiArguments
    <2>2. /\ pc' = [pc EXCEPT ![t] = c.fn] /\ call' = [call EXCEPT ![t] = c]
          /\ torn' \in {"no", "amid", "stale"}
      BY <1>1, TornTyped DEF Call, Step
    <2>3. window' \in [Threads -> SUBSET (Reportings \cup {"torn"})]
      BY <1>1, <2>1, ApiArguments DEF Call, Typed, TypeOK
    <2>4. fate' \in [Threads -> Callbacks \cup Fates] /\ calm' \in [Threads -> BOOLEAN]
      BY <1>1 DEF Call, Typed, TypeOK, Fates
    <2>5. UNCHANGED <<mem, known, rep>>
      BY <1>1 DEF Call
    <2>6. TypeOK'
      BY <2>1, <2>2, <2>3, <2>4, <2>5 DEF Typed, TypeOK, Functions, CallPoints
    <2> QED
      BY <2>1, <2>2, <2>6 DEF Typed, TypeOK, Functions
  <1>2. ASSUME NEW t \in Threads, SetCsiLoggingEnabled(t) PROVE Typed'
    <2>1. call[t].arg \in BOOLEAN
      BY <1>0, <1>2, ApiArguments
      DEF SetCsiLoggingEnabled, Store, ApiAccess, Step, Typed, Functions
    <2>2. CASE pc[t] = "set_csi_logging_enabled"
      BY <1>0, <1>2, <2>1, <2>2, StoreTyped
      DEF SetCsiLoggingEnabled, Store, ApiAccess, Step, CallPoints, Functions, Typed
    <2>3. CASE pc[t] = "logging_intent"
      BY <1>0, <1>2, <2>1, <2>3, StoreTyped
      DEF SetCsiLoggingEnabled, Store, ApiAccess, Step, CallPoints, Functions, Typed
    <2> QED
      BY <1>2, <2>2, <2>3 DEF SetCsiLoggingEnabled, Store, ApiAccess, Step
  <1>3. ASSUME NEW t \in Threads, SetCsiDeliveryMode(t) PROVE Typed'
    <2>1. call[t].arg \in Modes
      BY <1>0, <1>3, ApiArguments DEF SetCsiDeliveryMode, Store, ApiAccess, Step, Typed, Functions
    <2> QED
      BY <1>0, <1>3, <2>1, StoreTyped DEF SetCsiDeliveryMode, CallPoints, Functions
  <1>4. ASSUME NEW t \in Threads, SetCsiCallback(t) PROVE Typed'
    <2>1. CASE pc[t] = "set_csi_callback"
      <3>1. call[t].arg \in Callbacks
        BY <1>0, <2>1, ApiArguments DEF Typed, Functions
      <3> QED
        BY <1>0, <1>4, <2>1, <3>1, StoreTyped
        DEF SetCsiCallback, Store, ApiAccess, Step, CallPoints, Functions
    <2>2. CASE pc[t] = "callback_mode"
      BY <1>0, <1>4, <2>2, StoreTyped
      DEF SetCsiCallback, Store, ApiAccess, Step, CallPoints, Functions, Modes
    <2> QED
      BY <1>4, <2>1, <2>2 DEF SetCsiCallback, Store, ApiAccess, Step
  <1>5. ASSUME NEW t \in Threads, ClearCsiCallback(t) PROVE Typed'
    BY <1>0, <1>5, StoreTyped DEF ClearCsiCallback, CallPoints, Functions, Modes
  <1>6. ASSUME NEW t \in Threads, SetCsiRawCallback(t) PROVE Typed'
    <2>1. call[t].arg \in Callbacks
      BY <1>0, <1>6, ApiArguments DEF SetCsiRawCallback, Store, ApiAccess, Step, Typed, Functions
    <2> QED
      BY <1>0, <1>6, <2>1, StoreTyped DEF SetCsiRawCallback, CallPoints, Functions
  <1>7. ASSUME NEW t \in Threads, SetCsiOutputEnabled(t) PROVE Typed'
    <2>1. call[t].arg \in BOOLEAN
      BY <1>0, <1>7, ApiArguments DEF SetCsiOutputEnabled, Store, ApiAccess, Step, Typed, Functions
    <2> QED
      BY <1>0, <1>7, <2>1, StoreTyped DEF SetCsiOutputEnabled, CallPoints, Functions
  <1>8. ASSUME NEW t \in Threads, SetRuntimeReporting(t) PROVE Typed'
    <2>0. ASSUME NEW v
          PROVE  (call[t].arg = v) \in BOOLEAN /\ (call[t].arg # v) \in BOOLEAN
      OBVIOUS
    <2>1. CASE pc[t] = "set_runtime_reporting"
      <3> DEFINE v == call[t].arg = "local"
      <3>1. v \in BOOLEAN
        BY <2>0
      <3>2. Store(t, "set_runtime_reporting", "reporting_gate", [mem EXCEPT !.local = v])
        BY <1>8, <2>1 DEF SetRuntimeReporting, Store, ApiAccess, Step
      <3>3. call[t].fn = "set_runtime_reporting"
        BY <2>1 DEF Typed, Functions
      <3> HIDE DEF v
      <3> QED
        BY <1>0, <3>1, <3>2, <3>3, StoreTyped DEF CallPoints, Functions
    <2>2. CASE pc[t] = "reporting_gate"
      <3> DEFINE v == call[t].arg # "none"
      <3>1. v \in BOOLEAN
        BY <2>0
      <3>2. Store(t, "reporting_gate", "gate_intent", [mem EXCEPT !.reports = v])
        BY <1>8, <2>2 DEF SetRuntimeReporting, Store, ApiAccess, Step
      <3> HIDE DEF v
      <3> QED
        BY <1>0, <3>1, <3>2, StoreTyped DEF CallPoints, Functions
    <2> QED
      BY <1>8, <2>1, <2>2 DEF SetRuntimeReporting, Store, ApiAccess, Step
  <1>9. ASSUME NEW t \in Threads, NextCsiPacket(t) PROVE Typed'
    <2>1. CASE pc[t] = "next_csi_packet"
      <3>1. PICK to \in {"lazy_mode", "idle"} : ApiAccess(t, "next_csi_packet", to)
        BY <1>9, <2>1 DEF NextCsiPacket, Store, ApiAccess, Step
      <3>2. UNCHANGED <<mem, known, rep>>
        BY <1>9, <2>1 DEF NextCsiPacket, Store, ApiAccess, Step
      <3> QED
        BY <3>1, <3>2, AccessTyped DEF Typed, TypeOK, CallPoints, Functions
    <2>2. CASE pc[t] = "lazy_mode"
      BY <1>0, <1>9, <2>2, StoreTyped
      DEF NextCsiPacket, Store, ApiAccess, Step, CallPoints, Functions, Modes
    <2> QED
      BY <1>9, <2>1, <2>2 DEF NextCsiPacket, Store, ApiAccess, Step
  <1>10. ASSUME NEW t \in Threads, Reset(t) PROVE Typed'
    BY <1>0, <1>10, StoreTyped DEF Reset, CallPoints, Functions, Modes
  <1>11. ASSUME NEW t \in Threads, OpenIntent(t) PROVE Typed'
    BY <1>0, <1>11, StoreTyped DEF OpenIntent, CallPoints, Functions
  <1>12. ASSUME NEW t \in Threads, ApplyPublishGate(t) PROVE Typed'
    <2>1. ASSUME NEW from, NEW to \in CallPoints \ Functions, NEW v \in BOOLEAN,
                 LoadInput(t, from, to, v), to \notin {"logging_intent", "reporting_gate"}
          PROVE  Typed'
      <3>1. PICK next \in {to, "gate_store"} : ApiAccess(t, from, next)
        BY <2>1 DEF LoadInput
      <3>2. known' \in [Threads -> BOOLEAN] /\ UNCHANGED <<mem, rep>>
        BY <2>1 DEF LoadInput, Typed, TypeOK
      <3>3. next \in CallPoints /\ next \notin Functions \cup {"logging_intent", "reporting_gate"}
        BY <2>1, <3>1 DEF CallPoints, Functions
      <3>4. next # "idle"
        BY <3>3 DEF CallPoints
      <3>5. TypeOK'
        BY <3>1, <3>2, <3>3, AccessTyped DEF Typed, TypeOK
      <3> QED
        BY <3>1, <3>3, <3>4, <3>5, AccessTyped DEF Typed, TypeOK
    <2>2. CASE pc[t] = "gate_store"
      <3>1. /\ ApiAccess(t, "gate_store", "idle")
            /\ mem' = [mem EXCEPT !.gate = known[t]]
            /\ known' = [known EXCEPT ![t] = FALSE]
            /\ rep' = rep \/ (rep' = call[t].arg /\ call[t].fn = "set_runtime_reporting")
        BY <1>12, <2>2 DEF ApplyPublishGate, LoadInput, ApiAccess, Step
      <3>2. known[t] \in BOOLEAN
        BY DEF Typed, TypeOK
      <3>3. rep' \in Reportings
        BY <1>0, <3>1, ApiArguments DEF Typed, TypeOK
      <3> QED
        BY <3>1, <3>2, <3>3, AccessTyped DEF Typed, TypeOK, Functions
    <2>3. mem.intent \in BOOLEAN /\ mem.reports \in BOOLEAN /\ mem.output \in BOOLEAN
      BY <1>0
    <2>4. \/ LoadInput(t, "gate_intent", "gate_reports", mem.intent)
          \/ LoadInput(t, "gate_reports", "gate_output", mem.reports)
          \/ LoadInput(t, "gate_output", "gate_store", mem.output)
          \/ pc[t] = "gate_store"
      BY <1>12 DEF ApplyPublishGate, ApiAccess, Step
    <2>5. {"gate_reports", "gate_output", "gate_store"} \subseteq CallPoints \ Functions
      BY DEF CallPoints, Functions
    <2> QED
      BY <2>1, <2>2, <2>3, <2>4, <2>5
  <1>13. ASSUME NEW t \in Threads, FrameStep(t) PROVE Typed'
    <2>1. CASE Dispatch(t)
      BY <2>1, FrameTyped DEF Dispatch, FramePoints, Fates
    <2>2. CASE DeliverToCallback(t)
      <3>1. (IF mem.callback = NULL THEN "none" ELSE mem.callback) \in Callbacks \cup Fates
        BY <1>0 DEF Fates
      <3> QED
        BY <2>2, <3>1, FrameTyped DEF DeliverToCallback, FramePoints
    <2>3. CASE DeliverToLog(t)
      BY <2>3, FrameTyped DEF DeliverToLog, FramePoints, Fates
    <2>4. CASE Return(t)
      BY <2>4, FrameTyped
    <2> QED
      BY <1>13, <2>1, <2>2, <2>3, <2>4 DEF FrameStep
  <1>14. CASE CaptureRaw \/ CaptureAdmit \/ Emit
    BY <1>14, FrameTyped DEF CaptureRaw, CaptureAdmit, Emit, FramePoints, Fates, Threads
  <1>15. CASE UNCHANGED vars
    BY <1>15 DEF vars, Typed, TypeOK
  <1> QED
    BY <1>1, <1>2, <1>3, <1>4, <1>5, <1>6, <1>7, <1>8, <1>9, <1>10, <1>11, <1>12, <1>13,
       <1>14, <1>15 DEF Next, ApiStep

\* Type correctness: every atomic keeps a value its readers expect.
THEOREM TypeCorrect == Spec => []TypeOK
  <1>1. Typed => TypeOK
    BY DEF Typed
  <1> QED
    BY <1>1, InitTyped, NextTyped, PTL DEF Spec
-----------------------------------------------------------------------------
(* The gate. *)

Busy(t) == pc[t] \in Recomputing

\* What thread t's half-done recomputation knows, as long as no other one
\* overlaps it.
Loaded(t) ==
    /\ pc[t] \in {"reset_gate", "reset_output"} => ~mem.intent
    /\ pc[t] = "reset_output" => ~mem.gate
    /\ pc[t] \in {"gate_reports", "gate_output"} => mem.intent
    /\ pc[t] = "gate_output" => mem.reports
    /\ pc[t] = "gate_store" => known[t] = Open

\* Recomputations that overlap are known to have torn the gate.  One that
\* does not has loaded what the inputs still hold, and leaves a gate that is
\* their conjunction.
GateInv ==
    /\ \A t, u \in Threads : t # u /\ Busy(t) /\ Busy(u) => torn = "amid"
    /\ torn = "no" /\ (\A t \in Threads : ~Busy(t)) => mem.gate = Open
    /\ torn # "amid" => \A t \in Threads : Loaded(t)

LEMMA InitGate == Init => GateInv
  <1> SUFFICES ASSUME Init PROVE GateInv
    OBVIOUS
  <1>1. mem.intent = FALSE /\ mem.gate = FALSE
    BY DEF Init, InitMem
  <1>2. \A t \in Threads : pc[t] = "idle"
    BY DEF Init
  <1>3. mem.gate = Open
    BY <1>1 DEF Open
  <1> QED
    BY <1>2, <1>3 DEF GateInv, Busy, Loaded, Recomputing

\* A step of thread t keeps the invariant if, outside of the recomputations,
\* it stores to no input and not to the gate; inside of one, it knows what it
\* should; and at the end of one the gate is the conjunction.
LEMMA StepGate ==
    ASSUME Typed, GateInv, NEW t \in Threads, NEW from, NEW to, Step(t, from, to),
           \A u \in Threads \ {t} : known'[u] = known[u],
           from \notin Recomputing /\ to \notin Recomputing =>
              /\ mem'.intent = mem.intent /\ mem'.reports = mem.reports
              /\ mem'.output = mem.output /\ mem'.gate = mem.gate,
           to \in Recomputing /\ Loaded(t) => Loaded(t)',
           from \in Recomputing /\ to \notin Recomputing /\ Loaded(t) => mem'.gate = Open'
    PROVE  GateInv'
  <1>1. /\ pc[t] = from /\ pc'[t] = to
        /\ \A u \in Threads \ {t} : pc'[u] = pc[u]
    BY DEF Step, Typed, TypeOK
  <1> DEFINE overlap == \E u \in Threads \ {t} : Busy(u)
  <1>2. torn' = IF overlap /\ to \in Recomputing THEN "amid"
                ELSE IF ~overlap /\ from \in Recomputing /\ to \notin Recomputing
                THEN IF torn = "amid" THEN "stale" ELSE "no"
                ELSE torn
    BY DEF Step, Tear, Busy
  <1>3. overlap /\ from \in Recomputing => torn = "amid"
    BY <1>1 DEF GateInv, Busy
  <1>4. \A u \in Threads \ {t} : Busy(u)' = Busy(u)
    BY <1>1 DEF Busy
  <1>5. Busy(t)' = (to \in Recomputing)
    BY <1>1 DEF Busy
  <1>6. ASSUME to \notin Recomputing PROVE Loaded(t)'
    BY <1>1, <1>6 DEF Loaded, Recomputing
  <1>7. ASSUME NEW u \in Threads \ {t}, ~Busy(u) PROVE Loaded(u)'
    BY <1>1, <1>7 DEF Loaded, Busy, Recomputing
  <1>8. ASSUME NEW u \in Threads \ {t}, from \notin Recomputing, to \notin Recomputing, Loaded(u)
        PROVE  Loaded(u)'
    BY <1>1, <1>8 DEF Loaded, Open
  <1>9. \A u, w \in Threads : u # w /\ Busy(u)' /\ Busy(w)' => torn' = "amid"
    <2>1. ASSUME NEW u \in Threads \ {t}, Busy(u), to \in Recomputing PROVE torn' = "amid"
      BY <1>2, <2>1
    <2>2. \A u, w \in Threads \ {t} : u = w
      BY DEF Threads
    <2> QED
      BY <1>4, <1>5, <2>1, <2>2
  <1>10. torn' = "no" /\ (\A u \in Threads : ~Busy(u)') => mem'.gate = Open'
    <2> SUFFICES ASSUME torn' = "no", \A u \in Threads : ~Busy(u)'
                 PROVE  mem'.gate = Open'
      OBVIOUS
    <2>1. to \notin Recomputing /\ ~overlap
      BY <1>4, <1>5
    <2>2. CASE from \in Recomputing
      BY <1>2, <2>1, <2>2 DEF GateInv
    <2>3. CASE from \notin Recomputing
      <3>1. torn = "no" /\ \A u \in Threads : ~Busy(u)
        BY <1>1, <1>2, <2>1, <2>3 DEF Busy
      <3> QED
        BY <2>1, <2>3, <3>1 DEF GateInv, Open
    <2> QED
      BY <2>2, <2>3
  <1>11. ASSUME torn' # "amid", NEW u \in Threads PROVE Loaded(u)'
    <2>1. CASE u = t
      <3>1. ASSUME to \in Recomputing PROVE Loaded(t)
        BY <1>2, <1>11, <3>1 DEF GateInv
      <3> QED
        BY <1>6, <2>1, <3>1
    <2>2. CASE u # t /\ Busy(u)
      <3>1. overlap /\ to \notin Recomputing /\ from \notin Recomputing /\ torn # "amid"
        BY <1>2, <1>3, <1>11, <2>2
      <3> QED
        BY <1>8, <2>2, <3>1 DEF GateInv
    <2> QED
      BY <1>7, <2>1, <2>2
  <1> QED
    BY <1>9, <1>10, <1>11 DEF GateInv

\* A frame's step stores nothing and begins no call.
LEMMA FrameStores ==
    ASSUME Typed, NEW t \in Threads, FrameStep(t) \/ CaptureRaw \/ CaptureAdmit \/ Emit
    PROVE  \E u \in Threads, from, to \in FramePoints \cup {"idle"} :
             /\ Step(u, from, to)
             /\ pc[u] = from
             /\ pc' = [pc EXCEPT ![u] = to]
             /\ UNCHANGED <<mem, call, known, rep>>
  <1>1. ASSUME NEW u \in Threads, NEW from \in FramePoints \cup {"idle"},
               NEW to \in FramePoints \cup {"idle"}, NEW f,
               Pass(u, from, to) \/ (from = "idle" /\ Begin(u, to)) \/ (to = "landed" /\ Land(u, from, f))
                 \/ (from = "landed" /\ to = "idle" /\ Return(u)) \/ PassGate(u, from, to)
        PROVE  /\ Step(u, from, to)
               /\ pc[u] = from
               /\ pc' = [pc EXCEPT ![u] = to]
               /\ UNCHANGED <<mem, call, known, rep>>
    BY <1>1 DEF Pass, PassGate, Begin, Land, Return, Step
  <1> USE DEF FramePoints, Threads
  <1>2. CASE Dispatch(t)
    BY <1>1, <1>2 DEF Dispatch
  <1>3. CASE DeliverToCallback(t)
    BY <1>1, <1>3 DEF DeliverToCallback
  <1>4. CASE DeliverToLog(t)
    BY <1>1, <1>4 DEF DeliverToLog
  <1>5. CASE Return(t)
    BY <1>1, <1>5
  <1>6. CASE CaptureRaw
    BY <1>1, <1>6 DEF CaptureRaw
  <1>7. CASE CaptureAdmit
    BY <1>1, <1>7 DEF CaptureAdmit
  <1>8. CASE Emit
    BY <1>1, <1>8 DEF Emit
  <1> QED
    BY <1>2, <1>3, <1>4, <1>5, <1>6, <1>7, <1>8 DEF FrameStep

\* A store outside of the recomputations leaves the gate alone, and one that
\* begins a recomputation is to an input.
LEMMA StoreGate ==
    ASSUME Typed, GateInv, NEW t \in Threads, NEW from, NEW to, NEW m, Store(t, from, to, m),
           from \notin Recomputing,
           to \notin Recomputing =>
              /\ m.intent = mem.intent /\ m.reports = mem.reports
              /\ m.output = mem.output /\ m.gate = mem.gate,
           to \in Recomputing => to = "gate_intent" \/ (to = "reset_gate" /\ ~m.intent)
    PROVE  GateInv'
  <1>1. Step(t, from, to) /\ mem' = m /\ known' = known
    BY DEF Store, ApiAccess
  <1>2. pc'[t] = to
    BY <1>1 DEF Step, Typed, TypeOK
  <1>3. to \in Recomputing => Loaded(t)'
    BY <1>1, <1>2 DEF Loaded
  <1> QED
    BY <1>1, <1>3, StepGate

LEMMA NextGate == Typed /\ GateInv /\ [Next]_vars => GateInv'
  <1> SUFFICES ASSUME Typed, GateInv, [Next]_vars PROVE GateInv'
    OBVIOUS
  <1>0. /\ mem \in [intent : BOOLEAN, reports : BOOLEAN, output : BOOLEAN, gate : BOOLEAN,
                    inlineLog : BOOLEAN, local : BOOLEAN, mode : Modes,
                    callback : Callbacks \cup {NULL}, raw : Callbacks \cup {NULL}]
        /\ pc \in [Threads -> {"idle"} \cup FramePoints \cup CallPoints]
        /\ known \in [Threads -> BOOLEAN]
    BY DEF Typed, TypeOK
  <1>1. ASSUME NEW t \in Threads, NEW c \in AppCalls \cup CallbackCalls, Call(t, c)
        PROVE  GateInv'
    <2>1. PICK from \in {"idle", "landed"} : Step(t, from, c.fn) /\ UNCHANGED <<mem, known>>
      BY <1>1 DEF Call
    <2>2. c.fn \in Functions
      BY ApiArguments
    <2>3. from \notin Recomputing /\ c.fn \notin Recomputing
      BY <2>2 DEF Functions, Recomputing
    <2> QED
      BY <2>1, <2>3, StepGate
  <1>2. ASSUME NEW t \in Threads, ApiStep(t) PROVE GateInv'
    <2> USE <1>0 DEF Recomputing
    <2>1. CASE SetCsiLoggingEnabled(t)
      BY <2>1, StoreGate DEF SetCsiLoggingEnabled
    <2>2. CASE SetCsiDeliveryMode(t)
      BY <2>2, StoreGate DEF SetCsiDeliveryMode
    <2>3. CASE SetCsiCallback(t)
      BY <2>3, StoreGate DEF SetCsiCallback
    <2>4. CASE ClearCsiCallback(t)
      BY <2>4, StoreGate DEF ClearCsiCallback
    <2>5. CASE SetCsiRawCallback(t)
      BY <2>5, StoreGate DEF SetCsiRawCallback
    <2>6. CASE OpenIntent(t)
      BY <2>6, StoreGate DEF OpenIntent
    <2>7. CASE SetCsiOutputEnabled(t)
      BY <2>7, StoreGate DEF SetCsiOutputEnabled
    <2>8. CASE SetRuntimeReporting(t)
      <3>1. PICK v, w : \/ Store(t, "set_runtime_reporting", "reporting_gate", [mem EXCEPT !.local = v])
                        \/ Store(t, "reporting_gate", "gate_intent", [mem EXCEPT !.reports = w])
        BY <2>8 DEF SetRuntimeReporting
      <3> QED
        BY <3>1, StoreGate
    <2>9. CASE NextCsiPacket(t)
      <3>1. CASE Store(t, "lazy_mode", "open_intent", [mem EXCEPT !.mode = "async"])
        BY <3>1, StoreGate
      <3>2. CASE \E to \in {"lazy_mode", "idle"} :
                    Step(t, "next_csi_packet", to) /\ UNCHANGED <<mem, known>>
        BY <3>2, StepGate
      <3> QED
        BY <2>9, <3>1, <3>2 DEF NextCsiPacket, ApiAccess
    <2>10. CASE Reset(t)
      <3>1. CASE Store(t, "reset", "reset_intent", [mem EXCEPT !.inlineLog = FALSE])
        BY <3>1, StoreGate
      <3>2. CASE Store(t, "reset_intent", "reset_gate", [mem EXCEPT !.intent = FALSE])
        BY <3>2, StoreGate
      <3>3. CASE Store(t, "reset_gate", "reset_output", [mem EXCEPT !.gate = FALSE])
        <4>1. /\ Step(t, "reset_gate", "reset_output") /\ pc[t] = "reset_gate"
              /\ mem' = [mem EXCEPT !.gate = FALSE] /\ known' = known
              /\ pc'[t] = "reset_output"
          BY <3>3 DEF Store, ApiAccess, Step
        <4>2. Loaded(t) => Loaded(t)'
          BY <4>1 DEF Loaded
        <4> QED
          BY <4>1, <4>2, StepGate
      <3>4. CASE Store(t, "reset_output", "reset_mode", [mem EXCEPT !.output = TRUE])
        <4>1. /\ Step(t, "reset_output", "reset_mode") /\ pc[t] = "reset_output"
              /\ mem' = [mem EXCEPT !.output = TRUE] /\ known' = known
          BY <3>4 DEF Store, ApiAccess, Step
        <4>2. Loaded(t) => mem'.gate = Open'
          BY <4>1 DEF Loaded, Open
        <4> QED
          BY <4>1, <4>2, StepGate
      <3>5. CASE Store(t, "reset_mode", "reset_pointer", [mem EXCEPT !.mode = "off"])
        BY <3>5, StoreGate
      <3>6. CASE Store(t, "reset_pointer", "idle", [mem EXCEPT !.callback = NULL])
        BY <3>6, StoreGate
      <3> QED
        BY <2>10, <3>1, <3>2, <3>3, <3>4, <3>5, <3>6 DEF Reset
    <2>11. CASE ApplyPublishGate(t)
      <3>1. ASSUME NEW from \in {"gate_intent", "gate_reports", "gate_output"}, NEW v \in BOOLEAN,
                   NEW next \in {"gate_reports", "gate_output", "gate_store"},
                   LoadInput(t, from, next, v),
                   Loaded(t) => (v => IF next = "gate_store" THEN Open
                                      ELSE mem.intent /\ (next = "gate_output" => mem.reports)),
                   ~v => ~Open
            PROVE  GateInv'
        <4> DEFINE to == IF v THEN next ELSE "gate_store"
        <4>1. /\ Step(t, from, to) /\ mem' = mem /\ known' = [known EXCEPT ![t] = v]
          BY <3>1 DEF LoadInput, ApiAccess
        <4>2. pc'[t] = to /\ known'[t] = v /\ \A u \in Threads \ {t} : known'[u] = known[u]
          BY <4>1 DEF Step
        <4>3. Open' = Open /\ Open \in BOOLEAN
          BY <4>1 DEF Open
        <4>4. Loaded(t) => Loaded(t)'
          BY <3>1, <4>1, <4>2, <4>3 DEF Loaded
        <4>5. from \in Recomputing /\ to \in Recomputing
          OBVIOUS
        <4> HIDE DEF to
        <4> QED
          BY <4>1, <4>2, <4>4, <4>5, StepGate
      <3>2. CASE LoadInput(t, "gate_intent", "gate_reports", mem.intent)
        BY <3>1, <3>2 DEF Open
      <3>3. CASE LoadInput(t, "gate_reports", "gate_output", mem.reports)
        <4>1. pc[t] = "gate_reports"
          BY <3>3 DEF LoadInput, ApiAccess, Step
        <4> QED
          BY <3>1, <3>3, <4>1 DEF Open, Loaded
      <3>4. CASE LoadInput(t, "gate_output", "gate_store", mem.output)
        <4>1. pc[t] = "gate_output"
          BY <3>4 DEF LoadInput, ApiAccess, Step
        <4> QED
          BY <3>1, <3>4, <4>1 DEF Open, Loaded
      <3>5. CASE /\ ApiAccess(t, "gate_store", "idle")
                 /\ mem' = [mem EXCEPT !.gate = known[t]]
                 /\ known' = [known EXCEPT ![t] = FALSE]
        <4>1. Step(t, "gate_store", "idle") /\ pc[t] = "gate_store"
          BY <3>5 DEF ApiAccess, Step
        <4>2. Loaded(t) => mem'.gate = Open'
          BY <3>5, <4>1 DEF Loaded, Open
        <4>3. \A u \in Threads \ {t} : known'[u] = known[u]
          BY <3>5
        <4> QED
          BY <4>1, <4>2, <4>3, StepGate
      <3> QED
        BY <2>11, <3>2, <3>3, <3>4, <3>5 DEF ApplyPublishGate
    <2> QED
      BY <1>2, <2>1, <2>2, <2>3, <2>4, <2>5, <2>6, <2>7, <2>8, <2>9, <2>10, <2>11 DEF ApiStep
  <1>3. ASSUME NEW t \in Threads, FrameStep(t) \/ CaptureRaw \/ CaptureAdmit \/ Emit
        PROVE  GateInv'
    <2>1. PICK u \in Threads, from, to \in FramePoints \cup {"idle"} :
             Step(u, from, to) /\ UNCHANGED <<mem, call, known, rep>>
      BY <1>3, FrameStores
    <2>2. from \notin Recomputing /\ to \notin Recomputing
      BY DEF FramePoints, Recomputing
    <2> QED
      BY <2>1, <2>2, StepGate
  <1>4. CASE UNCHANGED vars
    BY <1>4 DEF vars, GateInv, Busy, Loaded, Open
  <1>5. CASE CaptureRaw \/ CaptureAdmit \/ Emit
    BY <1>3, <1>5 DEF Threads
  <1> QED
    BY <1>1, <1>2, <1>3, <1>4, <1>5 DEF Next

\* The cached gate goes stale only where recomputations overlap: whenever no
\* call is under way and the last recomputation ran by itself, it is the
\* conjunction of the three inputs, whatever user callbacks call.
THEOREM GateNeverStale == Spec => []GateIsConjunction
  <1>1. GateInv => GateIsConjunction
    BY DEF GateInv, GateIsConjunction, NoCall, InCall, Busy, Recomputing, CallPoints
  <1> QED
    BY <1>1, InitTyped, NextTyped, InitGate, NextGate, PTL DEF Spec
-----------------------------------------------------------------------------
(* Calm frames. *)

\* What the accesses a frame has passed tell of the configuration.
Passed(t) ==
    /\ t = "wifi" /\ pc[t] \notin {"capture_raw", "landed"} => mem.raw = NULL
    /\ pc[t] \in {"capture_admit", "emit_admit", "dispatch", "load_callback", "load_inline",
                 "load_local"} => Open
    /\ pc[t] = "load_callback" => mem.mode = "callback"
    /\ pc[t] \in {"load_inline", "load_local"} => mem.mode = "off"
    /\ pc[t] = "load_local" => mem.inlineLog
    /\ pc[t] = "landed" =>
          \/ fate[t] = Configured(t)
          \/ fate[t] = "rejected" /\ Open /\ Configured(t) # "raw"
          \/ PastTheGate(t)

\* They tell it as long as no call has begun since the frame did, if the gate
\* is not torn.
Seen(t) ==
    /\ NoCall /\ pc[t] \in FramePoints
    /\ torn = "no" => Passed(t)

\* A frame's step does not touch `torn'.
LEMMA FrameKeepsTorn ==
    ASSUME NEW t \in Threads, NEW from \in FramePoints \cup {"idle"},
           NEW to \in FramePoints \cup {"idle"}, Step(t, from, to)
    PROVE  torn' = torn
  BY DEF Step, Tear, FramePoints, Recomputing

CalmInv == \A t \in Threads : calm[t] => Seen(t)

\* A frame's step leaves what the other thread's frame has seen as it was.
LEMMA OthersSeen ==
    ASSUME Typed, CalmInv, NEW t \in Threads, NEW to \in FramePoints \cup {"idle"},
           pc' = [pc EXCEPT ![t] = to], UNCHANGED <<mem, torn>>,
           \A u \in Threads \ {t} : fate'[u] = fate[u] /\ calm'[u] = calm[u],
           calm'[t] => Seen(t)'
    PROVE  CalmInv'
  <1> SUFFICES ASSUME NEW u \in Threads \ {t}, calm'[u] PROVE Seen(u)'
    BY DEF CalmInv
  <1>1. Seen(u) /\ pc'[u] = pc[u] /\ fate'[u] = fate[u]
    BY DEF CalmInv, Typed, TypeOK
  <1>2. Open' = Open /\ Configured(u)' = Configured(u)
    BY DEF Open, Configured
  <1>3. NoCall'
    BY <1>1 DEF Seen, NoCall, InCall, Typed, TypeOK, FramePoints, CallPoints
  <1> QED
    BY <1>1, <1>2, <1>3 DEF Seen, Passed, PastTheGate

\* A frame that passes an access.
LEMMA PassSeen ==
    ASSUME Typed, CalmInv, NEW t \in Threads, NEW from \in FramePoints,
           NEW to \in FramePoints \ {"landed"}, Pass(t, from, to) \/ PassGate(t, from, to),
           NoCall /\ Passed(t) /\ torn = "no" /\ pc[t] = from =>
             /\ t = "wifi" /\ to # "capture_raw" => mem.raw = NULL
             /\ to \in {"capture_admit", "emit_admit", "dispatch", "load_callback",
                       "load_inline", "load_local"} => Open
             /\ to = "load_callback" => mem.mode = "callback"
             /\ to \in {"load_inline", "load_local"} => mem.mode = "off"
             /\ to = "load_local" => mem.inlineLog
    PROVE  CalmInv'
  <1>1. pc' = [pc EXCEPT ![t] = to] /\ UNCHANGED <<mem, fate, calm, torn>>
    BY FrameKeepsTorn DEF Pass, PassGate, Step, frames
  <1>2. ASSUME calm[t] PROVE Seen(t)'
    <2>1. Seen(t)
      BY <1>2 DEF CalmInv
    <2>2. NoCall'
      BY <1>1, <2>1 DEF Seen, NoCall, InCall, Typed, TypeOK, FramePoints, CallPoints
    <2>3. pc'[t] = to
      BY <1>1 DEF Typed, TypeOK
    <2>4. Open' = Open
      BY <1>1 DEF Open
    <2>5. pc[t] = from
      BY DEF Pass, PassGate, Step
    <2>6. torn = "no" => Passed(t)'
      BY <1>1, <2>1, <2>3, <2>4, <2>5 DEF Passed, Seen
    <2> QED
      BY <1>1, <2>2, <2>3, <2>6 DEF Seen
  <1> QED
    BY <1>1, <1>2, OthersSeen

\* A frame that ends at an access.
LEMMA LandSeen ==
    ASSUME Typed, CalmInv, NEW t \in Threads, NEW from \in FramePoints, NEW f, Land(t, from, f),
           Seen(t) /\ torn = "no" /\ pc[t] = from =>
             \/ f = Configured(t)
             \/ f = "rejected" /\ Open /\ Configured(t) # "raw"
             \/ f = "raw" /\ ~Open
    PROVE  CalmInv'
  <1>0. "landed" \in FramePoints
    BY DEF FramePoints
  <1>1. /\ pc' = [pc EXCEPT ![t] = "landed"] /\ UNCHANGED <<mem, calm, torn>>
        /\ fate' = [fate EXCEPT ![t] = f] /\ pc[t] = from
    BY <1>0, FrameKeepsTorn DEF Land, Step
  <1>2. ASSUME calm[t] PROVE Seen(t)'
    <2>1. Seen(t)
      BY <1>2 DEF CalmInv
    <2>2. NoCall'
      BY <1>1, <2>1 DEF Seen, NoCall, InCall, Typed, TypeOK, FramePoints, CallPoints
    <2>3. pc'[t] = "landed" /\ fate'[t] = f
      BY <1>1 DEF Typed, TypeOK
    <2>4. Open' = Open /\ Configured(t)' = Configured(t)
      BY <1>1 DEF Open, Configured
    <2>5. torn = "no" => Passed(t)'
      BY <1>1, <2>1, <2>3, <2>4 DEF Passed, PastTheGate
    <2> QED
      BY <1>0, <1>1, <2>2, <2>3, <2>5 DEF Seen
  <1>3. \A u \in Threads \ {t} : fate'[u] = fate[u]
    BY <1>1 DEF Typed, TypeOK
  <1> QED
    BY <1>1, <1>2, <1>3, OthersSeen DEF FramePoints

\* A frame that begins.
LEMMA BeginSeen ==
    ASSUME Typed, CalmInv, NEW t \in Threads, NEW to \in {"capture_raw", "emit_gate"},
           Begin(t, to), t = "wifi" => to = "capture_raw"
    PROVE  CalmInv'
  <1>0. to \in FramePoints
    BY DEF FramePoints
  <1>1. /\ pc' = [pc EXCEPT ![t] = to] /\ UNCHANGED <<mem, torn>>
        /\ fate' = [fate EXCEPT ![t] = "flying"] /\ calm' = [calm EXCEPT ![t] = NoCall]
    BY <1>0, FrameKeepsTorn DEF Begin, Step
  <1>2. pc'[t] = to /\ calm'[t] = NoCall
    BY <1>1 DEF Typed, TypeOK
  <1>3. ASSUME calm'[t] PROVE Seen(t)'
    <2>1. NoCall'
      BY <1>1, <1>2, <1>3 DEF NoCall, InCall, Typed, TypeOK, CallPoints
    <2> QED
      BY <1>0, <1>2, <2>1 DEF Seen, Passed
  <1>4. \A u \in Threads \ {t} : fate'[u] = fate[u] /\ calm'[u] = calm[u]
    BY <1>1 DEF Typed, TypeOK
  <1> QED
    BY <1>1, <1>3, <1>4, OthersSeen DEF FramePoints

LEMMA InitCalm == Init => CalmInv
  BY DEF Init, CalmInv

LEMMA NextCalm == Typed /\ GateInv /\ CalmInv /\ [Next]_vars => CalmInv'
  <1> SUFFICES ASSUME Typed, GateInv, CalmInv, [Next]_vars PROVE CalmInv'
    OBVIOUS
  <1>0. "app" \in Threads /\ "wifi" \in Threads
    BY DEF Threads
  <1>1. ASSUME NoCall, torn = "no" PROVE mem.gate = Open
    BY <1>1 DEF GateInv, NoCall, InCall, Busy, Recomputing, CallPoints
  <1>2. mem.mode \in Modes /\ mem.callback \in Callbacks \cup {NULL}
        /\ mem.gate \in BOOLEAN /\ mem.inlineLog \in BOOLEAN /\ mem.local \in BOOLEAN
    BY DEF Typed, TypeOK
  <1>3. ASSUME NEW t \in Threads, NEW c \in AppCalls \cup CallbackCalls, Call(t, c)
        PROVE  CalmInv'
    BY <1>3 DEF Call, CalmInv
  <1>4. ASSUME NEW t \in Threads, ApiStep(t) PROVE CalmInv'
    <2>1. InCall(t)
      BY <1>4
      DEF ApiStep, SetCsiLoggingEnabled, SetCsiDeliveryMode, SetCsiCallback, ClearCsiCallback,
          SetCsiRawCallback, SetCsiOutputEnabled, SetRuntimeReporting, NextCsiPacket, Reset,
          OpenIntent, ApplyPublishGate, LoadInput, Store, ApiAccess, Step, CallPoints, InCall
    <2>2. calm' = calm
      BY <1>4
      DEF ApiStep, SetCsiLoggingEnabled, SetCsiDeliveryMode, SetCsiCallback, ClearCsiCallback,
          SetCsiRawCallback, SetCsiOutputEnabled, SetRuntimeReporting, NextCsiPacket, Reset,
          OpenIntent, ApplyPublishGate, LoadInput, Store, ApiAccess, frames
    <2>3. \A u \in Threads : ~calm[u]
      BY <2>1 DEF CalmInv, Seen, NoCall
    <2> QED
      BY <2>2, <2>3 DEF CalmInv
  <1>5. ASSUME NEW t \in Threads, Dispatch(t) PROVE CalmInv'
    <2>1. CASE mem.mode = "callback" /\ Pass(t, "dispatch", "load_callback")
      BY <2>1, PassSeen DEF FramePoints, Passed
    <2>2. CASE mem.mode = "async" /\ Land(t, "dispatch", "queue")
      BY <2>2, LandSeen DEF Seen, Passed, Configured, FramePoints
    <2>3. CASE mem.mode = "off" /\ Pass(t, "dispatch", "load_inline")
      BY <2>3, PassSeen DEF FramePoints, Passed
    <2> QED
      BY <1>5, <2>1, <2>2, <2>3 DEF Dispatch
  <1>6. ASSUME NEW t \in Threads, DeliverToCallback(t) PROVE CalmInv'
    BY <1>6, LandSeen DEF DeliverToCallback, Seen, Passed, Configured, FramePoints
  <1>7. ASSUME NEW t \in Threads, DeliverToLog(t) PROVE CalmInv'
    <2>1. CASE mem.inlineLog /\ Pass(t, "load_inline", "load_local")
      BY <2>1, PassSeen DEF FramePoints, Passed
    <2>2. CASE ~mem.inlineLog /\ Land(t, "load_inline", "none")
      BY <2>2, LandSeen DEF Seen, Passed, Configured, FramePoints
    <2>3. CASE Land(t, "load_local", IF mem.local THEN "none" ELSE "log")
      BY <2>3, LandSeen DEF Seen, Passed, Configured, FramePoints
    <2> QED
      BY <1>7, <2>1, <2>2, <2>3 DEF DeliverToLog
  <1>8. ASSUME NEW t \in Threads, Return(t) PROVE CalmInv'
    <2>0. torn' = torn
      BY <1>8, FrameKeepsTorn DEF Return, FramePoints
    <2>1. /\ pc' = [pc EXCEPT ![t] = "idle"] /\ UNCHANGED mem
          /\ ~calm'[t]
          /\ \A u \in Threads \ {t} : fate'[u] = fate[u] /\ calm'[u] = calm[u]
      BY <1>8 DEF Return, Step, Typed, TypeOK
    <2> QED
      BY <2>0, <2>1, OthersSeen
  <1>9. CASE CaptureRaw
    <2>1. CASE Begin("wifi", "capture_raw")
      BY <1>0, <2>1, BeginSeen
    <2>2. CASE mem.raw # NULL /\ Land("wifi", "capture_raw", "raw")
      BY <1>0, <2>2, LandSeen DEF Configured, FramePoints
    <2>3. CASE mem.raw = NULL /\ Pass("wifi", "capture_raw", "capture_gate")
      BY <1>0, <2>3, PassSeen DEF FramePoints, Passed
    <2> QED
      BY <1>9, <2>1, <2>2, <2>3 DEF CaptureRaw
  <1>10. ASSUME NEW t \in Threads, Open, t = "wifi" => mem.raw = NULL
         PROVE  Configured(t) # "raw"
    <2>1. mem.callback # "raw" \/ mem.callback = NULL
      BY <1>2 DEF Fates
    <2> QED
      BY <1>2, <1>10, <2>1 DEF Configured, Modes
  <1>11. CASE CaptureAdmit
    <2>1. CASE PassGate("wifi", "capture_gate", "capture_admit")
      <3>1. mem.gate
        BY <2>1 DEF PassGate
      <3> QED
        BY <1>0, <1>1, <2>1, <3>1, PassSeen DEF FramePoints, Passed
    <2>2. CASE ~mem.gate /\ Land("wifi", "capture_gate", "none")
      BY <1>0, <1>1, <2>2, LandSeen DEF Seen, Passed, Configured, FramePoints
    <2>3. CASE Pass("wifi", "capture_admit", "dispatch")
      BY <1>0, <2>3, PassSeen DEF FramePoints, Passed
    <2>4. CASE Land("wifi", "capture_admit", "rejected")
      BY <1>0, <1>10, <2>4, LandSeen DEF Seen, Passed, FramePoints
    <2> QED
      BY <1>11, <2>1, <2>2, <2>3, <2>4 DEF CaptureAdmit
  <1>12. CASE Emit
    <2>1. CASE Begin("app", "emit_gate")
      BY <1>0, <2>1, BeginSeen
    <2>2. CASE PassGate("app", "emit_gate", "emit_admit")
      <3>1. mem.gate
        BY <2>2 DEF PassGate
      <3> QED
        BY <1>0, <1>1, <2>2, <3>1, PassSeen DEF FramePoints
    <2>3. CASE ~mem.gate /\ Land("app", "emit_gate", "none")
      BY <1>0, <1>1, <2>3, LandSeen DEF Seen, Passed, Configured, FramePoints
    <2>4. CASE Pass("app", "emit_admit", "dispatch")
      BY <1>0, <2>4, PassSeen DEF FramePoints, Passed
    <2>5. CASE Land("app", "emit_admit", "rejected")
      BY <1>0, <1>10, <2>5, LandSeen DEF Seen, Passed, FramePoints
    <2> QED
      BY <1>12, <2>1, <2>2, <2>3, <2>4, <2>5 DEF Emit
  <1>13. CASE UNCHANGED vars
    BY <1>13 DEF vars, CalmInv, Seen, Passed, PastTheGate, NoCall, InCall, Open, Configured
  <1> QED
    BY <1>3, <1>4, <1>5, <1>6, <1>7, <1>8, <1>9, <1>11, <1>12, <1>13 DEF Next, FrameStep

\* A frame that no call overlaps, under a gate that is not torn, goes where
\* the configuration sends it, except where the raw fast path takes it past
\* the gate.
THEOREM CalmFramesGoWhereConfigured == Spec => []CalmFramesFollowConfiguration
  <1>1. CalmInv => CalmFramesFollowConfiguration
    BY DEF CalmInv, Seen, Passed, CalmFramesFollowConfiguration
  <1> QED
    BY <1>1, InitTyped, NextTyped, InitGate, NextGate, InitCalm, NextCalm, PTL DEF Spec

-----------------------------------------------------------------------------
(* The mode and the pointer. *)

\* Nobody selects the mode `callback' by hand, and user callbacks leave the
\* pointer alone.
PointerFollowsMode ==
    /\ [fn |-> "set_csi_delivery_mode", arg |-> "callback"] \notin AppCalls \cup CallbackCalls
    /\ \A c \in CallbackCalls : c.fn \notin {"set_csi_callback", "clear_csi_callback", "reset"}

\* What the half-done calls know about the mode and the pointer.
PointerInv ==
    /\ mem.mode = "callback" => mem.callback # NULL
    /\ pc["wifi"] \notin {"set_csi_callback", "callback_mode", "clear_csi_callback",
                         "clear_pointer", "reset", "reset_intent", "reset_gate",
                         "reset_output", "reset_mode", "reset_pointer"}
    /\ pc["app"] = "callback_mode" => mem.callback # NULL
    /\ pc["app"] \in {"clear_pointer", "reset_pointer"} => mem.mode # "callback"
    /\ \A t \in Threads : pc[t] = "set_csi_delivery_mode" => call[t].arg # "callback"

LEMMA InitPointer == Init => PointerInv
  BY DEF Init, InitMem, PointerInv, Threads

LEMMA NextPointer ==
    ASSUME PointerFollowsMode
    PROVE  Typed /\ PointerInv /\ [Next]_vars => PointerInv'
  <1> SUFFICES ASSUME Typed, PointerInv, [Next]_vars PROVE PointerInv'
    OBVIOUS
  <1>0. /\ "app" \in Threads /\ "wifi" \in Threads
        /\ mem \in [intent : BOOLEAN, reports : BOOLEAN, output : BOOLEAN, gate : BOOLEAN,
                    inlineLog : BOOLEAN, local : BOOLEAN, mode : Modes,
                    callback : Callbacks \cup {NULL}, raw : Callbacks \cup {NULL}]
        /\ pc \in [Threads -> {"idle"} \cup FramePoints \cup CallPoints]
        /\ call \in [Threads -> ApiCalls]
        /\ \A t \in Threads : pc[t] \in Functions => call[t].fn = pc[t]
    BY DEF Typed, TypeOK, Threads
  <1>1. ASSUME NEW t \in Threads, NEW c \in AppCalls \cup CallbackCalls, Call(t, c)
        PROVE  PointerInv'
    <2>1. /\ pc' = [pc EXCEPT ![t] = c.fn] /\ call' = [call EXCEPT ![t] = c]
          /\ UNCHANGED mem
          /\ t = "wifi" => c \in CallbackCalls
      BY <1>1 DEF Call, Step
    <2>2. c \in ApiCalls /\ c.fn \in Functions
      BY ApiArguments
    <2>3. c.fn = "set_csi_delivery_mode" => c.arg # "callback"
      BY <2>2 DEF PointerFollowsMode, ApiCalls
    <2>4. pc'["wifi"] # pc["wifi"] => c \in CallbackCalls /\ pc'["wifi"] = c.fn
      BY <1>0, <2>1
    <2>5. c \in CallbackCalls => c.fn \notin {"set_csi_callback", "callback_mode",
              "clear_csi_callback", "clear_pointer", "reset", "reset_intent", "reset_gate",
              "reset_output", "reset_mode", "reset_pointer"}
      BY <2>2 DEF PointerFollowsMode, Functions
    <2>6. pc'["app"] # pc["app"] => pc'["app"] \in Functions
      BY <1>0, <2>1, <2>2
    <2>7. \A u \in Threads : pc'[u] = "set_csi_delivery_mode" => call'[u].arg # "callback"
      BY <1>0, <2>1, <2>3 DEF PointerInv
    <2> QED
      BY <2>1, <2>4, <2>5, <2>6, <2>7 DEF PointerInv, Functions
  <1>2. ASSUME NEW t \in Threads, ApiStep(t) PROVE PointerInv'
    <2> USE <1>0 DEF PointerInv, Store, ApiAccess, Step, Functions, Threads
    <2>1. CASE SetCsiLoggingEnabled(t)
      BY <2>1 DEF SetCsiLoggingEnabled
    <2>2. CASE SetCsiDeliveryMode(t)
      BY <2>2 DEF SetCsiDeliveryMode
    <2>3. CASE SetCsiCallback(t)
      <3>1. pc[t] = "set_csi_callback" => call[t].arg \in Callbacks
        BY ApiArguments
      <3> QED
        BY <2>3, <3>1 DEF SetCsiCallback
    <2>4. CASE ClearCsiCallback(t)
      BY <2>4 DEF ClearCsiCallback
    <2>5. CASE SetCsiRawCallback(t) \/ OpenIntent(t) \/ SetCsiOutputEnabled(t)
      BY <2>5 DEF SetCsiRawCallback, OpenIntent, SetCsiOutputEnabled
    <2>6. CASE SetRuntimeReporting(t)
      BY <2>6 DEF SetRuntimeReporting
    <2>7. CASE NextCsiPacket(t)
      BY <2>7 DEF NextCsiPacket
    <2>8. CASE Reset(t)
      BY <2>8 DEF Reset
    <2>9. CASE ApplyPublishGate(t)
      BY <2>9 DEF ApplyPublishGate, LoadInput
    <2> QED
      BY <1>2, <2>1, <2>2, <2>3, <2>4, <2>5, <2>6, <2>7, <2>8, <2>9 DEF ApiStep
  <1>3. ASSUME NEW t \in Threads, FrameStep(t) \/ CaptureRaw \/ CaptureAdmit \/ Emit
        PROVE  PointerInv'
    <2>1. PICK u \in Threads, to \in FramePoints \cup {"idle"} :
             /\ pc' = [pc EXCEPT ![u] = to]
             /\ UNCHANGED <<mem, call, known, rep>>
      BY <1>3, FrameStores
    <2> QED
      BY <1>0, <2>1 DEF PointerInv, FramePoints
  <1>4. CASE UNCHANGED vars
    BY <1>4 DEF vars, PointerInv
  <1> QED
    BY <1>0, <1>1, <1>2, <1>3, <1>4 DEF Next

\* The Wi-Fi callback never finds the mode `callback' beside a null pointer.
THEOREM CallbackModeHasAPointer ==
    ASSUME PointerFollowsMode
    PROVE  Spec => []ModeImpliesCallback
  <1>1. PointerInv => ModeImpliesCallback
    BY DEF PointerInv, ModeImpliesCallback
  <1>2. Typed /\ PointerInv /\ [Next]_vars => PointerInv'
    BY NextPointer
  <1> QED
    BY <1>1, <1>2, InitTyped, NextTyped, InitPointer, PTL DEF Spec
-----------------------------------------------------------------------------
(* The reporting in force. *)

\* What a window must hold for a frame to be delivered.
Reporting == {"host", "local", "torn"}

\* The accesses of a frame that the gate let through.
PastGate ==
    {"capture_admit", "emit_admit", "dispatch", "load_callback", "load_inline", "load_local"}

\* Thread t is between its store to REPORTS and the store to the gate.
Switching(t) ==
    /\ pc[t] \in {"gate_intent", "gate_reports", "gate_output", "gate_store"}
    /\ call[t].fn = "set_runtime_reporting"
    /\ (call[t].arg # "none") = mem.reports

\* A gate that is not torn is open only under a reporting that reports,
\* because the history of the reporting moves with the gate; REPORTS is ahead
\* of it while set_runtime_reporting recomputes.
ReportInv ==
    /\ torn = "no" /\ mem.gate => rep # "none"
    /\ mem.reports = (rep # "none") \/ \E t \in Threads : Switching(t)

\* A frame's window holds every reporting in force since the frame began.
WindowInv ==
    \A t \in Threads :
        /\ pc[t] \in FramePoints => InForce \subseteq window[t]
        /\ pc[t] \in PastGate => window[t] \cap Reporting # {}
        /\ pc[t] = "landed" /\ fate[t] \in Callbacks \cup {"queue", "log"} =>
              window[t] \cap Reporting # {}

LEMMA InitReport == Init => ReportInv /\ WindowInv
  <1> SUFFICES ASSUME Init PROVE ReportInv /\ WindowInv
    OBVIOUS
  <1>1. mem.gate = FALSE /\ mem.reports = FALSE /\ rep = "none"
    BY DEF Init, InitMem
  <1>2. \A t \in Threads : pc[t] = "idle"
    BY DEF Init
  <1> QED
    BY <1>1, <1>2 DEF ReportInv, WindowInv, FramePoints, PastGate

\* A step mends the gate only at the end of a recomputation.
LEMMA MendsAtTheEnd ==
    ASSUME NEW t \in Threads, NEW from, NEW to, Step(t, from, to), torn' = "no", torn # "no"
    PROVE  from \in Recomputing /\ to \notin Recomputing
  BY DEF Step, Tear

\* A step that stores neither to the gate nor to REPORTS, and switches no
\* reporting, keeps the invariant, unless it ends a recomputation.
LEMMA QuietReport ==
    ASSUME Typed, ReportInv, NEW t \in Threads, NEW from, NEW to, Step(t, from, to),
           from \notin Recomputing \/ to \in Recomputing,
           mem'.gate = mem.gate \/ mem'.gate = FALSE, mem'.reports = mem.reports, rep' = rep,
           \A u \in Threads : Switching(u) => Switching(u)'
    PROVE  ReportInv'
  <1>1. torn' = "no" => torn = "no"
    BY MendsAtTheEnd
  <1> QED
    BY <1>1 DEF ReportInv

\* A store elsewhere.
LEMMA StoreReport ==
    ASSUME Typed, ReportInv, NEW t \in Threads, NEW from, NEW to, NEW m, Store(t, from, to, m),
           from \notin Recomputing \/ (from = "reset_gate" /\ to = "reset_output"),
           m.gate = mem.gate \/ m.gate = FALSE, m.reports = mem.reports
    PROVE  ReportInv'
  <1>1. /\ Step(t, from, to) /\ mem' = m /\ rep' = rep
        /\ \A u \in Threads \ {t} : call'[u] = call[u]
    BY DEF Store, ApiAccess, Typed, TypeOK
  <1>2. /\ pc[t] = from /\ \A u \in Threads \ {t} : pc'[u] = pc[u]
    BY <1>1 DEF Step, Typed, TypeOK
  <1>3. ~Switching(t)
    BY <1>2 DEF Switching, Recomputing
  <1>4. \A u \in Threads : Switching(u) => Switching(u)'
    BY <1>1, <1>2, <1>3 DEF Switching
  <1>5. from \notin Recomputing \/ to \in Recomputing
    BY DEF Recomputing
  <1> QED
    BY <1>1, <1>4, <1>5, QuietReport

LEMMA NextReport == Typed /\ GateInv /\ ReportInv /\ [Next]_vars => ReportInv'
  <1> SUFFICES ASSUME Typed, GateInv, ReportInv, [Next]_vars PROVE ReportInv'
    OBVIOUS
  <1>0. /\ mem \in [intent : BOOLEAN, reports : BOOLEAN, output : BOOLEAN, gate : BOOLEAN,
                    inlineLog : BOOLEAN, local : BOOLEAN, mode : Modes,
                    callback : Callbacks \cup {NULL}, raw : Callbacks \cup {NULL}]
        /\ pc \in [Threads -> {"idle"} \cup FramePoints \cup CallPoints]
        /\ call \in [Threads -> ApiCalls]
        /\ known \in [Threads -> BOOLEAN]
        /\ \A t \in Threads : pc[t] = "reporting_gate" => call[t].fn = "set_runtime_reporting"
    BY DEF Typed, TypeOK
  <1>1. ASSUME NEW t \in Threads, NEW c \in AppCalls \cup CallbackCalls, Call(t, c)
        PROVE  ReportInv'
    <2>1. PICK from \in {"idle", "landed"} :
              /\ Step(t, from, c.fn) /\ call' = [call EXCEPT ![t] = c] /\ UNCHANGED <<mem, rep>>
      BY <1>1 DEF Call
    <2>2. /\ pc[t] = from /\ \A u \in Threads \ {t} : pc'[u] = pc[u] /\ call'[u] = call[u]
      BY <1>0, <2>1 DEF Step
    <2>3. \A u \in Threads : Switching(u) => Switching(u)'
      BY <2>1, <2>2 DEF Switching
    <2>4. from \notin Recomputing
      BY DEF Recomputing
    <2> QED
      BY <2>1, <2>3, <2>4, QuietReport
  <1>2. ASSUME NEW t \in Threads, ApiStep(t) PROVE ReportInv'
    <2> USE <1>0 DEF Recomputing
    <2>1. CASE SetCsiLoggingEnabled(t)
      BY <2>1, StoreReport DEF SetCsiLoggingEnabled
    <2>2. CASE SetCsiDeliveryMode(t)
      BY <2>2, StoreReport DEF SetCsiDeliveryMode
    <2>3. CASE SetCsiCallback(t)
      BY <2>3, StoreReport DEF SetCsiCallback
    <2>4. CASE ClearCsiCallback(t)
      BY <2>4, StoreReport DEF ClearCsiCallback
    <2>5. CASE SetCsiRawCallback(t)
      BY <2>5, StoreReport DEF SetCsiRawCallback
    <2>6. CASE OpenIntent(t)
      BY <2>6, StoreReport DEF OpenIntent
    <2>7. CASE SetCsiOutputEnabled(t)
      BY <2>7, StoreReport DEF SetCsiOutputEnabled
    <2>8. CASE SetRuntimeReporting(t)
      <3>1. CASE \E v : Store(t, "set_runtime_reporting", "reporting_gate", [mem EXCEPT !.local = v])
        BY <3>1, StoreReport
      <3>2. CASE Store(t, "reporting_gate", "gate_intent", [mem EXCEPT !.reports = call[t].arg # "none"])
        <4> DEFINE v == call[t].arg # "none"
        <4>1. /\ Step(t, "reporting_gate", "gate_intent") /\ call' = call /\ rep' = rep
              /\ mem' = [mem EXCEPT !.reports = v] /\ pc[t] = "reporting_gate"
          BY <3>2 DEF Store, ApiAccess, Step
        <4>2. pc'[t] = "gate_intent"
          BY <4>1 DEF Step
        <4>3. mem'.gate = mem.gate /\ mem'.reports = v
          <5> HIDE DEF v
          <5> QED
            BY <4>1
        <4>4. Switching(t)'
          BY <4>1, <4>2, <4>3 DEF Switching
        <4>5. torn' = "no" => torn = "no"
          BY <4>1, MendsAtTheEnd
        <4> QED
          BY <4>1, <4>3, <4>4, <4>5 DEF ReportInv
      <3> QED
        BY <2>8, <3>1, <3>2 DEF SetRuntimeReporting
    <2>9. CASE NextCsiPacket(t)
      <3>1. CASE Store(t, "lazy_mode", "open_intent", [mem EXCEPT !.mode = "async"])
        BY <3>1, StoreReport
      <3>2. CASE \E to \in {"lazy_mode", "idle"} :
                    ApiAccess(t, "next_csi_packet", to) /\ UNCHANGED <<mem, known, rep>>
        <4>1. PICK to \in {"lazy_mode", "idle"} :
                    Store(t, "next_csi_packet", to, mem)
          BY <3>2 DEF Store
        <4> QED
          BY <4>1, StoreReport
      <3> QED
        BY <2>9, <3>1, <3>2 DEF NextCsiPacket
    <2>10. CASE Reset(t)
      <3>1. CASE Store(t, "reset_output", "reset_mode", [mem EXCEPT !.output = TRUE])
        <4>1. /\ Step(t, "reset_output", "reset_mode") /\ pc[t] = "reset_output"
              /\ mem' = [mem EXCEPT !.output = TRUE] /\ rep' = rep /\ call' = call
          BY <3>1 DEF Store, ApiAccess, Step
        <4>2. \A u \in Threads : Switching(u) => Switching(u)'
          BY <4>1 DEF Switching, Step
        <4>3. torn' = "no" => torn # "amid"
          BY <4>1 DEF Step, Tear
        <4>4. torn' = "no" => ~mem'.gate
          BY <4>1, <4>3 DEF GateInv, Loaded
        <4> QED
          BY <4>1, <4>2, <4>4 DEF ReportInv
      <3> QED
        BY <2>10, <3>1, StoreReport DEF Reset
    <2>11. CASE ApplyPublishGate(t)
      <3>1. ASSUME NEW from \in {"gate_intent", "gate_reports", "gate_output"},
                   NEW to \in {"gate_reports", "gate_output", "gate_store"}, NEW v,
                   LoadInput(t, from, to, v)
            PROVE  ReportInv'
        <4>1. PICK next \in {"gate_reports", "gate_output", "gate_store"} :
                 Step(t, from, next) /\ call' = call /\ UNCHANGED <<mem, rep>>
          BY <3>1 DEF LoadInput, ApiAccess
        <4>2. \A u \in Threads : Switching(u) => Switching(u)'
          BY <4>1 DEF Switching, Step
        <4> QED
          BY <4>1, <4>2, QuietReport
      <3>2. CASE pc[t] = "gate_store"
        <4>1. /\ Step(t, "gate_store", "idle")
              /\ mem' = [mem EXCEPT !.gate = known[t]]
              /\ \A u \in Threads \ {t} : call'[u] = call[u] /\ pc'[u] = pc[u]
              /\ rep' = IF call[t].fn = "set_runtime_reporting" /\ (call[t].arg # "none") = mem.reports
                        THEN call[t].arg ELSE rep
          BY <2>11, <3>2 DEF ApplyPublishGate, LoadInput, ApiAccess, Step
        <4>2. mem'.gate = known[t] /\ mem'.reports = mem.reports
          BY <4>1
        <4>3. mem'.reports = (rep' # "none") \/ \E u \in Threads \ {t} : Switching(u)
          <5>1. CASE Switching(t)
            BY <4>1, <4>2, <5>1 DEF Switching
          <5>2. CASE ~Switching(t)
            <6>1. rep' = rep
              BY <3>2, <4>1, <5>2 DEF Switching
            <6> QED
              BY <4>2, <5>2, <6>1 DEF ReportInv
          <5> QED
            BY <5>1, <5>2
        <4>4. \A u \in Threads \ {t} : Switching(u) => Switching(u)'
          BY <4>1, <4>2 DEF Switching
        <4>5. ASSUME torn' = "no", mem'.gate PROVE rep' # "none"
          <5>1. ~(\E u \in Threads \ {t} : Busy(u)) /\ torn # "amid"
            BY <3>2, <4>1, <4>5 DEF GateInv, Busy, Step, Tear
          <5>2. mem.reports
            BY <3>2, <4>2, <4>5, <5>1 DEF GateInv, Loaded, Open
          <5>3. \A u \in Threads \ {t} : ~Switching(u)
            BY <5>1 DEF Busy, Switching
          <5> QED
            BY <4>2, <4>3, <5>2, <5>3
        <4> QED
          BY <4>3, <4>4, <4>5 DEF ReportInv
      <3> QED
        BY <2>11, <3>1, <3>2 DEF ApplyPublishGate, ApiAccess, Step
    <2> QED
      BY <1>2, <2>1, <2>2, <2>3, <2>4, <2>5, <2>6, <2>7, <2>8, <2>9, <2>10, <2>11 DEF ApiStep
  <1>3. ASSUME NEW t \in Threads, FrameStep(t) \/ CaptureRaw \/ CaptureAdmit \/ Emit
        PROVE  ReportInv'
    <2>1. PICK u \in Threads, from, to \in FramePoints \cup {"idle"} :
             /\ Step(u, from, to) /\ pc[u] = from
             /\ pc' = [pc EXCEPT ![u] = to] /\ UNCHANGED <<mem, call, known, rep>>
      BY <1>3, FrameStores
    <2>2. from \notin Recomputing
      BY DEF FramePoints, Recomputing
    <2>3. \A w \in Threads : Switching(w) => Switching(w)'
      BY <1>0, <2>1, <2>2 DEF Switching, Recomputing
    <2> QED
      BY <2>1, <2>2, <2>3, QuietReport
  <1>4. CASE UNCHANGED vars
    BY <1>4 DEF vars, ReportInv, Switching
  <1>5. CASE CaptureRaw \/ CaptureAdmit \/ Emit
    BY <1>3, <1>5 DEF Threads
  <1> QED
    BY <1>1, <1>2, <1>3, <1>4, <1>5 DEF Next

\* A call adds to the reportings in force at most its own argument, and
\* nothing else adds to them.
LEMMA InForceGrows ==
    ASSUME Typed, [Next]_vars
    PROVE  \/ InForce' \subseteq InForce
           \/ \E t \in Threads, c \in AppCalls \cup CallbackCalls :
                 /\ Call(t, c) /\ c.fn = "set_runtime_reporting"
                 /\ InForce' \subseteq InForce \cup {c.arg}
  <1>0. /\ pc \in [Threads -> {"idle"} \cup FramePoints \cup CallPoints]
        /\ call \in [Threads -> ApiCalls]
    BY DEF Typed, TypeOK
  <1>1. ASSUME NEW t \in Threads, NEW c \in AppCalls \cup CallbackCalls, Call(t, c)
        PROVE  \/ InForce' \subseteq InForce
               \/ c.fn = "set_runtime_reporting" /\ InForce' \subseteq InForce \cup {c.arg}
    <2>1. pc' = [pc EXCEPT ![t] = c.fn] /\ call' = [call EXCEPT ![t] = c] /\ rep' = rep
      BY <1>1 DEF Call, Step
    <2> QED
      BY <1>0, <2>1 DEF InForce, InCall
  <1>2. ASSUME NEW t \in Threads, ApiStep(t) PROVE InForce' \subseteq InForce
    <2>1. /\ InCall(t) /\ \A u \in Threads : InCall(u)' => call'[u] = call[u]
          /\ rep' \in {rep} \cup {call[u].arg : u \in {w \in {t} : call[w].fn = "set_runtime_reporting"}}
      BY <1>0, <1>2
      DEF ApiStep, SetCsiLoggingEnabled, SetCsiDeliveryMode, SetCsiCallback, ClearCsiCallback,
          SetCsiRawCallback, SetCsiOutputEnabled, SetRuntimeReporting, NextCsiPacket, Reset,
          OpenIntent, ApplyPublishGate, LoadInput, Store, ApiAccess, Step, CallPoints, InCall
    <2>2. \A u \in Threads : u # t => pc'[u] = pc[u]
      BY <1>0, <1>2
      DEF ApiStep, SetCsiLoggingEnabled, SetCsiDeliveryMode, SetCsiCallback, ClearCsiCallback,
          SetCsiRawCallback, SetCsiOutputEnabled, SetRuntimeReporting, NextCsiPacket, Reset,
          OpenIntent, ApplyPublishGate, LoadInput, Store, ApiAccess, Step
    <2>3. \A u \in Threads : InCall(u)' => InCall(u)
      BY <2>1, <2>2 DEF InCall
    <2> QED
      BY <2>1, <2>3 DEF InForce
  <1>3. ASSUME NEW t \in Threads, FrameStep(t) \/ CaptureRaw \/ CaptureAdmit \/ Emit
        PROVE  InForce' \subseteq InForce
    <2>1. PICK u \in Threads, to \in FramePoints \cup {"idle"} :
             /\ pc' = [pc EXCEPT ![u] = to]
             /\ UNCHANGED <<mem, call, known, rep>>
      BY <1>3, FrameStores
    <2>2. \A w \in Threads : InCall(w)' => InCall(w)
      BY <1>0, <2>1 DEF InCall, FramePoints, CallPoints
    <2> QED
      BY <2>1, <2>2 DEF InForce
  <1>4. CASE UNCHANGED vars
    BY <1>4 DEF vars, InForce, InCall
  <1>5. "wifi" \in Threads
    BY DEF Threads
  <1> QED
    BY <1>1, <1>2, <1>3, <1>4, <1>5 DEF Next
Delivered == Callbacks \cup {"queue", "log"}

\* The part of WindowInv about thread t.
WindowOf(t) ==
    /\ pc[t] \in FramePoints => InForce \subseteq window[t]
    /\ pc[t] \in PastGate => window[t] \cap Reporting # {}
    /\ pc[t] = "landed" /\ fate[t] \in Delivered => window[t] \cap Reporting # {}

\* A step that moves thread t's frame, and leaves the other thread's alone.
LEMMA MoveWindow ==
    ASSUME Typed, WindowInv, InForce' \subseteq InForce, NEW t \in Threads, NEW to,
           pc' = [pc EXCEPT ![t] = to],
           \A u \in Threads \ {t} : fate'[u] = fate[u] /\ window'[u] = window[u],
           WindowOf(t)'
    PROVE  WindowInv'
  <1>1. ASSUME NEW u \in Threads, u # t PROVE WindowOf(u)'
    <2>1. pc'[u] = pc[u] /\ fate'[u] = fate[u] /\ window'[u] = window[u]
      BY <1>1 DEF Typed, TypeOK
    <2> QED
      BY <2>1 DEF WindowInv, WindowOf, Delivered
  <1>2. \A u \in Threads : WindowOf(u)'
    BY <1>1
  <1> QED
    BY <1>2 DEF WindowInv, WindowOf, Delivered

LEMMA PassWindow ==
    ASSUME Typed, ReportInv, WindowInv, InForce' \subseteq InForce, NEW t \in Threads,
           NEW from \in FramePoints, NEW to \in FramePoints \ {"landed"},
           \/ Pass(t, from, to) /\ (to \in PastGate => from \in PastGate)
           \/ PassGate(t, from, to)
    PROVE  WindowInv'
  <1>1. /\ pc[t] = from /\ pc' = [pc EXCEPT ![t] = to] /\ fate' = fate
        /\ \/ window' = window /\ (to \in PastGate => from \in PastGate)
           \/ mem.gate /\ window' = [window EXCEPT ![t] = IF torn = "no" THEN @ ELSE @ \cup {"torn"}]
    BY DEF Pass, PassGate, Step, frames
  <1>2. pc'[t] = to /\ window[t] \subseteq window'[t]
        /\ \A u \in Threads \ {t} : window'[u] = window[u]
    BY <1>1 DEF Typed, TypeOK
  <1>3. InForce \subseteq window[t] /\ (from \in PastGate => window[t] \cap Reporting # {})
    BY <1>1 DEF WindowInv
  <1>4. torn = "no" /\ mem.gate => rep \in window[t] \cap Reporting
    BY <1>3 DEF ReportInv, Typed, TypeOK, Reportings, Reporting, InForce
  <1>5. to \in PastGate => window'[t] \cap Reporting # {}
    <2>1. CASE window' = window /\ (to \in PastGate => from \in PastGate)
      BY <1>3, <2>1
    <2>2. CASE mem.gate /\ torn = "no"
      BY <1>2, <1>4, <2>2
    <2>3. CASE torn # "no" /\ window' = [window EXCEPT ![t] = IF torn = "no" THEN @ ELSE @ \cup {"torn"}]
      <3>1. "torn" \in window'[t]
        BY <2>3 DEF Typed, TypeOK
      <3> QED
        BY <3>1 DEF Reporting
    <2> QED
      BY <1>1, <2>1, <2>2, <2>3
  <1>6. WindowOf(t)'
    BY <1>1, <1>2, <1>3, <1>5 DEF WindowOf
  <1> QED
    BY <1>1, <1>2, <1>6, MoveWindow

LEMMA LandWindow ==
    ASSUME Typed, WindowInv, InForce' \subseteq InForce, NEW t \in Threads,
           NEW from \in FramePoints, NEW f, Land(t, from, f),
           f \in Delivered => from \in PastGate
    PROVE  WindowInv'
  <1>1. /\ pc[t] = from /\ pc' = [pc EXCEPT ![t] = "landed"]
        /\ fate' = [fate EXCEPT ![t] = f] /\ window' = window
    BY DEF Land, Step
  <1>2. pc'[t] = "landed" /\ fate'[t] = f
    BY <1>1 DEF Typed, TypeOK
  <1>3. InForce \subseteq window[t] /\ (from \in PastGate => window[t] \cap Reporting # {})
    BY <1>1 DEF WindowInv
  <1>4. WindowOf(t)'
    BY <1>1, <1>2, <1>3 DEF WindowOf, PastGate, FramePoints, Delivered
  <1>5. \A u \in Threads \ {t} : fate'[u] = fate[u]
    BY <1>1 DEF Typed, TypeOK
  <1> QED
    BY <1>1, <1>4, <1>5, MoveWindow

LEMMA BeginWindow ==
    ASSUME Typed, WindowInv, InForce' \subseteq InForce, NEW t \in Threads,
           NEW to \in FramePoints \ (PastGate \cup {"landed"}), Begin(t, to)
    PROVE  WindowInv'
  <1>1. /\ pc' = [pc EXCEPT ![t] = to] /\ fate' = [fate EXCEPT ![t] = "flying"]
        /\ window' = [window EXCEPT ![t] = InForce]
    BY DEF Begin, Step
  <1>2. pc'[t] = to /\ window'[t] = InForce
    BY <1>1 DEF Typed, TypeOK
  <1>3. WindowOf(t)'
    BY <1>2 DEF WindowOf
  <1>4. \A u \in Threads \ {t} : fate'[u] = fate[u] /\ window'[u] = window[u]
    BY <1>1 DEF Typed, TypeOK
  <1> QED
    BY <1>1, <1>3, <1>4, MoveWindow

LEMMA NextWindow == Typed /\ ReportInv /\ WindowInv /\ [Next]_vars => WindowInv'
  <1> SUFFICES ASSUME Typed, ReportInv, WindowInv, [Next]_vars PROVE WindowInv'
    OBVIOUS
  <1>0. /\ "app" \in Threads /\ "wifi" \in Threads
        /\ pc \in [Threads -> {"idle"} \cup FramePoints \cup CallPoints]
        /\ fate \in [Threads -> Callbacks \cup Fates]
        /\ window \in [Threads -> SUBSET (Reportings \cup {"torn"})]
    BY DEF Typed, TypeOK, Threads
  <1>1. ASSUME NEW t \in Threads, NEW c \in AppCalls \cup CallbackCalls, Call(t, c)
        PROVE  WindowInv'
    <2>1. /\ pc' = [pc EXCEPT ![t] = c.fn] /\ call' = [call EXCEPT ![t] = c] /\ rep' = rep
          /\ window' = [u \in Threads |->
                IF pc[u] \in FramePoints /\ u # t /\ c.fn = "set_runtime_reporting"
                THEN window[u] \cup {c.arg} ELSE IF u = t THEN {} ELSE window[u]]
      BY <1>1 DEF Call, Step
    <2>2. \A u \in Threads \ {t} : fate'[u] = fate[u] /\ pc'[u] = pc[u]
      BY <1>0, <1>1, <2>1 DEF Call
    <2>3. pc'[t] = c.fn /\ c.fn \in Functions
      BY <1>0, <2>1, ApiArguments
    <2>4. InForce' \subseteq InForce \cup
             (IF c.fn = "set_runtime_reporting" THEN {c.arg} ELSE {})
      BY <1>0, <2>1 DEF InForce, InCall, Typed, TypeOK
    <2>5. pc'[t] \notin FramePoints /\ PastGate \cup {"landed"} \subseteq FramePoints
      BY <2>3 DEF Functions, FramePoints, PastGate
    <2>6. ASSUME NEW u \in Threads, u # t, pc[u] \in FramePoints
          PROVE  InForce' \subseteq window'[u] /\ window[u] \subseteq window'[u]
      BY <2>1, <2>4, <2>6 DEF WindowInv
    <2>7. ASSUME NEW u \in Threads, u # t PROVE WindowOf(u)'
      BY <2>2, <2>5, <2>6, <2>7 DEF WindowInv, WindowOf, Delivered
    <2>8. WindowOf(t)'
      BY <2>5 DEF WindowOf
    <2>9. \A u \in Threads : WindowOf(u)'
      BY <2>7, <2>8
    <2> QED
      BY <2>9 DEF WindowInv, WindowOf, Delivered
  <1>2. ASSUME NEW t \in Threads, NEW c \in AppCalls \cup CallbackCalls
        PROVE  ~Call(t, c) \/ WindowInv'
    BY <1>1
  <1>3. CASE InForce' \subseteq InForce
    <2> USE <1>0, <1>3
    <2>1. ASSUME NEW t \in Threads, ApiStep(t) PROVE WindowInv'
      <3>1. PICK to \in CallPoints \cup {"idle"} : pc' = [pc EXCEPT ![t] = to]
        BY <2>1
        DEF ApiStep, SetCsiLoggingEnabled, SetCsiDeliveryMode, SetCsiCallback, ClearCsiCallback,
            SetCsiRawCallback, SetCsiOutputEnabled, SetRuntimeReporting, NextCsiPacket, Reset,
            OpenIntent, ApplyPublishGate, LoadInput, Store, ApiAccess, Step, CallPoints
      <3>2. UNCHANGED <<fate, window>>
        BY <2>1
        DEF ApiStep, SetCsiLoggingEnabled, SetCsiDeliveryMode, SetCsiCallback, ClearCsiCallback,
            SetCsiRawCallback, SetCsiOutputEnabled, SetRuntimeReporting, NextCsiPacket, Reset,
            OpenIntent, ApplyPublishGate, LoadInput, Store, ApiAccess, frames
      <3>3. WindowOf(t)'
        BY <3>1 DEF WindowOf, CallPoints, FramePoints, PastGate
      <3> QED
        BY <3>1, <3>2, <3>3, MoveWindow
    <2>2. ASSUME NEW t \in Threads, Dispatch(t) PROVE WindowInv'
      BY <2>2, PassWindow, LandWindow DEF Dispatch, FramePoints, PastGate
    <2>3. ASSUME NEW t \in Threads, DeliverToCallback(t) PROVE WindowInv'
      BY <2>3, LandWindow DEF DeliverToCallback, FramePoints, PastGate
    <2>4. ASSUME NEW t \in Threads, DeliverToLog(t) PROVE WindowInv'
      BY <2>4, PassWindow, LandWindow DEF DeliverToLog, FramePoints, PastGate
    <2>5. ASSUME NEW t \in Threads, Return(t) PROVE WindowInv'
      <3>1. /\ pc' = [pc EXCEPT ![t] = "idle"]
            /\ \A u \in Threads \ {t} : fate'[u] = fate[u] /\ window'[u] = window[u]
        BY <2>5 DEF Return, Step
      <3>2. WindowOf(t)'
        BY <3>1 DEF WindowOf, FramePoints, PastGate
      <3> QED
        BY <3>1, <3>2, MoveWindow
    <2>6. {"raw", "rejected", "none"} \cap Delivered = {}
      BY DEF Delivered, Fates
    <2>7. CASE CaptureRaw
      BY <2>6, <2>7, BeginWindow, PassWindow, LandWindow DEF CaptureRaw, FramePoints, PastGate
    <2>8. CASE CaptureAdmit
      BY <2>6, <2>8, PassWindow, LandWindow DEF CaptureAdmit, FramePoints, PastGate
    <2>9. CASE Emit
      BY <2>6, <2>9, BeginWindow, PassWindow, LandWindow DEF Emit, FramePoints, PastGate
    <2>10. CASE UNCHANGED vars
      BY <2>10 DEF vars, WindowInv
    <2> QED
      BY <1>2, <2>1, <2>2, <2>3, <2>4, <2>5, <2>7, <2>8, <2>9, <2>10 DEF Next, FrameStep
  <1> QED
    BY <1>2, <1>3, InForceGrows

\* A node whose reporting is None delivers nothing: each delivered frame has
\* met, while it was processed, a reporting that reports, or a gate that
\* overlapping recomputations had torn.
THEOREM SilentUnlessReporting == Spec => []DeliveredOnlyWhileReporting
  <1>1. WindowInv => DeliveredOnlyWhileReporting
    BY DEF WindowInv, DeliveredOnlyWhileReporting, Reporting
  <1> QED
    BY <1>1, InitTyped, NextTyped, InitGate, NextGate, InitReport, NextReport, NextWindow, PTL
    DEF Spec
=============================================================================
