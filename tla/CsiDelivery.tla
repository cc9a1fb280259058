---------------------------- MODULE CsiDelivery ----------------------------
(***************************************************************************)
(* The delivery state machine of csi/delivery.rs: the process-wide atomics  *)
(* that decide where a measurement goes, the public functions that store    *)
(* to them, the Wi-Fi CSI callback (capture_csi_info) and emit(), which     *)
(* read them, and the reset at the end of a run.                            *)
(*                                                                          *)
(* Two threads touch the atomics.  "app" is the Embassy executor: its tasks *)
(* do not preempt each other between awaits, and no function modelled here  *)
(* awaits while it stores, so it makes one call at a time.  "wifi" is the   *)
(* radio driver's task, which runs the CSI callback and, inside it, the     *)
(* user's callback.  One step is one atomic access.  With Parallel = FALSE  *)
(* the Wi-Fi task preempts the executor at any access and runs to           *)
(* completion, as on the single-core chips; with Parallel = TRUE the two    *)
(* interleave freely, as when the executor runs on the second core.         *)
(*                                                                          *)
(* Left to other modules: the attribution filter and the reporting policy   *)
(* (here a frame may be rejected between the gate and the dispatch, for     *)
(* either reason or for being oversize) and what happens inside the async   *)
(* queue (CsiQueue).                                                        *)
(*                                                                          *)
(* A user callback may call the API from the Wi-Fi task, and so a second    *)
(* apply_publish_gate may run amid the executor's.  The history variable    *)
(* `torn' keeps track of that: the gate is only as good as the last         *)
(* recomputation that no other one overlapped.                              *)
(***************************************************************************)
EXTENDS Naturals

CONSTANTS
    Callbacks,      \* the functions a user may register
    NULL,           \* the null pointer
    AppCalls,       \* the API calls the executor's tasks make
    CallbackCalls,  \* the API calls a user callback makes before it returns
    Parallel        \* whether the executor runs beside the Wi-Fi task

Threads == {"app", "wifi"}

Modes == {"off", "callback", "async"}

\* Reporting, as far as delivery tells its values apart: nothing is
\* reported, or something is, to the host or to on-device consumers only.
Reportings == {"none", "host", "local"}

\* Where a frame may end, besides a callback; "flying" while it is undecided.
Fates == {"none", "rejected", "raw", "queue", "log", "flying"}

\* Every call of the public API, with its argument.
ApiCalls ==
    [fn : {"set_csi_logging_enabled", "set_csi_output_enabled"}, arg : BOOLEAN]
    \cup [fn : {"set_csi_delivery_mode"}, arg : Modes]
    \cup [fn : {"set_csi_callback", "set_csi_raw_callback"}, arg : Callbacks]
    \cup [fn : {"set_runtime_reporting"}, arg : Reportings]
    \cup [fn : {"clear_csi_callback", "next_csi_packet", "reset"}, arg : {NULL}]

ASSUME CallsAssumption == AppCalls \subseteq ApiCalls /\ CallbackCalls \subseteq ApiCalls
ASSUME ParallelAssumption == Parallel \in BOOLEAN
ASSUME CallbacksAssumption ==
    /\ NULL \notin Callbacks
    /\ Callbacks \cap Fates = {}

VARIABLES
    mem,    \* the atomics
    pc,     \* pc[t]: the access thread t performs next
    call,   \* call[t]: the API call t is in, NoRequest outside of one
    known,  \* known[t]: the conjunction so far, inside apply_publish_gate
    fate,   \* fate[t]: where t's frame went, "flying" while it is undecided
    calm,   \* calm[t]: no API call was or has been in progress since t's frame began
    rep,    \* history: the reporting set by the last set_runtime_reporting
    window, \* history: the reportings in force at some moment of t's frame,
            \* and "torn" if a torn gate let the frame through
    torn    \* history: whether two recomputations of the gate overlap
            \* ("amid"), or did so last ("stale")

vars == <<mem, pc, call, known, fate, calm, rep, window, torn>>

frames == <<fate, calm, window>>

-----------------------------------------------------------------------------
(* The atomics, with the initial values of their statics. *)

InitMem ==
    [intent |-> FALSE, reports |-> FALSE, output |-> TRUE, gate |-> FALSE,
     inlineLog |-> FALSE, local |-> FALSE,
     mode |-> "off", callback |-> NULL, raw |-> NULL]

NoRequest == [fn |-> "reset", arg |-> NULL]

Init ==
    /\ mem = InitMem
    /\ pc = [t \in Threads |-> "idle"]
    /\ call = [t \in Threads |-> NoRequest]
    /\ known = [t \in Threads |-> FALSE]
    /\ fate = [t \in Threads |-> "none"]
    /\ calm = [t \in Threads |-> FALSE]
    /\ rep = "none"
    /\ window = [t \in Threads |-> {}]
    /\ torn = "no"

\* The accesses between a store to an input of the gate and the store to the
\* gate that answers it.  In reset, the store to the gate comes before that
\* to the last input.
Recomputing ==
    {"gate_intent", "gate_reports", "gate_output", "gate_store", "reset_gate", "reset_output"}

\* What thread t's step makes of `torn': a recomputation that begins amid
\* another's tears the gate, and the next one that nothing overlaps mends it.
Tear(t, from, to) ==
    LET overlap == \E u \in Threads \ {t} : pc[u] \in Recomputing
    IN  torn' = IF overlap /\ to \in Recomputing THEN "amid"
                ELSE IF ~overlap /\ from \in Recomputing /\ to \notin Recomputing
                THEN IF torn = "amid" THEN "stale" ELSE "no"
                ELSE torn

\* The Wi-Fi task has the higher priority.
Turn(t) == Parallel \/ t = "wifi" \/ pc["wifi"] = "idle"

\* Thread t, at access `from', goes on to access `to'.
Step(t, from, to) ==
    /\ pc[t] = from
    /\ Turn(t)
    /\ pc' = [pc EXCEPT ![t] = to]
    /\ Tear(t, from, to)

\* A step of thread t's API call that goes on to access `to', or returns.
ApiAccess(t, from, to) ==
    /\ Step(t, from, to)
    /\ call' = IF to = "idle" THEN [call EXCEPT ![t] = NoRequest] ELSE call
    /\ UNCHANGED frames

\* A step of an API call that stores, leaving the atomics as m.
Store(t, from, to, m) ==
    /\ ApiAccess(t, from, to)
    /\ mem' = m
    /\ UNCHANGED <<known, rep>>

\* The accesses of a thread that is not inside an API call.
FramePoints ==
    {"capture_raw", "capture_gate", "capture_admit", "emit_gate", "emit_admit",
     "dispatch", "load_callback", "load_inline", "load_local", "landed"}

\* The accesses of a thread inside an API call.  The first of each call bears
\* the call's name.
CallPoints ==
    {"set_csi_logging_enabled", "logging_intent", "set_csi_delivery_mode",
     "set_csi_callback", "callback_mode", "clear_csi_callback", "clear_pointer",
     "set_csi_raw_callback", "open_intent", "set_csi_output_enabled",
     "set_runtime_reporting", "reporting_gate", "next_csi_packet", "lazy_mode",
     "reset", "reset_intent", "reset_gate", "reset_output", "reset_mode", "reset_pointer",
     "gate_intent", "gate_reports", "gate_output", "gate_store"}

InCall(t) == pc[t] \in CallPoints
NoCall == \A t \in Threads : ~InCall(t)

-----------------------------------------------------------------------------
(* The public functions, one step per store, in the order of the source.    *)

\* set_csi_logging_enabled: pairs the publish intent with the logging flag.
SetCsiLoggingEnabled(t) ==
    \/ Store(t, "set_csi_logging_enabled", "logging_intent",
             [mem EXCEPT !.inlineLog = call[t].arg])
    \/ Store(t, "logging_intent", "gate_intent", [mem EXCEPT !.intent = call[t].arg])

SetCsiDeliveryMode(t) ==
    Store(t, "set_csi_delivery_mode", "idle", [mem EXCEPT !.mode = call[t].arg])

\* Mutant: the mode is flipped before the pointer is stored.
SetCsiCallbackModeFirst(t) ==
    \/ Store(t, "set_csi_callback", "callback_mode", [mem EXCEPT !.mode = "callback"])
    \/ Store(t, "callback_mode", "open_intent", [mem EXCEPT !.callback = call[t].arg])

\* set_csi_callback: the pointer is stored before the mode is flipped.
SetCsiCallback(t) ==
    \/ Store(t, "set_csi_callback", "callback_mode", [mem EXCEPT !.callback = call[t].arg])
    \/ Store(t, "callback_mode", "open_intent", [mem EXCEPT !.mode = "callback"])

\* Mutant: the null pointer is stored to the mode's cell.
ClearCsiCallbackSwapped(t) ==
    \/ Store(t, "clear_csi_callback", "clear_pointer", [mem EXCEPT !.mode = NULL])
    \/ Store(t, "clear_pointer", "idle", [mem EXCEPT !.callback = NULL])

ClearCsiCallback(t) ==
    \/ Store(t, "clear_csi_callback", "clear_pointer", [mem EXCEPT !.mode = "off"])
    \/ Store(t, "clear_pointer", "idle", [mem EXCEPT !.callback = NULL])

SetCsiRawCallback(t) ==
    Store(t, "set_csi_raw_callback", "open_intent", [mem EXCEPT !.raw = call[t].arg])

\* The store of `true' to USER_PUBLISH_INTENT that opens for a new consumer.
OpenIntent(t) == Store(t, "open_intent", "gate_intent", [mem EXCEPT !.intent = TRUE])

\* Mutant: the flag is stored and no path reads it, as before release 0.11.
SetCsiOutputNoGate(t) ==
    Store(t, "set_csi_output_enabled", "idle", [mem EXCEPT !.output = call[t].arg])

SetCsiOutputEnabled(t) ==
    Store(t, "set_csi_output_enabled", "gate_intent", [mem EXCEPT !.output = call[t].arg])

\* Mutant: the reporting changes and the gate is not recomputed.
SetRuntimeReportingNoGate(t) ==
    \/ Store(t, "set_runtime_reporting", "reporting_gate",
             [mem EXCEPT !.local = call[t].arg = "local"])
    \/ /\ ApiAccess(t, "reporting_gate", "idle")
       /\ mem' = [mem EXCEPT !.reports = call[t].arg # "none"]
       /\ rep' = call[t].arg
       /\ UNCHANGED known

\* set_runtime_reporting.  The policy's own atomics, stored between these
\* two, are read by the admission that this module leaves open.
SetRuntimeReporting(t) ==
    \/ Store(t, "set_runtime_reporting", "reporting_gate",
             [mem EXCEPT !.local = call[t].arg = "local"])
    \/ Store(t, "reporting_gate", "gate_intent", [mem EXCEPT !.reports = call[t].arg # "none"])

\* next_csi_packet, up to the poll of the queue: switches to the async path
\* only when no path is active.
NextCsiPacket(t) ==
    \/ /\ ApiAccess(t, "next_csi_packet", IF mem.mode = "off" THEN "lazy_mode" ELSE "idle")
       /\ UNCHANGED <<mem, known, rep>>
    \/ Store(t, "lazy_mode", "open_intent", [mem EXCEPT !.mode = "async"])

\* reset, which reset_globals calls at the end of a run.  It does not touch
\* CSI_RAW_CALLBACK, REPORTS or REPORT_LOCAL.
Reset(t) ==
    \/ Store(t, "reset", "reset_intent", [mem EXCEPT !.inlineLog = FALSE])
    \/ Store(t, "reset_intent", "reset_gate", [mem EXCEPT !.intent = FALSE])
    \/ Store(t, "reset_gate", "reset_output", [mem EXCEPT !.gate = FALSE])
    \/ Store(t, "reset_output", "reset_mode", [mem EXCEPT !.output = TRUE])
    \/ Store(t, "reset_mode", "reset_pointer", [mem EXCEPT !.mode = "off"])
    \/ Store(t, "reset_pointer", "idle", [mem EXCEPT !.callback = NULL])

\* A load of one input inside apply_publish_gate; FALSE ends the conjunction.
LoadInput(t, from, to, value) ==
    /\ ApiAccess(t, from, IF value THEN to ELSE "gate_store")
    /\ known' = [known EXCEPT ![t] = value]
    /\ UNCHANGED <<mem, rep>>

\* apply_publish_gate: three loads, then the store of their conjunction.  The
\* reporting has changed once the gate has, unless a later
\* set_runtime_reporting stored REPORTS over this one's.
ApplyPublishGate(t) ==
    \/ LoadInput(t, "gate_intent", "gate_reports", mem.intent)
    \/ LoadInput(t, "gate_reports", "gate_output", mem.reports)
    \/ LoadInput(t, "gate_output", "gate_store", mem.output)
    \/ /\ ApiAccess(t, "gate_store", "idle")
       /\ mem' = [mem EXCEPT !.gate = known[t]]
       /\ known' = [known EXCEPT ![t] = FALSE]
       /\ rep' = IF /\ call[t].fn = "set_runtime_reporting"
                    /\ (call[t].arg # "none") = mem.reports
                 THEN call[t].arg ELSE rep

\* The reportings in force: while one is being set, the old one and the new.
InForce ==
    {rep} \cup {call[t].arg : t \in {u \in Threads :
                    InCall(u) /\ call[u].fn = "set_runtime_reporting"}}

\* Thread t calls c: the executor between its tasks' steps, or a user
\* callback, on whichever thread runs it.
Call(t, c) ==
    /\ \/ t = "app" /\ c \in AppCalls /\ Step(t, "idle", c.fn) /\ UNCHANGED fate
       \/ /\ fate[t] \in Callbacks \cup {"raw"} /\ c \in CallbackCalls /\ Step(t, "landed", c.fn)
          /\ fate' = [fate EXCEPT ![t] = "none"]
    /\ call' = [call EXCEPT ![t] = c]
    /\ calm' = [u \in Threads |-> FALSE]
    /\ window' = [u \in Threads |->
                    IF pc[u] \in FramePoints /\ u # t /\ c.fn = "set_runtime_reporting"
                    THEN window[u] \cup {c.arg} ELSE IF u = t THEN {} ELSE window[u]]
    /\ UNCHANGED <<mem, known, rep>>

-----------------------------------------------------------------------------
(* A frame's way through the pipeline. *)

\* A frame begins on thread t, at access `to'.
Begin(t, to) ==
    /\ Step(t, "idle", to)
    /\ fate' = [fate EXCEPT ![t] = "flying"]
    /\ calm' = [calm EXCEPT ![t] = NoCall]
    /\ window' = [window EXCEPT ![t] = InForce]
    /\ UNCHANGED <<mem, call, known, rep>>

\* The frame passes an access without being decided.
Pass(t, from, to) ==
    /\ Step(t, from, to)
    /\ UNCHANGED <<mem, call, known, rep>> /\ UNCHANGED frames

\* The frame ends at an access, going to f.
Land(t, from, f) ==
    /\ Step(t, from, "landed")
    /\ fate' = [fate EXCEPT ![t] = f]
    /\ UNCHANGED <<mem, call, known, calm, rep, window>>

\* Mutant: the raw fast path is missing its early return.
CaptureRawFallsThrough ==
    \/ Begin("wifi", "capture_raw")
    \/ Pass("wifi", "capture_raw", "capture_gate")

\* capture_csi_info, up to the gate: a raw callback takes the frame first.
CaptureRaw ==
    \/ Begin("wifi", "capture_raw")
    \/ mem.raw # NULL /\ Land("wifi", "capture_raw", "raw")
    \/ mem.raw = NULL /\ Pass("wifi", "capture_raw", "capture_gate")

\* The frame passes the gate.
PassGate(t, from, to) ==
    /\ mem.gate
    /\ Step(t, from, to)
    /\ window' = [window EXCEPT ![t] = IF torn = "no" THEN @ ELSE @ \cup {"torn"}]
    /\ UNCHANGED <<mem, call, known, fate, calm, rep>>

\* capture_csi_info, from the gate to the dispatch: the attribution filter,
\* the reporting policy and the packet build may each reject the frame.
CaptureAdmit ==
    \/ PassGate("wifi", "capture_gate", "capture_admit")
    \/ ~mem.gate /\ Land("wifi", "capture_gate", "none")
    \/ Pass("wifi", "capture_admit", "dispatch")
    \/ Land("wifi", "capture_admit", "rejected")

\* emit, called by a task of the executor.
Emit ==
    \/ Begin("app", "emit_gate")
    \/ PassGate("app", "emit_gate", "emit_admit")
    \/ ~mem.gate /\ Land("app", "emit_gate", "none")
    \/ Pass("app", "emit_admit", "dispatch")
    \/ Land("app", "emit_admit", "rejected")

\* deliver: one load of the mode, one path.
Dispatch(t) ==
    \/ mem.mode = "callback" /\ Pass(t, "dispatch", "load_callback")
    \/ mem.mode = "async" /\ Land(t, "dispatch", "queue")
    \/ mem.mode = "off" /\ Pass(t, "dispatch", "load_inline")

\* deliver's callback path: a null pointer drops the frame.
DeliverToCallback(t) ==
    Land(t, "load_callback", IF mem.callback = NULL THEN "none" ELSE mem.callback)

\* deliver's inline-log path, unless the report is for on-device consumers.
DeliverToLog(t) ==
    \/ mem.inlineLog /\ Pass(t, "load_inline", "load_local")
    \/ ~mem.inlineLog /\ Land(t, "load_inline", "none")
    \/ Land(t, "load_local", IF mem.local THEN "none" ELSE "log")

\* The frame's handler returns.
Return(t) ==
    /\ Step(t, "landed", "idle")
    /\ fate' = [fate EXCEPT ![t] = "none"]
    /\ calm' = [calm EXCEPT ![t] = FALSE]
    /\ window' = [window EXCEPT ![t] = {}]
    /\ UNCHANGED <<mem, call, known, rep>>

-----------------------------------------------------------------------------
ApiStep(t) ==
    \/ SetCsiLoggingEnabled(t) \/ SetCsiDeliveryMode(t) \/ SetCsiCallback(t)
    \/ ClearCsiCallback(t) \/ SetCsiRawCallback(t) \/ SetCsiOutputEnabled(t)
    \/ SetRuntimeReporting(t) \/ NextCsiPacket(t) \/ Reset(t)
    \/ OpenIntent(t) \/ ApplyPublishGate(t)

FrameStep(t) ==
    \/ Dispatch(t) \/ DeliverToCallback(t) \/ DeliverToLog(t) \/ Return(t)

Next ==
    \/ \E t \in Threads, c \in AppCalls \cup CallbackCalls : Call(t, c)
    \/ \E t \in Threads : ApiStep(t) \/ FrameStep(t)
    \/ CaptureRaw \/ CaptureAdmit \/ Emit

Spec == Init /\ [][Next]_vars
-----------------------------------------------------------------------------
(* What the machine promises. *)

TypeOK ==
    /\ mem \in [intent : BOOLEAN, reports : BOOLEAN, output : BOOLEAN, gate : BOOLEAN,
               inlineLog : BOOLEAN, local : BOOLEAN, mode : Modes,
               callback : Callbacks \cup {NULL}, raw : Callbacks \cup {NULL}]
    /\ pc \in [Threads -> {"idle"} \cup FramePoints \cup CallPoints]
    /\ call \in [Threads -> ApiCalls]
    /\ known \in [Threads -> BOOLEAN]
    /\ fate \in [Threads -> Callbacks \cup Fates]
    /\ calm \in [Threads -> BOOLEAN]
    /\ rep \in Reportings
    /\ window \in [Threads -> SUBSET (Reportings \cup {"torn"})]
    /\ torn \in {"no", "amid", "stale"}

\* The three inputs of the gate.
Open == mem.intent /\ mem.reports /\ mem.output

\* The cached gate is the conjunction of its inputs whenever no API call is
\* under way and the last recomputation ran by itself, whichever calls were
\* made before, from the executor or from a user callback, and however their
\* accesses interleaved (CSI_PUBLISH_ENABLED and apply_publish_gate).
GateIsConjunction == NoCall /\ torn = "no" => mem.gate = Open

\* The comment at CSI_PUBLISH_ENABLED: the gate is a cached AND of the three
\* inputs, "recomputed by apply_publish_gate whenever one of them moves".  It
\* fails: a user callback that preempts apply_publish_gate between its loads
\* and its store has its own recomputation overwritten.
GateFollowsItsInputs == NoCall => mem.gate = Open

\* Where the configuration sends a frame of thread t that is not rejected: a
\* node that has no consumer, reports nothing or has its output off delivers
\* to nobody.  Only the vendor callback has the raw fast path.
Configured(t) ==
    IF ~Open THEN "none"
    ELSE IF t = "wifi" /\ mem.raw # NULL THEN "raw"
    ELSE CASE mem.mode = "async" -> "queue"
           [] mem.mode = "callback" -> IF mem.callback = NULL THEN "none" ELSE mem.callback
           [] mem.mode = "off" -> IF mem.inlineLog /\ ~mem.local THEN "log" ELSE "none"

\* The raw fast path returns before the gate is loaded, and reset does not
\* clear the raw callback: it is called in a node that was reset, or has its
\* output off, whatever reset's comment ("the callback short-circuits") and
\* the docs of set_csi_output_enabled ("nothing is ... handed to a callback")
\* say.
PastTheGate(t) == fate[t] = "raw" /\ ~Open

\* A frame that no API call overlaps, under a gate that is not torn, ends
\* where the inputs themselves send it, never where a stale gate, mode or
\* pointer would: the promise that capture_csi_info's and deliver's separate
\* loads keep.  The frames that a raw callback takes while the inputs are not
\* all open are the exception: those docs are wrong about them (PastTheGate).
CalmFramesFollowConfiguration ==
    \A t \in Threads : pc[t] = "landed" /\ calm[t] /\ torn = "no" =>
        \/ fate[t] = Configured(t)
        \/ fate[t] = "rejected" /\ Open /\ Configured(t) # "raw"
        \/ PastTheGate(t)

\* A frame reaches a consumer only if some reporting in force while it was
\* processed reports, or the gate that let it through was torn: a node
\* switched to Reporting::None (set_runtime_reporting) falls silent by the
\* time the call returns, whatever consumers come and go.
DeliveredOnlyWhileReporting ==
    \A t \in Threads :
        pc[t] = "landed" /\ fate[t] \in Callbacks \cup {"queue", "log"} =>
            window[t] \cap {"host", "local", "torn"} # {}

\* The Wi-Fi callback never finds the mode `callback' with a null pointer,
\* if nobody selects that mode by hand: the order of the stores in
\* set_csi_callback, clear_csi_callback and reset.
ModeImpliesCallback == mem.mode = "callback" => mem.callback # NULL
=============================================================================
