------------------------------ MODULE MCCapture ------------------------------
(* Small instances of the four parts of a capture that keep state from frame *)
(* to frame: the receive clock, the session, the reporting policy and the     *)
(* statistics.  They share no variable, so one behaviour exercises one of     *)
(* them, its focus, and the others stay where they began.                    *)
EXTENDS ReceiveClock, CsiSession, CsiPolicy, CsiStats, TLC

CONSTANTS
    Foci,           \* the parts exercised
    t1, t2, t3      \* transmitters

MCTransmitters == {t1, t2, t3}

\* Interchangeable: none is named, and no property is about liveness.
MCSymmetry == Permutations(MCTransmitters)

MCPolicies ==
    {[kind |-> "report", a |-> 0, b |-> 0, variation |-> FALSE],
     [kind |-> "threshold", a |-> 1, b |-> 1, variation |-> TRUE],
     [kind |-> "threshold", a |-> 0, b |-> 2, variation |-> FALSE],
     [kind |-> "decimate", a |-> 2, b |-> 0, variation |-> FALSE],
     [kind |-> "decimate", a |-> 3, b |-> 0, variation |-> FALSE],
     [kind |-> "none", a |-> 0, b |-> 0, variation |-> FALSE]}

VARIABLE focus

captureVars == <<focus, clockVars, sessionVars, policyAll, statsVars>>

MCInit ==
    /\ focus \in Foci
    /\ ClockInit /\ SessionInit /\ PolicyInit /\ StatsInit

\* A step of one part, when it is the focus.
OfClock(Step) ==
    focus = "clock" /\ Step /\ UNCHANGED <<focus, sessionVars, policyAll, statsVars>>
OfSession(Step) ==
    focus = "session" /\ Step /\ UNCHANGED <<focus, clockVars, policyAll, statsVars>>
OfPolicy(Step) ==
    focus = "policy" /\ Step /\ UNCHANGED <<focus, clockVars, sessionVars, statsVars>>
OfStats(Step) ==
    focus = "stats" /\ Step /\ UNCHANGED <<focus, clockVars, sessionVars, policyAll>>

\* The next-state relations of the parts, disjunct by disjunct.
ClockSteps ==
    \/ OfClock(RestartLast)
    \/ OfClock(RestartWraps)
    \/ OfClock(\E e \in 0 .. MaxEpoch, r \in Raw : Enter(e, r))
    \/ OfClock(Judge)
    \/ OfClock(Return64)

SessionSteps ==
    \/ OfSession(PassTime)
    \/ OfSession(\E withEpoch \in BOOLEAN : CallSetSession(withEpoch))
    \/ OfSession(StorePinned)
    \/ OfSession(StoreNoEpoch)
    \/ OfSession(StoreUnix)
    \/ OfSession(StoreAt)
    \/ OfSession(StoreEpochSet)
    \/ OfSession(StartRun)
    \/ OfSession(StoreSessionId)
    \/ OfSession(StoreStreamSeq)
    \/ OfSession(StorePending)
    \/ OfSession(EndRun)
    \/ OfSession(Capture)
    \/ OfSession(TakeAnnouncement)
    \/ OfSession(Emit)
    \/ OfSession(LoadEpochSet)
    \/ OfSession(ReadNow)
    \/ OfSession(LoadAt)
    \/ OfSession(LoadUnix)
    \/ OfSession(NextEnvelope)
    \/ OfSession(Enqueue)
    \/ OfSession(Overflow)
    \/ OfSession(Evict)
    \/ OfSession(Retry)
    \/ OfSession(Install)
    \/ OfSession(Receive)
    \/ OfSession(SetOverflow)

PolicySteps ==
    \/ OfPolicy(PassClock)
    \/ OfPolicy(\E p \in Policies : StoreA(p))
    \/ OfPolicy(StoreB)
    \/ OfPolicy(StoreVariation)
    \/ OfPolicy(StoreReset)
    \/ OfPolicy(StoreKind)
    \/ OfPolicy(StoreReports)
    \/ OfPolicy(\E m \in Items : BeginJudging(m))
    \/ OfPolicy(TakeReset)
    \/ OfPolicy(LoadKind)
    \/ OfPolicy(LoadLevel)
    \/ OfPolicy(Decide)
    \/ OfPolicy(Tick)
    \/ OfPolicy(Shape)

StatsSteps ==
    \/ OfStats(\E t \in Transmitters : Hear(t))
    \/ OfStats(\E t \in Transmitters : Misses(t))
    \/ OfStats(\E t \in Transmitters, retry \in BOOLEAN : HearAgain(t, retry))
    \/ OfStats(DrawClock)
    \/ OfStats(FoldFrame)
    \/ OfStats(RecordGap)
    \/ OfStats(SetOutput)
    \/ OfStats(HandleToggle)
    \/ OfStats(ResetCounters)
    \/ OfStats(ResetTable)

MCNext == ClockSteps \/ SessionSteps \/ PolicySteps \/ StatsSteps

MCSpec == MCInit /\ [][MCNext]_captureVars

CaptureTypeOK == ClockTypeOK /\ SessionTypeOK /\ PolicyTypeOK /\ StatsTypeOK
=============================================================================
