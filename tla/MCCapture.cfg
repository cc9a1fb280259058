\* The clock, the session, the policy and the statistics, one at a time.
SPECIFICATION MCSpec
CONSTANTS
    Foci = {"clock", "session", "policy", "stats"}
    t1 = t1
    t2 = t2
    t3 = t3
    Half = 1
    MaxEpoch = 2
    Depth = 1
    WallOffset = 5
    MaxNow = 1
    MaxRuns = 2
    Emits = TRUE
    MaxFrames = 3
    MaxCalls = 2
    Policies <- MCPolicies
    Layouts = {1}
    MaxScore = 1
    MaxTime = 1
    MaxChanges = 2
    MaxJudged = 4
    Transmitters <- MCTransmitters
    TrackedTx = 2
    SeqModulus = 8
    GapLimit = 4
    FirstSeq = 6
    MaxSent = 4
    MaxToggles = 2
    MaxRestarts = 1
SYMMETRY MCSymmetry
INVARIANTS
    CaptureTypeOK
    TimestampsAreTrue
    AnchorIsTrue
    
    
    PolicyIsFollowed
    GapsAreUnrecordedNumbers
CHECK_DEADLOCK FALSE
