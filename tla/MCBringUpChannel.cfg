\* The bring-up alone: does a run come up on the channel its config asks for?
SPECIFICATION MCSpec
CONSTANTS
    Foci = {"bringup"}
    t1 = t1
    t2 = t2
    CsiCapacity = 2
    TextCapacity = 2
    Lengths = {106, 114, 128, 228, 234, 256, 376, 380, 384, 468, 490, 612, 613}
    HeaderLengths = {23, 24}
    Sources <- MCSources
    AnySource = AnySource
    WireSetups <- MCWireSetups
    MaxCalls = 3
    Channels5 = {36}
    MaxRuns = 2
INVARIANTS
    RunsOnItsChannel
CHECK_DEADLOCK FALSE
