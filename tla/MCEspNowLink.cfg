SPECIFICATION Spec
CONSTANTS
    ini = ini
    res = res
    Anyone = Anyone
    NoConfig = NoConfig
    Initiators <- MCInitiators
    Responders <- MCOneResponder
    Configs <- MCConfigs
    PoolCapacity = 1
    PeersCapacity = 1
    SeqModulus = 3
    StreakMax = 4
INVARIANTS
    TypeOK
    NoPhantomMisses
    TakesOverFromSilentInitiator
PROPERTIES
    NeverTakesOverEarly
    PairsUp
    SomeoneReports
