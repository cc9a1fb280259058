SPECIFICATION Spec
CONSTANTS
    ini = ini
    res = res
    Anyone = Anyone
    NoConfig = NoConfig
    Initiators <- MCInitiators
    Responders <- MCOneResponder
    Configs <- MCAutomatic
    PoolCapacity = 1
    PeersCapacity = 1
    SeqModulus = 2
    StreakMax = 3
PROPERTY
    DropOutMovesDownlink
