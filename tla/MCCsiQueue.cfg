SPECIFICATION Spec
CONSTANTS
    wifi = wifi
    Producers <- MCOneProducer
    Capacity = 2
    MaxFrames = 6
INVARIANTS
    TypeOK
    NoLostWakeup
    DropsAreCounted
PROPERTIES
    DropOldestKeepsNewest
    ImplementsLossyFifo
