SPECIFICATION Spec
CONSTANTS
    cb1 = cb1
    NULL = NULL
    Callbacks <- MCCallbacks
    AppCalls <- MCAppCalls
    CallbackCalls <- MCCallbackCalls
    Parallel = TRUE
INVARIANTS
    TypeOK
    GateIsConjunction
    CalmFramesFollowConfiguration
    DeliveredOnlyWhileReporting
    ModeImpliesCallback
