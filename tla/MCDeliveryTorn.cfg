SPECIFICATION Spec
CONSTANTS
    cb1 = cb1
    NULL = NULL
    Callbacks <- MCCallbacks
    AppCalls <- MCAppCalls
    CallbackCalls <- MCCallbackCalls
    Parallel = FALSE
INVARIANT
    GateFollowsItsInputs
