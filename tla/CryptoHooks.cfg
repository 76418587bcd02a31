CONSTANTS
    MaxLen = 4
    Block = 2
    SignatureRoom = 3
SPECIFICATION Spec
INVARIANTS
    TypeOK
    WholeResult
    NeverOverruns
    HooksAgree
    FailuresCarryStatus
    FailuresForeseen
PROPERTY ImplementsHookContract
CHECK_DEADLOCK FALSE
