CONSTANTS
    MaxLen = 4
    Block = 2
    SignatureRoom = 3
SPECIFICATION Spec
INVARIANT ErrorsAreReturned
CHECK_DEADLOCK FALSE
