CONSTANTS
    MaxCalls = 3
    MaxNoise = 0
SPECIFICATION Spec
INVARIANTS
    TrappedNeverReturned
