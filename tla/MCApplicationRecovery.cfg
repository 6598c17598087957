CONSTANTS
    a1 = a1  a2 = a2  NoAttempt = NoAttempt
    Attempts = {a1, a2}
    Supported = {}
    MaxRuns = 2
    MaxSubmits = 0
    MaxFaults = 1
    Events = {"respawn", "queue"}
SPECIFICATION Spec
INVARIANTS AppliedIsProtected
CHECK_DEADLOCK FALSE
