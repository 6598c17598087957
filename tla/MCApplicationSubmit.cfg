CONSTANTS
    a1 = a1  a2 = a2  NoAttempt = NoAttempt
    Attempts = {a1}
    Supported = {a1}
    MaxRuns = 1
    MaxSubmits = 2
    MaxFaults = 1
    Events = {"crash", "lost", "unqueued", "hold", "timer", "window", "queue", "hasty"}
SPECIFICATION Spec
INVARIANTS SubmitsAreExclusive AppliedIsProtected
CHECK_DEADLOCK FALSE
