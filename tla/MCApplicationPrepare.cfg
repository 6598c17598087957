CONSTANTS
    a1 = a1  a2 = a2  NoAttempt = NoAttempt
    Attempts = {a1, a2}
    Supported = {a1}
    MaxRuns = 2
    MaxSubmits = 1
    MaxFaults = 1
    Events = {"crash", "respawn"}
SPECIFICATION FairSpec
INVARIANTS LeaseIsActive NeverStranded OnePackage
PROPERTIES LeaseComesBack
CHECK_DEADLOCK FALSE
