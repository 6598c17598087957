CONSTANTS
    s1 = s1  s2 = s2  s3 = s3  None = None
    Sessions = {s1, s2, s3}
    MaxRecords = 2
    MaxLines = 2
    MaxEvents = 3
    MaxCrashes = 2
    MaxFaults = 1
SPECIFICATION Spec
INVARIANTS SequencesIncrease
CHECK_DEADLOCK FALSE
