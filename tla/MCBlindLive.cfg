CONSTANTS
    Vacancies = {v1}
    Identity <- SameRole
    MaxAuths = 2
    MaxFaults = 1
    Events = {"crash", "respawn", "throw", "hang"}
    NoItem = NoItem
SPECIFICATION FairSpec
INVARIANTS OneApplicationPerRole SentIsShown StoppedIsQuiet
PROPERTIES SendingEnds ItemsMoveOn
