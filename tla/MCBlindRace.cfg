CONSTANTS
    Vacancies = {v1, v2}
    Identity <- SameRole
    MaxAuths = 1
    MaxFaults = 1
    Events = {"overlap", "change", "throw"}
    NoItem = NoItem
SPECIFICATION Spec
INVARIANTS OneItemPerRole
PROPERTIES NothingSentAfterStop
SYMMETRY Symmetry
