CONSTANTS
    Calls = {c1, c2, c3, c4}
    Workspaces = {w1, w2}
    Modes = {"read", "write"}
    None = None
SPECIFICATION Spec
INVARIANTS WriterExcludesEverything NoGhostLease
PROPERTIES ImplementsExclusiveLease
CHECK_DEADLOCK FALSE
