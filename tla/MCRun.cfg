\* Two callers race the run, its overflow and each other.
CONSTANTS
    c1 = c1
    c2 = c2
    Callers = {c1, c2}
    MaxBufferedItems = 2
    MaxPerLine = 3
    MaxLines = 3
SPECIFICATION FairSpec
INVARIANTS ConfirmedMeansGone
PROPERTIES ImplementsTerminatedStream CancelIsAnswered CancelledRunEnds
CHECK_DEADLOCK FALSE
