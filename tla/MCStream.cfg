\* Two connections to a session that overruns both caps of its history; a
\* replay, a burst and the terminal event can each overrun a queue.
CONSTANTS
    c1 = c1  c2 = c2
    Connections = {c1, c2}
    Sizes = {1, 2}
    MaxEvents = 2
    MaxStoredEvents = 2
    MaxStoredBytes = 3
    MaxQueuedEvents = 2
    MaxQueuedBytes = 2
SPECIFICATION FairSpec
INVARIANTS HistoryIsIndexed FramesInOrder NobodyHangs
PROPERTIES ImplementsTerminatedStream StreamsEnd
CHECK_DEADLOCK FALSE
