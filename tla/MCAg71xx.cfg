\* All chips: traffic, link changes, hangs, short memory, closing.
SPECIFICATION Spec
CONSTANTS
    RxSize = 2
    Wrap = 16
    DsPerPkt = 2
    Weight = 1
    Envs <- Surroundings
    None = None
INVARIANTS TypeOK FillNeverFails SegmentsLong RxInStep BuffersThere PollOrInterrupt
PROPERTIES TxQueueSpec QueueWakes Received OverflowEnds
CHECK_DEADLOCK FALSE
