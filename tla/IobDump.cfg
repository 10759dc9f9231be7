\* Every packet length, offset and len in the bounds; iob_dump returns, so
\* the runs end.
CONSTANTS
    LineBytes = 4
    MaxPkt = 10
    MaxLen = 12
SPECIFICATION Spec
CHECK_DEADLOCK FALSE
INVARIANT NoUninitRead
INVARIANT DumpShowsRange
