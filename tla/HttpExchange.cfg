\* A buffer that may hold the end of one message and the start of the next, and
\* faults enough for a client to run ahead of the server.
CONSTANTS
    Chunk = 4
    BodyLength = 1
    MaxRounds = 3
    MaxFaults = 3
SPECIFICATION Spec
\* The client asks a bounded number of times: the system stops.
CHECK_DEADLOCK FALSE
INVARIANTS TypeOK Faithful InStep CrashOnlyIfDisturbed AtMostOnce
PROPERTY ExchangeEnds
