\* Two connections and two pieces, the last one short; the disk may fail.
CONSTANTS
    Conn = {c1, c2}
    NUnits = 3
    UnitsPerPiece = 2
    DiskMayFail = TRUE
    NoConn = NoConn
SPECIFICATION FairSpec
INVARIANTS
    TypeOK
    NoShortRead
    LengthRight
    ExactUnlessRefilled
    RefusedOnlyIfMoved
PROPERTY
    EveryRequestAnswered
