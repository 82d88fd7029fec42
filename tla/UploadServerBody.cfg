\* The same peer, seen by two connections at once.
CONSTANTS
    Conn = {c1, c2}
    NUnits = 3
    UnitsPerPiece = 2
    DiskMayFail = FALSE
    NoConn = NoConn
SPECIFICATION Spec
INVARIANT EveryConnectionExact
