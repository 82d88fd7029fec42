\* Two threads and three pieces: the least in which one thread can be between
\* two steps while the other empties the set or runs a whole callback.
CONSTANTS
    NPieces = 3
    Neighbour = {n1, n2}
    Seeder = {n1}
    OpenDigest = {1}
    DiskMayFail = TRUE
    NoPiece = NoPiece
SPECIFICATION FairSpec
INVARIANTS
    TypeOK
    PieceConservation
    KeysStable
    FetchedIsGenuine
    AtMostOneTorn
    WedgedWhenDrained
PROPERTIES
    RarestFirst
    ThreadsFinish
    SoundNeighboursComplete
    TransferSpec
\* the threads end when the set is empty
CHECK_DEADLOCK FALSE
