\* One seeder among the neighbours: a priority above one counts it twice.
CONSTANTS
    NPieces = 3
    Neighbour = {n1, n2}
    Seeder = {n1}
    OpenDigest = {}
    DiskMayFail = FALSE
    NoPiece = NoPiece
SPECIFICATION Spec
INVARIANT PriorityCountsHolders
CHECK_DEADLOCK FALSE
