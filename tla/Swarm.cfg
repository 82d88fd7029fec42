\* A seeder and two leechers: one asks while the other serves what it has.
\* The leechers are alike: it is enough that one of them is started again.
CONSTANTS
    Peer = {s, l, m}
    Seeder = {s}
    NPieces = 2
    Returning = {s, l}
    MaxRestarts = 1
    MaxFaults = 1
SPECIFICATION Spec
\* Starts run out: the system stops.
CHECK_DEADLOCK FALSE
INVARIANTS TypeOK NothingLostToSeeder ServingIsReachable ServingIsListed
PROPERTIES LeecherFindsSeeder CompleteFromSeeder
