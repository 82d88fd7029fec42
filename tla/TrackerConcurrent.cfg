\* Two requests at a time: sessions, and groups that nobody leaves.
CONSTANTS
    User = {u1, u2}
    Group = {g1}
    File = {f1}
    Worker = {w1, w2}
    Ops = {"/login", "/logout", "/create_group", "/join_group"}
    Nobody = Nobody
    Absent = Absent
    MaxRestarts = 1
    MaxDbFaults = 0
SPECIFICATION Spec
SYMMETRY Interchangeable
INVARIANTS
    SessionBacked
    MemoryBacked
\* the bound on restarts leaves the tracker down
CHECK_DEADLOCK FALSE
