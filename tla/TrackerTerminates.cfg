\* Two requests at a time and no failing statement.
CONSTANTS
    User = {u1}
    Group = {g1}
    File = {f1}
    Worker = {w1, w2}
    Ops = {"/signup", "/login"}
    Nobody = Nobody
    Absent = Absent
    MaxRestarts = 0
    MaxDbFaults = 0
SPECIFICATION Spec
PROPERTY NeverTerminates
CHECK_DEADLOCK FALSE
