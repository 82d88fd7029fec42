\* One request at a time is enough for a group to outlive its owner's leaving.
CONSTANTS
    User = {u1, u2}
    Group = {g1}
    File = {f1}
    Worker = {w1}
    Ops = {"/signup", "/login", "/create_group", "/join_group", "/leave_group"}
    Nobody = Nobody
    Absent = Absent
    MaxRestarts = 0
    MaxDbFaults = 0
SPECIFICATION Spec
INVARIANT OwnerGoneGroupGone
