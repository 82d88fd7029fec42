\* One request at a time, every resource, one restart and one failing statement.
CONSTANTS
    User = {u1, u2}
    Group = {g1}
    File = {f1}
    Worker = {w1}
    Ops = {"/signup", "/login", "/logout", "/create_group",
           "/join_group", "/leave_group", "/share_file", "/peers"}
    Nobody = Nobody
    Absent = Absent
    MaxRestarts = 1
    MaxDbFaults = 1
SPECIFICATION FairSpec
INVARIANTS
    TypeOK
    TablesAgree
    NoAnonymousActs
PROPERTY
    EveryRequestEnds
\* the bound on restarts leaves the tracker down
CHECK_DEADLOCK FALSE
