------------------------------ MODULE Tracker ------------------------------
(***************************************************************************)
(* The tracker (tracker.cpp over sqlite_client.cpp): users, groups and the *)
(* files shared in them.  What it knows is kept twice, in the tables of a  *)
(* database and in maps in memory that the constructor fills from them.    *)
(*                                                                         *)
(* http_server runs the handlers of its connections in threads of their    *)
(* own and nothing locks the maps: an action is one statement of SQL or    *)
(* one use of a map, so that handlers interleave between any two of them.  *)
(* A use of a map is atomic here, and where a handler looks into the same  *)
(* maps several times on end with nothing but its answer in between        *)
(* (UidNow, ServerAddress, ListPeers), those uses are one; what two uses   *)
(* at the same instant do to the map itself is left out.                   *)
(*                                                                         *)
(* A token stands for the user it was generated for (generate_token).      *)
(***************************************************************************)
EXTENDS Integers, FiniteSets

CONSTANTS User, Group, File,
          Worker,       \* the connection threads of http_server
          Ops,          \* the resources that the clients ask for
          Nobody,       \* the empty user id, ""
          Absent,       \* no entry in a map
          MaxRestarts,  \* bound: how often the tracker is started again
          MaxDbFaults   \* bound: how many statements of SQL fail (I/O, busy)

Uid == User \cup {Nobody}

Resource == {"/signup", "/login", "/logout", "/create_group", "/join_group",
             "/leave_group", "/share_file", "/peers"}

ASSUME TrackerAssumption ==
    /\ Ops \subseteq Resource
    /\ Nobody \notin User
    /\ Absent \notin Uid
    /\ IsFiniteSet(Worker)
    /\ MaxRestarts \in Nat
    /\ MaxDbFaults \in Nat

VARIABLES
    \* the database
    userTable,    \* USER: the users signed up
    tokenTable,   \* TOKEN: the users that have a row with their token
    groupTable,   \* GROUP: pairs <<gid, owner>>
    memberTable,  \* MEMBER: pairs <<uid, gid>>
    \* the memory of the tracker
    token_map,    \* the user id of a token, or Absent
    groups,       \* the keys of the map of groups
    owner_id, members,          \* of each group; "" and {} by default
    files, seeders, leechers,   \* the files <<gid, fname>> and their sets
    address,      \* "none", "zero", "remote" or "server" for each user id
    \* the process
    up,           \* the tracker is running
    job,          \* the request each worker handles
    restarts, faults,
    \* history: the groups about which the tables and memory have come apart
    torn

dbVars == <<userTable, tokenTable, groupTable, memberTable>>
groupVars == <<groups, owner_id, members, files, seeders, leechers>>
memVars == <<token_map, groupVars, address>>
notes == <<restarts, faults, torn>>
vars == <<userTable, tokenTable, groupTable, memberTable, token_map, groups,
          owner_id, members, files, seeders, leechers, address, up, job,
          restarts, faults, torn>>

Idle == [op |-> "none", token |-> Nobody, gid |-> Absent, fname |-> Absent,
         uid |-> Nobody, at |-> "idle"]

-----------------------------------------------------------------------------
(* Helpers *)

At(w, op, step) == job[w].op = op /\ job[w].at = step

Step(w, label) == job' = [job EXCEPT ![w].at = label]

\* The handler returns its response.
Respond(w) == job' = [job EXCEPT ![w] = Idle]

\* A statement of SQL that fails throws sqlite_exception.
DbFault == faults < MaxDbFaults /\ faults' = faults + 1

\* The rows of the tables as the maps of memory that tracker::tracker loads.
\* (Variant: no owner where the default of the map is "".)
LoadedOwner_NoDefault(g) == IF \E o \in Uid : <<g, o>> \in groupTable
                            THEN CHOOSE o \in Uid : <<g, o>> \in groupTable
                            ELSE Absent

LoadedOwner(g) == IF \E o \in Uid : <<g, o>> \in groupTable
                  THEN CHOOSE o \in Uid : <<g, o>> \in groupTable
                  ELSE Nobody
LoadedGroups == {g \in Group : \E o \in Uid : <<g, o>> \in groupTable}
LoadedMembers(g) == IF g \in LoadedGroups
                    THEN {u \in Uid : <<u, g>> \in memberTable}
                    ELSE {}

\* groups[g] becomes a group with this owner and these members and no files.
ResetGroup(g, owner, mems) ==
    /\ owner_id' = [owner_id EXCEPT ![g] = owner]
    /\ members' = [members EXCEPT ![g] = mems]
    /\ files' = {gf \in files : gf[1] # g}
    /\ seeders' = [gf \in Group \X File |-> IF gf[1] = g THEN {} ELSE seeders[gf]]
    /\ leechers' = [gf \in Group \X File |-> IF gf[1] = g THEN {} ELSE leechers[gf]]

NoFiles == [gf \in Group \X File |-> {}]

Init ==
    /\ userTable \in {{}, User}
    /\ tokenTable = {}
    /\ groupTable = {}
    /\ memberTable = {}
    /\ token_map = [t \in User |-> Absent]
    /\ groups = {}
    /\ owner_id = [g \in Group |-> Nobody]
    /\ members = [g \in Group |-> {}]
    /\ files = {}
    /\ seeders = NoFiles
    /\ leechers = NoFiles
    /\ address = [u \in Uid |-> "none"]
    /\ up = TRUE
    /\ job = [w \in Worker |-> Idle]
    /\ restarts = 0
    /\ faults = 0
    /\ torn = {}

-----------------------------------------------------------------------------
(* tracker::callback: a request comes in and its token is looked up *)

FirstStep(op) == CASE op = "/signup" -> "createUser"
                   [] op = "/login" -> "getUser"
                   [] OTHER -> "verified"

AfterLookup(op) == CASE op = "/logout" -> "eraseAddress"
                     [] op = "/create_group" -> "insertGroup"
                     [] op = "/join_group" -> "addMember"
                     [] op = "/leave_group" -> "removeMember"
                     [] op = "/share_file" -> "shareFile"
                     [] op = "/peers" -> "peerAddress"

Request(w, op, token, gid, fname) ==
    /\ up
    /\ job[w] = Idle
    /\ op \in Ops
    /\ job' = [job EXCEPT ![w] = [op |-> op, token |-> token, gid |-> gid,
                                  fname |-> fname, uid |-> Nobody,
                                  at |-> FirstStep(op)]]
    /\ UNCHANGED <<dbVars, memVars, up, notes>>

\* Variant: the token is not looked at before it is used.
Verified_Skipped(w) ==
    /\ job[w].at = "verified"
    /\ Step(w, "find")
    /\ UNCHANGED <<dbVars, memVars, up, notes>>

Verified(w) ==
    /\ job[w].at = "verified"
    /\ IF token_map[job[w].token] = Absent THEN Respond(w) ELSE Step(w, "find")
    /\ UNCHANGED <<dbVars, memVars, up, notes>>

\* tokent_to_userid looks the token up again: it may have been logged out.
FindToken(w) ==
    /\ job[w].at = "find"
    /\ Step(w, IF token_map[job[w].token] = Absent THEN AfterLookup(job[w].op)
                                                   ELSE "index")
    /\ UNCHANGED <<dbVars, memVars, up, notes>>

\* And a third time with [], which enters "" for a token gone by then.
IndexToken(w) ==
    /\ job[w].at = "index"
    /\ LET t == job[w].token
           uid == IF token_map[t] = Absent THEN Nobody ELSE token_map[t]
       IN  /\ token_map' = [token_map EXCEPT ![t] = uid]
           /\ job' = [job EXCEPT ![w].uid = uid, ![w].at = AfterLookup(job[w].op)]
    /\ UNCHANGED <<dbVars, groupVars, address, up, notes>>

-----------------------------------------------------------------------------
(* /signup, /login and /logout *)

CreateUser(w) ==
    /\ At(w, "/signup", "createUser")
    /\ userTable' = userTable \cup {job[w].token}
    /\ Respond(w)
    /\ UNCHANGED <<tokenTable, groupTable, memberTable, memVars, up, notes>>

GetUser(w) ==
    /\ At(w, "/login", "getUser")
    /\ IF job[w].token \in userTable THEN Step(w, "getToken") ELSE Respond(w)
    /\ UNCHANGED <<dbVars, memVars, up, notes>>

\* get_token throws when there is no row, and when the statement fails.
GetToken(w) ==
    /\ At(w, "/login", "getToken")
    /\ \/ /\ Step(w, IF job[w].token \in tokenTable THEN "mapToken"
                                                    ELSE "insertToken")
          /\ UNCHANGED faults
       \/ DbFault /\ Step(w, "insertToken")
    /\ UNCHANGED <<dbVars, memVars, up, restarts, torn>>

InsertToken(w) ==
    /\ At(w, "/login", "insertToken")
    /\ job[w].token \notin tokenTable
    /\ tokenTable' = tokenTable \cup {job[w].token}
    /\ Step(w, "mapToken")
    /\ UNCHANGED <<userTable, groupTable, memberTable, memVars, up, notes>>

MapToken(w) ==
    /\ At(w, "/login", "mapToken")
    /\ token_map' = [token_map EXCEPT ![job[w].token] = job[w].token]
    /\ Step(w, "mapAddress")
    /\ UNCHANGED <<dbVars, groupVars, address, up, notes>>

MapAddress(w) ==
    /\ At(w, "/login", "mapAddress")
    /\ address' = [address EXCEPT ![job[w].token] = "remote"]
    /\ Respond(w)
    /\ UNCHANGED <<dbVars, token_map, groupVars, up, notes>>

\* Variant: the row is deleted, before the entry of the map is.
EraseAddress_DeletesRow(w) ==
    /\ At(w, "/logout", "eraseAddress")
    /\ tokenTable' = tokenTable \ {job[w].token}
    /\ address' = [address EXCEPT ![job[w].uid] = "none"]
    /\ Step(w, "eraseToken")
    /\ UNCHANGED <<userTable, groupTable, memberTable, token_map, groupVars, up,
                   notes>>

\* sqlite_tc.delete_token makes its query and never executes it: the row of
\* the token stays.
EraseAddress(w) ==
    /\ At(w, "/logout", "eraseAddress")
    /\ address' = [address EXCEPT ![job[w].uid] = "none"]
    /\ Step(w, "eraseToken")
    /\ UNCHANGED <<dbVars, token_map, groupVars, up, notes>>

EraseToken(w) ==
    /\ At(w, "/logout", "eraseToken")
    /\ token_map' = [token_map EXCEPT ![job[w].token] = Absent]
    /\ Respond(w)
    /\ UNCHANGED <<dbVars, groupVars, address, up, notes>>

-----------------------------------------------------------------------------
(* /create_group, /join_group and /leave_group *)

RowTaken(g) == \E o \in Uid : <<g, o>> \in groupTable

\* A taken id answers 409.
InsertGroup(w) ==
    /\ At(w, "/create_group", "insertGroup")
    /\ IF RowTaken(job[w].gid)
       THEN Respond(w) /\ UNCHANGED groupTable
       ELSE /\ groupTable' = groupTable \cup {<<job[w].gid, job[w].uid>>}
            /\ Step(w, "addMember")
    /\ UNCHANGED <<userTable, tokenTable, memberTable, memVars, up, notes>>

\* Variants: the statement is made and not executed, as in delete_token; a
\* conflict is tried again.
AddMember_NotExecuted(w) ==
    /\ job[w].at = "addMember"
    /\ Step(w, "memory")
    /\ UNCHANGED <<dbVars, memVars, up, notes>>

AddMember_Retries(w) ==
    /\ job[w].at = "addMember"
    /\ LET row == <<job[w].uid, job[w].gid>>
       IN  /\ row \notin memberTable
           /\ memberTable' = memberTable \cup {row}
    /\ Step(w, "memory")
    /\ UNCHANGED <<userTable, tokenTable, groupTable, memVars, up, notes>>

\* add_member for create_group and join_group.  A row that exists already is
\* a 409; in create_group it leaves the row of the group behind.  Who joins a
\* group that has no row of its own tears it: creating it later forgets him
\* in memory, and so does a restart.
AddMember(w) ==
    /\ job[w].at = "addMember"
    /\ job[w].op \in {"/create_group", "/join_group"}
    /\ LET row == <<job[w].uid, job[w].gid>>
       IN  IF row \in memberTable
           THEN Respond(w) /\ UNCHANGED <<memberTable, torn>>
           ELSE /\ memberTable' = memberTable \cup {row}
                /\ torn' = IF RowTaken(job[w].gid) THEN torn ELSE torn \cup {job[w].gid}
                /\ Step(w, "memory")
    /\ UNCHANGED <<userTable, tokenTable, groupTable, memVars, up, restarts, faults>>

\* groups[gid] = g: a new group, whatever was there before.
CreateInMemory(w) ==
    /\ At(w, "/create_group", "memory")
    /\ groups' = groups \cup {job[w].gid}
    /\ ResetGroup(job[w].gid, job[w].uid, {job[w].uid})
    /\ Respond(w)
    /\ UNCHANGED <<dbVars, token_map, address, up, notes>>

\* groups[gid] enters a group without an owner if there is none.
JoinInMemory(w) ==
    /\ At(w, "/join_group", "memory")
    /\ groups' = groups \cup {job[w].gid}
    /\ members' = [members EXCEPT ![job[w].gid] = @ \cup {job[w].uid}]
    /\ Respond(w)
    /\ UNCHANGED <<dbVars, token_map, owner_id, files, seeders, leechers,
                   address, up, notes>>

RemoveMember(w) ==
    /\ At(w, "/leave_group", "removeMember")
    /\ memberTable' = memberTable \ {<<job[w].uid, job[w].gid>>}
    /\ Step(w, "memory")
    /\ UNCHANGED <<userTable, tokenTable, groupTable, memVars, up, notes>>

LeaveInMemory(w) ==
    /\ At(w, "/leave_group", "memory")
    /\ groups' = groups \cup {job[w].gid}
    /\ members' = [members EXCEPT ![job[w].gid] = @ \ {job[w].uid}]
    /\ Step(w, "owner")
    /\ UNCHANGED <<dbVars, token_map, owner_id, files, seeders, leechers,
                   address, up, notes>>

OwnerLeaves(w) ==
    /\ At(w, "/leave_group", "owner")
    /\ groups' = groups \cup {job[w].gid}
    /\ IF owner_id[job[w].gid] = job[w].uid THEN Step(w, "removeAll")
                                            ELSE Respond(w)
    /\ UNCHANGED <<dbVars, token_map, owner_id, members, files, seeders,
                   leechers, address, up, notes>>

\* Variant: the statement is made and not executed, as in delete_token.
RemoveAllMembers_NotExecuted(w) ==
    /\ At(w, "/leave_group", "removeAll")
    /\ Step(w, "removeGroup")
    /\ UNCHANGED <<dbVars, memVars, up, notes>>

RemoveAllMembers(w) ==
    /\ At(w, "/leave_group", "removeAll")
    /\ memberTable' = {row \in memberTable : row[2] # job[w].gid}
    /\ Step(w, "removeGroup")
    /\ UNCHANGED <<userTable, tokenTable, groupTable, memVars, up, notes>>

RemoveGroup(w) ==
    /\ At(w, "/leave_group", "removeGroup")
    /\ groupTable' = {row \in groupTable : row[1] # job[w].gid}
    /\ Step(w, "eraseGroup")
    /\ UNCHANGED <<userTable, tokenTable, memberTable, memVars, up, notes>>

EraseGroup(w) ==
    /\ At(w, "/leave_group", "eraseGroup")
    /\ groups' = groups \ {job[w].gid}
    /\ ResetGroup(job[w].gid, Nobody, {})
    /\ torn' = torn \ {job[w].gid}
    /\ Respond(w)
    /\ UNCHANGED <<dbVars, token_map, address, up, restarts, faults>>

-----------------------------------------------------------------------------
(* /share_file and /peers *)

\* groups.find, members.find: the test that share_file and get_peers share.
IsMember(w) == /\ job[w].gid \in groups
               /\ job[w].uid \in members[job[w].gid]

FileOf(w) == <<job[w].gid, job[w].fname>>

\* Who the token names now; "" if it has been logged out meanwhile.
UidNow(w) == IF token_map[job[w].token] = Absent THEN Nobody
                                                 ELSE token_map[job[w].token]

\* address[tokent_to_userid(auth_token)] = the address the client sent, and
\* what the handler does next; or stoll throws at the text sent first: 500.
ServerAddress(w, next) ==
    \/ address' = [address EXCEPT ![UidNow(w)] = "server"] /\ next
    \/ Respond(w) /\ UNCHANGED address

\* Not a member, or a name already taken: 400.
ShareFile(w) ==
    /\ At(w, "/share_file", "shareFile")
    /\ IF IsMember(w) /\ FileOf(w) \notin files THEN Step(w, "addFile")
                                                ELSE Respond(w)
    /\ UNCHANGED <<dbVars, memVars, up, notes>>

AddFile(w) ==
    /\ At(w, "/share_file", "addFile")
    /\ groups' = groups \cup {job[w].gid}
    /\ files' = files \cup {FileOf(w)}
    /\ seeders' = [seeders EXCEPT ![FileOf(w)] = {job[w].uid}]
    /\ leechers' = [leechers EXCEPT ![FileOf(w)] = {}]
    /\ Step(w, "shareAddress")
    /\ UNCHANGED <<dbVars, token_map, owner_id, members, address, up, notes>>

ShareAddress(w) ==
    /\ At(w, "/share_file", "shareAddress")
    /\ ServerAddress(w, Respond(w))
    /\ UNCHANGED <<dbVars, token_map, groupVars, up, notes>>

PeerAddress(w) ==
    /\ At(w, "/peers", "peerAddress")
    /\ ServerAddress(w, Step(w, "checkPeers"))
    /\ UNCHANGED <<dbVars, token_map, groupVars, up, notes>>

\* Not a member: 403.  No such file: 400.
CheckPeers(w) ==
    /\ At(w, "/peers", "checkPeers")
    /\ IF IsMember(w) /\ FileOf(w) \in files THEN Step(w, "listPeers")
                                             ELSE Respond(w)
    /\ UNCHANGED <<dbVars, memVars, up, notes>>

\* The asker becomes a leecher; address[id] enters a zero address for every
\* listed user without one.  With nobody to list, substr throws: 500.
ListPeers(w) ==
    /\ At(w, "/peers", "listPeers")
    /\ groups' = groups \cup {job[w].gid}
    /\ files' = files \cup {FileOf(w)}
    /\ leechers' = [leechers EXCEPT ![FileOf(w)] = @ \cup {job[w].uid}]
    /\ LET listed == (leechers[FileOf(w)] \cup seeders[FileOf(w)]) \ {job[w].uid}
       IN  address' = [u \in Uid |-> IF u \in listed /\ address[u] = "none"
                                     THEN "zero" ELSE address[u]]
    /\ Respond(w)
    /\ UNCHANGED <<dbVars, token_map, owner_id, members, seeders, up, notes>>

-----------------------------------------------------------------------------
(* Failing statements, the end of the process, and its restart *)

\* catch(sqlite::sqlite_exception): 500, with whatever was done before.  A
\* deletion that fails at remove_group has taken the members' rows away.
StatementFails(w) ==
    /\ \/ job[w].at \in {"createUser", "getUser", "insertToken", "removeMember",
                          "removeAll", "removeGroup"}
       \/ At(w, "/join_group", "addMember")
    /\ DbFault
    /\ torn' = IF job[w].at = "removeGroup" THEN torn \cup {job[w].gid} ELSE torn
    /\ Respond(w)
    /\ UNCHANGED <<dbVars, memVars, up, restarts>>

ProcessEnds ==
    /\ up' = FALSE
    /\ job' = [w \in Worker |-> Idle]
    /\ token_map' = [t \in User |-> Absent]
    /\ groups' = {}
    /\ owner_id' = [g \in Group |-> Nobody]
    /\ members' = [g \in Group |-> {}]
    /\ files' = {}
    /\ seeders' = NoFiles
    /\ leechers' = NoFiles
    /\ address' = [u \in Uid |-> "none"]
    /\ UNCHANGED <<dbVars, restarts, torn>>

\* The exceptions of sqlite_client inherit std::exception privately, so
\* neither login's catch of sqlite_exception nor the catches of
\* std::exception see a constraint_failed_exception, and create_group
\* catches nothing else: the exception leaves the thread and ends the program.
Terminates(w) ==
    /\ \/ /\ At(w, "/login", "insertToken")
          /\ job[w].token \in tokenTable
          /\ UNCHANGED faults
       \/ /\ \/ At(w, "/create_group", "insertGroup")
             \/ At(w, "/create_group", "addMember")
          /\ DbFault
    /\ ProcessEnds

\* The tracker is killed, between any two steps.
Crash ==
    /\ up
    /\ restarts < MaxRestarts
    /\ ProcessEnds
    /\ UNCHANGED faults

\* tracker::tracker fills the maps from the tables; members of a group that
\* has no row of its own are not read.
Restart ==
    /\ ~up
    /\ restarts < MaxRestarts
    /\ restarts' = restarts + 1
    /\ up' = TRUE
    /\ token_map' = [t \in User |-> IF t \in tokenTable THEN t ELSE Absent]
    /\ groups' = LoadedGroups
    /\ owner_id' = [g \in Group |-> LoadedOwner(g)]
    /\ members' = [g \in Group |-> LoadedMembers(g)]
    /\ torn' = {g \in Group \ LoadedGroups : \E u \in Uid : <<u, g>> \in memberTable}
    /\ UNCHANGED <<dbVars, files, seeders, leechers, address, job, faults>>

-----------------------------------------------------------------------------

Handle(w) ==
    \/ Verified(w) \/ FindToken(w) \/ IndexToken(w)
    \/ CreateUser(w)
    \/ GetUser(w) \/ GetToken(w) \/ InsertToken(w) \/ MapToken(w) \/ MapAddress(w)
    \/ EraseAddress(w) \/ EraseToken(w)
    \/ InsertGroup(w) \/ AddMember(w) \/ CreateInMemory(w) \/ JoinInMemory(w)
    \/ RemoveMember(w) \/ LeaveInMemory(w) \/ OwnerLeaves(w)
    \/ RemoveAllMembers(w) \/ RemoveGroup(w) \/ EraseGroup(w)
    \/ ShareFile(w) \/ AddFile(w) \/ ShareAddress(w)
    \/ PeerAddress(w) \/ CheckPeers(w) \/ ListPeers(w)
    \/ StatementFails(w) \/ Terminates(w)

Ask(w) == \E op \in Ops, t \in User, g \in Group, f \in File : Request(w, op, t, g, f)

Next == (\E w \in Worker : Ask(w) \/ Handle(w)) \/ Crash \/ Restart

\* A handler is a thread that waits for nothing but the database.
Fairness == \A w \in Worker : WF_vars(Handle(w))

Spec == Init /\ [][Next]_vars

FairSpec == Spec /\ Fairness

-----------------------------------------------------------------------------
(* Properties *)

Address == {"none", "zero", "remote", "server"}

Label == {"idle", "createUser", "getUser", "getToken", "insertToken", "mapToken",
          "mapAddress", "verified", "find", "index", "eraseAddress",
          "eraseToken", "insertGroup", "addMember", "memory", "removeMember",
          "owner", "removeAll", "removeGroup", "eraseGroup", "shareFile",
          "addFile", "shareAddress", "peerAddress", "checkPeers", "listPeers"}

Job == [op : Resource \cup {"none"}, token : Uid, gid : Group \cup {Absent},
        fname : File \cup {Absent}, uid : Uid, at : Label]

\* The tables, the maps and the jobs of the threads keep their types (tracker,
\* user_client, token_client, group_client).
TypeOK ==
    /\ userTable \subseteq User
    /\ tokenTable \subseteq User
    /\ groupTable \subseteq Group \X Uid
    /\ memberTable \subseteq Uid \X Group
    /\ token_map \in [User -> Uid \cup {Absent}]
    /\ groups \subseteq Group
    /\ owner_id \in [Group -> Uid]
    /\ members \in [Group -> SUBSET Uid]
    /\ files \subseteq Group \X File
    /\ seeders \in [Group \X File -> SUBSET Uid]
    /\ leechers \in [Group \X File -> SUBSET Uid]
    /\ address \in [Uid -> Address]
    /\ up \in BOOLEAN
    /\ job \in [Worker -> Job]
    /\ restarts \in 0 .. MaxRestarts
    /\ faults \in 0 .. MaxDbFaults
    /\ torn \subseteq Group

\* No request is being handled.
AtRest == \A w \in Worker : job[w] = Idle

\* A token that the tracker accepts for a user has its row, whatever else
\* runs or crashes: the user is still known after a restart (login inserts
\* the row before the entry of token_map).
SessionBacked ==
    \A t \in User : token_map[t] \in User => token_map[t] = t /\ t \in tokenTable

\* As long as nobody leaves, memory never knows a member or an owner that
\* the tables do not: every insertion in a table comes before its entry in
\* a map, and a crash may only lose the latter (create_group, join_group).
MemoryBacked ==
    "/leave_group" \notin Ops =>
        \A g \in Group :
            /\ \A u \in members[g] : <<u, g>> \in memberTable
            /\ owner_id[g] \in User => <<g, owner_id[g]>> \in groupTable

\* With one request at a time the tables and memory agree at rest on every
\* member and every owner, both ways, though people join and leave, owners
\* take their groups with them, statements fail in the middle of it and the
\* tracker crashes anywhere: whatever a handler does in one place it does in
\* the other.  They come apart in two ways only, until the group is deleted
\* or the tracker starts again: somebody joined the group before it existed,
\* or its deletion failed between its two statements.
TablesAgree ==
    AtRest /\ up /\ Cardinality(Worker) = 1 =>
        \A g \in Group \ torn :
            /\ members[g] = {u \in Uid : <<u, g>> \in memberTable}
            /\ {owner_id[g]} \ {Nobody} = {o \in Uid : <<g, o>> \in groupTable}

\* With one request at a time nothing is ever done in the name of "": the
\* three lookups of a token give the same user.
NoAnonymousActs ==
    Cardinality(Worker) = 1 =>
        /\ \A g \in Group : /\ Nobody \notin members[g]
                            /\ <<g, Nobody>> \notin groupTable
                            /\ <<Nobody, g>> \notin memberTable
        /\ address[Nobody] = "none"
        /\ \A t \in User : token_map[t] # Nobody

\* Every request gets its response, unless the tracker goes down.
EveryRequestEnds == \A w \in Worker : job[w] # Idle ~> job[w] = Idle

\* What the comment of leave_group says: a group goes when its owner leaves.
OwnerGoneGroupGone ==
    AtRest => \A row \in groupTable : <<row[2], row[1]>> \in memberTable

\* What the test of the tracker asserts: serving clients throws nothing.
NeverTerminates == [][~\E w \in Worker : Terminates(w)]_vars
=============================================================================
