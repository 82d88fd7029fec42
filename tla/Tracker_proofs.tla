--------------------------- MODULE Tracker_proofs ---------------------------
(***************************************************************************)
(* Proofs about Tracker for any users, groups, files, connection threads,  *)
(* restarts and failing statements: its type invariant, that every session *)
(* is backed by its row, that memory is backed by the tables as long as    *)
(* nobody leaves a group, and, with one request at a time, that every act  *)
(* is that of a user and that deletions are complete.                      *)
(***************************************************************************)
EXTENDS Tracker, FiniteSetTheorems, TLAPS

\* A request being handled has its arguments; a token is looked up only for
\* the resources that need one.
JobsFilled ==
    \A w \in Worker :
        job[w].at # "idle" => /\ job[w].op \in Ops
                              /\ job[w].token \in User
                              /\ job[w].gid \in Group
                              /\ job[w].fname \in File

LookupsAuthorised ==
    \A w \in Worker : job[w].at \in {"verified", "find", "index"}
                         => job[w].op \notin {"/signup", "/login"}

TypeInv == TypeOK /\ JobsFilled /\ LookupsAuthorised

\* How one step of a handler may change its worker's job.
Advances(w, label) == job' = [job EXCEPT ![w].at = label]

LEMMA JobAdvances ==
    ASSUME TypeInv, NEW w \in Worker, NEW label \in Label \ {"verified", "idle"},
           job[w].at # "idle", Advances(w, label),
           label \in {"find", "index"} => job[w].op \notin {"/signup", "/login"}
    PROVE  job' \in [Worker -> Job] /\ JobsFilled' /\ LookupsAuthorised'
BY SMTT(20) DEF TypeInv, TypeOK, JobsFilled, LookupsAuthorised, Advances, Job

LEMMA JobEnds ==
    ASSUME TypeInv, NEW w \in Worker, job' = [job EXCEPT ![w] = Idle]
    PROVE  job' \in [Worker -> Job] /\ JobsFilled' /\ LookupsAuthorised'
BY DEF TypeInv, TypeOK, JobsFilled, LookupsAuthorised, Job, Idle, Uid, Label

\* The labels that follow the lookup of a token.
Authorised == {"eraseAddress", "insertGroup", "addMember", "removeMember",
               "shareFile", "peerAddress"}

LEMMA AuthorisedLabel ==
    ASSUME NEW op \in Resource \ {"/signup", "/login"}
    PROVE  /\ AfterLookup(op) \in Authorised
           /\ op = "/create_group" => AfterLookup(op) = "insertGroup"
           /\ FirstStep(op) = "verified"
<1>1. CASE op = "/logout"
  BY <1>1 DEF AfterLookup, FirstStep, Authorised
<1>2. CASE op = "/create_group"
  BY <1>2 DEF AfterLookup, FirstStep, Authorised
<1>3. CASE op = "/join_group"
  BY <1>3 DEF AfterLookup, FirstStep, Authorised
<1>4. CASE op = "/leave_group"
  BY <1>4 DEF AfterLookup, FirstStep, Authorised
<1>5. CASE op = "/share_file"
  BY <1>5 DEF AfterLookup, FirstStep, Authorised
<1>6. CASE op = "/peers"
  BY <1>6 DEF AfterLookup, FirstStep, Authorised
<1> QED
  BY <1>1, <1>2, <1>3, <1>4, <1>5, <1>6 DEF Resource

LEMMA FirstLabel ==
    ASSUME NEW op \in Resource
    PROVE  /\ FirstStep(op) \in {"createUser", "getUser", "verified"}
           /\ FirstStep(op) = "verified" => op \notin {"/signup", "/login"}
<1>1. CASE op = "/signup"
  BY <1>1 DEF FirstStep
<1>2. CASE op = "/login"
  BY <1>2 DEF FirstStep
<1>3. CASE op \notin {"/signup", "/login"}
  BY <1>3, AuthorisedLabel
<1> QED
  BY <1>1, <1>2, <1>3

-----------------------------------------------------------------------------
(* The type invariant: first the jobs, then the tables and the maps *)

JobInv == job \in [Worker -> Job] /\ JobsFilled /\ LookupsAuthorised

\* The steps of a handler that go to a fixed label or respond.
LEMMA StepJob ==
    ASSUME TypeInv, NEW w \in Worker, job[w].at # "idle",
           \/ Respond(w)
           \/ \E label \in Label \ {"verified", "idle", "find", "index"} : Step(w, label)
    PROVE  JobInv'
<1>1. CASE Respond(w)
  BY <1>1, JobEnds DEF Respond, JobInv
<1>2. ASSUME NEW label \in Label \ {"verified", "idle", "find", "index"}, Step(w, label)
      PROVE  JobInv'
  BY <1>2, JobAdvances DEF Step, Advances, JobInv
<1> QED
  BY <1>1, <1>2

LEMMA HandleJob ==
    ASSUME TypeInv, NEW w \in Worker, Handle(w)
    PROVE  JobInv'
<1> USE DEF At
<1>a. job[w].at \in {"verified", "find", "index"}
         => job[w].op \in Resource \ {"/signup", "/login"}
  BY TrackerAssumption DEF TypeInv, TypeOK, JobsFilled, LookupsAuthorised
<1>1. CASE Verified(w)
  <2>1. CASE Respond(w)
    BY <1>1, <2>1, StepJob DEF Verified
  <2>2. CASE Step(w, "find")
    BY <1>1, <1>a, <2>2, JobAdvances DEF Verified, Step, Advances, Label, JobInv
  <2> QED
    BY <1>1, <2>1, <2>2 DEF Verified
<1>2. CASE FindToken(w)
  <2>1. CASE Step(w, "index")
    BY <1>2, <1>a, <2>1, JobAdvances DEF FindToken, Step, Advances, Label, JobInv
  <2>2. CASE Step(w, AfterLookup(job[w].op))
    <3>1. AfterLookup(job[w].op) \in Authorised
      BY <1>2, <1>a, AuthorisedLabel DEF FindToken
    <3> QED
      BY <1>2, <2>2, <3>1, StepJob DEF FindToken, Authorised, Label
  <2> QED
    BY <1>2, <2>1, <2>2 DEF FindToken
<1>3. CASE IndexToken(w)
  <2>1. AfterLookup(job[w].op) \in Authorised
    BY <1>3, <1>a, AuthorisedLabel DEF IndexToken
  <2>2. PICK uid \in Uid :
            job' = [job EXCEPT ![w].uid = uid, ![w].at = AfterLookup(job[w].op)]
    BY <1>3 DEF IndexToken, TypeInv, TypeOK, JobsFilled, Uid
  <2> HIDE DEF At
  <2>3. /\ job \in [Worker -> Job] /\ JobsFilled /\ LookupsAuthorised
        /\ job[w].at = "index" /\ AfterLookup(job[w].op) \in Label
        /\ AfterLookup(job[w].op) \notin {"idle", "verified", "find", "index"}
    BY <1>3, <2>1 DEF IndexToken, TypeInv, TypeOK, Authorised, Label
  <2>4. job' \in [Worker -> Job]
    BY <2>2, <2>3 DEF Job
  <2>5. \A v \in Worker \ {w} : job'[v] = job[v]
    BY <2>2, <2>3
  <2>6. /\ job'[w].at = AfterLookup(job[w].op) /\ job'[w].op = job[w].op
        /\ job'[w].token = job[w].token /\ job'[w].gid = job[w].gid
        /\ job'[w].fname = job[w].fname
    BY <2>2, <2>3 DEF Job
  <2>7. JobsFilled'
    BY <2>3, <2>5, <2>6 DEF JobsFilled
  <2>8. LookupsAuthorised'
    BY <2>3, <2>5, <2>6 DEF LookupsAuthorised
  <2> QED
    BY <2>4, <2>7, <2>8 DEF JobInv
<1>4. CASE \/ CreateUser(w) \/ GetUser(w) \/ GetToken(w) \/ InsertToken(w)
           \/ MapToken(w) \/ MapAddress(w) \/ EraseAddress(w) \/ EraseToken(w)
  BY <1>4, StepJob DEF CreateUser, GetUser, GetToken, InsertToken, MapToken,
     MapAddress, EraseAddress, EraseToken, Label
<1>5. CASE \/ InsertGroup(w) \/ AddMember(w) \/ CreateInMemory(w) \/ JoinInMemory(w)
  BY <1>5, StepJob DEF InsertGroup, AddMember, CreateInMemory, JoinInMemory, Label
<1>6. CASE \/ RemoveMember(w) \/ LeaveInMemory(w) \/ OwnerLeaves(w)
           \/ RemoveAllMembers(w) \/ RemoveGroup(w) \/ EraseGroup(w)
  BY <1>6, StepJob DEF RemoveMember, LeaveInMemory, OwnerLeaves, RemoveAllMembers,
     RemoveGroup, EraseGroup, Label
<1>7. CASE \/ ShareFile(w) \/ AddFile(w) \/ ShareAddress(w) \/ PeerAddress(w)
           \/ CheckPeers(w) \/ ListPeers(w) \/ StatementFails(w)
  BY <1>7, StepJob DEF ShareFile, AddFile, ShareAddress, PeerAddress, ServerAddress, CheckPeers,
     ListPeers, StatementFails, Label
<1>8. CASE Terminates(w)
  BY <1>8 DEF Terminates, ProcessEnds, Idle, JobInv, JobsFilled, LookupsAuthorised,
     Job, Uid, Label
<1> QED
  BY <1>1, <1>2, <1>3, <1>4, <1>5, <1>6, <1>7, <1>8 DEF Handle

TablesOK == /\ userTable \subseteq User
            /\ tokenTable \subseteq User
            /\ groupTable \subseteq Group \X Uid
            /\ memberTable \subseteq Uid \X Group

MapsOK == /\ token_map \in [User -> Uid \cup {Absent}]
          /\ groups \subseteq Group
          /\ owner_id \in [Group -> Uid]
          /\ members \in [Group -> SUBSET Uid]
          /\ files \subseteq Group \X File
          /\ seeders \in [Group \X File -> SUBSET Uid]
          /\ leechers \in [Group \X File -> SUBSET Uid]
          /\ address \in [Uid -> Address]

BoundsOK == /\ up \in BOOLEAN
            /\ restarts \in 0 .. MaxRestarts
            /\ faults \in 0 .. MaxDbFaults
            /\ torn \subseteq Group

LEMMA TypeParts == TypeInv <=> TablesOK /\ MapsOK /\ BoundsOK /\ JobInv
BY DEF TypeInv, TypeOK, TablesOK, MapsOK, BoundsOK, JobInv

\* What a handler reads from its job.
LEMMA JobParts ==
    ASSUME TypeInv, NEW w \in Worker
    PROVE  /\ job[w].uid \in Uid
           /\ job[w].at # "idle" => /\ job[w].token \in User
                                    /\ job[w].gid \in Group
                                    /\ FileOf(w) \in Group \X File
BY DEF TypeInv, TypeOK, JobsFilled, Job, FileOf

LEMMA HandleTables ==
    ASSUME TypeInv, NEW w \in Worker, Handle(w)
    PROVE  TablesOK'
<1> USE DEF TablesOK, At, dbVars
<1>0. TablesOK
  BY TypeParts
<1>1. CASE CreateUser(w)
  BY <1>0, <1>1, JobParts DEF CreateUser
<1>2. CASE InsertToken(w)
  BY <1>0, <1>2, JobParts DEF InsertToken
<1>3. CASE InsertGroup(w)
  BY <1>0, <1>3, JobParts DEF InsertGroup
<1>4. CASE AddMember(w)
  BY <1>0, <1>4, JobParts DEF AddMember
<1>5. CASE RemoveMember(w) \/ RemoveAllMembers(w) \/ RemoveGroup(w)
  BY <1>0, <1>5 DEF RemoveMember, RemoveAllMembers, RemoveGroup
<1>6. ASSUME ~CreateUser(w), ~InsertToken(w), ~InsertGroup(w), ~AddMember(w),
             ~RemoveMember(w), ~RemoveAllMembers(w), ~RemoveGroup(w)
      PROVE  UNCHANGED dbVars
  BY <1>6 DEF Handle, Verified, FindToken, IndexToken, GetUser, GetToken, MapToken,
     MapAddress, EraseAddress, EraseToken, CreateInMemory, JoinInMemory,
     LeaveInMemory, OwnerLeaves, EraseGroup, ShareFile, AddFile, ShareAddress,
     PeerAddress, CheckPeers, ListPeers, StatementFails, Terminates, ProcessEnds
<1> QED
  BY <1>0, <1>1, <1>2, <1>3, <1>4, <1>5, <1>6

LEMMA ResetTyped ==
    ASSUME MapsOK, NEW g \in Group, NEW owner \in Uid, NEW mems \in SUBSET Uid,
           ResetGroup(g, owner, mems)
    PROVE  /\ owner_id' \in [Group -> Uid]
           /\ members' \in [Group -> SUBSET Uid]
           /\ files' \subseteq Group \X File
           /\ seeders' \in [Group \X File -> SUBSET Uid]
           /\ leechers' \in [Group \X File -> SUBSET Uid]
BY DEF MapsOK, ResetGroup

LEMMA HandleMaps ==
    ASSUME TypeInv, NEW w \in Worker, Handle(w)
    PROVE  MapsOK'
<1> USE DEF At, memVars, groupVars
<1>0. MapsOK /\ Nobody \in Uid
  BY TypeParts DEF Uid
<1>1. CASE IndexToken(w)
  BY <1>0, <1>1, JobParts DEF IndexToken, MapsOK
<1>2. CASE MapToken(w) \/ EraseToken(w)
  BY <1>0, <1>2, JobParts DEF MapToken, EraseToken, MapsOK, Uid
<1>3. CASE MapAddress(w) \/ EraseAddress(w)
  BY <1>0, <1>3, JobParts DEF MapAddress, EraseAddress, MapsOK, Uid, Address
<1>4. CASE CreateInMemory(w)
  <2>1. ResetGroup(job[w].gid, job[w].uid, {job[w].uid})
        /\ job[w].gid \in Group /\ job[w].uid \in Uid
    BY <1>4, JobParts DEF CreateInMemory
  <2> QED
    BY <1>0, <1>4, <2>1, ResetTyped DEF CreateInMemory, MapsOK
<1>5. CASE EraseGroup(w)
  <2>1. ResetGroup(job[w].gid, Nobody, {}) /\ job[w].gid \in Group
    BY <1>5, JobParts DEF EraseGroup
  <2> QED
    BY <1>0, <1>5, <2>1, ResetTyped DEF EraseGroup, MapsOK
<1>6. CASE JoinInMemory(w) \/ LeaveInMemory(w) \/ OwnerLeaves(w)
  <2>1. job[w].gid \in Group /\ job[w].uid \in Uid
    BY <1>6, JobParts DEF JoinInMemory, LeaveInMemory, OwnerLeaves
  <2> QED
    BY <1>0, <1>6, <2>1 DEF JoinInMemory, LeaveInMemory, OwnerLeaves, MapsOK
<1>7. CASE AddFile(w)
  <2>1. job[w].gid \in Group /\ job[w].uid \in Uid /\ FileOf(w) \in Group \X File
    BY <1>7, JobParts DEF AddFile
  <2> QED
    BY <1>0, <1>7, <2>1 DEF AddFile, MapsOK
<1>8. CASE ShareAddress(w) \/ PeerAddress(w)
  BY <1>0, <1>8, JobParts DEF ShareAddress, PeerAddress, ServerAddress, MapsOK, Address
<1>9. CASE ListPeers(w)
  <2>1. job[w].gid \in Group /\ job[w].uid \in Uid /\ FileOf(w) \in Group \X File
    BY <1>9, JobParts DEF ListPeers
  <2>2. address' \in [Uid -> Address]
    BY <1>0, <1>9 DEF ListPeers, MapsOK, Address
  <2> QED
    BY <1>0, <1>9, <2>1, <2>2 DEF ListPeers, MapsOK
<1>10. CASE Terminates(w)
  BY <1>0, <1>10 DEF Terminates, ProcessEnds, MapsOK, NoFiles, Address
<1>11. ASSUME ~IndexToken(w), ~MapToken(w), ~EraseToken(w), ~MapAddress(w),
              ~EraseAddress(w), ~CreateInMemory(w), ~EraseGroup(w),
              ~JoinInMemory(w), ~LeaveInMemory(w), ~OwnerLeaves(w), ~AddFile(w),
              ~ShareAddress(w), ~PeerAddress(w), ~ListPeers(w), ~Terminates(w)
       PROVE  UNCHANGED memVars
  BY <1>11 DEF Handle, Verified, FindToken, CreateUser, GetUser, GetToken,
     InsertToken, InsertGroup, AddMember, RemoveMember, RemoveAllMembers,
     RemoveGroup, ShareFile, CheckPeers, StatementFails
<1>12. CASE UNCHANGED memVars
  BY <1>0, <1>12 DEF MapsOK
<1> QED
  BY <1>1, <1>2, <1>3, <1>4, <1>5, <1>6, <1>7, <1>8, <1>9, <1>10, <1>11, <1>12

LEMMA HandleBounds ==
    ASSUME TypeInv, NEW w \in Worker, Handle(w)
    PROVE  BoundsOK'
<1> USE DEF notes
<1>0. BoundsOK
  BY TypeParts
<1>1. up' \in BOOLEAN /\ restarts' = restarts
      /\ (faults' = faults \/ (faults < MaxDbFaults /\ faults' = faults + 1))
  BY <1>0 DEF BoundsOK, DbFault, Handle, Verified, FindToken, IndexToken,
     CreateUser, GetUser, GetToken, InsertToken, MapToken, MapAddress,
     EraseAddress, EraseToken, InsertGroup, AddMember, CreateInMemory,
     JoinInMemory, RemoveMember, LeaveInMemory, OwnerLeaves, RemoveAllMembers,
     RemoveGroup, EraseGroup, ShareFile, AddFile, ShareAddress, PeerAddress,
     CheckPeers, ListPeers, StatementFails, Terminates, ProcessEnds
<1>2. CASE AddMember(w) \/ EraseGroup(w) \/ StatementFails(w)
  <2>1. job[w].at # "idle"
    BY <1>2 DEF AddMember, EraseGroup, StatementFails, At
  <2>2. torn' \subseteq torn \cup {job[w].gid}
    BY <1>2 DEF AddMember, EraseGroup, StatementFails
  <2> QED
    BY <1>0, <1>1, <2>1, <2>2, JobParts, TrackerAssumption DEF BoundsOK
<1>3. ASSUME ~AddMember(w), ~EraseGroup(w), ~StatementFails(w) PROVE torn' = torn
  BY <1>3 DEF Handle, Verified, FindToken, IndexToken,
     CreateUser, GetUser, GetToken, InsertToken, MapToken, MapAddress,
     EraseAddress, EraseToken, InsertGroup, CreateInMemory,
     JoinInMemory, RemoveMember, LeaveInMemory, OwnerLeaves, RemoveAllMembers,
     RemoveGroup, ShareFile, AddFile, ShareAddress, PeerAddress,
     CheckPeers, ListPeers, Terminates, ProcessEnds
<1> QED
  BY <1>0, <1>1, <1>2, <1>3, TrackerAssumption DEF BoundsOK

LEMMA InitTypeInv == Init => TypeInv
<1> SUFFICES ASSUME Init PROVE TypeInv
  OBVIOUS
<1>1. TablesOK
  BY DEF Init, TablesOK
<1>2. MapsOK
  BY DEF Init, MapsOK, NoFiles, Uid, Address
<1>3. BoundsOK
  BY TrackerAssumption DEF Init, BoundsOK
<1>4. JobInv
  BY DEF Init, JobInv, Job, JobsFilled, LookupsAuthorised, Idle, Uid, Label
<1> QED
  BY <1>1, <1>2, <1>3, <1>4, TypeParts

LEMMA AskTypeInv ==
    ASSUME TypeInv, NEW w \in Worker, Ask(w)
    PROVE  TypeInv'
<1>1. PICK op \in Ops, t \in User, g \in Group, f \in File : Request(w, op, t, g, f)
  BY DEF Ask
<1>2. op \in Resource
  BY TrackerAssumption
<1>3. FirstStep(op) \in Label /\ (FirstStep(op) = "verified" => op \notin {"/signup", "/login"})
      /\ FirstStep(op) \notin {"find", "index"}
  BY <1>2, FirstLabel DEF Label
<1>4. JobInv'
  BY <1>1, <1>2, <1>3 DEF Request, JobInv, JobsFilled, LookupsAuthorised, TypeInv,
     TypeOK, Job, Uid
<1>5. UNCHANGED <<dbVars, memVars, up, notes>>
  BY <1>1 DEF Request
<1>6. TablesOK' /\ MapsOK' /\ BoundsOK'
  BY <1>5, TypeParts DEF TablesOK, MapsOK, BoundsOK, dbVars, memVars, groupVars,
     notes
<1>7. TypeInv' <=> TablesOK' /\ MapsOK' /\ BoundsOK' /\ JobInv'
  BY DEF TypeInv, TypeOK, TablesOK, MapsOK, BoundsOK, JobInv
<1> QED
  BY <1>4, <1>6, <1>7

LEMMA DownTypeInv ==
    ASSUME TypeInv, Crash \/ Restart
    PROVE  TypeInv'
<1>0. TablesOK /\ MapsOK /\ BoundsOK /\ JobInv
  BY TypeParts
<1>1. TablesOK'
  BY <1>0 DEF Crash, Restart, ProcessEnds, TablesOK, dbVars
<1>2. MapsOK'
  <2>1. CASE Crash
    BY <1>0, <2>1 DEF Crash, ProcessEnds, MapsOK, NoFiles, Uid, Address
  <2>2. CASE Restart
    <3>1. \A g \in Group : LoadedOwner(g) \in Uid /\ LoadedMembers(g) \in SUBSET Uid
      BY DEF LoadedOwner, LoadedMembers, Uid
    <3>2. LoadedGroups \subseteq Group
      BY DEF LoadedGroups
    <3>3. token_map' \in [User -> Uid \cup {Absent}]
      BY <2>2 DEF Restart, Uid
    <3> QED
      BY <1>0, <2>2, <3>1, <3>2, <3>3 DEF Restart, MapsOK
  <2> QED
    BY <2>1, <2>2
<1>3. BoundsOK'
  <2>1. CASE Crash
    BY <1>0, <2>1 DEF Crash, ProcessEnds, BoundsOK
  <2>2. CASE Restart
    <3>1. restarts' = restarts + 1 /\ restarts < MaxRestarts /\ MaxRestarts \in Nat
          /\ up' = TRUE /\ faults' = faults /\ torn' \subseteq Group
      BY <2>2, TrackerAssumption DEF Restart
    <3> QED
      BY <1>0, <3>1 DEF BoundsOK
  <2> QED
    BY <2>1, <2>2
<1>4. JobInv'
  BY <1>0 DEF Crash, Restart, ProcessEnds, JobInv, JobsFilled, LookupsAuthorised,
     Idle, Job, Uid, Label
<1>5. TypeInv' <=> TablesOK' /\ MapsOK' /\ BoundsOK' /\ JobInv'
  BY DEF TypeInv, TypeOK, TablesOK, MapsOK, BoundsOK, JobInv
<1> QED
  BY <1>1, <1>2, <1>3, <1>4, <1>5

LEMMA NextTypeInv == TypeInv /\ [Next]_vars => TypeInv'
<1> SUFFICES ASSUME TypeInv, [Next]_vars PROVE TypeInv'
  OBVIOUS
<1>1. CASE UNCHANGED vars
  BY <1>1 DEF vars, TypeInv, TypeOK, JobsFilled, LookupsAuthorised
<1>2. ASSUME NEW w \in Worker, Handle(w) PROVE TypeInv'
  <2>1. TypeInv' <=> TablesOK' /\ MapsOK' /\ BoundsOK' /\ JobInv'
    BY DEF TypeInv, TypeOK, TablesOK, MapsOK, BoundsOK, JobInv
  <2> QED
    BY <1>2, <2>1, HandleTables, HandleMaps, HandleBounds, HandleJob
<1> QED
  BY <1>1, <1>2, AskTypeInv, DownTypeInv DEF Next

\* The tables, the maps and the jobs of the tracker are well typed.
THEOREM TypeCorrect == Spec => []TypeOK
<1>1. TypeInv => TypeOK
  BY DEF TypeInv
<1> QED
  BY <1>1, InitTypeInv, NextTypeInv, PTL DEF Spec

-----------------------------------------------------------------------------
(* Sessions *)

\* An entry of token_map names the user of its token or nobody, and its row
\* exists; a login about to make the entry has seen or inserted the row.
SessionInv ==
    /\ \A t \in User : /\ token_map[t] \in {Absent, Nobody, t}
                       /\ token_map[t] = t => t \in tokenTable
    /\ \A w \in Worker : job[w].at = "mapToken" => job[w].token \in tokenTable

LEMMA HandleSession ==
    ASSUME TypeInv, SessionInv, NEW w \in Worker, Handle(w)
    PROVE  SessionInv'
<1> USE DEF SessionInv, At, dbVars, memVars
<1>0. job \in [Worker -> Job] /\ token_map \in [User -> Uid \cup {Absent}]
  BY DEF TypeInv, TypeOK
<1>a. job[w].at \in {"find", "index"} => AfterLookup(job[w].op) # "mapToken"
  BY TrackerAssumption, AuthorisedLabel DEF TypeInv, JobsFilled, LookupsAuthorised, Authorised
<1>1. CASE GetToken(w)
  BY <1>0, <1>1 DEF GetToken, Step, Job
<1>2. CASE InsertToken(w)
  BY <1>0, <1>2 DEF InsertToken, Step, Job
<1>3. CASE MapToken(w)
  BY <1>0, <1>3, JobParts DEF MapToken, Step, Job
<1>4. CASE EraseToken(w)
  BY <1>0, <1>4, JobParts, TrackerAssumption DEF EraseToken, Respond, Idle, Uid
<1>5. CASE IndexToken(w)
  <2>1. job[w].token \in User /\ AfterLookup(job[w].op) # "mapToken"
    BY <1>a, <1>5, JobParts DEF IndexToken
  <2>2. PICK uid \in {Nobody, token_map[job[w].token]} :
            /\ token_map' = [token_map EXCEPT ![job[w].token] = uid]
            /\ uid # Absent
            /\ job' = [job EXCEPT ![w].uid = uid, ![w].at = AfterLookup(job[w].op)]
    BY <1>5, TrackerAssumption DEF IndexToken, Uid
  <2>3. tokenTable' = tokenTable
    BY <1>5 DEF IndexToken
  <2>4. \A t \in User : /\ token_map'[t] \in {Absent, Nobody, t}
                        /\ token_map'[t] = t => t \in tokenTable
    BY <1>0, <2>1, <2>2, TrackerAssumption DEF Uid
  <2>5. \A v \in Worker : /\ job'[v].at = "mapToken" => job[v].at = "mapToken"
                          /\ job'[v].token = job[v].token
    BY <1>0, <2>1, <2>2 DEF Job
  <2> QED
    BY <2>3, <2>4, <2>5
<1>6. CASE Terminates(w)
  BY <1>6, TrackerAssumption DEF Terminates, ProcessEnds, Idle, Uid
<1>7. CASE FindToken(w)
  BY <1>0, <1>a, <1>7 DEF FindToken, Step, Job
<1>8. ASSUME ~GetToken(w), ~InsertToken(w), ~MapToken(w), ~EraseToken(w),
             ~IndexToken(w), ~Terminates(w), ~FindToken(w)
      PROVE  /\ UNCHANGED <<token_map, tokenTable>>
             /\ Respond(w) \/ \E label \in Label \ {"mapToken"} : Step(w, label)
  BY <1>8 DEF Handle, ServerAddress, Verified, CreateUser, GetUser, MapAddress, EraseAddress,
     InsertGroup, AddMember, CreateInMemory, JoinInMemory, RemoveMember,
     LeaveInMemory, OwnerLeaves, RemoveAllMembers, RemoveGroup, EraseGroup,
     ShareFile, AddFile, ShareAddress, PeerAddress, CheckPeers, ListPeers,
     StatementFails, Label
<1>9. ASSUME UNCHANGED <<token_map, tokenTable>>,
             Respond(w) \/ \E label \in Label \ {"mapToken"} : Step(w, label)
      PROVE  SessionInv'
  BY <1>0, <1>9 DEF Respond, Step, Idle, Job
<1> QED
  BY <1>1, <1>2, <1>3, <1>4, <1>5, <1>6, <1>7, <1>8, <1>9

LEMMA NextSession == TypeInv /\ SessionInv /\ [Next]_vars => SessionInv'
<1> SUFFICES ASSUME TypeInv, SessionInv, [Next]_vars PROVE SessionInv'
  OBVIOUS
<1> USE DEF SessionInv
<1>1. CASE UNCHANGED vars
  BY <1>1 DEF vars
<1>2. ASSUME NEW w \in Worker, Ask(w) PROVE SessionInv'
  <2>1. PICK op \in Ops, t \in User, g \in Group, f \in File : Request(w, op, t, g, f)
    BY <1>2 DEF Ask
  <2>2. FirstStep(op) # "mapToken"
    BY FirstLabel, TrackerAssumption
  <2> QED
    BY <2>1, <2>2 DEF Request, dbVars, memVars, TypeInv, TypeOK, Job
<1>3. CASE Crash
  BY <1>3, TrackerAssumption DEF Crash, ProcessEnds, Idle, Uid
<1>4. CASE Restart
  BY <1>4, TrackerAssumption DEF Restart, dbVars, Uid
<1> QED
  BY <1>1, <1>2, <1>3, <1>4, HandleSession DEF Next

\* Whatever requests run at once, and wherever the tracker crashes, a token it
\* accepts for a user survives in the table.
THEOREM SessionsAreBacked == Spec => []SessionBacked
<1>1. Init => SessionInv
  BY TrackerAssumption DEF Init, SessionInv, Idle, Uid
<1>2. SessionInv => SessionBacked
  BY TrackerAssumption DEF SessionInv, SessionBacked, Uid
<1> QED
  BY <1>1, <1>2, InitTypeInv, NextTypeInv, NextSession, PTL DEF Spec

-----------------------------------------------------------------------------
(* Memory and tables *)

\* What the maps say is in the tables; a handler about to enter a member or
\* an owner has inserted the row.
BackedMaps ==
    \A g \in Group :
        /\ \A u \in members[g] : <<u, g>> \in memberTable
        /\ owner_id[g] \in User => <<g, owner_id[g]>> \in groupTable

BackedJob(w) ==
    /\ job[w].at = "memory" => <<job[w].uid, job[w].gid>> \in memberTable
    /\ job[w].op = "/create_group" /\ job[w].at \in {"addMember", "memory"}
           => <<job[w].gid, job[w].uid>> \in groupTable

BackedJobs == \A w \in Worker : BackedJob(w)

NobodyLeaves == "/leave_group" \notin Ops

Leaving(w) == RemoveMember(w) \/ LeaveInMemory(w) \/ OwnerLeaves(w)
              \/ RemoveAllMembers(w) \/ RemoveGroup(w) \/ EraseGroup(w)

LEMMA NotLeaving ==
    ASSUME TypeInv, NobodyLeaves, NEW w \in Worker
    PROVE  ~Leaving(w)
BY DEF TypeInv, JobsFilled, NobodyLeaves, Leaving, At, RemoveMember,
   LeaveInMemory, OwnerLeaves, RemoveAllMembers, RemoveGroup, EraseGroup

\* Without leaving, rows are only added.
LEMMA RowsStay ==
    ASSUME TypeInv, NobodyLeaves, NEW w \in Worker, Handle(w)
    PROVE  memberTable \subseteq memberTable' /\ groupTable \subseteq groupTable'
<1> USE DEF dbVars
<1>1. ~Leaving(w)
  BY NotLeaving
<1>2. CASE InsertGroup(w)
  BY <1>2 DEF InsertGroup
<1>3. CASE AddMember(w)
  BY <1>3 DEF AddMember
<1>4. ASSUME ~Leaving(w), ~InsertGroup(w), ~AddMember(w)
      PROVE  UNCHANGED <<memberTable, groupTable>>
  BY <1>4 DEF Handle, Leaving, Verified, FindToken, IndexToken, CreateUser,
     GetUser, GetToken, InsertToken, MapToken, MapAddress, EraseAddress,
     EraseToken, CreateInMemory, JoinInMemory, ShareFile, AddFile, ShareAddress,
     PeerAddress, CheckPeers, ListPeers, StatementFails, Terminates, ProcessEnds
<1> QED
  BY <1>1, <1>2, <1>3, <1>4

LEMMA HandleBackedJobs ==
    ASSUME TypeInv, NobodyLeaves, BackedJobs, NEW w \in Worker, Handle(w)
    PROVE  BackedJobs'
<1>0. job \in [Worker -> Job] /\ ~Leaving(w)
  BY NotLeaving DEF TypeInv, TypeOK
<1>1. memberTable \subseteq memberTable' /\ groupTable \subseteq groupTable'
  BY RowsStay
<1>2. \A v \in Worker : job'[v] = job[v] => BackedJob(v)'
  BY <1>1 DEF BackedJobs, BackedJob
<1>3. \A v \in Worker : job'[v] = Idle => BackedJob(v)'
  BY DEF BackedJob, Idle
<1>4. ASSUME NEW label \in Label \ {"memory", "addMember"}, Step(w, label)
      PROVE  BackedJobs'
  <2>1. BackedJob(w)'
    BY <1>0, <1>4 DEF Step, BackedJob, Job
  <2>2. \A v \in Worker \ {w} : job'[v] = job[v]
    BY <1>0, <1>4 DEF Step
  <2> QED
    BY <1>2, <2>1, <2>2 DEF BackedJobs
<1>5. CASE Respond(w)
  <2>1. \A v \in Worker : job'[v] = Idle \/ job'[v] = job[v]
    BY <1>0, <1>5 DEF Respond
  <2> QED
    BY <1>2, <1>3, <2>1 DEF BackedJobs
<1>6. CASE Terminates(w)
  <2>1. \A v \in Worker : job'[v] = Idle
    BY <1>6 DEF Terminates, ProcessEnds
  <2> QED
    BY <1>3, <2>1 DEF BackedJobs
<1>7. job[w].at \in {"find", "index"} =>
          /\ AfterLookup(job[w].op) \in Authorised
          /\ job[w].op = "/create_group" => AfterLookup(job[w].op) = "insertGroup"
  BY TrackerAssumption, AuthorisedLabel DEF TypeInv, JobsFilled, LookupsAuthorised
<1>8. CASE FindToken(w)
  <2>1. CASE Step(w, "index")
    BY <1>4, <2>1 DEF Label
  <2>2. CASE Step(w, AfterLookup(job[w].op))
    <3>1. BackedJob(w)'
      BY <1>0, <1>7, <1>8, <2>2 DEF FindToken, Step, BackedJob, Job, Authorised
    <3>2. \A v \in Worker \ {w} : job'[v] = job[v]
      BY <1>0, <2>2 DEF Step
    <3> QED
      BY <1>2, <3>1, <3>2 DEF BackedJobs
  <2> QED
    BY <1>8, <2>1, <2>2 DEF FindToken
<1>9. CASE IndexToken(w)
  <2>1. PICK uid : job' = [job EXCEPT ![w].uid = uid, ![w].at = AfterLookup(job[w].op)]
    BY <1>9 DEF IndexToken
  <2>2. BackedJob(w)'
    BY <1>0, <1>7, <1>9, <2>1 DEF IndexToken, BackedJob, Job, Authorised
  <2>3. \A v \in Worker \ {w} : job'[v] = job[v]
    BY <1>0, <2>1
  <2> QED
    BY <1>2, <2>2, <2>3 DEF BackedJobs
<1>10. CASE InsertGroup(w)
  <2>1. CASE Step(w, "addMember")
    <3>1. <<job[w].gid, job[w].uid>> \in groupTable'
      BY <1>0, <1>10, <2>1 DEF InsertGroup, Respond, Step, At, Job, Idle
    <3>2. BackedJob(w)'
      BY <1>0, <2>1, <3>1 DEF Step, BackedJob, Job
    <3>3. \A v \in Worker \ {w} : job'[v] = job[v]
      BY <1>0, <2>1 DEF Step
    <3> QED
      BY <1>2, <3>2, <3>3 DEF BackedJobs
  <2> QED
    BY <1>5, <1>10, <2>1 DEF InsertGroup
<1>11. CASE AddMember(w)
  <2>1. CASE Step(w, "memory") /\ <<job[w].uid, job[w].gid>> \in memberTable'
    <3>1. BackedJob(w)'
      BY <1>0, <1>1, <1>11, <2>1 DEF AddMember, Step, BackedJobs, BackedJob, Job
    <3>2. \A v \in Worker \ {w} : job'[v] = job[v]
      BY <1>0, <2>1 DEF Step
    <3> QED
      BY <1>2, <3>1, <3>2 DEF BackedJobs
  <2> QED
    BY <1>5, <1>11, <2>1 DEF AddMember
<1>12. ASSUME ~Leaving(w), ~FindToken(w), ~IndexToken(w), ~InsertGroup(w),
              ~AddMember(w), ~Terminates(w)
       PROVE  Respond(w) \/ \E label \in Label \ {"memory", "addMember"} : Step(w, label)
  BY <1>12 DEF Handle, Leaving, Verified, CreateUser, GetUser, GetToken,
     InsertToken, MapToken, MapAddress, EraseAddress, EraseToken, CreateInMemory,
     JoinInMemory, ShareFile, AddFile, ShareAddress, PeerAddress, ServerAddress, CheckPeers,
     ListPeers, StatementFails, Label
<1> QED
  BY <1>0, <1>4, <1>5, <1>6, <1>8, <1>9, <1>10, <1>11, <1>12

LEMMA HandleBackedMaps ==
    ASSUME TypeInv, NobodyLeaves, BackedMaps, BackedJobs, NEW w \in Worker, Handle(w)
    PROVE  BackedMaps'
<1>0. /\ members \in [Group -> SUBSET Uid]
      /\ owner_id \in [Group -> Uid]
      /\ ~Leaving(w)
  BY NotLeaving DEF TypeInv, TypeOK
<1>1. memberTable \subseteq memberTable' /\ groupTable \subseteq groupTable'
  BY RowsStay
<1>2. CASE CreateInMemory(w)
  <2>1. /\ <<job[w].uid, job[w].gid>> \in memberTable'
        /\ <<job[w].gid, job[w].uid>> \in groupTable'
    BY <1>1, <1>2 DEF CreateInMemory, At, BackedJobs, BackedJob
  <2>2. /\ members' = [members EXCEPT ![job[w].gid] = {job[w].uid}]
        /\ owner_id' = [owner_id EXCEPT ![job[w].gid] = job[w].uid]
    BY <1>2 DEF CreateInMemory, ResetGroup
  <2> QED
    BY <1>0, <1>1, <2>1, <2>2 DEF BackedMaps
<1>3. CASE JoinInMemory(w)
  <2>1. <<job[w].uid, job[w].gid>> \in memberTable'
    BY <1>1, <1>3 DEF JoinInMemory, At, BackedJobs, BackedJob
  <2>2. /\ members' = [members EXCEPT ![job[w].gid] = @ \cup {job[w].uid}]
        /\ owner_id' = owner_id
    BY <1>3 DEF JoinInMemory
  <2> QED
    BY <1>0, <1>1, <2>1, <2>2 DEF BackedMaps
<1>4. CASE Terminates(w)
  BY <1>4, TrackerAssumption DEF Terminates, ProcessEnds, BackedMaps
<1>5. ASSUME ~Leaving(w), ~CreateInMemory(w), ~JoinInMemory(w), ~Terminates(w)
      PROVE  UNCHANGED <<members, owner_id>>
  BY <1>5 DEF Handle, Leaving, Verified, FindToken, IndexToken, CreateUser,
     GetUser, GetToken, InsertToken, MapToken, MapAddress, EraseAddress,
     EraseToken, InsertGroup, AddMember, ShareFile, AddFile, ShareAddress,
     PeerAddress, CheckPeers, ListPeers, StatementFails, memVars, groupVars
<1>6. CASE UNCHANGED <<members, owner_id>>
  BY <1>1, <1>6 DEF BackedMaps
<1> QED
  BY <1>0, <1>2, <1>3, <1>4, <1>5, <1>6

LEMMA NextBacked ==
    TypeInv /\ NobodyLeaves /\ BackedMaps /\ BackedJobs /\ [Next]_vars
        => BackedMaps' /\ BackedJobs'
<1> SUFFICES ASSUME TypeInv, NobodyLeaves, BackedMaps, BackedJobs, [Next]_vars
             PROVE  BackedMaps' /\ BackedJobs'
  OBVIOUS
<1>0. job \in [Worker -> Job]
  BY DEF TypeInv, TypeOK
<1>1. CASE UNCHANGED vars
  BY <1>1 DEF vars, BackedMaps, BackedJobs, BackedJob
<1>2. ASSUME NEW w \in Worker, Ask(w) PROVE BackedMaps' /\ BackedJobs'
  <2>1. PICK op \in Ops, t \in User, g \in Group, f \in File : Request(w, op, t, g, f)
    BY <1>2 DEF Ask
  <2>2. FirstStep(op) \notin {"memory", "addMember"}
    BY FirstLabel, TrackerAssumption
  <2>3. UNCHANGED <<members, owner_id, memberTable, groupTable>>
    BY <2>1 DEF Request, dbVars, memVars, groupVars
  <2>4. BackedJob(w)'
    BY <1>0, <2>1, <2>2 DEF Request, BackedJob
  <2>5. \A v \in Worker \ {w} : job'[v] = job[v]
    BY <1>0, <2>1 DEF Request
  <2> QED
    BY <2>3, <2>4, <2>5 DEF BackedMaps, BackedJobs, BackedJob
<1>3. ASSUME NEW w \in Worker, Handle(w) PROVE BackedMaps' /\ BackedJobs'
  BY <1>3, HandleBackedMaps, HandleBackedJobs
<1>4. CASE Crash
  BY <1>4, TrackerAssumption
     DEF Crash, ProcessEnds, BackedMaps, BackedJobs, BackedJob, Idle
<1>5. CASE Restart
  <2>1. \A g \in Group : /\ \A u \in LoadedMembers(g) : <<u, g>> \in memberTable
                         /\ LoadedOwner(g) \in User => <<g, LoadedOwner(g)>> \in groupTable
    BY TrackerAssumption DEF LoadedMembers, LoadedOwner
  <2> QED
    BY <1>5, <2>1 DEF Restart, dbVars, BackedMaps, BackedJobs, BackedJob
<1> QED
  BY <1>1, <1>2, <1>3, <1>4, <1>5 DEF Next

\* When nobody can leave a group, the maps never know a member or an owner
\* that a restart of the tracker would not find in the tables.
THEOREM MemoryIsBacked == Spec => []MemoryBacked
<1>1. Init /\ NobodyLeaves => BackedMaps /\ BackedJobs
  BY TrackerAssumption DEF Init, BackedMaps, BackedJobs, BackedJob, Idle
<1>2. BackedMaps => MemoryBacked
  BY DEF BackedMaps, MemoryBacked
<1>3. CASE NobodyLeaves
  BY <1>1, <1>2, <1>3, InitTypeInv, NextTypeInv, NextBacked, PTL DEF Spec
<1>4. CASE ~NobodyLeaves
  <2>1. MemoryBacked
    BY <1>4 DEF MemoryBacked, NobodyLeaves
  <2> QED
    BY <2>1, PTL
<1> QED
  BY <1>3, <1>4

-----------------------------------------------------------------------------
(* One request at a time: every act is that of a user *)

Alone == \A v, w \in Worker : v = w

LEMMA OneWorker == Cardinality(Worker) = 1 => Alone
BY TrackerAssumption, FS_Singleton DEF Alone

\* The steps that come after the lookup of a token.
Acts == Label \ {"idle", "createUser", "getUser", "getToken", "insertToken", "mapToken",
                 "mapAddress", "verified", "find", "index"}

\* A token that has been verified stays valid until its request is done, and
\* what is done after the lookup is done for a user.
NamedJob(w) ==
    /\ job[w].at \in Acts \cup {"find", "index"} => token_map[job[w].token] # Absent
    /\ job[w].at \in Acts => job[w].uid \in User

NamedJobs == \A w \in Worker : NamedJob(w)

NamedTokens == \A t \in User : token_map[t] # Nobody

NamedTables == \A g \in Group : <<g, Nobody>> \notin groupTable /\ <<Nobody, g>> \notin memberTable

NamedMaps ==
    /\ \A g \in Group : Nobody \notin members[g]
    /\ \A gf \in Group \X File : Nobody \notin seeders[gf] /\ Nobody \notin leechers[gf]
    /\ address[Nobody] = "none"

DownIsIdle == ~up => AtRest

NamedInv == NamedJobs /\ NamedTokens /\ NamedTables /\ NamedMaps /\ DownIsIdle

LEMMA ActsLabels ==
    ASSUME NEW op \in Resource \ {"/signup", "/login"} PROVE AfterLookup(op) \in Acts
<1>1. AfterLookup(op) \in Authorised
  BY AuthorisedLabel
<1> QED
  BY <1>1 DEF Authorised, Acts, Label

LEMMA HandleNamedTokens ==
    ASSUME TypeInv, Alone, NamedJobs, NamedTokens, NEW w \in Worker, Handle(w)
    PROVE  NamedJobs' /\ NamedTokens'
<1>0. /\ job \in [Worker -> Job] /\ token_map \in [User -> Uid \cup {Absent}]
      /\ Nobody \notin User /\ Absent \notin Uid /\ Uid = User \cup {Nobody}
      /\ NamedJob(w)
  BY TrackerAssumption DEF TypeInv, TypeOK, Uid, NamedJobs
<1>1. NamedJob(w)' => NamedJobs'
  BY DEF Alone, NamedJobs
<1>2. job'[w] = Idle => NamedJobs'
  <2>1. job'[w] = Idle => NamedJob(w)'
    BY DEF NamedJob, Idle, Acts
  <2> QED
    BY <1>1, <2>1
<1>3. Respond(w) => job'[w] = Idle
  BY <1>0 DEF Respond
<1>4. job[w].at \in {"find", "index"} => AfterLookup(job[w].op) \in Acts /\ job[w].token \in User
  <2>1. job[w].at \in {"find", "index"} => job[w].op \in Resource \ {"/signup", "/login"}
    BY TrackerAssumption DEF TypeInv, JobsFilled, LookupsAuthorised
  <2> QED
    BY <2>1, ActsLabels, JobParts
<1>5. CASE Verified(w)
  <2>1. UNCHANGED token_map
    BY <1>5 DEF Verified, memVars
  <2>2. CASE token_map[job[w].token] = Absent
    BY <1>2, <1>3, <1>5, <2>1, <2>2 DEF Verified, NamedTokens
  <2>3. CASE token_map[job[w].token] # Absent
    <3>1. Step(w, "find")
      BY <1>5, <2>3 DEF Verified
    <3>2. job'[w].at = "find" /\ job'[w].token = job[w].token
      BY <1>0, <3>1 DEF Step, Job
    <3>3. NamedJob(w)'
      BY <2>1, <2>3, <3>2 DEF NamedJob, Acts
    <3> QED
      BY <1>1, <2>1, <3>3 DEF NamedTokens
  <2> QED
    BY <2>2, <2>3
<1>6. CASE FindToken(w)
  <2>1. UNCHANGED token_map /\ token_map[job[w].token] # Absent
    BY <1>0, <1>6 DEF FindToken, memVars, NamedJob
  <2>2. Step(w, "index")
    BY <1>6, <2>1 DEF FindToken
  <2>3. job'[w].at = "index" /\ job'[w].token = job[w].token
    BY <1>0, <2>2 DEF Step, Job
  <2>4. NamedJob(w)'
    BY <2>1, <2>3 DEF NamedJob, Acts
  <2> QED
    BY <1>1, <2>1, <2>4 DEF NamedTokens
<1>7. CASE IndexToken(w)
  <2> DEFINE t == job[w].token
  <2>1. t \in User /\ token_map[t] # Absent /\ token_map[t] # Nobody /\ token_map[t] \in User
    <3>1. t \in User /\ token_map[t] # Absent /\ token_map[t] # Nobody
      BY <1>0, <1>4, <1>7 DEF IndexToken, NamedJob, NamedTokens
    <3> QED
      BY <1>0, <3>1
  <2>2. /\ token_map' = [token_map EXCEPT ![t] = token_map[t]]
        /\ job' = [job EXCEPT ![w].uid = token_map[t], ![w].at = AfterLookup(job[w].op)]
    BY <1>7, <2>1 DEF IndexToken
  <2>3. token_map' = token_map
    BY <1>0, <2>2
  <2>4. job'[w].uid = token_map[t] /\ job'[w].token = t
    BY <1>0, <2>2 DEF Job
  <2>5. NamedJob(w)'
    BY <2>1, <2>3, <2>4 DEF NamedJob
  <2> QED
    BY <1>1, <2>3, <2>5 DEF NamedTokens
<1>8. CASE MapToken(w)
  <2>1. job[w].token \in User /\ token_map' = [token_map EXCEPT ![job[w].token] = job[w].token]
    BY <1>8, JobParts DEF MapToken, At
  <2>2. Step(w, "mapAddress")
    BY <1>8 DEF MapToken
  <2>3. job'[w].at = "mapAddress"
    BY <1>0, <2>2 DEF Step, Job
  <2>4. NamedJob(w)'
    BY <2>3 DEF NamedJob, Acts
  <2>5. NamedTokens'
    BY <1>0, <2>1 DEF NamedTokens
  <2> QED
    BY <1>1, <2>4, <2>5
<1>9. CASE EraseToken(w)
  <2>1. job[w].token \in User /\ token_map' = [token_map EXCEPT ![job[w].token] = Absent]
    BY <1>9, JobParts DEF EraseToken, At
  <2>2. NamedTokens'
    BY <1>0, <2>1 DEF NamedTokens
  <2> QED
    BY <1>2, <1>3, <1>9, <2>2 DEF EraseToken
<1>10. CASE Terminates(w)
  <2>1. job'[w] = Idle /\ token_map' = [t \in User |-> Absent]
    BY <1>10 DEF Terminates, ProcessEnds
  <2>2. NamedTokens'
    BY <1>0, <2>1 DEF NamedTokens
  <2> QED
    BY <1>2, <2>1, <2>2
<1>11. ASSUME ~Verified(w), ~FindToken(w), ~IndexToken(w), ~MapToken(w), ~EraseToken(w),
              ~Terminates(w)
       PROVE  /\ UNCHANGED token_map
              /\ \/ Respond(w)
                 \/ \E label \in Label \ {"verified", "find", "index"} :
                       Step(w, label) /\ (label \in Acts => job[w].at \in Acts)
  BY <1>11 DEF Handle, At, CreateUser, GetUser, GetToken, InsertToken, MapAddress,
     EraseAddress, InsertGroup, AddMember, CreateInMemory, JoinInMemory, RemoveMember,
     LeaveInMemory, OwnerLeaves, RemoveAllMembers, RemoveGroup, EraseGroup,
     ShareFile, AddFile, ShareAddress, PeerAddress, ServerAddress, CheckPeers, ListPeers,
     StatementFails, Label, Acts, memVars
<1>12. ASSUME UNCHANGED token_map, NEW label \in Label \ {"verified", "find", "index"},
              Step(w, label), label \in Acts => job[w].at \in Acts
       PROVE  NamedJobs' /\ NamedTokens'
  <2>1. job'[w].at = label /\ job'[w].token = job[w].token /\ job'[w].uid = job[w].uid
    BY <1>0, <1>12 DEF Step, Job
  <2>2. NamedJob(w)'
    BY <1>0, <1>12, <2>1 DEF NamedJob
  <2> QED
    BY <1>1, <1>12, <2>2 DEF NamedTokens
<1>13. ASSUME UNCHANGED token_map, Respond(w) PROVE NamedJobs' /\ NamedTokens'
  BY <1>2, <1>3, <1>13 DEF NamedTokens
<1> QED
  BY <1>5, <1>6, <1>7, <1>8, <1>9, <1>10, <1>11, <1>12, <1>13

LEMMA HandleNamedTables ==
    ASSUME TypeInv, NamedJobs, NamedTables, NEW w \in Worker, Handle(w)
    PROVE  NamedTables'
<1>0. Nobody \notin User /\ NamedJob(w)
  BY TrackerAssumption DEF NamedJobs
<1>1. CASE InsertGroup(w)
  <2>1. job[w].uid \in User
    BY <1>0, <1>1 DEF InsertGroup, At, NamedJob, Acts, Label
  <2> QED
    BY <1>0, <1>1, <2>1 DEF InsertGroup, NamedTables
<1>2. CASE AddMember(w)
  <2>1. job[w].uid \in User
    BY <1>0, <1>2 DEF AddMember, NamedJob, Acts, Label
  <2> QED
    BY <1>0, <1>2, <2>1 DEF AddMember, NamedTables
<1>3. ASSUME ~InsertGroup(w), ~AddMember(w)
      PROVE  groupTable' \subseteq groupTable /\ memberTable' \subseteq memberTable
  BY <1>3 DEF Handle, Verified, FindToken, IndexToken, CreateUser,
     GetUser, GetToken, InsertToken, MapToken, MapAddress, EraseAddress,
     EraseToken, CreateInMemory, JoinInMemory, RemoveMember, LeaveInMemory, OwnerLeaves,
     RemoveAllMembers, RemoveGroup, EraseGroup, ShareFile, AddFile, ShareAddress,
     PeerAddress, CheckPeers, ListPeers, StatementFails, Terminates, ProcessEnds, dbVars
<1> QED
  BY <1>1, <1>2, <1>3 DEF NamedTables

LEMMA HandleNamedMaps ==
    ASSUME TypeInv, NamedJobs, NamedTokens, NamedMaps, NEW w \in Worker, Handle(w)
    PROVE  NamedMaps'
<1>0. /\ Nobody \notin User /\ Absent \notin Uid /\ Uid = User \cup {Nobody} /\ NamedJob(w)
      /\ members \in [Group -> SUBSET Uid] /\ address \in [Uid -> Address]
      /\ seeders \in [Group \X File -> SUBSET Uid] /\ leechers \in [Group \X File -> SUBSET Uid]
      /\ token_map \in [User -> Uid \cup {Absent}]
  BY TrackerAssumption DEF NamedJobs, Uid, TypeInv, TypeOK
<1>1. job[w].at \in Acts => job[w].uid \in User /\ UidNow(w) \in User
  <2> HAVE job[w].at \in Acts
  <2>1. job[w].uid \in User /\ token_map[job[w].token] # Absent /\ job[w].token \in User
    BY <1>0, JobParts DEF NamedJob, Acts
  <2> QED
    BY <1>0, <2>1 DEF UidNow, NamedTokens
<1>2. CASE CreateInMemory(w)
  <2>1. job[w].uid \in User
    BY <1>1, <1>2 DEF CreateInMemory, At, Acts, Label
  <2> QED
    BY <1>0, <1>2, <2>1 DEF CreateInMemory, ResetGroup, NamedMaps
<1>3. CASE JoinInMemory(w)
  <2>1. job[w].uid \in User
    BY <1>1, <1>3 DEF JoinInMemory, At, Acts, Label
  <2> QED
    BY <1>0, <1>3, <2>1 DEF JoinInMemory, NamedMaps
<1>4. CASE LeaveInMemory(w)
  BY <1>0, <1>4 DEF LeaveInMemory, NamedMaps
<1>5. CASE EraseGroup(w)
  BY <1>0, <1>5 DEF EraseGroup, ResetGroup, NamedMaps
<1>6. CASE AddFile(w)
  <2>1. job[w].uid \in User
    BY <1>1, <1>6 DEF AddFile, At, Acts, Label
  <2> QED
    BY <1>0, <1>6, <2>1 DEF AddFile, NamedMaps
<1>7. CASE ShareAddress(w) \/ PeerAddress(w)
  <2>1. UidNow(w) \in User
    BY <1>1, <1>7 DEF ShareAddress, PeerAddress, At, Acts, Label
  <2>2. /\ \/ address' = [address EXCEPT ![UidNow(w)] = "server"]
           \/ UNCHANGED address
        /\ UNCHANGED groupVars
    BY <1>7 DEF ShareAddress, PeerAddress, ServerAddress
  <2> QED
    BY <1>0, <2>1, <2>2 DEF NamedMaps, groupVars
<1>8. CASE ListPeers(w)
  <2>1. job[w].uid \in User /\ FileOf(w) \in Group \X File
    BY <1>1, <1>8, JobParts DEF ListPeers, At, Acts, Label
  <2>2. /\ leechers' = [leechers EXCEPT ![FileOf(w)] = @ \cup {job[w].uid}]
        /\ UNCHANGED <<members, seeders>>
    BY <1>8 DEF ListPeers
  <2>3. address'[Nobody] = "none"
    <3>1. /\ Nobody \notin (leechers[FileOf(w)] \cup seeders[FileOf(w)]) \ {job[w].uid}
          /\ Nobody \in Uid /\ address[Nobody] = "none"
      BY <1>0, <2>1 DEF NamedMaps
    <3> QED
      BY <1>8, <3>1 DEF ListPeers
  <2> QED
    BY <1>0, <2>1, <2>2, <2>3 DEF NamedMaps
<1>9. CASE MapAddress(w)
  <2>1. job[w].token \in User
    BY <1>9, JobParts DEF MapAddress, At
  <2> QED
    BY <1>0, <1>9, <2>1 DEF MapAddress, NamedMaps, groupVars
<1>10. CASE EraseAddress(w)
  BY <1>0, <1>10 DEF EraseAddress, NamedMaps, groupVars
<1>11. CASE Terminates(w)
  BY <1>0, <1>11 DEF Terminates, ProcessEnds, NoFiles, NamedMaps
<1>12. ASSUME ~CreateInMemory(w), ~JoinInMemory(w), ~LeaveInMemory(w), ~EraseGroup(w), ~AddFile(w),
              ~ShareAddress(w), ~PeerAddress(w), ~ListPeers(w), ~MapAddress(w), ~EraseAddress(w),
              ~Terminates(w)
       PROVE  UNCHANGED <<members, seeders, leechers, address>>
  BY <1>12 DEF Handle, Verified, FindToken, IndexToken, CreateUser,
     GetUser, GetToken, InsertToken, MapToken, EraseToken, InsertGroup, AddMember, RemoveMember,
     OwnerLeaves, RemoveAllMembers, RemoveGroup, ShareFile, CheckPeers, StatementFails,
     memVars, groupVars
<1>13. CASE UNCHANGED <<members, seeders, leechers, address>>
  BY <1>13 DEF NamedMaps
<1> QED
  BY <1>2, <1>3, <1>4, <1>5, <1>6, <1>7, <1>8, <1>9, <1>10, <1>11, <1>12, <1>13

\* A handler runs only while the tracker does, and stops with it.
LEMMA HandleDown ==
    ASSUME TypeInv, DownIsIdle, NEW w \in Worker, Handle(w)
    PROVE  DownIsIdle'
<1>1. job[w].at # "idle"
  BY DEF Handle, At, Verified, FindToken, IndexToken, CreateUser, GetUser, GetToken, InsertToken,
     MapToken, MapAddress, EraseAddress, EraseToken, InsertGroup, AddMember, CreateInMemory,
     JoinInMemory, RemoveMember, LeaveInMemory, OwnerLeaves, RemoveAllMembers, RemoveGroup,
     EraseGroup, ShareFile, AddFile, ShareAddress, PeerAddress, CheckPeers, ListPeers,
     StatementFails, Terminates
<1>2. up
  BY <1>1 DEF DownIsIdle, AtRest, Idle
<1>3. CASE Terminates(w)
  BY <1>3 DEF Terminates, ProcessEnds, DownIsIdle, AtRest
<1>4. CASE ~Terminates(w)
  <2>1. UNCHANGED up
    BY <1>4 DEF Handle, Verified, FindToken, IndexToken, CreateUser, GetUser, GetToken,
     InsertToken, MapToken, MapAddress, EraseAddress, EraseToken, InsertGroup, AddMember,
     CreateInMemory, JoinInMemory, RemoveMember, LeaveInMemory, OwnerLeaves, RemoveAllMembers,
     RemoveGroup, EraseGroup, ShareFile, AddFile, ShareAddress, PeerAddress, CheckPeers,
     ListPeers, StatementFails
  <2> QED
    BY <1>2, <2>1 DEF DownIsIdle
<1> QED
  BY <1>3, <1>4

LEMMA NextDown == TypeInv /\ DownIsIdle /\ [Next]_vars => DownIsIdle'
<1> SUFFICES ASSUME TypeInv, DownIsIdle, [Next]_vars PROVE DownIsIdle'
  OBVIOUS
<1>1. CASE UNCHANGED vars
  BY <1>1 DEF vars, DownIsIdle, AtRest
<1>2. ASSUME NEW w \in Worker, Ask(w) PROVE DownIsIdle'
  BY <1>2 DEF Ask, Request, DownIsIdle
<1>3. CASE Crash
  BY <1>3 DEF Crash, ProcessEnds, DownIsIdle, AtRest
<1>4. CASE Restart
  BY <1>4 DEF Restart, DownIsIdle
<1> QED
  BY <1>1, <1>2, <1>3, <1>4, HandleDown DEF Next

LEMMA NextNamed == TypeInv /\ Alone /\ NamedInv /\ [Next]_vars => NamedInv'
<1> SUFFICES ASSUME TypeInv, Alone, NamedInv, [Next]_vars PROVE NamedInv'
  OBVIOUS
<1> USE DEF NamedInv
<1>0. /\ job \in [Worker -> Job] /\ DownIsIdle'
      /\ Nobody \notin User /\ Absent \notin Uid /\ Uid = User \cup {Nobody} /\ Nobody # Absent
  BY NextDown, TrackerAssumption DEF TypeInv, TypeOK, Uid
<1>1. CASE UNCHANGED vars
  BY <1>0, <1>1 DEF vars, NamedJobs, NamedJob, NamedTokens, NamedTables, NamedMaps
<1>2. ASSUME NEW w \in Worker, Ask(w) PROVE NamedInv'
  <2>1. PICK op \in Ops, t \in User, g \in Group, f \in File : Request(w, op, t, g, f)
    BY <1>2 DEF Ask
  <2>2. FirstStep(op) \in {"createUser", "getUser", "verified"}
    BY FirstLabel, TrackerAssumption
  <2>3. job'[w].at = FirstStep(op)
    BY <1>0, <2>1 DEF Request
  <2>4. NamedJob(w)'
    BY <2>2, <2>3 DEF NamedJob, Acts
  <2>5. NamedJobs'
    BY <2>4 DEF Alone, NamedJobs
  <2>6. UNCHANGED <<token_map, members, seeders, leechers, address, memberTable, groupTable>>
    BY <2>1 DEF Request, dbVars, memVars, groupVars
  <2> QED
    BY <1>0, <2>5, <2>6 DEF NamedTokens, NamedTables, NamedMaps
<1>3. ASSUME NEW w \in Worker, Handle(w) PROVE NamedInv'
  BY <1>0, <1>3, HandleNamedTokens, HandleNamedTables, HandleNamedMaps
<1>4. CASE Crash
  <2>1. NamedJobs'
    BY <1>4 DEF Crash, ProcessEnds, NamedJobs, NamedJob, Idle, Acts
  <2> QED
    BY <1>0, <1>4, <2>1 DEF Crash, ProcessEnds, NamedTokens, NamedTables, NamedMaps, NoFiles, dbVars
<1>5. CASE Restart
  <2>1. NamedJobs'
    BY <1>5 DEF Restart, DownIsIdle, AtRest, NamedJobs, NamedJob, Idle, Acts
  <2>2. NamedTokens'
    BY <1>0, <1>5 DEF Restart, NamedTokens
  <2>3. NamedMaps'
    BY <1>0, <1>5 DEF Restart, NamedMaps, NamedTables, LoadedMembers
  <2> QED
    BY <1>0, <1>5, <2>1, <2>2, <2>3 DEF Restart, NamedTables, dbVars
<1> QED
  BY <1>1, <1>2, <1>3, <1>4, <1>5 DEF Next

LEMMA InitNamed == Init => NamedInv
BY TrackerAssumption DEF Init, NamedInv, NamedJobs, NamedJob, NamedTokens, NamedTables,
   NamedMaps, DownIsIdle, NoFiles, Idle, Acts, Uid

\* With one request at a time, whatever its kind, whichever statements fail
\* and wherever the tracker crashes, nothing is ever done in the name of "":
\* the token that the first lookup accepts is still there at the third.
\* (tracker::callback, tokent_to_userid)
THEOREM EveryActHasItsUser == Spec => []NoAnonymousActs
<1>2. NamedInv => NoAnonymousActs
  BY DEF NamedInv, NamedTokens, NamedTables, NamedMaps, NoAnonymousActs
<1>3. CASE Alone
  BY <1>2, <1>3, InitTypeInv, InitNamed, NextTypeInv, NextNamed, PTL DEF Spec
<1>4. CASE ~Alone
  <2>1. NoAnonymousActs
    BY <1>4, OneWorker DEF NoAnonymousActs
  <2> QED
    BY <2>1, PTL
<1> QED
  BY <1>3, <1>4

-----------------------------------------------------------------------------
(* One request at a time: the tables and memory agree *)

Rows(g) == {u \in Uid : <<u, g>> \in memberTable}

OwnerRows(g) == {o \in Uid : <<g, o>> \in groupTable}

\* A group has one owner, and only a torn one has members and no owner.
TableInv(g) == /\ \A o1, o2 \in OwnerRows(g) : o1 = o2
               /\ g \notin torn /\ OwnerRows(g) = {} => Rows(g) = {}

\* What a handler between its statements and its maps has done to the tables,
\* seen from memory, which does not know yet.
Between(w) ==
    LET g == job[w].gid
        at(op, labels) == job[w].op = op /\ job[w].at \in labels
    IN  /\ at("/join_group", {"memory"}) /\ g \notin torn
              => Rows(g) = members[g] \cup {job[w].uid}
        /\ at("/create_group", {"addMember"}) /\ g \notin torn => Rows(g) = {}
        /\ at("/create_group", {"memory"}) /\ g \notin torn => Rows(g) = {job[w].uid}
        /\ at("/create_group", {"addMember", "memory"}) => OwnerRows(g) = {job[w].uid}
        /\ at("/leave_group", {"memory"}) /\ g \notin torn
              => Rows(g) = members[g] \ {job[w].uid}
        /\ at("/leave_group", {"removeGroup", "eraseGroup"}) => Rows(g) = {}
        /\ at("/leave_group", {"eraseGroup"}) => OwnerRows(g) = {}

\* Handlers between a statement about g and the entry of memory it is about.
AboutMembers(w, g) == job[w].gid = g /\ job[w].at \in {"memory", "removeGroup", "eraseGroup"}

AboutOwner(w, g) == /\ job[w].gid = g
                    /\ \/ job[w].op = "/create_group" /\ job[w].at \in {"addMember", "memory"}
                       \/ job[w].at = "eraseGroup"

MembersAgree(g) == members[g] = Rows(g)

OwnerAgrees(g) == {owner_id[g]} \ {Nobody} = OwnerRows(g)

MapInv(g) ==
    up /\ g \notin torn => /\ MembersAgree(g) \/ \E w \in Worker : AboutMembers(w, g)
                           /\ OwnerAgrees(g) \/ \E w \in Worker : AboutOwner(w, g)

AgreeInv == /\ \A g \in Group : TableInv(g) /\ MapInv(g)
            /\ \A w \in Worker : Between(w)

\* The handler of w has changed the tables and not yet memory.
Apart(w) == \/ job[w].at \in {"memory", "removeGroup", "eraseGroup"}
            \/ job[w].op = "/create_group" /\ job[w].at = "addMember"

GroupState == <<groupTable, memberTable, owner_id, members, torn, up>>

\* A step that changes neither and does not begin or end such a stretch.
LEMMA QuietStep ==
    ASSUME AgreeInv, Alone, NEW w \in Worker, UNCHANGED GroupState,
           ~Apart(w), ~Apart(w)'
    PROVE  AgreeInv'
<1>1. \A g \in Group : /\ Rows(g)' = Rows(g) /\ OwnerRows(g)' = OwnerRows(g)
                       /\ MembersAgree(g)' = MembersAgree(g)
                       /\ OwnerAgrees(g)' = OwnerAgrees(g)
  BY DEF Rows, OwnerRows, MembersAgree, OwnerAgrees, GroupState
<1>2. \A g \in Group : TableInv(g)'
  BY <1>1 DEF AgreeInv, TableInv, GroupState
<1>3. \A g \in Group : MapInv(g)'
  BY <1>1 DEF AgreeInv, MapInv, GroupState, AboutMembers, AboutOwner, Apart, Alone
<1>4. \A v \in Worker : Between(v)'
  BY DEF Between, Apart, Alone
<1> QED
  BY <1>2, <1>3, <1>4 DEF AgreeInv

\* The handlers that come between the tables and memory.
Splitting(w) == \/ InsertGroup(w) \/ AddMember(w) \/ CreateInMemory(w) \/ JoinInMemory(w)
                \/ RemoveMember(w) \/ LeaveInMemory(w)
                \/ RemoveAllMembers(w) \/ RemoveGroup(w) \/ EraseGroup(w)
                \/ StatementFails(w) \/ Terminates(w)

LEMMA OthersQuiet ==
    ASSUME TypeInv, NEW w \in Worker, Handle(w), ~Splitting(w)
    PROVE  /\ UNCHANGED GroupState
           /\ ~Apart(w) /\ ~Apart(w)'
<1>0. job \in [Worker -> Job]
  BY DEF TypeInv, TypeOK
<1>1. UNCHANGED GroupState
  BY DEF Handle, Splitting, GroupState, dbVars, memVars, groupVars, notes, Verified, FindToken,
     IndexToken, CreateUser, GetUser, GetToken, InsertToken, MapToken, MapAddress, EraseAddress,
     EraseToken, OwnerLeaves, ShareFile, AddFile, ShareAddress, PeerAddress, CheckPeers, ListPeers
<1>2. ~Apart(w)
  BY DEF Handle, Splitting, At, Apart, Verified, FindToken,
     IndexToken, CreateUser, GetUser, GetToken, InsertToken, MapToken, MapAddress, EraseAddress,
     EraseToken, OwnerLeaves, ShareFile, AddFile, ShareAddress, PeerAddress, CheckPeers, ListPeers
<1>3. CASE FindToken(w) \/ IndexToken(w)
  <2>1. /\ AfterLookup(job[w].op) \in Authorised
        /\ job[w].op = "/create_group" => AfterLookup(job[w].op) = "insertGroup"
    BY <1>3, TrackerAssumption, AuthorisedLabel
       DEF FindToken, IndexToken, TypeInv, JobsFilled, LookupsAuthorised
  <2>2. /\ job'[w].op = job[w].op
        /\ job'[w].at \in {"index", AfterLookup(job[w].op)}
    BY <1>0, <1>3 DEF FindToken, IndexToken, Step, Job
  <2> QED
    BY <1>1, <1>2, <2>1, <2>2 DEF Authorised, Apart
<1>4. ASSUME ~FindToken(w), ~IndexToken(w)
      PROVE  \/ Respond(w)
             \/ \E label \in Label \ {"memory", "addMember", "removeGroup", "eraseGroup"} :
                   Step(w, label)
  BY <1>4 DEF Handle, Splitting, Verified, CreateUser, GetUser, GetToken, InsertToken, MapToken,
     MapAddress, EraseAddress, EraseToken, OwnerLeaves, ShareFile, AddFile, ShareAddress,
     PeerAddress, ServerAddress, CheckPeers, ListPeers, Label
<1>5. Respond(w) => ~Apart(w)'
  BY <1>0 DEF Respond, Idle, Job, Apart
<1>6. ASSUME NEW label \in Label \ {"memory", "addMember", "removeGroup", "eraseGroup"},
             Step(w, label)
      PROVE  ~Apart(w)'
  BY <1>0, <1>6 DEF Step, Job, Apart
<1> QED
  BY <1>1, <1>2, <1>3, <1>4, <1>5, <1>6

\* A step of the only handler that touches one group leaves the others as
\* they were: only that group has to be looked at.
LEMMA FocusOnGroup ==
    ASSUME AgreeInv, Alone, NEW w \in Worker, NEW h \in Group, job[w].gid = h,
           up' = up,
           \A g \in Group \ {h} : /\ Rows(g)' = Rows(g) /\ OwnerRows(g)' = OwnerRows(g)
                                  /\ members'[g] = members[g] /\ owner_id'[g] = owner_id[g]
                                  /\ g \in torn' <=> g \in torn,
           TableInv(h)', MapInv(h)', Between(w)'
    PROVE  AgreeInv'
<1>1. ASSUME NEW g \in Group \ {h} PROVE TableInv(g)' /\ MapInv(g)'
  <2>1. TableInv(g) /\ MapInv(g)
    BY DEF AgreeInv
  <2>2. \A v \in Worker : ~AboutMembers(v, g) /\ ~AboutOwner(v, g)
    BY DEF Alone, AboutMembers, AboutOwner
  <2>3. TableInv(g)'
    BY <2>1 DEF TableInv
  <2>4. up /\ g \notin torn => MembersAgree(g) /\ OwnerAgrees(g)
    BY <2>1, <2>2 DEF MapInv
  <2> QED
    BY <2>3, <2>4 DEF MapInv, MembersAgree, OwnerAgrees
<1>2. \A v \in Worker : Between(v)'
  BY DEF Alone
<1> QED
  BY <1>1, <1>2 DEF AgreeInv

LEMMA HandleAgrees ==
    ASSUME TypeInv, Alone, NamedInv, NamedTables', AgreeInv, NEW w \in Worker, Handle(w)
    PROVE  AgreeInv'
<1>h. PICK h : h = job[w].gid
  OBVIOUS
<1>u. PICK u : u = job[w].uid
  OBVIOUS
<1> USE <1>h, <1>u
<1>0. /\ job \in [Worker -> Job] /\ members \in [Group -> SUBSET Uid]
      /\ owner_id \in [Group -> Uid] /\ groupTable \subseteq Group \X Uid
      /\ memberTable \subseteq Uid \X Group /\ u \in Uid
  BY JobParts DEF TypeInv, TypeOK, Job
<1>1. h \in Group => TableInv(h) /\ MapInv(h) /\ Between(w)
  BY DEF AgreeInv
<1>2. ASSUME NEW label \in Label, Step(w, label)
      PROVE  /\ job'[w].op = job[w].op /\ job'[w].gid = h /\ job'[w].uid = u
             /\ job'[w].at = label
  BY <1>0, <1>2 DEF Step, Job
<1>3. Respond(w) => job'[w] = Idle /\ ~Apart(w)' /\ Between(w)'
  BY <1>0 DEF Respond, Idle, Apart, Between
<1>4. \A g \in Group : /\ up /\ g \notin torn /\ (g # h \/ ~Apart(w)) => MembersAgree(g)
                       /\ up /\ g \notin torn /\ (g # h \/ ~Apart(w)) => OwnerAgrees(g)
  BY DEF AgreeInv, MapInv, Alone, AboutMembers, AboutOwner, Apart
<1>5. CASE InsertGroup(w)
  <2>1. /\ h \in Group /\ job[w].op = "/create_group" /\ job[w].at = "insertGroup"
        /\ ~Apart(w) /\ UNCHANGED <<memberTable, members, owner_id, torn, up>>
    BY <1>5, JobParts DEF InsertGroup, At, memVars, groupVars, notes, Apart
  <2>2. CASE RowTaken(h)
    <3>1. Respond(w) /\ UNCHANGED groupTable
      BY <1>5, <2>2 DEF InsertGroup
    <3> QED
      BY <1>3, <2>1, <3>1, QuietStep DEF GroupState
  <2>3. CASE ~RowTaken(h)
    <3>1. groupTable' = groupTable \cup {<<h, u>>} /\ Step(w, "addMember")
      BY <1>5, <2>3 DEF InsertGroup
    <3>2. /\ job'[w].op = "/create_group" /\ job'[w].gid = h /\ job'[w].uid = u
          /\ job'[w].at = "addMember"
      BY <1>2, <2>1, <3>1 DEF Label
    <3>3. OwnerRows(h) = {} /\ OwnerRows(h)' = {u}
      BY <1>0, <2>3, <3>1 DEF OwnerRows, RowTaken
    <3>4. \A g \in Group : Rows(g)' = Rows(g) /\ (g # h => OwnerRows(g)' = OwnerRows(g))
      BY <2>1, <3>1 DEF OwnerRows, Rows
    <3>5. h \notin torn => Rows(h) = {}
      BY <1>1, <2>1, <3>3 DEF TableInv
    <3>6. TableInv(h)'
      BY <3>3 DEF TableInv
    <3>7. MapInv(h)'
      BY <1>4, <2>1, <3>2, <3>4 DEF MapInv, MembersAgree, AboutOwner
    <3>8. Between(w)'
      BY <2>1, <3>2, <3>3, <3>4, <3>5 DEF Between
    <3> QED
      BY <2>1, <3>4, <3>6, <3>7, <3>8, FocusOnGroup
  <2> QED
    BY <2>2, <2>3
<1>6. CASE AddMember(w)
  <2>1. /\ h \in Group /\ job[w].at = "addMember"
        /\ job[w].op \in {"/create_group", "/join_group"}
        /\ UNCHANGED <<groupTable, members, owner_id, up>>
    BY <1>6, JobParts DEF AddMember, memVars, groupVars
  <2>2. CASE <<u, h>> \in memberTable
    <3>1. Respond(w) /\ UNCHANGED <<memberTable, torn>>
      BY <1>6, <2>2 DEF AddMember
    <3>2. CASE job[w].op = "/create_group"
      <4>1. h \in torn
        BY <1>0, <1>1, <2>1, <2>2, <3>2 DEF Between, Rows
      <4>2. \A g \in Group : Rows(g)' = Rows(g) /\ OwnerRows(g)' = OwnerRows(g)
        BY <2>1, <3>1 DEF Rows, OwnerRows
      <4>3. TableInv(h)' /\ MapInv(h)'
        BY <1>1, <2>1, <3>1, <4>1, <4>2 DEF TableInv, MapInv
      <4> QED
        BY <1>3, <2>1, <3>1, <4>2, <4>3, FocusOnGroup
    <3>3. CASE job[w].op # "/create_group"
      BY <1>3, <2>1, <3>1, <3>3, QuietStep DEF GroupState, Apart
    <3> QED
      BY <3>2, <3>3
  <2>3. CASE <<u, h>> \notin memberTable
    <3>1. /\ memberTable' = memberTable \cup {<<u, h>>}
          /\ torn' = IF RowTaken(h) THEN torn ELSE torn \cup {h}
          /\ Step(w, "memory")
      BY <1>6, <2>3 DEF AddMember
    <3>2. /\ job'[w].op = job[w].op /\ job'[w].gid = h /\ job'[w].uid = u
          /\ job'[w].at = "memory"
      BY <1>2, <3>1 DEF Label
    <3>3. /\ Rows(h)' = Rows(h) \cup {u}
          /\ \A g \in Group : /\ g # h => Rows(g)' = Rows(g)
                              /\ OwnerRows(g)' = OwnerRows(g)
      BY <1>0, <2>1, <3>1 DEF Rows, OwnerRows
    <3>4. h \notin torn' => h \notin torn /\ OwnerRows(h) # {}
      BY <3>1 DEF RowTaken, OwnerRows
    <3>5. TableInv(h)'
      BY <1>1, <2>1, <3>3, <3>4 DEF TableInv
    <3>6. MapInv(h)'
      <4>1. OwnerAgrees(h)' = OwnerAgrees(h)
        BY <2>1, <3>3 DEF OwnerAgrees
      <4>2. AboutMembers(w, h)' /\ (AboutOwner(w, h) => AboutOwner(w, h)')
        BY <2>1, <3>2 DEF AboutMembers, AboutOwner
      <4> QED
        BY <1>1, <2>1, <3>4, <4>1, <4>2 DEF MapInv, Alone
    <3>7. Between(w)'
      <4>1. CASE job[w].op = "/create_group"
        <5>1. /\ OwnerRows(h)' = {u}
              /\ h \notin torn' => Rows(h)' = {u}
          BY <1>1, <2>1, <3>3, <3>4, <4>1 DEF Between
        <5> QED
          BY <3>2, <4>1, <5>1 DEF Between
      <4>2. CASE job[w].op # "/create_group" /\ up
        <5>1. h \notin torn' => Rows(h)' = members'[h] \cup {u}
          BY <1>4, <2>1, <3>3, <3>4, <4>2 DEF Apart, MembersAgree
        <5> QED
          BY <2>1, <3>2, <4>2, <5>1 DEF Between
      <4>3. up
        BY <2>1 DEF NamedInv, DownIsIdle, AtRest, Idle
      <4> QED
        BY <4>1, <4>2, <4>3
    <3> QED
      BY <2>1, <3>1, <3>3, <3>5, <3>6, <3>7, FocusOnGroup
  <2> QED
    BY <2>2, <2>3
<1>7. CASE CreateInMemory(w)
  <2>1. /\ h \in Group /\ job[w].op = "/create_group" /\ job[w].at = "memory"
        /\ members' = [members EXCEPT ![h] = {u}]
        /\ owner_id' = [owner_id EXCEPT ![h] = u]
        /\ Respond(w) /\ UNCHANGED <<memberTable, groupTable, torn, up>>
    BY <1>7, JobParts DEF CreateInMemory, At, ResetGroup, dbVars, notes
  <2>2. \A g \in Group : Rows(g)' = Rows(g) /\ OwnerRows(g)' = OwnerRows(g)
    BY <2>1 DEF Rows, OwnerRows
  <2>3. OwnerRows(h) = {u} /\ (h \notin torn => Rows(h) = {u})
    BY <1>1, <2>1 DEF Between
  <2>4. u # Nobody
    BY <2>1, <2>3 DEF NamedInv, NamedTables, OwnerRows
  <2>5. (MembersAgree(h)' /\ OwnerAgrees(h)') \/ h \in torn
    BY <1>0, <2>1, <2>2, <2>3, <2>4 DEF MembersAgree, OwnerAgrees
  <2>6. TableInv(h)' /\ MapInv(h)'
    BY <1>1, <2>1, <2>2, <2>5 DEF TableInv, MapInv
  <2>7. \A g \in Group \ {h} : members'[g] = members[g] /\ owner_id'[g] = owner_id[g]
    BY <1>0, <2>1
  <2> QED
    BY <1>3, <2>1, <2>2, <2>6, <2>7, FocusOnGroup
<1>8. CASE JoinInMemory(w)
  <2>1. /\ h \in Group /\ job[w].op = "/join_group" /\ job[w].at = "memory"
        /\ members' = [members EXCEPT ![h] = @ \cup {u}]
        /\ Respond(w) /\ UNCHANGED <<memberTable, groupTable, owner_id, torn, up>>
    BY <1>8, JobParts DEF JoinInMemory, At, dbVars, notes
  <2>2. \A g \in Group : Rows(g)' = Rows(g) /\ OwnerRows(g)' = OwnerRows(g)
    BY <2>1 DEF Rows, OwnerRows
  <2>3. h \notin torn => Rows(h) = members[h] \cup {u}
    BY <1>1, <2>1 DEF Between
  <2>4. h \notin torn => MembersAgree(h)'
    BY <1>0, <2>1, <2>2, <2>3 DEF MembersAgree
  <2>5. up /\ h \notin torn => OwnerAgrees(h)'
    <3>1. up /\ h \notin torn => OwnerAgrees(h)
      BY <1>1, <2>1 DEF MapInv, AboutOwner, Alone
    <3> QED
      BY <2>1, <2>2, <3>1 DEF OwnerAgrees
  <2>6. TableInv(h)' /\ MapInv(h)'
    BY <1>1, <2>1, <2>2, <2>4, <2>5 DEF TableInv, MapInv
  <2>7. \A g \in Group \ {h} : members'[g] = members[g] /\ owner_id'[g] = owner_id[g]
    BY <1>0, <2>1
  <2> QED
    BY <1>3, <2>1, <2>2, <2>6, <2>7, FocusOnGroup
<1>9. CASE RemoveMember(w)
  <2>1. /\ h \in Group /\ job[w].op = "/leave_group" /\ job[w].at = "removeMember"
        /\ memberTable' = memberTable \ {<<u, h>>} /\ Step(w, "memory") /\ ~Apart(w)
        /\ UNCHANGED <<groupTable, members, owner_id, torn, up>>
    BY <1>9, JobParts DEF RemoveMember, At, memVars, groupVars, notes, Apart
  <2>2. /\ job'[w].op = "/leave_group" /\ job'[w].gid = h /\ job'[w].uid = u
        /\ job'[w].at = "memory"
    BY <1>2, <2>1 DEF Label
  <2>3. /\ Rows(h)' = Rows(h) \ {u}
        /\ \A g \in Group : /\ g # h => Rows(g)' = Rows(g)
                            /\ OwnerRows(g)' = OwnerRows(g)
    BY <1>0, <2>1 DEF Rows, OwnerRows
  <2>4. up
    BY <2>1 DEF NamedInv, DownIsIdle, AtRest, Idle
  <2>5. h \notin torn => Rows(h) = members[h] /\ OwnerAgrees(h)
    BY <1>4, <2>1, <2>4 DEF MembersAgree
  <2>6. TableInv(h)'
    BY <1>1, <2>1, <2>3 DEF TableInv
  <2>7. MapInv(h)'
    BY <2>1, <2>2, <2>3, <2>5 DEF MapInv, OwnerAgrees, AboutMembers
  <2>8. Between(w)'
    BY <2>1, <2>2, <2>3, <2>5 DEF Between
  <2> QED
    BY <2>1, <2>3, <2>6, <2>7, <2>8, FocusOnGroup
<1>10. CASE LeaveInMemory(w)
  <2>1. /\ h \in Group /\ job[w].op = "/leave_group" /\ job[w].at = "memory"
        /\ members' = [members EXCEPT ![h] = @ \ {u}]
        /\ Step(w, "owner") /\ UNCHANGED <<memberTable, groupTable, owner_id, torn, up>>
    BY <1>10, JobParts DEF LeaveInMemory, At, dbVars, notes
  <2>2. \A g \in Group : Rows(g)' = Rows(g) /\ OwnerRows(g)' = OwnerRows(g)
    BY <2>1 DEF Rows, OwnerRows
  <2>3. h \notin torn => Rows(h) = members[h] \ {u}
    BY <1>1, <2>1 DEF Between
  <2>4. h \notin torn => MembersAgree(h)'
    BY <1>0, <2>1, <2>2, <2>3 DEF MembersAgree
  <2>5. up /\ h \notin torn => OwnerAgrees(h)'
    <3>1. up /\ h \notin torn => OwnerAgrees(h)
      BY <1>1, <2>1 DEF MapInv, AboutOwner, Alone
    <3> QED
      BY <2>1, <2>2, <3>1 DEF OwnerAgrees
  <2>6. TableInv(h)' /\ MapInv(h)'
    BY <1>1, <2>1, <2>2, <2>4, <2>5 DEF TableInv, MapInv
  <2>7. \A g \in Group \ {h} : members'[g] = members[g] /\ owner_id'[g] = owner_id[g]
    BY <1>0, <2>1
  <2>8. Between(w)'
    BY <1>2, <2>1 DEF Between, Label
  <2> QED
    BY <2>1, <2>2, <2>6, <2>7, <2>8, FocusOnGroup
<1>11. CASE RemoveAllMembers(w)
  <2>1. /\ h \in Group /\ job[w].op = "/leave_group" /\ job[w].at = "removeAll" /\ ~Apart(w)
        /\ memberTable' = {row \in memberTable : row[2] # h} /\ Step(w, "removeGroup")
        /\ UNCHANGED <<groupTable, members, owner_id, torn, up>>
    BY <1>11, JobParts DEF RemoveAllMembers, At, memVars, groupVars, notes, Apart
  <2>2. /\ job'[w].op = "/leave_group" /\ job'[w].gid = h /\ job'[w].at = "removeGroup"
    BY <1>2, <2>1 DEF Label
  <2>3. /\ Rows(h)' = {}
        /\ \A g \in Group : /\ g # h => Rows(g)' = Rows(g)
                            /\ OwnerRows(g)' = OwnerRows(g)
    BY <1>0, <2>1 DEF Rows, OwnerRows
  <2>4. TableInv(h)'
    BY <1>1, <2>1, <2>3 DEF TableInv
  <2>5. MapInv(h)'
    <3>1. up /\ h \notin torn => OwnerAgrees(h)
      BY <1>4, <2>1
    <3>2. AboutMembers(w, h)'
      BY <2>2 DEF AboutMembers
    <3> QED
      BY <2>1, <2>3, <3>1, <3>2 DEF MapInv, OwnerAgrees
  <2>6. Between(w)'
    BY <2>2, <2>3 DEF Between
  <2> QED
    BY <2>1, <2>3, <2>4, <2>5, <2>6, FocusOnGroup
<1>12. CASE RemoveGroup(w)
  <2>1. /\ h \in Group /\ job[w].op = "/leave_group" /\ job[w].at = "removeGroup"
        /\ groupTable' = {row \in groupTable : row[1] # h} /\ Step(w, "eraseGroup")
        /\ UNCHANGED <<memberTable, members, owner_id, torn, up>>
    BY <1>12, JobParts DEF RemoveGroup, At, memVars, groupVars, notes
  <2>2. /\ job'[w].op = "/leave_group" /\ job'[w].gid = h /\ job'[w].at = "eraseGroup"
    BY <1>2, <2>1 DEF Label
  <2>3. /\ OwnerRows(h)' = {}
        /\ \A g \in Group : /\ g # h => OwnerRows(g)' = OwnerRows(g)
                            /\ Rows(g)' = Rows(g)
    BY <1>0, <2>1 DEF Rows, OwnerRows
  <2>4. Rows(h)' = {}
    BY <1>1, <2>1, <2>3 DEF Between
  <2>5. TableInv(h)' /\ Between(w)'
    BY <2>2, <2>3, <2>4 DEF TableInv, Between
  <2>6. MapInv(h)'
    BY <2>2 DEF MapInv, AboutMembers, AboutOwner
  <2> QED
    BY <2>1, <2>3, <2>5, <2>6, FocusOnGroup
<1>13. CASE EraseGroup(w)
  <2>1. /\ h \in Group /\ job[w].op = "/leave_group" /\ job[w].at = "eraseGroup"
        /\ members' = [members EXCEPT ![h] = {}]
        /\ owner_id' = [owner_id EXCEPT ![h] = Nobody]
        /\ torn' = torn \ {h}
        /\ Respond(w) /\ UNCHANGED <<memberTable, groupTable, up>>
    BY <1>13, JobParts DEF EraseGroup, At, ResetGroup, dbVars
  <2>2. \A g \in Group : Rows(g)' = Rows(g) /\ OwnerRows(g)' = OwnerRows(g)
    BY <2>1 DEF Rows, OwnerRows
  <2>3. Rows(h) = {} /\ OwnerRows(h) = {}
    BY <1>1, <2>1 DEF Between
  <2>4. MembersAgree(h)' /\ OwnerAgrees(h)'
    BY <1>0, <2>1, <2>2, <2>3 DEF MembersAgree, OwnerAgrees
  <2>5. TableInv(h)' /\ MapInv(h)'
    BY <2>1, <2>2, <2>3, <2>4 DEF TableInv, MapInv
  <2>6. \A g \in Group \ {h} : members'[g] = members[g] /\ owner_id'[g] = owner_id[g]
    BY <1>0, <2>1
  <2> QED
    BY <1>3, <2>1, <2>2, <2>5, <2>6, FocusOnGroup
<1>14. CASE StatementFails(w)
  <2>1. /\ Respond(w) /\ UNCHANGED <<groupTable, memberTable, members, owner_id, up>>
        /\ torn' = IF job[w].at = "removeGroup" THEN torn \cup {h} ELSE torn
    BY <1>14 DEF StatementFails, dbVars, memVars, groupVars
  <2>2. CASE job[w].at = "removeGroup"
    <3>1. h \in Group /\ h \in torn'
      BY <2>1, <2>2, JobParts
    <3>2. \A g \in Group : Rows(g)' = Rows(g) /\ OwnerRows(g)' = OwnerRows(g)
      BY <2>1 DEF Rows, OwnerRows
    <3>3. TableInv(h)' /\ MapInv(h)'
      BY <1>1, <3>1, <3>2 DEF TableInv, MapInv
    <3> QED
      BY <1>3, <2>1, <2>2, <3>1, <3>2, <3>3, FocusOnGroup
  <2>3. CASE job[w].at # "removeGroup"
    <3>1. ~Apart(w)
      BY <1>14, <2>3 DEF StatementFails, At, Apart
    <3> QED
      BY <1>3, <2>1, <2>3, <3>1, QuietStep DEF GroupState
  <2> QED
    BY <2>2, <2>3
<1>15. CASE Terminates(w)
  <2>1. /\ up' = FALSE /\ job'[w] = Idle /\ UNCHANGED <<groupTable, memberTable, torn>>
    BY <1>15 DEF Terminates, ProcessEnds, dbVars
  <2>2. \A g \in Group : Rows(g)' = Rows(g) /\ OwnerRows(g)' = OwnerRows(g)
    BY <2>1 DEF Rows, OwnerRows
  <2>3. \A g \in Group : TableInv(g)' /\ MapInv(g)'
    BY <2>1, <2>2 DEF AgreeInv, TableInv, MapInv
  <2>4. \A v \in Worker : Between(v)'
    BY <2>1 DEF Alone, Between, Idle
  <2> QED
    BY <2>3, <2>4 DEF AgreeInv
<1>16. CASE ~Splitting(w)
  BY <1>16, OthersQuiet, QuietStep
<1> QED
  BY <1>5, <1>6, <1>7, <1>8, <1>9, <1>10, <1>11, <1>12, <1>13, <1>14, <1>15, <1>16
     DEF Splitting

LEMMA NextAgrees ==
    TypeInv /\ Alone /\ NamedInv /\ NamedTables' /\ AgreeInv /\ [Next]_vars => AgreeInv'
<1> SUFFICES ASSUME TypeInv, Alone, NamedInv, NamedTables', AgreeInv, [Next]_vars
             PROVE  AgreeInv'
  OBVIOUS
<1>0. job \in [Worker -> Job]
  BY DEF TypeInv, TypeOK
<1>1. CASE UNCHANGED vars
  <2>1. \A g \in Group : TableInv(g)' /\ MapInv(g)'
    BY <1>1 DEF AgreeInv, vars, TableInv, MapInv, MembersAgree, OwnerAgrees, AboutMembers,
       AboutOwner, Rows, OwnerRows
  <2>2. \A w \in Worker : Between(w)'
    BY <1>1 DEF AgreeInv, vars, Between, Rows, OwnerRows
  <2> QED
    BY <2>1, <2>2 DEF AgreeInv
<1>2. ASSUME NEW w \in Worker, Ask(w) PROVE AgreeInv'
  <2>1. PICK op \in Ops, t \in User, g \in Group, f \in File : Request(w, op, t, g, f)
    BY <1>2 DEF Ask
  <2>2. FirstStep(op) \in {"createUser", "getUser", "verified"}
    BY DEF FirstStep
  <2>3. UNCHANGED GroupState /\ job[w] = Idle /\ job'[w].at = FirstStep(op)
    BY <1>0, <2>1 DEF Request, GroupState, dbVars, memVars, groupVars, notes
  <2> QED
    BY <2>2, <2>3, QuietStep DEF Apart, Idle
<1>3. ASSUME NEW w \in Worker, Handle(w) PROVE AgreeInv'
  BY <1>3, HandleAgrees
<1>4. CASE Crash \/ Restart
  <2>1. UNCHANGED <<groupTable, memberTable>> /\ \A w \in Worker : job'[w] = Idle
    BY <1>4 DEF Crash, Restart, ProcessEnds, dbVars, NamedInv, DownIsIdle, AtRest
  <2>2. \A g \in Group : Rows(g)' = Rows(g) /\ OwnerRows(g)' = OwnerRows(g)
    BY <2>1 DEF Rows, OwnerRows
  <2>3. \A w \in Worker : Between(w)'
    BY <2>1 DEF Between, Idle
  <2>4. CASE Crash
    <3>1. \A g \in Group : TableInv(g)' /\ MapInv(g)'
      BY <2>2, <2>4 DEF AgreeInv, TableInv, MapInv, Crash, ProcessEnds
    <3> QED
      BY <2>3, <3>1 DEF AgreeInv
  <2>5. CASE Restart
    <3>1. ASSUME NEW g \in Group PROVE TableInv(g)' /\ MapInv(g)'
      <4>1. /\ owner_id'[g] = LoadedOwner(g) /\ members'[g] = LoadedMembers(g)
            /\ g \notin torn' => OwnerRows(g) # {} \/ Rows(g) = {}
        BY <2>5 DEF Restart, LoadedGroups, Rows, OwnerRows
      <4>2. TableInv(g)'
        BY <2>2, <4>1 DEF AgreeInv, TableInv
      <4>3. LoadedMembers(g) = IF OwnerRows(g) # {} THEN Rows(g) ELSE {}
        BY DEF LoadedMembers, LoadedGroups, Rows, OwnerRows
      <4>4. {LoadedOwner(g)} \ {Nobody} = OwnerRows(g)
        <5>1. CASE OwnerRows(g) = {}
          BY <5>1 DEF LoadedOwner, OwnerRows
        <5>2. CASE OwnerRows(g) # {}
          <6>1. LoadedOwner(g) \in OwnerRows(g)
            BY <5>2 DEF LoadedOwner, OwnerRows
          <6>2. Nobody \notin OwnerRows(g)
            BY DEF NamedInv, NamedTables, OwnerRows
          <6> QED
            BY <6>1, <6>2 DEF AgreeInv, TableInv
        <5> QED
          BY <5>1, <5>2
      <4> QED
        BY <2>2, <4>1, <4>2, <4>3, <4>4 DEF MapInv, MembersAgree, OwnerAgrees
    <3> QED
      BY <2>3, <3>1 DEF AgreeInv
  <2> QED
    BY <1>4, <2>4, <2>5
<1> QED
  BY <1>1, <1>2, <1>3, <1>4 DEF Next

\* With one request at a time, at rest, the tables and memory agree on every
\* member and owner of every group that is not torn, though handlers fail
\* between their statements and the tracker crashes and loads its tables
\* again.
THEOREM TablesAndMemoryAgree == Spec => []TablesAgree
<1>1. Init => AgreeInv
  BY DEF Init, AgreeInv, TableInv, MapInv, Between, MembersAgree, OwnerAgrees, Rows, OwnerRows, Idle
<1>2. Alone /\ AgreeInv => TablesAgree
  <2> SUFFICES ASSUME AgreeInv, AtRest, up, NEW g \in Group \ torn
               PROVE  MembersAgree(g) /\ OwnerAgrees(g)
    BY DEF TablesAgree, MembersAgree, OwnerAgrees, Rows, OwnerRows
  <2>1. \A w \in Worker : ~AboutMembers(w, g) /\ ~AboutOwner(w, g)
    BY DEF AtRest, AboutMembers, AboutOwner, Idle
  <2> QED
    BY <2>1 DEF AgreeInv, MapInv
<1>3. CASE Alone
  <2>1. TypeInv /\ NamedInv /\ AgreeInv /\ [Next]_vars => NamedInv' /\ AgreeInv'
    BY <1>3, NextNamed, NextAgrees DEF NamedInv
  <2> QED
    BY <1>1, <1>2, <1>3, <2>1, InitTypeInv, InitNamed, NextTypeInv, PTL DEF Spec
<1>4. CASE ~Alone
  <2>1. TablesAgree
    BY <1>4, OneWorker DEF TablesAgree
  <2> QED
    BY <2>1, PTL
<1> QED
  BY <1>3, <1>4
=============================================================================
