---------------------------- MODULE Swarm_proofs ----------------------------
(***************************************************************************)
(* Proofs about Swarm for any peers, any number of pieces and any bounds   *)
(* on restarts and faults: its type invariant, what the tracker tells      *)
(* others about a peer that serves, and that a seeder that is asked by one *)
(* peer at a time loses it no piece, nor leaves one to nobody.             *)
(***************************************************************************)
EXTENDS Swarm, FiniteSetTheorems, TLAPS

JobLabel == {"none", "connect", "loop", "stale", "fetch", "wedged", "stuck", "over"}

\* Only a peer that has asked the tracker for others has threads.
ThreadsAfterRequest ==
    \A p \in Peer : pc[p] \notin {"download", "join"} =>
        \A q \in Peer : job[p][q] = "none"

TypeInv == TypeOK /\ IsFiniteSet(restarted) /\ ThreadsAfterRequest

-----------------------------------------------------------------------------
(* What the helpers do to the tables of jobs and pieces *)

LEMMA SetJobValue ==
    ASSUME TypeOK, NEW p \in Peer, NEW q \in Peer, NEW label \in JobLabel,
           SetJob(p, q, label)
    PROVE  /\ job' \in [Peer -> [Peer -> JobLabel]]
           /\ \A a, b \in Peer :
                 job'[a][b] = IF a = p /\ b = q THEN label ELSE job[a][b]
<1>1. job \in [Peer -> [Peer -> JobLabel]]
  BY DEF TypeOK, JobLabel
<1>2. job' = [job EXCEPT ![p] = [job[p] EXCEPT ![q] = label]]
  BY <1>1 DEF SetJob
<1> QED
  BY <1>1, <1>2

LEMMA DropValue ==
    ASSUME TypeOK, NEW p \in Peer, NEW q \in Peer, Drop(p, q)
    PROVE  /\ piece' \in [Peer -> [Peer -> Piece \cup {NoPiece}]]
           /\ \A a, b \in Peer :
                 piece'[a][b] = IF a = p /\ b = q THEN NoPiece ELSE piece[a][b]
<1>1. piece \in [Peer -> [Peer -> Piece \cup {NoPiece}]]
  BY DEF TypeOK
<1>2. piece' = [piece EXCEPT ![p] = [piece[p] EXCEPT ![q] = NoPiece]]
  BY <1>1 DEF Drop
<1> QED
  BY <1>1, <1>2

LEMMA EndValues ==
    ASSUME TypeOK, NEW p \in Peer, End(p)
    PROVE  /\ pc' \in [Peer -> {"off", "login", "request", "download", "join"}]
           /\ us' \in [Peer -> {"none", "listening", "failed"}]
           /\ todo' \in [Peer -> SUBSET Piece]
           /\ job' \in [Peer -> [Peer -> JobLabel]]
           /\ piece' \in [Peer -> [Peer -> Piece \cup {NoPiece}]]
           /\ linked' \subseteq linked /\ overlap' \subseteq overlap
           /\ mixed' = mixed \ {p} /\ broken' = broken \ {p} /\ late' = late \ {p}
           /\ cut \ {p} \subseteq cut' /\ cut' \subseteq Peer
           /\ UNCHANGED <<have, started, restarted>>
           /\ \A a \in Peer : /\ pc'[a] = IF a = p THEN "off" ELSE pc[a]
                              /\ todo'[a] = IF a = p THEN {} ELSE todo[a]
           /\ \A a, b \in Peer :
                 /\ job'[a][b] = IF a = p THEN "none" ELSE job[a][b]
                 /\ piece'[a][b] = IF a = p THEN NoPiece ELSE piece[a][b]
                 /\ <<a, b>> \in overlap' => a # p
<1>1. job \in [Peer -> [Peer -> JobLabel]] /\ piece \in [Peer -> [Peer -> Piece \cup {NoPiece}]]
  BY DEF TypeOK, JobLabel
<1>2. /\ pc \in [Peer -> {"off", "login", "request", "download", "join"}]
      /\ us \in [Peer -> {"none", "listening", "failed"}]
      /\ todo \in [Peer -> SUBSET Piece]
  BY DEF TypeOK
<1>3. /\ pc' = [pc EXCEPT ![p] = "off"]
      /\ us' = [us EXCEPT ![p] = "none"]
      /\ todo' = [todo EXCEPT ![p] = {}]
      /\ job' = [job EXCEPT ![p] = [q \in Peer |-> "none"]]
      /\ piece' = [piece EXCEPT ![p] = [q \in Peer |-> NoPiece]]
      /\ linked' = {l \in linked : p \notin {l[1], l[2]}}
      /\ overlap' = {l \in overlap : p \notin {l[1], l[2]}}
      /\ mixed' = mixed \ {p} /\ broken' = broken \ {p} /\ late' = late \ {p}
      /\ UNCHANGED <<have, started, restarted>>
  BY DEF End, GoTo, NoJobs, Without
<1>7. cut \ {p} \subseteq cut' /\ cut' \subseteq Peer
  BY DEF End, TypeOK
<1>4. job' \in [Peer -> [Peer -> JobLabel]] /\ piece' \in [Peer -> [Peer -> Piece \cup {NoPiece}]]
  BY <1>1, <1>3 DEF JobLabel
<1>5. \A a, b \in Peer :
         /\ job'[a][b] = IF a = p THEN "none" ELSE job[a][b]
         /\ piece'[a][b] = IF a = p THEN NoPiece ELSE piece[a][b]
  BY <1>1, <1>3
<1>6. \A a, b \in Peer : <<a, b>> \in overlap' => a # p
  BY <1>3
<1> QED
  BY <1>2, <1>3, <1>4, <1>5, <1>6, <1>7

\* The job of the thread [a][b] when the thread [p][q] takes the piece i.
AfterTake(p, q, i, a, b) ==
    IF a = p /\ b = q THEN "fetch"
    ELSE IF a = p /\ job[a][b] = "loop" /\ todo[p] = {i} THEN "stale"
    ELSE job[a][b]

\* A request that goes out, and those that it overlaps with.
LEMMA TakeValues ==
    ASSUME TypeOK, NEW p \in Peer, NEW q \in Peer, NEW i \in Piece, Take(p, q, i)
    PROVE  /\ job' \in [Peer -> [Peer -> JobLabel]]
           /\ \A a, b \in Peer : job'[a][b] = AfterTake(p, q, i, a, b)
           /\ piece' \in [Peer -> [Peer -> Piece \cup {NoPiece}]]
           /\ \A a, b \in Peer : piece'[a][b] = IF a = p /\ b = q THEN i ELSE piece[a][b]
<1>a. /\ job \in [Peer -> [Peer -> JobLabel]]
      /\ piece \in [Peer -> [Peer -> Piece \cup {NoPiece}]]
  BY DEF TypeOK, JobLabel
<1>1. /\ job' \in [Peer -> [Peer -> JobLabel]]
      /\ \A a, b \in Peer : job'[a][b] = AfterTake(p, q, i, a, b)
  <2> DEFINE row == [r \in Peer |-> CASE r = q -> "fetch"
                                   [] r # q /\ job[p][r] = "loop" /\ todo[p] = {i} -> "stale"
                                   [] OTHER -> job[p][r]]
  <2>1. /\ row \in [Peer -> JobLabel]
        /\ \A b \in Peer : row[b] = IF b = q THEN "fetch"
                                    ELSE IF job[p][b] = "loop" /\ todo[p] = {i} THEN "stale"
                                    ELSE job[p][b]
    BY <1>a DEF JobLabel
  <2>2. job' = [job EXCEPT ![p] = row]
    BY DEF Take
  <2> QED
    BY <1>a, <2>1, <2>2 DEF AfterTake
<1>2. /\ piece' \in [Peer -> [Peer -> Piece \cup {NoPiece}]]
      /\ \A a, b \in Peer : piece'[a][b] = IF a = p /\ b = q THEN i ELSE piece[a][b]
  <2>1. piece' = [piece EXCEPT ![p] = [piece[p] EXCEPT ![q] = i]]
    BY <1>a DEF Take
  <2> QED
    BY <1>a, <2>1
<1> QED
  BY <1>1, <1>2

LEMMA TakeOverlaps ==
    ASSUME NEW p \in Peer, NEW q \in Peer, NEW i \in Piece, Take(p, q, i)
    PROVE  \E new : /\ overlap' = overlap \cup new
                    /\ mixed' = mixed \cup {l[1] : l \in new}
                    /\ \A l \in new : \E a, b \in Peer :
                         l = <<a, b>> /\ ((a = p /\ b = q) \/ job[a][b] = "fetch")
<1>1. PICK new : /\ new = {<<r, q>> : r \in Readers(q)} \cup {<<r, p>> : r \in Readers(p)}
                            \cup (IF Readers(q) # {} \/ Writing(q) THEN {<<p, q>>} ELSE {})
                 /\ overlap' = overlap \cup new
                 /\ mixed' = mixed \cup {l[1] : l \in new}
  BY DEF Take
<1>2. \A l \in new : \E a, b \in Peer : l = <<a, b>> /\ ((a = p /\ b = q) \/ job[a][b] = "fetch")
  BY <1>1 DEF Readers
<1> QED
  BY <1>1, <1>2

-----------------------------------------------------------------------------
(* TypeInv is inductive *)

\* The end of a process keeps the types, if what it does beside does.
LEMMA EndTypeInv ==
    ASSUME TypeInv, NEW p \in Peer, End(p),
           up' \in BOOLEAN, seeders' \subseteq Seeder, leechers' \subseteq Leecher,
           address' \in [Peer -> {"none", "login", "server"}],
           faults' \in 0 .. MaxFaults, forgot' \in BOOLEAN
    PROVE  TypeInv'
<1>1. \A a, b \in Peer : /\ piece[a][b] # NoPiece <=> job[a][b] \in {"fetch", "stuck"}
                         /\ <<a, b>> \in overlap => job[a][b] = "fetch"
                         /\ job[a][a] = "none"
  BY DEF TypeInv, TypeOK
<1>5. /\ overlap' \subseteq overlap
      /\ \A a, b \in Peer :
            /\ job'[a][b] = IF a = p THEN "none" ELSE job[a][b]
            /\ piece'[a][b] = IF a = p THEN NoPiece ELSE piece[a][b]
            /\ <<a, b>> \in overlap' => a # p
  BY EndValues DEF TypeInv
<1>2. \A a, b \in Peer : /\ piece'[a][b] # NoPiece <=> job'[a][b] \in {"fetch", "stuck"}
                         /\ <<a, b>> \in overlap' => job'[a][b] = "fetch"
                         /\ job'[a][a] = "none"
  <2> SUFFICES ASSUME NEW a \in Peer, NEW b \in Peer
               PROVE  /\ piece'[a][b] # NoPiece <=> job'[a][b] \in {"fetch", "stuck"}
                      /\ <<a, b>> \in overlap' => job'[a][b] = "fetch"
                      /\ job'[a][a] = "none"
    OBVIOUS
  <2>2. CASE a = p
    BY <1>5, <2>2
  <2>3. CASE a # p
    <3>1. /\ piece'[a][b] = piece[a][b] /\ job'[a][b] = job[a][b] /\ job'[a][a] = job[a][a]
          /\ <<a, b>> \in overlap' => <<a, b>> \in overlap
      BY <1>5, <2>3
    <3>2. /\ piece[a][b] # NoPiece <=> job[a][b] \in {"fetch", "stuck"}
          /\ <<a, b>> \in overlap => job[a][b] = "fetch"
          /\ job[a][a] = "none"
      BY <1>1
    <3> QED
      BY <3>1, <3>2
  <2> QED
    BY <2>2, <2>3
<1>4. ThreadsAfterRequest'
  <2>2. \A a \in Peer : pc'[a] = IF a = p THEN "off" ELSE pc[a]
    BY EndValues DEF TypeInv
  <2> SUFFICES ASSUME NEW a \in Peer, pc'[a] \notin {"download", "join"}, NEW b \in Peer
               PROVE  job'[a][b] = "none"
    BY DEF ThreadsAfterRequest
  <2>3. job'[a][b] = IF a = p THEN "none" ELSE job[a][b]
    BY <1>5
  <2> QED
    BY <2>2, <2>3 DEF TypeInv, ThreadsAfterRequest
<1>3. /\ pc' \in [Peer -> {"off", "login", "request", "download", "join"}]
      /\ us' \in [Peer -> {"none", "listening", "failed"}]
      /\ todo' \in [Peer -> SUBSET Piece]
      /\ job' \in [Peer -> [Peer -> JobLabel]]
      /\ piece' \in [Peer -> [Peer -> Piece \cup {NoPiece}]]
      /\ linked' \subseteq linked /\ overlap' \subseteq overlap
      /\ mixed' = mixed \ {p} /\ broken' = broken \ {p} /\ late' = late \ {p}
      /\ cut \ {p} \subseteq cut' /\ cut' \subseteq Peer
      /\ UNCHANGED <<have, started, restarted>>
  BY EndValues DEF TypeInv
<1> QED
  BY <1>2, <1>3, <1>4 DEF TypeInv, TypeOK, JobLabel

LEMMA InitTypeInv == Init => TypeInv
<1> SUFFICES ASSUME Init PROVE TypeInv
  OBVIOUS
<1>1. IsFiniteSet({}) /\ Cardinality({}) = 0
  BY FS_EmptySet
<1>2. have \in [Peer -> SUBSET Piece]
  BY DEF Init
<1>3. job \in [Peer -> [Peer -> JobLabel]] /\ \A a, b \in Peer : job[a][b] = "none"
  BY DEF Init, NoJobs, JobLabel
<1>4. piece \in [Peer -> [Peer -> Piece \cup {NoPiece}]] /\ \A a, b \in Peer : piece[a][b] = NoPiece
  BY DEF Init
<1>5. MaxRestarts \in Nat /\ MaxFaults \in Nat
  BY SwarmAssumption
<1>6. TypeOK
  <2>1. \A a, b \in Peer : /\ piece[a][b] # NoPiece <=> job[a][b] \in {"fetch", "stuck"}
                           /\ <<a, b>> \in overlap => job[a][b] = "fetch"
                           /\ job[a][a] = "none"
    BY <1>3, <1>4 DEF Init
  <2> QED
    <3>1. us \in [Peer -> {"none", "listening", "failed"}]
    BY DEF Init
    <3>2. todo \in [Peer -> SUBSET Piece]
    BY DEF Init
    <3>3. Cardinality(restarted) <= MaxRestarts /\ faults \in 0 .. MaxFaults
    BY <1>5, <1>1 DEF Init
    <3>4. address \in [Peer -> {"none", "login", "server"}]
    BY DEF Init
    <3>5. pc \in [Peer -> {"off", "login", "request", "download", "join"}]
    BY DEF Init
    <3>6. \A p, q \in Peer : <<p, q>> \in overlap => job[p][q] = "fetch"
    BY DEF Init
    <3> QED
    BY <2>1, <1>2, <1>3, <1>4, <3>1, <3>2, <3>3, <3>4, <3>5, <3>6 DEF Init, TypeOK, JobLabel
<1> QED
  BY <1>1, <1>3, <1>6 DEF Init, TypeInv, ThreadsAfterRequest

\* A step of the thread of p for q keeps the types, if the job and the piece
\* of that thread go together.
LEMMA ThreadTypeInv ==
    ASSUME TypeInv, UNCHANGED <<trackerVars, pc, us, started, restarted>>,
           faults' \in 0 .. MaxFaults,
           broken' \subseteq Peer, late' \subseteq cut', cut' \subseteq Peer,
           have' \in [Peer -> SUBSET Piece], todo' \in [Peer -> SUBSET Piece],
           job' \in [Peer -> [Peer -> JobLabel]],
           piece' \in [Peer -> [Peer -> Piece \cup {NoPiece}]],
           linked' \subseteq Peer \X Peer, overlap' \subseteq Peer \X Peer, mixed' \subseteq Peer,
           \A a, b \in Peer : /\ piece'[a][b] # NoPiece <=> job'[a][b] \in {"fetch", "stuck"}
                              /\ <<a, b>> \in overlap' => job'[a][b] = "fetch"
                              /\ job[a][b] = "none" => job'[a][b] = "none"
    PROVE  TypeInv'
<1>1. TypeOK'
  BY DEF TypeInv, TypeOK, JobLabel, trackerVars
<1>2. ThreadsAfterRequest'
  BY DEF TypeInv, ThreadsAfterRequest
<1> QED
  BY <1>1, <1>2 DEF TypeInv

LEMMA FaultInBound == ASSUME TypeOK, Fault PROVE faults' \in 0 .. MaxFaults
BY SwarmAssumption DEF TypeOK, Fault

\* What the end of a fetch leaves in the bounds and the history.
EndsTypes == faults' \in 0 .. MaxFaults /\ late' \subseteq cut' /\ cut' \subseteq Peer

LEMMA EndsValues ==
    ASSUME TypeOK, NEW p \in Peer, NEW q \in Peer, NEW cause \in Causes, Ends(p, q, cause)
    PROVE  EndsTypes /\ job[p][q] = "fetch" /\ cut' = cut \cup {p}
<1>1. faults' \in 0 .. MaxFaults
  BY FaultInBound DEF Ends, TypeOK
<1> QED
  BY <1>1 DEF Ends, EndsTypes, TypeOK

LEMMA ThreadStepTypeInv ==
    ASSUME TypeInv, NEW p \in Peer, NEW q \in Peer, Fetch(p, q)
    PROVE  TypeInv'
<1>a. /\ TypeOK
      /\ have \in [Peer -> SUBSET Piece] /\ todo \in [Peer -> SUBSET Piece]
      /\ job \in [Peer -> [Peer -> JobLabel]]
      /\ piece \in [Peer -> [Peer -> Piece \cup {NoPiece}]]
      /\ linked \subseteq Peer \X Peer /\ overlap \subseteq Peer \X Peer /\ mixed \subseteq Peer
      /\ broken \subseteq Peer /\ late \subseteq cut /\ cut \subseteq Peer
      /\ faults \in 0 .. MaxFaults
      /\ \A a, b \in Peer : /\ piece[a][b] # NoPiece <=> job[a][b] \in {"fetch", "stuck"}
                            /\ <<a, b>> \in overlap => job[a][b] = "fetch"
  BY DEF TypeInv, TypeOK, JobLabel
<1>1. CASE Connect(p, q)
  <2>1. PICK label \in {"loop", "over"} : SetJob(p, q, label)
    BY <1>1 DEF Connect
  <2>2. linked' \subseteq Peer \X Peer /\ late' \subseteq cut' /\ cut' \subseteq Peer
    BY <1>a, <1>1 DEF Connect
  <2>3. /\ job' \in [Peer -> [Peer -> JobLabel]] /\ job[p][q] = "connect"
        /\ \A a, b \in Peer : job'[a][b] = IF a = p /\ b = q THEN label ELSE job[a][b]
    BY <1>a, <1>1, <2>1, SetJobValue DEF Connect, JobLabel
  <2>4. UNCHANGED <<trackerVars, pc, us, started, restarted, faults, have, todo, piece, overlap,
                    broken, mixed>>
    BY <1>1 DEF Connect, bounds
  <2>5. \A a, b \in Peer : /\ piece'[a][b] # NoPiece <=> job'[a][b] \in {"fetch", "stuck"}
                           /\ <<a, b>> \in overlap' => job'[a][b] = "fetch"
                           /\ job[a][b] = "none" => job'[a][b] = "none"
    <3> SUFFICES ASSUME NEW a \in Peer, NEW b \in Peer
                 PROVE  /\ piece[a][b] # NoPiece <=> job'[a][b] \in {"fetch", "stuck"}
                        /\ <<a, b>> \in overlap => job'[a][b] = "fetch"
                        /\ job[a][b] = "none" => job'[a][b] = "none"
      BY <2>4
    <3>1. /\ piece[a][b] # NoPiece <=> job[a][b] \in {"fetch", "stuck"}
          /\ <<a, b>> \in overlap => job[a][b] = "fetch"
      BY <1>a
    <3>2. CASE a = p /\ b = q
      BY <2>3, <3>1, <3>2
    <3>3. CASE ~(a = p /\ b = q)
      BY <2>3, <3>1, <3>3
    <3> QED
      BY <3>2, <3>3
  <2> QED
    BY <1>a, <2>2, <2>3, <2>4, <2>5, ThreadTypeInv
<1>2. CASE Finish(p, q)
  BY <1>a, <1>2, SetJobValue, ThreadTypeInv, SMTT(20) DEF Finish, Unlink, bounds, marks, JobLabel
<1>3. ASSUME NEW i \in Piece, Take(p, q, i) PROVE TypeInv'
  <2>1. /\ job' \in [Peer -> [Peer -> JobLabel]]
        /\ \A a, b \in Peer : job'[a][b] = AfterTake(p, q, i, a, b)
    BY <1>a, <1>3, TakeValues
  <2>2. /\ piece' \in [Peer -> [Peer -> Piece \cup {NoPiece}]]
        /\ \A a, b \in Peer : piece'[a][b] = IF a = p /\ b = q THEN i ELSE piece[a][b]
    BY <1>a, <1>3, TakeValues
  <2>3. PICK new :
          /\ overlap' = overlap \cup new
          /\ mixed' = mixed \cup {l[1] : l \in new}
          /\ \A l \in new : \E a, b \in Peer :
                l = <<a, b>> /\ ((a = p /\ b = q) \/ job[a][b] = "fetch")
    BY <1>3, TakeOverlaps
  <2>5. overlap' \subseteq Peer \X Peer /\ mixed' \subseteq Peer
    BY <1>a, <2>3
  <2>6. \A a, b \in Peer : <<a, b>> \in overlap' => job'[a][b] = "fetch"
    BY <1>a, <2>1, <2>3 DEF AfterTake
  <2>7. todo' \in [Peer -> SUBSET Piece] /\ i # NoPiece /\ job[p][q] # "none"
    BY <1>a, <1>3 DEF Take, Piece, NoPiece
  <2>8. \A a, b \in Peer : piece'[a][b] # NoPiece <=> job'[a][b] \in {"fetch", "stuck"}
    <3> SUFFICES ASSUME NEW a \in Peer, NEW b \in Peer
                 PROVE  piece'[a][b] # NoPiece <=> job'[a][b] \in {"fetch", "stuck"}
      OBVIOUS
    <3>1. piece[a][b] # NoPiece <=> job[a][b] \in {"fetch", "stuck"}
      BY <1>a
    <3>2. CASE a = p /\ b = q
      BY <2>1, <2>2, <2>7, <3>2 DEF AfterTake
    <3>3. CASE ~(a = p /\ b = q)
      <4>1. piece'[a][b] = piece[a][b]
        BY <2>2, <3>3
      <4>2. job'[a][b] = job[a][b] \/ (job[a][b] = "loop" /\ job'[a][b] = "stale")
        BY <2>1, <3>3 DEF AfterTake
      <4> QED
        BY <3>1, <4>1, <4>2
    <3> QED
      BY <3>2, <3>3
  <2> QED
    BY <1>a, <1>3, <2>1, <2>2, <2>5, <2>6, <2>7, <2>8, ThreadTypeInv DEF Take, bounds
<1>4. CASE TakeOfEmpty(p, q)
  BY <1>a, <1>4, SetJobValue, ThreadTypeInv DEF TakeOfEmpty, bounds, marks, JobLabel
<1>5. CASE StorePiece(p, q)
  <2>1. have' \in [Peer -> SUBSET Piece]
    <3>1. piece[p][q] \in Piece
      BY <1>a, <1>5 DEF StorePiece, Answered
    <3> QED
      BY <1>a, <1>5, <3>1 DEF StorePiece
  <2> QED
    BY <1>a, <1>5, <2>1, SetJobValue, DropValue, ThreadTypeInv
    DEF StorePiece, Answered, Alone, bounds, marks, JobLabel
<1>6. CASE Mismatch(p, q)
  BY <1>a, <1>6, SetJobValue, DropValue, ThreadTypeInv
  DEF Mismatch, Answered, Alone, bounds, marks, JobLabel
<1>7. CASE GiveUp(p, q)
  <2>1. todo' \in [Peer -> SUBSET Piece]
    <3>1. piece[p][q] \in Piece
      BY <1>a, <1>7 DEF GiveUp, Ends
    <3> QED
      BY <1>a, <1>7, <3>1 DEF GiveUp
  <2>2. EndsTypes
    BY <1>a, <1>7, EndsValues DEF GiveUp
  <2>3. /\ SetJob(p, q, "over") /\ Drop(p, q) /\ Alone(p, q) /\ Unlink(p, q)
        /\ UNCHANGED <<trackerVars, pc, us, have, started, restarted, broken, mixed>>
    BY <1>7 DEF GiveUp
  <2>5. job[p][q] = "fetch"
    BY <1>a, <1>7, EndsValues DEF GiveUp
  <2>4. /\ job' \in [Peer -> [Peer -> JobLabel]]
        /\ \A a, b \in Peer : job'[a][b] = IF a = p /\ b = q THEN "over" ELSE job[a][b]
        /\ piece' \in [Peer -> [Peer -> Piece \cup {NoPiece}]]
        /\ \A a, b \in Peer : piece'[a][b] = IF a = p /\ b = q THEN NoPiece ELSE piece[a][b]
    BY <1>a, <2>3, SetJobValue, DropValue DEF JobLabel
  <2> QED
    BY <1>a, <2>1, <2>2, <2>3, <2>4, <2>5, ThreadTypeInv DEF EndsTypes, Alone, Unlink
<1>8. CASE Hang(p, q)
  BY <1>a, <1>8, SetJobValue, ThreadTypeInv DEF Hang, Alone, bounds, marks, JobLabel
<1>10. CASE StoreLost(p, q)
  <2>1. faults' \in 0 .. MaxFaults
    BY <1>a, <1>10, FaultInBound DEF StoreLost
  <2> QED
    BY <1>a, <1>10, <2>1, SetJobValue, DropValue, ThreadTypeInv
    DEF StoreLost, Answered, Alone, JobLabel
<1>11. CASE Block(p, q)
  <2>1. EndsTypes /\ piece[p][q] # NoPiece
    BY <1>a, <1>11, EndsValues DEF Block, Ends
  <2> QED
    BY <1>a, <1>11, <2>1, SetJobValue, ThreadTypeInv DEF Block, EndsTypes, Alone, JobLabel
<1>9. CASE HeaderCut(p, q)
  BY <1>9, EndTypeInv DEF HeaderCut, TypeInv, TypeOK, trackerVars
<1> QED
  BY <1>1, <1>2, <1>3, <1>4, <1>5, <1>6, <1>7, <1>8, <1>9, <1>10, <1>11 DEF Fetch

LEMMA NextTypeInv == TypeInv /\ [Next]_vars => TypeInv'
<1> SUFFICES ASSUME TypeInv, [Next]_vars PROVE TypeInv'
  OBVIOUS
<1>a. TypeOK
  BY DEF TypeInv
<1>1. CASE UNCHANGED vars
  BY <1>1 DEF vars, trackerVars, peerVars, threadVars, marks, TypeInv, TypeOK,
     ThreadsAfterRequest
<1>2. ASSUME NEW p \in Peer, Start(p) PROVE TypeInv'
  <2>1. IsFiniteSet(restarted') /\ Cardinality(restarted') <= MaxRestarts
    <3>1. CASE p \in started
      <4>1. /\ restarted' = restarted \cup {p} /\ p \notin restarted
            /\ Cardinality(restarted) < MaxRestarts /\ IsFiniteSet(restarted)
        BY <1>2, <3>1 DEF Start, TypeInv
      <4>2. /\ IsFiniteSet(restarted') /\ Cardinality(restarted') = Cardinality(restarted) + 1
            /\ Cardinality(restarted) \in Nat
        BY <4>1, FS_AddElement, FS_CardinalityType
      <4> QED
        BY <4>1, <4>2, SwarmAssumption
    <3>2. CASE p \notin started
      <4>1. restarted' = restarted
        BY <1>2, <3>2 DEF Start
      <4> QED
        BY <4>1 DEF TypeInv, TypeOK
    <3> QED
      BY <3>1, <3>2
  <2>2. us' \in [Peer -> {"none", "listening", "failed"}]
    BY <1>a, <1>2 DEF Start, TypeOK
  <2>3. restarted' \subseteq started' \cap Returning
    BY <1>a, <1>2 DEF Start, TypeOK
  <2>4. /\ pc' \in [Peer -> {"off", "login", "request", "download", "join"}]
        /\ todo' \in [Peer -> SUBSET Piece] /\ started' \subseteq Peer
    BY <1>a, <1>2 DEF Start, GoTo, TypeOK
  <2>5. ThreadsAfterRequest'
    BY <1>2 DEF Start, GoTo, TypeInv, TypeOK, ThreadsAfterRequest
  <2>6. TypeOK'
    BY <1>2, <2>1, <2>2, <2>3, <2>4 DEF Start, TypeInv, TypeOK, trackerVars, marks
  <2> QED
    BY <2>1, <2>5, <2>6 DEF TypeInv
<1>3. ASSUME NEW p \in Peer, Advance(p) PROVE TypeInv'
  <2>1. CASE Login(p)
    BY <2>1 DEF Login, GoTo, TypeInv, TypeOK, ThreadsAfterRequest, bounds, threadVars,
       marks
  <2>2. CASE NoTracker(p)
    BY <2>2, EndTypeInv DEF NoTracker, TypeInv, TypeOK, trackerVars
  <2>3. CASE Share(p)
    BY <2>3 DEF Share, GoTo, TypeInv, TypeOK, ThreadsAfterRequest, bounds, threadVars,
       marks
  <2>4. CASE ShareRefused(p)
    BY <2>4, EndTypeInv DEF ShareRefused, TypeInv, TypeOK, trackerVars
  <2>5. CASE AskPeers(p)
    <3>1. /\ job \in [Peer -> [Peer -> JobLabel]]
          /\ \A a \in Peer : job[a][a] = "none"
          /\ \A a, b \in Peer : /\ piece[a][b] # NoPiece <=> job[a][b] \in {"fetch", "stuck"}
                                /\ <<a, b>> \in overlap => job[a][b] = "fetch"
      BY <1>a DEF TypeOK, JobLabel
    <3>2. \A b \in Peer : job[p][b] = "none"
      BY <2>5 DEF AskPeers, TypeInv, ThreadsAfterRequest
    <3>3. /\ job' \in [Peer -> [Peer -> JobLabel]]
          /\ \A a, b \in Peer : /\ a # p => job'[a][b] = job[a][b]
                                /\ a = p => job'[a][b] \in {"connect", "none"}
          /\ job'[p][p] = "none"
      <4> DEFINE row == [b \in Peer |->
                           IF b \in (leechers \cup seeders) \ {p} /\ address[b] = "server"
                           THEN "connect" ELSE "none"]
      <4>1. row \in [Peer -> JobLabel] /\ row[p] = "none"
            /\ \A b \in Peer : row[b] \in {"connect", "none"}
        BY DEF JobLabel
      <4>2. job' = [job EXCEPT ![p] = row]
        BY <2>5 DEF AskPeers, StartDownload
      <4> QED
        BY <3>1, <4>1, <4>2
    <3>4. /\ \A a \in Peer : job'[a][a] = "none"
          /\ \A a, b \in Peer : /\ piece'[a][b] # NoPiece <=> job'[a][b] \in {"fetch", "stuck"}
                                /\ <<a, b>> \in overlap' => job'[a][b] = "fetch"
      <4>1. \A a \in Peer : job'[a][a] = "none"
        BY <3>1, <3>3
      <4>2. ASSUME NEW a \in Peer, NEW b \in Peer
            PROVE  /\ piece[a][b] # NoPiece <=> job'[a][b] \in {"fetch", "stuck"}
                   /\ <<a, b>> \in overlap => job'[a][b] = "fetch"
        <5>1. /\ piece[a][b] # NoPiece <=> job[a][b] \in {"fetch", "stuck"}
              /\ <<a, b>> \in overlap => job[a][b] = "fetch"
          BY <3>1
        <5> QED
          BY <5>1, <3>2, <3>3
      <4>3. piece' = piece /\ overlap' = overlap
        BY <2>5 DEF AskPeers
      <4> QED
        BY <4>1, <4>2, <4>3
    <3>5. TypeOK'
      <4>1. /\ pc' \in [Peer -> {"off", "login", "request", "download", "join"}]
            /\ address' \in [Peer -> {"none", "login", "server"}]
            /\ leechers' \subseteq Leecher
        BY <1>a, <2>5 DEF AskPeers, GoTo, TypeOK
      <4>2. /\ piece' = piece /\ overlap' = overlap
            /\ UNCHANGED <<up, seeders, forgot, us, have, todo, linked, mixed,
                          started, restarted, faults, broken, cut, late>>
        BY <2>5 DEF AskPeers, bounds, marks
      <4> QED
        <5>1. /\ us' \in [Peer -> {"none", "listening", "failed"}]
              /\ have' \in [Peer -> SUBSET Piece] /\ todo' \in [Peer -> SUBSET Piece]
              /\ piece' \in [Peer -> [Peer -> Piece \cup {NoPiece}]]
              /\ linked' \in SUBSET (Peer \X Peer) /\ overlap' \in SUBSET (Peer \X Peer)
              /\ up' \in BOOLEAN /\ seeders' \subseteq Seeder
          BY <1>a, <4>2 DEF TypeOK
        <5>2. /\ mixed' \subseteq Peer /\ broken' \subseteq Peer /\ late' \subseteq cut'
              /\ cut' \subseteq Peer /\ started' \subseteq Peer
              /\ restarted' \subseteq started' \cap Returning
              /\ faults' \in 0 .. MaxFaults /\ forgot' \in BOOLEAN
          BY <1>a, <4>2 DEF TypeOK
        <5>3. Cardinality(restarted') <= MaxRestarts
          BY <1>a, <4>2 DEF TypeOK
        <5> QED
          BY <3>3, <3>4, <4>1, <5>1, <5>2, <5>3 DEF TypeOK, JobLabel
    <3>6. ThreadsAfterRequest'
      BY <1>a, <2>5, <3>3 DEF AskPeers, GoTo, TypeInv, TypeOK, ThreadsAfterRequest
    <3> QED
      BY <2>5, <3>5, <3>6 DEF AskPeers, TypeInv, bounds
  <2>6. CASE AskRefused(p)
    BY <2>6, EndTypeInv DEF AskRefused, TypeInv, TypeOK
  <2>7. CASE Downloaded(p)
    BY <2>7 DEF Downloaded, GoTo, TypeInv, TypeOK, ThreadsAfterRequest, bounds, threadVars,
       marks, trackerVars
  <2>8. CASE Return(p)
    BY <2>8, EndTypeInv DEF Return, TypeInv, TypeOK, trackerVars
  <2> QED
    BY <1>3, <2>1, <2>2, <2>3, <2>4, <2>5, <2>6, <2>7, <2>8 DEF Advance
<1>4. ASSUME NEW p \in Peer, Crash(p) PROVE TypeInv'
  <2>1. faults' \in 0 .. MaxFaults
    BY <1>a, <1>4, FaultInBound DEF Crash
  <2> QED
    BY <1>4, <2>1, EndTypeInv DEF Crash, TypeInv, TypeOK, trackerVars
<1>5. CASE TrackerCrash
  <2>1. faults' \in 0 .. MaxFaults
    BY <1>a, <1>5, FaultInBound DEF TrackerCrash
  <2> QED
    BY <1>5, <2>1 DEF TrackerCrash, TypeInv, TypeOK, ThreadsAfterRequest, peerVars, threadVars,
       marks
<1>6. CASE TrackerRestart
  BY <1>6 DEF TrackerRestart, TypeInv, TypeOK, ThreadsAfterRequest, peerVars, threadVars, marks
<1> QED
  BY <1>1, <1>2, <1>3, <1>4, <1>5, <1>6, ThreadStepTypeInv DEF Next

\* The state of the peers and of the tracker is well typed.
THEOREM TypeCorrect == Spec => []TypeOK
<1>1. TypeInv => TypeOK
  BY DEF TypeInv
<1> QED
  BY <1>1, InitTypeInv, NextTypeInv, PTL DEF Spec

-----------------------------------------------------------------------------
(* What the tracker tells about a peer that serves *)

\* The tracker lists no leecher of a file that nobody has shared.
SharedFirst == ~forgot /\ seeders = {} => leechers = {}

TrackerInv == ServingIsReachable /\ ServingIsListed /\ SharedFirst

\* The end of a process, which the tracker is not told of.
LEMMA EndTrackerInv ==
    ASSUME TypeInv, TrackerInv, NEW p \in Peer, End(p),
           UNCHANGED <<seeders, leechers, forgot>>,
           \A a \in Peer \ {p} : address'[a] = address[a]
    PROVE  TrackerInv'
<1>1. \A a \in Peer : pc'[a] = IF a = p THEN "off" ELSE pc[a]
  BY EndValues DEF TypeInv
<1> QED
  BY <1>1 DEF TrackerInv, ServingIsReachable, ServingIsListed, SharedFirst

LEMMA NextTrackerInv == TypeInv /\ TrackerInv /\ [Next]_vars => TrackerInv'
<1> SUFFICES ASSUME TypeInv, TrackerInv, [Next]_vars PROVE TrackerInv'
  OBVIOUS
<1> USE DEF TrackerInv, ServingIsReachable, ServingIsListed, SharedFirst
<1>a. /\ pc \in [Peer -> {"off", "login", "request", "download", "join"}]
      /\ address \in [Peer -> {"none", "login", "server"}]
  BY DEF TypeInv, TypeOK
<1>1. CASE UNCHANGED <<trackerVars, pc>>
  BY <1>1 DEF trackerVars
<1>2. ASSUME NEW p \in Peer, Start(p) PROVE TrackerInv'
  BY <1>a, <1>2 DEF Start, GoTo, trackerVars
<1>3. ASSUME NEW p \in Peer, Advance(p) PROVE TrackerInv'
  <2>1. CASE Login(p)
    BY <1>a, <2>1 DEF Login, GoTo
  <2>2. CASE NoTracker(p)
    BY <2>2, EndTrackerInv DEF NoTracker, trackerVars
  <2>3. CASE Share(p)
    BY <1>a, <2>3 DEF Share, GoTo
  <2>4. CASE ShareRefused(p)
    BY <2>4, EndTrackerInv DEF ShareRefused, trackerVars
  <2>5. CASE AskPeers(p)
    BY <1>a, <2>5 DEF AskPeers, GoTo
  <2>6. CASE AskRefused(p)
    BY <1>a, <2>6, EndTrackerInv DEF AskRefused
  <2>7. CASE Downloaded(p)
    BY <1>a, <2>7 DEF Downloaded, GoTo, trackerVars
  <2>8. CASE Return(p)
    BY <2>8, EndTrackerInv DEF Return, trackerVars
  <2> QED
    BY <1>3, <2>1, <2>2, <2>3, <2>4, <2>5, <2>6, <2>7, <2>8 DEF Advance
<1>4. ASSUME NEW p \in Peer, Crash(p) PROVE TrackerInv'
  BY <1>4, EndTrackerInv DEF Crash, trackerVars
<1>5. ASSUME NEW p \in Peer, NEW q \in Peer, Fetch(p, q) PROVE TrackerInv'
  <2>1. CASE HeaderCut(p, q)
    BY <2>1, EndTrackerInv DEF HeaderCut, trackerVars
  <2>2. CASE ~HeaderCut(p, q)
    <3>1. UNCHANGED <<trackerVars, pc>>
      BY <1>5, <2>2 DEF Fetch, Connect, Finish, Take, TakeOfEmpty, StorePiece, StoreLost,
         Mismatch, GiveUp, Block, Hang
    <3> QED
      BY <1>1, <3>1
  <2> QED
    BY <2>1, <2>2
<1>6. CASE TrackerCrash
  BY <1>6 DEF TrackerCrash, peerVars
<1>7. CASE TrackerRestart
  BY <1>7 DEF TrackerRestart, peerVars
<1>8. CASE UNCHANGED vars
  BY <1>1, <1>8 DEF vars, peerVars
<1> QED
  BY <1>2, <1>3, <1>4, <1>5, <1>6, <1>7, <1>8 DEF Next

LEMMA Tracked == Spec => [](TypeInv /\ TrackerInv)
<1>1. Init => TrackerInv
  BY DEF Init, TrackerInv, ServingIsReachable, ServingIsListed, SharedFirst
<1> QED
  BY <1>1, InitTypeInv, NextTypeInv, NextTrackerInv, PTL DEF Spec

\* The tracker gives out the address of the upload server of a peer that
\* shares or downloads, never that of the connection it logged in by.
THEOREM ServingPeerIsReachable == Spec => []ServingIsReachable
<1>1. TrackerInv => ServingIsReachable
  BY DEF TrackerInv
<1> QED
  BY <1>1, Tracked, PTL

\* Whoever serves the file is on the list as long as the tracker runs, in
\* whatever order peers share, ask, end and start again.
THEOREM ServingPeerIsListed == Spec => []ServingIsListed
<1>1. TrackerInv => ServingIsListed
  BY DEF TrackerInv
<1> QED
  BY <1>1, Tracked, PTL

\* Whoever begins to download starts a thread for the seeder that serves.
THEOREM DownloadFindsSeeder == Spec => LeecherFindsSeeder
<1> DEFINE Finds == \A p \in Leecher, q \in Seeder :
                       /\ pc[p] = "request" /\ pc'[p] = "download"
                       /\ pc[q] = "join" /\ ~forgot
                       => job'[p][q] = "connect"
<1>1. TypeInv /\ TrackerInv /\ [Next]_vars => [Finds]_vars
  <2> SUFFICES ASSUME TypeInv, TrackerInv, Next,
                      NEW p \in Leecher, NEW q \in Seeder,
                      pc[p] = "request", pc'[p] = "download", pc[q] = "join", ~forgot
               PROVE  job'[p][q] = "connect"
    OBVIOUS
  <2>1. p \in Peer /\ q \in Peer /\ p # q
    BY SwarmAssumption DEF Leecher
  <2>2. AskPeers(p)
    <3>a. pc \in [Peer -> {"off", "login", "request", "download", "join"}]
      BY DEF TypeInv, TypeOK
    <3>1. \A r \in Peer : End(r) => pc'[p] # "download"
      BY <2>1, <3>a DEF End, GoTo
    <3>2. ~UNCHANGED pc
      OBVIOUS
    <3>3. ASSUME NEW r \in Peer, Start(r) \/ Crash(r) PROVE FALSE
      BY <2>1, <3>a, <3>1, <3>3 DEF Start, Crash, GoTo
    <3>4. ASSUME NEW r \in Peer, NEW s \in Peer, Fetch(r, s) PROVE FALSE
      BY <3>1, <3>2, <3>4 DEF Fetch, Connect, Finish, Take, TakeOfEmpty, StorePiece, StoreLost,
         Mismatch, GiveUp, Block, Hang, HeaderCut
    <3>5. ~TrackerCrash /\ ~TrackerRestart
      BY <3>2 DEF TrackerCrash, TrackerRestart, peerVars
    <3>6. ASSUME NEW r \in Peer, Advance(r) PROVE r = p /\ AskPeers(r)
      BY <2>1, <3>a, <3>1, <3>6 DEF Advance, Login, NoTracker, Share, ShareRefused, AskPeers,
         AskRefused, Downloaded, Return, GoTo
    <3> QED
      BY <3>3, <3>4, <3>5, <3>6 DEF Next
  <2>3. address[q] = "server" /\ q \in seeders \cup leechers
    BY <2>1 DEF TrackerInv, ServingIsReachable, ServingIsListed
  <2>4. job \in [Peer -> [Peer -> JobLabel]]
    BY DEF TypeInv, TypeOK, JobLabel
  <2>5. job' = [job EXCEPT ![p] =
                  [r \in Peer |-> IF r \in (leechers \cup seeders) \ {p} /\ address[r] = "server"
                                  THEN "connect" ELSE "none"]]
    BY <2>2 DEF AskPeers, StartDownload
  <2> QED
    BY <2>1, <2>3, <2>4, <2>5
<1> QED
  BY <1>1, Tracked, PTL DEF Spec, LeecherFindsSeeder

-----------------------------------------------------------------------------
(* No piece is lost to a seeder *)

\* Until a peer has asked the tracker, every piece is to be fetched.
AllToFetch == \A p \in Peer : pc[p] \in {"login", "request"} => todo[p] = Piece

\* A seeder's file is whole, and a request that is overlapped is remembered.
SeederHasAll == \A p \in Seeder : have[p] = Piece

OverlapIsMixed == \A p, q \in Peer : <<p, q>> \in overlap => p \in mixed

\* A piece that is not dropped: p holds it, has it to fetch, or carries it.
Kept(p, i) == i \in have[p] \/ i \in todo[p] \/ \E q \in Peer : piece[p][q] = i

\* Why p may lack a piece that nobody fetches any more.
Excused(p) == p \in mixed \/ p \in broken \/ \E q \in Leecher : job[p][q] # "none"

NoneDropped ==
    \A p \in Peer : Downloading(p) => Excused(p) \/ \A i \in Piece : Kept(p, i)

PiecesInv == AllToFetch /\ SeederHasAll /\ OverlapIsMixed /\ NoneDropped

LEMMA DroppedMeansNotKept ==
    ASSUME NEW p \in Peer, NEW i \in Piece
    PROVE  i \in Dropped(p) <=> ~Kept(p, i)
BY DEF Dropped, Carried, Kept, Piece, NoPiece

\* A step of a thread of p loses no piece unless p is excused.
LEMMA ThreadPiecesInv ==
    ASSUME TypeInv, PiecesInv, NEW p \in Peer, UNCHANGED pc,
           \A a \in Seeder : have[a] \subseteq have'[a], have' \in [Peer -> SUBSET Piece],
           mixed \subseteq mixed', broken \subseteq broken',
           \A a, b \in Peer : <<a, b>> \in overlap' => <<a, b>> \in overlap \/ a \in mixed',
           pc[p] \notin {"login", "request"},
           \A a \in Peer \ {p} : /\ todo'[a] = todo[a] /\ have'[a] = have[a]
                                 /\ \A b \in Peer : piece'[a][b] = piece[a][b],
           \A a, b \in Peer : job[a][b] # "none" => job'[a][b] # "none",
           \/ p \in mixed' \/ p \in broken'
           \/ \E b \in Leecher : job[p][b] # "none"
           \/ \A i \in Piece : Kept(p, i) => Kept(p, i)'
    PROVE  PiecesInv'
<1>1. AllToFetch'
  BY DEF PiecesInv, AllToFetch
<1>2. SeederHasAll'
  <2>1. \A a \in Seeder : a \in Peer /\ have[a] = Piece
    BY SwarmAssumption DEF PiecesInv, SeederHasAll
  <2>2. \A a \in Seeder : have[a] \subseteq have'[a] /\ have'[a] \subseteq Piece
    BY <2>1
  <2> QED
    BY <2>1, <2>2, ZenonT(40) DEF SeederHasAll
<1>3. OverlapIsMixed'
  BY DEF PiecesInv, OverlapIsMixed
<1>4. NoneDropped'
  <2>1. ASSUME NEW a \in Peer, Downloading(a)
        PROVE  Excused(a)' \/ \A i \in Piece : Kept(a, i)'
    <3>1. Excused(a) => Excused(a)'
      BY DEF Excused, Leecher
    <3>2. Excused(a) \/ \A i \in Piece : Kept(a, i)
      BY <2>1 DEF PiecesInv, NoneDropped
    <3>3. CASE a = p
      BY <3>1, <3>2, <3>3 DEF Excused, Leecher
    <3>4. CASE a # p
      BY <3>1, <3>2, <3>4 DEF Kept
    <3> QED
      BY <3>3, <3>4
  <2>2. \A a \in Peer : Downloading(a)' <=> Downloading(a)
    BY DEF Downloading
  <2> QED
    BY <2>1, <2>2 DEF NoneDropped
<1> QED
  BY <1>1, <1>2, <1>3, <1>4 DEF PiecesInv

\* The end of a process loses no piece of another.
LEMMA EndPiecesInv ==
    ASSUME TypeInv, PiecesInv, NEW p \in Peer, End(p)
    PROVE  PiecesInv'
<1>1. /\ \A a \in Peer : /\ pc'[a] = IF a = p THEN "off" ELSE pc[a]
                         /\ todo'[a] = IF a = p THEN {} ELSE todo[a]
      /\ \A a, b \in Peer :
            /\ job'[a][b] = IF a = p THEN "none" ELSE job[a][b]
            /\ piece'[a][b] = IF a = p THEN NoPiece ELSE piece[a][b]
            /\ <<a, b>> \in overlap' => a # p
      /\ overlap' \subseteq overlap /\ have' = have
      /\ mixed' = mixed \ {p} /\ broken' = broken \ {p}
  <2>1. TypeOK
    BY DEF TypeInv
  <2> QED
    BY <2>1, EndValues
<1>2. (AllToFetch /\ SeederHasAll /\ OverlapIsMixed)'
  BY <1>1 DEF PiecesInv, AllToFetch, SeederHasAll, OverlapIsMixed
<1>3. NoneDropped'
  <2>1. ASSUME NEW a \in Peer, Downloading(a)'
        PROVE  Excused(a)' \/ \A i \in Piece : Kept(a, i)'
    <3>1. a # p /\ Downloading(a)
      BY <1>1, <2>1 DEF Downloading
    <3>2. Excused(a) \/ \A i \in Piece : Kept(a, i)
      BY <3>1 DEF PiecesInv, NoneDropped
    <3>3. Excused(a) => Excused(a)'
      BY <1>1, <3>1 DEF Excused, Leecher
    <3>4. \A i \in Piece : Kept(a, i) => Kept(a, i)'
      BY <1>1, <3>1 DEF Kept
    <3> QED
      BY <3>2, <3>3, <3>4
  <2> QED
    BY <2>1 DEF NoneDropped
<1> QED
  BY <1>2, <1>3 DEF PiecesInv

\* A thread takes a piece, which it then carries, stores it or puts it back;
\* only bytes that are not genuine lose it, which a seeder asked by one peer
\* at a time does not send.
LEMMA FetchPiecesInv ==
    ASSUME TypeInv, PiecesInv, NEW p \in Peer, NEW q \in Peer, Fetch(p, q)
    PROVE  PiecesInv'
<1>a. /\ TypeOK
      /\ have \in [Peer -> SUBSET Piece] /\ todo \in [Peer -> SUBSET Piece]
      /\ piece \in [Peer -> [Peer -> Piece \cup {NoPiece}]]
      /\ \A a, b \in Peer : piece[a][b] # NoPiece <=> job[a][b] \in {"fetch", "stuck"}
  BY DEF TypeInv, TypeOK
<1>b. job[p][q] # "none" => pc[p] \notin {"login", "request"}
  BY DEF TypeInv, ThreadsAfterRequest
<1>1. CASE \/ Connect(p, q) \/ Finish(p, q) \/ TakeOfEmpty(p, q)
           \/ Block(p, q) \/ Hang(p, q)
  <2>1. PICK label \in JobLabel \ {"none"} : SetJob(p, q, label) /\ job[p][q] # "none"
    BY <1>1 DEF Connect, Finish, TakeOfEmpty, Block, Ends, Hang, JobLabel
  <2>2. \A a, b \in Peer : job'[a][b] = IF a = p /\ b = q THEN label ELSE job[a][b]
    BY <1>a, <2>1, SetJobValue
  <2>3. UNCHANGED <<pc, have, todo, piece, mixed, broken>> /\ overlap' \subseteq overlap
    BY <1>1 DEF Connect, Finish, TakeOfEmpty, Block, Hang, Alone, trackerVars, marks
  <2>4. \A i \in Piece : Kept(p, i) => Kept(p, i)'
    BY <2>3 DEF Kept
  <2> QED
    BY <1>a, <1>b, <2>1, <2>2, <2>3, <2>4, ThreadPiecesInv
<1>2. ASSUME NEW i \in Piece, Take(p, q, i) PROVE PiecesInv'
  <2>1. /\ \A a, b \in Peer : job'[a][b] = AfterTake(p, q, i, a, b)
        /\ \A a, b \in Peer : piece'[a][b] = IF a = p /\ b = q THEN i ELSE piece[a][b]
    BY <1>a, <1>2, TakeValues
  <2>2. PICK new :
          /\ overlap' = overlap \cup new
          /\ mixed' = mixed \cup {l[1] : l \in new}
    BY <1>2, TakeOverlaps
  <2>3. \A a, b \in Peer : <<a, b>> \in overlap' => <<a, b>> \in overlap \/ a \in mixed'
    <3> SUFFICES ASSUME NEW a \in Peer, NEW b \in Peer, <<a, b>> \in new
                 PROVE  a \in mixed'
      BY <2>2
    <3>1. <<a, b>>[1] = a
      OBVIOUS
    <3> QED
      BY <2>2, <3>1
  <2>4. /\ UNCHANGED <<pc, have, broken>> /\ job[p][q] # "none"
        /\ \A a \in Peer : todo'[a] = IF a = p THEN todo[a] \ {i} ELSE todo[a]
    BY <1>a, <1>2 DEF Take
  <2>5. ASSUME NEW j \in Piece, Kept(p, j) PROVE Kept(p, j)'
    <3>1. piece[p][q] = NoPiece /\ j # NoPiece
      BY <1>a, <1>2, SMTT(20) DEF Take, Piece, NoPiece
    <3>2. CASE j = i
      BY <2>1, <3>2 DEF Kept
    <3>3. CASE j # i
      BY <2>1, <2>4, <2>5, <3>1, <3>3 DEF Kept
    <3> QED
      BY <3>2, <3>3
  <2>6. \A a, b \in Peer : job[a][b] # "none" => job'[a][b] # "none"
    BY <2>1 DEF AfterTake
  <2>7. mixed \subseteq mixed'
    BY <2>2
  <2>8. /\ have' \in [Peer -> SUBSET Piece]
        /\ \A a \in Seeder : have[a] \subseteq have'[a]
        /\ \A a \in Peer \ {p} : /\ todo'[a] = todo[a] /\ have'[a] = have[a]
                                 /\ \A b \in Peer : piece'[a][b] = piece[a][b]
    BY <1>a, <2>1, <2>4
  <2> QED
    BY <1>b, <2>3, <2>4, <2>5, <2>6, <2>7, <2>8, ThreadPiecesInv
<1>3. CASE \/ StorePiece(p, q) \/ GiveUp(p, q)
           \/ Mismatch(p, q) \/ StoreLost(p, q)
  <2>1. PICK label \in JobLabel \ {"none"} : SetJob(p, q, label)
    BY <1>3 DEF StorePiece, GiveUp, Mismatch, StoreLost, JobLabel
  <2>2. job[p][q] = "fetch" /\ piece[p][q] \in Piece
    <3>1. job[p][q] = "fetch"
      BY <1>a, <1>3, EndsValues DEF StorePiece, GiveUp, Mismatch, StoreLost, Answered
    <3> QED
      BY <1>a, <3>1
  <2>3. \A a, b \in Peer : /\ job'[a][b] = IF a = p /\ b = q THEN label ELSE job[a][b]
                           /\ piece'[a][b] = IF a = p /\ b = q THEN NoPiece ELSE piece[a][b]
    <3>1. Drop(p, q)
      BY <1>3 DEF StorePiece, GiveUp, Mismatch, StoreLost
    <3> QED
      BY <1>a, <2>1, <3>1, SetJobValue, DropValue
  <2>4. /\ UNCHANGED <<pc, mixed>> /\ overlap' \subseteq overlap /\ broken \subseteq broken'
        /\ have' \in [Peer -> SUBSET Piece]
        /\ \A a \in Peer : have[a] \subseteq have'[a] /\ todo[a] \subseteq todo'[a]
        /\ \A a \in Peer \ {p} : have'[a] = have[a] /\ todo'[a] = todo[a]
    <3>1. CASE StorePiece(p, q)
      BY <1>a, <2>2, <3>1 DEF StorePiece, Alone, marks
    <3>2. CASE GiveUp(p, q)
      BY <1>a, <2>2, <3>2 DEF GiveUp, Alone
    <3>3. CASE Mismatch(p, q)
      BY <1>a, <3>3 DEF Mismatch, Alone, marks
    <3>4. CASE StoreLost(p, q)
      BY <1>a, <3>4 DEF StoreLost, Alone
    <3> QED
      BY <1>3, <3>1, <3>2, <3>3, <3>4
  <2>5. \/ p \in mixed' \/ p \in broken'
        \/ \E b \in Leecher : job[p][b] # "none"
        \/ \A i \in Piece : Kept(p, i) => Kept(p, i)'
    <3>1. CASE StorePiece(p, q) \/ GiveUp(p, q)
      <4>1. piece[p][q] \in have'[p] \cup todo'[p]
        BY <1>a, <3>1 DEF StorePiece, GiveUp
      <4>2. ASSUME NEW i \in Piece, Kept(p, i) PROVE Kept(p, i)'
        <5>1. CASE piece[p][q] = i
          BY <4>1, <5>1 DEF Kept
        <5>2. CASE piece[p][q] # i
          BY <2>3, <2>4, <4>2, <5>2 DEF Kept
        <5> QED
          BY <5>1, <5>2
      <4> QED
        BY <4>2
    <3>2. CASE Mismatch(p, q)
      <4>1. CASE q \in Leecher
        BY <2>2, <4>1
      <4>2. CASE q \notin Leecher
        <5>1. piece[p][q] \in have[q] /\ "other" # "refused" /\ "other" # "genuine"
          BY <2>2, <4>2 DEF PiecesInv, SeederHasAll, Leecher
        <5>2. <<p, q>> \in overlap
          BY <3>2, <5>1 DEF Mismatch, Answered, Answers
        <5> QED
          BY <2>4, <5>2 DEF PiecesInv, OverlapIsMixed
      <4> QED
        BY <4>1, <4>2
    <3>3. CASE StoreLost(p, q)
      BY <3>3 DEF StoreLost
    <3> QED
      BY <1>3, <3>1, <3>2, <3>3
  <2>6. Seeder \subseteq Peer
    BY SwarmAssumption
  <2>7. \A a \in Peer \ {p} : \A b \in Peer : piece'[a][b] = piece[a][b]
    BY <2>3
  <2>8. \A a, b \in Peer : job[a][b] # "none" => job'[a][b] # "none"
    BY <2>3
  <2> QED
    BY <1>b, <2>2, <2>4, <2>5, <2>6, <2>7, <2>8, ThreadPiecesInv
<1>4. CASE HeaderCut(p, q)
  BY <1>4, EndPiecesInv DEF HeaderCut
<1> QED
  BY <1>1, <1>2, <1>3, <1>4 DEF Fetch

LEMMA NextPiecesInv == TypeInv /\ PiecesInv /\ [Next]_vars => PiecesInv'
<1> SUFFICES ASSUME TypeInv, PiecesInv, [Next]_vars PROVE PiecesInv'
  OBVIOUS
<1>a. /\ pc \in [Peer -> {"off", "login", "request", "download", "join"}]
      /\ have \in [Peer -> SUBSET Piece] /\ todo \in [Peer -> SUBSET Piece]
      /\ \A a \in Peer : pc[a] \notin {"download", "join"} =>
            \A b \in Peer : job[a][b] = "none"
  BY DEF TypeInv, TypeOK, ThreadsAfterRequest
<1>b. NoneDropped
  BY DEF PiecesInv
<1>1. CASE UNCHANGED <<pc, have, todo, job, piece, overlap, mixed, broken>>
  <2>1. (AllToFetch /\ SeederHasAll /\ OverlapIsMixed)'
    BY <1>1 DEF PiecesInv, AllToFetch, SeederHasAll, OverlapIsMixed
  <2>2. NoneDropped'
    BY <1>1, <1>b DEF NoneDropped, Downloading, Excused, Kept
  <2> QED
    BY <2>1, <2>2 DEF PiecesInv
<1>2. \* A step of p before it has threads, or after the last of them.
      ASSUME NEW p \in Peer, NEW label \in {"login", "request", "download", "join"},
             GoTo(p, label), UNCHANGED <<have, piece, overlap, mixed, broken>>,
             \A a \in Peer : todo'[a] = todo[a] \/ (a = p /\ todo'[a] = Piece),
             label \in {"login", "request"} => todo'[p] = Piece,
             Downloading(p)' => Downloading(p) \/ todo'[p] = Piece,
             \A a, b \in Peer : job'[a][b] = job[a][b] \/ (a = p /\ ~Downloading(p))
      PROVE  PiecesInv'
  <2>1. \A a \in Peer : pc'[a] = IF a = p THEN label ELSE pc[a]
    BY <1>a, <1>2 DEF GoTo
  <2>2. (AllToFetch /\ SeederHasAll /\ OverlapIsMixed)'
    BY <1>2, <2>1 DEF PiecesInv, AllToFetch, SeederHasAll, OverlapIsMixed
  <2>3. ASSUME NEW a \in Peer, Downloading(a)'
        PROVE  Excused(a)' \/ \A i \in Piece : Kept(a, i)'
    <3>1. CASE todo'[a] = Piece
      BY <3>1 DEF Kept
    <3>2. CASE todo'[a] # Piece
      <4>1. Downloading(a) /\ \A b \in Peer : job'[a][b] = job[a][b]
        BY <1>2, <2>1, <2>3, <3>2 DEF Downloading
      <4>2. Excused(a) \/ \A i \in Piece : Kept(a, i)
        BY <1>b, <4>1 DEF NoneDropped
      <4>3. Excused(a) => Excused(a)'
        BY <1>2, <4>1 DEF Excused, Leecher
      <4>4. \A i \in Piece : Kept(a, i) => Kept(a, i)'
        BY <1>2, <3>2 DEF Kept
      <4> QED
        BY <4>2, <4>3, <4>4
    <3> QED
      BY <3>1, <3>2
  <2>4. NoneDropped'
    BY <2>3 DEF NoneDropped
  <2> QED
    BY <2>2, <2>4 DEF PiecesInv
<1>3. ASSUME NEW p \in Peer, Start(p) PROVE PiecesInv'
  <2>1. /\ UNCHANGED <<have, piece, overlap, mixed, broken, job>>
        /\ GoTo(p, "login")
        /\ \A a \in Peer : todo'[a] = IF a = p THEN Piece ELSE todo[a]
    BY <1>a, <1>3 DEF Start, marks
  <2> QED
    BY <1>2, <2>1
<1>4. ASSUME NEW p \in Peer, Advance(p) PROVE PiecesInv'
  <2>1. CASE Login(p)
    <3>1. /\ UNCHANGED <<have, piece, overlap, mixed, broken, job, todo>>
          /\ GoTo(p, "request") /\ todo[p] = Piece
      BY <2>1 DEF Login, threadVars, marks, PiecesInv, AllToFetch
    <3> QED
      BY <1>2, <3>1
  <2>2. CASE NoTracker(p) \/ ShareRefused(p) \/ AskRefused(p) \/ Return(p)
    BY <2>2, EndPiecesInv DEF NoTracker, ShareRefused, AskRefused, Return
  <2>3. CASE Share(p)
    <3>1. /\ UNCHANGED <<have, piece, overlap, mixed, broken, job, todo>>
          /\ GoTo(p, "join") /\ todo[p] = Piece
      BY <2>3 DEF Share, threadVars, marks, PiecesInv, AllToFetch
    <3> QED
      BY <1>2, <3>1
  <2>4. CASE AskPeers(p)
    <3>1. /\ UNCHANGED <<have, piece, overlap, mixed, broken, todo>>
          /\ GoTo(p, "download") /\ todo[p] = Piece /\ ~Downloading(p)
      BY <2>4 DEF AskPeers, marks, PiecesInv, AllToFetch, Downloading
    <3>2. \A a, b \in Peer : a # p => job'[a][b] = job[a][b]
      BY <2>4 DEF AskPeers, StartDownload, TypeInv, TypeOK
    <3> QED
      BY <1>2, <3>1, <3>2
  <2>5. CASE Downloaded(p)
    <3>1. /\ UNCHANGED <<have, piece, overlap, mixed, broken, job, todo>>
          /\ GoTo(p, "join")
      BY <2>5 DEF Downloaded, threadVars, marks
    <3>2. Downloading(p)' => Downloading(p)
      BY <2>5 DEF Downloaded, Downloading
    <3> QED
      BY <1>2, <3>1, <3>2
  <2> QED
    BY <1>4, <2>1, <2>2, <2>3, <2>4, <2>5 DEF Advance
<1>5. ASSUME NEW p \in Peer, Crash(p) PROVE PiecesInv'
  BY <1>5, EndPiecesInv DEF Crash
<1>6. ASSUME NEW p \in Peer, NEW q \in Peer, Fetch(p, q) PROVE PiecesInv'
  BY <1>6, FetchPiecesInv
<1>7. CASE TrackerCrash \/ TrackerRestart \/ UNCHANGED vars
  BY <1>1, <1>7 DEF TrackerCrash, TrackerRestart, vars, peerVars, threadVars, marks
<1> QED
  BY <1>3, <1>4, <1>5, <1>6, <1>7 DEF Next

-----------------------------------------------------------------------------
(* No piece is stranded unless something cut a thread short *)

\* Why the thread [p][q] may leave pieces to nobody: its connection is gone,
\* it hangs, or it has ended with pieces left to fetch.
Loose(p, q) ==
    \/ job[p][q] \in {"loop", "stale", "fetch", "wedged"} /\ <<p, q>> \notin linked
    \/ job[p][q] = "stuck"
    \/ job[p][q] = "over" /\ todo[p] # {}

CutInv == \A p, q \in Peer : Loose(p, q) => p \in cut

\* The end of a process cuts those that were connected to it.
LEMMA EndCutInv ==
    ASSUME TypeInv, CutInv, NEW p \in Peer, End(p)
    PROVE  CutInv'
<1>1. /\ \A a \in Peer : todo'[a] = IF a = p THEN {} ELSE todo[a]
      /\ \A a, b \in Peer : job'[a][b] = IF a = p THEN "none" ELSE job[a][b]
  <2>1. TypeOK
    BY DEF TypeInv
  <2>2. \A a \in Peer : todo'[a] = IF a = p THEN {} ELSE todo[a]
    BY <2>1, EndValues
  <2>3. \A a, b \in Peer : job'[a][b] = IF a = p THEN "none" ELSE job[a][b]
    <3>1. job' = [job EXCEPT ![p] = [q \in Peer |-> "none"]]
      BY DEF End, NoJobs
    <3>2. job \in [Peer -> [Peer -> JobLabel]]
      BY <2>1 DEF TypeOK, JobLabel
    <3> QED
      BY <3>1, <3>2
  <2> QED
    BY <2>2, <2>3
<1>2. /\ linked' = {l \in linked : p \notin {l[1], l[2]}}
      /\ cut' = (cut \ {p}) \cup {r \in Peer \ {p} : <<r, p>> \in linked}
  BY DEF End, Without
<1> SUFFICES ASSUME NEW a \in Peer, NEW b \in Peer, Loose(a, b)'
             PROVE  a \in cut'
  BY DEF CutInv
<1>3. a # p
  BY <1>1 DEF Loose
<1>4. CASE b = p /\ <<a, b>> \in linked
  BY <1>2, <1>3, <1>4
<1>5. CASE ~(b = p /\ <<a, b>> \in linked)
  <2>1. <<a, b>> \in linked => <<a, b>> \in linked'
    BY <1>2, <1>3, <1>5
  <2>2. Loose(a, b)
    BY <1>1, <1>3, <2>1 DEF Loose
  <2> QED
    BY <1>2, <1>3, <2>2 DEF CutInv
<1> QED
  BY <1>4, <1>5

\* A step of the thread of p for q, which changes no other thread, or lets
\* one go from "loop" to "stale" with the set as full as it may be.
LEMMA ThreadCutInv ==
    ASSUME TypeInv, CutInv, NEW p \in Peer, NEW q \in Peer, cut \subseteq cut',
           \A a \in Peer \ {p} : todo'[a] = todo[a],
           \A a, b \in Peer : ~(a = p /\ b = q) =>
              /\ <<a, b>> \in linked' <=> <<a, b>> \in linked
              /\ \/ job'[a][b] = job[a][b]
                 \/ job[a][b] = "loop" /\ job'[a][b] = "stale",
           todo'[p] \subseteq todo[p] \/ p \in cut',
           Loose(p, q)' => Loose(p, q) \/ p \in cut'
    PROVE  CutInv'
<1> SUFFICES ASSUME NEW a \in Peer, NEW b \in Peer, Loose(a, b)', a \notin cut'
             PROVE  FALSE
  BY DEF CutInv
<1>1. CASE a = p /\ b = q
  BY <1>1 DEF CutInv
<1>2. CASE ~(a = p /\ b = q)
  <2>1. todo'[a] \subseteq todo[a]
    BY <1>2
  <2>2. /\ <<a, b>> \in linked' <=> <<a, b>> \in linked
        /\ job'[a][b] = job[a][b] \/ (job[a][b] = "loop" /\ job'[a][b] = "stale")
    BY <1>2
  <2>3. Loose(a, b)
    BY <2>1, <2>2 DEF Loose
  <2> QED
    BY <2>3 DEF CutInv
<1> QED
  BY <1>1, <1>2

LEMMA FetchCutInv ==
    ASSUME TypeInv, CutInv, NEW p \in Peer, NEW q \in Peer, Fetch(p, q)
    PROVE  CutInv'
<1>a. TypeOK /\ todo \in [Peer -> SUBSET Piece] /\ linked \subseteq Peer \X Peer
  BY DEF TypeInv, TypeOK
<1>b. \A S : \A a, b \in Peer : ~(a = p /\ b = q) =>
         /\ <<a, b>> \in S \ {<<p, q>>} <=> <<a, b>> \in S
         /\ <<a, b>> \in S \cup {<<p, q>>} <=> <<a, b>> \in S
  OBVIOUS
<1>1. CASE Connect(p, q)
  <2>1. PICK label \in {"loop", "over"} :
           /\ SetJob(p, q, label)
           /\ label = "loop" => linked' = linked \cup {<<p, q>>} /\ cut' = cut
           /\ label = "over" => linked' = linked /\ cut' = cut \cup {p}
    BY <1>1 DEF Connect
  <2>2. \A a, b \in Peer : job'[a][b] = IF a = p /\ b = q THEN label ELSE job[a][b]
    BY <1>a, <2>1, SetJobValue DEF JobLabel
  <2>3. todo' = todo
    BY <1>1 DEF Connect
  <2>4. Loose(p, q)' => p \in cut'
    BY <2>1, <2>2 DEF Loose
  <2>5. cut \subseteq cut'
    BY <2>1
  <2>6. \A a, b \in Peer : ~(a = p /\ b = q) => (<<a, b>> \in linked' <=> <<a, b>> \in linked)
    BY <1>b, <2>1
  <2> QED
    BY <2>2, <2>3, <2>4, <2>5, <2>6, ThreadCutInv
<1>2. CASE Finish(p, q)
  <2>1. \A a, b \in Peer : job'[a][b] = IF a = p /\ b = q THEN "over" ELSE job[a][b]
    BY <1>a, <1>2, SetJobValue DEF Finish, JobLabel
  <2>2. todo' = todo /\ cut' = cut /\ linked' = linked \ {<<p, q>>} /\ todo[p] = {}
    BY <1>2 DEF Finish, Unlink, marks
  <2>3. ~Loose(p, q)'
    BY <2>1, <2>2 DEF Loose
  <2>4. \A a, b \in Peer : ~(a = p /\ b = q) => (<<a, b>> \in linked' <=> <<a, b>> \in linked)
    BY <1>b, <2>2
  <2> QED
    BY <2>1, <2>2, <2>3, <2>4, ThreadCutInv
<1>3. ASSUME NEW i \in Piece, Take(p, q, i) PROVE CutInv'
  <2>1. \A a, b \in Peer : job'[a][b] = AfterTake(p, q, i, a, b)
    BY <1>a, <1>3, TakeValues
  <2>2. /\ linked' = linked /\ cut' = cut /\ job[p][q] \in {"loop", "stale"}
        /\ \A a \in Peer : todo'[a] = IF a = p THEN todo[a] \ {i} ELSE todo[a]
    BY <1>a, <1>3 DEF Take
  <2>3. Loose(p, q)' => Loose(p, q)
    BY <2>1, <2>2 DEF Loose, AfterTake
  <2>4. \A a, b \in Peer : ~(a = p /\ b = q) =>
           job'[a][b] = job[a][b] \/ (job[a][b] = "loop" /\ job'[a][b] = "stale")
    BY <2>1 DEF AfterTake
  <2>5. /\ cut \subseteq cut' /\ todo'[p] \subseteq todo[p]
        /\ \A a \in Peer \ {p} : todo'[a] = todo[a]
        /\ \A a, b \in Peer : <<a, b>> \in linked' <=> <<a, b>> \in linked
    BY <2>2
  <2> QED
    BY <2>3, <2>4, <2>5, ThreadCutInv
<1>4. CASE TakeOfEmpty(p, q) \/ StorePiece(p, q) \/ StoreLost(p, q) \/ Mismatch(p, q)
  <2>1. PICK label \in {"loop", "wedged"} : SetJob(p, q, label)
    BY <1>4 DEF TakeOfEmpty, StorePiece, StoreLost, Mismatch
  <2>2. \A a, b \in Peer : job'[a][b] = IF a = p /\ b = q THEN label ELSE job[a][b]
    BY <1>a, <2>1, SetJobValue DEF JobLabel
  <2>3. todo' = todo /\ cut' = cut /\ linked' = linked /\ job[p][q] \in {"stale", "fetch"}
    BY <1>4 DEF TakeOfEmpty, StorePiece, StoreLost, Mismatch, Answered, marks
  <2>4. Loose(p, q)' => Loose(p, q)
    BY <2>2, <2>3 DEF Loose
  <2>5. \A a, b \in Peer : ~(a = p /\ b = q) => job'[a][b] = job[a][b]
    BY <2>2
  <2> QED
    BY <2>3, <2>4, <2>5, ThreadCutInv
<1>5. CASE GiveUp(p, q) \/ Block(p, q)
  <2>1. cut' = cut \cup {p}
    BY <1>a, <1>5, EndsValues DEF GiveUp, Block
  <2>2. PICK label \in {"over", "stuck"} : SetJob(p, q, label)
    BY <1>5 DEF GiveUp, Block
  <2>3. \A a, b \in Peer : job'[a][b] = IF a = p /\ b = q THEN label ELSE job[a][b]
    BY <1>a, <2>2, SetJobValue DEF JobLabel
  <2>4. \A a \in Peer \ {p} : todo'[a] = todo[a]
    BY <1>a, <1>5 DEF GiveUp, Block
  <2>5. linked' = linked \/ linked' = linked \ {<<p, q>>}
    BY <1>5 DEF GiveUp, Block, Unlink
  <2>6. \A a, b \in Peer : ~(a = p /\ b = q) => (<<a, b>> \in linked' <=> <<a, b>> \in linked)
    BY <1>b, <2>5
  <2> QED
    BY <2>1, <2>3, <2>4, <2>6, ThreadCutInv
<1>6. CASE Hang(p, q)
  <2>1. \A a, b \in Peer : job'[a][b] = IF a = p /\ b = q THEN "stuck" ELSE job[a][b]
    BY <1>a, <1>6, SetJobValue DEF Hang, JobLabel
  <2>2. todo' = todo /\ cut' = cut /\ linked' = linked /\ Loose(p, q)
    BY <1>6 DEF Hang, marks, Loose
  <2> QED
    BY <2>1, <2>2, ThreadCutInv
<1>7. CASE HeaderCut(p, q)
  BY <1>7, EndCutInv DEF HeaderCut
<1> QED
  BY <1>1, <1>2, <1>3, <1>4, <1>5, <1>6, <1>7 DEF Fetch

LEMMA NextCutInv == TypeInv /\ CutInv /\ [Next]_vars => CutInv'
<1> SUFFICES ASSUME TypeInv, CutInv, [Next]_vars PROVE CutInv'
  OBVIOUS
<1>a. /\ todo \in [Peer -> SUBSET Piece]
      /\ \A a \in Peer : pc[a] \notin {"download", "join"} =>
            \A b \in Peer : job[a][b] = "none"
  BY DEF TypeInv, TypeOK, ThreadsAfterRequest
<1>1. CASE UNCHANGED <<todo, job, linked, cut>>
  BY <1>1 DEF CutInv, Loose
<1>2. ASSUME NEW p \in Peer, Start(p) PROVE CutInv'
  <2>1. /\ job' = job /\ linked' = linked /\ cut' = cut /\ \A b \in Peer : job[p][b] = "none"
        /\ \A a \in Peer : todo'[a] = IF a = p THEN Piece ELSE todo[a]
    BY <1>a, <1>2 DEF Start, marks
  <2> QED
    BY <2>1 DEF CutInv, Loose
<1>3. ASSUME NEW p \in Peer, Advance(p) PROVE CutInv'
  <2>1. CASE Login(p) \/ Share(p) \/ Downloaded(p)
    BY <1>1, <2>1 DEF Login, Share, Downloaded, threadVars, marks
  <2>2. CASE NoTracker(p) \/ ShareRefused(p) \/ AskRefused(p) \/ Return(p)
    BY <2>2, EndCutInv DEF NoTracker, ShareRefused, AskRefused, Return
  <2>3. CASE AskPeers(p)
    <3>1. todo' = todo /\ linked' = linked /\ cut' = cut
      BY <2>3 DEF AskPeers, marks
    <3>2. \A a, b \in Peer : IF a = p THEN job'[a][b] \in {"connect", "none"}
                                      ELSE job'[a][b] = job[a][b]
      <4> DEFINE row == [b \in Peer |->
                           IF b \in (leechers \cup seeders) \ {p} /\ address[b] = "server"
                           THEN "connect" ELSE "none"]
      <4>1. \A b \in Peer : row[b] \in {"connect", "none"}
        OBVIOUS
      <4>2. job' = [job EXCEPT ![p] = row]
        BY <2>3 DEF AskPeers, StartDownload
      <4>3. job \in [Peer -> [Peer -> JobLabel]]
        BY DEF TypeInv, TypeOK, JobLabel
      <4> QED
        BY <4>1, <4>2, <4>3
    <3> QED
      BY <3>1, <3>2 DEF CutInv, Loose
  <2> QED
    BY <1>3, <2>1, <2>2, <2>3 DEF Advance
<1>4. ASSUME NEW p \in Peer, Crash(p) PROVE CutInv'
  BY <1>4, EndCutInv DEF Crash
<1>5. ASSUME NEW p \in Peer, NEW q \in Peer, Fetch(p, q) PROVE CutInv'
  BY <1>5, FetchCutInv
<1>6. CASE TrackerCrash \/ TrackerRestart \/ UNCHANGED vars
  BY <1>1, <1>6 DEF TrackerCrash, TrackerRestart, vars, peerVars, threadVars, marks
<1> QED
  BY <1>2, <1>3, <1>4, <1>5, <1>6 DEF Next

LEMMA NothingLostFollows == TypeInv /\ PiecesInv /\ CutInv => NothingLostToSeeder
<1> SUFFICES ASSUME TypeInv, PiecesInv, CutInv, NEW p \in Peer, Downloading(p)
             PROVE  /\ Dropped(p) # {} => p \in mixed \cup broken
                                          \/ \E q \in Leecher : job[p][q] # "none"
                    /\ Stranded(p) # {} => job[p] = NoJobs \/ p \in cut
  BY DEF NothingLostToSeeder
<1>1. ASSUME Dropped(p) # {} PROVE Excused(p)
  <2>1. PICK i \in Piece : i \in Dropped(p)
    BY <1>1 DEF Dropped
  <2>2. ~Kept(p, i)
    BY <2>1, DroppedMeansNotKept
  <2> QED
    BY <2>2 DEF PiecesInv, NoneDropped
<1>2. ASSUME Stranded(p) # {}, p \notin cut PROVE job[p] = NoJobs
  <2>1. \A q \in Peer : ~Loose(p, q)
    BY <1>2 DEF CutInv
  <2>2. \A q \in Peer : job[p][q] # "stuck"
    BY <2>1 DEF Loose
  <2>3. todo[p] # {} /\ \A q \in Peer : job[p][q] \in {"none", "over", "stuck"}
    BY <1>2, <2>2 DEF Stranded
  <2>4. \A q \in Peer : job[p][q] = "none"
    BY <2>1, <2>3 DEF Loose
  <2>5. job[p] \in [Peer -> JobLabel]
    BY DEF TypeInv, TypeOK, JobLabel
  <2> QED
    BY <2>4, <2>5 DEF NoJobs
<1> QED
  BY <1>1, <1>2 DEF Excused

\* A piece that a leecher lacks is dropped only if another leecher answered,
\* another request overlapped one of its own, or its disk failed; and one is
\* left to a thread that is not there, or hangs, only if a thread was cut
\* short: a seeder asked by one peer at a time loses it nothing by itself.
THEOREM NothingIsLostToSeeder == Spec => []NothingLostToSeeder
<1>1. Init => PiecesInv /\ CutInv
  <2>1. Init => AllToFetch /\ SeederHasAll /\ OverlapIsMixed /\ NoneDropped
    BY SwarmAssumption DEF Init, AllToFetch, SeederHasAll, OverlapIsMixed,
       NoneDropped, Downloading
  <2>2. Init => CutInv
    BY DEF Init, CutInv, Loose, NoJobs
  <2> QED
    BY <2>1, <2>2 DEF PiecesInv
<1> QED
  BY <1>1, InitTypeInv, NextTypeInv, NextPiecesInv, NextCutInv, NothingLostFollows, PTL
  DEF Spec
=============================================================================
