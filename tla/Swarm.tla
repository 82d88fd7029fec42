------------------------------- MODULE Swarm -------------------------------
(***************************************************************************)
(* Peers and the tracker together: the start of a peer (client.cpp, peer   *)
(* and tracker_client), what the tracker keeps in memory for one file of   *)
(* one group (tracker.cpp), and the threads by which a leecher fetches     *)
(* pieces from the upload servers of the others.  Any process may be       *)
(* killed and started again.                                               *)
(*                                                                         *)
(* Each peer has an account of its own, a member of the group.  A request  *)
(* to the tracker is one step (Tracker has its parts); a digest tells      *)
(* genuine bytes from others (PieceDownload has the exceptions).  A fetch  *)
(* may time out though its neighbour is alive, and a disk may fail.        *)
(***************************************************************************)
EXTENDS Integers, FiniteSets

CONSTANTS Peer,        \* the peers, and their users
          Seeder,      \* those started as seeders
          NPieces,     \* how many pieces the file has
          Returning,   \* bound on who is started again, each once at most
          MaxRestarts, \* bound on how many of them are
          MaxFaults    \* bound on processes killed, time-outs and failing disks

ASSUME SwarmAssumption ==
    /\ Seeder \subseteq Peer /\ Returning \subseteq Peer
    /\ NPieces \in Nat \ {0}
    /\ {MaxRestarts, MaxFaults} \subseteq Nat

Piece == 1 .. NPieces
NoPiece == 0

VARIABLES
    \* the tracker
    up,                \* its process runs
    seeders, leechers, \* of the file; it is shared once it has a seeder
    address,           \* of a user: of its login connection or its server
    \* the peers
    pc,                \* where start() is
    us,                \* the thread of the upload server
    have,              \* the pieces that the file holds
    todo,              \* pieces: those no thread has taken
    job, piece,        \* thread [p][q] of p, which fetches from q
    linked,            \* its connection is open at both ends
    overlap,           \* its request is under way while the stream of q is
                       \* used for another
    broken,            \* the peers whose stream has failed to write a piece
    \* bounds and history
    started, restarted, \* the peers ever started, and those started twice
    faults,
    forgot,            \* the tracker has been killed
    mixed,             \* the peers that ever had a request so overlapped
    cut, late          \* those with a thread that was cut short, and those
                       \* with one that timed out on a live neighbour

trackerVars == <<up, seeders, leechers, address, forgot>>
bounds == <<started, restarted, faults>>
marks == <<broken, mixed, cut, late>>
threadVars == <<todo, job, piece, linked, overlap, marks>>
peerVars == <<pc, us, have, started, restarted, threadVars>>
vars == <<trackerVars, peerVars, faults>>

Leecher == Peer \ Seeder
NoJobs == [q \in Peer |-> "none"]

Init ==
    /\ up = TRUE
    /\ seeders = {} /\ leechers = {}
    /\ address = [p \in Peer |-> "none"]
    /\ pc = [p \in Peer |-> "off"]
    /\ us = [p \in Peer |-> "none"]
    /\ have = [p \in Peer |-> IF p \in Seeder THEN Piece ELSE {}]
    /\ todo = [p \in Peer |-> {}]
    /\ job = [p \in Peer |-> NoJobs]
    /\ piece = [p \in Peer |-> [q \in Peer |-> NoPiece]]
    /\ linked = {} /\ overlap = {} /\ broken = {}
    /\ mixed = {} /\ cut = {} /\ late = {}
    /\ started = {} /\ restarted = {}
    /\ faults = 0
    /\ forgot = FALSE

-----------------------------------------------------------------------------
(* The start of a peer *)

GoTo(p, label) == pc' = [pc EXCEPT ![p] = label]

Without(p, pairs) == {l \in pairs : p \notin {l[1], l[2]}}

Fault == faults < MaxFaults /\ faults' = faults + 1

Causes == {"gone", "refused", "late", "disk"}

(* The process of p ends; the file stays.  When start() catches an         *)
(* exception, ~peer finds the upload thread joinable, which ends it too.   *)
End(p) ==
    /\ GoTo(p, "off")
    /\ us' = [us EXCEPT ![p] = "none"]
    /\ todo' = [todo EXCEPT ![p] = {}]
    /\ job' = [job EXCEPT ![p] = NoJobs]
    /\ piece' = [piece EXCEPT ![p] = [q \in Peer |-> NoPiece]]
    /\ linked' = Without(p, linked)
    /\ overlap' = Without(p, overlap)
    /\ broken' = broken \ {p}
    /\ mixed' = mixed \ {p} /\ late' = late \ {p}
    /\ cut' = (cut \ {p}) \cup {r \in Peer \ {p} : <<r, p>> \in linked}
    /\ UNCHANGED <<have, started, restarted>>

(* Every piece is to be fetched, whatever the file holds already.  By the  *)
(* time the user has typed a password, the upload server has bound its     *)
(* port, or not: after an earlier run that may still be taken, and the     *)
(* exception is swallowed.                                                 *)
Start(p) ==
    /\ pc[p] = "off"
    /\ p \in started => /\ p \in Returning \ restarted
                        /\ Cardinality(restarted) < MaxRestarts
    /\ GoTo(p, "login")
    /\ \E result \in {"listening"} \cup (IF p \in started THEN {"failed"} ELSE {}) :
          us' = [us EXCEPT ![p] = result]
    /\ todo' = [todo EXCEPT ![p] = Piece]
    /\ started' = started \cup {p}
    /\ restarted' = restarted \cup ({p} \cap started)
    /\ UNCHANGED <<trackerVars, have, job, piece, linked, overlap, marks, faults>>

\* The request comes over a connection of its own: that is the address.
Login(p) ==
    /\ pc[p] = "login" /\ up
    /\ address' = [address EXCEPT ![p] = "login"]
    /\ GoTo(p, "request")
    /\ UNCHANGED <<up, seeders, leechers, forgot, us, have, bounds,
                  threadVars>>

\* Connecting to the tracker fails.
NoTracker(p) ==
    /\ pc[p] \in {"login", "request"} /\ ~up
    /\ End(p)
    /\ UNCHANGED <<trackerVars, faults>>

\* Variant: a file that is there already is shared again.
Share_Again(p) ==
    /\ pc[p] = "request" /\ up /\ p \in Seeder
    /\ seeders' = {p} /\ leechers' = {}
    /\ address' = [address EXCEPT ![p] = "server"]
    /\ GoTo(p, "join")
    /\ UNCHANGED <<up, forgot, us, have, bounds, threadVars>>

Share(p) ==
    /\ pc[p] = "request" /\ up /\ p \in Seeder
    /\ seeders = {}
    /\ seeders' = {p} /\ leechers' = {}
    /\ address' = [address EXCEPT ![p] = "server"]
    /\ GoTo(p, "join")
    /\ UNCHANGED <<up, forgot, us, have, bounds, threadVars>>

\* "file already shared": 400, an exception for share_file.
ShareRefused(p) ==
    /\ pc[p] = "request" /\ up /\ p \in Seeder
    /\ seeders # {}
    /\ End(p)
    /\ UNCHANGED <<trackerVars, faults>>

\* Variants: the tracker lists the asker as well; it lists only leechers.
StartDownload_FromItself(p) ==
    job' = [job EXCEPT ![p] =
              [q \in Peer |-> IF q = p \/ (q \in leechers \cup seeders /\ address[q] = "server")
                              THEN "connect" ELSE "none"]]

StartDownload_LeechersOnly(p) ==
    job' = [job EXCEPT ![p] =
              [q \in Peer |-> IF q \in leechers \ {p} /\ address[q] = "server"
                              THEN "connect" ELSE "none"]]

(* p becomes a leecher of the file and starts a thread for each other      *)
(* seeder and leecher.  A thread for an address nobody listens on, such as *)
(* that of a login connection, ends at once and is left out.               *)
StartDownload(p) ==
    LET others == (leechers \cup seeders) \ {p}
    IN job' = [job EXCEPT ![p] =
                 [q \in Peer |-> IF q \in others /\ address[q] = "server"
                                 THEN "connect" ELSE "none"]]

\* Variant: the address is not stored.
AskPeers_KeepsAddress(p) ==
    /\ pc[p] = "request" /\ up /\ p \in Leecher
    /\ seeders # {}
    /\ leechers' = leechers \cup {p}
    /\ StartDownload(p)
    /\ GoTo(p, "download")
    /\ UNCHANGED <<up, address, seeders, forgot, us, have, bounds,
                  todo, piece, linked, overlap, marks>>

AskPeers(p) ==
    /\ pc[p] = "request" /\ up /\ p \in Leecher
    /\ seeders # {}
    /\ address' = [address EXCEPT ![p] = "server"]
    /\ leechers' = leechers \cup {p}
    /\ StartDownload(p)
    /\ GoTo(p, "download")
    /\ UNCHANGED <<up, seeders, forgot, us, have, bounds,
                  todo, piece, linked, overlap, marks>>

\* "invalid file name": 400, after the address has been stored.
AskRefused(p) ==
    /\ pc[p] = "request" /\ up /\ p \in Leecher
    /\ seeders = {}
    /\ address' = [address EXCEPT ![p] = "server"]
    /\ End(p)
    /\ UNCHANGED <<up, seeders, leechers, forgot, faults>>

\* All threads are joined.
Downloaded(p) ==
    /\ pc[p] = "download"
    /\ \A q \in Peer : job[p][q] \in {"none", "over"}
    /\ GoTo(p, "join")
    /\ UNCHANGED <<trackerVars, us, have, bounds, threadVars>>

\* The thread of the upload server has ended: start() returns.
Return(p) ==
    /\ pc[p] = "join" /\ us[p] = "failed"
    /\ End(p)
    /\ UNCHANGED <<trackerVars, faults>>

-----------------------------------------------------------------------------
(* The thread of p that fetches from q *)

Wedged(p) == \E q \in Peer : job[p][q] = "wedged"
Readers(q) == {p \in Peer : job[p][q] = "fetch"}
Writing(q) == \E r \in Peer : job[q][r] = "fetch"

SetJob(p, q, label) == job' = [job EXCEPT ![p][q] = label]
Drop(p, q) == piece' = [piece EXCEPT ![p][q] = NoPiece]
Unlink(p, q) == linked' = linked \ {<<p, q>>}
Alone(p, q) == overlap' = overlap \ {<<p, q>>}

Connect(p, q) ==
    /\ job[p][q] = "connect"
    /\ IF us[q] = "listening"
       THEN SetJob(p, q, "loop") /\ linked' = linked \cup {<<p, q>>} /\ UNCHANGED cut
       ELSE SetJob(p, q, "over") /\ cut' = cut \cup {p} /\ UNCHANGED linked
    /\ UNCHANGED <<trackerVars, pc, us, have, bounds, todo, piece, overlap, broken, mixed, late>>

\* The loop ends when it finds the set empty.
Finish(p, q) ==
    /\ job[p][q] \in {"loop", "stale"} /\ ~Wedged(p)
    /\ todo[p] = {}
    /\ SetJob(p, q, "over") /\ Unlink(p, q)
    /\ UNCHANGED <<trackerVars, pc, us, have, bounds, todo, piece, overlap, marks>>

(* The request goes out.  It overlaps with those for other peers at q and  *)
(* with writes of the downloads of q; and those at p with its own write.   *)
(* Another thread may have found the set not empty just before its last    *)
(* piece is taken here.                                                    *)
Take(p, q, i) ==
    /\ job[p][q] \in {"loop", "stale"} /\ ~Wedged(p)
    /\ i \in todo[p]
    /\ todo' = [todo EXCEPT ![p] = @ \ {i}]
    /\ piece' = [piece EXCEPT ![p][q] = i]
    /\ job' = [job EXCEPT ![p] =
                 [r \in Peer |-> CASE r = q -> "fetch"
                                   [] r # q /\ job[p][r] = "loop" /\ todo[p] = {i} -> "stale"
                                   [] OTHER -> job[p][r]]]
    /\ LET new == {<<r, q>> : r \in Readers(q)} \cup {<<r, p>> : r \in Readers(p)}
                  \cup (IF Readers(q) # {} \/ Writing(q) THEN {<<p, q>>} ELSE {})
       IN /\ overlap' = overlap \cup new
          /\ mixed' = mixed \cup {l[1] : l \in new}
    /\ UNCHANGED <<trackerVars, pc, us, have, bounds, linked, broken, cut, late>>

\* Having found it not empty, the thread takes from it (see PieceDownload).
TakeOfEmpty(p, q) ==
    /\ job[p][q] = "stale" /\ ~Wedged(p)
    /\ todo[p] = {}
    /\ SetJob(p, q, "wedged")
    /\ UNCHANGED <<trackerVars, pc, us, have, bounds, todo, piece, linked, overlap, marks>>

(* What q answers: its file reads as zeros in the holes before the last    *)
(* piece it holds, and ends there.  An overlapped request may get other    *)
(* bytes or be refused as well (see UploadServer).  A stream that has      *)
(* failed to write refuses everything (see PieceDownload).                 *)
Answers(p, q) ==
    LET i == piece[p][q] IN
    (CASE q \in broken -> {"refused"}
       [] q \notin broken /\ i \in have[q] -> {"genuine"}
       [] q \notin broken /\ i \notin have[q] /\ (\E j \in have[q] : j > i) -> {"other"}
       [] q \notin broken /\ (\A j \in have[q] : j < i) -> {"refused"})
    \cup (IF <<p, q>> \in overlap THEN {"other", "refused"} ELSE {})

Answered(p, q, a) == /\ job[p][q] = "fetch" /\ <<p, q>> \in linked
                     /\ a \in Answers(p, q)

\* Variant: the thread ends after its first piece.
StorePiece_Once(p, q) ==
    /\ Answered(p, q, "genuine") /\ p \notin broken
    /\ have' = [have EXCEPT ![p] = @ \cup {piece[p][q]}]
    /\ SetJob(p, q, "over") /\ Unlink(p, q) /\ Drop(p, q) /\ Alone(p, q)
    /\ UNCHANGED <<trackerVars, pc, us, bounds, todo, marks>>

StorePiece(p, q) ==
    /\ Answered(p, q, "genuine") /\ p \notin broken
    /\ have' = [have EXCEPT ![p] = @ \cup {piece[p][q]}]
    /\ SetJob(p, q, "loop") /\ Drop(p, q) /\ Alone(p, q)
    /\ UNCHANGED <<trackerVars, pc, us, bounds, todo, linked, marks>>

\* The disk fails the write: nothing is thrown, now.
StoreLost(p, q) ==
    /\ Answered(p, q, "genuine") /\ p \notin broken
    /\ Fault
    /\ broken' = broken \cup {p}
    /\ SetJob(p, q, "loop") /\ Drop(p, q) /\ Alone(p, q)
    /\ UNCHANGED <<trackerVars, pc, us, have, started, restarted, todo, linked, mixed, cut, late>>

\* The digest does not match: the piece goes nowhere.
Mismatch(p, q) ==
    /\ Answered(p, q, "other")
    /\ SetJob(p, q, "loop") /\ Drop(p, q) /\ Alone(p, q)
    /\ UNCHANGED <<trackerVars, pc, us, have, bounds, todo, linked, marks>>

(* What may end a fetch: q is gone; it refuses; no answer comes in time,   *)
(* though q is there (the end of its header is split over two chunks); the *)
(* stream of p has failed before.                                          *)
Ends(p, q, cause) ==
    /\ job[p][q] = "fetch"
    /\ CASE cause = "gone" -> <<p, q>> \notin linked
         [] cause = "refused" -> "refused" \in Answers(p, q)
         [] cause = "late" -> <<p, q>> \in linked
         [] cause = "disk" -> Answered(p, q, "genuine") /\ p \in broken
    /\ IF cause = "late" THEN Fault ELSE UNCHANGED faults
    /\ cut' = cut \cup {p}
    /\ late' = IF cause = "late" THEN late \cup {p} ELSE late

\* Variant: the thread ends without giving its piece back.
GiveUp_Keeps(p, q) ==
    \E cause \in Causes :
        /\ Ends(p, q, cause) /\ ~Wedged(p)
        /\ SetJob(p, q, "over") /\ Drop(p, q) /\ Alone(p, q) /\ Unlink(p, q)
        /\ UNCHANGED <<trackerVars, pc, us, have, started, restarted, todo, broken, mixed>>

(* Any other exception: the piece is put back for the other threads, and   *)
(* this one ends.                                                          *)
GiveUp(p, q) ==
    \E cause \in Causes :
        /\ Ends(p, q, cause) /\ ~Wedged(p)
        /\ todo' = [todo EXCEPT ![p] = @ \cup {piece[p][q]}]
        /\ SetJob(p, q, "over") /\ Drop(p, q) /\ Alone(p, q) /\ Unlink(p, q)
        /\ UNCHANGED <<trackerVars, pc, us, have, started, restarted, broken, mixed>>

\* The set is wedged: the thread waits for ever to put its piece back.
Block(p, q) ==
    \E cause \in Causes :
        /\ Ends(p, q, cause) /\ Wedged(p)
        /\ SetJob(p, q, "stuck") /\ Alone(p, q)
        /\ UNCHANGED <<trackerVars, pc, us, have, started, restarted, todo, piece, linked,
                      broken, mixed>>

\* q is gone in the middle of a body, or a send fails again and again.
Hang(p, q) ==
    /\ job[p][q] = "fetch" /\ <<p, q>> \notin linked
    /\ SetJob(p, q, "stuck") /\ Alone(p, q)
    /\ UNCHANGED <<trackerVars, pc, us, have, bounds, todo, piece, linked, marks>>

\* q is gone in the middle of a header: parsing what there is faults p.
HeaderCut(p, q) ==
    /\ job[p][q] = "fetch" /\ <<p, q>> \notin linked
    /\ End(p)
    /\ UNCHANGED <<trackerVars, faults>>

-----------------------------------------------------------------------------
(* Crashes *)

Crash(p) ==
    /\ pc[p] # "off"
    /\ Fault
    /\ End(p)
    /\ UNCHANGED trackerVars

\* Files, and who has them, are kept in memory only.
TrackerCrash ==
    /\ up
    /\ Fault
    /\ up' = FALSE
    /\ seeders' = {} /\ leechers' = {}
    /\ address' = [p \in Peer |-> "none"]
    /\ forgot' = TRUE
    /\ UNCHANGED peerVars

TrackerRestart ==
    /\ ~up
    /\ up' = TRUE
    /\ UNCHANGED <<seeders, leechers, address, forgot, peerVars, faults>>

-----------------------------------------------------------------------------

\* A thread that has ended, hangs or wedged its set does nothing more.
Fetch(p, q) ==
    /\ job[p][q] \in {"connect", "loop", "stale", "fetch"}
    /\ \/ Connect(p, q) \/ Finish(p, q)
       \/ \E i \in Piece : Take(p, q, i)
       \/ TakeOfEmpty(p, q)
       \/ StorePiece(p, q) \/ StoreLost(p, q) \/ Mismatch(p, q) \/ GiveUp(p, q)
       \/ Block(p, q) \/ Hang(p, q) \/ HeaderCut(p, q)

Advance(p) ==
    \/ Login(p) \/ NoTracker(p)
    \/ Share(p) \/ ShareRefused(p)
    \/ AskPeers(p) \/ AskRefused(p)
    \/ Downloaded(p) \/ Return(p)

Next ==
    \/ \E p \in Peer : Start(p) \/ Advance(p) \/ Crash(p)
    \/ \E p, q \in Peer : Fetch(p, q)
    \/ TrackerCrash \/ TrackerRestart

(* The scheduler runs the threads that fetch from a seeder.  No more is    *)
(* assumed: nothing makes anybody start a process, or restart the tracker. *)
Fairness == \A p \in Leecher, q \in Seeder : WF_vars(Fetch(p, q))

Spec == Init /\ [][Next]_vars /\ Fairness
-----------------------------------------------------------------------------
(* Properties *)

(* Every variable keeps its type; a thread carries a piece when it fetches *)
(* or is stuck, only then does a request overlap, and no peer fetches from *)
(* itself.  (client.cpp:633-864, tracker.cpp:80-129)                       *)
TypeOK ==
    /\ up \in BOOLEAN
    /\ seeders \subseteq Seeder /\ leechers \subseteq Leecher
    /\ address \in [Peer -> {"none", "login", "server"}]
    /\ pc \in [Peer -> {"off", "login", "request", "download", "join"}]
    /\ us \in [Peer -> {"none", "listening", "failed"}]
    /\ have \in [Peer -> SUBSET Piece]
    /\ todo \in [Peer -> SUBSET Piece]
    /\ job \in [Peer -> [Peer -> {"none", "connect", "loop", "stale", "fetch",
                                  "wedged", "stuck", "over"}]]
    /\ piece \in [Peer -> [Peer -> Piece \cup {NoPiece}]]
    /\ linked \in SUBSET (Peer \X Peer)
    /\ overlap \in SUBSET (Peer \X Peer)
    /\ broken \subseteq Peer /\ mixed \subseteq Peer
    /\ late \subseteq cut /\ cut \subseteq Peer
    /\ started \subseteq Peer
    /\ restarted \subseteq started \cap Returning
    /\ Cardinality(restarted) <= MaxRestarts
    /\ faults \in 0 .. MaxFaults
    /\ forgot \in BOOLEAN
    /\ \A p, q \in Peer :
          /\ piece[p][q] # NoPiece <=> job[p][q] \in {"fetch", "stuck"}
          /\ <<p, q>> \in overlap => job[p][q] = "fetch"
    /\ \A p \in Peer : job[p][p] = "none"

Downloading(p) == pc[p] \in {"download", "join"} /\ p \in Leecher
Carried(p) == {piece[p][q] : q \in Peer} \ {NoPiece}

\* The pieces that p lacks and that nobody has to fetch any more.
Dropped(p) == Piece \ (have[p] \cup todo[p] \cup Carried(p))

\* The pieces that are still to be fetched, by no thread that could do it.
Stranded(p) ==
    (IF \A q \in Peer : job[p][q] \in {"none", "over", "stuck"} THEN todo[p] ELSE {})
    \cup {piece[p][q] : q \in {r \in Peer : job[p][r] = "stuck"}}

(* A piece is dropped, lacking and fetched by nobody ever again, only if a *)
(* leecher served it (its file has holes), another request overlapped one  *)
(* for it, or the disk failed: not by a neighbour that ends, refuses or is *)
(* late, nor by a wedged set, nor by a seeder asked by one peer at a time. *)
(* And one is stranded, given back for a thread that is not there or held  *)
(* by one that hangs, only if there was nobody to ask, or something did    *)
(* cut a thread short: its neighbour ended, refused or was late, or the    *)
(* disk failed.  (client.cpp:719-748, 325-336)                             *)
NothingLostToSeeder ==
    \A p \in Peer : Downloading(p) =>
        /\ Dropped(p) # {} =>
              p \in mixed \cup broken \/ \E q \in Leecher : job[p][q] # "none"
        /\ Stranded(p) # {} =>
              job[p] = NoJobs \/ p \in cut

(* The address the tracker gives out for a peer that shares or downloads   *)
(* is that of its upload server, not of the connection it logged in by,    *)
(* unless the tracker has forgotten it.                                    *)
(* (tracker.cpp:242, 319, 345)                                             *)
ServingIsReachable ==
    \A p \in Peer : pc[p] \in {"download", "join"} =>
        address[p] = "server" \/ (address[p] = "none" /\ forgot)

(* Whoever serves the file is on the list for the others, as long as the   *)
(* tracker runs: sharing never puts an empty list in the place of another. *)
(* (tracker.cpp:210-216, 108-117)                                          *)
ServingIsListed ==
    \A p \in Peer : pc[p] \in {"download", "join"} /\ ~forgot =>
        p \in seeders \cup leechers

(* Whoever begins to download has a thread for the seeder that serves.     *)
(* (tracker.cpp:107-126, client.cpp:755-770)                               *)
LeecherFindsSeeder ==
    [][\A p \in Leecher, q \in Seeder :
          /\ pc[p] = "request" /\ pc'[p] = "download"
          /\ pc[q] = "join" /\ ~forgot
          => job'[p][q] = "connect"]_vars

\* p has one thread, about to connect to the upload server of a seeder.
OnlySeeder(p, q) == /\ q \in Seeder
                    /\ job[p][q] = "connect" /\ us[q] = "listening"
                    /\ \A r \in Peer \ {q} : job[p][r] = "none"

(* A leecher that has found a seeder and nobody else gets the whole file,  *)
(* unless one of the two processes ends, another leecher asks the same     *)
(* seeder at the same time, an answer of the seeder comes late, or the     *)
(* disk fails.  It is asked of the leechers that may be started again, for *)
(* they may have parts of the file before.  (client.cpp:715-748, 853-855)  *)
CompleteFromSeeder ==
    \A p \in Leecher \cap Returning, q \in Seeder :
        OnlySeeder(p, q) ~>
            \/ have[p] = Piece
            \/ p \in mixed \cup broken \cup late
            \/ pc[p] = "off" \/ pc[q] = "off"
=============================================================================
