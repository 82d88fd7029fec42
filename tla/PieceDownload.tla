--------------------------- MODULE PieceDownload ---------------------------
(***************************************************************************)
(* The downloading half of a peer (client.cpp, classes downloader,         *)
(* tsafe_set and peer): one downloader thread per neighbour, all of them   *)
(* sharing the ordered set of pieces still to fetch, the priorities that   *)
(* order it, and the stream of the file being assembled.                   *)
(*                                                                         *)
(* An action is one critical section of a shared object or one exchange    *)
(* with the neighbour: what a thread does between two of them is local.    *)
(*                                                                         *)
(* Pieces are numbers, because the set breaks ties by number.  The bytes   *)
(* of a piece are "genuine" (their SHA1 is the one the torrent lists) or   *)
(* "corrupt".  The tracker lists seeders, whose bitfield is all ones, and  *)
(* leechers, whose bitfield stays all zeros however much they hold.        *)
(***************************************************************************)
EXTENDS Integers, FiniteSets

CONSTANTS NPieces,      \* n_pieces: the number of digests of the torrent file
          Neighbour,    \* the keys of ndata, one downloader thread for each
          Seeder,       \* the neighbours whose bitfield is all ones
          OpenDigest,   \* the pieces whose digest has no zero byte
          DiskMayFail,  \* whether a write may fail in the disk
          NoPiece       \* what a thread carries when it carries no piece

Piece == 0 .. NPieces - 1

ASSUME DownloadAssumption ==
    /\ NPieces \in Nat \ {0}
    /\ Seeder \subseteq Neighbour
    /\ OpenDigest \subseteq Piece
    /\ DiskMayFail \in BOOLEAN
    /\ NoPiece \notin Piece
    /\ {"pool", "stored", "lost"} \cap Neighbour = {}

VARIABLES
    \* the shared set (tsafe_set)
    queued,           \* piece_set: the pieces in it
    placed,           \* the priority under which a queued piece was inserted
    pieces_priority,  \* pieces_priority, written only by update_priority
    wedged,           \* a thread spins for ever holding the mutex of the set
    \* the threads
    kind,             \* kind[n]: "sound" neighbours hold the file and answer
    pc,               \* where thread n is
    piece,            \* the piece thread n carries
    data,             \* the bytes it received for it
    idx, seen,        \* loop index and unlocked read of update_ndata_callback
    \* the file and its stream
    stream,           \* "bad" once a write has failed
    disk,             \* what the file holds for each piece
    \* history
    fetched,          \* the pieces whose write_piece returned
    dropped           \* the pieces abandoned after a digest mismatch

setVars == <<queued, placed, pieces_priority, wedged>>
threadVars == <<kind, pc, piece, data, idx, seen>>
fileVars == <<stream, disk>>
histVars == <<fetched, dropped>>
vars == <<queued, placed, pieces_priority, wedged, kind, pc, piece, data,
          idx, seen, stream, disk, fetched, dropped>>

Control == {"connect", "check", "take", "fetch", "write", "cbRead", "cbPut",
            "requeue", "exited", "stuck", "wedged"}

-----------------------------------------------------------------------------
(* The bytes, the digests and the order of the set *)

\* Variant: is_valid is the stub that its trailing comment keeps.
Verdicts_Stub(p, bytes) == {TRUE}

\* A digest is compared as a zero-terminated string (load_meta, is_valid).
\* With a zero byte inside, the comparison stops early and other bytes may
\* match; without one it runs on into the bytes that follow the array, and
\* the genuine bytes may fail to match.
Verdicts(p, bytes) ==
    (IF bytes = "genuine" \/ p \notin OpenDigest THEN {TRUE} ELSE {})
    \cup (IF bytes = "corrupt" \/ p \in OpenDigest THEN {FALSE} ELSE {})

\* What a neighbour may answer with.
Serves(n) == IF kind[n] = "sound" THEN {"genuine"} ELSE {"genuine", "corrupt"}

\* Variant: fetch_peers remembers all ones for every neighbour.
ReportedBit_OldOnes(n) == IF n \in Seeder THEN 0 ELSE -1

\* The bit a neighbour reports for every piece; ndata keeps a zero bitfield
\* for it (fetch_peers), so this is also the amount added to a priority.
ReportedBit(n) == IF n \in Seeder THEN 1 ELSE 0

\* peer::comp over the keys the tree was built with.
Before(p, q, key) == \/ key[p] < key[q]
                     \/ key[p] = key[q] /\ p < q

\* Variant: a std::set without the comparison function.
IsTop_ByNumber(p) == p \in queued /\ \A q \in queued : p <= q

IsTop(p) == /\ p \in queued
            /\ \A q \in queued \ {p} : Before(p, q, placed)

Holds(n, p) == piece[n] = p

Goto(n, label) == pc' = [pc EXCEPT ![n] = label]

-----------------------------------------------------------------------------

\* peer::peer has queued every piece at priority 0 (load_meta) and opened
\* the file, which an earlier run of the program may have filled in part;
\* fetch_peers has filled ndata and start_download starts the threads.
Init ==
    /\ queued = Piece
    /\ placed = [p \in Piece |-> 0]
    /\ pieces_priority = [p \in Piece |-> 0]
    /\ wedged = FALSE
    /\ kind \in [Neighbour -> {"sound", "unsound"}]
    /\ pc = [n \in Neighbour |-> "connect"]
    /\ piece = [n \in Neighbour |-> NoPiece]
    /\ data = [n \in Neighbour |-> "genuine"]
    /\ idx = [n \in Neighbour |-> 0]
    /\ seen = [n \in Neighbour |-> 0]
    /\ stream = "good"
    /\ disk \in [Piece -> {"hole", "genuine"}]
    /\ fetched = {}
    /\ dropped = {}

-----------------------------------------------------------------------------
(* Entering and leaving the loop of downloader_routine *)

Connect(n) ==
    /\ pc[n] = "connect"
    /\ Goto(n, "check")
    /\ UNCHANGED <<setVars, kind, piece, data, idx, seen, fileVars, histVars>>

ConnectFails(n) ==
    /\ pc[n] = "connect"
    /\ kind[n] = "unsound"
    /\ Goto(n, "exited")
    /\ UNCHANGED <<setVars, kind, piece, data, idx, seen, fileVars, histVars>>

\* while(!p.pieces.empty()): the mutex is released before remove_top.
CheckEmpty(n) ==
    /\ pc[n] = "check"
    /\ ~wedged
    /\ Goto(n, IF queued = {} THEN "exited" ELSE "take")
    /\ UNCHANGED <<setVars, kind, piece, data, idx, seen, fileVars, histVars>>

Carry(n, p) == piece' = [piece EXCEPT ![n] = p]

\* Variant: remove_top reads the top and forgets to pop it.
RemoveTop_NoPop(n) ==
    /\ pc[n] = "take"
    /\ ~wedged
    /\ \E p \in Piece : IsTop(p) /\ Carry(n, p)
    /\ Goto(n, "fetch")
    /\ UNCHANGED <<setVars, kind, data, idx, seen, fileVars, histVars>>

RemoveTop(n) ==
    /\ pc[n] = "take"
    /\ ~wedged
    /\ \E p \in Piece : /\ IsTop(p)
                        /\ queued' = queued \ {p}
                        /\ Carry(n, p)
    /\ Goto(n, "fetch")
    /\ UNCHANGED <<placed, pieces_priority, wedged, kind, data, idx, seen,
                   fileVars, histVars>>

\* Another thread took the last piece in between: top() and pop() reach
\* past the end of an empty std::set.  Erasing its header node loops for
\* ever, inside remove_top and so with the mutex of the set held.
RemoveTopOfEmpty(n) ==
    /\ pc[n] = "take"
    /\ ~wedged
    /\ queued = {}
    /\ wedged' = TRUE
    /\ Goto(n, "wedged")
    /\ UNCHANGED <<queued, placed, pieces_priority, kind, piece, data, idx,
                   seen, fileVars, histVars>>

-----------------------------------------------------------------------------
(* downloader::download: the exchange with the neighbour and the verdict *)

FetchAccepted(n) ==
    /\ pc[n] = "fetch"
    /\ \E bytes \in Serves(n) : /\ TRUE \in Verdicts(piece[n], bytes)
                                /\ data' = [data EXCEPT ![n] = bytes]
    /\ Goto(n, "write")
    /\ UNCHANGED <<setVars, kind, piece, idx, seen, fileVars, histVars>>

\* Variant: the piece is pushed back and the thread goes on.
FetchMismatch_Requeues(n) ==
    /\ pc[n] = "fetch"
    /\ ~wedged
    /\ \E bytes \in Serves(n) : FALSE \in Verdicts(piece[n], bytes)
    /\ queued' = queued \cup {piece[n]}
    /\ placed' = [placed EXCEPT ![piece[n]] = pieces_priority[piece[n]]]
    /\ Carry(n, NoPiece)
    /\ Goto(n, "check")
    /\ UNCHANGED <<pieces_priority, wedged, kind, data, idx, seen, fileVars,
                   histVars>>

\* catch(sha_mismatch_exception): the piece goes nowhere.
FetchMismatch(n) ==
    /\ pc[n] = "fetch"
    /\ \E bytes \in Serves(n) : FALSE \in Verdicts(piece[n], bytes)
    /\ dropped' = dropped \cup {piece[n]}
    /\ Carry(n, NoPiece)
    /\ Goto(n, "check")
    /\ UNCHANGED <<setVars, kind, data, idx, seen, fileVars, fetched>>

\* A refused request, a status other than 200, a missing header, a time-out:
\* every other exception of send_request and of download.
FetchFails(n) ==
    /\ pc[n] = "fetch"
    /\ kind[n] = "unsound"
    /\ Goto(n, "requeue")
    /\ UNCHANGED <<setVars, kind, piece, data, idx, seen, fileVars, histVars>>

\* The neighbour closes in the middle of a body: read_response counts the
\* zero bytes it reads for ever (http.cpp, read_response).
FetchHangs(n) ==
    /\ pc[n] = "fetch"
    /\ kind[n] = "unsound"
    /\ Goto(n, "stuck")
    /\ UNCHANGED <<setVars, kind, piece, data, idx, seen, fileVars, histVars>>

-----------------------------------------------------------------------------
(* downloader::write_piece, through tsafe_fstream::write *)

Written(n) ==
    /\ fetched' = fetched \cup {piece[n]}
    /\ Carry(n, NoPiece)
    /\ idx' = [idx EXCEPT ![n] = 0]
    /\ Goto(n, "cbRead")
    /\ UNCHANGED <<setVars, kind, data, seen, dropped>>

\* Variant: without the flush the bytes stay in the buffer of the stream.
WritePiece_NoFlush(n) ==
    /\ pc[n] = "write"
    /\ stream = "good"
    /\ Written(n)
    /\ UNCHANGED fileVars

WritePiece(n) ==
    /\ pc[n] = "write"
    /\ stream = "good"
    /\ disk' = [disk EXCEPT ![piece[n]] = data[n]]
    /\ Written(n)
    /\ UNCHANGED stream

\* Variant: the error state of the stream is cleared.
WriteLost_Cleared(n) ==
    /\ pc[n] = "write"
    /\ stream = "good"
    /\ DiskMayFail
    /\ disk' = [disk EXCEPT ![piece[n]] = "torn"]
    /\ Written(n)
    /\ UNCHANGED stream

\* The flush fails: badbit is not in the exception mask, so nothing is
\* thrown and the thread goes on as if the piece were on disk.
WriteLost(n) ==
    /\ pc[n] = "write"
    /\ stream = "good"
    /\ DiskMayFail
    /\ stream' = "bad"
    /\ disk' = [disk EXCEPT ![piece[n]] = "torn"]
    /\ Written(n)

\* On a bad stream the next operation sets failbit, which is in the mask.
WriteThrows(n) ==
    /\ pc[n] = "write"
    /\ stream = "bad"
    /\ Goto(n, "requeue")
    /\ UNCHANGED <<setVars, kind, piece, data, idx, seen, fileVars, histVars>>

-----------------------------------------------------------------------------
(* peer::update_ndata_callback and the end of a failed attempt *)

\* pieces_priority[i] is read without the mutex of the set.
ReadPriority(n) ==
    /\ pc[n] = "cbRead"
    /\ seen' = [seen EXCEPT ![n] = pieces_priority[idx[n]]]
    /\ Goto(n, "cbPut")
    /\ UNCHANGED <<setVars, kind, piece, data, idx, fileVars, histVars>>

NextIndex(n) ==
    /\ idx' = [idx EXCEPT ![n] = @ + 1]
    /\ Goto(n, IF idx[n] + 1 = NPieces THEN "check" ELSE "cbRead")

\* Variant: the priority changes under the tree, without erase and insert.
UpdatePriority_InPlace(n) ==
    /\ pc[n] = "cbPut"
    /\ ~wedged
    /\ pieces_priority' =
           [pieces_priority EXCEPT ![idx[n]] = seen[n] + ReportedBit(n)]
    /\ NextIndex(n)
    /\ UNCHANGED <<queued, placed, wedged, kind, piece, data, seen, fileVars,
                   histVars>>

\* tsafe_set::update_priority: erase, change the priority, insert again;
\* a piece that is not queued keeps its priority.
UpdatePriority(n) ==
    /\ pc[n] = "cbPut"
    /\ ~wedged
    /\ LET i == idx[n]
           priority == seen[n] + ReportedBit(n)
       IN  IF i \in queued
           THEN /\ pieces_priority' = [pieces_priority EXCEPT ![i] = priority]
                /\ placed' = [placed EXCEPT ![i] = priority]
           ELSE UNCHANGED <<pieces_priority, placed>>
    /\ NextIndex(n)
    /\ UNCHANGED <<queued, wedged, kind, piece, data, seen, fileVars, histVars>>

\* Variants: push does not lock the set; the thread tries again for ever.
PushBack_NoLock(n) ==
    /\ pc[n] = "requeue"
    /\ queued' = queued \cup {piece[n]}
    /\ placed' = [placed EXCEPT ![piece[n]] = pieces_priority[piece[n]]]
    /\ Carry(n, NoPiece)
    /\ Goto(n, "exited")
    /\ UNCHANGED <<pieces_priority, wedged, kind, data, idx, seen, fileVars,
                   histVars>>

PushBack_Retries(n) ==
    /\ pc[n] = "requeue"
    /\ ~wedged
    /\ queued' = queued \cup {piece[n]}
    /\ placed' = [placed EXCEPT ![piece[n]] = pieces_priority[piece[n]]]
    /\ Carry(n, NoPiece)
    /\ Goto(n, "check")
    /\ UNCHANGED <<pieces_priority, wedged, kind, data, idx, seen, fileVars,
                   histVars>>

\* catch(const std::exception&): push the piece back, then break.
PushBack(n) ==
    /\ pc[n] = "requeue"
    /\ ~wedged
    /\ queued' = queued \cup {piece[n]}
    /\ placed' = [placed EXCEPT ![piece[n]] = pieces_priority[piece[n]]]
    /\ Carry(n, NoPiece)
    /\ Goto(n, "exited")
    /\ UNCHANGED <<pieces_priority, wedged, kind, data, idx, seen, fileVars,
                   histVars>>

-----------------------------------------------------------------------------

Thread(n) ==
    \/ Connect(n) \/ ConnectFails(n)
    \/ CheckEmpty(n) \/ RemoveTop(n) \/ RemoveTopOfEmpty(n)
    \/ FetchAccepted(n) \/ FetchMismatch(n) \/ FetchFails(n) \/ FetchHangs(n)
    \/ WritePiece(n) \/ WriteLost(n) \/ WriteThrows(n)
    \/ ReadPriority(n) \/ UpdatePriority(n) \/ PushBack(n)

Next == \E n \in Neighbour : Thread(n)

\* Threads are scheduled by the operating system, and every wait of a thread
\* on its neighbour ends with an answer, an error or the poll time-out.
Fairness == \A n \in Neighbour : WF_vars(Thread(n))

Spec == Init /\ [][Next]_vars

FairSpec == Spec /\ Fairness

-----------------------------------------------------------------------------
(* Properties *)

TypeOK ==
    /\ queued \subseteq Piece
    /\ placed \in [Piece -> Nat]
    /\ pieces_priority \in [Piece -> Nat]
    /\ wedged \in BOOLEAN
    /\ kind \in [Neighbour -> {"sound", "unsound"}]
    /\ pc \in [Neighbour -> Control]
    /\ piece \in [Neighbour -> Piece \cup {NoPiece}]
    /\ data \in [Neighbour -> {"genuine", "corrupt"}]
    /\ idx \in [Neighbour -> 0 .. NPieces]
    /\ seen \in [Neighbour -> Nat]
    /\ stream \in {"good", "bad"}
    /\ disk \in [Piece -> {"hole", "genuine", "corrupt", "torn"}]
    /\ fetched \subseteq Piece
    /\ dropped \subseteq Piece

\* Where piece p is: in the set, with a thread, on disk or abandoned.
PlacesOf(p) == {n \in Neighbour : Holds(n, p)}
               \cup (IF p \in queued THEN {"pool"} ELSE {})
               \cup (IF p \in fetched THEN {"stored"} ELSE {})
               \cup (IF p \in dropped THEN {"lost"} ELSE {})

\* A piece is always in exactly one place: no two threads fetch the same
\* piece, and none is queued again once it is fetched (remove_top, push).
PieceConservation == \A p \in Piece : Cardinality(PlacesOf(p)) = 1

\* The tree stays ordered although the order reads a mutable vector: a
\* queued piece has the priority it was inserted under (update_priority
\* erases first, push inserts with the priority of the moment).
KeysStable == \A p \in queued : placed[p] = pieces_priority[p]

\* Only the rarest piece leaves the set: one whose priority at that moment
\* is the least, the lower number first on a tie (comp, remove_top).
RarestFirst ==
    [][\A p \in queued \ queued' : \A q \in queued \ {p} :
           Before(p, q, pieces_priority)]_vars

\* Whatever the neighbours send, a piece that write_piece returned for is
\* genuine on disk, unless the disk failed under it or its digest is one
\* that the zero-terminated comparison of is_valid cuts short.
FetchedIsGenuine ==
    \A p \in fetched :
        disk[p] \in {"genuine", "torn"}
                    \cup (IF p \in OpenDigest THEN {} ELSE {"corrupt"})

\* The write that fails silently is the only one: at most one piece counts
\* as fetched without being whole on disk (tsafe_fstream's exception mask).
AtMostOneTorn ==
    \A p, q \in Piece : disk[p] = "torn" /\ disk[q] = "torn" => p = q

\* When the set wedges under remove_top, nothing is left in it: a wedged
\* set never withholds a piece that another thread could still fetch.
WedgedWhenDrained == wedged => queued = {}

\* downloader_routine ends: no thread retries for ever, whatever its
\* neighbour does, unless it is stuck on a neighbour that hung up in the
\* middle of a body or the set is wedged.
ThreadsFinish ==
    <>(wedged \/ \A n \in Neighbour : pc[n] \in {"exited", "stuck"})

\* If every neighbour is sound and the disk does not fail, each piece whose
\* digest compares reliably ends up genuine on disk, wedged set or not.
SoundNeighboursComplete ==
    (\A n \in Neighbour : kind[n] = "sound")
        => <>(stream = "bad" \/ \A p \in Piece \ OpenDigest : disk[p] = "genuine")

\* The threads implement the hand-over of pieces of PieceTransfer.
Transfer == INSTANCE PieceTransfer
    WITH Worker <- Neighbour,
         at <- [p \in Piece |-> PlacesOf(p)],
         active <- {n \in Neighbour : pc[n] # "exited"}

TransferSpec == Transfer!Spec

\* What the code says of priorities and does not keep: a neighbour's
\* bitfield is remembered, so that it counts once in a piece's priority.
PriorityCountsHolders ==
    \A p \in Piece : pieces_priority[p] <= Cardinality(Seeder)
=============================================================================
