---------------------------- MODULE UploadServer ----------------------------
(***************************************************************************)
(* The serving half of a peer (client.cpp, class upload_server): every     *)
(* connection has a thread that answers one request after another, and all *)
(* of them share one stream, with one position for reading and writing,    *)
(* and one buffer.  The downloader threads of the same peer write the      *)
(* pieces they fetch through the same stream.                              *)
(*                                                                         *)
(* tsafe_fstream locks each operation, not a sequence of them, and nothing *)
(* locks the buffer: an action is one locked operation, and the filling    *)
(* and the copying of the buffer go unit by unit.  A file is counted in    *)
(* units, UnitsPerPiece of them to a piece, the last piece may be shorter. *)
(***************************************************************************)
EXTENDS Integers, Sequences, FiniteSetsExt

CONSTANTS Conn,           \* the connections that http_server may accept
          NUnits,         \* the length of the whole file
          UnitsPerPiece,  \* PIECE_LENGTH
          DiskMayFail,    \* whether a write may fail in the disk
          NoConn          \* nobody holds the mutex of the stream

ASSUME UploadAssumption ==
    /\ NUnits \in Nat \ {0}
    /\ UnitsPerPiece \in Nat \ {0}
    /\ DiskMayFail \in BOOLEAN
    /\ NoConn \notin Conn

NPieces == (NUnits + UnitsPerPiece - 1) \div UnitsPerPiece
Piece == 0 .. NPieces - 1

\* A request may also name the first piece past the end.
Asked == 0 .. NPieces

VARIABLES
    leeching,  \* whether this peer is still downloading the file
    have,      \* the pieces that are on disk
    unwritten, \* the pieces its downloader threads have still to write
    stream,    \* "bad" once a write has failed
    position,  \* the joint read and write position of the stream
    lock,      \* the connection reading into the buffer, under the mutex
    buf,       \* the shared buffer: which unit each cell holds
    pc,        \* where the thread of a connection is
    piece_id,  \* the piece it was asked for
    fsize,     \* what it took for the size of the file
    next,      \* the next cell of the buffer it fills or copies
    body,      \* the units it has copied
    status,    \* the status of its last response, 0 before it
    had,       \* history: the piece was on disk when it was asked for
    moved,     \* history: position moved by another thread before tellg
    refilled   \* history: buf filled by another thread while it was copied

fileVars == <<leeching, have, unwritten, stream>>
connVars == <<pc, piece_id, fsize, next, body, status>>
history == <<had, moved, refilled>>
vars == <<fileVars, position, lock, buf, connVars, history>>

-----------------------------------------------------------------------------
(* Sizes and places in the file *)

Start(p) == p * UnitsPerPiece

\* Variant: every piece is taken for a whole one.
End_Whole(p) == Start(p) + UnitsPerPiece

End(p) == Min({Start(p) + UnitsPerPiece, NUnits})

\* Pieces are written whole and in any order, leaving holes before the last.
FileSize == Max({End(p) : p \in have} \cup {0})

\* Variants: the last piece is not cut short; it is cut one unit too short.
Count_Whole(c) == UnitsPerPiece
Count_OffByOne(c) == Min({UnitsPerPiece, fsize[c] - Start(piece_id[c]) - 1})

\* The number of units that read_piece reads and copies.
Count(c) == Min({UnitsPerPiece, fsize[c] - Start(piece_id[c])})

\* What the file holds at unit u: a hole reads as zeros.
UnitAt(u) == [unit |-> u, hole |-> u \div UnitsPerPiece \notin have]

Junk == [unit |-> NUnits, hole |-> TRUE]

(* A leecher opens the file as an earlier run has left it, some pieces of  *)
(* it on disk, and fetches every piece again.                              *)
Init ==
    /\ leeching \in BOOLEAN
    /\ have \in IF leeching THEN SUBSET Piece ELSE {Piece}
    /\ unwritten = IF leeching THEN Piece ELSE {}
    /\ stream = "good"
    /\ position = 0
    /\ lock = NoConn
    /\ buf = [i \in 0 .. UnitsPerPiece - 1 |-> Junk]
    /\ pc = [c \in Conn |-> "idle"]
    /\ piece_id = [c \in Conn |-> 0]
    /\ fsize = [c \in Conn |-> 0]
    /\ next = [c \in Conn |-> 0]
    /\ body = [c \in Conn |-> <<>>]
    /\ status = [c \in Conn |-> 0]
    /\ had = [c \in Conn |-> FALSE]
    /\ moved = [c \in Conn |-> FALSE]
    /\ refilled = [c \in Conn |-> FALSE]

-----------------------------------------------------------------------------
(* upload_server::callback and read_piece, for connection c *)

Goto(c, label) == pc' = [pc EXCEPT ![c] = label]

\* The response, and the locals of read_piece gone out of scope.
Respond(c, code) == /\ status' = [status EXCEPT ![c] = code]
                    /\ fsize' = [fsize EXCEPT ![c] = 0]
                    /\ next' = [next EXCEPT ![c] = 0]
                    /\ Goto(c, "idle")

\* The next operation on the stream can go ahead.
StreamFree == lock = NoConn /\ stream = "good"

\* The thread of c, or a writer as NoConn, moves the joint position.
MoveTo(c, pos) ==
    /\ position' = pos
    /\ moved' = [d \in Conn |-> moved[d] \/ (d # c /\ pc[d] = "tell")]

\* A downloader of another peer asks for a piece.
Request(c, p) ==
    /\ pc[c] = "idle"
    /\ piece_id' = [piece_id EXCEPT ![c] = p]
    /\ body' = [body EXCEPT ![c] = <<>>]
    /\ status' = [status EXCEPT ![c] = 0]
    /\ had' = [had EXCEPT ![c] = p \in have]
    /\ moved' = [moved EXCEPT ![c] = FALSE]
    /\ refilled' = [refilled EXCEPT ![c] = FALSE]
    /\ Goto(c, "seekEnd")
    /\ UNCHANGED <<fileVars, position, lock, buf, fsize, next>>

\* Variant: without the seek, tellg tells where the last request stopped.
SeekEnd_Forgotten(c) ==
    /\ pc[c] = "seekEnd" /\ StreamFree
    /\ Goto(c, "tell")
    /\ UNCHANGED <<fileVars, position, lock, buf, piece_id, fsize, next, body,
                   status, history>>

SeekEnd(c) ==
    /\ pc[c] = "seekEnd" /\ StreamFree
    /\ MoveTo(c, FileSize)
    /\ Goto(c, "tell")
    /\ UNCHANGED <<fileVars, lock, buf, piece_id, fsize, next, body, status,
                   had, refilled>>

Tell(c) ==
    /\ pc[c] = "tell" /\ StreamFree
    /\ fsize' = [fsize EXCEPT ![c] = position]
    /\ Goto(c, "rewind")
    /\ UNCHANGED <<fileVars, position, lock, buf, piece_id, next, body, status,
                   history>>

\* seekg(0), then invalid_piece_no_exception for a piece past the end.
Rewind(c) ==
    /\ pc[c] = "rewind" /\ StreamFree
    /\ MoveTo(c, 0)
    /\ IF Start(piece_id[c]) >= fsize[c]
       THEN Respond(c, 400)
       ELSE Goto(c, "read") /\ UNCHANGED <<status, fsize, next>>
    /\ UNCHANGED <<fileVars, lock, buf, piece_id, body, had, refilled>>

\* Variant: read does not seek to the piece.
ReadBegin_NoSeek(c) ==
    /\ pc[c] = "read" /\ StreamFree
    /\ lock' = c
    /\ Goto(c, "fill")
    /\ UNCHANGED <<fileVars, position, buf, piece_id, fsize, next, body, status,
                   history>>

\* tsafe_fstream::read takes the mutex, seeks, and fills the shared buffer
\* before it lets go; copiers do not take the mutex and see it half filled.
ReadBegin(c) ==
    /\ pc[c] = "read" /\ StreamFree
    /\ lock' = c
    /\ MoveTo(c, Start(piece_id[c]))
    /\ Goto(c, "fill")
    /\ UNCHANGED <<fileVars, buf, piece_id, fsize, next, body, status, had,
                   refilled>>

\* The thread of c writes one cell of the buffer, which others may be copying.
Fill(c, cell) ==
    /\ buf' = [buf EXCEPT ![next[c]] = cell]
    /\ refilled' = [d \in Conn |-> refilled[d] \/ (d # c /\ pc[d] = "copy")]

\* Variant: the mutex is not released after the read.
FillUnit_KeepsLock(c) ==
    /\ pc[c] = "fill"
    /\ Fill(c, UnitAt(position))
    /\ MoveTo(c, position + 1)
    /\ IF next[c] + 1 = Count(c)
       THEN Goto(c, "copy") /\ next' = [next EXCEPT ![c] = 0]
       ELSE UNCHANGED pc /\ next' = [next EXCEPT ![c] = @ + 1]
    /\ UNCHANGED <<fileVars, lock, piece_id, fsize, body, status, had>>

FillUnit(c) ==
    /\ pc[c] = "fill"
    /\ Fill(c, UnitAt(position))
    /\ MoveTo(c, position + 1)
    /\ IF next[c] + 1 = Count(c)
       THEN /\ lock' = NoConn
            /\ next' = [next EXCEPT ![c] = 0]
            /\ Goto(c, "copy")
       ELSE /\ next' = [next EXCEPT ![c] = @ + 1]
            /\ UNCHANGED <<lock, pc>>
    /\ UNCHANGED <<fileVars, piece_id, fsize, body, status, had>>

\* The loop that appends buf[i] to the body, then the response.
CopyUnit(c) ==
    /\ pc[c] = "copy"
    /\ body' = [body EXCEPT ![c] = Append(@, buf[next[c]])]
    /\ IF next[c] + 1 = Count(c)
       THEN Respond(c, 200)
       ELSE /\ next' = [next EXCEPT ![c] = @ + 1]
            /\ UNCHANGED <<pc, status, fsize>>
    /\ UNCHANGED <<fileVars, position, lock, buf, piece_id, history>>

\* catch(std::fstream::failure): on a bad stream every operation throws.
ServerError(c) ==
    /\ pc[c] \in {"seekEnd", "tell", "rewind", "read"}
    /\ lock = NoConn
    /\ stream = "bad"
    /\ Respond(c, 500)
    /\ UNCHANGED <<fileVars, position, lock, buf, piece_id, body, history>>

-----------------------------------------------------------------------------
(* downloader::write_piece, from the downloader threads of this peer *)

WritePiece(p) ==
    /\ p \in unwritten
    /\ StreamFree
    /\ have' = have \cup {p}
    /\ unwritten' = unwritten \ {p}
    /\ MoveTo(NoConn, End(p))
    /\ UNCHANGED <<leeching, stream, lock, buf, connVars, had, refilled>>

\* What the file holds after it does not matter: nothing reads it again.
WriteFails ==
    /\ unwritten # {}
    /\ DiskMayFail
    /\ StreamFree
    /\ stream' = "bad"
    /\ UNCHANGED <<leeching, have, unwritten, position, lock, buf, connVars,
                   history>>

-----------------------------------------------------------------------------

Serve(c) == \/ SeekEnd(c) \/ Tell(c) \/ Rewind(c)
            \/ ReadBegin(c) \/ FillUnit(c) \/ CopyUnit(c) \/ ServerError(c)

Next == \/ \E c \in Conn : Serve(c) \/ \E p \in Asked : Request(c, p)
        \/ \E p \in Piece : WritePiece(p)
        \/ WriteFails

\* A thread waiting for the mutex gets it if it is free again and again: a
\* requester sleeps a second after each piece (downloader_routine), which
\* leaves the mutex free for far longer than the others hold it.
Fairness == \A c \in Conn : SF_vars(Serve(c))

Spec == Init /\ [][Next]_vars

FairSpec == Spec /\ Fairness

-----------------------------------------------------------------------------
(* Properties *)

Unit == [unit : 0 .. NUnits, hole : BOOLEAN]

\* Stream, buffer and the locals of read_piece keep their types; a thread
\* never leaves the position behind the end of the file (upload_server).
TypeOK ==
    /\ leeching \in BOOLEAN
    /\ have \subseteq Piece /\ unwritten \subseteq Piece
    /\ stream \in {"good", "bad"}
    /\ position \in 0 .. NUnits
    /\ lock \in Conn \cup {NoConn}
    /\ buf \in [0 .. UnitsPerPiece - 1 -> Unit]
    /\ pc \in [Conn -> {"idle", "seekEnd", "tell", "rewind", "read", "fill", "copy"}]
    /\ piece_id \in [Conn -> Asked]
    /\ fsize \in [Conn -> 0 .. NUnits]
    /\ next \in [Conn -> 0 .. UnitsPerPiece]
    /\ body \in [Conn -> Seq(Unit)]
    /\ status \in [Conn -> {0, 200, 400, 500}]
    /\ had \in [Conn -> BOOLEAN]
    /\ moved \in [Conn -> BOOLEAN]
    /\ refilled \in [Conn -> BOOLEAN]

\* However the threads interleave on the joint position, a read never runs
\* past the end of the file: that would set failbit, and the stream would
\* fail every request and every write from then on (read_piece, read).
NoShortRead ==
    \A c \in Conn :
        pc[c] = "read" => Start(piece_id[c]) + Count(c) <= FileSize

\* A successful response always has the length of the piece it was asked
\* for, even when fsize was read off another thread's position: every
\* position a thread can leave behind is the border of a piece.
LengthRight ==
    \A c \in Conn :
        status[c] = 200 => Len(body[c]) = End(piece_id[c]) - Start(piece_id[c])

\* The body of c's last response is the piece it was asked for, and what was
\* on disk when it asked is not sent as a hole.
BodyOfPiece(c) ==
    status[c] = 200 =>
        \A i \in DOMAIN body[c] :
            /\ body[c][i].unit = Start(piece_id[c]) + i - 1
            /\ body[c][i].hole => ~had[c]

\* A successful response is the piece, from disk if it was there when it was
\* asked for, beside writers and any number of other requests, unless one of
\* them has filled the shared buffer while this one was copied from it.  The
\* moves of the joint position alone never spoil one (read_piece, read).
ExactUnlessRefilled == \A c \in Conn : refilled[c] \/ BodyOfPiece(c)

\* A piece that was on disk when it was asked for is refused only if another
\* thread, a reader or a writer, has moved the joint position between the
\* seek to the end of the file and tellg (read_piece).
RefusedOnlyIfMoved ==
    \A c \in Conn : status[c] = 400 /\ had[c] => moved[c]

\* Every request gets a response, however many share the mutex.
EveryRequestAnswered == \A c \in Conn : pc[c] = "seekEnd" ~> pc[c] = "idle"

\* What the code says of the single server, that its threads are taken care
\* of: every connection is sent the piece it asked for.
EveryConnectionExact == \A c \in Conn : BodyOfPiece(c)
=============================================================================
