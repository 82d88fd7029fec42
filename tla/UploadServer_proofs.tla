------------------------- MODULE UploadServer_proofs -------------------------
(***************************************************************************)
(* Proofs about UploadServer for any file, any length of a piece and any   *)
(* set of connections: its type invariant, that no read runs past the end  *)
(* of the file, that a response has the length of its piece, that only the *)
(* shared buffer can spoil its units, and that only a moved position makes *)
(* the server refuse a piece it has.                                       *)
(***************************************************************************)
EXTENDS UploadServer, WellFoundedInduction, TLAPS

-----------------------------------------------------------------------------
(* Sizes and places in the file *)

LEMMA MinOfTwo ==
    ASSUME NEW a \in Int, NEW b \in Int
    PROVE  Min({a, b}) = IF a <= b THEN a ELSE b
BY DEF Min

\* A bounded set of naturals that has an element has a largest one, which is
\* what Max chooses: the mirror image of the set has a least element.
LEMMA MaxOfBounded ==
    ASSUME NEW S \in SUBSET Nat, NEW n \in Nat, S # {}, \A s \in S : s <= n
    PROVE  Max(S) \in S /\ \A s \in S : s <= Max(S)
<1> DEFINE T == {t \in Nat : n - t \in S}
<1>1. T \subseteq Nat /\ T # {}
  <2>1. PICK s \in S : s \in Nat /\ s <= n
    OBVIOUS
  <2>2. n - s \in T
    BY <2>1
  <2> QED
    BY <2>2
<1>2. PICK least \in T : \A t \in T : <<t, least>> \notin OpToRel(<, Nat)
  BY <1>1, NatLessThanWellFounded, WFMin, Zenon
<1>3. ASSUME NEW t \in T PROVE least <= t
  <2>1. <<t, least>> \notin OpToRel(<, Nat)
    BY <1>2
  <2>2. t \in Nat /\ least \in Nat
    BY <1>1
  <2>3. ~(t < least)
    BY <2>1, <2>2 DEF OpToRel
  <2> QED
    BY <2>2, <2>3
<1>4. n - least \in S
  BY <1>2
<1>5. ASSUME NEW s \in S PROVE s <= n - least
  <2>1. n - s \in T
    OBVIOUS
  <2> QED
    BY <2>1, <1>3
<1>6. Max(S) \in S /\ \A s \in S : Max(S) >= s
  BY <1>4, <1>5 DEF Max
<1> QED
  BY <1>6

\* A piece is a place in the file where something starts.
LEMMA PieceInFile ==
    ASSUME NEW p \in Int
    PROVE  p \in Piece <=> p >= 0 /\ Start(p) < NUnits
BY UploadAssumption DEF Start, Piece, NPieces

LEMMA AskedInFile == NPieces \in Nat /\ Piece \subseteq Asked /\ Asked \subseteq Nat
BY UploadAssumption DEF Asked, Piece, NPieces

LEMMA EndOfPiece ==
    ASSUME NEW p \in Piece
    PROVE  /\ Start(p) \in 0 .. NUnits - 1
           /\ End(p) \in 1 .. NUnits
           /\ End(p) = IF Start(p) + UnitsPerPiece <= NUnits
                       THEN Start(p) + UnitsPerPiece ELSE NUnits
           /\ Start(p) < End(p)
<1>1. p \in Nat /\ Start(p) < NUnits
  BY PieceInFile DEF Piece
<1>2. Start(p) \in Nat
  BY <1>1, UploadAssumption DEF Start
<1> QED
  BY <1>1, <1>2, MinOfTwo, UploadAssumption DEF End

\* The places where the file may end while pieces are being written.
Border == {0} \cup {End(p) : p \in Piece}

LEMMA BorderInFile == Border \subseteq 0 .. NUnits
BY EndOfPiece, UploadAssumption DEF Border

\* The size of a file with a set of pieces: a border, which no piece of the
\* set ends behind, and which one more piece does not lower.
SizeWith(pieces) == Max({End(p) : p \in pieces} \cup {0})

LEMMA SizeOfFile ==
    ASSUME NEW pieces \in SUBSET Piece
    PROVE  /\ SizeWith(pieces) \in Border
           /\ \A p \in pieces : End(p) <= SizeWith(pieces)
<1> DEFINE S == {End(p) : p \in pieces} \cup {0}
<1>1. S \subseteq Border /\ S # {} /\ 0 \in S
  BY DEF Border
<1> HIDE DEF S
<1>2. S \in SUBSET Nat /\ NUnits \in Nat /\ \A s \in S : s <= NUnits
  <2>1. S \subseteq 0 .. NUnits
    BY <1>1, BorderInFile
  <2> QED
    BY <2>1, UploadAssumption
<1>3. Max(S) \in S /\ \A s \in S : s <= Max(S)
  BY <1>1, <1>2, MaxOfBounded
<1> QED
  BY <1>1, <1>3 DEF SizeWith, S

LEMMA SizeGrows ==
    ASSUME NEW pieces \in SUBSET Piece, NEW more \in SUBSET Piece,
           pieces \subseteq more
    PROVE  SizeWith(pieces) <= SizeWith(more)
<1>1. SizeWith(pieces) = 0 \/ \E p \in pieces : SizeWith(pieces) = End(p)
  <2> DEFINE S == {End(p) : p \in pieces} \cup {0}
  <2>1. S \in SUBSET Nat /\ NUnits \in Nat /\ S # {} /\ \A s \in S : s <= NUnits
    BY EndOfPiece, UploadAssumption
  <2>2. Max(S) \in S
    BY <2>1, MaxOfBounded
  <2> QED
    BY <2>2 DEF SizeWith
<1>2. SizeWith(more) \in 0 .. NUnits
  BY SizeOfFile, BorderInFile
<1> QED
  BY <1>1, <1>2, SizeOfFile

\* Whichever border a thread took for the size of the file, read_piece counts
\* the units of the piece when it starts before that border.
LEMMA CountIsLength ==
    ASSUME NEW b \in Border, NEW p \in Nat, Start(p) < b
    PROVE  /\ p \in Piece
           /\ Min({UnitsPerPiece, b - Start(p)}) = End(p) - Start(p)
           /\ End(p) <= b
           /\ End(p) \in Border
<1>1. b \in 0 .. NUnits /\ Start(p) \in Nat
  BY BorderInFile, UploadAssumption DEF Start
<1>2. p \in Piece
  BY <1>1, PieceInFile, UploadAssumption
<1>3. PICK q \in Piece : b = End(q)
  BY <1>1 DEF Border
<1>4. q \in Nat
  BY AskedInFile
<1>5. /\ q >= p
      /\ q > p => Start(p) + UnitsPerPiece <= Start(q)
  <2>1. q < p => Start(q) + UnitsPerPiece <= Start(p)
    BY <1>4, UploadAssumption DEF Start
  <2>2. q > p => Start(p) + UnitsPerPiece <= Start(q)
    BY <1>4, UploadAssumption DEF Start
  <2> QED
    BY <1>1, <1>3, <1>4, <2>1, <2>2, EndOfPiece, UploadAssumption
<1>6. Min({UnitsPerPiece, b - Start(p)})
        = IF UnitsPerPiece <= b - Start(p) THEN UnitsPerPiece ELSE b - Start(p)
  BY <1>1, MinOfTwo, UploadAssumption
<1>7. CASE q = p
  BY <1>1, <1>2, <1>3, <1>6, <1>7, EndOfPiece, UploadAssumption DEF Border
<1>8. CASE q > p
  BY <1>1, <1>2, <1>3, <1>5, <1>6, <1>8, EndOfPiece, UploadAssumption DEF Border
<1> QED
  BY <1>4, <1>5, <1>7, <1>8

-----------------------------------------------------------------------------
(* The inductive invariant *)

\* Between two operations on the stream the joint position is a border inside
\* the file, so every size a thread takes from it is one too.
PositionInFile == lock = NoConn => position \in Border /\ position <= FileSize

SizeInFile(c) == fsize[c] \in Border /\ fsize[c] <= FileSize

\* The thread that holds the mutex is the one that fills the buffer.
OneReader(c) == pc[c] = "fill" <=> lock = c

\* Once the piece has been found to be in the file, it stays so.
PieceInside(c) == pc[c] \in {"read", "fill", "copy"} => Start(piece_id[c]) < fsize[c]

\* The two loops count up to the length of the piece, the first one along
\* with the position of the stream, the second one with the body.
LoopsCount(c) ==
    /\ pc[c] \in {"fill", "copy"} => next[c] < Count(c)
    /\ pc[c] \notin {"fill", "copy"} => next[c] = 0
    /\ pc[c] = "fill" => position = Start(piece_id[c]) + next[c]
    /\ pc[c] = "copy" => Len(body[c]) = next[c]
    /\ pc[c] \notin {"idle", "copy"} => body[c] = <<>>

Answered(c) ==
    /\ pc[c] # "idle" => status[c] = 0
    /\ status[c] = 200 => Len(body[c]) = End(piece_id[c]) - Start(piece_id[c])

ConnInv(c) == /\ SizeInFile(c) /\ OneReader(c) /\ PieceInside(c)
              /\ LoopsCount(c) /\ Answered(c)

ServingInv == TypeOK /\ PositionInFile /\ \A c \in Conn : ConnInv(c)

-----------------------------------------------------------------------------
(* ServingInv is inductive *)

LEMMA FileSizeInFile ==
    ASSUME TypeOK
    PROVE  FileSize \in Border /\ FileSize \in 0 .. NUnits
BY SizeOfFile, BorderInFile DEF TypeOK, FileSize, SizeWith

LEMMA Locals ==
    ASSUME TypeOK, NEW c \in Conn
    PROVE  /\ pc[c] \in {"idle", "seekEnd", "tell", "rewind", "read", "fill", "copy"}
           /\ piece_id[c] \in Asked /\ piece_id[c] \in Nat
           /\ fsize[c] \in 0 .. NUnits /\ next[c] \in 0 .. UnitsPerPiece
           /\ body[c] \in Seq(Unit) /\ c # NoConn
           /\ Start(piece_id[c]) \in Nat
<1>1. /\ pc \in [Conn -> {"idle", "seekEnd", "tell", "rewind", "read", "fill", "copy"}]
      /\ piece_id \in [Conn -> Asked] /\ fsize \in [Conn -> 0 .. NUnits]
      /\ next \in [Conn -> 0 .. UnitsPerPiece] /\ body \in [Conn -> Seq(Unit)]
  BY DEF TypeOK
<1>2. piece_id[c] \in Nat
  BY <1>1, AskedInFile
<1> QED
  BY <1>1, <1>2, UploadAssumption DEF Start

\* While c reads a piece or copies it, Count(c) is the length of that piece,
\* which ends no later than the file did when c took its size.
LEMMA ReadingAPiece ==
    ASSUME TypeOK, NEW c \in Conn, ConnInv(c), pc[c] \in {"read", "fill", "copy"}
    PROVE  /\ piece_id[c] \in Piece
           /\ Count(c) = End(piece_id[c]) - Start(piece_id[c])
           /\ Count(c) \in 1 .. UnitsPerPiece
           /\ Start(piece_id[c]) \in 0 .. NUnits - 1
           /\ End(piece_id[c]) \in Border
           /\ End(piece_id[c]) \in 1 .. NUnits
           /\ End(piece_id[c]) <= FileSize
<1>1. piece_id[c] \in Nat
  BY Locals
<1>2. fsize[c] \in Border /\ Start(piece_id[c]) < fsize[c] /\ fsize[c] <= FileSize
  BY DEF ConnInv, SizeInFile, PieceInside
<1>3. /\ piece_id[c] \in Piece
      /\ Count(c) = End(piece_id[c]) - Start(piece_id[c])
      /\ End(piece_id[c]) <= fsize[c]
      /\ End(piece_id[c]) \in Border
  BY <1>1, <1>2, CountIsLength DEF Count
<1>4. FileSize \in 0 .. NUnits /\ fsize[c] \in 0 .. NUnits
  BY <1>2, FileSizeInFile, BorderInFile
<1> QED
  BY <1>2, <1>3, <1>4, EndOfPiece, UploadAssumption

\* A step leaves a connection alone that keeps its locals and, if it has it,
\* the mutex and the place it reads at.
LEMMA LeftAlone ==
    ASSUME TypeOK, NEW c \in Conn, ConnInv(c),
           pc'[c] = pc[c], piece_id'[c] = piece_id[c], fsize'[c] = fsize[c],
           next'[c] = next[c], body'[c] = body[c], status'[c] = status[c],
           lock' = c <=> lock = c, lock = c => position' = position,
           FileSize' \in Int, FileSize <= FileSize'
    PROVE  ConnInv(c)'
<1>1. fsize[c] \in Int /\ FileSize \in Int
  BY FileSizeInFile DEF TypeOK
<1>2. SizeInFile(c)'
  BY <1>1 DEF ConnInv, SizeInFile
<1>3. Count(c)' = Count(c)
  BY DEF Count
<1>4. LoopsCount(c)'
  BY <1>3 DEF ConnInv, LoopsCount, OneReader
<1> QED
  BY <1>2, <1>4 DEF ConnInv, OneReader, PieceInside, Answered

LEMMA StepOfConnection ==
    ASSUME ServingInv, NEW c \in Conn, TypeOK', PositionInFile', ConnInv(c)', have' = have,
           \A d \in Conn \ {c} :
               /\ pc'[d] = pc[d] /\ piece_id'[d] = piece_id[d] /\ fsize'[d] = fsize[d]
               /\ next'[d] = next[d] /\ body'[d] = body[d] /\ status'[d] = status[d]
               /\ lock' = d <=> lock = d
               /\ lock = d => position' = position
    PROVE  ServingInv'
<1>1. FileSize' = FileSize /\ FileSize \in Int
  BY FileSizeInFile DEF FileSize, ServingInv
<1>2. ASSUME NEW d \in Conn \ {c} PROVE ConnInv(d)'
  BY <1>1, LeftAlone DEF ServingInv
<1> QED
  BY <1>2 DEF ServingInv

LEMMA InitServingInv == Init => ServingInv
<1> SUFFICES ASSUME Init PROVE ServingInv
  OBVIOUS
<1>1. have \in SUBSET Piece
  BY DEF Init
<1>2. FileSize \in Border /\ FileSize \in 0 .. NUnits
  BY <1>1, SizeOfFile, BorderInFile DEF FileSize, SizeWith
<1>3. TypeOK
  <2>1. 0 \in Asked /\ 0 \in 0 .. NUnits /\ 0 \in 0 .. UnitsPerPiece /\ Junk \in Unit
    BY AskedInFile, UploadAssumption DEF Asked, Junk, Unit
  <2> QED
    BY <1>1, <2>1 DEF Init, TypeOK
<1>4. 0 \in Border
  BY DEF Border
<1> QED
  BY <1>2, <1>3, <1>4, UploadAssumption
  DEF Init, ServingInv, ConnInv, OneReader, PositionInFile, SizeInFile, PieceInside,
      LoopsCount, Answered

LEMMA HistoryTyped ==
    ASSUME TypeOK, [Next]_vars
    PROVE  had' \in [Conn -> BOOLEAN] /\ moved' \in [Conn -> BOOLEAN]
           /\ refilled' \in [Conn -> BOOLEAN]
<1> USE DEF TypeOK
<1>1. ASSUME NEW d, NEW pos, MoveTo(d, pos) PROVE moved' \in [Conn -> BOOLEAN]
  BY <1>1 DEF MoveTo
<1>2. ASSUME NEW d \in Conn, NEW cell, Fill(d, cell) PROVE refilled' \in [Conn -> BOOLEAN]
  BY <1>2 DEF Fill
<1>3. ASSUME NEW c \in Conn, Serve(c) PROVE had' = had /\ moved' \in [Conn -> BOOLEAN]
                                           /\ refilled' \in [Conn -> BOOLEAN]
  BY <1>1, <1>2, <1>3 DEF Serve, SeekEnd, Tell, Rewind, ReadBegin, FillUnit, CopyUnit,
     ServerError, history
<1>4. ASSUME NEW c \in Conn, NEW p \in Asked, Request(c, p)
      PROVE  had' \in [Conn -> BOOLEAN] /\ moved' \in [Conn -> BOOLEAN]
             /\ refilled' \in [Conn -> BOOLEAN]
  BY <1>4 DEF Request
<1>5. ASSUME NEW p \in Piece, WritePiece(p) PROVE moved' \in [Conn -> BOOLEAN]
                                                 /\ UNCHANGED <<had, refilled>>
  BY <1>1, <1>5 DEF WritePiece
<1> QED
  BY <1>3, <1>4, <1>5 DEF Next, WriteFails, history, vars

LEMMA NextServingInv == ServingInv /\ [Next]_vars => ServingInv'
<1> SUFFICES ASSUME ServingInv, [Next]_vars PROVE ServingInv'
  OBVIOUS
<1>a. TypeOK /\ PositionInFile /\ \A c \in Conn : ConnInv(c)
  BY DEF ServingInv
<1>b. 0 \in Border /\ 0 \in 0 .. NUnits /\ FileSize \in Border /\ FileSize \in 0 .. NUnits
  BY <1>a, FileSizeInFile, UploadAssumption DEF Border
<1>c. had' \in [Conn -> BOOLEAN] /\ moved' \in [Conn -> BOOLEAN]
      /\ refilled' \in [Conn -> BOOLEAN]
  BY <1>a, HistoryTyped
<1>1. CASE UNCHANGED vars
  <2>1. TypeOK' /\ PositionInFile' /\ FileSize' = FileSize
    BY <1>1, <1>a DEF vars, fileVars, connVars, history, TypeOK, PositionInFile, FileSize
  <2>2. ASSUME NEW c \in Conn PROVE ConnInv(c)'
    BY <1>1, <1>a, <1>b, <2>1, LeftAlone DEF vars, fileVars, connVars
  <2> QED
    BY <2>1, <2>2 DEF ServingInv
<1>2. ASSUME NEW c \in Conn, NEW p \in Asked, Request(c, p) PROVE ServingInv'
  <2>3. /\ SizeInFile(c) /\ OneReader(c) /\ PieceInside(c) /\ LoopsCount(c) /\ Answered(c)
        /\ have' = have
    BY <1>2, <1>a DEF ConnInv, Request, fileVars, Goto
  <2>4. TypeOK'
    BY <1>a, <1>b, <1>2, Locals, UploadAssumption, SMTT(20) DEF TypeOK, Request, fileVars, Goto
  <2>5. /\ pc'[c] = "seekEnd" /\ piece_id'[c] = p /\ fsize'[c] = fsize[c]
          /\ next'[c] = next[c] /\ body'[c] = <<>> /\ status'[c] = 0
    BY <1>a, <1>2 DEF TypeOK, Request, fileVars, Goto
  <2>6. ASSUME NEW d \in Conn \ {c}
    PROVE  /\ pc'[d] = pc[d] /\ piece_id'[d] = piece_id[d] /\ fsize'[d] = fsize[d]
           /\ next'[d] = next[d] /\ body'[d] = body[d] /\ status'[d] = status[d]
           /\ lock' = d <=> lock = d
           /\ lock = d => position' = position
    BY <1>a, <1>2, Locals, UploadAssumption DEF TypeOK, Request, fileVars, Goto
  <2>7. PositionInFile'
    BY <1>a, <1>b, <1>2 DEF PositionInFile, FileSize, Request, fileVars, Goto
  <2>8. SizeInFile(c)' /\ OneReader(c)' /\ PieceInside(c)'
    BY <1>a, <1>b, <2>3, <1>2, <2>5, Locals
    DEF SizeInFile, OneReader, PieceInside, PositionInFile, FileSize, Request, fileVars, Goto
  <2>9. LoopsCount(c)'
    BY <1>a, <2>3, <1>2, <2>5, Locals DEF LoopsCount, Count, Request, fileVars, Goto
  <2>10. Answered(c)'
    BY <2>3, <1>2, <2>5 DEF Answered, Request, fileVars, Goto
  <2> QED
    BY <2>3, <2>4, <2>6, <2>7, <2>8, <2>9, <2>10, StepOfConnection DEF ConnInv
<1>3. ASSUME NEW c \in Conn, SeekEnd(c) PROVE ServingInv'
  <2>3. /\ SizeInFile(c) /\ OneReader(c) /\ PieceInside(c) /\ LoopsCount(c) /\ Answered(c)
        /\ have' = have
    BY <1>3, <1>a DEF ConnInv, SeekEnd, StreamFree, fileVars, Goto, MoveTo
  <2>4. TypeOK'
    BY <1>a, <1>b, <1>3, Locals, UploadAssumption
    DEF TypeOK, SeekEnd, StreamFree, fileVars, Goto, MoveTo
  <2>5. /\ pc'[c] = "tell" /\ piece_id'[c] = piece_id[c] /\ fsize'[c] = fsize[c]
          /\ next'[c] = next[c] /\ body'[c] = body[c] /\ status'[c] = status[c]
    BY <1>a, <1>3 DEF TypeOK, SeekEnd, StreamFree, fileVars, Goto, MoveTo
  <2>6. ASSUME NEW d \in Conn \ {c}
    PROVE  /\ pc'[d] = pc[d] /\ piece_id'[d] = piece_id[d] /\ fsize'[d] = fsize[d]
           /\ next'[d] = next[d] /\ body'[d] = body[d] /\ status'[d] = status[d]
           /\ lock' = d <=> lock = d
           /\ lock = d => position' = position
    BY <1>a, <1>3, Locals, UploadAssumption DEF TypeOK, SeekEnd, StreamFree, fileVars, Goto, MoveTo
  <2>7. PositionInFile'
    BY <1>a, <1>b, <1>3 DEF PositionInFile, FileSize, SeekEnd, StreamFree, fileVars, Goto, MoveTo
  <2>8. SizeInFile(c)' /\ OneReader(c)' /\ PieceInside(c)'
    BY <1>a, <1>b, <2>3, <1>3, <2>5, Locals
    DEF SizeInFile, OneReader, PieceInside, PositionInFile, FileSize, SeekEnd, StreamFree,
        fileVars, Goto, MoveTo
  <2>9. LoopsCount(c)'
    BY <1>a, <2>3, <1>3, <2>5, Locals
    DEF LoopsCount, Count, SeekEnd, StreamFree, fileVars, Goto, MoveTo
  <2>10. Answered(c)'
    BY <2>3, <1>3, <2>5 DEF Answered, SeekEnd, StreamFree, fileVars, Goto, MoveTo
  <2> QED
    BY <2>3, <2>4, <2>6, <2>7, <2>8, <2>9, <2>10, StepOfConnection DEF ConnInv
<1>4. ASSUME NEW c \in Conn, Tell(c) PROVE ServingInv'
  <2>3. /\ SizeInFile(c) /\ OneReader(c) /\ PieceInside(c) /\ LoopsCount(c) /\ Answered(c)
        /\ have' = have
    BY <1>4, <1>a DEF ConnInv, Tell, StreamFree, fileVars, Goto, history
  <2>4. TypeOK'
    BY <1>a, <1>b, <1>4, Locals, UploadAssumption
    DEF TypeOK, Tell, StreamFree, fileVars, Goto, history
  <2>5. /\ pc'[c] = "rewind" /\ piece_id'[c] = piece_id[c] /\ fsize'[c] = position
          /\ next'[c] = next[c] /\ body'[c] = body[c] /\ status'[c] = status[c]
    BY <1>a, <1>4 DEF TypeOK, Tell, StreamFree, fileVars, Goto, history
  <2>6. ASSUME NEW d \in Conn \ {c}
    PROVE  /\ pc'[d] = pc[d] /\ piece_id'[d] = piece_id[d] /\ fsize'[d] = fsize[d]
           /\ next'[d] = next[d] /\ body'[d] = body[d] /\ status'[d] = status[d]
           /\ lock' = d <=> lock = d
           /\ lock = d => position' = position
    BY <1>a, <1>4, Locals, UploadAssumption DEF TypeOK, Tell, StreamFree, fileVars, Goto, history
  <2>7. PositionInFile'
    BY <1>a, <1>b, <1>4 DEF PositionInFile, FileSize, Tell, StreamFree, fileVars, Goto, history
  <2>8. SizeInFile(c)' /\ OneReader(c)' /\ PieceInside(c)'
    BY <1>a, <1>b, <2>3, <1>4, <2>5, Locals
    DEF SizeInFile, OneReader, PieceInside, PositionInFile, FileSize, Tell, StreamFree,
        fileVars, Goto, history
  <2>9. LoopsCount(c)'
    BY <1>a, <2>3, <1>4, <2>5, Locals
    DEF LoopsCount, Count, Tell, StreamFree, fileVars, Goto, history
  <2>10. Answered(c)'
    BY <2>3, <1>4, <2>5 DEF Answered, Tell, StreamFree, fileVars, Goto, history
  <2> QED
    BY <2>3, <2>4, <2>6, <2>7, <2>8, <2>9, <2>10, StepOfConnection DEF ConnInv
<1>5. ASSUME NEW c \in Conn, Rewind(c) PROVE ServingInv'
  <2>1. pc[c] = "rewind" /\ lock = NoConn
    BY <1>5 DEF Rewind, StreamFree
  <2>3. /\ SizeInFile(c) /\ OneReader(c) /\ PieceInside(c) /\ LoopsCount(c) /\ Answered(c)
        /\ have' = have
    BY <1>5, <1>a DEF ConnInv, Rewind, StreamFree, Respond, fileVars, Goto, MoveTo
  <2>4. CASE Start(piece_id[c]) >= fsize[c]
    <3>1. /\ pc' = [pc EXCEPT ![c] = "idle"]
          /\ fsize' = [fsize EXCEPT ![c] = 0]
          /\ next' = [next EXCEPT ![c] = 0]
          /\ status' = [status EXCEPT ![c] = 400]
          /\ position' = 0
          /\ UNCHANGED <<leeching, have, unwritten, stream, lock, buf, piece_id, body>>
      BY <1>5, <2>4, <2>1, Zenon DEF Rewind, StreamFree, Respond, fileVars, Goto, MoveTo
    <3>2. TypeOK'
      BY <1>a, <1>b, <1>c, <2>1, <3>1, Locals, UploadAssumption DEF TypeOK
    <3>3. /\ pc'[c] = "idle" /\ piece_id'[c] = piece_id[c] /\ fsize'[c] = 0
          /\ next'[c] = 0 /\ body'[c] = body[c] /\ status'[c] = 400
      BY <1>a, <3>1 DEF TypeOK
    <3>4. ASSUME NEW d \in Conn \ {c}
      PROVE  /\ pc'[d] = pc[d] /\ piece_id'[d] = piece_id[d] /\ fsize'[d] = fsize[d]
             /\ next'[d] = next[d] /\ body'[d] = body[d] /\ status'[d] = status[d]
             /\ lock' = d <=> lock = d
             /\ lock = d => position' = position
      BY <1>a, <2>1, <3>1, Locals, UploadAssumption DEF TypeOK
    <3>5. PositionInFile'
      BY <1>a, <1>b, <2>1, <2>4, <3>1 DEF PositionInFile, FileSize
    <3>6. SizeInFile(c)' /\ OneReader(c)' /\ PieceInside(c)'
      BY <1>a, <1>b, <2>1, <2>3, <2>4, <3>1, <3>3, Locals
      DEF SizeInFile, OneReader, PieceInside, PositionInFile, FileSize
    <3>7. LoopsCount(c)'
      BY <1>a, <2>1, <2>3, <2>4, <3>1, <3>3, Locals DEF LoopsCount, Count
    <3>8. Answered(c)'
      BY <2>1, <2>3, <2>4, <3>1, <3>3 DEF Answered
    <3> QED
      BY <2>3, <3>2, <3>4, <3>5, <3>6, <3>7, <3>8, StepOfConnection DEF ConnInv
  <2>5. CASE ~(Start(piece_id[c]) >= fsize[c])
    <3>1. /\ pc' = [pc EXCEPT ![c] = "read"]
          /\ position' = 0
          /\ UNCHANGED <<leeching, have, unwritten, stream, lock, buf, piece_id, fsize, next, body,
                         status>>
      BY <1>5, <2>5, <2>1, Zenon DEF Rewind, StreamFree, Respond, fileVars, Goto, MoveTo
    <3>2. TypeOK'
      BY <1>a, <1>b, <1>c, <2>1, <3>1, Locals, UploadAssumption DEF TypeOK
    <3>3. /\ pc'[c] = "read" /\ piece_id'[c] = piece_id[c] /\ fsize'[c] = fsize[c]
          /\ next'[c] = next[c] /\ body'[c] = body[c] /\ status'[c] = status[c]
      BY <1>a, <3>1 DEF TypeOK
    <3>4. ASSUME NEW d \in Conn \ {c}
      PROVE  /\ pc'[d] = pc[d] /\ piece_id'[d] = piece_id[d] /\ fsize'[d] = fsize[d]
             /\ next'[d] = next[d] /\ body'[d] = body[d] /\ status'[d] = status[d]
             /\ lock' = d <=> lock = d
             /\ lock = d => position' = position
      BY <1>a, <2>1, <3>1, Locals, UploadAssumption DEF TypeOK
    <3>5. PositionInFile'
      BY <1>a, <1>b, <2>1, <2>5, <3>1 DEF PositionInFile, FileSize
    <3>6. SizeInFile(c)' /\ OneReader(c)' /\ PieceInside(c)'
      BY <1>a, <1>b, <2>1, <2>3, <2>5, <3>1, <3>3, Locals
      DEF SizeInFile, OneReader, PieceInside, PositionInFile, FileSize
    <3>7. LoopsCount(c)'
      BY <1>a, <2>1, <2>3, <2>5, <3>1, <3>3, Locals DEF LoopsCount, Count
    <3>8. Answered(c)'
      BY <2>1, <2>3, <2>5, <3>1, <3>3 DEF Answered
    <3> QED
      BY <2>3, <3>2, <3>4, <3>5, <3>6, <3>7, <3>8, StepOfConnection DEF ConnInv
  <2> QED
    BY <2>4, <2>5
<1>6. ASSUME NEW c \in Conn, ReadBegin(c) PROVE ServingInv'
  <2>1. pc[c] = "read" /\ lock = NoConn
    BY <1>6 DEF ReadBegin, StreamFree
  <2>2. Start(piece_id[c]) \in 0 .. NUnits /\ 0 < Count(c)
    BY <1>a, <2>1, ReadingAPiece, UploadAssumption
  <2>3. /\ SizeInFile(c) /\ OneReader(c) /\ PieceInside(c) /\ LoopsCount(c) /\ Answered(c)
        /\ have' = have
    BY <1>6, <1>a DEF ConnInv, ReadBegin, StreamFree, fileVars, Goto, MoveTo
  <2>4. TypeOK'
    BY <1>a, <1>b, <2>1, <2>2, <1>6, Locals, UploadAssumption
    DEF TypeOK, ReadBegin, StreamFree, fileVars, Goto, MoveTo
  <2>5. /\ pc'[c] = "fill" /\ piece_id'[c] = piece_id[c] /\ fsize'[c] = fsize[c]
          /\ next'[c] = next[c] /\ body'[c] = body[c] /\ status'[c] = status[c]
    BY <1>a, <1>6 DEF TypeOK, ReadBegin, StreamFree, fileVars, Goto, MoveTo
  <2>6. ASSUME NEW d \in Conn \ {c}
    PROVE  /\ pc'[d] = pc[d] /\ piece_id'[d] = piece_id[d] /\ fsize'[d] = fsize[d]
           /\ next'[d] = next[d] /\ body'[d] = body[d] /\ status'[d] = status[d]
           /\ lock' = d <=> lock = d
           /\ lock = d => position' = position
    BY <1>a, <2>1, <2>2, <1>6, Locals, UploadAssumption
    DEF TypeOK, ReadBegin, StreamFree, fileVars, Goto, MoveTo
  <2>7. PositionInFile'
    BY <1>a, <1>6, Locals
    DEF PositionInFile, FileSize, ReadBegin, StreamFree, fileVars, Goto, MoveTo
  <2>8. SizeInFile(c)' /\ OneReader(c)' /\ PieceInside(c)'
    BY <1>a, <1>b, <2>1, <2>2, <2>3, <1>6, <2>5, Locals
    DEF SizeInFile, OneReader, PieceInside, PositionInFile, FileSize, ReadBegin, StreamFree,
        fileVars, Goto, MoveTo
  <2>9. LoopsCount(c)'
    BY <1>a, <2>1, <2>2, <2>3, <1>6, <2>5, Locals
    DEF LoopsCount, Count, ReadBegin, StreamFree, fileVars, Goto, MoveTo
  <2>10. Answered(c)'
    BY <2>1, <2>2, <2>3, <1>6, <2>5 DEF Answered, ReadBegin, StreamFree, fileVars, Goto, MoveTo
  <2> QED
    BY <2>3, <2>4, <2>6, <2>7, <2>8, <2>9, <2>10, StepOfConnection DEF ConnInv
<1>7. ASSUME NEW c \in Conn, FillUnit(c) PROVE ServingInv'
  <2>1. /\ Start(piece_id[c]) \in 0 .. NUnits - 1 /\ Count(c) \in 1 .. UnitsPerPiece
        /\ Count(c) = End(piece_id[c]) - Start(piece_id[c])
        /\ End(piece_id[c]) \in Border /\ End(piece_id[c]) \in 1 .. NUnits
        /\ End(piece_id[c]) <= FileSize
    BY <1>7, <1>a, ReadingAPiece DEF FillUnit
  <2>2. /\ pc[c] = "fill" /\ lock = c /\ c # NoConn
        /\ position = Start(piece_id[c]) + next[c] /\ next[c] < Count(c)
        /\ next[c] \in 0 .. UnitsPerPiece - 1 /\ next[c] + 1 \in 0 .. UnitsPerPiece
        /\ position \in 0 .. NUnits /\ position + 1 \in 0 .. NUnits
    <3>1. /\ pc[c] = "fill" /\ lock = c
          /\ position = Start(piece_id[c]) + next[c] /\ next[c] < Count(c)
      BY <1>7, <1>a DEF FillUnit, ConnInv, OneReader, LoopsCount
    <3>2. next[c] \in Nat /\ c # NoConn
      BY <1>a, Locals
    <3> QED
      BY <2>1, <3>1, <3>2, UploadAssumption
  <2>3. /\ SizeInFile(c) /\ OneReader(c) /\ PieceInside(c) /\ LoopsCount(c) /\ Answered(c)
        /\ have' = have
    BY <1>7, <1>a DEF ConnInv, FillUnit, fileVars, Goto, MoveTo, Fill
  <2>4. CASE next[c] + 1 = Count(c)
    <3>1. /\ pc' = [pc EXCEPT ![c] = "copy"]
          /\ next' = [next EXCEPT ![c] = 0]
          /\ position' = position + 1
          /\ lock' = NoConn
          /\ buf' = [buf EXCEPT ![next[c]] = UnitAt(position)]
          /\ UNCHANGED <<leeching, have, unwritten, stream, piece_id, fsize, body, status>>
      BY <1>7, <2>4, <2>1, <2>2, Zenon DEF FillUnit, fileVars, Goto, MoveTo, Fill
    <3>2. TypeOK'
      <4>1. UnitAt(position) \in Unit
        BY <2>2 DEF UnitAt, Unit
      <4>2. buf' \in [0 .. UnitsPerPiece - 1 -> Unit]
        BY <1>a, <2>2, <3>1, <4>1 DEF TypeOK
      <4> QED
        BY <1>a, <1>c, <2>2, <3>1, <4>2, UploadAssumption DEF TypeOK
    <3>3. /\ pc'[c] = "copy" /\ piece_id'[c] = piece_id[c] /\ fsize'[c] = fsize[c]
          /\ next'[c] = 0 /\ body'[c] = body[c] /\ status'[c] = status[c]
      BY <1>a, <3>1 DEF TypeOK
    <3>4. ASSUME NEW d \in Conn \ {c}
      PROVE  /\ pc'[d] = pc[d] /\ piece_id'[d] = piece_id[d] /\ fsize'[d] = fsize[d]
             /\ next'[d] = next[d] /\ body'[d] = body[d] /\ status'[d] = status[d]
             /\ lock' = d <=> lock = d
             /\ lock = d => position' = position
      BY <1>a, <2>1, <2>2, <3>1, Locals, UploadAssumption DEF TypeOK
    <3>5. PositionInFile'
      BY <1>a, <1>b, <2>1, <2>2, <2>4, <3>1 DEF PositionInFile, FileSize
    <3>6. SizeInFile(c)' /\ OneReader(c)' /\ PieceInside(c)'
      BY <1>a, <1>b, <2>1, <2>2, <2>3, <2>4, <3>1, <3>3, Locals
      DEF SizeInFile, OneReader, PieceInside, PositionInFile, FileSize
    <3>7. LoopsCount(c)'
      BY <1>a, <2>1, <2>2, <2>3, <2>4, <3>1, <3>3, Locals DEF LoopsCount, Count
    <3>8. Answered(c)'
      BY <2>1, <2>2, <2>3, <2>4, <3>1, <3>3 DEF Answered
    <3> QED
      BY <2>3, <3>2, <3>4, <3>5, <3>6, <3>7, <3>8, StepOfConnection DEF ConnInv
  <2>5. CASE next[c] + 1 # Count(c)
    <3>1. /\ next' = [next EXCEPT ![c] = next[c] + 1]
          /\ position' = position + 1
          /\ buf' = [buf EXCEPT ![next[c]] = UnitAt(position)]
          /\ UNCHANGED <<leeching, have, unwritten, stream, lock, pc, piece_id, fsize, body,
                         status>>
      BY <1>7, <2>5, <2>1, <2>2, Zenon DEF FillUnit, fileVars, Goto, MoveTo, Fill
    <3>2. TypeOK'
      <4>1. UnitAt(position) \in Unit
        BY <2>2 DEF UnitAt, Unit
      <4>2. buf' \in [0 .. UnitsPerPiece - 1 -> Unit]
        BY <1>a, <2>2, <3>1, <4>1 DEF TypeOK
      <4> QED
        BY <1>a, <1>c, <2>2, <3>1, <4>2, UploadAssumption DEF TypeOK
    <3>3. /\ pc'[c] = pc[c] /\ piece_id'[c] = piece_id[c] /\ fsize'[c] = fsize[c]
          /\ next'[c] = next[c] + 1 /\ body'[c] = body[c] /\ status'[c] = status[c]
      BY <1>a, <3>1 DEF TypeOK
    <3>4. ASSUME NEW d \in Conn \ {c}
      PROVE  /\ pc'[d] = pc[d] /\ piece_id'[d] = piece_id[d] /\ fsize'[d] = fsize[d]
             /\ next'[d] = next[d] /\ body'[d] = body[d] /\ status'[d] = status[d]
             /\ lock' = d <=> lock = d
             /\ lock = d => position' = position
      BY <1>a, <2>1, <2>2, <3>1, Locals, UploadAssumption DEF TypeOK
    <3>5. PositionInFile'
      BY <1>a, <1>b, <2>1, <2>2, <2>5, <3>1 DEF PositionInFile, FileSize
    <3>6. SizeInFile(c)' /\ OneReader(c)' /\ PieceInside(c)'
      BY <1>a, <1>b, <2>1, <2>2, <2>3, <2>5, <3>1, <3>3, Locals
      DEF SizeInFile, OneReader, PieceInside, PositionInFile, FileSize
    <3>7. LoopsCount(c)'
      BY <1>a, <2>1, <2>2, <2>3, <2>5, <3>1, <3>3, Locals DEF LoopsCount, Count
    <3>8. Answered(c)'
      BY <2>1, <2>2, <2>3, <2>5, <3>1, <3>3 DEF Answered
    <3> QED
      BY <2>3, <3>2, <3>4, <3>5, <3>6, <3>7, <3>8, StepOfConnection DEF ConnInv
  <2> QED
    BY <2>4, <2>5
<1>8. ASSUME NEW c \in Conn, CopyUnit(c) PROVE ServingInv'
  <2>1. /\ next[c] < Count(c) /\ next[c] \in Nat /\ Len(body[c]) = next[c]
        /\ Count(c) \in 1 .. UnitsPerPiece
        /\ Count(c) = End(piece_id[c]) - Start(piece_id[c])
        /\ buf[next[c]] \in Unit /\ body[c] \in Seq(Unit)
        /\ pc[c] = "copy" /\ next[c] + 1 \in 0 .. UnitsPerPiece
    <3>1. next[c] < Count(c) /\ next[c] \in Nat /\ Len(body[c]) = next[c]
      BY <1>8, <1>a DEF CopyUnit, ConnInv, LoopsCount, TypeOK
    <3>2. /\ Count(c) \in 1 .. UnitsPerPiece
          /\ Count(c) = End(piece_id[c]) - Start(piece_id[c])
      BY <1>8, <1>a, ReadingAPiece DEF CopyUnit
    <3> QED
      BY <1>8, <1>a, <3>1, <3>2, UploadAssumption DEF CopyUnit, TypeOK
  <2>2. /\ Append(body[c], buf[next[c]]) \in Seq(Unit)
        /\ Len(Append(body[c], buf[next[c]])) = next[c] + 1
    BY <2>1
  <2>3. /\ SizeInFile(c) /\ OneReader(c) /\ PieceInside(c) /\ LoopsCount(c) /\ Answered(c)
        /\ have' = have
    BY <1>8, <1>a DEF ConnInv, CopyUnit, Respond, fileVars, Goto, history
  <2>4. CASE next[c] + 1 = Count(c)
    <3>1. /\ pc' = [pc EXCEPT ![c] = "idle"]
          /\ fsize' = [fsize EXCEPT ![c] = 0]
          /\ next' = [next EXCEPT ![c] = 0]
          /\ body' = [body EXCEPT ![c] = Append(body[c], buf[next[c]])]
          /\ status' = [status EXCEPT ![c] = 200]
          /\ UNCHANGED <<leeching, have, unwritten, stream, position, lock, buf, piece_id>>
      BY <1>8, <2>4, <2>1, <2>2, Zenon DEF CopyUnit, Respond, fileVars, Goto, history
    <3>2. TypeOK'
      BY <1>a, <1>c, <2>1, <2>2, <3>1, UploadAssumption DEF TypeOK
    <3>3. /\ pc'[c] = "idle" /\ piece_id'[c] = piece_id[c] /\ fsize'[c] = 0
          /\ next'[c] = 0 /\ body'[c] = Append(body[c], buf[next[c]]) /\ status'[c] = 200
      BY <1>a, <3>1 DEF TypeOK
    <3>4. ASSUME NEW d \in Conn \ {c}
      PROVE  /\ pc'[d] = pc[d] /\ piece_id'[d] = piece_id[d] /\ fsize'[d] = fsize[d]
             /\ next'[d] = next[d] /\ body'[d] = body[d] /\ status'[d] = status[d]
             /\ lock' = d <=> lock = d
             /\ lock = d => position' = position
      BY <1>a, <2>1, <2>2, <3>1, Locals, UploadAssumption DEF TypeOK
    <3>5. PositionInFile'
      BY <1>a, <1>b, <2>1, <2>2, <2>4, <3>1 DEF PositionInFile, FileSize
    <3>6. SizeInFile(c)' /\ OneReader(c)' /\ PieceInside(c)'
      BY <1>a, <1>b, <2>1, <2>2, <2>3, <2>4, <3>1, <3>3, Locals
      DEF SizeInFile, OneReader, PieceInside, PositionInFile, FileSize
    <3>7. LoopsCount(c)'
      BY <1>a, <2>1, <2>2, <2>3, <2>4, <3>1, <3>3, Locals DEF LoopsCount, Count
    <3>8. Answered(c)'
      BY <2>1, <2>2, <2>3, <2>4, <3>1, <3>3 DEF Answered
    <3> QED
      BY <2>3, <3>2, <3>4, <3>5, <3>6, <3>7, <3>8, StepOfConnection DEF ConnInv
  <2>5. CASE next[c] + 1 # Count(c)
    <3>1. /\ next' = [next EXCEPT ![c] = next[c] + 1]
          /\ body' = [body EXCEPT ![c] = Append(body[c], buf[next[c]])]
          /\ UNCHANGED <<leeching, have, unwritten, stream, position, lock, buf, pc, piece_id,
                         fsize,
                         status>>
      BY <1>8, <2>5, <2>1, <2>2, Zenon DEF CopyUnit, Respond, fileVars, Goto, history
    <3>2. TypeOK'
      BY <1>a, <1>c, <2>1, <2>2, <3>1, UploadAssumption DEF TypeOK
    <3>3. /\ pc'[c] = pc[c] /\ piece_id'[c] = piece_id[c] /\ fsize'[c] = fsize[c]
          /\ next'[c] = next[c] + 1 /\ body'[c] = Append(body[c], buf[next[c]])
          /\ status'[c] = status[c]
      BY <1>a, <3>1 DEF TypeOK
    <3>4. ASSUME NEW d \in Conn \ {c}
      PROVE  /\ pc'[d] = pc[d] /\ piece_id'[d] = piece_id[d] /\ fsize'[d] = fsize[d]
             /\ next'[d] = next[d] /\ body'[d] = body[d] /\ status'[d] = status[d]
             /\ lock' = d <=> lock = d
             /\ lock = d => position' = position
      BY <1>a, <2>1, <2>2, <3>1, Locals, UploadAssumption DEF TypeOK
    <3>5. PositionInFile'
      BY <1>a, <1>b, <2>1, <2>2, <2>5, <3>1 DEF PositionInFile, FileSize
    <3>6. SizeInFile(c)' /\ OneReader(c)' /\ PieceInside(c)'
      BY <1>a, <1>b, <2>1, <2>2, <2>3, <2>5, <3>1, <3>3, Locals
      DEF SizeInFile, OneReader, PieceInside, PositionInFile, FileSize
    <3>7. LoopsCount(c)'
      BY <1>a, <2>1, <2>2, <2>3, <2>5, <3>1, <3>3, Locals DEF LoopsCount, Count
    <3>8. Answered(c)'
      BY <2>1, <2>2, <2>3, <2>5, <3>1, <3>3 DEF Answered
    <3> QED
      BY <2>3, <3>2, <3>4, <3>5, <3>6, <3>7, <3>8, StepOfConnection DEF ConnInv
  <2> QED
    BY <2>4, <2>5
<1>9. ASSUME NEW c \in Conn, ServerError(c) PROVE ServingInv'
  <2>3. /\ SizeInFile(c) /\ OneReader(c) /\ PieceInside(c) /\ LoopsCount(c) /\ Answered(c)
        /\ have' = have
    BY <1>9, <1>a DEF ConnInv, ServerError, Respond, fileVars, Goto, history
  <2>4. TypeOK'
    BY <1>a, <1>b, <1>9, Locals, UploadAssumption
    DEF TypeOK, ServerError, Respond, fileVars, Goto, history
  <2>5. /\ pc'[c] = "idle" /\ piece_id'[c] = piece_id[c] /\ fsize'[c] = 0
          /\ next'[c] = 0 /\ body'[c] = body[c] /\ status'[c] = 500
    BY <1>a, <1>9 DEF TypeOK, ServerError, Respond, fileVars, Goto, history
  <2>6. ASSUME NEW d \in Conn \ {c}
    PROVE  /\ pc'[d] = pc[d] /\ piece_id'[d] = piece_id[d] /\ fsize'[d] = fsize[d]
           /\ next'[d] = next[d] /\ body'[d] = body[d] /\ status'[d] = status[d]
           /\ lock' = d <=> lock = d
           /\ lock = d => position' = position
    BY <1>a, <1>9, Locals, UploadAssumption
    DEF TypeOK, ServerError, Respond, fileVars, Goto, history
  <2>7. PositionInFile'
    BY <1>a, <1>b, <1>9 DEF PositionInFile, FileSize, ServerError, Respond, fileVars, Goto, history
  <2>8. SizeInFile(c)' /\ OneReader(c)' /\ PieceInside(c)'
    BY <1>a, <1>b, <2>3, <1>9, <2>5, Locals
    DEF SizeInFile, OneReader, PieceInside, PositionInFile, FileSize, ServerError, Respond,
        fileVars, Goto, history
  <2>9. LoopsCount(c)'
    BY <1>a, <2>3, <1>9, <2>5, Locals
    DEF LoopsCount, Count, ServerError, Respond, fileVars, Goto, history
  <2>10. Answered(c)'
    BY <2>3, <1>9, <2>5 DEF Answered, ServerError, Respond, fileVars, Goto, history
  <2> QED
    BY <2>3, <2>4, <2>6, <2>7, <2>8, <2>9, <2>10, StepOfConnection DEF ConnInv
<1>10. ASSUME NEW p \in Piece, WritePiece(p) PROVE ServingInv'
  <2> USE <1>10 DEF WritePiece, StreamFree, connVars, MoveTo
  <2>1. have' \in SUBSET Piece /\ have \in SUBSET Piece /\ p \in have'
    BY <1>a DEF TypeOK
  <2>2. FileSize <= FileSize' /\ End(p) <= FileSize'
    BY <2>1, SizeOfFile, SizeGrows DEF FileSize, SizeWith
  <2>3. End(p) \in Border /\ End(p) \in 0 .. NUnits
    BY EndOfPiece DEF Border
  <2>4. TypeOK'
    BY <1>a, <2>1, <2>3 DEF TypeOK
  <2>5. PositionInFile'
    BY <2>2, <2>3 DEF PositionInFile
  <2>6. FileSize' \in Int
    <3>1. SizeWith(have') \in 0 .. NUnits
      BY <2>1, SizeOfFile, BorderInFile
    <3> QED
      BY <3>1, UploadAssumption DEF FileSize, SizeWith
  <2>7. ASSUME NEW c \in Conn PROVE ConnInv(c)'
    BY <1>a, <2>2, <2>6, LeftAlone, UploadAssumption
  <2> QED
    BY <2>4, <2>5, <2>7 DEF ServingInv
<1>11. ASSUME WriteFails PROVE ServingInv'
  <2>1. TypeOK' /\ PositionInFile' /\ FileSize' = FileSize
    BY <1>11, <1>a DEF WriteFails, connVars, history, TypeOK, PositionInFile, FileSize
  <2>2. ASSUME NEW c \in Conn PROVE ConnInv(c)'
    BY <1>11, <1>a, <1>b, <2>1, LeftAlone DEF WriteFails, connVars, history
  <2> QED
    BY <2>1, <2>2 DEF ServingInv
<1> QED
  BY <1>1, <1>2, <1>3, <1>4, <1>5, <1>6, <1>7, <1>8, <1>9, <1>10, <1>11 DEF Next, Serve

LEMMA Serving == Spec => []ServingInv
BY InitServingInv, NextServingInv, PTL DEF Spec

\* The state of the upload server is well typed, whatever is asked of it.
THEOREM TypeCorrect == Spec => []TypeOK
<1>1. ServingInv => TypeOK
  BY DEF ServingInv
<1> QED
  BY <1>1, Serving, PTL

\* However many threads share the joint position, no read of a piece runs
\* past the end of the file (read_piece, tsafe_fstream::read).
THEOREM ReadsInsideFile == Spec => []NoShortRead
<1>1. ServingInv => NoShortRead
  <2> SUFFICES ASSUME ServingInv, NEW c \in Conn, pc[c] = "read"
               PROVE  Start(piece_id[c]) + Count(c) <= FileSize
    BY DEF NoShortRead
  <2> QED
    BY ReadingAPiece, FileSizeInFile DEF ServingInv
<1> QED
  BY <1>1, Serving, PTL

\* A successful response has the length of the piece it was asked for, even
\* when the size of the file was read off another thread's position.
THEOREM ResponseHasLengthOfPiece == Spec => []LengthRight
<1>1. ServingInv => LengthRight
  BY DEF ServingInv, ConnInv, Answered, LengthRight
<1> QED
  BY <1>1, Serving, PTL

-----------------------------------------------------------------------------
(* What the joint position and the shared buffer can spoil *)

\* A piece on disk stays there.
HadOnDisk(c) == had[c] => piece_id[c] \in have

\* Unless the position was moved before tellg, the size that c has taken takes
\* in the piece it was asked for, if that was on disk.
SizeSeen(c) ==
    had[c] /\ ~moved[c] =>
        /\ pc[c] = "tell" => End(piece_id[c]) <= position
        /\ pc[c] \in {"rewind", "read", "fill", "copy"} => End(piece_id[c]) <= fsize[c]
        /\ status[c] # 400

\* A cell of the buffer, or of the body of c, holds unit u of the file, and
\* not a hole where c was asked for a piece on disk.
Holds(c, cell, u) == cell.unit = u /\ (cell.hole => ~had[c])

\* How many cells of the buffer belong to the piece that c was asked for.
Filled(c) == IF pc[c] = "fill" THEN next[c]
             ELSE IF pc[c] = "copy" THEN Count(c) ELSE 0

CellsRight(c) ==
    ~refilled[c] =>
        /\ \A i \in 0 .. Filled(c) - 1 : Holds(c, buf[i], Start(piece_id[c]) + i)
        /\ \A i \in 1 .. Len(body[c]) : Holds(c, body[c][i], Start(piece_id[c]) + i - 1)

SharedInv == \A c \in Conn : HadOnDisk(c) /\ SizeSeen(c) /\ CellsRight(c)

\* The units of a piece are counted from its start.
LEMMA PieceOfUnit ==
    ASSUME NEW p \in Nat, NEW n \in 0 .. UnitsPerPiece - 1
    PROVE  (Start(p) + n) \div UnitsPerPiece = p
<1> DEFINE q == (Start(p) + n) \div UnitsPerPiece
<1>1. /\ q \in Int /\ Start(p) \in Int
      /\ Start(q) <= Start(p) + n
      /\ Start(p) + n < Start(q) + UnitsPerPiece
  BY UploadAssumption DEF Start
<1> HIDE DEF q
<1>2. q < p => Start(q) + UnitsPerPiece <= Start(p)
  BY <1>1, UploadAssumption DEF Start
<1>3. q > p => Start(p) + UnitsPerPiece <= Start(q)
  BY <1>1, UploadAssumption DEF Start
<1>4. Start(q) \in Int
  BY <1>1, UploadAssumption DEF Start
<1>5. q = p
  BY <1>1, <1>2, <1>3, <1>4, UploadAssumption
<1> QED
  BY <1>5 DEF q

LEMMA InitSharedInv == Init => SharedInv
BY DEF Init, SharedInv, HadOnDisk, SizeSeen, CellsRight, Filled

\* A step of somebody else: pieces on disk stay there, and the position and
\* the buffer change under c only with a trace in the history.
Elsewhere(c) ==
    /\ pc'[c] = pc[c] /\ piece_id'[c] = piece_id[c] /\ fsize'[c] = fsize[c]
    /\ next'[c] = next[c] /\ body'[c] = body[c] /\ status'[c] = status[c]
    /\ had'[c] = had[c] /\ (moved[c] => moved'[c]) /\ (refilled[c] => refilled'[c])
    /\ have \subseteq have'
    /\ pc[c] = "tell" => position' = position \/ moved'[c]
    /\ pc[c] = "copy" => buf' = buf \/ refilled'[c]
    /\ pc[c] = "fill" => buf' = buf

LEMMA MoveLeavesTrace ==
    ASSUME NEW d, NEW pos, MoveTo(d, pos), NEW c \in Conn \ {d}
    PROVE  (moved[c] => moved'[c]) /\ (pc[c] = "tell" => moved'[c])
<1>1. moved'[c] = (moved[c] \/ (c # d /\ pc[c] = "tell"))
  BY DEF MoveTo
<1> QED
  BY <1>1

LEMMA FillLeavesTrace ==
    ASSUME NEW d, NEW cell, Fill(d, cell), NEW c \in Conn \ {d}
    PROVE  (refilled[c] => refilled'[c]) /\ (pc[c] = "copy" => refilled'[c])
<1>1. refilled'[c] = (refilled[c] \/ (c # d /\ pc[c] = "copy"))
  BY DEF Fill
<1> QED
  BY <1>1

LEMMA StepsElsewhere ==
    ASSUME ServingInv, [Next]_vars, NEW c \in Conn
    PROVE  Serve(c) \/ (\E p \in Asked : Request(c, p)) \/ Elsewhere(c)
<1>a. TypeOK /\ c # NoConn /\ \A d \in Conn : OneReader(d)
  BY Locals DEF ServingInv, ConnInv
<1>1. CASE UNCHANGED vars
  BY <1>1 DEF vars, fileVars, connVars, history, Elsewhere
<1>2. ASSUME NEW d \in Conn \ {c}, Serve(d) PROVE Elsewhere(c)
  <2> USE <1>2, <1>a DEF TypeOK, Elsewhere, Goto, Respond, fileVars, history
  <2>1. CASE SeekEnd(d)
    BY <2>1, MoveLeavesTrace DEF SeekEnd
  <2>2. CASE Tell(d)
    BY <2>2 DEF Tell
  <2>3. CASE Rewind(d)
    BY <2>3, MoveLeavesTrace DEF Rewind
  <2>4. CASE ReadBegin(d)
    BY <2>4, MoveLeavesTrace DEF ReadBegin
  <2>5. CASE FillUnit(d)
    <3>1. pc[c] # "fill"
      BY <2>5 DEF FillUnit, OneReader
    <3> QED
      BY <2>5, <3>1, MoveLeavesTrace, FillLeavesTrace DEF FillUnit
  <2>6. CASE CopyUnit(d)
    BY <2>6 DEF CopyUnit
  <2>7. CASE ServerError(d)
    BY <2>7 DEF ServerError
  <2> QED
    BY <2>1, <2>2, <2>3, <2>4, <2>5, <2>6, <2>7 DEF Serve
<1>3. ASSUME NEW d \in Conn \ {c}, NEW p \in Asked, Request(d, p) PROVE Elsewhere(c)
  BY <1>a, <1>3 DEF TypeOK, Request, Elsewhere, Goto, fileVars
<1>4. ASSUME NEW p \in Piece, WritePiece(p) PROVE Elsewhere(c)
  BY <1>a, <1>4, MoveLeavesTrace DEF TypeOK, WritePiece, Elsewhere, connVars
<1>5. ASSUME WriteFails PROVE Elsewhere(c)
  BY <1>5 DEF WriteFails, Elsewhere, connVars, history
<1> QED
  BY <1>1, <1>2, <1>3, <1>4, <1>5 DEF Next

LEMMA NextSharedInv == ServingInv /\ SharedInv /\ [Next]_vars => SharedInv'
<1> SUFFICES ASSUME ServingInv, SharedInv, [Next]_vars, NEW c \in Conn
             PROVE  HadOnDisk(c)' /\ SizeSeen(c)' /\ CellsRight(c)'
  BY DEF SharedInv
<1>a. /\ TypeOK /\ ConnInv(c)
      /\ HadOnDisk(c) /\ SizeSeen(c) /\ CellsRight(c)
  BY DEF ServingInv, SharedInv
<1>b. FileSize \in 0 .. NUnits /\ \A p \in have : End(p) <= FileSize
  BY <1>a, FileSizeInFile, SizeOfFile DEF TypeOK, FileSize, SizeWith
<1>1. CASE SeekEnd(c)
  <2>1. /\ pc[c] = "seekEnd" /\ pc'[c] = "tell" /\ position' = FileSize
        /\ moved'[c] = moved[c]
        /\ UNCHANGED <<have, buf, piece_id, fsize, next, body, status, had, refilled>>
    BY <1>a, <1>1 DEF SeekEnd, Goto, MoveTo, TypeOK, fileVars
  <2>2. HadOnDisk(c)' /\ SizeSeen(c)'
    BY <1>a, <1>b, <2>1 DEF HadOnDisk, SizeSeen
  <2> QED
    BY <1>a, <2>1, <2>2 DEF CellsRight, Filled, Holds
<1>2. CASE Tell(c)
  <2>1. /\ pc[c] = "tell" /\ pc'[c] = "rewind" /\ fsize'[c] = position
        /\ UNCHANGED <<have, position, buf, piece_id, next, body, status, history>>
    BY <1>a, <1>2 DEF Tell, Goto, TypeOK, fileVars
  <2> QED
    BY <1>a, <2>1 DEF HadOnDisk, SizeSeen, CellsRight, Filled, Holds, history
<1>3. CASE Rewind(c)
  <2>1. /\ pc[c] = "rewind" /\ moved'[c] = moved[c]
        /\ UNCHANGED <<have, buf, piece_id, body, had, refilled>>
        /\ IF Start(piece_id[c]) >= fsize[c]
           THEN pc'[c] = "idle" /\ status'[c] = 400
           ELSE pc'[c] = "read" /\ fsize' = fsize /\ status' = status
    BY <1>a, <1>3 DEF Rewind, Respond, Goto, MoveTo, TypeOK, fileVars
  <2>2. had[c] => Start(piece_id[c]) < End(piece_id[c])
    BY <1>a, EndOfPiece DEF HadOnDisk, TypeOK
  <2>3. SizeSeen(c)'
    <3>1. /\ fsize[c] \in Int /\ Start(piece_id[c]) \in Int
          /\ had[c] => End(piece_id[c]) \in Int
      BY <1>a, Locals, EndOfPiece DEF HadOnDisk, TypeOK
    <3> QED
      BY <1>a, <2>1, <2>2, <3>1 DEF SizeSeen
  <2> QED
    BY <1>a, <2>1, <2>3 DEF HadOnDisk, CellsRight, Filled, Holds
<1>4. CASE ReadBegin(c)
  <2>1. /\ pc[c] = "read" /\ pc'[c] = "fill" /\ moved'[c] = moved[c] /\ next[c] = 0
        /\ UNCHANGED <<have, buf, piece_id, fsize, next, body, status, had, refilled>>
    BY <1>a, <1>4 DEF ReadBegin, Goto, MoveTo, TypeOK, fileVars, ConnInv, LoopsCount
  <2> QED
    BY <1>a, <2>1 DEF HadOnDisk, SizeSeen, CellsRight, Filled, Holds
<1>5. CASE FillUnit(c)
  <2>1. /\ pc[c] = "fill" /\ next[c] \in Nat /\ next[c] < Count(c)
        /\ Start(piece_id[c]) \in Nat /\ position = Start(piece_id[c]) + next[c]
        /\ next[c] \in 0 .. UnitsPerPiece - 1 /\ Count(c) \in Nat /\ piece_id[c] \in Nat
    <3>1. pc[c] = "fill" /\ next[c] < Count(c) /\ position = Start(piece_id[c]) + next[c]
      BY <1>5, <1>a DEF FillUnit, ConnInv, LoopsCount
    <3>2. Count(c) \in 1 .. UnitsPerPiece /\ next[c] \in Nat
          /\ Start(piece_id[c]) \in Nat /\ piece_id[c] \in Nat
      BY <1>a, <3>1, ReadingAPiece, Locals
    <3> QED
      BY <3>1, <3>2, UploadAssumption
  <2>2. Holds(c, UnitAt(position), Start(piece_id[c]) + next[c])
    BY <1>a, <2>1, PieceOfUnit DEF UnitAt, Holds, HadOnDisk
  <2>3. /\ buf' = [buf EXCEPT ![next[c]] = UnitAt(position)]
        /\ buf \in [0 .. UnitsPerPiece - 1 -> Unit]
        /\ moved'[c] = moved[c] /\ refilled'[c] = refilled[c]
        /\ UNCHANGED <<have, piece_id, fsize, body, status, had>>
    BY <1>a, <1>5 DEF FillUnit, Fill, MoveTo, TypeOK, fileVars
  <2>4. Filled(c)' = next[c] + 1 /\ pc'[c] \in {"fill", "copy"}
    <3>1. Count(c)' = Count(c)
      BY <2>3 DEF Count
    <3>2. \/ pc'[c] = "copy" /\ next[c] + 1 = Count(c)
          \/ pc'[c] = "fill" /\ next'[c] = next[c] + 1
      BY <1>a, <1>5, <2>1 DEF FillUnit, Goto, TypeOK
    <3> QED
      BY <3>1, <3>2 DEF Filled
  <2>5. ASSUME NEW i \in 0 .. next[c], ~refilled[c]
        PROVE  Holds(c, buf'[i], Start(piece_id[c]) + i)
    <3>1. CASE i = next[c]
      BY <2>1, <2>2, <2>3, <3>1
    <3>2. CASE i # next[c]
      <4>1. i \in 0 .. Filled(c) - 1
        BY <2>1, <3>2 DEF Filled
      <4>2. buf'[i] = buf[i]
        BY <2>1, <2>3, <3>2
      <4> QED
        BY <1>a, <2>5, <4>1, <4>2 DEF CellsRight
    <3> QED
      BY <3>1, <3>2
  <2>6. CellsRight(c)'
    <3> SUFFICES ASSUME ~refilled'[c]
                 PROVE  /\ \A i \in 0 .. Filled(c)' - 1 :
                              Holds(c, buf[i], Start(piece_id[c]) + i)'
                        /\ \A i \in 1 .. Len(body'[c]) :
                              Holds(c, body[c][i], Start(piece_id[c]) + i - 1)'
      BY DEF CellsRight
    <3>1. ASSUME NEW i \in 0 .. next[c] PROVE Holds(c, buf[i], Start(piece_id[c]) + i)'
      BY <2>3, <2>5 DEF Holds
    <3>2. ASSUME NEW i \in 1 .. Len(body[c])
          PROVE  Holds(c, body[c][i], Start(piece_id[c]) + i - 1)'
      BY <1>a, <2>3 DEF CellsRight, Holds
    <3> QED
      BY <2>1, <2>3, <2>4, <3>1, <3>2
  <2>7. HadOnDisk(c)' /\ SizeSeen(c)'
    BY <1>a, <2>1, <2>3, <2>4 DEF HadOnDisk, SizeSeen
  <2> QED
    BY <2>6, <2>7
<1>6. CASE CopyUnit(c)
  <2>1. /\ pc[c] = "copy" /\ next[c] \in Nat /\ next[c] < Count(c) /\ Count(c) \in Nat
        /\ Len(body[c]) = next[c] /\ Start(piece_id[c]) \in Nat
        /\ next[c] \in 0 .. UnitsPerPiece - 1 /\ next[c] \in 0 .. Filled(c) - 1
    <3>1. pc[c] = "copy" /\ next[c] < Count(c) /\ Len(body[c]) = next[c]
      BY <1>6, <1>a DEF CopyUnit, ConnInv, LoopsCount
    <3>2. Count(c) \in 1 .. UnitsPerPiece /\ next[c] \in Nat /\ Start(piece_id[c]) \in Nat
      BY <1>a, <3>1, ReadingAPiece, Locals
    <3> QED
      BY <3>1, <3>2, UploadAssumption DEF Filled
  <2>2. /\ body'[c] = Append(body[c], buf[next[c]])
        /\ buf[next[c]] \in Unit /\ body[c] \in Seq(Unit)
        /\ UNCHANGED <<have, position, buf, piece_id, history>>
    BY <1>a, <1>6, <2>1 DEF CopyUnit, TypeOK, fileVars
  <2>3. ~refilled[c] => Holds(c, buf[next[c]], Start(piece_id[c]) + next[c])
    BY <1>a, <2>1 DEF CellsRight
  <2>4. ASSUME NEW i \in 1 .. next[c] + 1, ~refilled[c]
        PROVE  Holds(c, body'[c][i], Start(piece_id[c]) + i - 1)
    <3>1. CASE i = next[c] + 1
      <4>1. /\ body'[c][i] = buf[next[c]]
            /\ Start(piece_id[c]) + i - 1 = Start(piece_id[c]) + next[c]
        BY <2>1, <2>2, <3>1
      <4> QED
        BY <2>3, <2>4, <4>1
    <3>2. CASE i # next[c] + 1
      <4>1. i \in 1 .. Len(body[c]) /\ body'[c][i] = body[c][i]
        BY <2>1, <2>2, <3>2
      <4> QED
        BY <1>a, <2>4, <4>1 DEF CellsRight
    <3> QED
      BY <3>1, <3>2
  <2>5. \/ /\ pc'[c] = "idle" /\ status'[c] = 200
        \/ /\ pc'[c] = "copy" /\ Count(c)' = Count(c)
           /\ fsize' = fsize /\ status' = status
    <3>1. CASE next[c] + 1 = Count(c)
      BY <1>a, <1>6, <3>1 DEF CopyUnit, Respond, Goto, TypeOK
    <3>2. CASE next[c] + 1 # Count(c)
      <4>1. UNCHANGED <<pc, status, fsize, piece_id>>
        BY <1>6, <3>2 DEF CopyUnit
      <4> QED
        BY <2>1, <4>1 DEF Count
    <3> QED
      BY <3>1, <3>2
  <2>6. CellsRight(c)'
    <3> SUFFICES ASSUME ~refilled'[c]
                 PROVE  /\ \A i \in 0 .. Filled(c)' - 1 :
                              Holds(c, buf[i], Start(piece_id[c]) + i)'
                        /\ \A i \in 1 .. Len(body'[c]) :
                              Holds(c, body[c][i], Start(piece_id[c]) + i - 1)'
      BY DEF CellsRight
    <3>1. Filled(c)' \in {0, Filled(c)}
      BY <2>1, <2>5 DEF Filled
    <3>2. ASSUME NEW i \in 0 .. Filled(c)' - 1
          PROVE  Holds(c, buf[i], Start(piece_id[c]) + i)'
      BY <1>a, <2>1, <2>2, <3>1 DEF CellsRight, Holds, history
    <3>3. ASSUME NEW i \in 1 .. next[c] + 1
          PROVE  Holds(c, body[c][i], Start(piece_id[c]) + i - 1)'
      BY <2>2, <2>4 DEF Holds, history
    <3>4. Len(body'[c]) = next[c] + 1
      BY <2>1, <2>2
    <3> QED
      BY <3>2, <3>3, <3>4
  <2>7. HadOnDisk(c)' /\ SizeSeen(c)'
    BY <1>a, <2>1, <2>2, <2>5 DEF HadOnDisk, SizeSeen, history
  <2> QED
    BY <2>6, <2>7
<1>7. CASE ServerError(c)
  <2>1. /\ pc'[c] = "idle" /\ status'[c] = 500
        /\ UNCHANGED <<have, buf, piece_id, body, history>>
    BY <1>a, <1>7 DEF ServerError, Respond, Goto, TypeOK, fileVars
  <2> QED
    BY <1>a, <2>1 DEF HadOnDisk, SizeSeen, CellsRight, Filled, Holds, history
<1>8. ASSUME NEW p \in Asked, Request(c, p)
      PROVE  HadOnDisk(c)' /\ SizeSeen(c)' /\ CellsRight(c)'
  <2>1. /\ pc'[c] = "seekEnd" /\ piece_id'[c] = p /\ body'[c] = <<>> /\ status'[c] = 0
        /\ had'[c] = (p \in have) /\ have' = have
    BY <1>a, <1>8 DEF Request, Goto, TypeOK, fileVars
  <2> QED
    <3>1. Filled(c)' = 0 /\ Len(body'[c]) = 0
      BY <2>1 DEF Filled
    <3>2. CellsRight(c)'
      BY <3>1 DEF CellsRight
    <3>3. HadOnDisk(c)'
      BY <2>1, Zenon DEF HadOnDisk
    <3>4. SizeSeen(c)'
      BY <2>1 DEF SizeSeen
    <3> QED
      BY <3>2, <3>3, <3>4
<1>9. CASE Elsewhere(c)
  <2>1. HadOnDisk(c)' /\ SizeSeen(c)'
    BY <1>a, <1>9 DEF Elsewhere, HadOnDisk, SizeSeen
  <2>2. CellsRight(c)'
    <3>1. Filled(c)' = Filled(c)
      BY <1>9 DEF Elsewhere, Filled, Count
    <3>2. Filled(c) = 0 \/ buf' = buf \/ refilled'[c]
      BY <1>9 DEF Elsewhere, Filled
    <3> QED
      BY <1>a, <1>9, <3>1, <3>2 DEF Elsewhere, CellsRight, Holds
  <2> QED
    BY <2>1, <2>2
<1> QED
  BY <1>1, <1>2, <1>3, <1>4, <1>5, <1>6, <1>7, <1>8, <1>9, StepsElsewhere DEF Serve

LEMMA Shared == Spec => []SharedInv
BY Serving, InitSharedInv, NextSharedInv, PTL DEF Spec

\* A successful response is the piece it was asked for, with what was on disk
\* then, unless another thread filled the shared buffer while this one copied
\* it: neither writers nor moves of the joint position spoil it.
THEOREM OnlyRefillsSpoil == Spec => []ExactUnlessRefilled
<1>1. ServingInv /\ SharedInv => ExactUnlessRefilled
  <2> SUFFICES ASSUME ServingInv, SharedInv, NEW c \in Conn, ~refilled[c]
               PROVE  BodyOfPiece(c)
    BY DEF ExactUnlessRefilled
  <2>1. body[c] \in Seq(Unit) /\ CellsRight(c)
    BY Locals DEF ServingInv, SharedInv
  <2> QED
    BY <2>1 DEF BodyOfPiece, CellsRight, Holds
<1> QED
  BY <1>1, Serving, Shared, PTL

\* A piece on disk is refused only when another thread moved the position of
\* the stream between the seek to the end of the file and tellg.
THEOREM OnlyMovesRefuse == Spec => []RefusedOnlyIfMoved
<1>1. SharedInv => RefusedOnlyIfMoved
  BY DEF SharedInv, SizeSeen, RefusedOnlyIfMoved
<1> QED
  BY <1>1, Shared, PTL
=============================================================================
