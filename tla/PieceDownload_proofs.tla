------------------------ MODULE PieceDownload_proofs ------------------------
(***************************************************************************)
(* Proofs about PieceDownload for any number of pieces and any set of      *)
(* neighbours: its type invariant, the conservation of pieces, the order   *)
(* of the set, what ends up on disk, and that it implements PieceTransfer. *)
(***************************************************************************)
EXTENDS PieceDownload, FiniteSetTheorems, TLAPS

\* One step of a thread, seen from the type invariant: its carried piece is
\* a piece while it fetches, writes or gives back, and only then, and the
\* loop of the callback stays inside the bitfield.
CarriesWhenBusy ==
    \A n \in Neighbour :
        piece[n] \in Piece <=> pc[n] \in {"fetch", "write", "requeue", "stuck"}

IndexInRange ==
    \A n \in Neighbour : pc[n] \in {"cbRead", "cbPut"} => idx[n] \in Piece

TypeInv == TypeOK /\ CarriesWhenBusy /\ IndexInRange

LEMMA VerdictOfAccepted ==
    ASSUME NEW p \in Piece, NEW bytes \in {"genuine", "corrupt"},
           TRUE \in Verdicts(p, bytes)
    PROVE  bytes = "genuine" \/ p \notin OpenDigest
BY DEF Verdicts

LEMMA InitTypeInv == Init => TypeInv
<1> SUFFICES ASSUME Init PROVE TypeInv
  OBVIOUS
<1>1. TypeOK
  <2>1. disk \in [Piece -> {"hole", "genuine", "corrupt", "torn"}]
    BY DEF Init
  <2>2. 0 \in 0 .. NPieces
    BY DownloadAssumption
  <2> QED
    BY <2>1, <2>2 DEF Init, TypeOK, Control
<1>2. CarriesWhenBusy /\ IndexInRange
  BY DownloadAssumption DEF Init, CarriesWhenBusy, IndexInRange
<1> QED
  BY <1>1, <1>2 DEF TypeInv

LEMMA NextTypeInv == TypeInv /\ [Next]_vars => TypeInv'
<1> SUFFICES ASSUME TypeInv, [Next]_vars PROVE TypeInv'
  OBVIOUS
<1> USE DownloadAssumption DEF TypeInv, TypeOK, CarriesWhenBusy, IndexInRange, Control,
         setVars, fileVars, histVars, Goto, Carry
<1>1. CASE UNCHANGED vars
  BY <1>1 DEF vars
<1>2. ASSUME NEW n \in Neighbour, Thread(n) PROVE TypeInv'
  <2>1. CASE Connect(n)
    BY <2>1 DEF Connect
  <2>2. CASE ConnectFails(n)
    BY <2>2 DEF ConnectFails
  <2>3. CASE CheckEmpty(n)
    BY <2>3 DEF CheckEmpty
  <2>4. CASE RemoveTop(n)
    <3>1. PICK p \in Piece : queued' = queued \ {p} /\ Carry(n, p)
      BY <2>4 DEF RemoveTop
    <3>2. TypeOK'
      BY <2>4, <3>1 DEF RemoveTop
    <3>3. CarriesWhenBusy' /\ IndexInRange'
      BY <2>4, <3>1 DEF RemoveTop
    <3> QED
      BY <3>2, <3>3
  <2>5. CASE RemoveTopOfEmpty(n)
    BY <2>5 DEF RemoveTopOfEmpty
  <2>6. CASE FetchAccepted(n)
    BY <2>6 DEF FetchAccepted, Serves
  <2>7. CASE FetchMismatch(n)
    BY <2>7 DEF FetchMismatch
  <2>8. CASE FetchFails(n)
    BY <2>8 DEF FetchFails
  <2>9. CASE FetchHangs(n)
    BY <2>9 DEF FetchHangs
  <2>10. CASE WritePiece(n)
    <3>1. piece[n] \in Piece
      BY <2>10 DEF WritePiece
    <3>2. 0 \in Piece /\ 0 \in 0 .. NPieces
      BY DEF Piece
    <3>3. disk' \in [Piece -> {"hole", "genuine", "corrupt", "torn"}]
      BY <2>10, <3>1 DEF WritePiece
    <3>4. TypeOK'
      BY <2>10, <3>1, <3>2, <3>3 DEF WritePiece, Written
    <3>5. CarriesWhenBusy' /\ IndexInRange'
      BY <2>10, <3>2 DEF WritePiece, Written
    <3> QED
      BY <3>4, <3>5
  <2>11. CASE WriteLost(n)
    <3>1. piece[n] \in Piece
      BY <2>11 DEF WriteLost
    <3>2. 0 \in Piece /\ 0 \in 0 .. NPieces
      BY DEF Piece
    <3>3. disk' \in [Piece -> {"hole", "genuine", "corrupt", "torn"}]
      BY <2>11, <3>1 DEF WriteLost
    <3>4. TypeOK'
      BY <2>11, <3>1, <3>2, <3>3 DEF WriteLost, Written
    <3>5. CarriesWhenBusy' /\ IndexInRange'
      BY <2>11, <3>2 DEF WriteLost, Written
    <3> QED
      BY <3>4, <3>5
  <2>12. CASE WriteThrows(n)
    BY <2>12 DEF WriteThrows
  <2>13. CASE ReadPriority(n)
    BY <2>13 DEF ReadPriority
  <2>14. CASE UpdatePriority(n)
    <3> DEFINE priority == seen[n] + ReportedBit(n)
    <3>1. idx[n] \in Piece /\ priority \in Nat
      BY <2>14 DEF UpdatePriority, ReportedBit
    <3> HIDE DEF priority
    <3>2. \/ pieces_priority' = [pieces_priority EXCEPT ![idx[n]] = priority]
             /\ placed' = [placed EXCEPT ![idx[n]] = priority]
          \/ UNCHANGED <<pieces_priority, placed>>
      BY <2>14 DEF UpdatePriority, priority
    <3>3. pieces_priority' \in [Piece -> Nat] /\ placed' \in [Piece -> Nat]
      BY <3>1, <3>2
    <3>4. /\ idx[n] + 1 \in 0 .. NPieces
          /\ idx[n] + 1 # NPieces => idx[n] + 1 \in Piece
      BY <3>1 DEF Piece
    <3>5. TypeOK'
      BY <2>14, <3>3, <3>4 DEF UpdatePriority, NextIndex
    <3>6. CarriesWhenBusy' /\ IndexInRange'
      BY <2>14, <3>1, <3>4 DEF UpdatePriority, NextIndex
    <3> QED
      BY <3>5, <3>6
  <2>15. CASE PushBack(n)
    BY <2>15 DEF PushBack
  <2> QED
    BY <1>2, <2>1, <2>2, <2>3, <2>4, <2>5, <2>6, <2>7, <2>8, <2>9, <2>10,
       <2>11, <2>12, <2>13, <2>14, <2>15 DEF Thread
<1> QED
  BY <1>1, <1>2 DEF Next

\* The state of the downloader is well typed, whatever the neighbours do.
THEOREM TypeCorrect == Spec => []TypeOK
<1>1. TypeInv => TypeOK
  BY DEF TypeInv
<1> QED
  BY <1>1, InitTypeInv, NextTypeInv, PTL DEF Spec

-----------------------------------------------------------------------------
(* The hand-over of pieces *)

\* What a step does with pieces, and whether the thread leaves with it.
Leaves(n) == pc' = [pc EXCEPT ![n] = "exited"]
Stays(n) == \E label \in Control \ {"exited"} : pc' = [pc EXCEPT ![n] = label]

TakesPiece(n) ==
    /\ piece[n] = NoPiece /\ Stays(n)
    /\ \E p \in queued : queued' = queued \ {p} /\ Carry(n, p)
    /\ UNCHANGED <<fetched, dropped>>
StoresPiece(n) ==
    /\ piece[n] \in Piece /\ Stays(n)
    /\ fetched' = fetched \cup {piece[n]} /\ Carry(n, NoPiece)
    /\ UNCHANGED <<queued, dropped>>
DropsPiece(n) ==
    /\ piece[n] \in Piece /\ Stays(n)
    /\ dropped' = dropped \cup {piece[n]} /\ Carry(n, NoPiece)
    /\ UNCHANGED <<queued, fetched>>
GivesPieceBack(n) ==
    /\ piece[n] \in Piece /\ Leaves(n)
    /\ queued' = queued \cup {piece[n]} /\ Carry(n, NoPiece)
    /\ UNCHANGED <<fetched, dropped>>
MovesNoPiece(n) ==
    /\ Stays(n) \/ (piece[n] = NoPiece /\ Leaves(n))
    /\ UNCHANGED <<queued, piece, fetched, dropped>>

\* Every step of a thread that has not exited moves at most its own piece.
LEMMA StepKinds ==
    ASSUME TypeInv, NEW n \in Neighbour, Thread(n)
    PROVE  /\ pc[n] # "exited"
           /\ \/ TakesPiece(n) \/ StoresPiece(n) \/ DropsPiece(n)
              \/ GivesPieceBack(n) \/ MovesNoPiece(n)
<1> USE DEF TypeInv, TypeOK, CarriesWhenBusy, Control, Goto, setVars, fileVars, histVars
<1>1. ASSUME Connect(n) \/ ConnectFails(n) \/ CheckEmpty(n) \/ RemoveTopOfEmpty(n)
      PROVE  pc[n] # "exited" /\ MovesNoPiece(n)
  BY <1>1 DEF Connect, ConnectFails, CheckEmpty, RemoveTopOfEmpty, MovesNoPiece,
              Stays, Leaves
<1>2. ASSUME FetchAccepted(n) \/ FetchFails(n) \/ FetchHangs(n) \/ WriteThrows(n)
             \/ ReadPriority(n) \/ UpdatePriority(n)
      PROVE  pc[n] # "exited" /\ MovesNoPiece(n)
  BY <1>2 DEF FetchAccepted, FetchFails, FetchHangs, WriteThrows, ReadPriority,
              UpdatePriority, NextIndex, MovesNoPiece, Stays
<1>3. ASSUME RemoveTop(n) PROVE pc[n] # "exited" /\ TakesPiece(n)
  BY <1>3 DEF RemoveTop, IsTop, TakesPiece, Stays
<1>4. ASSUME WritePiece(n) \/ WriteLost(n) PROVE pc[n] # "exited" /\ StoresPiece(n)
  BY <1>4 DEF WritePiece, WriteLost, Written, StoresPiece, Stays
<1>5. ASSUME FetchMismatch(n) PROVE pc[n] # "exited" /\ DropsPiece(n)
  BY <1>5 DEF FetchMismatch, DropsPiece, Stays
<1>6. ASSUME PushBack(n) PROVE pc[n] # "exited" /\ GivesPieceBack(n)
  BY <1>6 DEF PushBack, GivesPieceBack, Leaves
<1> QED
  BY <1>1, <1>2, <1>3, <1>4, <1>5, <1>6 DEF Thread

\* PieceConservation in a form that a step preserves: the four kinds of
\* place cover the pieces and exclude each other.
Covered == \A p \in Piece : \/ p \in queued \cup fetched \cup dropped
                            \/ \E n \in Neighbour : Holds(n, p)
SetsApart == /\ queued \cap fetched = {}
             /\ queued \cap dropped = {}
             /\ fetched \cap dropped = {}
HeldApart == \A n \in Neighbour : piece[n] \notin queued \cup fetched \cup dropped
OneHolder == \A m, n \in Neighbour :
                 piece[m] \in Piece /\ piece[m] = piece[n] => m = n
OnePlace == Covered /\ SetsApart /\ HeldApart /\ OneHolder

LEMMA InitOnePlace == Init => OnePlace
BY DownloadAssumption DEF Init, OnePlace, Covered, SetsApart, HeldApart, OneHolder, Holds

LEMMA NextOnePlace == TypeInv /\ OnePlace /\ [Next]_vars => OnePlace'
<1> SUFFICES ASSUME TypeInv, OnePlace, [Next]_vars PROVE OnePlace'
  OBVIOUS
<1> USE DownloadAssumption DEF OnePlace, Covered, SetsApart, HeldApart, OneHolder, Holds
<1>1. CASE UNCHANGED vars
  BY <1>1 DEF vars
<1>2. ASSUME NEW n \in Neighbour, Thread(n) PROVE OnePlace'
  <2> queued \subseteq Piece /\ fetched \subseteq Piece /\ dropped \subseteq Piece
      /\ piece \in [Neighbour -> Piece \cup {NoPiece}]
    BY DEF TypeInv, TypeOK
  <2>1. CASE TakesPiece(n)
    BY <2>1 DEF TakesPiece, Carry
  <2>2. CASE StoresPiece(n)
    BY <2>2 DEF StoresPiece, Carry
  <2>3. CASE DropsPiece(n)
    BY <2>3 DEF DropsPiece, Carry
  <2>4. CASE GivesPieceBack(n)
    BY <2>4 DEF GivesPieceBack, Carry
  <2>5. CASE MovesNoPiece(n)
    BY <2>5 DEF MovesNoPiece
  <2> QED
    BY <1>2, StepKinds, <2>1, <2>2, <2>3, <2>4, <2>5
<1> QED
  BY <1>1, <1>2 DEF Next

\* A piece is in exactly one of the places OnePlace speaks of.
LEMMA PlaceIsUnique ==
    ASSUME TypeInv, OnePlace, NEW p \in Piece
    PROVE  \E place : PlacesOf(p) = {place}
<1> USE DEF OnePlace, Covered, SetsApart, HeldApart, OneHolder, Holds, PlacesOf
<1>1. CASE p \in queued
  <2>1. PlacesOf(p) = {"pool"}
    BY <1>1
  <2> QED
    BY <2>1
<1>2. CASE p \in fetched
  <2>1. PlacesOf(p) = {"stored"}
    BY <1>2
  <2> QED
    BY <2>1
<1>3. CASE p \in dropped
  <2>1. PlacesOf(p) = {"lost"}
    BY <1>3
  <2> QED
    BY <2>1
<1>4. CASE p \notin queued \cup fetched \cup dropped
  <2>1. PICK n \in Neighbour : Holds(n, p)
    BY <1>4
  <2>2. PlacesOf(p) = {n}
    BY <1>4, <2>1
  <2> QED
    BY <2>2
<1> QED
  BY <1>1, <1>2, <1>3, <1>4

\* No piece is fetched by two threads, queued twice or forgotten: each is in
\* the set, with one thread, on disk or abandoned, and in one of them only.
THEOREM Conservation == Spec => []PieceConservation
<1>1. TypeInv /\ OnePlace => PieceConservation
  <2> SUFFICES ASSUME TypeInv, OnePlace, NEW p \in Piece
               PROVE  Cardinality(PlacesOf(p)) = 1
    BY DEF PieceConservation
  <2>1. PICK place : PlacesOf(p) = {place}
    BY PlaceIsUnique
  <2> QED
    BY <2>1, FS_Singleton
<1> QED
  BY <1>1, InitTypeInv, NextTypeInv, InitOnePlace, NextOnePlace, PTL DEF Spec

-----------------------------------------------------------------------------
(* The order of the set *)

LEMMA InitKeys == Init => KeysStable
BY DEF Init, KeysStable

LEMMA NextKeys == TypeInv /\ KeysStable /\ [Next]_vars => KeysStable'
<1> SUFFICES ASSUME TypeInv, KeysStable, [Next]_vars PROVE KeysStable'
  OBVIOUS
<1> USE DEF KeysStable, setVars
<1>1. CASE UNCHANGED vars
  BY <1>1 DEF vars
<1>2. ASSUME NEW n \in Neighbour, Thread(n) PROVE KeysStable'
  <2> /\ queued \subseteq Piece /\ piece \in [Neighbour -> Piece \cup {NoPiece}]
      /\ placed \in [Piece -> Nat] /\ pieces_priority \in [Piece -> Nat]
    BY DEF TypeInv, TypeOK
  <2>1. CASE RemoveTop(n)
    BY <2>1 DEF RemoveTop
  <2>2. CASE UpdatePriority(n)
    <3> DEFINE priority == seen[n] + ReportedBit(n)
    <3>1. \/ pieces_priority' = [pieces_priority EXCEPT ![idx[n]] = priority]
             /\ placed' = [placed EXCEPT ![idx[n]] = priority]
          \/ UNCHANGED <<pieces_priority, placed>>
      BY <2>2 DEF UpdatePriority
    <3>2. queued' = queued
      BY <2>2 DEF UpdatePriority
    <3> HIDE DEF priority
    <3> QED
      BY <3>1, <3>2
  <2>3. CASE PushBack(n)
    <3>1. piece[n] \in Piece
      BY <2>3 DEF PushBack, TypeInv, CarriesWhenBusy
    <3>2. /\ queued' = queued \cup {piece[n]}
          /\ placed' = [placed EXCEPT ![piece[n]] = pieces_priority[piece[n]]]
          /\ pieces_priority' = pieces_priority
      BY <2>3 DEF PushBack
    <3> QED
      BY <3>1, <3>2
  <2>4. ASSUME ~RemoveTop(n), ~UpdatePriority(n), ~PushBack(n)
        PROVE  UNCHANGED <<queued, placed, pieces_priority>>
    BY <1>2, <2>4 DEF Thread, Connect, ConnectFails, CheckEmpty, RemoveTopOfEmpty,
       FetchAccepted, FetchMismatch, FetchFails, FetchHangs, WritePiece,
       WriteLost, WriteThrows, Written, ReadPriority
  <2> QED
    BY <2>1, <2>2, <2>3, <2>4
<1> QED
  BY <1>1, <1>2 DEF Next

\* The mutable order of the tree stays the order it was built with.
THEOREM KeysAreStable == Spec => []KeysStable
BY InitTypeInv, NextTypeInv, InitKeys, NextKeys, PTL DEF Spec

\* A piece leaves the set only through RemoveTop, and then it is the top by
\* the keys of the tree, which are its priorities.
LEMMA RarestStep ==
    ASSUME TypeInv, KeysStable, [Next]_vars,
           NEW p \in queued \ queued', NEW q \in queued \ {p}
    PROVE  Before(p, q, pieces_priority)
<1>1. PICK n \in Neighbour : Thread(n)
  BY DEF Next, vars
<1>2. TakesPiece(n)
  BY <1>1, StepKinds DEF StoresPiece, DropsPiece, GivesPieceBack, MovesNoPiece
<1>3. pc[n] = "take"
  <2>1. piece[n] = NoPiece /\ piece'[n] # NoPiece
    BY <1>2, DownloadAssumption DEF TakesPiece, Carry, TypeInv, TypeOK
  <2> QED
    BY <1>1, <2>1 DEF Thread, Connect, ConnectFails, CheckEmpty, RemoveTop,
       RemoveTopOfEmpty, FetchAccepted, FetchMismatch, FetchFails, FetchHangs,
       WritePiece, WriteLost, WriteThrows, Written, ReadPriority, UpdatePriority,
       PushBack, Carry, TypeInv, TypeOK
<1>4. PICK r \in Piece : IsTop(r) /\ queued' = queued \ {r}
  BY <1>1, <1>3 DEF Thread, Connect, ConnectFails, CheckEmpty, RemoveTop,
     RemoveTopOfEmpty, FetchAccepted, FetchMismatch, FetchFails, FetchHangs,
     WritePiece, WriteLost, WriteThrows, ReadPriority, UpdatePriority, PushBack
<1>5. Before(p, q, placed)
  BY <1>4 DEF IsTop
<1> QED
  BY <1>5 DEF KeysStable, Before

\* Every piece that a thread takes is the rarest of those left at that moment.
THEOREM RarestLeavesFirst == Spec => RarestFirst
<1>1. TypeInv /\ KeysStable /\ [Next]_vars
      => [\A p \in queued \ queued' : \A q \in queued \ {p} :
             Before(p, q, pieces_priority)]_vars
  BY RarestStep
<1> QED
  BY <1>1, InitTypeInv, NextTypeInv, InitKeys, NextKeys, PTL
     DEF Spec, RarestFirst

-----------------------------------------------------------------------------
(* The wedged set *)

LEMMA NextWedged == WedgedWhenDrained /\ [Next]_vars => WedgedWhenDrained'
<1> SUFFICES ASSUME WedgedWhenDrained, [Next]_vars PROVE WedgedWhenDrained'
  OBVIOUS
<1> USE DEF WedgedWhenDrained, setVars
<1>1. CASE UNCHANGED vars
  BY <1>1 DEF vars
<1>2. ASSUME NEW n \in Neighbour, Thread(n) PROVE WedgedWhenDrained'
  <2>1. CASE RemoveTop(n) \/ RemoveTopOfEmpty(n) \/ PushBack(n)
    BY <2>1 DEF RemoveTop, RemoveTopOfEmpty, PushBack
  <2>2. CASE UpdatePriority(n)
    BY <2>2 DEF UpdatePriority
  <2>3. ASSUME ~RemoveTop(n), ~RemoveTopOfEmpty(n), ~PushBack(n), ~UpdatePriority(n)
        PROVE  UNCHANGED <<queued, wedged>>
    BY <1>2, <2>3 DEF Thread, Connect, ConnectFails, CheckEmpty,
       FetchAccepted, FetchMismatch, FetchFails, FetchHangs, WritePiece,
       WriteLost, WriteThrows, Written, ReadPriority
  <2> QED
    BY <2>1, <2>2, <2>3
<1> QED
  BY <1>1, <1>2 DEF Next

\* A thread spins inside remove_top only when the set is empty, and for ever.
THEOREM WedgedSetIsDrained == Spec => []WedgedWhenDrained
<1>1. Init => WedgedWhenDrained
  BY DEF Init, WedgedWhenDrained
<1> QED
  BY <1>1, NextWedged, PTL DEF Spec

-----------------------------------------------------------------------------
(* What is on disk *)

\* Between the verdict and the write, the bytes a thread carries are genuine
\* or belong to a piece whose digest compares short.
CarriesAccepted ==
    \A n \in Neighbour :
        pc[n] = "write" => data[n] = "genuine" \/ piece[n] \notin OpenDigest

NoTornYet == stream = "good" => \A p \in Piece : disk[p] # "torn"

DiskInv == CarriesAccepted /\ FetchedIsGenuine /\ NoTornYet /\ AtMostOneTorn

LEMMA InitDiskInv == Init => DiskInv
BY DEF Init, DiskInv, CarriesAccepted, FetchedIsGenuine, NoTornYet, AtMostOneTorn

\* Only two actions touch the file: a successful write and a failing one.
LEMMA DiskSteps ==
    ASSUME TypeInv, NEW n \in Neighbour, Thread(n)
    PROVE  \/ UNCHANGED <<stream, disk, fetched>>
           \/ /\ pc[n] = "write" /\ piece[n] \in Piece
              /\ disk' = [disk EXCEPT ![piece[n]] = data[n]]
              /\ fetched' = fetched \cup {piece[n]} /\ stream' = stream
           \/ /\ pc[n] = "write" /\ piece[n] \in Piece /\ stream = "good"
              /\ disk' = [disk EXCEPT ![piece[n]] = "torn"]
              /\ fetched' = fetched \cup {piece[n]} /\ stream' = "bad"
<1> USE DEF fileVars, histVars
<1>1. CASE WritePiece(n)
  BY <1>1 DEF WritePiece, Written, TypeInv, CarriesWhenBusy
<1>2. CASE WriteLost(n)
  BY <1>2 DEF WriteLost, Written, TypeInv, CarriesWhenBusy
<1>3. ASSUME ~WritePiece(n), ~WriteLost(n)
      PROVE  UNCHANGED <<stream, disk, fetched>>
  BY <1>3 DEF Thread, Connect, ConnectFails, CheckEmpty, RemoveTop,
     RemoveTopOfEmpty, FetchAccepted, FetchMismatch, FetchFails, FetchHangs,
     WriteThrows, ReadPriority, UpdatePriority, PushBack
<1> QED
  BY <1>1, <1>2, <1>3

LEMMA NextCarriesAccepted ==
    TypeInv /\ CarriesAccepted /\ [Next]_vars => CarriesAccepted'
<1> SUFFICES ASSUME TypeInv, CarriesAccepted, [Next]_vars PROVE CarriesAccepted'
  OBVIOUS
<1> USE DEF CarriesAccepted, TypeInv, TypeOK, Goto, Carry
<1>1. CASE UNCHANGED vars
  BY <1>1 DEF vars
<1>2. ASSUME NEW n \in Neighbour, Thread(n) PROVE CarriesAccepted'
  <2>1. CASE FetchAccepted(n)
    <3>1. PICK bytes \in {"genuine", "corrupt"} :
              /\ TRUE \in Verdicts(piece[n], bytes)
              /\ data' = [data EXCEPT ![n] = bytes]
      BY <2>1 DEF FetchAccepted, Serves
    <3>2. piece[n] \in Piece /\ piece' = piece
      BY <2>1 DEF FetchAccepted, CarriesWhenBusy
    <3>3. bytes = "genuine" \/ piece[n] \notin OpenDigest
      BY <3>1, <3>2, VerdictOfAccepted
    <3> QED
      BY <2>1, <3>1, <3>2, <3>3 DEF FetchAccepted
  <2>2. ASSUME ~FetchAccepted(n) PROVE CarriesAccepted'
    <3>1. /\ pc' = [pc EXCEPT ![n] = pc'[n]] /\ pc'[n] # "write"
          /\ data' = data
          /\ \A m \in Neighbour \ {n} : piece'[m] = piece[m]
      BY <1>2, <2>2 DEF Thread, Connect, ConnectFails, CheckEmpty, RemoveTop,
         RemoveTopOfEmpty, FetchMismatch, FetchFails, FetchHangs, WritePiece,
         WriteLost, WriteThrows, Written, ReadPriority, UpdatePriority,
         NextIndex, PushBack
    <3> QED
      BY <3>1
  <2> QED
    BY <2>1, <2>2
<1> QED
  BY <1>1, <1>2 DEF Next

LEMMA NextDiskInv == TypeInv /\ DiskInv /\ [Next]_vars => DiskInv'
<1> SUFFICES ASSUME TypeInv, DiskInv, [Next]_vars PROVE DiskInv'
  OBVIOUS
<1>1. CarriesAccepted'
  BY NextCarriesAccepted DEF DiskInv
<1>2. (FetchedIsGenuine /\ NoTornYet /\ AtMostOneTorn)'
  <2> USE DEF DiskInv, CarriesAccepted, FetchedIsGenuine, NoTornYet, AtMostOneTorn
  <2>1. CASE UNCHANGED vars
    BY <2>1 DEF vars
  <2>2. ASSUME NEW n \in Neighbour, Thread(n)
        PROVE  (FetchedIsGenuine /\ NoTornYet /\ AtMostOneTorn)'
    <3> /\ disk \in [Piece -> {"hole", "genuine", "corrupt", "torn"}]
        /\ data \in [Neighbour -> {"genuine", "corrupt"}]
        /\ stream \in {"good", "bad"} /\ fetched \subseteq Piece
      BY DEF TypeInv, TypeOK
    <3> QED
      BY <2>2, DiskSteps
  <2> QED
    BY <2>1, <2>2 DEF Next
<1> QED
  BY <1>1, <1>2 DEF DiskInv

\* A fetched piece is genuine on disk, but for a digest that compares short
\* and the one write that the disk may fail.
THEOREM FetchedPiecesAreGenuine == Spec => []FetchedIsGenuine
<1>1. DiskInv => FetchedIsGenuine
  BY DEF DiskInv
<1> QED
  BY <1>1, InitTypeInv, NextTypeInv, InitDiskInv, NextDiskInv, PTL DEF Spec

\* The disk fails at most one piece silently: after it the stream throws.
THEOREM OneSilentLoss == Spec => []AtMostOneTorn
<1>1. DiskInv => AtMostOneTorn
  BY DEF DiskInv
<1> QED
  BY <1>1, InitTypeInv, NextTypeInv, InitDiskInv, NextDiskInv, PTL DEF Spec

-----------------------------------------------------------------------------
(* The refinement *)

LEMMA InitTransfer == Init => Transfer!Init
<1> SUFFICES ASSUME Init PROVE Transfer!Init
  OBVIOUS
<1>1. \A p \in Piece : PlacesOf(p) = {"pool"}
  BY DownloadAssumption DEF Init, PlacesOf, Holds
<1>2. {n \in Neighbour : pc[n] # "exited"} = Neighbour
  BY DEF Init
<1> QED
  BY <1>1, <1>2 DEF Transfer!Init, Transfer!Pool

\* The threads that have not exited, and the effect of a step on them.
Active == {n \in Neighbour : pc[n] # "exited"}

LEMMA ActiveSteps ==
    ASSUME TypeInv, NEW n \in Neighbour, pc[n] # "exited"
    PROVE  /\ Stays(n) => Active' = Active
           /\ Leaves(n) => Active' = Active \ {n}
BY DEF TypeInv, TypeOK, Stays, Leaves, Active

At == [p \in Piece |-> PlacesOf(p)]

LEMMA HeldIsAt ==
    ASSUME TypeInv, OnePlace, NEW n \in Neighbour, piece[n] \in Piece
    PROVE  PlacesOf(piece[n]) = {n}
BY DEF OnePlace, HeldApart, OneHolder, PlacesOf, Holds

LEMMA QueuedIsAt ==
    ASSUME TypeInv, OnePlace, NEW p \in queued
    PROVE  p \in Piece /\ PlacesOf(p) = {"pool"}
BY DEF OnePlace, SetsApart, HeldApart, PlacesOf, Holds, TypeInv, TypeOK

LEMMA IdleIsNowhere ==
    ASSUME NEW n \in Neighbour, piece[n] = NoPiece
    PROVE  \A p \in Piece : n \notin At[p]
BY DownloadAssumption DEF At, PlacesOf, Holds

\* A step that only changes where piece p is moves it in the abstract state.
LEMMA MoveOne ==
    ASSUME NEW p \in Piece, NEW to,
           \A q \in Piece \ {p} : PlacesOf(q)' = PlacesOf(q),
           PlacesOf(p)' = {to}
    PROVE  At' = [At EXCEPT ![p] = {to}]
BY DEF At

\* Every step of a thread is a hand-over of PieceTransfer or changes nothing
\* that PieceTransfer sees.
LEMMA StepTransfer ==
    ASSUME TypeInv, OnePlace, OnePlace', NEW n \in Neighbour, Thread(n)
    PROVE  \/ Transfer!Take(n) \/ Transfer!Store(n) \/ Transfer!Discard(n)
           \/ Transfer!GiveBack(n) \/ Transfer!Quit(n)
           \/ UNCHANGED <<At, Active>>
<1> USE DEF Transfer!Move, Transfer!IdleWorker, Transfer!Pool, Transfer!Stored,
            Transfer!Lost
<1>0. /\ pc[n] # "exited" /\ n \in Active
      /\ piece \in [Neighbour -> Piece \cup {NoPiece}]
  BY StepKinds DEF Active, TypeInv, TypeOK
<1>1. CASE TakesPiece(n)
  <2>1. PICK p \in queued : queued' = queued \ {p} /\ Carry(n, p)
    BY <1>1 DEF TakesPiece
  <2>2. p \in Piece /\ At[p] = {"pool"}
    BY QueuedIsAt DEF At
  <2>3. PlacesOf(p)' = {n}
    BY <1>0, <1>1, <2>1, <2>2 DEF TakesPiece, Carry, PlacesOf, Holds, OnePlace,
       HeldApart, SetsApart
  <2>4. \A q \in Piece \ {p} : PlacesOf(q)' = PlacesOf(q)
    BY <1>0, <1>1, <2>1, DownloadAssumption DEF TakesPiece, Carry, PlacesOf, Holds
  <2>5. At' = [At EXCEPT ![p] = {n}]
    BY <2>2, <2>3, <2>4, MoveOne
  <2>6. Active' = Active /\ \A q \in Piece : n \notin At[q]
    BY <1>0, <1>1, ActiveSteps, IdleIsNowhere DEF TakesPiece
  <2>7. Transfer!Take(n)
    BY <1>0, <2>2, <2>5, <2>6 DEF Transfer!Take, At, Active
  <2> QED
    BY <2>7
\* The piece the thread carries before the step, as a constant.
<1>p. PICK p : p = piece[n]
  OBVIOUS
<1>2. ASSUME StoresPiece(n) \/ DropsPiece(n) \/ GivesPieceBack(n)
      PROVE  /\ p \in Piece /\ At[p] = {n}
             /\ \A q \in Piece \ {p} : PlacesOf(q)' = PlacesOf(q)
             /\ \A m \in Neighbour : ~Holds(m, p)'
  <2>1. p \in Piece /\ Carry(n, NoPiece)
    BY <1>2, <1>p DEF StoresPiece, DropsPiece, GivesPieceBack
  <2>2. At[p] = {n}
    BY <1>p, <2>1, HeldIsAt DEF At
  <2>3. \A q \in Piece \ {p}, m \in Neighbour : Holds(m, q)' <=> Holds(m, q)
    BY <1>0, <1>p, <2>1, DownloadAssumption DEF Carry, Holds
  <2>4. \A q \in Piece \ {p} : PlacesOf(q)' = PlacesOf(q)
    BY <1>2, <1>p, <2>3 DEF StoresPiece, DropsPiece, GivesPieceBack, PlacesOf
  <2>5. \A m \in Neighbour : piece'[m] # p
    BY <1>0, <1>p, <2>1, DownloadAssumption DEF Carry, OnePlace, OneHolder
  <2> QED
    BY <2>1, <2>2, <2>4, <2>5 DEF Holds
<1>3. CASE StoresPiece(n)
  <2>1. PlacesOf(p)' = {"stored"}
    BY <1>2, <1>p, <1>3 DEF StoresPiece, PlacesOf, OnePlace, HeldApart
  <2>2. At' = [At EXCEPT ![p] = {"stored"}]
    BY <1>2, <1>3, <2>1, MoveOne
  <2>3. Active' = Active
    BY <1>0, <1>3, ActiveSteps DEF StoresPiece
  <2>4. Transfer!Store(n)
    BY <1>2, <1>p, <1>3, <2>2, <2>3 DEF Transfer!Store, At, Active
  <2> QED
    BY <2>4
<1>4. CASE DropsPiece(n)
  <2>1. PlacesOf(p)' = {"lost"}
    BY <1>2, <1>p, <1>4 DEF DropsPiece, PlacesOf, OnePlace, HeldApart
  <2>2. At' = [At EXCEPT ![p] = {"lost"}]
    BY <1>2, <1>4, <2>1, MoveOne
  <2>3. Active' = Active
    BY <1>0, <1>4, ActiveSteps DEF DropsPiece
  <2>4. Transfer!Discard(n)
    BY <1>2, <1>p, <1>4, <2>2, <2>3 DEF Transfer!Discard, At, Active
  <2> QED
    BY <2>4
<1>5. CASE GivesPieceBack(n)
  <2>1. PlacesOf(p)' = {"pool"}
    BY <1>2, <1>p, <1>5 DEF GivesPieceBack, PlacesOf, OnePlace, HeldApart
  <2>2. At' = [At EXCEPT ![p] = {"pool"}]
    BY <1>2, <1>5, <2>1, MoveOne
  <2>3. Active' = Active \ {n}
    BY <1>0, <1>5, ActiveSteps DEF GivesPieceBack
  <2>4. Transfer!GiveBack(n)
    BY <1>2, <1>p, <1>5, <2>2, <2>3 DEF Transfer!GiveBack, At, Active
  <2> QED
    BY <2>4
<1>6. CASE MovesNoPiece(n)
  <2>1. At' = At
    BY <1>6 DEF MovesNoPiece, At, PlacesOf, Holds
  <2>2. CASE Stays(n)
    BY <1>0, <2>1, <2>2, ActiveSteps
  <2>3. CASE piece[n] = NoPiece /\ Leaves(n)
    <3>1. Active' = Active \ {n} /\ \A q \in Piece : n \notin At[q]
      BY <1>0, <2>3, ActiveSteps, IdleIsNowhere
    <3>2. Transfer!Quit(n)
      BY <1>0, <2>1, <3>1 DEF Transfer!Quit, At, Active
    <3> QED
      BY <3>2
  <2> QED
    BY <1>6, <2>2, <2>3 DEF MovesNoPiece
<1> QED
  BY StepKinds, <1>1, <1>3, <1>4, <1>5, <1>6

\* The downloader threads implement the abstract hand-over of pieces.
THEOREM Refinement == Spec => TransferSpec
<1>1. TypeInv /\ OnePlace /\ OnePlace' /\ [Next]_vars => [Transfer!Next]_Transfer!vars
  <2> SUFFICES ASSUME TypeInv, OnePlace, OnePlace', [Next]_vars
               PROVE  [Transfer!Next]_Transfer!vars
    OBVIOUS
  <2>1. CASE UNCHANGED vars
    BY <2>1 DEF vars, Transfer!vars, PlacesOf, Holds
  <2>2. ASSUME NEW n \in Neighbour, Thread(n) PROVE [Transfer!Next]_Transfer!vars
    BY <2>2, StepTransfer DEF Transfer!Next, Transfer!vars, At, Active
  <2> QED
    BY <2>1, <2>2 DEF Next
<1> QED
  BY <1>1, InitTypeInv, NextTypeInv, InitOnePlace, NextOnePlace, InitTransfer,
     PTL DEF Spec, TransferSpec, Transfer!Spec
=============================================================================
