--------------------------- MODULE PieceTransfer ---------------------------
(***************************************************************************)
(* What the downloading side of a peer promises about the pieces of a file *)
(* (client.cpp, the peer class): a piece is in exactly one place.  It      *)
(* waits in the pool, is carried by one worker, has been stored, or was    *)
(* discarded because its digest did not match.  A worker that gives a      *)
(* piece back retires, and only pooled pieces change hands.                *)
(***************************************************************************)

CONSTANTS Piece,   \* the pieces of the file
          Worker   \* the downloader threads

Pool == "pool"
Stored == "stored"
Lost == "lost"

VARIABLES at,      \* at[p]: the set of places where piece p is
          active   \* the workers that have not retired

vars == <<at, active>>

Init == /\ at = [p \in Piece |-> {Pool}]
        /\ active = Worker

Move(p, from, to) == /\ at[p] = {from}
                     /\ at' = [at EXCEPT ![p] = {to}]

IdleWorker(w) == /\ w \in active
                 /\ \A p \in Piece : w \notin at[p]

Take(w) == /\ IdleWorker(w)
           /\ \E p \in Piece : Move(p, Pool, w)
           /\ UNCHANGED active

Store(w) == /\ \E p \in Piece : Move(p, w, Stored)
            /\ UNCHANGED active

Discard(w) == /\ \E p \in Piece : Move(p, w, Lost)
              /\ UNCHANGED active

GiveBack(w) == /\ \E p \in Piece : Move(p, w, Pool)
               /\ active' = active \ {w}

Quit(w) == /\ IdleWorker(w)
           /\ active' = active \ {w}
           /\ UNCHANGED at

Next == \E w \in Worker :
            Take(w) \/ Store(w) \/ Discard(w) \/ GiveBack(w) \/ Quit(w)

Spec == Init /\ [][Next]_vars
=============================================================================
