-------------------------- MODULE HttpServer_proofs --------------------------
(***************************************************************************)
(* Proofs about HttpServer for any number of connections, descriptors,     *)
(* threads and requests: its type invariant, that a thread which has not   *)
(* been late uses the descriptor of its own connection, that responses     *)
(* return where the requests came from, and that the process ends only at  *)
(* a limit or over a request.                                              *)
(***************************************************************************)
EXTENDS HttpServer, FiniteSetTheorems, WellFoundedInduction, TLAPS

ThreadLabel == {"none", "copyFd", "copyAddress", "read", "write", "close", "done"}
ClientLabel == {"new", "idle", "waiting", "closed", "aborted", "gone"}

-----------------------------------------------------------------------------
(* The parts of the inductive invariant *)

\* What the loop has put in place before it creates a thread, and no thread
\* before its connection.
LoopInv ==
    /\ loop # "accept" => /\ accepted.conn \in Conn /\ accepted.fd \in Fd
                          /\ pc[accepted.conn] = "none"
    /\ \A t \in Conn : t > accepted.conn => pc[t] = "none"
    /\ loop = "address" => slot.fd \in Fd
    /\ \A t \in Conn : pc[t] # "none" => slot.fd \in Fd
    /\ \A t \in Conn : pc[t] = "copyAddress" => fd[t] \in Fd

TypeInv == TypeOK /\ LoopInv

\* A connection is behind one descriptor at most, and only once accepted.
Table ==
    /\ \A f \in Fd : fdtab[f] <= accepted.conn
    /\ \A f, g \in Fd : fdtab[f] = fdtab[g] => f = g \/ fdtab[f] = NoConn

\* The thread t has its copy of the descriptor.
HasFd(t) == pc[t] \in {"copyAddress", "read", "write", "close"}

\* The only thread that still copies is the last one, and the variable of
\* the loop holds its connection.
LastCopies ==
    /\ loop # "accept" => Copying = {} /\ fdtab[accepted.fd] = accepted.conn
    /\ loop = "address" => slot.fd = accepted.fd
    /\ loop = "accept" => \A t \in Copying :
                             /\ t = accepted.conn /\ accepted.fd \in Fd
                             /\ slot.fd = accepted.fd /\ slot.addr = t
                             /\ fdtab[accepted.fd] = t

\* A thread uses the descriptor and the address of its own connection.
OwnCopies ==
    /\ \A t \in Conn : HasFd(t) => fdtab[fd[t]] = t
    /\ \A t \in Serving : addr[t] = t

\* A descriptor in use belongs to a thread that still runs, or to come.
FdsOfThreads ==
    up => \A f \in Fd : \/ fdtab[f] = NoConn
                        \/ fdtab[f] \in Copying \cup Serving
                        \/ loop # "accept" /\ f = accepted.fd

\* What a thread is about to send, and to whom.
Responding ==
    /\ \A t \in Conn : /\ pc[t] = "write" => req[t] = t
                       /\ swollen[t] => pc[t] = "write"
    /\ ~astray

InTime == LastCopies /\ OwnCopies /\ FdsOfThreads /\ Responding

ServerInv == TypeInv /\ Table /\ (~late => InTime)

-----------------------------------------------------------------------------
(* The least free descriptor *)

LEMMA MinOfFree ==
    ASSUME TypeOK, FreeFds # {}
    PROVE  Min(FreeFds) \in Fd /\ fdtab[Min(FreeFds)] = NoConn
<1>1. FreeFds \subseteq Nat
  BY ServerAssumption DEF FreeFds, Fd
<1>2. PICK x \in FreeFds : \A y \in FreeFds : <<y, x>> \notin OpToRel(<, Nat)
  BY <1>1, NatLessThanWellFounded, WFMin, Zenon
<1>3. ASSUME NEW y \in FreeFds PROVE x <= y
  <2>1. x \in Nat /\ y \in Nat /\ <<y, x>> \notin OpToRel(<, Nat)
    BY <1>1, <1>2
  <2> QED
    BY <2>1 DEF OpToRel
<1>4. Min(FreeFds) \in FreeFds
  BY <1>3 DEF Min
<1> QED
  BY <1>4 DEF FreeFds

-----------------------------------------------------------------------------
(* TypeInv is inductive *)

LEMMA InitTypeInv == Init => TypeInv
<1> SUFFICES ASSUME Init PROVE TypeInv
  OBVIOUS
<1>1. 0 \in 0 .. MaxRequests /\ 0 \notin Conn
  BY ServerAssumption DEF Conn
<1> QED
  BY <1>1 DEF Init, TypeInv, TypeOK, LoopInv, NoConn, NoFd, Serving, Request

LEMMA LoopTypeInv == TypeInv /\ AcceptLoop => TypeInv'
<1> SUFFICES ASSUME TypeInv, AcceptLoop PROVE TypeInv'
  OBVIOUS
<1> USE DEF TypeInv, TypeOK, LoopInv, Serving
<1>1. ASSUME NEW c \in Conn, Accept(c) PROVE TypeInv'
  <2>1. Min(FreeFds) \in Fd
    BY <1>1, MinOfFree DEF Accept
  <2>2. c \in Nat /\ c > accepted.conn /\ accepted.conn \in Nat
    BY <1>1, ServerAssumption DEF Accept, Conn, NoConn
  <2>3. /\ loop' = "fd" /\ accepted'.conn = c /\ accepted'.fd = Min(FreeFds)
        /\ slot'.fd = slot.fd /\ slot' \in [fd : Fd \cup {NoFd}, addr : Conn \cup {NoConn}]
        /\ accepted' \in [conn : Conn \cup {NoConn}, fd : Fd \cup {NoFd}]
        /\ fdtab' \in [Fd -> Conn \cup {NoConn}]
        /\ client' \in [Conn -> ClientLabel]
        /\ late' \in BOOLEAN
    BY <1>1, <2>1 DEF Accept, ClientLabel
  <2>4. UNCHANGED <<limit, up, inbox, asked, pc, fd, addr, req, swollen, astray>>
    BY <1>1 DEF Accept, threadVars
  <2>5. \A t \in Conn : t > c => t > accepted.conn
    BY <2>2, ServerAssumption DEF Conn
  <2>6. LoopInv'
    BY <2>1, <2>2, <2>3, <2>4, <2>5 DEF LoopInv
  <2>7. TypeOK'
    BY <2>3, <2>4 DEF ClientLabel
  <2> QED
    BY <2>6, <2>7
<1>2. ASSUME NEW c \in Conn, AcceptFails(c) PROVE TypeInv'
  BY <1>2 DEF AcceptFails, clientVars, threadVars
<1>3. CASE StoreFd
  BY <1>3 DEF StoreFd, clientVars, threadVars
<1>4. CASE StoreAddress
  <2>1. /\ slot' = [slot EXCEPT !.addr = accepted.conn]
        /\ loop' = "accept" /\ up' \in BOOLEAN
        /\ pc' = pc \/ pc' = [pc EXCEPT ![accepted.conn] = "copyFd"]
        /\ UNCHANGED <<limit, accepted, fdtab, clientVars, fd, addr, req, swollen, astray, late>>
    BY <1>4 DEF StoreAddress
  <2>2. accepted.conn \in Conn /\ slot.fd \in Fd
    BY <1>4 DEF StoreAddress
  <2>3. pc' \in [Conn -> ThreadLabel]
    BY <2>1, <2>2 DEF ThreadLabel
  <2>4. \A t \in Conn : pc'[t] = pc[t] \/ (t = accepted.conn /\ pc'[t] = "copyFd")
    BY <2>1, <2>2
  <2>5. \A t \in Conn : t > accepted.conn => t # accepted.conn
    BY <2>2, ServerAssumption DEF Conn
  <2>6. LoopInv'
    BY <2>1, <2>2, <2>4, <2>5 DEF clientVars
  <2>7. slot' \in [fd : Fd \cup {NoFd}, addr : Conn \cup {NoConn}]
    BY <2>1, <2>2
  <2>8. TypeOK'
    BY <2>1, <2>3, <2>4, <2>7 DEF clientVars, ThreadLabel
  <2> QED
    BY <2>6, <2>8
<1> QED
  BY <1>1, <1>2, <1>3, <1>4 DEF AcceptLoop

LEMMA ClientTypeInv == TypeInv /\ Clients => TypeInv'
<1> SUFFICES ASSUME TypeInv, Clients PROVE TypeInv'
  OBVIOUS
<1> USE DEF TypeInv, TypeOK, LoopInv, Serving
<1>1. ASSUME NEW c \in Conn, NEW r \in Request, SendRequest(c, r) PROVE TypeInv'
  <2>1. asked' \in [Conn -> 0 .. MaxRequests]
    BY <1>1, ServerAssumption DEF SendRequest
  <2> QED
    BY <1>1, <2>1 DEF SendRequest, loopVars, threadVars
<1>2. ASSUME NEW c \in Conn, NEW how \in {"closed", "aborted"}, Leave(c, how) PROVE TypeInv'
  BY <1>2 DEF Leave, loopVars, threadVars
<1> QED
  BY <1>1, <1>2 DEF Clients

LEMMA ThreadTypeInv == ASSUME TypeInv, NEW t \in Conn, Thread(t) PROVE TypeInv'
<1> USE DEF TypeInv, TypeOK, LoopInv, Serving
<1>1. CASE CopyFd(t)
  BY <1>1 DEF CopyFd, Goto, loopVars, clientVars
<1>2. CASE CopyAddress(t)
  BY <1>2 DEF CopyAddress, Goto, loopVars, clientVars
<1>a. On(t) \in Conn \cup {NoConn}
  BY DEF On
<1>3. CASE ReadRequest(t)
  BY <1>a, <1>3 DEF ReadRequest, TakeRequest, Goto
<1>4. CASE ReadFails(t)
  BY <1>4 DEF ReadFails, Goto, loopVars, clientVars
<1>5. CASE WriteResponse(t)
  BY <1>a, <1>5 DEF WriteResponse, Goto, loopVars
<1>6. CASE WriteFails(t)
  BY <1>6 DEF WriteFails, loopVars, clientVars
<1>7. CASE Close(t)
  BY <1>7 DEF Close, CloseFd, Exit, Goto, loopVars
<1> QED
  BY <1>1, <1>2, <1>3, <1>4, <1>5, <1>6, <1>7 DEF Thread

LEMMA NextTypeInv == TypeInv /\ [Next]_vars => TypeInv'
<1>1. TypeInv /\ UNCHANGED vars => TypeInv'
  BY DEF vars, loopVars, clientVars, threadVars, TypeInv, TypeOK, LoopInv, Serving
<1> QED
  BY <1>1, LoopTypeInv, ClientTypeInv, ThreadTypeInv DEF Next

\* The state of the server, of its threads and of its clients is well typed.
THEOREM TypeCorrect == Spec => []TypeOK
<1>1. TypeInv => TypeOK
  BY DEF TypeInv
<1> QED
  BY <1>1, InitTypeInv, NextTypeInv, PTL DEF Spec

-----------------------------------------------------------------------------
(* Descriptors, copies and responses *)

LEMMA NextTable == TypeInv /\ Table /\ [Next]_vars => Table'
<1> SUFFICES ASSUME TypeInv, Table, [Next]_vars PROVE Table'
  OBVIOUS
<1> USE DEF Table
<1>a. /\ fdtab \in [Fd -> Conn \cup {NoConn}]
      /\ accepted.conn \in Nat /\ Conn \cup {NoConn} \subseteq Nat
  BY ServerAssumption DEF TypeInv, TypeOK, Conn, NoConn
<1>1. CASE UNCHANGED <<fdtab, accepted>>
  BY <1>1
<1>2. ASSUME NEW c \in Conn, Accept(c) PROVE Table'
  <2>1. /\ Min(FreeFds) \in Fd
        /\ fdtab' = [fdtab EXCEPT ![Min(FreeFds)] = c]
        /\ accepted'.conn = c /\ c = accepted.conn + 1
    BY <1>2, MinOfFree DEF Accept, TypeInv
  <2>2. \A f \in Fd : fdtab'[f] = IF f = Min(FreeFds) THEN c ELSE fdtab[f]
    BY <1>a, <2>1
  <2>3. \A f \in Fd : fdtab[f] < c /\ fdtab[f] # c
    BY <1>a, <2>1
  <2>4. \A f \in Fd : fdtab'[f] <= accepted'.conn
    BY <1>a, <2>1, <2>2, <2>3
  <2> QED
    BY <2>2, <2>3, <2>4
<1>3. ASSUME NEW t \in Conn, Close(t) PROVE Table'
  <2>1. /\ \A f \in Fd : fdtab'[f] = IF f = fd[t] THEN NoConn ELSE fdtab[f]
        /\ accepted' = accepted
    BY <1>3 DEF Close, CloseFd, loopVars
  <2>2. \A f \in Fd : fdtab'[f] <= accepted'.conn
    BY <1>a, <2>1 DEF NoConn
  <2> QED
    BY <2>1, <2>2
<1>4. ASSUME NEW t \in Conn, Thread(t), ~Close(t) PROVE UNCHANGED <<fdtab, accepted>>
  BY <1>4 DEF Thread, CopyFd, CopyAddress, ReadRequest, ReadFails, WriteResponse, WriteFails,
     loopVars
<1>5. Clients \/ StoreFd \/ StoreAddress \/ (\E c \in Conn : AcceptFails(c)) \/ UNCHANGED vars
      => UNCHANGED <<fdtab, accepted>>
  BY DEF Clients, SendRequest, Leave, StoreFd, StoreAddress, AcceptFails, vars, loopVars
<1> QED
  BY <1>1, <1>2, <1>3, <1>4, <1>5 DEF Next, AcceptLoop

\* A descriptor that a thread holds is in the table under its own connection.
LEMMA OwnFd ==
    ASSUME TypeInv, OwnCopies, NEW t \in Conn, HasFd(t)
    PROVE  fd[t] \in Fd /\ fdtab[fd[t]] = t /\ On(t) = t /\ t # NoConn
<1>1. fd[t] \in Fd
  BY DEF TypeInv, TypeOK, LoopInv, Serving, HasFd
<1>2. t # NoConn
  BY DEF Conn, NoConn
<1> QED
  BY <1>1, <1>2 DEF OwnCopies, On

LEMMA AcceptInTime ==
    ASSUME TypeInv, Table, InTime, NEW c \in Conn, Accept(c), ~late'
    PROVE  InTime'
<1>1. /\ loop = "accept" /\ loop' = "fd" /\ Copying = {}
      /\ Min(FreeFds) \in Fd /\ fdtab[Min(FreeFds)] = NoConn
      /\ accepted'.conn = c /\ accepted'.fd = Min(FreeFds)
      /\ UNCHANGED <<up, pc, fd, addr, req, swollen, astray>>
  BY MinOfFree DEF Accept, TypeInv, threadVars
<1>2. \A f \in Fd : fdtab'[f] = IF f = Min(FreeFds) THEN c ELSE fdtab[f]
  BY DEF Accept, TypeInv, TypeOK
<1>3. LastCopies'
  BY <1>1, <1>2 DEF LastCopies, Copying
<1>4. OwnCopies'
  <2>1. ASSUME NEW t \in Conn, HasFd(t) PROVE fdtab'[fd[t]] = t
    BY <1>1, <1>2, <2>1, OwnFd DEF InTime
  <2> QED
    BY <1>1, <2>1 DEF OwnCopies, HasFd, Serving, InTime
<1>5. FdsOfThreads'
  BY <1>1, <1>2 DEF FdsOfThreads, InTime, Copying, Serving
<1>6. Responding'
  <2>1. \A t \in Conn \ {c} : client'[t] = client[t]
    BY DEF Accept, TypeInv, TypeOK
  <2>2. pc[c] = "none"
    <3>1. c > accepted.conn
      BY ServerAssumption DEF Accept, Conn, TypeInv, TypeOK, NoConn
    <3> QED
      BY <3>1 DEF TypeInv, LoopInv
  <2> QED
    BY <1>1, <2>1, <2>2 DEF Responding, InTime
<1> QED
  BY <1>3, <1>4, <1>5, <1>6 DEF InTime

LEMMA LoopInTime ==
    ASSUME TypeInv, Table, InTime, up, AcceptLoop, ~late'
    PROVE  InTime'
<1>1. ASSUME NEW c \in Conn, AcceptFails(c) PROVE InTime'
  BY <1>1 DEF AcceptFails, InTime, LastCopies, OwnCopies, FdsOfThreads, Responding, Copying,
     Serving, HasFd, clientVars, threadVars
<1>2. CASE StoreFd
  <2>1. /\ loop = "fd" /\ loop' = "address" /\ slot'.fd = accepted.fd
        /\ UNCHANGED <<up, accepted, fdtab, client, pc, fd, addr, req, swollen, astray>>
    BY <1>2 DEF StoreFd, clientVars, threadVars, TypeInv, TypeOK
  <2> QED
    BY <2>1 DEF InTime, LastCopies, OwnCopies, FdsOfThreads, Responding, Copying, Serving, HasFd
<1>3. CASE StoreAddress
  <2>1. /\ loop = "address" /\ loop' = "accept"
        /\ slot'.fd = slot.fd /\ slot'.addr = accepted.conn
        /\ accepted.conn \in Conn /\ accepted.fd \in Fd /\ pc[accepted.conn] = "none"
        /\ UNCHANGED <<accepted, fdtab, client, fd, addr, req, swollen, astray>>
    BY <1>3 DEF StoreAddress, clientVars, TypeInv, TypeOK, LoopInv
  <2>2. CASE up' /\ pc' = [pc EXCEPT ![accepted.conn] = "copyFd"]
    <3>1. \A t \in Conn : pc'[t] = IF t = accepted.conn THEN "copyFd" ELSE pc[t]
      BY <2>1, <2>2 DEF TypeInv, TypeOK
    <3>2. LastCopies'
      BY <2>1, <3>1 DEF InTime, LastCopies, Copying
    <3>3. OwnCopies'
      BY <2>1, <3>1 DEF InTime, OwnCopies, HasFd, Serving
    <3>4. FdsOfThreads'
      BY <2>1, <3>1 DEF InTime, LastCopies, FdsOfThreads, Copying, Serving
    <3>5. Responding'
      BY <2>1, <3>1 DEF InTime, Responding
    <3> QED
      BY <3>2, <3>3, <3>4, <3>5 DEF InTime
  <2>3. CASE ~up' /\ pc' = pc
    BY <2>1, <2>3 DEF InTime, LastCopies, OwnCopies, FdsOfThreads, Responding, Copying,
       Serving, HasFd
  <2> QED
    BY <1>3, <2>2, <2>3 DEF StoreAddress
<1>4. ASSUME NEW c \in Conn, Accept(c) PROVE InTime'
  BY <1>4, AcceptInTime
<1> QED
  BY <1>1, <1>2, <1>3, <1>4 DEF AcceptLoop

LEMMA ClientInTime ==
    ASSUME TypeInv, InTime, Clients
    PROVE  InTime'
<1>1. /\ UNCHANGED <<up, loop, accepted, slot, fdtab, pc, fd, addr, req, swollen, astray>>
      /\ \A c \in Conn : client[c] = "aborted" => client'[c] = "aborted"
  BY DEF Clients, SendRequest, Leave, loopVars, threadVars, TypeInv, TypeOK
<1> QED
  BY <1>1 DEF InTime, LastCopies, OwnCopies, FdsOfThreads, Responding, Copying, Serving, HasFd

LEMMA ThreadInTime ==
    ASSUME TypeInv, Table, InTime, up, NEW t \in Conn, Thread(t)
    PROVE  InTime'
<1>a. /\ pc \in [Conn -> ThreadLabel] /\ fd \in [Conn -> Fd \cup {NoFd}]
      /\ addr \in [Conn -> Conn \cup {NoConn}] /\ req \in [Conn -> Conn \cup {NoConn}]
      /\ swollen \in [Conn -> BOOLEAN] /\ client \in [Conn -> ClientLabel]
  BY DEF TypeInv, TypeOK, ThreadLabel, ClientLabel
<1>b. UNCHANGED <<loop, accepted, slot>>
  BY DEF Thread, CopyFd, CopyAddress, ReadRequest, ReadFails, WriteResponse, WriteFails, Close,
     loopVars
<1>c. pc[t] \in {"copyFd", "copyAddress"} =>
         loop = "accept" /\ slot.addr = t /\ slot.fd \in Fd /\ fdtab[slot.fd] = t
  <2> SUFFICES ASSUME pc[t] \in {"copyFd", "copyAddress"}
               PROVE  loop = "accept" /\ slot.addr = t /\ slot.fd \in Fd /\ fdtab[slot.fd] = t
    OBVIOUS
  <2>1. t \in Copying
    BY DEF Copying
  <2> QED
    BY <2>1 DEF InTime, LastCopies
<1> DEFINE running == {"copyFd", "copyAddress", "read", "write", "close"}
<1>d. \A u \in Conn : /\ (u \in Copying) = (pc[u] \in {"copyFd", "copyAddress"})
                      /\ (u \in Copying \cup Serving) = (pc[u] \in running)
                      /\ (u \in Copying)' = (pc'[u] \in {"copyFd", "copyAddress"})
                      /\ (u \in Copying \cup Serving)' = (pc'[u] \in running)
  BY DEF Copying, Serving
<1>1. \* A step of a thread that keeps its descriptor.
      ASSUME NEW label \in {"copyAddress", "read", "write", "close"},
             \A u \in Conn : pc'[u] = IF u = t THEN label ELSE pc[u],
             fdtab' = fdtab, label = "copyAddress" => pc[t] = "copyFd",
             pc[t] \in running,
             \A u \in Conn : fd'[u] = IF u = t /\ pc[t] = "copyFd" THEN slot.fd ELSE fd[u],
             \A u \in Conn : addr'[u] = IF u = t /\ pc[t] = "copyAddress"
                                         THEN slot.addr ELSE addr[u],
             pc[t] = "copyFd" => label = "copyAddress",
             Responding'
      PROVE  InTime'
  <2>1. LastCopies'
    <3>1. \A u \in Conn : u \in Copying' => u \in Copying
      BY <1>1, <1>d
    <3>2. Copying' \subseteq Copying
      BY <3>1 DEF Copying
    <3> QED
      BY <1>1, <1>b, <3>2 DEF InTime, LastCopies
  <2>2. OwnCopies'
    BY <1>1, <1>a, <1>b, <1>c DEF InTime, OwnCopies, HasFd, Serving
  <2>3. FdsOfThreads'
    <3>1. \A u \in Conn : u \in Copying \cup Serving => (u \in Copying \cup Serving)'
      BY <1>1, <1>d
    <3> QED
      BY <1>1, <1>b, <3>1 DEF InTime, FdsOfThreads, Copying, Serving
  <2> QED
    BY <1>1, <2>1, <2>2, <2>3 DEF InTime
<1>2. CASE CopyFd(t)
  BY <1>a, <1>1, <1>2 DEF CopyFd, Goto, clientVars, InTime, Responding
<1>3. CASE CopyAddress(t)
  BY <1>a, <1>1, <1>3 DEF CopyAddress, Goto, clientVars, InTime, Responding
<1>4. CASE ReadRequest(t)
  <2>1. On(t) = t
    BY <1>4, OwnFd DEF ReadRequest, HasFd, InTime
  <2>2. PICK label \in {"write", "close"} : Goto(t, label)
    BY <1>4 DEF ReadRequest, TakeRequest
  <2>3. /\ \A u \in Conn : pc'[u] = IF u = t THEN label ELSE pc[u]
        /\ \A u \in Conn : req'[u] = IF u = t THEN t ELSE req[u]
        /\ UNCHANGED <<fdtab, fd, addr, client, swollen, astray>>
        /\ pc[t] = "read"
    BY <1>a, <1>4, <2>1, <2>2 DEF ReadRequest, TakeRequest, Goto
  <2>4. Responding'
    BY <2>3 DEF InTime, Responding
  <2> QED
    BY <1>1, <2>3, <2>4
<1>5. CASE ReadFails(t)
  <2>1. /\ \A u \in Conn : pc'[u] = IF u = t THEN "close" ELSE pc[u]
        /\ UNCHANGED <<fdtab, fd, addr, client, req, swollen, astray>>
        /\ pc[t] = "read"
    BY <1>a, <1>5 DEF ReadFails, Goto, clientVars
  <2>2. Responding'
    BY <2>1 DEF InTime, Responding
  <2> QED
    BY <1>1, <2>1, <2>2
<1>6. CASE WriteResponse(t)
  <2>1. On(t) = t
    BY <1>6, OwnFd DEF WriteResponse, HasFd, InTime
  <2>2. /\ \A u \in Conn : pc'[u] = IF u = t THEN "read" ELSE pc[u]
        /\ UNCHANGED <<fdtab, fd, addr>>
        /\ pc[t] = "write" /\ client[t] # "aborted"
    BY <1>a, <1>6, <2>1 DEF WriteResponse, Goto
  <2>3. req[t] = t
    BY <2>2 DEF InTime, Responding
  <2>4. /\ ~astray'
        /\ \A u \in Conn \ {t} : client'[u] = client[u] /\ swollen'[u] = swollen[u]
                                 /\ req'[u] = req[u]
        /\ ~swollen'[t]
    <3>1. ~astray'
      BY <1>6, <2>1, <2>3 DEF WriteResponse, InTime, Responding
    <3>2. /\ client' = [client EXCEPT ![t] = IF @ = "waiting" THEN "idle" ELSE @]
          /\ swollen' = [swollen EXCEPT ![t] = FALSE]
          /\ req' = [req EXCEPT ![t] = NoConn]
      BY <1>6, <2>1 DEF WriteResponse
    <3> QED
      BY <1>a, <3>1, <3>2
  <2>5. Responding'
    BY <2>2, <2>4 DEF InTime, Responding
  <2> QED
    BY <1>1, <2>2, <2>5
<1>7. CASE WriteFails(t)
  <2>1. On(t) = t /\ t # NoConn
    BY <1>7, OwnFd DEF WriteFails, HasFd, InTime
  <2>2. /\ \A u \in Conn : pc'[u] = IF u = t THEN "write" ELSE pc[u]
        /\ UNCHANGED <<fdtab, fd, addr, client, req, astray>>
        /\ pc[t] = "write"
        /\ \A u \in Conn \ {t} : swollen'[u] = swollen[u]
    BY <1>a, <1>7, <2>1 DEF WriteFails, clientVars
  <2>3. Responding'
    BY <2>2 DEF InTime, Responding
  <2> QED
    BY <1>1, <2>2, <2>3
<1>8. CASE Close(t)
  <2>1. pc[t] = "close" /\ fd[t] \in Fd /\ fdtab[fd[t]] = t /\ On(t) = t /\ t # NoConn
    BY <1>8, OwnFd DEF Close, HasFd, InTime
  <2>2. /\ \A u \in Conn : pc'[u] = IF u = t THEN "done" ELSE pc[u]
        /\ \A f \in Fd : fdtab'[f] = IF f = fd[t] THEN NoConn ELSE fdtab[f]
        /\ \A u \in Conn \ {t} : fd'[u] = fd[u] /\ addr'[u] = addr[u] /\ req'[u] = req[u]
        /\ \A u \in Conn \ {t} : client'[u] = client[u]
        /\ UNCHANGED <<swollen, astray>>
    BY <1>a, <1>8, <2>1 DEF Close, CloseFd, Exit, Goto
  <2>3. ASSUME NEW u \in Conn, u # t, NEW f \in Fd, fdtab[f] = u PROVE fdtab'[f] = u
    BY <2>1, <2>2, <2>3
  <2>4. LastCopies'
    <3>1. \A u \in Copying : u # t
      BY <2>1 DEF Copying
    <3>2. loop # "accept" => accepted.conn # t /\ accepted.fd \in Fd /\ accepted.conn \in Conn
      BY <2>1 DEF TypeInv, LoopInv
    <3>3. Copying' = Copying
      BY <2>1, <2>2 DEF Copying
    <3>4. \A u \in Copying : u \in Conn
      BY DEF Copying
    <3> QED
      BY <1>b, <2>3, <3>1, <3>2, <3>3, <3>4 DEF InTime, LastCopies
  <2>5. OwnCopies'
    <3>1. ASSUME NEW u \in Conn, HasFd(u)' PROVE fdtab'[fd'[u]] = u
      <4>1. u # t /\ HasFd(u)
        BY <2>2, <3>1 DEF HasFd
      <4> QED
        BY <2>2, <2>3, <4>1, OwnFd DEF InTime
    <3>2. ASSUME NEW u \in Conn, u \in Serving' PROVE addr'[u] = u
      BY <2>2, <3>2 DEF InTime, OwnCopies, Serving
    <3> QED
      BY <3>1, <3>2 DEF OwnCopies, Serving
  <2>6. FdsOfThreads'
    <3> SUFFICES ASSUME NEW f \in Fd, fdtab'[f] # NoConn
                 PROVE  \/ (fdtab[f] \in Copying \cup Serving)'
                        \/ loop # "accept" /\ f = accepted.fd
      BY <1>b DEF FdsOfThreads
    <3>1. f # fd[t] /\ fdtab'[f] = fdtab[f] /\ fdtab[f] # t
      BY <2>1, <2>2 DEF Table
    <3>2. \/ fdtab[f] \in Copying \cup Serving
          \/ loop # "accept" /\ f = accepted.fd
      BY <3>1 DEF InTime, FdsOfThreads
    <3> QED
      BY <2>2, <3>1, <3>2 DEF Copying, Serving
  <2>7. Responding'
    BY <2>1, <2>2 DEF InTime, Responding
  <2> QED
    BY <2>4, <2>5, <2>6, <2>7 DEF InTime
<1> QED
  BY <1>2, <1>3, <1>4, <1>5, <1>6, <1>7, <1>8 DEF Thread

LEMMA NextServerInv == ServerInv /\ [Next]_vars => ServerInv'
<1> SUFFICES ASSUME ServerInv, [Next]_vars PROVE ServerInv'
  OBVIOUS
<1>1. TypeInv' /\ Table'
  BY NextTypeInv, NextTable DEF ServerInv
<1>2. ~late' => ~late
  BY DEF Next, AcceptLoop, Accept, AcceptFails, StoreFd, StoreAddress, Clients, SendRequest,
     Leave, Thread, CopyFd, CopyAddress, ReadRequest, ReadFails, WriteResponse, WriteFails,
     Close, vars
<1>3. CASE UNCHANGED vars
  BY <1>1, <1>3 DEF ServerInv, InTime, LastCopies, OwnCopies, FdsOfThreads, Responding, Copying,
     Serving, HasFd, vars, loopVars, clientVars, threadVars
<1>4. ~late' /\ Next => InTime'
  BY <1>2, LoopInTime, ClientInTime, ThreadInTime DEF Next, ServerInv
<1> QED
  BY <1>1, <1>3, <1>4 DEF ServerInv

LEMMA Served == Spec => []ServerInv
<1>1. Init => ServerInv
  <2>1. Init => TypeInv
    BY InitTypeInv
  <2>2. Init => Table /\ InTime
    BY DEF Init, Table, InTime, LastCopies, OwnCopies, FdsOfThreads, Responding, Copying,
       Serving, HasFd, NoConn
  <2> QED
    BY <2>1, <2>2 DEF ServerInv
<1> QED
  BY <1>1, NextServerInv, PTL DEF Spec

\* As long as no thread was late, each uses the descriptor and gives the
\* callback the address of the connection it was created for, though the
\* kernel gives out the numbers of closed descriptors again.
THEOREM ThreadsKeepTheirConnection == Spec => []OwnConnection
<1>1. ServerInv => OwnConnection
  <2> SUFFICES ASSUME ServerInv, ~late, NEW t \in Serving
               PROVE  On(t) = t /\ addr[t] = t
    BY DEF OwnConnection
  <2>1. t \in Conn /\ HasFd(t)
    BY DEF Serving, HasFd
  <2> QED
    BY <2>1, OwnFd DEF ServerInv, InTime, OwnCopies
<1> QED
  BY <1>1, Served, PTL

\* As long as no thread was late, a response goes to the connection of its
\* request, however often sending it failed before.
THEOREM ResponsesGoBack == Spec => []ResponsesReturn
<1>1. ServerInv => ResponsesReturn
  BY DEF ServerInv, InTime, Responding, ResponsesReturn
<1> QED
  BY <1>1, Served, PTL

-----------------------------------------------------------------------------
(* The end of the process *)

\* A thread is created only below the limit.
ThreadsInLimit == Cardinality(Created) <= limit

LEMMA ConnFinite == IsFiniteSet(Conn) /\ IsFiniteSet(Created)
<1>1. IsFiniteSet(Conn)
  BY FS_Interval, ServerAssumption DEF Conn
<1> QED
  BY <1>1, FS_Subset DEF Created

LEMMA NextThreadsInLimit == TypeInv /\ ThreadsInLimit /\ [Next]_vars => ThreadsInLimit'
<1> SUFFICES ASSUME TypeInv, ThreadsInLimit, [Next]_vars PROVE ThreadsInLimit'
  OBVIOUS
<1>1. CASE StoreAddress
  <2>1. limit' = limit /\ accepted.conn \in Conn /\ pc[accepted.conn] = "none"
    BY <1>1 DEF StoreAddress, TypeInv, LoopInv
  <2>2. CASE Cardinality(Created) < limit
    <3>1. pc' = [pc EXCEPT ![accepted.conn] = "copyFd"]
      BY <1>1, <2>2 DEF StoreAddress
    <3>2. Created' = Created \cup {accepted.conn} /\ accepted.conn \notin Created
      BY <2>1, <3>1 DEF Created, TypeInv, TypeOK
    <3>3. Cardinality(Created') = Cardinality(Created) + 1
      BY <3>2, ConnFinite, FS_AddElement
    <3>4. Cardinality(Created) \in Nat /\ limit \in Nat
      BY ConnFinite, FS_CardinalityType, ServerAssumption DEF TypeInv, TypeOK
    <3> QED
      BY <2>1, <2>2, <3>3, <3>4 DEF ThreadsInLimit
  <2>3. CASE ~(Cardinality(Created) < limit)
    <3>1. pc' = pc
      BY <1>1, <2>3 DEF StoreAddress
    <3> QED
      BY <2>1, <3>1 DEF ThreadsInLimit, Created
  <2> QED
    BY <2>2, <2>3
<1>2. CASE ~StoreAddress
  <2>1. limit' = limit
    BY <1>2 DEF Next, AcceptLoop, Accept, AcceptFails, StoreFd, Clients, SendRequest, Leave,
       Thread, CopyFd, CopyAddress, ReadRequest, ReadFails, WriteResponse, WriteFails, Close,
       vars, loopVars
  <2>2. \A t \in Conn : pc[t] # "none" <=> pc'[t] # "none"
    <3>1. ASSUME NEW t \in Conn, Thread(t)
          PROVE  \A u \in Conn : pc[u] # "none" <=> pc'[u] # "none"
      BY <3>1 DEF Thread, CopyFd, CopyAddress, ReadRequest, TakeRequest, ReadFails, WriteResponse,
         WriteFails, Close, Exit, Goto, TypeInv, TypeOK
    <3>2. (\A t \in Conn : ~Thread(t)) => pc' = pc
      BY <1>2 DEF Next, AcceptLoop, Accept, AcceptFails, StoreFd, Clients, SendRequest, Leave,
         vars, threadVars
    <3> QED
      BY <3>1, <3>2
  <2>3. Created' = Created
    BY <2>2 DEF Created
  <2> QED
    BY <2>1, <2>3 DEF ThreadsInLimit
<1> QED
  BY <1>1, <1>2

\* When no descriptor is free, every one is held by a thread of its own.
LEMMA AllFdsHeld ==
    ASSUME ServerInv, ~late, up, loop = "accept", FreeFds = {}
    PROVE  Cardinality(Copying \cup Serving) = MaxFd
<1> DEFINE held == Copying \cup Serving
<1>1. \A f \in Fd : fdtab[f] \in held
  BY DEF FreeFds, ServerInv, InTime, FdsOfThreads
<1>2. \A f, g \in Fd : fdtab[f] = fdtab[g] => f = g
  BY DEF FreeFds, ServerInv, Table
<1>3. ASSUME NEW t \in held PROVE \E f \in Fd : fdtab[f] = t
  <2>1. CASE t \in Copying /\ pc[t] = "copyFd"
    BY <2>1 DEF ServerInv, InTime, LastCopies
  <2>2. CASE HasFd(t)
    <3>1. t \in Conn
      BY DEF Copying, Serving
    <3> QED
      BY <2>2, <3>1, OwnFd DEF ServerInv, InTime
  <2> QED
    BY <2>1, <2>2 DEF Copying, Serving, HasFd
<1>4. fdtab \in Bijection(Fd, held)
  <2>1. fdtab \in [Fd -> held]
    BY <1>1 DEF ServerInv, TypeInv, TypeOK
  <2> QED
    BY <1>2, <1>3, <2>1 DEF Bijection, Injection, Surjection, IsInjective
<1>5. IsFiniteSet(Fd) /\ Cardinality(Fd) = MaxFd
  <2>1. MaxFd \in Nat /\ MaxFd > 0
    BY ServerAssumption
  <2>2. /\ IsFiniteSet(0 .. MaxFd - 1)
        /\ Cardinality(0 .. MaxFd - 1) = IF 0 > MaxFd - 1 THEN 0 ELSE (MaxFd - 1) - 0 + 1
    BY <2>1, FS_Interval
  <2> QED
    BY <2>1, <2>2 DEF Fd
<1> QED
  BY <1>4, <1>5, FS_Bijection DEF ExistsBijection

\* Unless a request ends it, the process ends only when every descriptor is
\* held by a thread that still runs, when no more threads can be created, or
\* after a late thread: what finished threads have left behind never adds up.
THEOREM ProcessEndsAtLimitOrRequest == Spec => EndsAtLimitOrRequest
<1> DEFINE AtLimit == up /\ ~up' => \/ late
                                   \/ TakesItsEnd
                                   \/ Cardinality(Created) = limit
                                   \/ Cardinality(Copying \cup Serving) = MaxFd
<1>1. Init => ThreadsInLimit
  <2> SUFFICES ASSUME Init PROVE ThreadsInLimit
    OBVIOUS
  <2>1. Created = {} /\ limit \in Nat
    BY ServerAssumption DEF Init, Created
  <2> QED
    BY <2>1, FS_EmptySet DEF ThreadsInLimit
<1>2. ServerInv /\ ThreadsInLimit /\ [Next]_vars => [AtLimit]_vars
  <2> SUFFICES ASSUME ServerInv, ThreadsInLimit, Next, up, ~up', ~late,
                      ~TakesItsEnd
               PROVE  \/ Cardinality(Created) = limit
                      \/ Cardinality(Copying \cup Serving) = MaxFd
    OBVIOUS
  <2>1. StoreAddress \/ \E c \in Conn : AcceptFails(c)
    <3>1. ASSUME NEW t \in Conn, ReadRequest(t) PROVE FALSE
      <4>1. On(t) \in Conn /\ inbox[On(t)] = "crash" /\ inbox'[On(t)] = "none"
        BY <3>1 DEF ReadRequest, TakeRequest, On, ServerInv, TypeInv, TypeOK
      <4> QED
        BY <4>1 DEF TakesItsEnd
    <3> QED
      BY <3>1 DEF Next, AcceptLoop, Accept, StoreFd, Clients, SendRequest, Leave, Thread, CopyFd,
         CopyAddress, ReadFails, WriteResponse, WriteFails, Close, loopVars
  <2>2. CASE StoreAddress
    <3>1. ~(Cardinality(Created) < limit)
      BY <2>2 DEF StoreAddress
    <3>2. Cardinality(Created) \in Nat /\ limit \in Nat
      BY ConnFinite, FS_CardinalityType, ServerAssumption DEF ServerInv, TypeInv, TypeOK
    <3> QED
      BY <3>1, <3>2 DEF ThreadsInLimit
  <2>3. CASE \E c \in Conn : AcceptFails(c)
    BY <2>3, AllFdsHeld DEF AcceptFails
  <2> QED
    BY <2>1, <2>2, <2>3
<1>3. ServerInv => TypeInv
  BY DEF ServerInv
<1> QED
  BY <1>1, <1>2, <1>3, Served, NextThreadsInLimit, PTL DEF Spec, EndsAtLimitOrRequest
=============================================================================
