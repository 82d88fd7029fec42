----------------------------- MODULE HttpServer -----------------------------
(***************************************************************************)
(* The accept loop of http_server and the threads that handle_client runs  *)
(* in (http.cpp), over the descriptors of the process (socket.cpp).        *)
(*                                                                         *)
(* A connection is known to the process by a descriptor, a number that the *)
(* kernel gives out again once it is closed.  The loop keeps the accepted  *)
(* socket in one local variable and hands each thread a reference to it;   *)
(* the thread copies the socket, member by member, when it gets to run.    *)
(* Strings in a socket are short enough to live inside it, so a thread     *)
(* that comes late copies what the next accept has put there by then.      *)
(*                                                                         *)
(* Reading a request is one step; HttpExchange has its parts.  A client    *)
(* waits for the answer before it asks again, as http_client does.         *)
(***************************************************************************)
EXTENDS Integers, FiniteSets, FiniteSetsExt

CONSTANTS NConn,        \* how many connections clients make
          MaxFd,        \* how many descriptors the process has for them
          ThreadLimits, \* how many threads it may be able to create
          MaxRequests   \* bound on the requests of one connection

ASSUME ServerAssumption ==
    /\ {NConn, MaxFd, MaxRequests} \subseteq Nat \ {0}
    /\ ThreadLimits \subseteq Nat

\* Connections, and the threads created for them, in the order of accept.
Conn == 1 .. NConn
NoConn == 0

Fd == 0 .. MaxFd - 1
NoFd == MaxFd

(* What a request makes of read_request and the callback: a response of    *)
(* the callback; 411 or 400 at once; an exception that ends the thread; or *)
(* the end of the process, over the first line of a header that has none   *)
(* or too short a one, or over an exception of the callback that no        *)
(* handler of its type catches.                                            *)
Request == {"good", "refused", "fatal", "crash"}

VARIABLES
    limit,     \* how many threads the process can create
    up,        \* the process runs
    loop,      \* what accept_clients does next: "accept", "fd" or "address"
    accepted,  \* what accept returned last: connection and descriptor
    slot,      \* its local variable sock: descriptor and remote address
    fdtab,     \* the descriptors in use: the connection behind each
    client,    \* the other end of each connection
    inbox,     \* the request on its way to the server, or "none"
    asked,     \* how many requests a client has sent
    pc,        \* where the thread created for a connection is
    fd, addr,  \* its copy of the socket: descriptor, remote address
    req,       \* the connection its request came from
    swollen,   \* its send has failed: to_send has grown past the response
    astray,    \* history: a response went to another client
    late       \* history: sock was overwritten before a thread had its copy

loopVars == <<limit, up, loop, accepted, slot>>
clientVars == <<client, inbox, asked>>
threadVars == <<pc, fd, addr, req, swollen>>
vars == <<loopVars, fdtab, clientVars, threadVars, astray, late>>

-----------------------------------------------------------------------------

Init ==
    /\ limit \in ThreadLimits
    /\ up = TRUE
    /\ loop = "accept"
    /\ accepted = [conn |-> NoConn, fd |-> NoFd]
    /\ slot = [fd |-> NoFd, addr |-> NoConn]
    /\ fdtab = [f \in Fd |-> NoConn]
    /\ client = [c \in Conn |-> "new"]
    /\ inbox = [c \in Conn |-> "none"]
    /\ asked = [c \in Conn |-> 0]
    /\ pc = [t \in Conn |-> "none"]
    /\ fd = [t \in Conn |-> NoFd]
    /\ addr = [t \in Conn |-> NoConn]
    /\ req = [t \in Conn |-> NoConn]
    /\ swollen = [t \in Conn |-> FALSE]
    /\ astray = FALSE
    /\ late = FALSE

FreeFds == {f \in Fd : fdtab[f] = NoConn}
Created == {t \in Conn : pc[t] # "none"}
Copying == {t \in Conn : pc[t] \in {"copyFd", "copyAddress"}}
Serving == {t \in Conn : pc[t] \in {"read", "write", "close"}}

\* The connection behind the descriptor that thread t uses.
On(t) == IF fd[t] \in Fd THEN fdtab[fd[t]] ELSE NoConn

-----------------------------------------------------------------------------
(* The accept loop.  accept_connection builds its result in place, in the  *)
(* variable sock of the loop: first the empty address, then the            *)
(* descriptor, then the address of the client.                             *)

\* Variant: the thread is created before the socket is in place.
Accept_ThreadFirst(c) ==
    /\ loop = "accept"
    /\ c = accepted.conn + 1 /\ FreeFds # {}
    /\ fdtab' = [fdtab EXCEPT ![Min(FreeFds)] = c]
    /\ client' = [client EXCEPT ![c] = "idle"]
    /\ accepted' = [conn |-> c, fd |-> Min(FreeFds)]
    /\ pc' = [pc EXCEPT ![c] = "copyFd"]
    /\ loop' = "fd"
    /\ UNCHANGED <<limit, up, slot, inbox, asked, fd, addr, req, swollen,
                  astray, late>>

Accept(c) ==
    /\ loop = "accept"
    /\ c = accepted.conn + 1 /\ FreeFds # {}
    /\ fdtab' = [fdtab EXCEPT ![Min(FreeFds)] = c]
    /\ client' = [client EXCEPT ![c] = "idle"]
    /\ accepted' = [conn |-> c, fd |-> Min(FreeFds)]
    /\ slot' = [slot EXCEPT !.addr = NoConn]
    /\ late' = (late \/ Copying # {})
    /\ loop' = "fd"
    /\ UNCHANGED <<limit, up, inbox, asked, threadVars, astray>>

(* No descriptor is left: accept fails, its exception destroys the vector  *)
(* of joinable threads, and that ends the process.                         *)
AcceptFails(c) ==
    /\ loop = "accept"
    /\ c = accepted.conn + 1 /\ FreeFds = {}
    /\ up' = FALSE
    /\ UNCHANGED <<limit, loop, accepted, slot, fdtab, clientVars, threadVars, astray, late>>

StoreFd ==
    /\ loop = "fd"
    /\ slot' = [slot EXCEPT !.fd = accepted.fd]
    /\ loop' = "address"
    /\ UNCHANGED <<limit, up, accepted, fdtab, clientVars, threadVars, astray, late>>

(* The address, and the thread.  A finished thread counts until it is      *)
(* joined, which happens only after the loop, that is never.  When no more *)
(* can be created the exception again finds joinable threads to destroy.   *)
StoreAddress ==
    /\ loop = "address"
    /\ slot' = [slot EXCEPT !.addr = accepted.conn]
    /\ loop' = "accept"
    /\ IF Cardinality(Created) < limit
       THEN up' = up /\ pc' = [pc EXCEPT ![accepted.conn] = "copyFd"]
       ELSE up' = FALSE /\ pc' = pc
    /\ UNCHANGED <<limit, accepted, fdtab, clientVars, fd, addr, req, swollen,
                  astray, late>>

-----------------------------------------------------------------------------
(* handle_client, in thread t *)

Goto(t, label) == pc' = [pc EXCEPT ![t] = label]

\* The parameter sock is copied from the reference, member by member.
CopyFd(t) ==
    /\ pc[t] = "copyFd"
    /\ fd' = [fd EXCEPT ![t] = slot.fd]
    /\ Goto(t, "copyAddress")
    /\ UNCHANGED <<loopVars, fdtab, clientVars, addr, req, swollen, astray, late>>

CopyAddress(t) ==
    /\ pc[t] = "copyAddress"
    /\ addr' = [addr EXCEPT ![t] = slot.addr]
    /\ Goto(t, "read")
    /\ UNCHANGED <<loopVars, fdtab, clientVars, fd, req, swollen, astray, late>>

\* Variant: the catch clause of a refused request only goes on to the next.
TakeRequest_Silently(t) ==
    /\ inbox[On(t)] # "none" /\ client[On(t)] # "aborted"
    /\ inbox' = [inbox EXCEPT ![On(t)] = "none"]
    /\ req' = [req EXCEPT ![t] = On(t)]
    /\ up' = (inbox[On(t)] # "crash")
    /\ Goto(t, CASE inbox[On(t)] = "fatal" -> "close"
                 [] inbox[On(t)] \in {"refused", "crash"} -> "read"
                 [] inbox[On(t)] = "good" -> "write")

(* A request comes in on the descriptor: the callback makes the response,  *)
(* or the catch clauses do; an exception they catch otherwise leaves the   *)
(* loop, and what nothing catches ends the process.                        *)
TakeRequest(t) ==
    /\ inbox[On(t)] # "none" /\ client[On(t)] # "aborted"
    /\ inbox' = [inbox EXCEPT ![On(t)] = "none"]
    /\ req' = [req EXCEPT ![t] = On(t)]
    /\ up' = (inbox[On(t)] # "crash")
    /\ Goto(t, IF inbox[On(t)] = "fatal" THEN "close" ELSE "write")

ReadRequest(t) ==
    /\ pc[t] = "read" /\ On(t) # NoConn
    /\ TakeRequest(t)
    /\ UNCHANGED <<limit, loop, accepted, slot, fdtab, client, asked, fd, addr,
                  swollen, astray, late>>

\* Variant: a closed connection is no reason to stop reading.
ReadFails_KeepsReading(t) ==
    /\ pc[t] = "read"
    /\ On(t) # NoConn => client[On(t)] = "aborted"
    /\ Goto(t, "close")
    /\ UNCHANGED <<loopVars, fdtab, clientVars, fd, addr, req, swollen, astray, late>>

(* The read fails: the descriptor is no longer open, the client has closed *)
(* or aborted the connection, or nothing has come within the time-out.     *)
ReadFails(t) ==
    /\ pc[t] = "read"
    /\ On(t) # NoConn => client[On(t)] = "aborted" \/ inbox[On(t)] = "none"
    /\ Goto(t, "close")
    /\ UNCHANGED <<loopVars, fdtab, clientVars, fd, addr, req, swollen, astray, late>>

(* write_response succeeds.  After failures it sends as many bytes more    *)
(* than the response has, from behind its end, on the same descriptor:     *)
(* HttpExchange has what they do to the next exchange.                     *)
WriteResponse(t) ==
    /\ pc[t] = "write" /\ On(t) # NoConn
    /\ client[On(t)] # "aborted"
    /\ astray' = (astray \/ req[t] # On(t))
    /\ client' = [client EXCEPT ![On(t)] = IF @ = "waiting" THEN "idle" ELSE @]
    /\ swollen' = [swollen EXCEPT ![t] = FALSE]
    /\ req' = [req EXCEPT ![t] = NoConn]
    /\ Goto(t, "read")
    /\ UNCHANGED <<loopVars, fdtab, inbox, asked, fd, addr, late>>

(* send fails: the descriptor is closed, the client has aborted, or the    *)
(* failure passes, on an open connection.  write_bytes swallows the        *)
(* exception and returns -1, and the loop tries again, for ever unless a   *)
(* later send succeeds.                                                    *)
WriteFails(t) ==
    /\ pc[t] = "write" /\ ~swollen[t]
    /\ swollen' = [swollen EXCEPT ![t] = TRUE]
    /\ UNCHANGED <<loopVars, fdtab, clientVars, pc, fd, addr, req, astray, late>>

(* close(): whatever connection is behind the number ends, its other end   *)
(* sees that, and data it has sent is lost.                                *)
CloseFd(t) ==
    /\ fdtab' = [f \in Fd |-> IF f = fd[t] THEN NoConn ELSE fdtab[f]]
    /\ client' = [c \in Conn |-> IF c = On(t) THEN "gone" ELSE client[c]]
    /\ inbox' = [c \in Conn |-> IF c = On(t) THEN "none" ELSE inbox[c]]

\* The thread ends, its copy of the socket with it.
Exit(t) == /\ fd' = [fd EXCEPT ![t] = NoFd]
           /\ addr' = [addr EXCEPT ![t] = NoConn]
           /\ req' = [req EXCEPT ![t] = NoConn]
           /\ Goto(t, "done")

\* Variants: close_socket is called twice; never; before an error response.
Close_Twice(t) ==
    /\ pc[t] = "close"
    /\ CloseFd(t)
    /\ IF On(t) = t THEN UNCHANGED <<pc, fd, addr, req>> ELSE Exit(t)
    /\ UNCHANGED <<loopVars, asked, swollen, astray, late>>

Close_Forgotten(t) ==
    /\ pc[t] = "close"
    /\ Exit(t)
    /\ UNCHANGED <<loopVars, fdtab, clientVars, swollen, astray, late>>

Close_ThenReports(t) ==
    /\ pc[t] = "close"
    /\ CloseFd(t)
    /\ IF req[t] = t THEN Goto(t, "write") /\ UNCHANGED <<fd, addr, req>>
                     ELSE Exit(t)
    /\ UNCHANGED <<loopVars, asked, swollen, astray, late>>

(* The thread closes the number it holds, whatever is behind it by now.    *)
Close(t) ==
    /\ pc[t] = "close"
    /\ CloseFd(t)
    /\ Exit(t)
    /\ UNCHANGED <<loopVars, asked, swollen, astray, late>>

-----------------------------------------------------------------------------
(* The clients *)

SendRequest(c, r) ==
    /\ client[c] = "idle"
    /\ asked[c] < MaxRequests
    /\ client' = [client EXCEPT ![c] = "waiting"]
    /\ inbox' = [inbox EXCEPT ![c] = r]
    /\ asked' = [asked EXCEPT ![c] = @ + 1]
    /\ UNCHANGED <<loopVars, fdtab, threadVars, astray, late>>

(* A client closes the connection, or it goes away without reading what is *)
(* still coming and its kernel resets the connection.                      *)
Leave(c, how) ==
    /\ client[c] \in {"idle", "waiting"}
    /\ client' = [client EXCEPT ![c] = how]
    /\ UNCHANGED <<loopVars, fdtab, inbox, asked, threadVars, astray, late>>

Thread(t) ==
    \/ CopyFd(t) \/ CopyAddress(t)
    \/ ReadRequest(t) \/ ReadFails(t)
    \/ WriteResponse(t) \/ WriteFails(t)
    \/ Close(t)

AcceptLoop ==
    \/ \E c \in Conn : Accept(c) \/ AcceptFails(c)
    \/ StoreFd
    \/ StoreAddress

Clients == \E c \in Conn : \/ \E r \in Request : SendRequest(c, r)
                           \/ Leave(c, "closed")
                           \/ Leave(c, "aborted")

Next == up /\ (AcceptLoop \/ Clients \/ \E t \in Conn : Thread(t))

(* The scheduler runs every thread, and a poll comes back within its       *)
(* time-out; nothing makes a client connect, ask or leave.                 *)
Fairness == /\ \A t \in Conn : WF_vars(up /\ Thread(t))
            /\ WF_vars(up /\ (StoreFd \/ StoreAddress))

Spec == Init /\ [][Next]_vars /\ Fairness

-----------------------------------------------------------------------------
(* Properties *)

(* Every variable keeps its type; a thread past its copies holds a         *)
(* descriptor.  (http.cpp:700-766, socket.cpp:313-376)                     *)
TypeOK ==
    /\ limit \in ThreadLimits
    /\ up \in BOOLEAN
    /\ loop \in {"accept", "fd", "address"}
    /\ accepted \in [conn : Conn \cup {NoConn}, fd : Fd \cup {NoFd}]
    /\ slot \in [fd : Fd \cup {NoFd}, addr : Conn \cup {NoConn}]
    /\ fdtab \in [Fd -> Conn \cup {NoConn}]
    /\ client \in [Conn -> {"new", "idle", "waiting", "closed", "aborted",
                           "gone"}]
    /\ inbox \in [Conn -> Request \cup {"none"}]
    /\ asked \in [Conn -> 0 .. MaxRequests]
    /\ pc \in [Conn -> {"none", "copyFd", "copyAddress", "read", "write",
                        "close", "done"}]
    /\ fd \in [Conn -> Fd \cup {NoFd}]
    /\ addr \in [Conn -> Conn \cup {NoConn}]
    /\ req \in [Conn -> Conn \cup {NoConn}]
    /\ swollen \in [Conn -> BOOLEAN]
    /\ astray \in BOOLEAN
    /\ late \in BOOLEAN
    /\ \A t \in Serving : fd[t] \in Fd

(* As long as no thread was late, the descriptor a thread uses is open and *)
(* is for the connection it was created for, and so is the address it      *)
(* gives the callback, whatever numbers the kernel has given out again.    *)
(* (http.cpp:749, socket.cpp:313)                                          *)
OwnConnection == ~late => \A t \in Serving : On(t) = t /\ addr[t] = t

(* As long as no thread was late, a response goes to the connection of the *)
(* request it answers, also when it is sent again after failures, and so   *)
(* whatever is sent from behind its end goes to no other client.           *)
(* (http.cpp:677-686, 712; socket.cpp:299)                                 *)
ResponsesReturn == ~late => ~astray

\* A thread takes a request that ends the process.
TakesItsEnd == \E c \in Conn : inbox[c] = "crash" /\ inbox'[c] = "none"

(* Unless a request ends it, the process ends only at a limit: when every  *)
(* descriptor is held by a thread that still runs, when no more threads    *)
(* can be created, or after a late thread.  Descriptors of finished        *)
(* threads never count.  (http.cpp:733, 746, 750)                          *)
EndsAtLimitOrRequest ==
    [][up /\ ~up' => \/ late
                     \/ TakesItsEnd
                     \/ Cardinality(Created) = limit
                     \/ Cardinality(Copying \cup Serving) = MaxFd]_vars

\* Nothing more is promised to a connection in these cases.
Excused == ~up \/ late

(* A request that ends neither its thread nor the process is answered,     *)
(* unless the client leaves first or the request came just after the       *)
(* time-out, when the thread had given the connection up; while the        *)
(* process runs and no thread was late.  (http.cpp:706-731)                *)
EveryRequestAnswered ==
    \A c \in Conn :
        /\ client[c] = "waiting"
        /\ inbox[c] \in {"good", "refused"}
        /\ pc[c] # "close"
        ~> client[c] \in {"idle", "closed", "aborted"} \/ Excused

(* The descriptor of a connection that the client has closed is given      *)
(* back, and that of one it has aborted unless a response was under way.   *)
(* (http.cpp:713-733)                                                      *)
ClosedIsReleased ==
    \A c \in Conn :
        client[c] \in {"closed", "aborted"} ~>
            client[c] = "gone" \/ Excused \/ (client[c] = "aborted" /\ swollen[c])

(* "create a seperate thread to handle the client" (http.cpp:749): no two  *)
(* threads serve one connection.                                           *)
SeparateThreads ==
    \A t, u \in Serving :
        t # u /\ On(t) # NoConn => On(t) # On(u)
=============================================================================
