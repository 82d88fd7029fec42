---------------------------- MODULE HttpExchange ----------------------------
(***************************************************************************)
(* One client and one server thread exchanging requests and responses over *)
(* one connection, byte stream by byte stream: write_request,              *)
(* read_response, send_request and their counterparts of http_server       *)
(* (http.cpp), and read_bytes, write_bytes and throw_exception             *)
(* (socket.cpp).                                                           *)
(*                                                                         *)
(* A message is counted in units: one of header, two of CRLFCRLF, so that  *)
(* it can be split, and its body.  The kernel takes some of what is sent   *)
(* and delivers what it has in chunks of any size up to Chunk, the buffer. *)
(***************************************************************************)
EXTENDS Integers, Sequences

CONSTANTS Chunk,      \* the size of the buffer that recv fills
          BodyLength, \* the length of the body of an answer
          MaxRounds,  \* bound on the requests of the client
          MaxFaults   \* bound on partial sends and on sends that fail once

ASSUME ExchangeAssumption ==
    /\ {Chunk, MaxRounds} \subseteq Nat \ {0}
    /\ {BodyLength, MaxFaults} \subseteq Nat

Side == {"client", "server"}
Other(s) == CHOOSE o \in Side : o # s

(* Messages and their units.  A message is known by the round it belongs   *)
(* to, the length of its body and whether it is an error response.         *)
Message(n, length, error) == [round |-> n, length |-> length, error |-> error]
NoMessage == Message(0, 0, FALSE)
Messages == [round : 0 .. MaxRounds, length : 0 .. BodyLength, error : BOOLEAN]
Size(m) == 3 + m.length
Units(m) == [i \in 1 .. Size(m) |-> [of |-> m, at |-> i]]
Body(m) == SubSeq(Units(m), 4, Size(m))

\* What lies in memory behind the end of a message.
Junk == [of |-> NoMessage, at |-> 0]
Unit == [of : Messages, at : 0 .. BodyLength + 3]

VARIABLES
    pc,       \* where each side is
    open,     \* whether it still has its end of the connection
    wire,     \* the units on their way to each side
    msg,      \* the message a side is sending
    to_send,  \* and how much it believes is left of it
    header,   \* what a side has read up to the end of the header
    body,     \* and after it
    len,      \* how much of the body it still waits for
    retries,  \* retry_count of send_request
    faults,   \* partial and failed sends so far
    delivered,\* history: what a side has made of the last message it read
    called,   \* history: how often the request of a round met the callback
    early,    \* history: a request was made before the server was through
              \* with the last
    spoilt    \* history: sides to which a send was partial or failed

sendVars == <<msg, to_send>>
readVars == <<header, body, len>>
vars == <<pc, open, wire, sendVars, readVars, retries, faults, delivered,
          called, early, spoilt>>

-----------------------------------------------------------------------------
(* throw_exception: the tests in their order, each by a common bit *)

Tests == <<<<9, "invalid_socket_descriptor">>, <<111, "conn_refused">>,
    <<14, "invalid_buf_addr">>, <<4, "interrupt">>, <<22, "invalid_args">>,
    <<12, "mem_alloc_failed">>, <<107, "sock_not_connected">>,
    <<88, "not_sock">>, <<104, "conn_reset">>, <<89, "no_connection_mode">>,
    <<90, "invalid_msgsize">>, <<105, "no_buf_available">>,
    <<95, "flag_not_supported">>, <<106, "is_connected">>,
    <<13, "permission">>, <<98, "address_in_use">>,
    <<99, "address_not_available">>, <<97, "address_format_unsupported">>,
    <<101, "network_unreachable">>, <<91, "protocol_unsupported">>,
    <<32, "broken_pipe">>>>

CommonBit(a, b) == \E bit \in {1, 2, 4, 8, 16, 32, 64, 128} :
                       (a \div bit) % 2 = 1 /\ (b \div bit) % 2 = 1

\* Variant: errno is compared, not tested for a common bit.
Thrown_Equal(err) ==
    LET hits == {i \in DOMAIN Tests : Tests[i][1] = err}
    IN IF hits = {} THEN "none" ELSE Tests[CHOOSE i \in hits : TRUE][2]

Thrown(err) ==
    LET hits == {i \in DOMAIN Tests : CommonBit(Tests[i][1], err)}
    IN IF hits = {} THEN "none"
       ELSE Tests[CHOOSE i \in hits : \A j \in hits : i <= j][2]

\* What recv may report of a connection that is lost: ECONNRESET, ENOTCONN.
LostConnection == {104, 107}
Retried == {"sock_not_connected", "broken_pipe", "conn_reset"}
MaxRetries == 6

-----------------------------------------------------------------------------

Init ==
    /\ pc = [s \in Side |-> IF s = "client" THEN "idle" ELSE "head"]
    /\ open = [s \in Side |-> TRUE]
    /\ wire = [s \in Side |-> <<>>]
    /\ msg = [s \in Side |-> NoMessage]
    /\ to_send = [s \in Side |-> 0]
    /\ header = [s \in Side |-> <<>>]
    /\ body = [s \in Side |-> <<>>]
    /\ len = [s \in Side |-> 0]
    /\ retries = 0
    /\ faults = 0
    /\ delivered = [s \in Side |-> [of |-> NoMessage, body |-> <<>>]]
    /\ called = [n \in 0 .. MaxRounds |-> 0]
    /\ early = FALSE
    /\ spoilt = {}

-----------------------------------------------------------------------------
(* Steps that end a part of the exchange *)

Goto(s, label) == pc' = [pc EXCEPT ![s] = label]

\* Variant: what was read of the last header stays.
ForgetRead_KeepsHeader(s) == /\ body' = [body EXCEPT ![s] = <<>>]
                             /\ len' = [len EXCEPT ![s] = 0]
                             /\ UNCHANGED header

ForgetRead(s) == /\ header' = [header EXCEPT ![s] = <<>>]
                 /\ body' = [body EXCEPT ![s] = <<>>]
                 /\ len' = [len EXCEPT ![s] = 0]

StartSend(s, m) == /\ msg' = [msg EXCEPT ![s] = m]
                   /\ to_send' = [to_send EXCEPT ![s] = Size(m)]
                   /\ Goto(s, "send")

(* The client's send_request ends in an exception and its socket is closed *)
(* with its owner; the server thread leaves its loop and closes.           *)
Stop(s, label) == /\ Goto(s, label)
                  /\ open' = [open EXCEPT ![s] = FALSE]
                  /\ ForgetRead(s)
                  /\ UNCHANGED <<sendVars, delivered, called>>

(* A message is read: the server thread calls the callback and goes on to  *)
(* send what it returns, send_request returns to its caller.               *)
Complete(s, of, b) ==
    /\ delivered' = [delivered EXCEPT ![s] = [of |-> of, body |-> b]]
    /\ ForgetRead(s)
    /\ IF s = "server"
       THEN /\ called' = [called EXCEPT ![of.round] = @ + 1]
            /\ \E length \in {0, BodyLength} :
                  StartSend(s, Message(of.round, length, FALSE))
       ELSE Goto(s, "idle") /\ UNCHANGED <<sendVars, called>>
    /\ UNCHANGED open

-----------------------------------------------------------------------------
(* Reading *)

\* Where CRLFCRLF begins in a sequence of units.
Ends(units) == {i \in 1 .. Len(units) - 1 : units[i].at = 2 /\ units[i + 1].at = 3}
FirstEnd(units) == CHOOSE i \in Ends(units) : \A j \in Ends(units) : i <= j

Parsed(kind, length) == [kind |-> kind, length |-> length]

\* Variant: Content-Length is not looked at.
Parses_LengthIgnored(h) ==
    IF Ends(h) = {} THEN {Parsed("crash", 0)} ELSE {Parsed("length", 0)}

(* What deserialize and get_header make of a header.  One without an end   *)
(* has no first line, and looking at it ends the process, unless it is so  *)
(* short that substr throws first.  One that is not as it was sent may be  *)
(* taken for anything, stol failing at its Content-Length included.        *)
Parses(h) ==
    IF Ends(h) = {}
    THEN {Parsed("crash", 0)} \cup (IF Len(h) < 3 THEN {Parsed("malformed", 0)} ELSE {})
    ELSE LET head == SubSeq(h, 1, FirstEnd(h) - 1)
             m == h[FirstEnd(h)].of
         IN IF head = <<[of |-> m, at |-> 1]>> THEN {Parsed("length", m.length)}
            ELSE {Parsed(kind, 0) : kind \in {"crash", "malformed", "none", "no number"}}
                 \cup {Parsed("length", n) : n \in 0 .. BodyLength}

\* The message whose end a header has.
HeaderOf(h) == IF Ends(h) = {} THEN NoMessage ELSE h[FirstEnd(h)].of

(* The header is h, and b of the body came with it.  A response without    *)
(* Content-Length counts as one of length 0; for a request that is the     *)
(* error 411, and a malformed one is the error 400.  The exception of stol *)
(* ends the server's loop and the client's send_request.                   *)
HeaderDone(s, h, b) ==
    \E p \in Parses(h) :
        \/ /\ p.kind = "crash"
           /\ Stop(s, "crashed")
        \/ /\ p.kind = "no number" \/ (p.kind = "malformed" /\ s = "client")
           /\ Stop(s, "ended")
        \/ /\ p.kind \in {"malformed", "none"} /\ s = "server"
           /\ StartSend(s, Message(HeaderOf(h).round, 0, TRUE))
           /\ ForgetRead(s)
           /\ UNCHANGED <<open, delivered, called>>
        \/ /\ p.kind = "length" \/ (p.kind = "none" /\ s = "client")
           /\ IF p.length <= Len(b) THEN Complete(s, HeaderOf(h), b)
              ELSE /\ header' = [header EXCEPT ![s] = h]
                   /\ body' = [body EXCEPT ![s] = b]
                   /\ len' = [len EXCEPT ![s] = p.length - Len(b)]
                   /\ Goto(s, "body")
                   /\ UNCHANGED <<open, sendVars, delivered, called>>

\* recv returns the next k units.
Receive(s, k) == /\ k \in 1 .. Chunk /\ k <= Len(wire[s])
                 /\ wire' = [wire EXCEPT ![s] = SubSeq(@, k + 1, Len(@))]

\* The end of the header is looked for in the new chunk only.
ReadHead(s, k) ==
    /\ pc[s] = "head"
    /\ Receive(s, k)
    /\ LET chunk == SubSeq(wire[s], 1, k)
           i == FirstEnd(chunk)
       IN IF Ends(chunk) = {}
          THEN /\ header' = [header EXCEPT ![s] = @ \o chunk]
               /\ UNCHANGED <<pc, open, sendVars, body, len, delivered, called>>
          ELSE HeaderDone(s, header[s] \o SubSeq(chunk, 1, i + 1),
                          SubSeq(chunk, i + 2, k))
    /\ UNCHANGED <<retries, faults, early, spoilt>>

\* Variant: the loop ends only when exactly 0 is left.
ReadBody_UntilZero(s, k) ==
    /\ pc[s] = "body"
    /\ Receive(s, k)
    /\ LET b == body[s] \o SubSeq(wire[s], 1, k) IN
       IF k = len[s] THEN Complete(s, header[s][FirstEnd(header[s])].of, b)
       ELSE /\ body' = [body EXCEPT ![s] = b]
            /\ len' = [len EXCEPT ![s] = @ - k]
            /\ UNCHANGED <<pc, open, sendVars, header, delivered, called>>
    /\ UNCHANGED <<retries, faults, early, spoilt>>

ReadBody(s, k) ==
    /\ pc[s] = "body"
    /\ Receive(s, k)
    /\ LET b == body[s] \o SubSeq(wire[s], 1, k) IN
       IF k >= len[s] THEN Complete(s, header[s][FirstEnd(header[s])].of, b)
       ELSE /\ body' = [body EXCEPT ![s] = b]
            /\ len' = [len EXCEPT ![s] = @ - k]
            /\ UNCHANGED <<pc, open, sendVars, header, delivered, called>>
    /\ UNCHANGED <<retries, faults, early, spoilt>>

\* Variant: a connection closed before any header is not told apart.
ReadEnd_NoCheck(s) ==
    /\ pc[s] \in {"head", "body"} /\ wire[s] = <<>> /\ ~open[Other(s)]
    /\ IF pc[s] = "body"
       THEN Goto(s, "stuck") /\ UNCHANGED <<open, sendVars, readVars, delivered, called>>
       ELSE HeaderDone(s, header[s], <<>>)
    /\ UNCHANGED <<wire, retries, faults, early, spoilt>>

(* The other side has closed: recv returns 0.  Before a header that is the *)
(* exception remote_end_closed, within one the loop ends as if it were     *)
(* complete, and within a body the loop goes on for ever.                  *)
ReadEnd(s) ==
    /\ pc[s] \in {"head", "body"} /\ wire[s] = <<>> /\ ~open[Other(s)]
    /\ CASE pc[s] = "body" ->
             Goto(s, "stuck") /\ UNCHANGED <<open, sendVars, readVars, delivered, called>>
         [] pc[s] = "head" /\ header[s] = <<>> -> Stop(s, "ended")
         [] pc[s] = "head" /\ header[s] # <<>> -> HeaderDone(s, header[s], <<>>)
    /\ UNCHANGED <<wire, retries, faults, early, spoilt>>

\* Variant: after a time-out the loop polls again.
TimeOut_PollsAgain(s) ==
    /\ pc[s] \in {"head", "body"} /\ wire[s] = <<>> /\ open[Other(s)]
    /\ UNCHANGED vars

\* poll reaches its time-out.
TimeOut(s) ==
    /\ pc[s] \in {"head", "body"} /\ wire[s] = <<>> /\ open[Other(s)]
    /\ Stop(s, "ended")
    /\ UNCHANGED <<wire, retries, faults, early, spoilt>>

(* send_request connects again and sends the request again.                *)
Reconnect ==
    /\ retries' = retries + 1
    /\ wire' = [s \in Side |-> <<>>]
    /\ open' = [s \in Side |-> TRUE]
    /\ pc' = [client |-> "send", server |-> "head"]
    /\ to_send' = [to_send EXCEPT !["client"] = Size(msg["client"])]
    /\ header' = [s \in Side |-> <<>>]
    /\ body' = [s \in Side |-> <<>>]
    /\ len' = [s \in Side |-> 0]
    /\ UNCHANGED <<msg, delivered, called>>

(* The other side has reset the connection: recv fails, what was on its    *)
(* way is lost, and send_request catches three of the exceptions.          *)
ReadFails(s, err) ==
    /\ pc[s] \in {"head", "body"} /\ ~open[Other(s)]
    /\ IF s = "client" /\ Thrown(err) \in Retried /\ retries < MaxRetries
       THEN Reconnect
       ELSE /\ Stop(s, "ended")
            /\ wire' = [wire EXCEPT ![s] = <<>>]
            /\ UNCHANGED retries
    /\ UNCHANGED <<faults, early, spoilt>>

-----------------------------------------------------------------------------
(* Sending *)

\* The server waits for a request of which nothing has come yet, or is gone.
Through == pc["server"] \notin {"body", "send"} /\ header["server"] = <<>> /\ wire["server"] = <<>>

ClientRequest(length) ==
    /\ pc["client"] = "idle" /\ msg["client"].round < MaxRounds
    /\ StartSend("client", Message(msg["client"].round + 1, length, FALSE))
    /\ retries' = 0
    /\ early' = (early \/ ~Through)
    /\ UNCHANGED <<open, wire, readVars, faults, delivered, called, spoilt>>

\* send is given the start of the data every time, and a length.
Outgoing(m, k) == [i \in 1 .. k |-> IF i <= Size(m) THEN Units(m)[i] ELSE Junk]

(* The kernel takes k units; if it takes all, the sender goes on to read.  *)
(* It may still take what is for a side that is gone.                      *)
SendSome(s, k) ==
    /\ pc[s] = "send" /\ k <= to_send[s]
    /\ LET partial == k < to_send[s] IN
        /\ partial => faults < MaxFaults
        /\ faults' = faults + (IF partial THEN 1 ELSE 0)
        /\ spoilt' = spoilt \cup (IF partial THEN {Other(s)} ELSE {})
        /\ IF partial THEN UNCHANGED pc ELSE Goto(s, "head")
    /\ to_send' = [to_send EXCEPT ![s] = @ - k]
    /\ wire' = IF open[Other(s)]
               THEN [wire EXCEPT ![Other(s)] = @ \o Outgoing(msg[s], k)]
               ELSE wire
    /\ UNCHANGED <<open, msg, readVars, retries, delivered, called, early>>

(* send fails: write_bytes swallows that and returns -1, so to_send grows. *)
(* When the other side is gone it fails every time.                        *)
SendFails(s) ==
    /\ pc[s] = "send"
    /\ IF open[Other(s)]
       THEN /\ faults < MaxFaults
            /\ faults' = faults + 1
            /\ spoilt' = spoilt \cup {Other(s)}
            /\ to_send' = [to_send EXCEPT ![s] = @ + 1]
            /\ UNCHANGED pc
       ELSE /\ Goto(s, "stuck")
            /\ UNCHANGED <<faults, spoilt, to_send>>
    /\ UNCHANGED <<open, wire, msg, readVars, retries, delivered, called, early>>

\* A side is killed, or a client disconnects: its end of the connection closes.
Leave(s) ==
    /\ open[s]
    /\ Stop(s, "ended")
    /\ UNCHANGED <<wire, retries, faults, early, spoilt>>

Reads(s) == \/ \E k \in 1 .. Chunk : ReadHead(s, k) \/ ReadBody(s, k)
            \/ ReadEnd(s)
            \/ TimeOut(s)
            \/ \E err \in LostConnection : ReadFails(s, err)
Sends(s) == (\E k \in 1 .. BodyLength + 3 + MaxFaults : SendSome(s, k)) \/ SendFails(s)

Next == \/ \E s \in Side : Reads(s) \/ Sends(s) \/ Leave(s)
        \/ \E length \in {0, BodyLength} : ClientRequest(length)

(* Each side goes on while it can; poll comes back within its time-out.    *)
Fairness == \A s \in Side : WF_vars(Reads(s)) /\ WF_vars(Sends(s))

Spec == Init /\ [][Next]_vars /\ Fairness

-----------------------------------------------------------------------------
(* Properties *)

(* Every variable keeps its type.  (http.cpp:480-686) *)
TypeOK ==
    /\ pc \in [Side -> {"idle", "send", "head", "body", "stuck", "ended", "crashed"}]
    /\ open \in [Side -> BOOLEAN]
    /\ msg \in [Side -> Messages]
    /\ to_send \in [Side -> 0 .. BodyLength + 3 + MaxFaults]
    /\ len \in [Side -> 0 .. BodyLength]
    /\ retries \in 0 .. MaxRetries
    /\ faults \in 0 .. MaxFaults
    /\ called \in [0 .. MaxRounds -> Nat]
    /\ early \in BOOLEAN
    /\ spoilt \subseteq Side
    /\ {wire, header, body} \subseteq [Side -> Seq(Unit)]
    /\ delivered \in [Side -> [of : Messages, body : Seq(Unit)]]

(* A response is disturbed by faults of either direction: a spoilt request *)
(* may be handled as two.  A request is disturbed by those of its own, and *)
(* by a response so spoilt that the client takes parts of it for the       *)
(* answers to several requests, which it then makes too early.             *)
Undisturbed(s) == IF s = "server" THEN s \notin spoilt /\ ~early ELSE spoilt = {}

(* Unless a partial or failed send has disturbed it, a message is          *)
(* delivered with exactly the body it was sent with, and a response is     *)
(* that to the request the client waits for, however the stream was cut    *)
(* into chunks and whoever left.  (http.cpp:480-532, 622-675)              *)
Faithful ==
    \A s \in Side :
        LET d == delivered[s] IN
        Undisturbed(s) /\ d.of # NoMessage =>
            /\ d.body = Body(d.of)
            /\ s = "client" /\ pc[s] = "idle" => d.of.round = msg[s].round

(* Between exchanges nothing is left of the last one: no units on the way, *)
(* nothing read of a next message.  The next header is read from its start *)
(* only because of this.  (http.cpp:502, 646)                              *)
InStep ==
    pc["client"] = "idle" /\ spoilt = {} =>
        \A s \in Side : wire[s] = <<>> /\ header[s] = <<>> /\ body[s] = <<>>

(* No side crashes over a header unless a send has disturbed it.           *)
(* (http.cpp:200-217, 388-411)                                             *)
CrashOnlyIfDisturbed == \A s \in Side : pc[s] = "crashed" => ~Undisturbed(s)

(* No request meets the callback twice while requests are not spoilt: a    *)
(* request that may have been handled is not sent again, whatever the loss *)
(* of the connection looks like.  (http.cpp:571-599, socket.cpp:175-219)   *)
AtMostOnce == "server" \notin spoilt => \A n \in DOMAIN called : called[n] <= 1

(* send_request returns or throws, whatever was spoilt, unless the server  *)
(* went away in the middle.  (http.cpp:571, socket.cpp:268)                *)
ExchangeEnds ==
    pc["client"] = "send" ~>
        pc["client"] \in {"idle", "ended", "crashed"} \/ ~open["server"]
=============================================================================
