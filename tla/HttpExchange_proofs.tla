------------------------ MODULE HttpExchange_proofs ------------------------
(***************************************************************************)
(* Proofs about HttpExchange for any buffer, any length of a body and any  *)
(* number of requests and faults: its type invariant, that a lost          *)
(* connection is never retried, and that no request is handled twice.      *)
(***************************************************************************)
EXTENDS HttpExchange, SequenceTheorems, WellFoundedInduction, TLAPS

-----------------------------------------------------------------------------
(* Sides, units, and where a header ends *)

LEMMA Sides ==
    /\ Side = {"client", "server"}
    /\ Other("client") = "server" /\ Other("server") = "client"
    /\ \A s \in Side : Other(s) \in Side /\ Other(s) # s
BY DEF Side, Other

LEMMA SizeOfMessage ==
    ASSUME NEW m \in Messages
    PROVE  /\ Size(m) \in 3 .. BodyLength + 3 /\ Size(m) = 3 + m.length
           /\ m.round \in 0 .. MaxRounds /\ m.length \in 0 .. BodyLength
           /\ BodyLength \in Nat
BY ExchangeAssumption DEF Messages, Size

LEMMA MessageType ==
    ASSUME NEW n \in 0 .. MaxRounds, NEW length \in 0 .. BodyLength, NEW error \in BOOLEAN
    PROVE  /\ Message(n, length, error) \in Messages
           /\ Message(n, length, error).round = n /\ Message(n, length, error).length = length
BY DEF Message, Messages

LEMMA NoMessageType == NoMessage \in Messages
BY ExchangeAssumption DEF NoMessage, Message, Messages

LEMMA UnitType ==
    ASSUME NEW m \in Messages, NEW i \in 0 .. BodyLength + 3
    PROVE  [of |-> m, at |-> i] \in Unit
BY DEF Unit

\* A function over the first numbers is a sequence.
LEMMA SeqOfUnits ==
    ASSUME NEW n \in Nat, NEW f \in [1 .. n -> Unit]
    PROVE  f \in Seq(Unit) /\ Len(f) = n
<1>1. f \in Seq(Unit)
  BY SeqDef
<1>2. Len(f) \in Nat /\ DOMAIN f = 1 .. Len(f)
  BY <1>1, LenProperties
<1> QED
  BY <1>1, <1>2

LEMMA OutgoingType ==
    ASSUME NEW m \in Messages, NEW k \in Nat
    PROVE  Outgoing(m, k) \in Seq(Unit) /\ Len(Outgoing(m, k)) = k
<1>1. ASSUME NEW i \in 1 .. k
      PROVE  (IF i <= Size(m) THEN Units(m)[i] ELSE Junk) \in Unit
  <2>1. CASE i <= Size(m)
    <3>1. Units(m)[i] = [of |-> m, at |-> i] /\ i \in 0 .. BodyLength + 3
      BY <2>1, SizeOfMessage DEF Units
    <3> QED
      BY <2>1, <3>1, UnitType
  <2>2. CASE ~(i <= Size(m))
    <3>1. Junk \in Unit
      BY NoMessageType, ExchangeAssumption DEF Junk, Unit
    <3> QED
      BY <2>2, <3>1
  <2> QED
    BY <2>1, <2>2
<1>2. Outgoing(m, k) \in [1 .. k -> Unit]
  BY <1>1 DEF Outgoing
<1> QED
  BY <1>2, SeqOfUnits

LEMMA FirstEndIsLeast ==
    ASSUME NEW units, Len(units) \in Nat, Ends(units) # {}
    PROVE  /\ FirstEnd(units) \in Ends(units)
           /\ \A j \in Ends(units) : FirstEnd(units) <= j
           /\ FirstEnd(units) \in 1 .. Len(units) - 1
<1>1. Ends(units) \subseteq Nat
  BY DEF Ends
<1>2. PICK x \in Ends(units) : \A y \in Ends(units) : <<y, x>> \notin OpToRel(<, Nat)
  BY <1>1, NatLessThanWellFounded, WFMin, Zenon
<1>3. ASSUME NEW y \in Ends(units) PROVE x <= y
  <2>1. x \in Nat /\ y \in Nat /\ <<y, x>> \notin OpToRel(<, Nat)
    BY <1>1, <1>2
  <2> QED
    BY <2>1 DEF OpToRel
<1>4. FirstEnd(units) \in Ends(units) /\ \A j \in Ends(units) : FirstEnd(units) <= j
  BY <1>3 DEF FirstEnd
<1> QED
  BY <1>4 DEF Ends

LEMMA Cut ==
    ASSUME NEW units \in Seq(Unit), NEW a \in Nat \ {0}, NEW b \in Nat, b <= Len(units)
    PROVE  /\ SubSeq(units, a, b) \in Seq(Unit)
           /\ Len(SubSeq(units, a, b)) = IF a <= b THEN b - a + 1 ELSE 0
           /\ \A i \in 1 .. b - a + 1 : SubSeq(units, a, b)[i] = units[a + i - 1]
<1>1. Len(units) \in Nat /\ \A i \in a .. b : units[i] \in Unit
  BY LenProperties, ElementOfSeq
<1> QED
  BY <1>1, SubSeqProperties

-----------------------------------------------------------------------------
(* What throw_exception makes of a lost connection *)

\* A lost connection is never one of the exceptions after which send_request
\* sends again.  ECONNRESET and ENOTCONN both have the bit 8 in common with
\* EBADF, which throw_exception tests first, so that they are reported as an
\* invalid descriptor.  (socket.cpp:175-219, http.cpp:571-599)
THEOREM NeverRetried == \A err \in LostConnection : Thrown(err) \notin Retried
<1> TAKE err \in LostConnection
<1>1. Tests[1] = <<9, "invalid_socket_descriptor">> /\ 1 \in DOMAIN Tests
  BY DEF Tests
<1>2. CommonBit(9, err)
  <2>1. (9 \div 8) % 2 = 1 /\ (err \div 8) % 2 = 1
    BY DEF LostConnection
  <2> QED
    BY <2>1 DEF CommonBit
<1> DEFINE hits == {i \in DOMAIN Tests : CommonBit(Tests[i][1], err)}
<1>3. 1 \in hits /\ \A j \in hits : 1 <= j
  <2>1. DOMAIN Tests = 1 .. 21
    BY DEF Tests
  <2> QED
    BY <1>1, <1>2, <2>1
<1>4. (CHOOSE i \in hits : \A j \in hits : i <= j) = 1
  <2>1. \A i \in hits : i \in Nat
    BY DEF Tests
  <2> HIDE DEF hits
  <2> QED
    BY <1>3, <2>1
<1>5. Thrown(err) = "invalid_socket_descriptor"
  <2>1. Thrown(err) = IF hits = {} THEN "none"
                      ELSE Tests[CHOOSE i \in hits : \A j \in hits : i <= j][2]
    BY DEF Thrown
  <2>2. Thrown(err) = Tests[1][2]
    BY <1>3, <1>4, <2>1, Zenon
  <2> QED
    BY <1>1, <2>2
<1> QED
  BY <1>5 DEF Retried

-----------------------------------------------------------------------------
(* TypeInv is inductive *)

\* What a side has read, by where it is; what is left to send never exceeds
\* the message by more than the failures.
ReadInv ==
    \A s \in Side :
        /\ pc[s] \in {"idle", "send", "ended", "crashed"} => header[s] = <<>> /\ body[s] = <<>>
        /\ pc[s] = "head" => body[s] = <<>>
        /\ pc[s] = "body" => Ends(header[s]) # {}
        /\ pc[s] \in {"idle", "send", "head", "body"} => open[s]
        /\ to_send[s] <= Size(msg[s]) + faults

TypeInv == TypeOK /\ ReadInv

LEMMA StopType ==
    ASSUME TypeInv, NEW s \in Side, NEW label \in {"ended", "crashed"}, Stop(s, label),
           wire' \in [Side -> Seq(Unit)], retries' \in 0 .. MaxRetries,
           UNCHANGED <<faults, early, spoilt>>
    PROVE  TypeInv'
<1>1. <<>> \in Seq(Unit) /\ 0 \in 0 .. BodyLength
  BY EmptySeq, ExchangeAssumption
<1>2. TypeOK'
  BY <1>1 DEF TypeInv, TypeOK, Stop, Goto, ForgetRead, sendVars
<1>3. ReadInv'
  BY <1>1 DEF TypeInv, TypeOK, ReadInv, Stop, Goto, ForgetRead, sendVars
<1> QED
  BY <1>2, <1>3 DEF TypeInv

LEMMA StartSendType ==
    ASSUME TypeInv, NEW s \in Side, NEW m \in Messages, StartSend(s, m), ForgetRead(s), open[s],
           wire' \in [Side -> Seq(Unit)], retries' \in 0 .. MaxRetries,
           delivered' \in [Side -> [of : Messages, body : Seq(Unit)]],
           called' \in [0 .. MaxRounds -> Nat], early' \in BOOLEAN,
           UNCHANGED <<open, faults, spoilt>>
    PROVE  TypeInv'
<1>1. <<>> \in Seq(Unit) /\ 0 \in 0 .. BodyLength
  BY EmptySeq, ExchangeAssumption
<1>2. Size(m) \in 0 .. BodyLength + 3 + MaxFaults /\ Size(m) <= Size(m) + faults
  <2>1. BodyLength \in Nat /\ MaxFaults \in Nat
    BY ExchangeAssumption
  <2>2. Size(m) \in 3 .. BodyLength + 3
    BY SizeOfMessage
  <2>3. faults \in 0 .. MaxFaults
    BY DEF TypeInv, TypeOK
  <2> QED
    BY <2>1, <2>2, <2>3
<1>3. TypeOK'
  BY <1>1, <1>2, ZenonT(40) DEF TypeInv, TypeOK, StartSend, Goto, ForgetRead
<1>4. ReadInv'
  BY <1>1, <1>2 DEF TypeInv, TypeOK, ReadInv, StartSend, Goto, ForgetRead
<1> QED
  BY <1>3, <1>4 DEF TypeInv

LEMMA CompleteType ==
    ASSUME TypeInv, NEW s \in Side, NEW of \in Messages, NEW b \in Seq(Unit),
           Complete(s, of, b), open[s],
           wire' \in [Side -> Seq(Unit)], UNCHANGED <<retries, faults, early, spoilt>>
    PROVE  TypeInv'
<1>1. <<>> \in Seq(Unit) /\ 0 \in 0 .. BodyLength
  BY EmptySeq, ExchangeAssumption
<1>2. delivered' \in [Side -> [of : Messages, body : Seq(Unit)]] /\ ForgetRead(s) /\ open' = open
  BY DEF TypeInv, TypeOK, Complete
<1>3. CASE s = "server"
  <2>1. PICK length \in {0, BodyLength} : StartSend(s, Message(of.round, length, FALSE))
    BY <1>3 DEF Complete
  <2>2. Message(of.round, length, FALSE) \in Messages
    <3>1. BodyLength \in Nat /\ of.round \in 0 .. MaxRounds
      BY SizeOfMessage
    <3>2. length \in 0 .. BodyLength /\ FALSE \in BOOLEAN
      BY <3>1
    <3> QED
      BY <3>1, <3>2, MessageType
  <2>3. called' \in [0 .. MaxRounds -> Nat]
    <3>1. of.round \in 0 .. MaxRounds
      BY SizeOfMessage
    <3>2. called' = [called EXCEPT ![of.round] = @ + 1]
      BY <1>3 DEF Complete
    <3> QED
      BY <3>1, <3>2 DEF TypeInv, TypeOK
  <2>4. retries' \in 0 .. MaxRetries /\ early' \in BOOLEAN
    BY DEF TypeInv, TypeOK
  <2> QED
    BY <1>2, <2>1, <2>2, <2>3, <2>4, StartSendType
<1>4. CASE s # "server"
  <2>1. Goto(s, "idle") /\ UNCHANGED <<sendVars, called>>
    BY <1>4 DEF Complete
  <2>2. TypeOK'
    BY <1>1, <1>2, <2>1 DEF TypeInv, TypeOK, Goto, ForgetRead, sendVars
  <2>3. ReadInv'
    BY <1>1, <1>2, <2>1 DEF TypeInv, TypeOK, ReadInv, Goto, ForgetRead, sendVars
  <2> QED
    BY <2>2, <2>3 DEF TypeInv
<1> QED
  BY <1>3, <1>4

\* What a header may be taken for.
LEMMA ParsesType ==
    ASSUME NEW h \in Seq(Unit), NEW p \in Parses(h)
    PROVE  /\ p.kind \in {"crash", "malformed", "none", "no number", "length"}
           /\ p.length \in 0 .. BodyLength
           /\ p.kind \notin {"crash", "malformed"} => Ends(h) # {}
<1>1. 0 \in 0 .. BodyLength
  BY ExchangeAssumption
<1>a. ASSUME NEW kind, NEW n, p = Parsed(kind, n) PROVE p.kind = kind /\ p.length = n
  BY <1>a DEF Parsed
<1>2. CASE Ends(h) = {}
  <2>1. p = Parsed("crash", 0) \/ p = Parsed("malformed", 0)
    BY <1>2 DEF Parses
  <2> QED
    BY <1>1, <1>a, <2>1
<1>3. CASE Ends(h) # {}
  <2>1. h[FirstEnd(h)].of \in Messages
    <3>1. FirstEnd(h) \in 1 .. Len(h)
      BY <1>3, FirstEndIsLeast, LenProperties
    <3>2. h[FirstEnd(h)] \in Unit
      BY <3>1, ElementOfSeq
    <3> QED
      BY <3>2 DEF Unit
  <2>2. \/ p = Parsed("length", h[FirstEnd(h)].of.length)
        \/ \E kind \in {"crash", "malformed", "none", "no number"} : p = Parsed(kind, 0)
        \/ \E n \in 0 .. BodyLength : p = Parsed("length", n)
    BY <1>3 DEF Parses
  <2> QED
    BY <1>1, <1>a, <1>3, <2>1, <2>2, SizeOfMessage
<1> QED
  BY <1>2, <1>3

LEMMA EndOf ==
    ASSUME NEW h \in Seq(Unit), Ends(h) # {}
    PROVE  h[FirstEnd(h)].of \in Messages
<1>1. FirstEnd(h) \in 1 .. Len(h)
  BY FirstEndIsLeast, LenProperties
<1>2. h[FirstEnd(h)] \in Unit
  BY <1>1, ElementOfSeq
<1> QED
  BY <1>2 DEF Unit

\* Waiting for the rest of a body.
AwaitBody(s, h, b, length) ==
    /\ header' = [header EXCEPT ![s] = h]
    /\ body' = [body EXCEPT ![s] = b]
    /\ len' = [len EXCEPT ![s] = length - Len(b)]
    /\ Goto(s, "body")
    /\ UNCHANGED <<open, sendVars, delivered, called>>

\* The outcomes of a header one by one.
LEMMA HeaderOutcome ==
    ASSUME NEW s \in Side, NEW h \in Seq(Unit), NEW b, HeaderDone(s, h, b)
    PROVE  \/ /\ \E label \in {"ended", "crashed"} : Stop(s, label)
              /\ \E p \in Parses(h) : p.kind # "length"
           \/ /\ s = "server"
              /\ \E p \in Parses(h) : p.kind # "length"
              /\ StartSend(s, Message(HeaderOf(h).round, 0, TRUE))
              /\ ForgetRead(s)
              /\ UNCHANGED <<open, delivered, called>>
           \/ \E p \in Parses(h) :
                 /\ Ends(h) # {} /\ p.kind # "crash"
                 /\ IF p.length <= Len(b) THEN Complete(s, h[FirstEnd(h)].of, b)
                    ELSE AwaitBody(s, h, b, p.length)
<1> PICK p \in Parses(h) :
        \/ /\ p.kind = "crash"
           /\ Stop(s, "crashed")
        \/ /\ p.kind = "no number" \/ (p.kind = "malformed" /\ s = "client")
           /\ Stop(s, "ended")
        \/ /\ p.kind \in {"malformed", "none"} /\ s = "server"
           /\ StartSend(s, Message(HeaderOf(h).round, 0, TRUE))
           /\ ForgetRead(s)
           /\ UNCHANGED <<open, delivered, called>>
        \/ /\ p.kind = "length" \/ (p.kind = "none" /\ s = "client")
           /\ IF p.length <= Len(b) THEN Complete(s, HeaderOf(h), b)
              ELSE /\ header' = [header EXCEPT ![s] = h]
                   /\ body' = [body EXCEPT ![s] = b]
                   /\ len' = [len EXCEPT ![s] = p.length - Len(b)]
                   /\ Goto(s, "body")
                   /\ UNCHANGED <<open, sendVars, delivered, called>>
  BY DEF HeaderDone
<1>1. p.kind \notin {"crash", "malformed"} => Ends(h) # {} /\ HeaderOf(h) = h[FirstEnd(h)].of
  BY ParsesType DEF HeaderOf
<1> QED
  BY <1>1 DEF AwaitBody

LEMMA HeaderType ==
    ASSUME TypeInv, NEW s \in Side, pc[s] = "head",
           NEW h \in Seq(Unit), NEW b \in Seq(Unit), HeaderDone(s, h, b),
           wire' \in [Side -> Seq(Unit)], UNCHANGED <<retries, faults, early, spoilt>>
    PROVE  TypeInv'
<1>a. open[s]
  BY DEF TypeInv, ReadInv
<1>1. CASE \E label \in {"ended", "crashed"} : Stop(s, label)
  BY <1>1, StopType DEF TypeInv, TypeOK
<1>2. ASSUME s = "server",
             StartSend(s, Message(HeaderOf(h).round, 0, TRUE)), ForgetRead(s),
             UNCHANGED <<open, delivered, called>>
      PROVE  TypeInv'
  <2>1. Message(HeaderOf(h).round, 0, TRUE) \in Messages
    <3>1. /\ HeaderOf(h).round \in 0 .. MaxRounds
          /\ 0 \in 0 .. BodyLength /\ TRUE \in BOOLEAN
      BY EndOf, SizeOfMessage, ExchangeAssumption DEF HeaderOf, NoMessage, Message
    <3> QED
      BY <3>1, MessageType
  <2>2. /\ delivered' \in [Side -> [of : Messages, body : Seq(Unit)]]
        /\ called' \in [0 .. MaxRounds -> Nat] /\ early' \in BOOLEAN
        /\ retries' \in 0 .. MaxRetries
    BY <1>2 DEF TypeInv, TypeOK
  <2> QED
    BY <1>a, <1>2, <2>1, <2>2, StartSendType
<1>3. ASSUME Ends(h) # {}, Complete(s, h[FirstEnd(h)].of, b) PROVE TypeInv'
  BY <1>a, <1>3, EndOf, CompleteType
<1>4. ASSUME Ends(h) # {}, NEW length \in 0 .. BodyLength, ~(length <= Len(b)),
             AwaitBody(s, h, b, length)
      PROVE  TypeInv'
  <2>1. length - Len(b) \in 0 .. BodyLength
    BY <1>4, LenProperties, ExchangeAssumption
  <2>2. TypeOK'
    BY <1>4, <2>1 DEF TypeInv, TypeOK, AwaitBody, Goto, sendVars
  <2>3. ReadInv'
    BY <1>a, <1>4 DEF TypeInv, TypeOK, ReadInv, AwaitBody, Goto, sendVars
  <2> QED
    BY <2>2, <2>3 DEF TypeInv
<1> QED
  BY <1>1, <1>2, <1>3, <1>4, HeaderOutcome, ParsesType

LEMMA InitTypeInv == Init => TypeInv
<1> SUFFICES ASSUME Init PROVE TypeInv
  OBVIOUS
<1>1. <<>> \in Seq(Unit) /\ NoMessage \in Messages /\ Size(NoMessage) \in Nat
  BY EmptySeq, NoMessageType, SizeOfMessage
<1>2. /\ 0 \in 0 .. BodyLength /\ 0 \in 0 .. MaxFaults /\ 0 \in 0 .. BodyLength + 3 + MaxFaults
      /\ 0 \in 0 .. MaxRetries
  BY ExchangeAssumption DEF MaxRetries
<1>3. TypeOK
  BY <1>1, <1>2 DEF Init, TypeOK
<1>4. ReadInv
  BY <1>1, Sides DEF Init, ReadInv
<1> QED
  BY <1>3, <1>4 DEF TypeInv

LEMMA ReadsType == ASSUME TypeInv, NEW s \in Side, Reads(s) PROVE TypeInv'
<1>a. /\ wire \in [Side -> Seq(Unit)] /\ header \in [Side -> Seq(Unit)]
      /\ body \in [Side -> Seq(Unit)] /\ len \in [Side -> 0 .. BodyLength]
      /\ <<>> \in Seq(Unit) /\ retries \in 0 .. MaxRetries
  BY EmptySeq DEF TypeInv, TypeOK
<1>b. ASSUME NEW k, Receive(s, k)
      PROVE  /\ k \in Nat \ {0} /\ k <= Len(wire[s])
             /\ wire' \in [Side -> Seq(Unit)]
             /\ \A i \in Nat \ {0} : \A j \in 0 .. k : SubSeq(wire[s], i, j) \in Seq(Unit)
  <2>1. k \in Nat \ {0} /\ k <= Len(wire[s]) /\ Len(wire[s]) \in Nat
    BY <1>a, <1>b, ExchangeAssumption, LenProperties DEF Receive
  <2>2. SubSeq(wire[s], k + 1, Len(wire[s])) \in Seq(Unit)
    BY <1>a, <2>1, Cut
  <2>3. wire' \in [Side -> Seq(Unit)]
    BY <1>a, <1>b, <2>2 DEF Receive
  <2>4. \A i \in Nat \ {0} : \A j \in 0 .. k : SubSeq(wire[s], i, j) \in Seq(Unit)
    BY <1>a, <2>1, Cut
  <2> QED
    BY <2>1, <2>3, <2>4
<1>1. ASSUME NEW k \in 1 .. Chunk, ReadHead(s, k) PROVE TypeInv'
  <2> DEFINE chunk == SubSeq(wire[s], 1, k)
  <2>1. Receive(s, k) /\ pc[s] = "head" /\ UNCHANGED <<retries, faults, early, spoilt>>
    BY <1>1 DEF ReadHead
  <2>2. chunk \in Seq(Unit) /\ Len(chunk) = k /\ wire' \in [Side -> Seq(Unit)]
    BY <1>a, <1>b, <2>1, Cut
  <2>3. CASE Ends(chunk) = {}
    <3>1. /\ header' = [header EXCEPT ![s] = @ \o chunk]
          /\ UNCHANGED <<pc, open, sendVars, body, len, delivered, called>>
      BY <1>1, <2>3 DEF ReadHead
    <3>2. header[s] \o chunk \in Seq(Unit)
      BY <1>a, <2>2, ConcatProperties
    <3>3. TypeOK'
      BY <2>1, <2>2, <3>1, <3>2, SMTT(20) DEF TypeInv, TypeOK, sendVars
    <3>4. ReadInv'
      BY <2>1, <3>1 DEF TypeInv, TypeOK, ReadInv, sendVars
    <3> QED
      BY <3>3, <3>4 DEF TypeInv
  <2>4. CASE Ends(chunk) # {}
    <3> DEFINE i == FirstEnd(chunk)
    <3>1. HeaderDone(s, header[s] \o SubSeq(chunk, 1, i + 1), SubSeq(chunk, i + 2, k))
      BY <1>1, <2>4 DEF ReadHead
    <3>2. i \in 1 .. k - 1
      BY <1>b, <2>1, <2>2, <2>4, FirstEndIsLeast
    <3>3. /\ SubSeq(chunk, 1, i + 1) \in Seq(Unit)
          /\ SubSeq(chunk, i + 2, k) \in Seq(Unit)
      BY <1>b, <2>1, <2>2, <3>2, Cut
    <3>4. header[s] \o SubSeq(chunk, 1, i + 1) \in Seq(Unit)
      BY <1>a, <3>3, ConcatProperties
    <3> QED
      BY <2>1, <2>2, <3>1, <3>3, <3>4, HeaderType
  <2> QED
    BY <2>3, <2>4
<1>2. ASSUME NEW k \in 1 .. Chunk, ReadBody(s, k) PROVE TypeInv'
  <2> DEFINE b == body[s] \o SubSeq(wire[s], 1, k)
  <2>1. Receive(s, k) /\ pc[s] = "body" /\ UNCHANGED <<retries, faults, early, spoilt>>
    BY <1>2 DEF ReadBody
  <2>2. b \in Seq(Unit) /\ wire' \in [Side -> Seq(Unit)]
    BY <1>a, <1>b, <2>1, ConcatProperties
  <2>3. CASE k >= len[s]
    <3>1. Complete(s, header[s][FirstEnd(header[s])].of, b)
      BY <1>2, <2>3 DEF ReadBody
    <3>2. header[s][FirstEnd(header[s])].of \in Messages /\ open[s]
      BY <1>a, <2>1, EndOf DEF TypeInv, ReadInv
    <3> QED
      BY <2>1, <2>2, <3>1, <3>2, CompleteType
  <2>4. CASE ~(k >= len[s])
    <3>1. /\ body' = [body EXCEPT ![s] = b]
          /\ len' = [len EXCEPT ![s] = @ - k]
          /\ UNCHANGED <<pc, open, sendVars, header, delivered, called>>
      BY <1>2, <2>4 DEF ReadBody
    <3>2. len[s] - k \in 0 .. BodyLength
      BY <1>a, <1>b, <2>1, <2>4, ExchangeAssumption
    <3>3. TypeOK'
      BY <2>1, <2>2, <3>1, <3>2, SMTT(20) DEF TypeInv, TypeOK, sendVars
    <3>4. ReadInv'
      BY <2>1, <3>1 DEF TypeInv, TypeOK, ReadInv, sendVars
    <3> QED
      BY <3>3, <3>4 DEF TypeInv
  <2> QED
    BY <2>3, <2>4
<1>3. CASE ReadEnd(s)
  <2>1. wire' = wire /\ UNCHANGED <<retries, faults, early, spoilt>>
    BY <1>3 DEF ReadEnd
  <2>2. CASE pc[s] = "body"
    <3>1. Goto(s, "stuck") /\ UNCHANGED <<open, sendVars, readVars, delivered, called>>
      BY <1>3, <2>2 DEF ReadEnd
    <3>2. TypeOK'
      BY <2>1, <3>1 DEF TypeInv, TypeOK, Goto, sendVars, readVars
    <3>3. ReadInv'
      BY <2>1, <3>1 DEF TypeInv, TypeOK, ReadInv, Goto, sendVars, readVars
    <3> QED
      BY <3>2, <3>3 DEF TypeInv
  <2>3. CASE pc[s] = "head" /\ header[s] = <<>>
    <3>1. Stop(s, "ended")
      BY <1>3, <2>3 DEF ReadEnd
    <3> QED
      BY <1>a, <2>1, <3>1, StopType
  <2>4. CASE pc[s] = "head" /\ header[s] # <<>>
    <3>1. HeaderDone(s, header[s], <<>>)
      BY <1>3, <2>4 DEF ReadEnd
    <3> QED
      BY <1>a, <2>1, <2>4, <3>1, HeaderType
  <2> QED
    BY <1>3, <2>2, <2>3, <2>4 DEF ReadEnd
<1>4. CASE TimeOut(s)
  BY <1>a, <1>4, StopType DEF TimeOut
<1>5. ASSUME NEW err \in LostConnection, ReadFails(s, err) PROVE TypeInv'
  <2>1. /\ Stop(s, "ended") /\ wire' = [wire EXCEPT ![s] = <<>>]
        /\ UNCHANGED <<retries, faults, early, spoilt>>
    BY <1>5, NeverRetried DEF ReadFails
  <2>2. wire' \in [Side -> Seq(Unit)]
    BY <1>a, <2>1
  <2> QED
    BY <1>a, <2>1, <2>2, StopType
<1> QED
  BY <1>1, <1>2, <1>3, <1>4, <1>5 DEF Reads

LEMMA SendSomeType ==
    ASSUME TypeInv, NEW s \in Side, NEW k \in 1 .. BodyLength + 3 + MaxFaults, SendSome(s, k)
    PROVE  TypeInv'
<1>a. /\ wire \in [Side -> Seq(Unit)] /\ msg \in [Side -> Messages]
      /\ to_send \in [Side -> 0 .. BodyLength + 3 + MaxFaults] /\ faults \in 0 .. MaxFaults
      /\ BodyLength \in Nat /\ MaxFaults \in Nat
      /\ open[s]
      /\ k \in Nat \ {0} /\ k <= to_send[s]
  <2>1. BodyLength \in Nat /\ MaxFaults \in Nat
    BY ExchangeAssumption
  <2>2. k \in Nat \ {0} /\ k <= to_send[s]
    BY <2>1 DEF SendSome
  <2>3. open[s]
    BY DEF TypeInv, ReadInv, SendSome
  <2> QED
    BY <2>1, <2>2, <2>3 DEF TypeInv, TypeOK
<1>1. wire' \in [Side -> Seq(Unit)]
  <2>1. \A t \in Side : wire[t] \o Outgoing(msg[s], k) \in Seq(Unit)
    BY <1>a, OutgoingType, ConcatProperties
  <2>2. wire' = wire \/ wire' = [wire EXCEPT ![Other(s)] = @ \o Outgoing(msg[s], k)]
    BY DEF SendSome
  <2> QED
    BY <1>a, <2>1, <2>2
<1>2. /\ to_send' = [to_send EXCEPT ![s] = @ - k]
      /\ pc' = pc \/ pc' = [pc EXCEPT ![s] = "head"]
      /\ faults' \in 0 .. MaxFaults /\ faults <= faults' /\ spoilt' \subseteq Side
      /\ UNCHANGED <<open, msg, readVars, retries, delivered, called, early>>
  <2>1. spoilt \subseteq Side /\ Other(s) \in Side
    BY Sides DEF TypeInv, TypeOK
  <2> QED
    BY <1>a, <2>1 DEF SendSome, Goto
<1>3. to_send' \in [Side -> 0 .. BodyLength + 3 + MaxFaults]
  BY <1>a, <1>2
<1>4. TypeOK'
  BY <1>1, <1>2, <1>3 DEF TypeInv, TypeOK, readVars
<1>5. \A t \in Side : to_send'[t] <= Size(msg'[t]) + faults'
  <2> TAKE t \in Side
  <2>1. Size(msg[t]) \in Nat /\ to_send[t] \in Nat /\ to_send'[t] \in Nat
    BY <1>a, <1>3, SizeOfMessage
  <2>2. to_send'[t] <= to_send[t] /\ to_send[t] <= Size(msg[t]) + faults
    BY <1>a, <1>2 DEF TypeInv, ReadInv
  <2> QED
    BY <1>a, <1>2, <2>1, <2>2
<1>6. /\ pc[s] = "send"
      /\ pc \in [Side -> {"idle", "send", "head", "body", "stuck", "ended", "crashed"}]
  BY DEF SendSome, TypeInv, TypeOK
<1>7. ReadInv'
  BY <1>a, <1>2, <1>5, <1>6 DEF TypeInv, ReadInv, readVars
<1> QED
  BY <1>4, <1>7 DEF TypeInv

LEMMA SendFailsType == ASSUME TypeInv, NEW s \in Side, SendFails(s) PROVE TypeInv'
<1>a. /\ msg \in [Side -> Messages]
      /\ to_send \in [Side -> 0 .. BodyLength + 3 + MaxFaults] /\ faults \in 0 .. MaxFaults
      /\ BodyLength \in Nat /\ MaxFaults \in Nat
      /\ \A t \in Side : Size(msg[t]) \in 3 .. BodyLength + 3 /\ to_send[t] <= Size(msg[t]) + faults
  BY SizeOfMessage, ExchangeAssumption DEF TypeInv, TypeOK, ReadInv
<1>1. CASE open[Other(s)]
  <2>1. /\ faults' = faults + 1 /\ faults < MaxFaults /\ spoilt' = spoilt \cup {Other(s)}
        /\ to_send' = [to_send EXCEPT ![s] = @ + 1]
        /\ UNCHANGED <<pc, open, wire, msg, readVars, retries, delivered, called, early>>
    BY <1>1 DEF SendFails
  <2>2. \A t \in Side : /\ to_send'[t] <= Size(msg[t]) + faults'
                        /\ to_send'[t] \in 0 .. BodyLength + 3 + MaxFaults
    BY <1>a, <2>1
  <2>3. TypeOK'
    <3>1. to_send' \in [Side -> 0 .. BodyLength + 3 + MaxFaults] /\ faults' \in 0 .. MaxFaults
      BY <1>a, <2>1, <2>2
    <3>2. spoilt' \subseteq Side
      BY <2>1, Sides DEF TypeInv, TypeOK
    <3> QED
      BY <2>1, <3>1, <3>2 DEF TypeInv, TypeOK, readVars
  <2>4. ReadInv'
    BY <2>1, <2>2 DEF TypeInv, ReadInv, readVars
  <2> QED
    BY <2>3, <2>4 DEF TypeInv
<1>2. CASE ~open[Other(s)]
  <2>1. /\ Goto(s, "stuck")
        /\ UNCHANGED <<faults, spoilt, to_send, open, wire, msg, readVars, retries, delivered,
                       called, early>>
    BY <1>2 DEF SendFails
  <2>2. TypeOK'
    BY <2>1 DEF TypeInv, TypeOK, Goto, readVars
  <2>3. ReadInv'
    BY <2>1 DEF TypeInv, TypeOK, ReadInv, Goto, readVars
  <2> QED
    BY <2>2, <2>3 DEF TypeInv
<1> QED
  BY <1>1, <1>2

LEMMA ClientRequestType ==
    ASSUME TypeInv, NEW length \in {0, BodyLength}, ClientRequest(length)
    PROVE  TypeInv'
<1>1. "client" \in Side /\ open["client"] /\ pc["client"] = "idle"
  BY Sides DEF TypeInv, ReadInv, ClientRequest
<1> DEFINE m == Message(msg["client"].round + 1, length, FALSE)
<1>2. m \in Messages
  <2>1. msg["client"].round \in 0 .. MaxRounds
    BY <1>1, SizeOfMessage DEF TypeInv, TypeOK
  <2>2. MaxRounds \in Nat /\ BodyLength \in Nat
    BY ExchangeAssumption
  <2>3. msg["client"].round < MaxRounds
    BY DEF ClientRequest
  <2>4. msg["client"].round + 1 \in 0 .. MaxRounds /\ length \in 0 .. BodyLength
    BY <2>1, <2>2, <2>3
  <2>5. FALSE \in BOOLEAN
    OBVIOUS
  <2> QED
    BY <2>4, <2>5, MessageType
<1>3. Size(m) \in 0 .. BodyLength + 3 + MaxFaults /\ \A n \in Nat : Size(m) <= Size(m) + n
  <2> HIDE DEF m
  <2>1. Size(m) \in 3 .. BodyLength + 3 /\ BodyLength \in Nat /\ MaxFaults \in Nat
    BY <1>2, SizeOfMessage, ExchangeAssumption
  <2>2. \A i \in 3 .. BodyLength + 3 : i \in 0 .. BodyLength + 3 + MaxFaults
    BY <2>1
  <2>3. \A i \in 3 .. BodyLength + 3 : \A n \in Nat : i <= i + n
    BY <2>1
  <2> QED
    BY <2>1, <2>2, <2>3
<1> HIDE DEF m
<1>4. /\ StartSend("client", m) /\ retries' = 0 /\ early' \in BOOLEAN
      /\ UNCHANGED <<open, wire, readVars, faults, delivered, called, spoilt>>
  <2>1. early' \in BOOLEAN
    BY DEF ClientRequest, TypeInv, TypeOK, Through
  <2> QED
    BY <2>1 DEF ClientRequest, m
<1>5. TypeOK'
  <2>1. retries' \in 0 .. MaxRetries
    BY <1>4 DEF MaxRetries
  <2>2. /\ pc' = [pc EXCEPT !["client"] = "send"] /\ msg' = [msg EXCEPT !["client"] = m]
        /\ to_send' = [to_send EXCEPT !["client"] = Size(m)]
    BY <1>4 DEF StartSend, Goto
  <2>3. /\ msg' \in [Side -> Messages]
        /\ to_send' \in [Side -> 0 .. BodyLength + 3 + MaxFaults]
    BY <1>2, <1>3, <2>2 DEF TypeInv, TypeOK
  <2>4. pc' \in [Side -> {"idle", "send", "head", "body", "stuck", "ended", "crashed"}]
    BY <2>2 DEF TypeInv, TypeOK
  <2> QED
    BY <1>4, <2>1, <2>3, <2>4 DEF TypeInv, TypeOK, readVars
<1>6. ReadInv'
  BY <1>1, <1>2, <1>3, <1>4, SMTT(20) DEF TypeInv, TypeOK, ReadInv, StartSend, Goto, readVars
<1> QED
  BY <1>5, <1>6 DEF TypeInv

LEMMA NextTypeInv == TypeInv /\ [Next]_vars => TypeInv'
<1> SUFFICES ASSUME TypeInv, [Next]_vars PROVE TypeInv'
  OBVIOUS
<1>1. ASSUME NEW s \in Side, Reads(s) PROVE TypeInv'
  BY <1>1, ReadsType
<1>2. ASSUME NEW s \in Side, Sends(s) PROVE TypeInv'
  BY <1>2, SendSomeType, SendFailsType DEF Sends
<1>3. ASSUME NEW s \in Side, Leave(s) PROVE TypeInv'
  <2>1. wire' \in [Side -> Seq(Unit)] /\ retries' \in 0 .. MaxRetries
    BY <1>3 DEF Leave, TypeInv, TypeOK
  <2> QED
    BY <1>3, <2>1, StopType DEF Leave
<1>4. ASSUME NEW length \in {0, BodyLength}, ClientRequest(length) PROVE TypeInv'
  BY <1>4, ClientRequestType
<1>5. CASE UNCHANGED vars
  BY <1>5 DEF TypeInv, TypeOK, ReadInv, vars, sendVars, readVars
<1> QED
  BY <1>1, <1>2, <1>3, <1>4, <1>5 DEF Next

\* Every variable keeps its type: whatever is lost, cut or failed, no side
\* ever has more left to send than its message and the failed sends account
\* for.  (write_bytes, read_response, read_request)
THEOREM TypeCorrect == Spec => []TypeOK
<1>1. TypeInv => TypeOK
  BY DEF TypeInv
<1> QED
  BY <1>1, InitTypeInv, NextTypeInv, PTL DEF Spec

-----------------------------------------------------------------------------
(* No request is handled twice *)

\* The last request that has gone out whole.
LastSent == IF pc["client"] = "send" THEN msg["client"].round - 1 ELSE msg["client"].round

\* How often requests were handled, and what the server has still to read,
\* fit together: the requests handled and the requests to read are different
\* ones, and none is later than the last.  A request is known by its second
\* unit, where the end of its header is found.
Once(units, count, last) ==
    /\ \A n \in 0 .. MaxRounds : count[n] <= 1 /\ (count[n] # 0 => n <= last)
    /\ \A i \in 1 .. Len(units) :
          units[i].at = 2 => count[units[i].of.round] = 0 /\ units[i].of.round <= last
    /\ \A i, j \in 1 .. Len(units) :
          units[i].at = 2 /\ units[j].at = 2 /\ i # j => units[i].of.round # units[j].of.round

Stream == header["server"] \o wire["server"]

OnceInv ==
    "server" \notin spoilt =>
        /\ pc["client"] = "send" => to_send["client"] = Size(msg["client"])
        /\ Once(Stream, called, LastSent)

Counts == [0 .. MaxRounds -> Nat]

LEMMA ElementType ==
    ASSUME NEW units \in Seq(Unit), NEW i \in 1 .. Len(units)
    PROVE  /\ units[i].of \in Messages /\ units[i].of.round \in 0 .. MaxRounds
           /\ units[i].at \in 0 .. BodyLength + 3
<1>1. units[i] \in Unit
  BY ElementOfSeq
<1> QED
  BY <1>1, SizeOfMessage DEF Unit

LEMMA OnceLater ==
    ASSUME NEW units \in Seq(Unit), NEW count \in Counts, NEW last \in Int, NEW later \in Int,
           last <= later, Once(units, count, last)
    PROVE  Once(units, count, later)
<1>1. \A n \in 0 .. MaxRounds : n \in Int
  OBVIOUS
<1>2. \A i \in 1 .. Len(units) : units[i].of.round \in Int
  BY ElementType
<1>3. \A n \in 0 .. MaxRounds : count[n] <= 1 /\ (count[n] # 0 => n <= later)
  BY <1>1 DEF Once
<1>4. \A i \in 1 .. Len(units) :
         units[i].at = 2 => count[units[i].of.round] = 0 /\ units[i].of.round <= later
  BY <1>2 DEF Once
<1> QED
  BY <1>3, <1>4 DEF Once

\* Taking units out of the stream does no harm.
LEMMA OnceWithout ==
    ASSUME NEW units \in Seq(Unit), NEW count, NEW last, Once(units, count, last),
           NEW rest \in Seq(Unit), NEW kept \in Nat, NEW gone \in Nat,
           Len(rest) + gone <= Len(units),
           \A i \in 1 .. Len(rest) : rest[i] = IF i <= kept THEN units[i] ELSE units[i + gone]
    PROVE  Once(rest, count, last)
<1> DEFINE at(i) == IF i <= kept THEN i ELSE i + gone
<1>1. Len(units) \in Nat /\ Len(rest) \in Nat
  BY LenProperties
<1>2. \A i \in 1 .. Len(rest) : at(i) \in 1 .. Len(units) /\ rest[i] = units[at(i)]
  BY <1>1
<1>3. \A i, j \in 1 .. Len(rest) : i # j => at(i) # at(j)
  BY <1>1
<1> HIDE DEF at
<1>4. \A i \in 1 .. Len(rest) :
         rest[i].at = 2 => count[rest[i].of.round] = 0 /\ rest[i].of.round <= last
  BY <1>2 DEF Once
<1>5. \A i, j \in 1 .. Len(rest) :
         rest[i].at = 2 /\ rest[j].at = 2 /\ i # j => rest[i].of.round # rest[j].of.round
  <2> TAKE i, j \in 1 .. Len(rest)
  <2>1. /\ at(i) \in 1 .. Len(units) /\ at(j) \in 1 .. Len(units)
        /\ rest[i] = units[at(i)] /\ rest[j] = units[at(j)] /\ (i # j => at(i) # at(j))
    BY <1>2, <1>3
  <2>2. ASSUME NEW a \in 1 .. Len(units), NEW b \in 1 .. Len(units),
               units[a].at = 2, units[b].at = 2, a # b
        PROVE  units[a].of.round # units[b].of.round
    BY <2>2 DEF Once
  <2> QED
    BY <2>1, <2>2
<1> QED
  BY <1>4, <1>5 DEF Once

\* A request that is read and handled, and all before it with it.
LEMMA OnceHandled ==
    ASSUME NEW units \in Seq(Unit), NEW count \in Counts, NEW last, Once(units, count, last),
           NEW i \in 1 .. Len(units), units[i].at = 2,
           NEW rest \in Seq(Unit), NEW gone \in Nat, i <= gone,
           Len(rest) + gone <= Len(units),
           \A j \in 1 .. Len(rest) : rest[j] = units[j + gone]
    PROVE  Once(rest, [count EXCEPT ![units[i].of.round] = @ + 1], last)
<1> DEFINE n == units[i].of.round
           handled == [count EXCEPT ![n] = @ + 1]
<1>1. n \in 0 .. MaxRounds /\ count[n] = 0 /\ n <= last
  BY ElementType DEF Once
<1>2. handled[n] = 1 /\ \A m \in 0 .. MaxRounds : m # n => handled[m] = count[m]
  BY <1>1 DEF Counts
<1>3. Len(units) \in Nat /\ Len(rest) \in Nat
  BY LenProperties
<1>4. \A j \in 1 .. Len(rest) :
         /\ j + gone \in 1 .. Len(units) /\ j + gone # i
         /\ rest[j] = units[j + gone]
  BY <1>3
<1>5. Once(rest, count, last)
  <2>1. \A j \in 1 .. Len(rest) : rest[j] = IF j <= 0 THEN units[j] ELSE units[j + gone]
    BY <1>3
  <2> QED
    BY <2>1, OnceWithout
<1>6. \A j \in 1 .. Len(rest) : rest[j].at = 2 => rest[j].of.round # n
  BY <1>4 DEF Once
<1>7. \A j \in 1 .. Len(rest) : rest[j].of.round \in 0 .. MaxRounds
  BY ElementType
<1> HIDE DEF n, handled
<1>8. \A m \in 0 .. MaxRounds : handled[m] <= 1 /\ (handled[m] # 0 => m <= last)
  BY <1>1, <1>2 DEF Once
<1>9. \A j \in 1 .. Len(rest) :
         rest[j].at = 2 => handled[rest[j].of.round] = 0 /\ rest[j].of.round <= last
  BY <1>2, <1>5, <1>6, <1>7 DEF Once
<1>10. Once(rest, handled, last)
  BY <1>5, <1>8, <1>9 DEF Once
<1> QED
  BY <1>10 DEF n, handled

\* The next request goes out whole.
LEMMA OnceSent ==
    ASSUME NEW units \in Seq(Unit), NEW count \in Counts, NEW m \in Messages,
           Once(units, count, m.round - 1)
    PROVE  Once(units \o Units(m), count, m.round)
<1> DEFINE more == units \o Units(m)
           length == Len(units)
<1>1. length \in Nat /\ Size(m) \in Nat /\ m.round \in Nat /\ m.round \in 0 .. MaxRounds
  BY LenProperties, SizeOfMessage
<1>2. Units(m) \in Seq(Unit) /\ Len(Units(m)) = Size(m)
  <2>1. \A i \in 1 .. Size(m) : [of |-> m, at |-> i] \in Unit
    BY SizeOfMessage, UnitType
  <2>2. Units(m) \in [1 .. Size(m) -> Unit]
    BY <2>1 DEF Units
  <2> QED
    BY <1>1, <2>2, SeqOfUnits
<1>3. /\ Len(more) = length + Size(m)
      /\ \A i \in 1 .. length : more[i] = units[i]
      /\ \A i \in length + 1 .. length + Size(m) : more[i] = Units(m)[i - length]
  <2>1. /\ Len(more) = length + Size(m)
        /\ \A i \in 1 .. length + Size(m) :
              more[i] = IF i <= length THEN units[i] ELSE Units(m)[i - length]
    BY <1>2, ConcatProperties
  <2> HIDE DEF more, length
  <2>2. \A i \in 1 .. length : i \in 1 .. length + Size(m) /\ i <= length
    BY <1>1
  <2>3. \A i \in length + 1 .. length + Size(m) : i \in 1 .. length + Size(m) /\ ~(i <= length)
    BY <1>1
  <2> QED
    BY <2>1, <2>2, <2>3
<1>4. \A i \in length + 1 .. length + Size(m) : more[i] = [of |-> m, at |-> i - length]
  BY <1>1, <1>3 DEF Units
<1>5. \A i \in 1 .. Len(more) :
         more[i].at = 2 => \/ i \in 1 .. length /\ more[i] = units[i]
                           \/ i = length + 2 /\ more[i].of = m
  <2> TAKE i \in 1 .. Len(more)
  <2> HAVE more[i].at = 2
  <2>1. CASE i <= length
    BY <1>1, <1>3, <2>1
  <2>2. CASE ~(i <= length)
    <3>1. i \in length + 1 .. length + Size(m)
      BY <1>1, <1>3, <2>2
    <3>2. more[i] = [of |-> m, at |-> i - length]
      BY <1>4, <3>1
    <3>3. more[i].of = m /\ i - length = 2
      BY <3>2
    <3> QED
      BY <1>1, <3>1, <3>3
  <2> QED
    BY <2>1, <2>2
<1>6. \A i \in 1 .. length : units[i].of.round \in 0 .. MaxRounds
  BY ElementType
<1>7. Once(units, count, m.round)
  BY <1>1, OnceLater
<1>8. count[m.round] = 0
  BY <1>1 DEF Once
<1>9. \A i \in 1 .. length : units[i].at = 2 => units[i].of.round # m.round
  BY <1>1, <1>6 DEF Once
<1> HIDE DEF more, length
<1>10. \A i \in 1 .. Len(more) :
          more[i].at = 2 => count[more[i].of.round] = 0 /\ more[i].of.round <= m.round
  BY <1>1, <1>5, <1>7, <1>8 DEF Once, length
<1>11. \A i, j \in 1 .. Len(more) :
          more[i].at = 2 /\ more[j].at = 2 /\ i # j => more[i].of.round # more[j].of.round
  BY <1>5, <1>7, <1>9 DEF Once, length
<1>12. Once(more, count, m.round)
  BY <1>7, <1>10, <1>11 DEF Once
<1> QED
  BY <1>12 DEF more

-----------------------------------------------------------------------------
(* What a step of one side leaves to the other *)

Untouched(t) ==
    /\ pc'[t] = pc[t] /\ open'[t] = open[t] /\ wire'[t] = wire[t]
    /\ msg'[t] = msg[t] /\ to_send'[t] = to_send[t]
    /\ header'[t] = header[t] /\ body'[t] = body[t] /\ len'[t] = len[t]
    /\ delivered'[t] = delivered[t]

LEMMA ReceiveUntouched ==
    ASSUME TypeInv, NEW s \in Side, NEW t \in Side, t # s, NEW k, Receive(s, k)
    PROVE  wire'[t] = wire[t] /\ wire'[s] = SubSeq(wire[s], k + 1, Len(wire[s]))
BY DEF Receive, TypeInv, TypeOK

LEMMA StopUntouched ==
    ASSUME TypeInv, NEW s \in Side, NEW t \in Side, t # s, NEW label, Stop(s, label),
           wire'[t] = wire[t]
    PROVE  /\ Untouched(t) /\ pc'[s] = label /\ ~open'[s]
           /\ header'[s] = <<>> /\ body'[s] = <<>>
           /\ UNCHANGED <<msg, to_send, delivered, called>>
BY DEF Stop, Goto, ForgetRead, sendVars, Untouched, TypeInv, TypeOK

LEMMA AwaitUntouched ==
    ASSUME TypeInv, NEW s \in Side, NEW t \in Side, t # s, NEW h, NEW b, NEW length,
           AwaitBody(s, h, b, length), wire'[t] = wire[t]
    PROVE  /\ Untouched(t) /\ pc'[s] = "body" /\ header'[s] = h /\ body'[s] = b
           /\ len'[s] = length - Len(b) /\ UNCHANGED <<open, msg, to_send, delivered, called>>
BY DEF AwaitBody, Goto, sendVars, Untouched, TypeInv, TypeOK

LEMMA StartUntouched ==
    ASSUME TypeInv, NEW s \in Side, NEW t \in Side, t # s, NEW m, StartSend(s, m), ForgetRead(s),
           wire'[t] = wire[t], delivered'[t] = delivered[t], UNCHANGED open
    PROVE  /\ Untouched(t) /\ pc'[s] = "send" /\ msg'[s] = m /\ to_send'[s] = Size(m)
           /\ header'[s] = <<>> /\ body'[s] = <<>>
BY DEF StartSend, Goto, ForgetRead, Untouched, TypeInv, TypeOK

LEMMA CompleteUntouched ==
    ASSUME TypeInv, NEW s \in Side, NEW t \in Side, t # s, NEW of, NEW b, Complete(s, of, b),
           wire'[t] = wire[t]
    PROVE  /\ Untouched(t) /\ UNCHANGED open
           /\ header'[s] = <<>> /\ body'[s] = <<>> /\ delivered'[s] = [of |-> of, body |-> b]
           /\ s = "server" =>
                /\ called' = [called EXCEPT ![of.round] = @ + 1]
                /\ pc'[s] = "send" /\ to_send'[s] = Size(msg'[s]) /\ msg'[s].round = of.round
           /\ s = "client" => pc'[s] = "idle" /\ UNCHANGED <<msg, to_send, called>>
<1>1. /\ ForgetRead(s) /\ UNCHANGED open
      /\ delivered' = [delivered EXCEPT ![s] = [of |-> of, body |-> b]]
      /\ delivered'[t] = delivered[t] /\ delivered'[s] = [of |-> of, body |-> b]
  BY DEF Complete, TypeInv, TypeOK
<1>2. CASE s = "server"
  <2>1. PICK length \in {0, BodyLength} : StartSend(s, Message(of.round, length, FALSE))
    BY <1>2 DEF Complete
  <2>2. /\ Untouched(t) /\ pc'[s] = "send" /\ msg'[s] = Message(of.round, length, FALSE)
        /\ to_send'[s] = Size(Message(of.round, length, FALSE))
        /\ header'[s] = <<>> /\ body'[s] = <<>>
    BY <1>1, <2>1, StartUntouched
  <2>3. Message(of.round, length, FALSE).round = of.round
    BY DEF Message
  <2>4. called' = [called EXCEPT ![of.round] = @ + 1]
    BY <1>2 DEF Complete
  <2> QED
    BY <1>1, <1>2, <2>2, <2>3, <2>4
<1>3. CASE s # "server"
  <2>1. Goto(s, "idle") /\ UNCHANGED <<sendVars, called>>
    BY <1>3 DEF Complete
  <2> QED
    BY <1>1, <1>3, <2>1 DEF Goto, ForgetRead, sendVars, Untouched, TypeInv, TypeOK
<1> QED
  BY <1>2, <1>3

LEMMA LastSentType == TypeInv => LastSent \in Int
<1> SUFFICES ASSUME TypeInv PROVE LastSent \in Int
  OBVIOUS
<1>1. msg["client"].round \in 0 .. MaxRounds
  BY Sides, SizeOfMessage DEF TypeInv, TypeOK
<1> QED
  BY <1>1 DEF LastSent

\* Nothing that concerns the server's reading changes, and the client may
\* have sent more or stopped.
LEMMA OnceUntouched ==
    ASSUME TypeInv, TypeInv', OnceInv, spoilt \subseteq spoilt',
           header'["server"] = header["server"], wire'["server"] = wire["server"],
           UNCHANGED called, LastSent <= LastSent',
           "server" \notin spoilt' /\ pc'["client"] = "send" =>
               to_send'["client"] = Size(msg'["client"])
    PROVE  OnceInv'
<1> SUFFICES ASSUME "server" \notin spoilt' PROVE OnceInv'
  BY DEF OnceInv
<1>1. Once(Stream, called, LastSent) /\ Stream' = Stream
  BY DEF OnceInv, Stream
<1>2. LastSent \in Int /\ LastSent' \in Int
  <2>1. msg'["client"] \in Messages
    BY Sides DEF TypeInv, TypeOK
  <2>2. msg'["client"].round \in 0 .. MaxRounds
    BY <2>1, SizeOfMessage
  <2>3. LastSent' \in Int
    BY <2>2 DEF LastSent
  <2> QED
    BY <2>3, LastSentType
<1>3. Stream \in Seq(Unit) /\ called \in Counts
  BY ConcatProperties, Sides DEF Stream, TypeInv, TypeOK, Counts
<1>4. Once(Stream, called, LastSent')
  BY <1>1, <1>2, <1>3, OnceLater
<1> QED
  BY <1>1, <1>4 DEF OnceInv

\* The server has read on: what is left of the stream comes without some units.
LEMMA OnceReadOn ==
    ASSUME TypeInv, TypeInv', OnceInv, UNCHANGED <<called, spoilt>>, Untouched("client"),
           NEW kept \in Nat, NEW gone \in Nat, Len(Stream') + gone <= Len(Stream),
           \A i \in 1 .. Len(Stream') :
               Stream'[i] = IF i <= kept THEN Stream[i] ELSE Stream[i + gone]
    PROVE  OnceInv'
<1> SUFFICES ASSUME "server" \notin spoilt PROVE OnceInv'
  BY DEF OnceInv
<1>1. Once(Stream, called, LastSent)
  BY DEF OnceInv
<1>2. Stream \in Seq(Unit) /\ Stream' \in Seq(Unit)
  <2>1. Stream \in Seq(Unit)
    BY ConcatProperties, Sides DEF Stream, TypeInv, TypeOK
  <2>2. header'["server"] \in Seq(Unit) /\ wire'["server"] \in Seq(Unit)
    BY Sides DEF TypeInv, TypeOK
  <2> QED
    BY <2>1, <2>2, ConcatProperties DEF Stream
<1>3. Once(Stream', called, LastSent)
  BY <1>1, <1>2, OnceWithout
<1>4. LastSent' = LastSent
  BY DEF LastSent, Untouched
<1> QED
  BY <1>3, <1>4 DEF OnceInv, Untouched

\* A request whose header ends at i has been read and is handled.
LEMMA OnceComplete ==
    ASSUME TypeInv, TypeInv', OnceInv, UNCHANGED spoilt, wire'["client"] = wire["client"],
           NEW i \in 1 .. Len(Stream), Stream[i].at = 2, NEW b,
           Complete("server", Stream[i].of, b),
           NEW gone \in Nat, i <= gone, Len(wire'["server"]) + gone <= Len(Stream),
           \A j \in 1 .. Len(wire'["server"]) : wire'["server"][j] = Stream[j + gone]
    PROVE  OnceInv'
<1> SUFFICES ASSUME "server" \notin spoilt PROVE OnceInv'
  BY DEF OnceInv
<1>1. /\ Untouched("client") /\ header'["server"] = <<>>
      /\ called' = [called EXCEPT ![Stream[i].of.round] = @ + 1]
  BY Sides, CompleteUntouched
<1>2. Once(Stream, called, LastSent)
  BY DEF OnceInv
<1>3. Stream \in Seq(Unit) /\ wire'["server"] \in Seq(Unit) /\ called \in Counts
  BY ConcatProperties, Sides DEF Stream, TypeInv, TypeOK, Counts
<1>4. Stream' = wire'["server"]
  BY <1>1, <1>3, ConcatEmptySeq DEF Stream
<1>5. Once(wire'["server"], [called EXCEPT ![Stream[i].of.round] = @ + 1], LastSent)
  BY <1>2, <1>3, OnceHandled
<1>6. LastSent' = LastSent
  BY <1>1 DEF LastSent, Untouched
<1> QED
  BY <1>1, <1>4, <1>5, <1>6 DEF OnceInv, Untouched

\* The server has read gone units and keeps the first of them, h.
LEMMA OnceKeeps ==
    ASSUME TypeInv, TypeInv', OnceInv, UNCHANGED <<called, spoilt>>, Untouched("client"),
           NEW h \in Seq(Unit), header'["server"] = h,
           NEW gone \in Nat, Len(h) <= gone, Len(wire'["server"]) + gone = Len(Stream),
           \A i \in 1 .. Len(h) : h[i] = Stream[i],
           \A i \in 1 .. Len(wire'["server"]) : wire'["server"][i] = Stream[i + gone]
    PROVE  OnceInv'
<1> DEFINE w == wire'["server"]
<1>1. /\ Stream \in Seq(Unit) /\ w \in Seq(Unit)
      /\ Len(Stream) \in Nat /\ Len(w) \in Nat /\ Len(h) \in Nat
  BY ConcatProperties, LenProperties, Sides DEF Stream, TypeInv, TypeOK
<1>2. /\ Len(Stream') = Len(h) + Len(w)
      /\ \A i \in 1 .. Len(h) + Len(w) : Stream'[i] = IF i <= Len(h) THEN h[i] ELSE w[i - Len(h)]
  BY <1>1, ConcatProperties DEF Stream
<1>3. gone - Len(h) \in Nat /\ Len(Stream') + (gone - Len(h)) <= Len(Stream)
  BY <1>1, <1>2
<1>4. \A i \in 1 .. Len(Stream') :
         Stream'[i] = IF i <= Len(h) THEN Stream[i] ELSE Stream[i + (gone - Len(h))]
  <2> TAKE i \in 1 .. Len(Stream')
  <2>1. CASE i <= Len(h)
    BY <1>1, <1>2, <2>1
  <2>2. CASE ~(i <= Len(h))
    <3>1. i - Len(h) \in 1 .. Len(w) /\ (i - Len(h)) + gone = i + (gone - Len(h))
      BY <1>1, <1>2, <2>2
    <3> QED
      BY <1>1, <1>2, <2>2, <3>1
  <2> QED
    BY <2>1, <2>2
<1> QED
  BY <1>1, <1>3, <1>4, OnceReadOn

\* What the outcomes of a header do to the stream.
LEMMA OnceHeader ==
    ASSUME TypeInv, TypeInv', OnceInv, wire'["client"] = wire["client"], UNCHANGED spoilt,
           NEW h \in Seq(Unit), NEW b, HeaderDone("server", h, b),
           NEW gone \in Nat, Len(h) <= gone, Len(wire'["server"]) + gone = Len(Stream),
           \A i \in 1 .. Len(h) : h[i] = Stream[i],
           \A i \in 1 .. Len(wire'["server"]) : wire'["server"][i] = Stream[i + gone]
    PROVE  OnceInv'
<1> DEFINE w == wire'["server"]
<1>1. /\ Stream \in Seq(Unit) /\ w \in Seq(Unit)
      /\ Len(Stream) \in Nat /\ Len(w) \in Nat /\ Len(h) \in Nat
      /\ "server" \in Side /\ "client" \in Side
  BY ConcatProperties, LenProperties, Sides DEF Stream, TypeInv, TypeOK
<1>2. ASSUME header'["server"] = <<>>, Untouched("client"), UNCHANGED called PROVE OnceInv'
  <2>1. Stream' = w
    BY <1>1, <1>2, ConcatEmptySeq DEF Stream
  <2>2. \A i \in 1 .. Len(Stream') : Stream'[i] = IF i <= 0 THEN Stream[i] ELSE Stream[i + gone]
    BY <1>1, <2>1
  <2>3. Len(Stream') + gone <= Len(Stream)
    BY <1>1, <2>1
  <2> QED
    BY <1>2, <2>2, <2>3, OnceReadOn
<1>3. ASSUME Ends(h) # {}, Complete("server", h[FirstEnd(h)].of, b) PROVE OnceInv'
  <2>1. FirstEnd(h) \in 1 .. Len(h) /\ h[FirstEnd(h)].at = 2
    BY <1>1, <1>3, FirstEndIsLeast DEF Ends
  <2>2. h[FirstEnd(h)] = Stream[FirstEnd(h)]
    BY <2>1
  <2>4. \A i \in 1 .. Len(h) : i \in 1 .. Len(Stream) /\ i <= gone
    BY <1>1
  <2>3. Len(w) + gone <= Len(Stream)
    BY <1>1
  <2> QED
    BY <1>3, <2>1, <2>2, <2>3, <2>4, OnceComplete
<1>4. ASSUME NEW length, AwaitBody("server", h, b, length) PROVE OnceInv'
  BY <1>1, <1>4, AwaitUntouched, OnceKeeps, SMTT(20)
<1>5. ASSUME NEW label, Stop("server", label) PROVE OnceInv'
  BY <1>1, <1>2, <1>5, Sides, StopUntouched
<1>6. ASSUME NEW m, StartSend("server", m), ForgetRead("server"),
             UNCHANGED <<open, delivered, called>>
      PROVE  OnceInv'
  BY <1>1, <1>2, <1>6, Sides, StartUntouched
<1> QED
  BY <1>1, <1>3, <1>4, <1>5, <1>6, HeaderOutcome

\* The first units of the next chunk, behind what has been read, are the
\* first of the stream; what stays on the wire are its last.
LEMMA RestOfStream ==
    ASSUME NEW read \in Seq(Unit), NEW coming \in Seq(Unit), NEW k \in Nat \ {0}, k <= Len(coming),
           NEW rest, rest = SubSeq(coming, k + 1, Len(coming))
    PROVE  /\ rest \in Seq(Unit) /\ Len(rest) = Len(coming) - k
           /\ \A i \in 1 .. Len(rest) : rest[i] = (read \o coming)[i + (Len(read) + k)]
<1> DEFINE all == read \o coming
<1>1. Len(read) \in Nat /\ Len(coming) \in Nat
  BY LenProperties
<1>2. \A i \in 1 .. Len(read) + Len(coming) :
         all[i] = IF i <= Len(read) THEN read[i] ELSE coming[i - Len(read)]
  BY ConcatProperties
<1>3. /\ rest \in Seq(Unit)
      /\ Len(rest) = IF k + 1 <= Len(coming) THEN Len(coming) - (k + 1) + 1 ELSE 0
      /\ \A i \in 1 .. Len(coming) - (k + 1) + 1 : rest[i] = coming[(k + 1) + i - 1]
  BY <1>1, Cut
<1>4. Len(rest) = Len(coming) - k
  BY <1>1, <1>3
<1> HIDE DEF all
<1>5. ASSUME NEW i \in 1 .. Len(rest) PROVE rest[i] = all[i + (Len(read) + k)]
  <2>1. i \in 1 .. Len(coming) - (k + 1) + 1 /\ (k + 1) + i - 1 = k + i
    BY <1>1, <1>4
  <2>2. rest[i] = coming[k + i]
    BY <1>3, <2>1
  <2>3. /\ i + (Len(read) + k) \in 1 .. Len(read) + Len(coming)
        /\ ~(i + (Len(read) + k) <= Len(read))
        /\ i + (Len(read) + k) - Len(read) = k + i
    BY <1>1, <1>4
  <2> QED
    BY <1>2, <2>2, <2>3
<1> QED
  BY <1>3, <1>4, <1>5 DEF all

LEMMA StartOfStream ==
    ASSUME NEW read \in Seq(Unit), NEW coming \in Seq(Unit), NEW k \in Nat \ {0}, k <= Len(coming),
           NEW a \in 0 .. k, NEW h, h = read \o SubSeq(SubSeq(coming, 1, k), 1, a)
    PROVE  /\ h \in Seq(Unit) /\ Len(h) = Len(read) + a
           /\ \A i \in 1 .. Len(h) : h[i] = (read \o coming)[i]
<1> DEFINE all == read \o coming
           chunk == SubSeq(coming, 1, k)
           cut == SubSeq(chunk, 1, a)
<1>1. Len(read) \in Nat /\ Len(coming) \in Nat
  BY LenProperties
<1>2. \A i \in 1 .. Len(read) + Len(coming) :
         all[i] = IF i <= Len(read) THEN read[i] ELSE coming[i - Len(read)]
  BY ConcatProperties
<1>3. /\ chunk \in Seq(Unit) /\ Len(chunk) = IF 1 <= k THEN k - 1 + 1 ELSE 0
      /\ \A i \in 1 .. k - 1 + 1 : chunk[i] = coming[1 + i - 1]
  BY Cut
<1>4. Len(chunk) = k /\ k - 1 + 1 = k
  BY <1>3
<1> HIDE DEF all, chunk
<1>5. /\ cut \in Seq(Unit) /\ Len(cut) = IF 1 <= a THEN a - 1 + 1 ELSE 0
      /\ \A i \in 1 .. a - 1 + 1 : cut[i] = chunk[1 + i - 1]
  BY <1>3, <1>4, Cut
<1> HIDE DEF cut
<1>6. Len(cut) = a /\ \A i \in 1 .. a : cut[i] = coming[i]
  <2>1. \A i \in 1 .. a : i \in 1 .. k - 1 + 1 /\ i \in 1 .. a - 1 + 1 /\ 1 + i - 1 = i
    OBVIOUS
  <2>2. \A i \in 1 .. a : cut[i] = chunk[i] /\ chunk[i] = coming[i]
    BY <1>3, <1>5, <2>1
  <2> QED
    BY <1>5, <2>2
<1>7. h = read \o cut
  BY DEF cut, chunk
<1>8. /\ h \in Seq(Unit) /\ Len(h) = Len(read) + a
      /\ \A i \in 1 .. Len(read) + a : h[i] = IF i <= Len(read) THEN read[i] ELSE cut[i - Len(read)]
  BY <1>5, <1>6, <1>7, ConcatProperties
<1>9. ASSUME NEW i \in 1 .. Len(h) PROVE h[i] = all[i]
  <2>1. i \in 1 .. Len(read) + Len(coming) /\ i \in 1 .. Len(read) + a
    BY <1>1, <1>8
  <2>2. CASE i <= Len(read)
    BY <1>2, <1>8, <2>1, <2>2
  <2>3. CASE ~(i <= Len(read))
    <3>1. i - Len(read) \in 1 .. a
      BY <1>1, <1>8, <2>3
    <3> QED
      BY <1>2, <1>6, <1>8, <2>1, <2>3, <3>1
  <2> QED
    BY <2>2, <2>3
<1> QED
  BY <1>8, <1>9 DEF all

LEMMA OnceServerReads ==
    ASSUME TypeInv, TypeInv', OnceInv, Reads("server") PROVE OnceInv'
<1> DEFINE read == header["server"]
           coming == wire["server"]
<1>1. /\ read \in Seq(Unit) /\ coming \in Seq(Unit) /\ Stream = read \o coming
      /\ Len(read) \in Nat /\ Len(coming) \in Nat /\ Len(Stream) = Len(read) + Len(coming)
      /\ "server" \in Side /\ "client" \in Side /\ Other("server") = "client"
  BY ConcatProperties, LenProperties, Sides DEF Stream, TypeInv, TypeOK
<1> DEFINE rest == wire'["server"]
<1>2. ASSUME NEW k \in 1 .. Chunk, Receive("server", k)
      PROVE  /\ k \in Nat \ {0} /\ k <= Len(coming)
             /\ wire'["client"] = wire["client"]
             /\ rest = SubSeq(coming, k + 1, Len(coming))
             /\ rest \in Seq(Unit)
             /\ Len(rest) + (Len(read) + k) = Len(Stream)
             /\ \A i \in 1 .. Len(rest) : rest[i] = Stream[i + (Len(read) + k)]
  <2>1. k \in Nat \ {0} /\ k <= Len(coming)
    BY <1>2, ExchangeAssumption DEF Receive
  <2>2. wire'["client"] = wire["client"] /\ rest = SubSeq(coming, k + 1, Len(coming))
    BY <1>1, <1>2, ReceiveUntouched
  <2> HIDE DEF rest, read, coming
  <2>3. /\ rest \in Seq(Unit) /\ Len(rest) = Len(coming) - k
        /\ \A i \in 1 .. Len(rest) : rest[i] = Stream[i + (Len(read) + k)]
    BY <1>1, <2>1, <2>2, RestOfStream
  <2>4. Len(rest) + (Len(read) + k) = Len(Stream)
    BY <1>1, <2>1, <2>3
  <2> QED
    BY <2>1, <2>2, <2>3, <2>4
<1>3. ASSUME NEW k \in 1 .. Chunk, ReadHead("server", k) PROVE OnceInv'
  <2> DEFINE chunk == SubSeq(coming, 1, k)
             h(a) == read \o SubSeq(chunk, 1, a)
  <2>1. Receive("server", k) /\ UNCHANGED spoilt
    BY <1>3 DEF ReadHead
  <2>2. /\ k \in Nat \ {0} /\ k <= Len(coming)
        /\ wire'["client"] = wire["client"]
        /\ rest = SubSeq(coming, k + 1, Len(coming))
        /\ rest \in Seq(Unit)
        /\ Len(rest) + (Len(read) + k) = Len(Stream)
        /\ \A i \in 1 .. Len(rest) : rest[i] = Stream[i + (Len(read) + k)]
    BY <1>2, <2>1
  <2>3. ASSUME NEW a \in 0 .. k
        PROVE  /\ h(a) \in Seq(Unit) /\ Len(h(a)) = Len(read) + a
               /\ \A i \in 1 .. Len(h(a)) : h(a)[i] = Stream[i]
    <3> DEFINE g == h(a)
    <3>1. g = read \o SubSeq(SubSeq(coming, 1, k), 1, a)
      OBVIOUS
    <3>2. /\ read \in Seq(Unit) /\ coming \in Seq(Unit)
          /\ k \in Nat \ {0} /\ k <= Len(coming)
      BY <1>1, <2>2
    <3> HIDE DEF g, read, coming, rest, chunk, h
    <3>3. /\ g \in Seq(Unit) /\ Len(g) = Len(read) + a
          /\ \A i \in 1 .. Len(g) : g[i] = (read \o coming)[i]
      BY <3>1, <3>2, StartOfStream
    <3> QED
      BY <1>1, <3>3 DEF g
  <2>4. chunk \in Seq(Unit) /\ Len(chunk) = k
    BY <1>1, <2>2, Cut
  <2>5. CASE Ends(chunk) = {}
    <3>1. /\ header' = [header EXCEPT !["server"] = @ \o chunk]
          /\ UNCHANGED <<pc, open, sendVars, body, len, delivered, called>>
      BY <1>3, <2>5 DEF ReadHead
    <3>2. header'["server"] = h(k)
      <4>1. SubSeq(chunk, 1, k) = chunk
        BY <2>4, SubSeqFull
      <4> QED
        BY <1>1, <3>1, <4>1 DEF TypeInv, TypeOK
    <3>3. Untouched("client")
      BY <1>1, <2>2, <3>1 DEF Untouched, sendVars, TypeInv, TypeOK
    <3> HIDE DEF rest, read, coming, chunk, h
    <3>4. /\ h(k) \in Seq(Unit) /\ Len(h(k)) = Len(read) + k
          /\ \A i \in 1 .. Len(h(k)) : h(k)[i] = Stream[i]
      <4>1. k \in 0 .. k
        BY <2>2
      <4> QED
        BY <2>3, <4>1
    <3>5. Len(read) + k \in Nat /\ Len(h(k)) <= Len(read) + k
      BY <1>1, <2>2, <3>4
    <3> QED
      BY <2>1, <2>2, <3>1, <3>2, <3>3, <3>4, <3>5, OnceKeeps DEF rest
  <2>6. CASE Ends(chunk) # {}
    <3> DEFINE i == FirstEnd(chunk)
    <3>1. HeaderDone("server", h(i + 1), SubSeq(chunk, i + 2, k))
      BY <1>3, <2>6 DEF ReadHead
    <3>2. i + 1 \in 0 .. k
      <4>1. i \in 1 .. k - 1
        BY <2>2, <2>4, <2>6, FirstEndIsLeast
      <4> QED
        BY <2>2, <4>1
    <3> HIDE DEF rest, read, coming, chunk, h
    <3>3. /\ h(i + 1) \in Seq(Unit) /\ Len(h(i + 1)) = Len(read) + (i + 1)
          /\ \A j \in 1 .. Len(h(i + 1)) : h(i + 1)[j] = Stream[j]
      BY <2>3, <3>2
    <3>4. Len(read) + k \in Nat /\ Len(h(i + 1)) <= Len(read) + k
      BY <1>1, <2>2, <3>2, <3>3
    <3> QED
      BY <2>1, <2>2, <3>1, <3>3, <3>4, OnceHeader DEF rest
  <2> QED
    BY <2>5, <2>6
<1>4. ASSUME NEW k \in 1 .. Chunk, ReadBody("server", k) PROVE OnceInv'
  <2>1. Receive("server", k) /\ UNCHANGED spoilt /\ Ends(read) # {}
    BY <1>1, <1>4 DEF ReadBody, TypeInv, ReadInv
  <2>2. /\ k \in Nat \ {0} /\ k <= Len(coming)
        /\ wire'["client"] = wire["client"]
        /\ rest \in Seq(Unit)
        /\ Len(rest) + (Len(read) + k) = Len(Stream)
        /\ \A i \in 1 .. Len(rest) : rest[i] = Stream[i + (Len(read) + k)]
    BY <1>2, <2>1
  <2>3. \A i \in 1 .. Len(read) : read[i] = Stream[i]
    <3> HIDE DEF read, coming
    <3>1. \A i \in 1 .. Len(read) + Len(coming) :
             Stream[i] = IF i <= Len(read) THEN read[i] ELSE coming[i - Len(read)]
      BY <1>1, ConcatProperties
    <3> QED
      BY <1>1, <3>1
  <2>4. Len(read) + k \in Nat /\ Len(read) <= Len(read) + k
    BY <1>1, <2>2
  <2>5. CASE k >= len["server"]
    <3> DEFINE i == FirstEnd(read)
    <3>1. PICK b : Complete("server", read[i].of, b)
      BY <1>4, <2>5 DEF ReadBody
    <3>2. i \in 1 .. Len(read) /\ read[i].at = 2
      BY <1>1, <2>1, FirstEndIsLeast DEF Ends
    <3>3. read[i] = Stream[i] /\ i \in 1 .. Len(Stream) /\ i <= Len(read) + k
      <4> HIDE DEF read, coming, rest
      <4>1. \A j \in 1 .. Len(read) : j \in 1 .. Len(Stream) /\ j <= Len(read) + k
        BY <1>1, <2>2
      <4> QED
        BY <2>3, <3>2, <4>1
    <3> HIDE DEF rest, read, coming, i
    <3>4. Len(rest) + (Len(read) + k) <= Len(Stream)
      BY <1>1, <2>2
    <3> QED
      BY <2>1, <2>2, <2>4, <3>1, <3>2, <3>3, <3>4, OnceComplete DEF rest
  <2>6. CASE ~(k >= len["server"])
    <3>1. \E b : /\ body' = [body EXCEPT !["server"] = b]
                 /\ len' = [len EXCEPT !["server"] = @ - k]
                 /\ UNCHANGED <<pc, open, sendVars, header, delivered, called>>
      BY <1>4, <2>6 DEF ReadBody
    <3>2. Untouched("client") /\ header'["server"] = read /\ UNCHANGED called
      BY <1>1, <2>2, <3>1 DEF Untouched, sendVars, TypeInv, TypeOK
    <3> QED
      BY <1>1, <2>1, <2>2, <2>3, <2>4, <3>2, OnceKeeps
  <2> QED
    BY <2>5, <2>6
<1>5. CASE ReadEnd("server")
  <2>1. UNCHANGED <<wire, spoilt>> /\ coming = <<>>
    BY <1>5 DEF ReadEnd
  <2>2. /\ Stream = read /\ Len(rest) = 0
        /\ Len(read) <= Len(read) /\ Len(rest) + Len(read) = Len(Stream)
        /\ \A i \in 1 .. Len(read) : read[i] = Stream[i]
        /\ \A i \in 1 .. Len(rest) : rest[i] = Stream[i + Len(read)]
    <3>1. Stream = read
      BY <1>1, <2>1, ConcatEmptySeq
    <3>2. Len(rest) = 0
      BY <2>1
    <3> HIDE DEF read, coming, rest
    <3> QED
      BY <1>1, <3>1, <3>2
  <2>3. CASE pc["server"] = "body"
    <3>1. Goto("server", "stuck") /\ UNCHANGED <<open, sendVars, readVars, delivered, called>>
      BY <1>5, <2>3 DEF ReadEnd
    <3>2. Untouched("client") /\ header'["server"] = read /\ UNCHANGED called
      BY <1>1, <2>1, <3>1 DEF Untouched, Goto, sendVars, readVars, TypeInv, TypeOK
    <3> QED
      BY <1>1, <2>1, <2>2, <3>2, OnceKeeps
  <2>4. CASE pc["server"] = "head" /\ read # <<>>
    <3>1. HeaderDone("server", read, <<>>)
      BY <1>5, <2>4 DEF ReadEnd
    <3> QED
      BY <1>1, <2>1, <2>2, <3>1, OnceHeader
  <2>5. CASE pc["server"] = "head" /\ read = <<>>
    <3>1. Stop("server", "ended")
      BY <1>5, <2>5 DEF ReadEnd
    <3>2. header'["server"] = read /\ Untouched("client") /\ UNCHANGED called
      BY <1>1, <2>1, <2>5, <3>1, StopUntouched
    <3> QED
      BY <1>1, <2>1, <2>2, <3>2, OnceKeeps
  <2> QED
    BY <1>5, <2>3, <2>4, <2>5 DEF ReadEnd
<1>6. ASSUME Stop("server", "ended"), UNCHANGED spoilt, wire'["client"] = wire["client"],
             rest = <<>>
      PROVE  OnceInv'
  <2>1. Untouched("client") /\ UNCHANGED called /\ UNCHANGED spoilt
    BY <1>1, <1>6, StopUntouched
  <2>2. PICK none \in Seq(Unit) : none = <<>>
    BY EmptySeq
  <2>3. header'["server"] = none /\ Len(none) = 0 /\ Len(rest) = 0
    BY <1>1, <1>6, <2>2, StopUntouched
  <2> HIDE DEF rest, read, coming
  <2>4. PICK gone \in Nat : gone = Len(Stream)
    BY <1>1
  <2>5. /\ Len(none) <= gone /\ Len(rest) + gone = Len(Stream)
        /\ \A i \in 1 .. Len(none) : none[i] = Stream[i]
        /\ \A i \in 1 .. Len(rest) : rest[i] = Stream[i + gone]
    BY <1>1, <2>3, <2>4
  <2>6. none \in Seq(Unit) /\ header'["server"] = none
    BY <2>2, <2>3
  <2> QED
    BY <2>1, <2>5, <2>6, OnceKeeps DEF rest
<1>7. CASE TimeOut("server")
  BY <1>1, <1>6, <1>7 DEF TimeOut
<1>8. ASSUME NEW err \in LostConnection, ReadFails("server", err) PROVE OnceInv'
  <2>1. Stop("server", "ended") /\ wire' = [wire EXCEPT !["server"] = <<>>] /\ UNCHANGED spoilt
    BY <1>8 DEF ReadFails
  <2>2. wire'["client"] = wire["client"] /\ rest = <<>>
    BY <1>1, <2>1 DEF TypeInv, TypeOK
  <2> QED
    BY <1>6, <2>1, <2>2
<1> QED
  BY <1>3, <1>4, <1>5, <1>7, <1>8 DEF Reads

\* A side that reads leaves the other alone, and a client that reads does
\* not come to send.
LEMMA ReadsUntouched ==
    ASSUME TypeInv, NEW s \in Side, NEW t \in Side, t # s, Reads(s)
    PROVE  /\ Untouched(t) /\ pc[s] \in {"head", "body"}
           /\ UNCHANGED <<retries, faults, early, spoilt>>
           /\ s = "client" => pc'[s] # "send" /\ UNCHANGED <<msg, to_send, called>>
<1> DEFINE Claim == /\ Untouched(t)
                    /\ s = "client" => pc'[s] # "send" /\ UNCHANGED <<msg, to_send, called>>
<1>a. /\ \A r \in Side : wire[r] \in Seq(Unit) /\ header[r] \in Seq(Unit)
      /\ wire \in [Side -> Seq(Unit)]
      /\ "client" \in Side /\ "server" \in Side
  BY Sides DEF TypeInv, TypeOK
<1>1. ASSUME NEW label \in {"ended", "crashed", "stuck"}, Stop(s, label), wire'[t] = wire[t]
      PROVE  Claim
  BY <1>1, StopUntouched
<1>2. ASSUME NEW h \in Seq(Unit), NEW b, HeaderDone(s, h, b), wire'[t] = wire[t] PROVE Claim
  <2>1. ASSUME s = "server", NEW m, StartSend(s, m), ForgetRead(s),
               UNCHANGED <<open, delivered, called>>
        PROVE  Claim
    BY <1>2, <2>1, StartUntouched
  <2>2. ASSUME NEW of, Complete(s, of, b) PROVE Claim
    BY <1>2, <2>2, CompleteUntouched
  <2>3. ASSUME NEW length, AwaitBody(s, h, b, length) PROVE Claim
    BY <1>2, <2>3, AwaitUntouched
  <2> HIDE DEF Claim
  <2> QED
    BY <1>1, <1>2, <2>1, <2>2, <2>3, HeaderOutcome
<1>3. ASSUME NEW k \in 1 .. Chunk, ReadHead(s, k) PROVE Claim
  <2> DEFINE chunk == SubSeq(wire[s], 1, k)
             i == FirstEnd(chunk)
  <2>1. /\ k \in Nat \ {0} /\ k <= Len(wire[s]) /\ wire'[t] = wire[t]
    BY <1>3, ReceiveUntouched, ExchangeAssumption DEF ReadHead, Receive
  <2>2. chunk \in Seq(Unit) /\ Len(chunk) = k
    BY <1>a, <2>1, Cut
  <2>3. CASE Ends(chunk) = {}
    <3>1. /\ header' = [header EXCEPT ![s] = @ \o chunk] /\ pc[s] = "head"
          /\ UNCHANGED <<pc, open, sendVars, body, len, delivered, called>>
      BY <1>3, <2>3 DEF ReadHead
    <3> QED
      BY <2>1, <3>1 DEF Untouched, sendVars, TypeInv, TypeOK
  <2>4. CASE Ends(chunk) # {}
    <3>1. HeaderDone(s, header[s] \o SubSeq(chunk, 1, i + 1), SubSeq(chunk, i + 2, k))
      BY <1>3, <2>4 DEF ReadHead
    <3>2. i + 1 \in Nat /\ i + 1 <= Len(chunk)
      <4> HIDE DEF chunk
      <4>1. i \in 1 .. Len(chunk) - 1
        BY <2>1, <2>2, <2>4, FirstEndIsLeast
      <4> QED
        BY <2>1, <2>2, <4>1
    <3>3. header[s] \o SubSeq(chunk, 1, i + 1) \in Seq(Unit)
      BY <1>a, <2>2, <3>2, Cut, ConcatProperties
    <3> QED
      BY <1>2, <2>1, <3>1, <3>3
  <2> QED
    BY <2>3, <2>4
<1>4. ASSUME NEW k \in 1 .. Chunk, ReadBody(s, k) PROVE Claim
  <2>1. wire'[t] = wire[t] /\ pc[s] = "body"
    BY <1>4, ReceiveUntouched DEF ReadBody
  <2>2. CASE k >= len[s]
    <3>1. \E of, b : Complete(s, of, b)
      BY <1>4, <2>2 DEF ReadBody
    <3> QED
      BY <2>1, <3>1, CompleteUntouched
  <2>3. CASE ~(k >= len[s])
    <3>1. \E b : /\ body' = [body EXCEPT ![s] = b]
                 /\ len' = [len EXCEPT ![s] = @ - k]
                 /\ UNCHANGED <<pc, open, sendVars, header, delivered, called>>
      BY <1>4, <2>3 DEF ReadBody
    <3> QED
      BY <2>1, <3>1 DEF Untouched, sendVars, TypeInv, TypeOK
  <2> QED
    BY <2>2, <2>3
<1>5. ASSUME ReadEnd(s) PROVE Claim
  <2>1. wire'[t] = wire[t]
    BY <1>5 DEF ReadEnd
  <2>2. CASE pc[s] = "body"
    <3>1. Goto(s, "stuck") /\ UNCHANGED <<open, sendVars, readVars, delivered, called>>
      BY <1>5, <2>2 DEF ReadEnd
    <3>2. pc'[s] = "stuck" /\ pc'[t] = pc[t]
      BY <3>1 DEF Goto, TypeInv, TypeOK
    <3> QED
      BY <2>1, <3>1, <3>2 DEF Untouched, sendVars, readVars
  <2>3. CASE pc[s] = "head" /\ header[s] = <<>>
    <3>1. Stop(s, "ended")
      BY <1>5, <2>3 DEF ReadEnd
    <3> HIDE DEF Claim
    <3> QED
      BY <1>1, <2>1, <3>1
  <2>4. CASE pc[s] = "head" /\ header[s] # <<>>
    <3>1. HeaderDone(s, header[s], <<>>)
      BY <1>5, <2>4 DEF ReadEnd
    <3> HIDE DEF Claim
    <3> QED
      BY <1>2, <1>a, <2>1, <3>1
  <2> QED
    BY <1>5, <2>2, <2>3, <2>4 DEF ReadEnd
<1>6. ASSUME TimeOut(s) PROVE Claim
  <2>1. Stop(s, "ended") /\ wire'[t] = wire[t]
    BY <1>6 DEF TimeOut
  <2> HIDE DEF Claim
  <2> QED
    BY <1>1, <2>1
<1>7. ASSUME NEW err \in LostConnection, ReadFails(s, err) PROVE Claim
  <2>1. Stop(s, "ended") /\ wire' = [wire EXCEPT ![s] = <<>>]
    BY <1>7, NeverRetried DEF ReadFails
  <2>2. wire'[t] = wire[t]
    BY <1>a, <2>1
  <2> QED
    BY <1>1, <2>1, <2>2
<1>8. Claim
  BY <1>3, <1>4, <1>5, <1>6, <1>7 DEF Reads
<1>9. pc[s] \in {"head", "body"} /\ UNCHANGED <<retries, faults, early, spoilt>>
  BY NeverRetried DEF Reads, ReadHead, ReadBody, ReadEnd, TimeOut, ReadFails
<1> QED
  BY <1>8, <1>9

LEMMA OnceClientReads ==
    ASSUME TypeInv, TypeInv', OnceInv, Reads("client") PROVE OnceInv'
<1>1. /\ Untouched("server") /\ pc["client"] \in {"head", "body"} /\ pc'["client"] # "send"
      /\ UNCHANGED <<msg, called, spoilt>>
  BY Sides, ReadsUntouched
<1>2. LastSent' = LastSent /\ LastSent \in Int
  BY <1>1, LastSentType DEF LastSent
<1>3. LastSent <= LastSent'
  BY <1>2
<1> QED
  BY <1>1, <1>3, OnceUntouched DEF Untouched

\* What is sent whole is the message.
LEMMA OutgoingWhole == ASSUME NEW m \in Messages PROVE Outgoing(m, Size(m)) = Units(m)
<1>1. Size(m) \in Nat
  BY SizeOfMessage
<1>2. \A i \in 1 .. Size(m) : (IF i <= Size(m) THEN Units(m)[i] ELSE Junk) = [of |-> m, at |-> i]
  BY <1>1 DEF Units
<1> QED
  BY <1>2 DEF Outgoing, Units

\* Taking away the front of a stream.
LEMMA BehindFront ==
    ASSUME NEW front \in Seq(Unit), NEW back \in Seq(Unit)
    PROVE  /\ Len(front) \in Nat /\ Len(back) + Len(front) <= Len(front \o back)
           /\ \A i \in 1 .. Len(back) :
                 back[i] = IF i <= 0 THEN (front \o back)[i] ELSE (front \o back)[i + Len(front)]
<1>1. Len(front) \in Nat /\ Len(back) \in Nat
  BY LenProperties
<1>2. /\ Len(front \o back) = Len(front) + Len(back)
      /\ \A i \in 1 .. Len(front) + Len(back) :
            (front \o back)[i] = IF i <= Len(front) THEN front[i] ELSE back[i - Len(front)]
  BY ConcatProperties
<1>3. \A i \in 1 .. Len(back) :
         /\ i + Len(front) \in 1 .. Len(front) + Len(back)
         /\ ~(i + Len(front) <= Len(front)) /\ ~(i <= 0) /\ i + Len(front) - Len(front) = i
  BY <1>1
<1>4. \A i \in 1 .. Len(back) :
         back[i] = IF i <= 0 THEN (front \o back)[i] ELSE (front \o back)[i + Len(front)]
  BY <1>2, <1>3
<1> QED
  BY <1>1, <1>2, <1>4

LEMMA OnceSentBehind ==
    ASSUME NEW read \in Seq(Unit), NEW coming \in Seq(Unit), NEW count \in Counts,
           NEW m \in Messages, Once(read \o coming, count, m.round - 1)
    PROVE  Once(read \o (coming \o Units(m)), count, m.round)
<1>1. Units(m) \in Seq(Unit)
  <2>1. Size(m) \in Nat
    BY SizeOfMessage
  <2>2. Outgoing(m, Size(m)) \in Seq(Unit)
    BY <2>1, OutgoingType
  <2> QED
    BY <2>2, OutgoingWhole
<1>2. (read \o coming) \o Units(m) = read \o (coming \o Units(m))
  BY <1>1, ConcatAssociative, SMTT(20)
<1>3. read \o coming \in Seq(Unit)
  BY ConcatProperties
<1>4. Once((read \o coming) \o Units(m), count, m.round)
  BY <1>3, OnceSent
<1> QED
  BY <1>2, <1>4

LEMMA OnceClientSends ==
    ASSUME TypeInv, TypeInv', OnceInv, Sends("client") PROVE OnceInv'
<1>a. /\ Other("client") = "server" /\ "client" \in Side /\ "server" \in Side
      /\ wire["server"] \in Seq(Unit) /\ header["server"] \in Seq(Unit)
      /\ msg["client"] \in Messages /\ to_send["client"] \in Nat /\ BodyLength \in Nat
      /\ msg["client"].round \in Nat
  <2>1. msg["client"] \in Messages
    BY Sides DEF TypeInv, TypeOK
  <2>2. msg["client"].round \in Nat /\ BodyLength \in Nat /\ MaxFaults \in Nat
    BY <2>1, SizeOfMessage, ExchangeAssumption
  <2> QED
    BY <2>1, <2>2, Sides DEF TypeInv, TypeOK
<1> SUFFICES ASSUME "server" \notin spoilt' PROVE OnceInv'
  BY DEF OnceInv
<1>1. ASSUME NEW k \in 1 .. BodyLength + 3 + MaxFaults, SendSome("client", k) PROVE OnceInv'
  <2>1. /\ k = to_send["client"] /\ "server" \notin spoilt /\ pc["client"] = "send"
        /\ pc' = [pc EXCEPT !["client"] = "head"]
        /\ UNCHANGED <<msg, called, header>>
    BY <1>a, <1>1 DEF SendSome, Goto, readVars
  <2>2. Outgoing(msg["client"], k) = Units(msg["client"])
    BY <1>a, <2>1, OutgoingWhole DEF OnceInv
  <2>3. /\ pc'["client"] = "head"
        /\ LastSent = msg["client"].round - 1 /\ LastSent' = msg["client"].round
    BY <1>a, <2>1 DEF LastSent, TypeInv, TypeOK
  <2>4. Once(Stream, called, msg["client"].round - 1)
    BY <2>1, <2>3 DEF OnceInv
  <2>5. CASE open["server"]
    <3>1. wire'["server"] = wire["server"] \o Units(msg["client"])
      BY <1>a, <1>1, <2>2, <2>5 DEF SendSome, TypeInv, TypeOK
    <3>2. Once(header["server"] \o wire["server"], called, msg["client"].round - 1)
      BY <2>4 DEF Stream
    <3>3. Stream' = header["server"] \o (wire["server"] \o Units(msg["client"]))
      BY <2>1, <3>1 DEF Stream
    <3>4. called \in Counts
      BY DEF TypeInv, TypeOK, Counts
    <3> DEFINE read == header["server"]
               coming == wire["server"]
               m == msg["client"]
    <3>5. Once(read \o (coming \o Units(m)), called, m.round)
      <4>1. /\ read \in Seq(Unit) /\ coming \in Seq(Unit) /\ m \in Messages
            /\ Once(read \o coming, called, m.round - 1)
        BY <1>a, <3>2
      <4> HIDE DEF read, coming, m
      <4> QED
        BY <3>4, <4>1, OnceSentBehind
    <3> QED
      BY <2>1, <2>3, <3>3, <3>5 DEF OnceInv
  <2>6. CASE ~open["server"]
    <3>1. wire' = wire
      BY <1>a, <1>1, <2>6 DEF SendSome
    <3>2. LastSent <= LastSent'
      BY <1>a, <2>3
    <3>3. spoilt \subseteq spoilt'
      BY <1>1 DEF SendSome
    <3> QED
      BY <2>1, <2>3, <3>1, <3>2, <3>3, OnceUntouched
  <2> QED
    BY <2>5, <2>6
<1>2. CASE SendFails("client")
  <2>1. /\ ~open["server"] /\ pc["client"] = "send" /\ Goto("client", "stuck")
        /\ UNCHANGED <<spoilt, called, header, wire, msg>>
    BY <1>a, <1>2 DEF SendFails, readVars
  <2>2. /\ pc'["client"] = "stuck"
        /\ LastSent = msg["client"].round - 1 /\ LastSent' = msg["client"].round
    BY <1>a, <2>1 DEF LastSent, Goto, TypeInv, TypeOK
  <2>3. LastSent <= LastSent'
    BY <1>a, <2>2
  <2> QED
    BY <2>1, <2>2, <2>3, OnceUntouched
<1> QED
  BY <1>1, <1>2 DEF Sends

LEMMA OnceServerSends ==
    ASSUME TypeInv, TypeInv', OnceInv, Sends("server") PROVE OnceInv'
<1>1. Other("server") = "client" /\ "client" \in Side /\ "server" \in Side
  BY Sides
<1>2. /\ pc'["client"] = pc["client"] /\ to_send'["client"] = to_send["client"]
      /\ wire'["server"] = wire["server"] /\ spoilt \subseteq spoilt'
      /\ UNCHANGED <<msg, called, header>>
  <2>1. ASSUME NEW k \in 1 .. BodyLength + 3 + MaxFaults, SendSome("server", k)
        PROVE  /\ pc'["client"] = pc["client"] /\ to_send'["client"] = to_send["client"]
               /\ wire'["server"] = wire["server"] /\ spoilt \subseteq spoilt'
               /\ UNCHANGED <<msg, called, header>>
    BY <1>1, <2>1 DEF SendSome, Goto, readVars, TypeInv, TypeOK
  <2>2. CASE SendFails("server")
    BY <1>1, <2>2 DEF SendFails, Goto, readVars, TypeInv, TypeOK
  <2> QED
    BY <2>1, <2>2 DEF Sends
<1>3. LastSent' = LastSent /\ LastSent \in Int
  BY <1>2, LastSentType DEF LastSent
<1>4. LastSent <= LastSent'
  BY <1>3
<1>5. "server" \notin spoilt' /\ pc'["client"] = "send" => to_send'["client"] = Size(msg'["client"])
  BY <1>2 DEF OnceInv
<1> QED
  BY <1>2, <1>4, <1>5, OnceUntouched

LEMMA OnceLeave ==
    ASSUME TypeInv, TypeInv', OnceInv, NEW s \in Side, Leave(s) PROVE OnceInv'
<1>1. /\ Stop(s, "ended") /\ UNCHANGED <<wire, spoilt>>
      /\ "client" \in Side /\ "server" \in Side
  BY Sides DEF Leave
<1>2. CASE s = "client"
  <2>1. Untouched("server") /\ pc'["client"] = "ended" /\ UNCHANGED <<msg, called>>
    BY <1>1, <1>2, StopUntouched
  <2>2. LastSent <= LastSent'
    <3>1. msg["client"].round \in 0 .. MaxRounds
      BY <1>1, SizeOfMessage DEF TypeInv, TypeOK
    <3> QED
      BY <2>1, <3>1 DEF LastSent
  <2> QED
    BY <1>1, <2>1, <2>2, OnceUntouched DEF Untouched
<1>3. CASE s = "server"
  <2>1. Untouched("client") /\ header'["server"] = <<>> /\ UNCHANGED called
    BY <1>1, <1>3, StopUntouched
  <2> DEFINE read == header["server"]
             coming == wire["server"]
  <2>2. read \in Seq(Unit) /\ coming \in Seq(Unit) /\ Stream = read \o coming
    BY <1>1 DEF Stream, TypeInv, TypeOK
  <2>3. Stream' = coming
    BY <1>1, <2>1, <2>2, ConcatEmptySeq DEF Stream
  <2> HIDE DEF read, coming
  <2>4. /\ Len(read) \in Nat /\ Len(Stream') + Len(read) <= Len(Stream)
        /\ \A i \in 1 .. Len(Stream') :
              Stream'[i] = IF i <= 0 THEN Stream[i] ELSE Stream[i + Len(read)]
    <3>1. /\ Len(read) \in Nat /\ Len(coming) + Len(read) <= Len(read \o coming)
          /\ \A i \in 1 .. Len(coming) :
                coming[i] = IF i <= 0 THEN (read \o coming)[i] ELSE (read \o coming)[i + Len(read)]
      BY <2>2, BehindFront
    <3> QED
      BY <2>2, <2>3, <3>1
  <2> QED
    BY <1>1, <2>1, <2>4, OnceReadOn
<1> QED
  BY <1>2, <1>3 DEF Side

LEMMA OnceRequest ==
    ASSUME TypeInv, TypeInv', OnceInv, NEW length, ClientRequest(length) PROVE OnceInv'
<1>1. /\ StartSend("client", Message(msg["client"].round + 1, length, FALSE))
      /\ UNCHANGED <<wire, header, called, spoilt>> /\ pc["client"] = "idle"
      /\ "client" \in Side
  BY Sides DEF ClientRequest, readVars
<1>2. /\ pc'["client"] = "send" /\ msg'["client"].round = msg["client"].round + 1
      /\ to_send'["client"] = Size(msg'["client"])
  BY <1>1 DEF StartSend, Goto, Message, TypeInv, TypeOK
<1>3. LastSent <= LastSent'
  <2>1. msg["client"].round \in 0 .. MaxRounds
    BY <1>1, SizeOfMessage DEF TypeInv, TypeOK
  <2> QED
    BY <1>1, <1>2, <2>1 DEF LastSent
<1> QED
  BY <1>1, <1>2, <1>3, OnceUntouched

LEMMA InitOnce == Init => OnceInv
<1> SUFFICES ASSUME Init PROVE OnceInv
  OBVIOUS
<1>1. /\ pc["client"] = "idle" /\ msg["client"] = NoMessage
      /\ header["server"] = <<>> /\ wire["server"] = <<>> /\ called = [n \in 0 .. MaxRounds |-> 0]
  BY Sides DEF Init
<1>2. Len(Stream) = 0
  BY <1>1 DEF Stream
<1>3. LastSent = 0
  BY <1>1 DEF LastSent, NoMessage, Message
<1>4. Once(Stream, called, LastSent)
  BY <1>1, <1>2, <1>3 DEF Once
<1> QED
  BY <1>1, <1>4 DEF OnceInv

LEMMA NextOnce == TypeInv /\ TypeInv' /\ OnceInv /\ [Next]_vars => OnceInv'
<1> SUFFICES ASSUME TypeInv, TypeInv', OnceInv, [Next]_vars PROVE OnceInv'
  OBVIOUS
<1>1. ASSUME NEW s \in Side, Reads(s) PROVE OnceInv'
  BY <1>1, OnceServerReads, OnceClientReads DEF Side
<1>2. ASSUME NEW s \in Side, Sends(s) PROVE OnceInv'
  BY <1>2, OnceServerSends, OnceClientSends DEF Side
<1>3. ASSUME NEW s \in Side, Leave(s) PROVE OnceInv'
  BY <1>3, OnceLeave
<1>4. ASSUME NEW length \in {0, BodyLength}, ClientRequest(length) PROVE OnceInv'
  BY <1>4, OnceRequest
<1>5. CASE UNCHANGED vars
  BY <1>5 DEF OnceInv, Stream, LastSent, vars, sendVars, readVars
<1> QED
  BY <1>1, <1>2, <1>3, <1>4, <1>5 DEF Next

\* No request meets the callback twice while requests are not spoilt, for any
\* number of requests and faults: a lost connection is never taken for one
\* of the exceptions after which send_request sends again, and of the
\* requests the server has still to read each is another one than those it
\* has handled.  (send_request, throw_exception, the loop of a server thread)
THEOREM HandledAtMostOnce == Spec => []AtMostOnce
<1>1. TypeInv /\ OnceInv => AtMostOnce
  <2> SUFFICES ASSUME OnceInv, TypeInv, "server" \notin spoilt
               PROVE  \A n \in DOMAIN called : called[n] <= 1
    BY DEF AtMostOnce
  <2> QED
    BY DEF OnceInv, Once, TypeInv, TypeOK
<1> QED
  BY <1>1, InitTypeInv, NextTypeInv, InitOnce, NextOnce, PTL DEF Spec
=============================================================================
