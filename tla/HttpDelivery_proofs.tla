------------------------ MODULE HttpDelivery_proofs ------------------------
(***************************************************************************)
(* Proofs about HttpExchange for any buffer, any length of a body and any  *)
(* number of requests and faults: messages that no fault has disturbed     *)
(* arrive whole, a response answers the request its reader waits for, and  *)
(* nothing is left between exchanges.                                      *)
(*                                                                         *)
(* A message on its way is followed unit by unit (Coming): what its reader *)
(* has, and what is still to come, are always the two parts of it around   *)
(* one position, wherever the chunks end.                                  *)
(***************************************************************************)
EXTENDS HttpExchange_proofs

-----------------------------------------------------------------------------
(* Segments of a message *)

\* The units of m from the one at a to the one at b.
Segment(m, a, b) == [i \in 1 .. b - a + 1 |-> [of |-> m, at |-> a + i - 1]]

LEMMA SegType ==
    ASSUME NEW m \in Messages, NEW a \in Nat \ {0}, NEW b \in Nat, a - 1 <= b, b <= Size(m)
    PROVE  /\ Segment(m, a, b) \in Seq(Unit) /\ Len(Segment(m, a, b)) = b - a + 1
           /\ \A i \in 1 .. b - a + 1 : Segment(m, a, b)[i] = [of |-> m, at |-> a + i - 1]
<1>1. Size(m) \in Nat /\ Size(m) <= BodyLength + 3 /\ BodyLength \in Nat
  BY SizeOfMessage
<1>2. b - a + 1 \in Nat
  OBVIOUS
<1>3. \A i \in 1 .. b - a + 1 : a + i - 1 \in 0 .. BodyLength + 3
  BY <1>1
<1>4. \A i \in 1 .. b - a + 1 : [of |-> m, at |-> a + i - 1] \in Unit
  BY <1>3, UnitType
<1>5. Segment(m, a, b) \in [1 .. b - a + 1 -> Unit]
  BY <1>4 DEF Segment
<1> QED
  BY <1>2, <1>5, SeqOfUnits DEF Segment

LEMMA SameUnits ==
    ASSUME NEW s \in Seq(Unit), NEW t \in Seq(Unit), Len(s) = Len(t),
           \A i \in 1 .. Len(s) : s[i] = t[i]
    PROVE  s = t
BY SeqEqual

LEMMA SegEmpty ==
    ASSUME NEW m, NEW a \in Int, NEW b \in Int, b = a - 1
    PROVE  Segment(m, a, b) = <<>>
<1>1. b - a + 1 = 0 /\ 1 .. 0 = {}
  OBVIOUS
<1> QED
  BY <1>1 DEF Segment

\* SubSeq under a name that the provers do not take apart.
Part(units, i, j) == SubSeq(units, i, j)

LEMMA SegCut ==
    ASSUME NEW m \in Messages, NEW a \in Nat \ {0}, NEW b \in Nat, a - 1 <= b, b <= Size(m),
           NEW i \in Nat \ {0}, NEW j \in Nat, i - 1 <= j, j <= b - a + 1,
           NEW c \in Nat, c = a + i - 1, NEW d \in Nat, d = a + j - 1
    PROVE  Part(Segment(m, a, b), i, j) = Segment(m, c, d)
<1> DEFINE all == Segment(m, a, b)
           part == SubSeq(all, i, j)
           seg == Segment(m, c, d)
<1>1. Size(m) \in Nat
  BY SizeOfMessage
<1>2. /\ all \in Seq(Unit) /\ Len(all) = b - a + 1
      /\ \A n \in 1 .. b - a + 1 : all[n] = [of |-> m, at |-> a + n - 1]
  BY SegType
<1>3. /\ part \in Seq(Unit) /\ Len(part) = IF i <= j THEN j - i + 1 ELSE 0
      /\ \A n \in 1 .. j - i + 1 : part[n] = all[i + n - 1]
  <2> HIDE DEF all
  <2> QED
    BY <1>2, Cut
<1>4. /\ seg \in Seq(Unit) /\ Len(seg) = d - c + 1
      /\ \A n \in 1 .. d - c + 1 : seg[n] = [of |-> m, at |-> c + n - 1]
  <2>1. c \in Nat \ {0} /\ c - 1 <= d /\ d <= Size(m)
    BY <1>1
  <2> QED
    BY <2>1, SegType
<1> HIDE DEF all, part, seg
<1>5. Len(part) = j - i + 1 /\ Len(seg) = j - i + 1
  <2>1. d - c + 1 = j - i + 1
    OBVIOUS
  <2>2. Len(part) = j - i + 1
    BY <1>3
  <2> QED
    BY <1>4, <2>1, <2>2
<1>6. ASSUME NEW n \in 1 .. j - i + 1 PROVE part[n] = seg[n]
  <2>1. /\ i + n - 1 \in 1 .. b - a + 1 /\ n \in 1 .. d - c + 1
        /\ a + (i + n - 1) - 1 = c + n - 1
    OBVIOUS
  <2> QED
    BY <1>2, <1>3, <1>4, <2>1
<1>7. part = seg
  BY <1>3, <1>4, <1>5, <1>6, SameUnits
<1> QED
  BY <1>7 DEF Part, part, all, seg

LEMMA SegJoin ==
    ASSUME NEW m \in Messages, NEW a \in Nat \ {0}, NEW b \in Nat, NEW c \in Nat,
           a - 1 <= b, b <= c, c <= Size(m), NEW e \in Nat, e = b + 1
    PROVE  Segment(m, a, b) \o Segment(m, e, c) = Segment(m, a, c)
<1> DEFINE s == Segment(m, a, b)
           t == Segment(m, e, c)
           u == Segment(m, a, c)
<1>1. b <= Size(m) /\ a - 1 <= c
  BY SizeOfMessage
<1>2. /\ s \in Seq(Unit) /\ Len(s) = b - a + 1
      /\ \A n \in 1 .. b - a + 1 : s[n] = [of |-> m, at |-> a + n - 1]
  BY <1>1, SegType
<1>3. /\ t \in Seq(Unit) /\ Len(t) = c - e + 1
      /\ \A n \in 1 .. c - e + 1 : t[n] = [of |-> m, at |-> e + n - 1]
  <2>1. e \in Nat \ {0} /\ e - 1 <= c
    OBVIOUS
  <2> QED
    BY <2>1, SegType
<1>4. /\ u \in Seq(Unit) /\ Len(u) = c - a + 1
      /\ \A n \in 1 .. c - a + 1 : u[n] = [of |-> m, at |-> a + n - 1]
  BY <1>1, SegType
<1> HIDE DEF s, t, u
<1>5. /\ s \o t \in Seq(Unit) /\ Len(s \o t) = Len(s) + Len(t)
      /\ \A n \in 1 .. Len(s) + Len(t) : (s \o t)[n] = IF n <= Len(s) THEN s[n] ELSE t[n - Len(s)]
  BY <1>2, <1>3, ConcatProperties
<1>6. Len(s \o t) = c - a + 1 /\ Len(s) + Len(t) = c - a + 1
  BY <1>2, <1>3, <1>5
<1>7. ASSUME NEW n \in 1 .. c - a + 1 PROVE (s \o t)[n] = u[n]
  <2>1. CASE n <= b - a + 1
    <3>1. n \in 1 .. b - a + 1 /\ n <= Len(s) /\ n \in 1 .. Len(s) + Len(t)
      BY <1>2, <1>6, <2>1
    <3>2. (s \o t)[n] = s[n]
      BY <1>5, <3>1
    <3> QED
      BY <1>2, <1>4, <3>1, <3>2
  <2>2. CASE ~(n <= b - a + 1)
    <3> DEFINE l == b - a + 1
    <3>1. n - l \in 1 .. c - e + 1 /\ e + (n - l) - 1 = a + n - 1
      BY <2>2
    <3>2. Len(s) = l
      BY <1>2
    <3> QED
      BY <1>3, <1>4, <1>5, <1>6, <2>2, <3>1, <3>2
  <2> QED
    BY <2>1, <2>2
<1>8. s \o t = u
  BY <1>4, <1>5, <1>6, <1>7, SameUnits
<1> QED
  BY <1>8 DEF s, t, u

LEMMA SegWhole ==
    ASSUME NEW m \in Messages
    PROVE  Units(m) = Segment(m, 1, Size(m)) /\ Body(m) = Segment(m, 4, Size(m))
<1>1. Size(m) \in Nat /\ 3 <= Size(m)
  BY SizeOfMessage
<1>2. Units(m) = Segment(m, 1, Size(m))
  <2>1. Size(m) - 1 + 1 = Size(m) /\ \A i \in 1 .. Size(m) : 1 + i - 1 = i
    BY <1>1
  <2> QED
    BY <2>1 DEF Units, Segment
<1>3. SubSeq(Segment(m, 1, Size(m)), 4, Size(m)) = Segment(m, 4, Size(m))
  <2>1. PICK one \in Nat \ {0}, four \in Nat \ {0}, size \in Nat :
           one = 1 /\ four = 4 /\ size = Size(m)
    BY <1>1
  <2>2. /\ one - 1 <= size /\ size <= Size(m) /\ four - 1 <= size /\ size <= size - one + 1
        /\ four = one + four - 1 /\ size = one + size - 1
    BY <1>1, <2>1
  <2>3. Part(Segment(m, one, size), four, size) = Segment(m, four, size)
    BY <2>2, SegCut
  <2> QED
    BY <2>1, <2>3 DEF Part
<1> QED
  BY <1>1, <1>2, <1>3 DEF Body

\* The header of a segment ends where the message's does, if it does in it.
LEMMA SegEnds ==
    ASSUME NEW m \in Messages, NEW a \in Nat \ {0}, NEW b \in Nat, a - 1 <= b, b <= Size(m)
    PROVE  Ends(Segment(m, a, b)) = IF a <= 2 /\ 3 <= b THEN {3 - a} ELSE {}
<1> DEFINE s == Segment(m, a, b)
<1>1. /\ Len(s) = b - a + 1
      /\ \A n \in 1 .. b - a + 1 : s[n] = [of |-> m, at |-> a + n - 1]
  BY SegType
<1> HIDE DEF s
<1>2. ASSUME NEW n \in 1 .. Len(s) - 1
      PROVE  s[n].at = 2 /\ s[n + 1].at = 3 <=> n = 3 - a
  <2>1. n \in 1 .. b - a + 1 /\ n + 1 \in 1 .. b - a + 1
    BY <1>1
  <2>2. s[n] = [of |-> m, at |-> a + n - 1] /\ s[n + 1] = [of |-> m, at |-> a + (n + 1) - 1]
    <3> DEFINE l == n + 1
    <3>1. l \in 1 .. b - a + 1
      BY <2>1
    <3> HIDE DEF l
    <3>2. s[l] = [of |-> m, at |-> a + l - 1]
      BY <1>1, <3>1
    <3> QED
      BY <1>1, <2>1, <3>2 DEF l
  <2> QED
    BY <2>2
<1>3. Ends(s) = {n \in 1 .. Len(s) - 1 : n = 3 - a}
  BY <1>2 DEF Ends
<1>4. 3 - a \in 1 .. Len(s) - 1 <=> a <= 2 /\ 3 <= b
  BY <1>1
<1> QED
  BY <1>3, <1>4 DEF s

-----------------------------------------------------------------------------
(* What a side makes of a header that is as it was sent *)

LEMMA SegParses ==
    ASSUME NEW m \in Messages, NEW b \in 3 .. Size(m), NEW h, h = Segment(m, 1, b)
    PROVE  /\ h \in Seq(Unit) /\ Ends(h) # {} /\ h[FirstEnd(h)].of = m
           /\ Parses(h) = {Parsed("length", m.length)}
<1>1. b \in Nat /\ b <= Size(m)
  BY SizeOfMessage
<1>2. h \in Seq(Unit) /\ Len(h) = b /\ \A i \in 1 .. b : h[i] = [of |-> m, at |-> i]
  <2>1. PICK one \in Nat \ {0} : one = 1
    OBVIOUS
  <2>2. one - 1 <= b /\ b - one + 1 = b /\ \A i \in 1 .. b : one + i - 1 = i
    BY <1>1, <2>1
  <2>3. /\ Segment(m, one, b) \in Seq(Unit) /\ Len(Segment(m, one, b)) = b - one + 1
        /\ \A i \in 1 .. b - one + 1 : Segment(m, one, b)[i] = [of |-> m, at |-> one + i - 1]
    BY <1>1, <2>2, SegType
  <2> QED
    BY <2>1, <2>2, <2>3
<1>a. ASSUME NEW i \in 1 .. b PROVE h[i].at = i /\ h[i].of = m
  <2>1. h[i] = [of |-> m, at |-> i]
    BY <1>2
  <2> QED
    BY <2>1
<1>3. Ends(h) = {2}
  <2>1. \A i \in 1 .. b - 1 : h[i].at = i /\ h[i + 1].at = i + 1
    <3>1. \A i \in 1 .. b : h[i].at = i
      BY <1>a
    <3>2. \A i \in 1 .. b - 1 : i \in 1 .. b /\ i + 1 \in 1 .. b
      BY <1>1
    <3> QED
      BY <3>1, <3>2
  <2>2. 2 \in 1 .. b - 1
    OBVIOUS
  <2> QED
    BY <1>2, <2>1, <2>2 DEF Ends
<1>4. FirstEnd(h) = 2
  BY <1>1, <1>2, <1>3, FirstEndIsLeast
<1>5. h[FirstEnd(h)].of = m
  <2>1. 2 \in 1 .. b
    BY <1>1
  <2>2. h[2].of = m
    BY <1>a, <2>1
  <2> QED
    BY <1>4, <2>2
<1>6. SubSeq(h, 1, FirstEnd(h) - 1) = <<[of |-> m, at |-> 1]>>
  <2> DEFINE first == <<[of |-> m, at |-> 1]>>
             head == SubSeq(h, 1, 1)
  <2>1. first \in Seq(Unit) /\ Len(first) = 1 /\ first[1] = [of |-> m, at |-> 1]
    <3>1. [of |-> m, at |-> 1] \in Unit
      BY UnitType, SizeOfMessage
    <3> QED
      BY <3>1
  <2>2. head \in Seq(Unit) /\ Len(head) = 1 /\ head[1] = h[1]
    <3>1. /\ head \in Seq(Unit) /\ Len(head) = IF 1 <= 1 THEN 1 - 1 + 1 ELSE 0
          /\ \A i \in 1 .. 1 - 1 + 1 : head[i] = h[1 + i - 1]
      BY <1>1, <1>2, Cut
    <3> QED
      BY <3>1
  <2>3. h[1] = [of |-> m, at |-> 1]
    BY <1>1, <1>2
  <2>4. head = first
    <3> HIDE DEF head, first
    <3>1. \A i \in 1 .. Len(head) : head[i] = first[i]
      BY <2>1, <2>2, <2>3
    <3> QED
      BY <2>1, <2>2, <3>1, SameUnits
  <2> QED
    BY <1>4, <2>4
<1>7. Parses(h) = {Parsed("length", m.length)}
  BY <1>3, <1>5, <1>6, Zenon DEF Parses
<1> QED
  BY <1>2, <1>3, <1>5, <1>7

LEMMA SegHeader ==
    ASSUME NEW s \in Side, NEW m \in Messages, NEW n \in 3 .. Size(m),
           NEW h, h = Segment(m, 1, n), NEW b, HeaderDone(s, h, b)
    PROVE  IF m.length <= Len(b) THEN Complete(s, m, b) ELSE AwaitBody(s, h, b, m.length)
<1>1. /\ h \in Seq(Unit) /\ Ends(h) # {} /\ h[FirstEnd(h)].of = m
      /\ Parses(h) = {Parsed("length", m.length)}
  BY SegParses
<1>2. \A p \in Parses(h) : p.kind = "length" /\ p.length = m.length
  BY <1>1 DEF Parsed
<1>3. \E p \in Parses(h) : /\ Ends(h) # {} /\ p.kind # "crash"
                           /\ IF p.length <= Len(b) THEN Complete(s, h[FirstEnd(h)].of, b)
                              ELSE AwaitBody(s, h, b, p.length)
  BY <1>1, <1>2, HeaderOutcome
<1> QED
  BY <1>1, <1>2, <1>3

-----------------------------------------------------------------------------
(* A message on its way *)

\* s has the first j units of m, and the others are on their way.
At(s, m, j) ==
    /\ wire[s] = Segment(m, j + 1, Size(m))
    /\ \/ pc[s] = "head" /\ header[s] = Segment(m, 1, j)
       \/ /\ pc[s] = "body" /\ header[s] = Segment(m, 1, 3) /\ body[s] = Segment(m, 4, j)
          /\ 3 <= j /\ j < Size(m) /\ len[s] = Size(m) - j
       \/ pc[s] = "body" /\ header[s] = Units(m) /\ j = Size(m) /\ ~open[Other(s)]

Coming(s, m) == \E j \in 0 .. Size(m) : At(s, m, j)

\* Nothing of a message has come yet, and nothing is on its way.
Waits(s) == pc[s] = "head" /\ header[s] = <<>> /\ wire[s] = <<>>

\* What k of the units on their way are, and what is left of them.
LEMMA SegReceive ==
    ASSUME TypeInv, NEW s \in Side, NEW m \in Messages, NEW j \in 0 .. Size(m), At(s, m, j),
           NEW k \in 1 .. Chunk, Receive(s, k)
    PROVE  /\ k \in Nat \ {0} /\ j + k \in 0 .. Size(m) /\ Size(m) \in Nat
           /\ SubSeq(wire[s], 1, k) = Segment(m, j + 1, j + k)
           /\ wire'[s] = Segment(m, (j + k) + 1, Size(m))
<1> DEFINE n == Size(m)
           a == j + 1
           c == j + k
           d == (j + k) + 1
           e == k + 1
           l == n - j
<1>1. n \in Nat /\ 3 <= n /\ j \in Nat /\ j <= n /\ k \in Nat \ {0}
  BY SizeOfMessage, ExchangeAssumption
<1>2. wire[s] = Segment(m, a, n) /\ Len(Segment(m, a, n)) = l
  <2>1. a \in Nat \ {0} /\ n \in Nat /\ a - 1 <= n /\ n <= Size(m) /\ n - a + 1 = l
    BY <1>1
  <2>2. wire[s] = Segment(m, a, n)
    BY DEF At
  <2> HIDE DEF a, n, l
  <2>3. Len(Segment(m, a, n)) = n - a + 1
    BY <2>1, SegType
  <2> QED
    BY <2>1, <2>2, <2>3
<1>3. k <= l /\ wire'[s] = Part(wire[s], e, l)
  <2>1. k <= Len(wire[s]) /\ wire'[s] = SubSeq(wire[s], k + 1, Len(wire[s]))
    BY DEF Receive, TypeInv, TypeOK
  <2> HIDE DEF l
  <2> QED
    BY <1>2, <2>1 DEF Part
<1>4. /\ a \in Nat \ {0} /\ n <= Size(m) /\ a - 1 <= n /\ c \in Nat /\ d \in Nat
      /\ e \in Nat \ {0} /\ l \in Nat /\ c \in 0 .. n
      /\ e - 1 <= l /\ l <= n - a + 1 /\ d = a + e - 1 /\ n = a + l - 1
      /\ 1 - 1 <= k /\ k <= n - a + 1 /\ a = a + 1 - 1 /\ c = a + k - 1
  BY <1>1, <1>3
<1> HIDE DEF n, a, c, d, e, l
<1>5. Part(Segment(m, a, n), e, l) = Segment(m, d, n)
  BY <1>1, <1>4, SegCut
<1>6. Part(Segment(m, a, n), 1, k) = Segment(m, a, c)
  <2>1. PICK one \in Nat \ {0} : one = 1
    OBVIOUS
  <2>2. one - 1 <= k /\ a = a + one - 1
    BY <1>4, <2>1
  <2>3. Part(Segment(m, a, n), one, k) = Segment(m, a, c)
    BY <1>1, <1>4, <2>2, SegCut
  <2> QED
    BY <2>1, <2>3
<1>7. Part(wire[s], 1, k) = Segment(m, a, c) /\ wire'[s] = Segment(m, d, n)
  BY <1>2, <1>3, <1>5, <1>6
<1> QED
  BY <1>1, <1>4, <1>7 DEF Part, n, a, c, d

\* Some properties of the numbers that follow.
LEMMA SegSizes ==
    ASSUME NEW m \in Messages
    PROVE  /\ Size(m) \in Nat /\ 3 <= Size(m) /\ m.length \in Nat /\ Size(m) = 3 + m.length
           /\ Len(Body(m)) = m.length /\ Len(Units(m)) = Size(m)
<1>1. Size(m) \in Nat /\ 3 <= Size(m) /\ m.length \in Nat /\ Size(m) = 3 + m.length
  BY SizeOfMessage
<1>2. PICK one \in Nat \ {0}, four \in Nat \ {0}, size \in Nat :
         one = 1 /\ four = 4 /\ size = Size(m)
  BY <1>1
<1>3. /\ four - 1 <= size /\ size <= Size(m) /\ size - four + 1 = m.length
      /\ one - 1 <= size /\ size - one + 1 = size
  BY <1>1, <1>2
<1>4. /\ Len(Segment(m, four, size)) = size - four + 1
      /\ Len(Segment(m, one, size)) = size - one + 1
  BY <1>3, SegType
<1> QED
  BY <1>1, <1>2, <1>3, <1>4, SegWhole

\* The units that come complete the message or leave it on its way.
LEMMA ComingReceives ==
    ASSUME TypeInv, NEW s \in Side, NEW t \in Side, t # s, NEW m \in Messages,
           NEW j \in 0 .. Size(m), At(s, m, j),
           NEW k \in 1 .. Chunk, ReadHead(s, k) \/ ReadBody(s, k)
    PROVE  \/ pc'[s] \in {"head", "body"} /\ delivered' = delivered /\ Coming(s, m)'
           \/ Complete(s, m, Body(m)) /\ wire'[s] = <<>>
<1> DEFINE n == Size(m)
           c == j + k
           a == j + 1
<1>1. /\ n \in Nat /\ 3 <= n /\ m.length \in Nat /\ n = 3 + m.length /\ Receive(s, k)
      /\ header[s] \in Seq(Unit)
  BY SegSizes DEF ReadHead, ReadBody, TypeInv, TypeOK
<1>2. /\ k \in Nat \ {0} /\ c \in 0 .. n
      /\ SubSeq(wire[s], 1, k) = Segment(m, a, c)
      /\ wire'[s] = Segment(m, c + 1, n)
      /\ wire'[t] = wire[t]
  BY <1>1, SegReceive, ReceiveUntouched
<1>3. c = n => wire'[s] = <<>>
  <2>1. PICK next \in Int : next = n + 1
    BY <1>1
  <2>2. Segment(m, next, n) = <<>>
    <3> HIDE DEF n
    <3>1. n = next - 1 /\ n \in Int
      BY <1>1, <2>1
    <3> QED
      BY <3>1, SegEmpty
  <2> QED
    BY <1>2, <2>1, <2>2
<1>4. /\ a \in Nat \ {0} /\ c \in Nat /\ a - 1 <= c /\ c <= n /\ a = j + 1 /\ j \in Nat /\ j <= c
      /\ c <= Size(m) /\ n <= Size(m)
  BY <1>1, <1>2
<1>5. ASSUME NEW x \in Nat \ {0}, x - 1 <= j
      PROVE  Segment(m, x, j) \o Segment(m, a, c) = Segment(m, x, c)
  <2> HIDE DEF a, c, n
  <2> QED
    BY <1>4, <1>5, SegJoin
<1>6. CASE pc[s] = "head"
  <2> DEFINE chunk == SubSeq(wire[s], 1, k)
             i == FirstEnd(chunk)
  <2>1. header[s] = Segment(m, 1, j) /\ ReadHead(s, k)
    BY <1>6 DEF At, ReadBody
  <2>2. chunk = Segment(m, a, c)
    BY <1>2
  <2>3. Ends(chunk) = IF a <= 2 /\ 3 <= c THEN {3 - a} ELSE {}
    <3> HIDE DEF a, c, n
    <3> QED
      BY <1>4, <2>2, SegEnds
  <2>4. CASE Ends(chunk) = {}
    <3>1. /\ header' = [header EXCEPT ![s] = @ \o chunk]
          /\ UNCHANGED <<pc, open, sendVars, body, len, delivered, called>>
      BY <2>1, <2>4 DEF ReadHead
    <3>2. header'[s] = Segment(m, 1, c)
      <4>1. header'[s] = header[s] \o chunk
        BY <3>1 DEF TypeInv, TypeOK
      <4>2. PICK one \in Nat \ {0} : one = 1
        OBVIOUS
      <4>3. one - 1 <= j
        BY <1>4, <4>2
      <4>4. Segment(m, one, j) \o Segment(m, a, c) = Segment(m, one, c)
        BY <1>5, <4>3
      <4> QED
        BY <2>1, <2>2, <4>1, <4>2, <4>4
    <3>3. pc'[s] = "head" /\ delivered' = delivered
      BY <1>6, <3>1
    <3> HIDE DEF a, c, n
    <3>4. At(s, m, c)'
      BY <1>2, <3>2, <3>3 DEF At, n
    <3> QED
      BY <1>2, <3>3, <3>4 DEF Coming, n
  <2>5. CASE Ends(chunk) # {}
    <3> DEFINE g == header[s] \o SubSeq(chunk, 1, i + 1)
               b == SubSeq(chunk, i + 2, k)
    <3>1. HeaderDone(s, g, b)
      BY <2>1, <2>5 DEF ReadHead
    <3>2. a <= 2 /\ 3 <= c /\ i = 3 - a
      <4>1. a <= 2 /\ 3 <= c /\ Ends(chunk) = {3 - a}
        BY <2>3, <2>5
      <4>2. Len(chunk) \in Nat
        <5>1. Len(Segment(m, a, c)) = c - a + 1
          <6> HIDE DEF a, c, n
          <6> QED
            BY <1>4, SegType
        <5> QED
          BY <1>4, <2>2, <5>1
      <4>3. i \in Ends(chunk)
        BY <4>2, <2>5, FirstEndIsLeast
      <4> QED
        BY <4>1, <4>3
    <3>a. /\ j \in Nat /\ j <= 1 /\ i = 2 - j /\ a = j + 1 /\ c = j + k /\ k \in Nat
          /\ 3 <= c /\ c <= n /\ n \in Nat /\ c \in Nat
      <4>1. c = j + k
        OBVIOUS
      <4> HIDE DEF a, c, n, i
      <4> QED
        BY <1>1, <1>2, <1>4, <3>2, <4>1
    <3>b. 3 - j \in Nat /\ i + 2 \in Nat \ {0} /\ i + 1 = 3 - j
      BY <3>a
    <3>3. PICK one \in Nat \ {0}, three \in Nat, four \in Nat, f \in Nat \ {0}, l \in Nat :
             one = 1 /\ three = 3 /\ four = 4 /\ f = i + 2 /\ l = 3 - j
      BY <3>b
    <3> HIDE DEF a, c, n, i
    <3>4. /\ one - 1 <= l /\ l <= c - a + 1 /\ a = a + one - 1 /\ three = a + l - 1
          /\ f - 1 <= k /\ k <= c - a + 1 /\ four = a + f - 1 /\ c = a + k - 1
          /\ one - 1 <= j /\ j <= three /\ three <= n /\ i + 1 = l
      BY <3>a, <3>3
    <3>5. g = Segment(m, 1, 3)
      <4>1. Part(Segment(m, a, c), one, l) = Segment(m, a, three)
        BY <1>4, <3>4, SegCut
      <4>2. Segment(m, one, j) \o Segment(m, a, three) = Segment(m, one, three)
        <5>1. three <= Size(m)
          BY <3>4 DEF n
        <5>2. /\ a \in Nat /\ j \in Nat /\ three \in Nat /\ one - 1 <= j /\ j <= three
              /\ three <= Size(m) /\ a = j + 1
          BY <1>4, <3>a, <3>4, <5>1
        <5> QED
          BY <5>2, SegJoin
      <4>3. SubSeq(chunk, 1, i + 1) = Part(Segment(m, a, c), one, l)
        BY <2>2, <3>3, <3>4 DEF Part
      <4> QED
        BY <2>1, <3>3, <4>1, <4>2, <4>3
    <3>6. b = Segment(m, 4, c) /\ Len(b) = c - 3
      <4>1. Part(Segment(m, a, c), f, k) = Segment(m, four, c)
        BY <1>4, <3>a, <3>4, SegCut
      <4>2. b = Part(Segment(m, a, c), f, k)
        BY <2>2, <3>3 DEF Part
      <4>3. Len(Segment(m, four, c)) = c - four + 1
        <5>1. four \in Nat \ {0} /\ four - 1 <= c
          BY <3>2, <3>3
        <5> QED
          BY <1>4, <5>1, SegType
      <4>4. c - 4 + 1 = c - 3
        BY <1>4
      <4> QED
        BY <3>3, <4>1, <4>2, <4>3, <4>4
    <3> HIDE DEF g, b
    <3>7. IF m.length <= Len(b) THEN Complete(s, m, b) ELSE AwaitBody(s, g, b, m.length)
      <4>1. three \in 3 .. Size(m) /\ g = Segment(m, 1, three)
        BY <3>a, <3>3, <3>5 DEF n
      <4> QED
        BY <3>1, <4>1, SegHeader
    <3>8. CASE c = n
      <4>1. m.length <= Len(b) /\ b = Body(m)
        <5>1. m.length \in Nat /\ n = 3 + m.length
          BY <1>1
        <5>2. m.length <= Len(b)
          BY <3>a, <3>6, <3>8, <5>1
        <5>3. b = Segment(m, 4, Size(m))
          BY <3>6, <3>8 DEF n
        <5> QED
          BY <5>2, <5>3, SegWhole
      <4> QED
        BY <1>3, <3>7, <3>8, <4>1
    <3>9. CASE c # n
      <4>1. ~(m.length <= Len(b)) /\ c < n /\ m.length - Len(b) = n - c
        <5>1. m.length \in Nat /\ n = 3 + m.length
          BY <1>1
        <5> QED
          BY <3>a, <3>6, <3>9, <5>1
      <4>2. AwaitBody(s, g, b, m.length)
        BY <3>7, <4>1
      <4>3. /\ pc'[s] = "body" /\ header'[s] = g /\ body'[s] = b
            /\ len'[s] = m.length - Len(b) /\ UNCHANGED delivered
        BY <1>2, <4>2, AwaitUntouched
      <4>4. At(s, m, c)'
        BY <1>2, <3>2, <3>5, <3>6, <4>1, <4>3 DEF At, n
      <4> QED
        BY <1>2, <4>3, <4>4 DEF Coming, n
    <3> QED
      BY <3>8, <3>9
  <2> QED
    BY <2>4, <2>5
<1>7. CASE pc[s] = "body"
  <2> DEFINE b == body[s] \o SubSeq(wire[s], 1, k)
             h == header[s]
  <2>1. ReadBody(s, k) /\ c # j
    BY <1>2, <1>4, <1>7 DEF ReadHead
  <2>2. j < n /\ 3 <= j /\ h = Segment(m, 1, 3) /\ body[s] = Segment(m, 4, j) /\ len[s] = n - j
    <3>1. j # n
      BY <1>2, <1>4
    <3> QED
      BY <1>4, <1>7, <3>1 DEF At
  <2>3. b = Segment(m, 4, c)
    <3>1. PICK four \in Nat \ {0} : four = 4
      OBVIOUS
    <3>2. four - 1 <= j
      BY <2>2, <3>1
    <3>3. Segment(m, four, j) \o Segment(m, a, c) = Segment(m, four, c)
      BY <1>5, <3>2
    <3> QED
      BY <1>2, <2>2, <3>1, <3>3
  <2>4. h[FirstEnd(h)].of = m
    <3>1. PICK three \in 3 .. Size(m) : three = 3
      BY <1>1
    <3> HIDE DEF h
    <3>2. h = Segment(m, 1, three)
      BY <2>2, <3>1
    <3> QED
      BY <3>2, SegParses
  <2>5. CASE c = n
    <3>1. k >= len[s]
      BY <1>1, <1>4, <2>2, <2>5
    <3>2. Complete(s, h[FirstEnd(h)].of, b)
      BY <2>1, <3>1 DEF ReadBody
    <3>3. b = Body(m)
      BY <2>3, <2>5, SegWhole
    <3> QED
      BY <1>3, <2>4, <2>5, <3>2, <3>3
  <2>6. CASE c # n
    <3>1. ~(k >= len[s]) /\ c < n /\ 3 <= c /\ len[s] - k = n - c
      <4>1. /\ c = j + k /\ c \in Nat /\ n \in Nat /\ c <= n /\ c # n /\ j \in Nat /\ k \in Nat
            /\ 3 <= j /\ len[s] = n - j
        BY <1>1, <1>2, <1>4, <2>2, <2>6
      <4> HIDE DEF c, n
      <4> QED
        BY <4>1
    <3>2. /\ body' = [body EXCEPT ![s] = b] /\ len' = [len EXCEPT ![s] = @ - k]
          /\ UNCHANGED <<pc, open, sendVars, header, delivered, called>>
      BY <2>1, <3>1 DEF ReadBody
    <3>3. /\ pc'[s] = "body" /\ header'[s] = Segment(m, 1, 3) /\ body'[s] = b /\ len'[s] = n - c
          /\ delivered' = delivered
      BY <1>7, <2>2, <3>1, <3>2 DEF TypeInv, TypeOK
    <3> HIDE DEF a, c, n, b
    <3>4. At(s, m, c)'
      BY <1>2, <2>3, <3>1, <3>3 DEF At, n
    <3> QED
      BY <1>2, <3>3, <3>4 DEF Coming, n
  <2> QED
    BY <2>5, <2>6
<1> QED
  BY <1>6, <1>7 DEF ReadHead, ReadBody

\* A message on its way is read to its end or not at all, unless its sender
\* leaves.
LEMMA ComingReads ==
    ASSUME TypeInv, NEW s \in Side, NEW t \in Side, t # s, NEW m \in Messages,
           Coming(s, m), Reads(s)
    PROVE  \/ pc'[s] \in {"head", "body"} /\ delivered' = delivered /\ Coming(s, m)'
           \/ Complete(s, m, Body(m)) /\ wire'[s] = <<>>
           \/ pc'[s] \in {"ended", "stuck"} /\ delivered' = delivered
<1> DEFINE Goal == \/ pc'[s] \in {"head", "body"} /\ delivered' = delivered /\ Coming(s, m)'
                   \/ Complete(s, m, Body(m)) /\ wire'[s] = <<>>
                   \/ pc'[s] \in {"ended", "stuck"} /\ delivered' = delivered
<1> PICK j \in 0 .. Size(m) : At(s, m, j)
  BY DEF Coming
<1>1. /\ Size(m) \in Nat /\ 3 <= Size(m) /\ m.length \in Nat /\ Size(m) = 3 + m.length
      /\ Len(Units(m)) = Size(m) /\ header[s] \in Seq(Unit)
  BY SegSizes DEF TypeInv, TypeOK
<1>2. ASSUME NEW k \in 1 .. Chunk, ReadHead(s, k) \/ ReadBody(s, k) PROVE Goal
  BY <1>2, ComingReceives
<1>3. ASSUME Stop(s, "ended") PROVE Goal
  <2>1. pc'[s] = "ended" /\ delivered' = delivered
    BY <1>3 DEF Stop, Goto, TypeInv, TypeOK
  <2> QED
    BY <2>1
<1>4. ASSUME ReadEnd(s) PROVE Goal
  <2>1. wire[s] = <<>> /\ ~open[Other(s)] /\ wire' = wire /\ Other(s) = t
    BY <1>4, Sides DEF ReadEnd, Side
  <2>2. j = Size(m)
    <3> DEFINE n == Size(m)
               a == j + 1
    <3>1. /\ a \in Nat \ {0} /\ n \in Nat /\ a - 1 <= n /\ n <= Size(m) /\ n - a + 1 = n - j
          /\ j \in Nat /\ j <= n
      BY <1>1
    <3>2. wire[s] = Segment(m, a, n)
      BY DEF At
    <3> HIDE DEF a, n
    <3>3. Len(wire[s]) = n - a + 1
      BY <3>1, <3>2, SegType
    <3>4. n - j = 0
      BY <2>1, <3>1, <3>3
    <3> QED
      BY <3>1, <3>4 DEF n
  <2>3. CASE pc[s] = "body"
    <3>1. Goto(s, "stuck") /\ UNCHANGED delivered
      BY <1>4, <2>3 DEF ReadEnd
    <3>2. pc'[s] = "stuck" /\ delivered' = delivered
      BY <3>1 DEF Goto, TypeInv, TypeOK
    <3> QED
      BY <3>2
  <2>4. CASE pc[s] = "head"
    <3>1. header[s] = Segment(m, 1, Size(m)) /\ header[s] = Units(m)
      BY <2>2, <2>4, SegWhole DEF At
    <3>2. header[s] # <<>>
      BY <1>1, <3>1
    <3>3. HeaderDone(s, header[s], <<>>)
      BY <1>4, <2>4, <3>2 DEF ReadEnd
    <3>4. IF m.length <= Len(<<>>) THEN Complete(s, m, <<>>)
          ELSE AwaitBody(s, header[s], <<>>, m.length)
      <4>1. PICK n \in 3 .. Size(m), none \in {<<>>} : n = Size(m) /\ none = <<>>
        BY <1>1
      <4>2. header[s] = Segment(m, 1, n) /\ HeaderDone(s, header[s], none)
        BY <3>1, <3>3, <4>1
      <4>3. IF m.length <= Len(none) THEN Complete(s, m, none)
            ELSE AwaitBody(s, header[s], none, m.length)
        BY <4>2, SegHeader
      <4> QED
        BY <4>1, <4>3
    <3>5. CASE m.length = 0
      <4>1. Complete(s, m, <<>>)
        BY <3>4, <3>5
      <4>2. Body(m) = <<>>
        <5>1. Size(m) = 4 - 1
          BY <1>1, <3>5
        <5>2. Segment(m, 4, Size(m)) = <<>>
          BY <5>1, SegEmpty
        <5> QED
          BY <5>2, SegWhole
      <4> QED
        BY <2>1, <4>1, <4>2
    <3>6. CASE m.length # 0
      <4>1. AwaitBody(s, header[s], <<>>, m.length)
        BY <1>1, <3>4, <3>6
      <4>2. pc'[s] = "body" /\ header'[s] = header[s] /\ UNCHANGED <<open, delivered>>
        BY <2>1, <4>1, AwaitUntouched
      <4>3. At(s, m, j)'
        BY <2>1, <2>2, <3>1, <4>2 DEF At
      <4> QED
        BY <4>2, <4>3 DEF Coming
    <3> QED
      BY <3>5, <3>6
  <2> QED
    BY <1>4, <2>3, <2>4 DEF ReadEnd
<1>5. ASSUME NEW err \in LostConnection, ReadFails(s, err) PROVE Goal
  BY <1>3, <1>5, NeverRetried DEF ReadFails
<1>6. ASSUME TimeOut(s) PROVE Goal
  BY <1>3, <1>6 DEF TimeOut
<1> HIDE DEF Goal
<1>7. Goal
  BY <1>2, <1>4, <1>5, <1>6 DEF Reads
<1> QED
  BY <1>7 DEF Goal

\* A side that waits, with nothing on its way, can only give up.
LEMMA WaitsReads ==
    ASSUME TypeInv, NEW s \in Side, Waits(s), Reads(s)
    PROVE  Stop(s, "ended") /\ wire'[s] = <<>>
<1>1. wire[s] = <<>> /\ pc[s] = "head" /\ header[s] = <<>>
  BY DEF Waits
<1>2. ASSUME NEW k \in 1 .. Chunk, Receive(s, k) PROVE FALSE
  BY <1>1, <1>2, ExchangeAssumption DEF Receive
<1>3. CASE ReadEnd(s)
  BY <1>1, <1>3 DEF ReadEnd
<1>4. CASE TimeOut(s)
  BY <1>1, <1>4 DEF TimeOut
<1>5. ASSUME NEW err \in LostConnection, ReadFails(s, err)
      PROVE  Stop(s, "ended") /\ wire'[s] = <<>>
  BY <1>5, NeverRetried DEF ReadFails, TypeInv, TypeOK
<1> QED
  BY <1>2, <1>3, <1>4, <1>5 DEF Reads, ReadHead, ReadBody

-----------------------------------------------------------------------------
(* What holds of requests, and of responses, while nothing disturbs them *)

\* A request goes out only to a server that waits for it, and the server has
\* nothing but this request before it until it has sent its response.
RequestInv ==
    "server" \notin spoilt /\ ~early =>
        /\ pc["server"] \notin {"crashed", "idle"}
        /\ pc["client"] = "send" =>
             /\ to_send["client"] = Size(msg["client"])
             /\ Waits("server") \/ pc["server"] \in {"ended", "stuck"}
        /\ pc["server"] \in {"head", "body"} =>
             \/ Waits("server")
             \/ Coming("server", msg["client"]) /\ pc["client"] # "send"
        /\ pc["server"] = "send" => wire["server"] = <<>>
        /\ delivered["server"].of # NoMessage =>
             delivered["server"].body = Body(delivered["server"].of)

\* The server has nothing to read and nothing to send.
Settled == /\ wire["server"] = <<>> /\ header["server"] = <<>> /\ body["server"] = <<>>
           /\ pc["server"] \notin {"body", "send"}

SameRound == msg["server"].round = msg["client"].round

\* The response that comes to a client that waits is that to its request,
\* and once it comes the server has nothing left of the exchange.
ResponseInv ==
    spoilt = {} =>
        /\ ~early
        /\ pc["client"] # "crashed"
        /\ pc["client"] \in {"idle", "send"} => Settled /\ wire["client"] = <<>>
        /\ pc["server"] = "send" =>
             /\ to_send["server"] = Size(msg["server"])
             /\ pc["client"] \in {"head", "body"} => SameRound /\ Waits("client")
        /\ pc["client"] \in {"head", "body"} =>
             \/ Waits("client")
             \/ Coming("client", msg["server"]) /\ Settled /\ SameRound
        /\ delivered["client"].of # NoMessage =>
             /\ delivered["client"].body = Body(delivered["client"].of)
             /\ pc["client"] = "idle" => delivered["client"].of.round = msg["client"].round

\* A side that is left alone waits on, and a message on its way to it stays.
LEMMA WaitsUntouched == ASSUME NEW s \in Side, Untouched(s) PROVE Waits(s)' = Waits(s)
BY DEF Waits, Untouched

LEMMA ComingUntouched ==
    ASSUME NEW s \in Side, NEW t \in Side, t # s, NEW m, Untouched(s), open'[t] => open[t],
           Coming(s, m)
    PROVE  Coming(s, m)'
<1> PICK j \in 0 .. Size(m) : At(s, m, j)
  BY DEF Coming
<1>1. Other(s) = t
  BY Sides DEF Side
<1>2. At(s, m, j)'
  BY <1>1 DEF At, Untouched
<1> QED
  BY <1>2 DEF Coming

\* A message that has gone out whole to a side that waits is on its way.
LEMMA ComingSent ==
    ASSUME NEW s \in Side, NEW m \in Messages, Waits(s),
           pc'[s] = pc[s], header'[s] = header[s], wire'[s] = Units(m)
    PROVE  Coming(s, m)'
<1>1. Size(m) \in Nat
  BY SizeOfMessage
<1>2. PICK none \in 0 .. Size(m) : none = 0
  BY <1>1
<1>3. Segment(m, 1, none) = <<>>
  BY <1>2, SegEmpty
<1>4. At(s, m, none)'
  <2>1. wire'[s] = Segment(m, none + 1, Size(m))
    BY <1>2, SegWhole
  <2>2. pc'[s] = "head" /\ header'[s] = Segment(m, 1, none)
    BY <1>3 DEF Waits
  <2> QED
    BY <2>1, <2>2 DEF At
<1> QED
  BY <1>4 DEF Coming

\* What a server makes of what it reads: it waits, and gives up, or it
\* answers the request of the client, or it goes on reading, or it is gone.
LEMMA RequestRead ==
    ASSUME TypeInv, RequestInv, "server" \notin spoilt, ~early, Reads("server")
    PROVE  \/ Waits("server") /\ Stop("server", "ended") /\ wire'["server"] = <<>>
           \/ /\ pc["client"] # "send"
              /\ \/ /\ pc'["server"] \in {"head", "body"} /\ delivered' = delivered
                    /\ Coming("server", msg["client"])'
                 \/ /\ Complete("server", msg["client"], Body(msg["client"]))
                    /\ wire'["server"] = <<>>
                 \/ pc'["server"] \in {"ended", "stuck"} /\ delivered' = delivered
<1>1. "client" \in Side /\ "server" \in Side /\ "client" # "server"
  BY Sides
<1>2. Untouched("client") /\ pc["server"] \in {"head", "body"}
  BY <1>1, ReadsUntouched
<1>3. CASE Waits("server")
  BY <1>1, <1>3, WaitsReads
<1>4. CASE ~Waits("server")
  <2>1. Coming("server", msg["client"]) /\ pc["client"] # "send"
    BY <1>2, <1>4 DEF RequestInv
  <2>2. PICK m \in Messages : m = msg["client"]
    BY <1>1 DEF TypeInv, TypeOK
  <2>3. msg'["client"] = m
    BY <1>2, <2>2 DEF Untouched
  <2>4. \/ pc'["server"] \in {"head", "body"} /\ delivered' = delivered /\ Coming("server", m)'
        \/ Complete("server", m, Body(m)) /\ wire'["server"] = <<>>
        \/ pc'["server"] \in {"ended", "stuck"} /\ delivered' = delivered
    BY <1>1, <2>1, <2>2, ComingReads
  <2>5. Coming("server", m)' => Coming("server", msg["client"])'
    BY <2>3 DEF Coming, At
  <2> QED
    BY <2>1, <2>2, <2>4, <2>5
<1> QED
  BY <1>3, <1>4

LEMMA RequestServerReads ==
    ASSUME TypeInv, RequestInv, Reads("server") PROVE RequestInv'
<1>1. "client" \in Side /\ "server" \in Side /\ "client" # "server"
  BY Sides
<1>2. Untouched("client") /\ UNCHANGED <<early, spoilt>>
  BY <1>1, ReadsUntouched
<1>a. /\ pc'["client"] = pc["client"] /\ to_send'["client"] = to_send["client"]
      /\ msg'["client"] = msg["client"]
  BY <1>2 DEF Untouched
<1> SUFFICES ASSUME "server" \notin spoilt, ~early PROVE RequestInv'
  BY <1>2 DEF RequestInv
<1>3. ASSUME Waits("server"), Stop("server", "ended"), wire'["server"] = <<>> PROVE RequestInv'
  <2>1. pc'["server"] = "ended" /\ delivered' = delivered
    BY <1>1, <1>3 DEF Stop, Goto, TypeInv, TypeOK
  <2> QED
    BY <1>a, <2>1 DEF RequestInv
<1>4. ASSUME pc["client"] # "send", pc'["server"] \in {"head", "body"}, delivered' = delivered,
             Coming("server", msg["client"])'
      PROVE  RequestInv'
  BY <1>a, <1>4 DEF RequestInv
<1>5. ASSUME pc["client"] # "send", wire'["server"] = <<>>,
             Complete("server", msg["client"], Body(msg["client"]))
      PROVE  RequestInv'
  <2>1. wire'["client"] = wire["client"]
    BY <1>2 DEF Untouched
  <2>2. /\ pc'["server"] = "send"
        /\ delivered'["server"] = [of |-> msg["client"], body |-> Body(msg["client"])]
    BY <1>1, <1>5, <2>1, CompleteUntouched
  <2> QED
    BY <1>a, <1>5, <2>2 DEF RequestInv
<1>6. ASSUME pc["client"] # "send", pc'["server"] \in {"ended", "stuck"}, delivered' = delivered
      PROVE  RequestInv'
  BY <1>a, <1>6 DEF RequestInv
<1> QED
  BY <1>3, <1>4, <1>5, <1>6, RequestRead

\* The server is left alone, and so is the request that is on its way to it.
LEMMA RequestKept ==
    ASSUME TypeInv, RequestInv, Untouched("server"), open'["client"] => open["client"],
           pc'["client"] # "send", UNCHANGED msg, early => early', spoilt \subseteq spoilt'
    PROVE  RequestInv'
<1>1. "client" \in Side /\ "server" \in Side /\ "client" # "server"
  BY Sides
<1> SUFFICES ASSUME "server" \notin spoilt', ~early' PROVE RequestInv'
  BY DEF RequestInv
<1>2. "server" \notin spoilt /\ ~early
  OBVIOUS
<1>3. PICK m \in Messages : m = msg["client"]
  BY <1>1 DEF TypeInv, TypeOK
<1>4. Coming("server", msg["client"]) => Coming("server", msg["client"])'
  <2> HAVE Coming("server", msg["client"])
  <2>1. Coming("server", m)'
    BY <1>1, <1>3, ComingUntouched
  <2>2. msg'["client"] = m
    BY <1>3
  <2> QED
    BY <2>1, <2>2 DEF Coming, At
<1>5. Waits("server") => Waits("server")'
  BY <1>1, WaitsUntouched
<1>6. /\ pc'["server"] = pc["server"] /\ wire'["server"] = wire["server"]
      /\ delivered'["server"] = delivered["server"]
  BY DEF Untouched
<1> QED
  BY <1>2, <1>4, <1>5, <1>6 DEF RequestInv

LEMMA RequestClientReads ==
    ASSUME TypeInv, RequestInv, Reads("client") PROVE RequestInv'
<1>1. "client" \in Side /\ "server" \in Side /\ "client" # "server"
  BY Sides
<1>2. /\ Untouched("server") /\ pc["client"] \in {"head", "body"} /\ pc'["client"] # "send"
      /\ UNCHANGED <<msg, early, spoilt>>
  BY <1>1, ReadsUntouched
<1>3. open["client"]
  BY <1>1, <1>2 DEF TypeInv, ReadInv
<1> QED
  BY <1>2, <1>3, RequestKept

LEMMA RequestClientSends ==
    ASSUME TypeInv, RequestInv, Sends("client") PROVE RequestInv'
<1>1. /\ "client" \in Side /\ "server" \in Side /\ "client" # "server"
      /\ Other("client") = "server" /\ msg["client"] \in Messages
  BY Sides DEF TypeInv, TypeOK
<1> SUFFICES ASSUME "server" \notin spoilt', ~early' PROVE RequestInv'
  BY DEF RequestInv
<1>2. /\ pc["client"] = "send" /\ "server" \notin spoilt /\ ~early
      /\ pc'["server"] = pc["server"] /\ UNCHANGED <<msg, header, delivered, open>>
  <2>1. ASSUME NEW k, SendSome("client", k)
        PROVE  /\ pc["client"] = "send" /\ pc'["server"] = pc["server"]
               /\ UNCHANGED <<msg, header, delivered, open, early>> /\ spoilt \subseteq spoilt'
    BY <1>1, <2>1 DEF SendSome, Goto, readVars, TypeInv, TypeOK
  <2>2. ASSUME SendFails("client")
        PROVE  /\ pc["client"] = "send" /\ pc'["server"] = pc["server"]
               /\ UNCHANGED <<msg, header, delivered, open, early>> /\ spoilt \subseteq spoilt'
    BY <1>1, <2>2 DEF SendFails, Goto, readVars, TypeInv, TypeOK
  <2> QED
    BY <2>1, <2>2 DEF Sends
<1>3. /\ to_send["client"] = Size(msg["client"])
      /\ Waits("server") \/ pc["server"] \in {"ended", "stuck"}
  BY <1>2 DEF RequestInv
<1>4. ASSUME NEW k \in 1 .. BodyLength + 3 + MaxFaults, SendSome("client", k) PROVE RequestInv'
  <2>1. k = to_send["client"] /\ pc'["client"] = "head"
    BY <1>1, <1>4 DEF SendSome, Goto, TypeInv, TypeOK
  <2>2. CASE Waits("server")
    <3>1. open["server"]
      BY <1>1, <2>2 DEF Waits, TypeInv, ReadInv
    <3>2. wire'["server"] = wire["server"] \o Outgoing(msg["client"], k)
      BY <1>1, <1>4, <3>1 DEF SendSome, TypeInv, TypeOK
    <3>3. wire'["server"] = Units(msg["client"])
      <4>1. Outgoing(msg["client"], k) = Units(msg["client"])
        BY <1>1, <1>3, <2>1, OutgoingWhole
      <4>2. Outgoing(msg["client"], k) \in Seq(Unit)
        BY <1>1, OutgoingType
      <4> QED
        BY <2>2, <3>2, <4>1, <4>2, ConcatEmptySeq DEF Waits
    <3>4. Coming("server", msg["client"])'
      <4>1. PICK m \in Messages : m = msg["client"]
        BY <1>1
      <4>2. Coming("server", m)'
        BY <1>1, <1>2, <2>2, <3>3, <4>1, ComingSent
      <4>3. msg'["client"] = m
        BY <1>2, <4>1
      <4> QED
        BY <4>2, <4>3 DEF Coming, At
    <3> QED
      BY <1>2, <2>1, <2>2, <3>4 DEF RequestInv, Waits
  <2>3. CASE pc["server"] \in {"ended", "stuck"}
    BY <1>2, <2>1, <2>3 DEF RequestInv
  <2> QED
    BY <1>3, <2>2, <2>3
<1>5. CASE SendFails("client")
  <2>1. pc'["client"] = "stuck" /\ UNCHANGED wire
    BY <1>1, <1>5 DEF SendFails, Goto, TypeInv, TypeOK
  <2> QED
    BY <1>2, <1>3, <2>1 DEF RequestInv, Waits
<1> QED
  BY <1>4, <1>5 DEF Sends

LEMMA RequestServerSends ==
    ASSUME TypeInv, RequestInv, Sends("server") PROVE RequestInv'
<1>1. /\ "client" \in Side /\ "server" \in Side /\ "client" # "server"
      /\ Other("server") = "client"
  BY Sides
<1> SUFFICES ASSUME "server" \notin spoilt', ~early' PROVE RequestInv'
  BY DEF RequestInv
<1>2. /\ pc["server"] = "send" /\ "server" \notin spoilt /\ ~early
      /\ pc'["server"] \in {"send", "head", "stuck"} /\ pc'["client"] = pc["client"]
      /\ wire'["server"] = wire["server"] /\ UNCHANGED <<msg, header, delivered>>
  <2>1. ASSUME NEW k, SendSome("server", k)
        PROVE  /\ pc["server"] = "send"
               /\ pc'["server"] \in {"send", "head", "stuck"} /\ pc'["client"] = pc["client"]
               /\ wire'["server"] = wire["server"]
               /\ UNCHANGED <<msg, header, delivered, early>> /\ spoilt \subseteq spoilt'
    BY <1>1, <2>1 DEF SendSome, Goto, readVars, TypeInv, TypeOK
  <2>2. ASSUME SendFails("server")
        PROVE  /\ pc["server"] = "send"
               /\ pc'["server"] \in {"send", "head", "stuck"} /\ pc'["client"] = pc["client"]
               /\ wire'["server"] = wire["server"]
               /\ UNCHANGED <<msg, header, delivered, early>> /\ spoilt \subseteq spoilt'
    BY <1>1, <2>2 DEF SendFails, Goto, readVars, TypeInv, TypeOK
  <2> QED
    BY <2>1, <2>2 DEF Sends
<1>3. pc["client"] # "send" /\ wire["server"] = <<>> /\ header["server"] = <<>>
  BY <1>1, <1>2 DEF RequestInv, Waits, TypeInv, ReadInv
<1> QED
  BY <1>2, <1>3 DEF RequestInv, Waits

LEMMA RequestLeave ==
    ASSUME TypeInv, RequestInv, NEW s \in Side, Leave(s) PROVE RequestInv'
<1>1. /\ "client" \in Side /\ "server" \in Side /\ "client" # "server"
      /\ Stop(s, "ended") /\ UNCHANGED <<wire, early, spoilt>>
  BY Sides DEF Leave
<1>2. CASE s = "client"
  <2>1. Untouched("server") /\ pc'["client"] = "ended" /\ ~open'["client"] /\ UNCHANGED msg
    BY <1>1, <1>2, StopUntouched
  <2> QED
    BY <1>1, <2>1, RequestKept
<1>3. CASE s = "server"
  <2>1. Untouched("client") /\ pc'["server"] = "ended" /\ UNCHANGED <<msg, to_send, delivered>>
    BY <1>1, <1>3, StopUntouched
  <2> QED
    BY <1>1, <2>1 DEF RequestInv, Untouched
<1> QED
  BY <1>2, <1>3 DEF Side

LEMMA RequestRequest ==
    ASSUME TypeInv, RequestInv, NEW length, ClientRequest(length) PROVE RequestInv'
<1>1. /\ "client" \in Side /\ "server" \in Side /\ "client" # "server"
      /\ StartSend("client", Message(msg["client"].round + 1, length, FALSE))
      /\ UNCHANGED <<wire, header, delivered, spoilt>> /\ early' = (early \/ ~Through)
  BY Sides DEF ClientRequest, readVars
<1>2. /\ pc'["client"] = "send" /\ pc'["server"] = pc["server"]
      /\ to_send'["client"] = Size(msg'["client"])
  BY <1>1 DEF StartSend, Goto, TypeInv, TypeOK
<1> SUFFICES ASSUME "server" \notin spoilt', ~early' PROVE RequestInv'
  BY DEF RequestInv
<1>3. "server" \notin spoilt /\ ~early /\ Through
  BY <1>1
<1>4. Waits("server") \/ pc["server"] \in {"ended", "stuck"}
  <2>1. pc["server"] \in {"head", "stuck", "ended"}
    BY <1>1, <1>3 DEF RequestInv, Through, TypeInv, TypeOK
  <2> QED
    BY <1>3, <2>1 DEF Through, Waits
<1> QED
  BY <1>1, <1>2, <1>3, <1>4 DEF RequestInv, Waits

LEMMA InitRequest == Init => RequestInv
<1>1. "client" \in Side /\ "server" \in Side
  BY Sides
<1> QED
  BY <1>1 DEF Init, RequestInv, Waits

LEMMA NextRequest == TypeInv /\ RequestInv /\ [Next]_vars => RequestInv'
<1> SUFFICES ASSUME TypeInv, RequestInv, [Next]_vars PROVE RequestInv'
  OBVIOUS
<1>1. ASSUME NEW s \in Side, Reads(s) PROVE RequestInv'
  BY <1>1, RequestServerReads, RequestClientReads DEF Side
<1>2. ASSUME NEW s \in Side, Sends(s) PROVE RequestInv'
  BY <1>2, RequestServerSends, RequestClientSends DEF Side
<1>3. ASSUME NEW s \in Side, Leave(s) PROVE RequestInv'
  BY <1>3, RequestLeave
<1>4. ASSUME NEW length \in {0, BodyLength}, ClientRequest(length) PROVE RequestInv'
  BY <1>4, RequestRequest
<1>5. CASE UNCHANGED vars
  BY <1>5 DEF RequestInv, Waits, Coming, At, vars, sendVars, readVars
<1> QED
  BY <1>1, <1>2, <1>3, <1>4, <1>5 DEF Next

\* The answer to a request that is complete is that of its round.
LEMMA AnswerStarts ==
    ASSUME TypeInv, NEW of, NEW b, Complete("server", of, b)
    PROVE  /\ pc'["server"] = "send" /\ to_send'["server"] = Size(msg'["server"])
           /\ msg'["server"].round = of.round
<1>1. PICK length \in {0, BodyLength} : StartSend("server", Message(of.round, length, FALSE))
  BY DEF Complete
<1>2. PICK m : m = Message(of.round, length, FALSE)
  OBVIOUS
<1>3. m.round = of.round /\ "server" \in Side
  BY <1>2, Sides DEF Message
<1>4. pc'["server"] = "send" /\ msg'["server"] = m /\ to_send'["server"] = Size(m)
  BY <1>1, <1>2, <1>3 DEF StartSend, Goto, TypeInv, TypeOK
<1> QED
  BY <1>3, <1>4

LEMMA ResponseServerReads ==
    ASSUME TypeInv, RequestInv, ResponseInv, Reads("server") PROVE ResponseInv'
<1>1. "client" \in Side /\ "server" \in Side /\ "client" # "server"
  BY Sides
<1>2. Untouched("client") /\ pc["server"] \in {"head", "body"} /\ UNCHANGED <<early, spoilt>>
  BY <1>1, ReadsUntouched
<1>3. /\ pc'["client"] = pc["client"] /\ msg'["client"] = msg["client"]
      /\ wire'["client"] = wire["client"] /\ delivered'["client"] = delivered["client"]
      /\ Waits("client")' = Waits("client")
  BY <1>1, <1>2, WaitsUntouched DEF Untouched
<1> SUFFICES ASSUME spoilt = {} PROVE ResponseInv'
  BY <1>2 DEF ResponseInv
<1>4. ~early /\ "server" \notin spoilt
  BY DEF ResponseInv
<1>5. Settled => Waits("server")
  BY <1>2 DEF Settled, Waits
<1>6. ASSUME Waits("server"), Stop("server", "ended"), wire'["server"] = <<>> PROVE ResponseInv'
  <2>1. /\ pc'["server"] = "ended" /\ ~open'["server"]
        /\ header'["server"] = <<>> /\ body'["server"] = <<>> /\ UNCHANGED msg
    BY <1>1, <1>3, <1>6, StopUntouched
  <2>2. Settled'
    BY <1>6, <2>1 DEF Settled
  <2>3. Coming("client", msg["server"]) => Coming("client", msg["server"])'
    <3> HAVE Coming("client", msg["server"])
    <3>1. PICK m \in Messages : m = msg["server"]
      BY <1>1 DEF TypeInv, TypeOK
    <3>2. Coming("client", m)'
      BY <1>1, <1>2, <2>1, <3>1, ComingUntouched
    <3>3. msg'["server"] = m
      BY <2>1, <3>1
    <3> QED
      BY <3>2, <3>3 DEF Coming, At
  <2>4. SameRound' = SameRound
    BY <2>1 DEF SameRound
  <2> QED
    BY <1>2, <1>3, <1>4, <2>1, <2>2, <2>3, <2>4 DEF ResponseInv
<1>7. ASSUME ~Settled
      PROVE  /\ pc["client"] \notin {"idle", "send"}
             /\ pc["client"] \in {"head", "body"} => Waits("client")
  BY <1>7 DEF ResponseInv
<1>8. ASSUME ~Waits("server"), pc'["server"] \in {"head", "body", "ended", "stuck"}
      PROVE  ResponseInv'
  BY <1>2, <1>3, <1>4, <1>5, <1>7, <1>8 DEF ResponseInv
<1>9. ASSUME ~Waits("server"), Complete("server", msg["client"], Body(msg["client"]))
      PROVE  ResponseInv'
  <2>1. /\ pc'["server"] = "send" /\ to_send'["server"] = Size(msg'["server"])
        /\ msg'["server"].round = msg["client"].round
    BY <1>1, <1>3, <1>9, AnswerStarts
  <2>2. SameRound'
    BY <1>3, <2>1 DEF SameRound
  <2> QED
    BY <1>2, <1>3, <1>4, <1>5, <1>7, <1>9, <2>1, <2>2 DEF ResponseInv
<1>10. CASE Waits("server")
  <2>1. Stop("server", "ended") /\ wire'["server"] = <<>>
    BY <1>1, <1>10, WaitsReads
  <2> QED
    BY <1>6, <1>10, <2>1
<1>11. CASE ~Waits("server")
  BY <1>4, <1>8, <1>9, <1>11, RequestRead
<1> QED
  BY <1>10, <1>11

LEMMA ResponseClientReads ==
    ASSUME TypeInv, ResponseInv, Reads("client") PROVE ResponseInv'
<1>1. "client" \in Side /\ "server" \in Side /\ "client" # "server"
  BY Sides
<1>2. /\ Untouched("server") /\ pc["client"] \in {"head", "body"} /\ pc'["client"] # "send"
      /\ UNCHANGED <<msg, to_send, early, spoilt>>
  BY <1>1, ReadsUntouched
<1> SUFFICES ASSUME spoilt = {} PROVE ResponseInv'
  BY <1>2 DEF ResponseInv
<1>3. /\ ~early /\ Settled' = Settled /\ SameRound' = SameRound /\ pc'["server"] = pc["server"]
      /\ pc["server"] = "send" => to_send["server"] = Size(msg["server"]) /\ SameRound
  BY <1>2 DEF ResponseInv, Untouched, Settled, SameRound
<1>4. ASSUME pc'["client"] \in {"ended", "stuck"}, delivered' = delivered PROVE ResponseInv'
  BY <1>2, <1>3, <1>4 DEF ResponseInv
<1>5. CASE Waits("client")
  <2>1. Stop("client", "ended")
    BY <1>1, <1>5, WaitsReads
  <2>2. pc'["client"] = "ended" /\ delivered' = delivered
    BY <1>1, <2>1 DEF Stop, Goto, TypeInv, TypeOK
  <2> QED
    BY <1>4, <2>2
<1>6. CASE ~Waits("client")
  <2>1. Coming("client", msg["server"]) /\ Settled /\ SameRound
    BY <1>2, <1>6 DEF ResponseInv
  <2>a. pc["server"] # "send"
    BY <2>1 DEF Settled
  <2>2. PICK m \in Messages : m = msg["server"]
    BY <1>1 DEF TypeInv, TypeOK
  <2>3. \/ pc'["client"] \in {"head", "body"} /\ delivered' = delivered /\ Coming("client", m)'
        \/ Complete("client", m, Body(m)) /\ wire'["client"] = <<>>
        \/ pc'["client"] \in {"ended", "stuck"} /\ delivered' = delivered
    BY <1>1, <2>1, <2>2, ComingReads
  <2>4. ASSUME pc'["client"] \in {"head", "body"}, delivered' = delivered, Coming("client", m)'
        PROVE  ResponseInv'
    <3>1. msg'["server"] = m
      BY <1>2, <2>2
    <3>2. Coming("client", msg["server"])'
      BY <2>4, <3>1 DEF Coming, At
    <3> QED
      BY <1>2, <1>3, <2>1, <2>a, <2>4, <3>2 DEF ResponseInv
  <2>5. ASSUME Complete("client", m, Body(m)), wire'["client"] = <<>> PROVE ResponseInv'
    <3>1. wire'["server"] = wire["server"]
      BY <1>2 DEF Untouched
    <3>2. /\ pc'["client"] = "idle"
          /\ delivered'["client"] = [of |-> m, body |-> Body(m)]
      BY <1>1, <2>5, <3>1, CompleteUntouched
    <3>3. m.round = msg'["client"].round
      BY <1>2, <2>1, <2>2 DEF SameRound
    <3> QED
      BY <1>2, <1>3, <2>1, <2>a, <2>5, <3>2, <3>3 DEF ResponseInv
  <2> QED
    BY <1>4, <2>3, <2>4, <2>5
<1> QED
  BY <1>5, <1>6

LEMMA ResponseClientSends ==
    ASSUME TypeInv, ResponseInv, Sends("client") PROVE ResponseInv'
<1>1. /\ "client" \in Side /\ "server" \in Side /\ "client" # "server"
      /\ Other("client") = "server"
  BY Sides
<1> SUFFICES ASSUME spoilt' = {} PROVE ResponseInv'
  BY DEF ResponseInv
<1>2. ASSUME NEW k, SendSome("client", k)
      PROVE  /\ pc["client"] = "send" /\ pc'["client"] = "head" /\ pc'["server"] = pc["server"]
             /\ wire'["client"] = wire["client"]
             /\ UNCHANGED <<header, delivered, early>> /\ spoilt = {}
  BY <1>1, <1>2 DEF SendSome, Goto, readVars, TypeInv, TypeOK
<1>3. ASSUME SendFails("client")
      PROVE  /\ pc["client"] = "send" /\ pc'["client"] = "stuck" /\ pc'["server"] = pc["server"]
             /\ UNCHANGED <<delivered, early>> /\ spoilt = {}
  BY <1>1, <1>3 DEF SendFails, Goto, readVars, TypeInv, TypeOK
<1>4. ASSUME pc["client"] = "send", spoilt = {}
      PROVE  /\ ~early /\ wire["client"] = <<>> /\ header["client"] = <<>> /\ pc["server"] # "send"
  BY <1>1, <1>4 DEF ResponseInv, Settled, TypeInv, ReadInv
<1>5. ASSUME NEW k, SendSome("client", k) PROVE ResponseInv'
  BY <1>2, <1>4, <1>5 DEF ResponseInv, Waits
<1>6. ASSUME SendFails("client") PROVE ResponseInv'
  BY <1>3, <1>4, <1>6 DEF ResponseInv
<1> QED
  BY <1>5, <1>6 DEF Sends

LEMMA ResponseServerSends ==
    ASSUME TypeInv, RequestInv, ResponseInv, Sends("server") PROVE ResponseInv'
<1>1. /\ "client" \in Side /\ "server" \in Side /\ "client" # "server"
      /\ Other("server") = "client" /\ msg["server"] \in Messages
  BY Sides DEF TypeInv, TypeOK
<1> SUFFICES ASSUME spoilt' = {} PROVE ResponseInv'
  BY DEF ResponseInv
<1>2. /\ pc["server"] = "send" /\ spoilt = {} /\ pc'["client"] = pc["client"]
      /\ wire'["server"] = wire["server"] /\ UNCHANGED <<msg, header, body, delivered, early, open>>
  <2>1. ASSUME NEW k, SendSome("server", k)
        PROVE  /\ pc["server"] = "send" /\ spoilt = {} /\ pc'["client"] = pc["client"]
               /\ wire'["server"] = wire["server"]
               /\ UNCHANGED <<msg, header, body, delivered, early, open>>
    BY <1>1, <2>1 DEF SendSome, Goto, readVars, TypeInv, TypeOK
  <2>2. ASSUME SendFails("server")
        PROVE  /\ pc["server"] = "send" /\ spoilt = {} /\ pc'["client"] = pc["client"]
               /\ wire'["server"] = wire["server"]
               /\ UNCHANGED <<msg, header, body, delivered, early, open>>
    BY <1>1, <2>2 DEF SendFails, Goto, readVars, TypeInv, TypeOK
  <2> QED
    BY <2>1, <2>2 DEF Sends
<1>3. /\ ~early /\ to_send["server"] = Size(msg["server"])
      /\ pc["client"] \notin {"idle", "send", "crashed"}
      /\ pc["client"] \in {"head", "body"} => SameRound /\ Waits("client")
  BY <1>2 DEF ResponseInv, Settled
<1>4. ASSUME NEW k \in 1 .. BodyLength + 3 + MaxFaults, SendSome("server", k) PROVE ResponseInv'
  <2>1. k = to_send["server"] /\ pc'["server"] = "head"
    <3>1. ~(k < to_send["server"])
      BY <1>1, <1>4 DEF SendSome
    <3>2. k <= to_send["server"] /\ Goto("server", "head") /\ to_send["server"] \in Nat
      BY <1>1, <1>4, <3>1, ExchangeAssumption DEF SendSome, TypeInv, TypeOK
    <3>3. k \in Nat
      BY ExchangeAssumption
    <3> QED
      BY <1>1, <3>1, <3>2, <3>3 DEF Goto, TypeInv, TypeOK
  <2>2. Settled'
    BY <1>1, <1>2, <1>3, <2>1 DEF Settled, RequestInv, TypeInv, ReadInv
  <2>3. CASE pc["client"] \in {"head", "body"}
    <3>1. Waits("client") /\ SameRound' /\ open["client"]
      BY <1>1, <1>2, <1>3, <2>3 DEF SameRound, TypeInv, ReadInv
    <3>2. wire'["client"] = wire["client"] \o Outgoing(msg["server"], k)
      BY <1>1, <1>4, <3>1 DEF SendSome, TypeInv, TypeOK
    <3>3. wire'["client"] = Units(msg["server"])
      <4>1. Outgoing(msg["server"], k) = Units(msg["server"])
        BY <1>1, <1>3, <2>1, OutgoingWhole
      <4>2. Outgoing(msg["server"], k) \in Seq(Unit)
        BY <1>1, OutgoingType
      <4> QED
        BY <3>1, <3>2, <4>1, <4>2, ConcatEmptySeq DEF Waits
    <3>4. Coming("client", msg["server"])'
      <4>1. PICK m \in Messages : m = msg["server"]
        BY <1>1
      <4>2. Coming("client", m)'
        BY <1>1, <1>2, <3>1, <3>3, <4>1, ComingSent
      <4>3. msg'["server"] = m
        BY <1>2, <4>1
      <4> QED
        BY <4>2, <4>3 DEF Coming, At
    <3> QED
      BY <1>2, <1>3, <2>1, <2>2, <2>3, <3>1, <3>4 DEF ResponseInv
  <2>4. CASE pc["client"] \notin {"head", "body"}
    BY <1>2, <1>3, <2>1, <2>4 DEF ResponseInv
  <2> QED
    BY <2>3, <2>4
<1>5. CASE SendFails("server")
  <2>1. pc'["server"] = "stuck" /\ ~open["client"]
    BY <1>1, <1>5 DEF SendFails, Goto, TypeInv, TypeOK
  <2>2. pc["client"] \notin {"head", "body"}
    BY <1>1, <2>1 DEF TypeInv, ReadInv
  <2> QED
    BY <1>2, <1>3, <2>1, <2>2 DEF ResponseInv
<1> QED
  BY <1>4, <1>5 DEF Sends

LEMMA ResponseLeave ==
    ASSUME TypeInv, ResponseInv, NEW s \in Side, Leave(s) PROVE ResponseInv'
<1>1. /\ "client" \in Side /\ "server" \in Side /\ "client" # "server"
      /\ Stop(s, "ended") /\ UNCHANGED <<wire, early, spoilt>>
  BY Sides DEF Leave
<1> SUFFICES ASSUME spoilt = {} PROVE ResponseInv'
  BY <1>1 DEF ResponseInv
<1>2. CASE s = "client"
  <2>1. Untouched("server") /\ pc'["client"] = "ended" /\ UNCHANGED <<msg, to_send, delivered>>
    BY <1>1, <1>2, StopUntouched
  <2> QED
    BY <1>1, <2>1 DEF ResponseInv, Untouched
<1>3. CASE s = "server"
  <2>1. /\ Untouched("client") /\ pc'["server"] = "ended" /\ ~open'["server"]
        /\ header'["server"] = <<>> /\ body'["server"] = <<>>
        /\ UNCHANGED <<msg, to_send, delivered>>
    BY <1>1, <1>3, StopUntouched
  <2>2. Settled => Settled'
    BY <1>1, <2>1 DEF Settled
  <2>3. Coming("client", msg["server"]) => Coming("client", msg["server"])'
    <3> HAVE Coming("client", msg["server"])
    <3>1. PICK m \in Messages : m = msg["server"]
      BY <1>1 DEF TypeInv, TypeOK
    <3>2. Coming("client", m)'
      BY <1>1, <2>1, <3>1, ComingUntouched
    <3>3. msg'["server"] = m
      BY <2>1, <3>1
    <3> QED
      BY <3>2, <3>3 DEF Coming, At
  <2>4. SameRound' = SameRound /\ Waits("client")' = Waits("client") /\ pc'["client"] = pc["client"]
    BY <1>1, <2>1, WaitsUntouched DEF SameRound, Untouched
  <2> QED
    BY <1>1, <2>1, <2>2, <2>3, <2>4 DEF ResponseInv
<1> QED
  BY <1>2, <1>3 DEF Side

LEMMA ResponseRequest ==
    ASSUME TypeInv, ResponseInv, NEW length, ClientRequest(length) PROVE ResponseInv'
<1>1. /\ "client" \in Side /\ "server" \in Side /\ "client" # "server" /\ pc["client"] = "idle"
      /\ StartSend("client", Message(msg["client"].round + 1, length, FALSE))
      /\ UNCHANGED <<wire, header, body, delivered, spoilt>> /\ early' = (early \/ ~Through)
  BY Sides DEF ClientRequest, readVars
<1>2. pc'["client"] = "send" /\ pc'["server"] = pc["server"]
  BY <1>1 DEF StartSend, Goto, TypeInv, TypeOK
<1> SUFFICES ASSUME spoilt = {} PROVE ResponseInv'
  BY <1>1 DEF ResponseInv
<1>3. ~early /\ Settled /\ wire["client"] = <<>>
  BY <1>1 DEF ResponseInv
<1>4. ~early' /\ Settled' /\ pc["server"] # "send"
  BY <1>1, <1>2, <1>3 DEF Settled, Through
<1> QED
  BY <1>1, <1>2, <1>3, <1>4 DEF ResponseInv

LEMMA InitResponse == Init => ResponseInv
<1>1. "client" \in Side /\ "server" \in Side
  BY Sides
<1> QED
  BY <1>1 DEF Init, ResponseInv, Settled

LEMMA NextResponse == TypeInv /\ RequestInv /\ ResponseInv /\ [Next]_vars => ResponseInv'
<1> SUFFICES ASSUME TypeInv, RequestInv, ResponseInv, [Next]_vars PROVE ResponseInv'
  OBVIOUS
<1>1. ASSUME NEW s \in Side, Reads(s) PROVE ResponseInv'
  BY <1>1, ResponseServerReads, ResponseClientReads DEF Side
<1>2. ASSUME NEW s \in Side, Sends(s) PROVE ResponseInv'
  BY <1>2, ResponseServerSends, ResponseClientSends DEF Side
<1>3. ASSUME NEW s \in Side, Leave(s) PROVE ResponseInv'
  BY <1>3, ResponseLeave
<1>4. ASSUME NEW length \in {0, BodyLength}, ClientRequest(length) PROVE ResponseInv'
  BY <1>4, ResponseRequest
<1>5. CASE UNCHANGED vars
  BY <1>5 DEF ResponseInv, Settled, SameRound, Waits, Coming, At, vars, sendVars, readVars
<1> QED
  BY <1>1, <1>2, <1>3, <1>4, <1>5 DEF Next

-----------------------------------------------------------------------------
(* What follows for the readers of messages *)

DeliveryInv == TypeInv /\ RequestInv /\ ResponseInv

LEMMA InitDelivery == Init => DeliveryInv
BY InitTypeInv, InitRequest, InitResponse DEF DeliveryInv

LEMMA NextDelivery == DeliveryInv /\ [Next]_vars => DeliveryInv'
<1> SUFFICES ASSUME DeliveryInv, [Next]_vars PROVE DeliveryInv'
  OBVIOUS
<1>1. TypeInv /\ RequestInv /\ ResponseInv
  BY DEF DeliveryInv
<1>2. TypeInv'
  BY <1>1, NextTypeInv
<1>3. RequestInv'
  BY <1>1, NextRequest
<1>4. ResponseInv'
  BY <1>1, NextResponse
<1> QED
  BY <1>2, <1>3, <1>4 DEF DeliveryInv

\* A message that no partial or failed send has disturbed is delivered with
\* exactly the body it was sent with, and the response a client gets is that
\* to the request it waits for, wherever the stream is cut into chunks and
\* whoever leaves.  (the loops of read_request and read_response over recv,
\* http.cpp)
THEOREM UndisturbedArriveWhole == Spec => []Faithful
<1>1. DeliveryInv => Faithful
  <2> SUFFICES ASSUME DeliveryInv, NEW s \in Side, Undisturbed(s), delivered[s].of # NoMessage
               PROVE  /\ delivered[s].body = Body(delivered[s].of)
                      /\ s = "client" /\ pc[s] = "idle" => delivered[s].of.round = msg[s].round
    BY DEF Faithful
  <2>1. CASE s = "server"
    BY <2>1 DEF DeliveryInv, RequestInv, Undisturbed
  <2>2. CASE s = "client"
    BY <2>2 DEF DeliveryInv, ResponseInv, Undisturbed
  <2> QED
    BY <2>1, <2>2 DEF Side
<1> QED
  BY <1>1, InitDelivery, NextDelivery, PTL DEF Spec

\* Between undisturbed exchanges nothing is on its way and nothing is read
\* ahead, so that the next header may be read from its start.  (the loops of
\* a server thread and of send_request over one connection, http.cpp)
THEOREM InStepBetweenExchanges == Spec => []InStep
<1>1. DeliveryInv => InStep
  <2> SUFFICES ASSUME DeliveryInv, pc["client"] = "idle", spoilt = {}, NEW s \in Side
               PROVE  wire[s] = <<>> /\ header[s] = <<>> /\ body[s] = <<>>
    BY DEF InStep
  <2>1. Settled /\ wire["client"] = <<>>
    BY DEF DeliveryInv, ResponseInv
  <2>2. header["client"] = <<>> /\ body["client"] = <<>>
    BY Sides DEF DeliveryInv, TypeInv, ReadInv
  <2> QED
    BY <2>1, <2>2 DEF Side, Settled
<1> QED
  BY <1>1, InitDelivery, NextDelivery, PTL DEF Spec

\* No process dies over a header unless a partial or failed send has
\* disturbed it: the end of an undisturbed header is always found, wherever
\* the chunks end.  (deserialize, and the search for the end of the header
\* in the last chunk only, http.cpp)
THEOREM CrashNeedsDisturbance == Spec => []CrashOnlyIfDisturbed
<1>1. DeliveryInv => CrashOnlyIfDisturbed
  <2> SUFFICES ASSUME DeliveryInv, NEW s \in Side, pc[s] = "crashed" PROVE ~Undisturbed(s)
    BY DEF CrashOnlyIfDisturbed
  <2>1. CASE s = "server"
    BY <2>1 DEF DeliveryInv, RequestInv, Undisturbed
  <2>2. CASE s = "client"
    BY <2>2 DEF DeliveryInv, ResponseInv, Undisturbed
  <2> QED
    BY <2>1, <2>2 DEF Side
<1> QED
  BY <1>1, InitDelivery, NextDelivery, PTL DEF Spec
=============================================================================
