------------------------- MODULE StoreLinkInvariant -------------------------
(***************************************************************************)
(* What the operators of StoreLink return and contain, that its steps keep *)
(* the state well typed, its inductive invariant, that it holds initially, *)
(* and that sending a message and adopting a connection preserve it.       *)
(***************************************************************************)
EXTENDS StoreLink, SeqArithTheorems

(***************************************************************************)
(* The operators of StoreLink.                                             *)
(***************************************************************************)

\* The two sides.
LEMMA OtherSide == \A r \in Side : Other(r) \in Side /\ Other(Other(r)) = r /\ Other(r) # r
  BY DEF Side, Other

LEMMA TwoSides ==
  \A r \in Side : Other(r) \in Side /\ Other(r) # r /\ Other(Other(r)) = r /\ Side = {r, Other(r)}
  BY DEF Side, Other

\* NewMessages numbers k messages from outgoingSeq on, as sendMessage does.
LEMMA NewRange ==
  ASSUME TypeOK, NEW r \in Side, NEW k \in Nat
  PROVE  /\ NewMessages(r, k) \in Seq(Msg)
         /\ \A m \in Range(NewMessages(r, k)) :
              m.n \in sent[r]..(sent[r] + k - 1) /\ m.seq = m.n % SeqMod
         /\ \A n \in sent[r]..(sent[r] + k - 1) :
              \E m \in Range(NewMessages(r, k)) : m.n = n
<1> DEFINE msg(i) == [seq |-> (sent[r] + i - 1) % SeqMod, n |-> sent[r] + i - 1]
<1>1. sent[r] \in Nat
  BY DEF TypeOK
<1>2. \A i \in 1..k : sent[r] + i - 1 \in Nat /\ (sent[r] + i - 1) % SeqMod \in SeqNo
  BY <1>1, ModDef DEF SeqNo
<1>3. \A i \in 1..k : msg(i) \in Msg
  BY <1>2 DEF Msg
<1>4. NewMessages(r, k) = [i \in 1..k |-> msg(i)]
  BY DEF NewMessages
<1>5. NewMessages(r, k) \in Seq(Msg) /\ DOMAIN NewMessages(r, k) = 1..k
  <2>1. [i \in 1..k |-> msg(i)] \in [1..k -> Msg]
    BY <1>3
  <2> QED BY ZenonT(30), <2>1, <1>4, FnSeq
<1>6. ASSUME NEW n \in sent[r]..(sent[r] + k - 1)
      PROVE  \E m \in Range(NewMessages(r, k)) : m.n = n
  <2>1. n - sent[r] + 1 \in 1..k /\ msg(n - sent[r] + 1).n = n
    BY <1>1
  <2>2. NewMessages(r, k)[n - sent[r] + 1] = msg(n - sent[r] + 1)
    BY <2>1, <1>4
  <2> QED BY <2>1, <2>2, <1>5 DEF Range
<1>7. ASSUME NEW m \in Range(NewMessages(r, k))
      PROVE  m.n \in sent[r]..(sent[r] + k - 1) /\ m.seq = m.n % SeqMod
  <2>1. PICK i \in 1..k : m = msg(i)
    BY <1>4, <1>5 DEF Range
  <2> QED BY <2>1, <1>1
<1> QED BY <1>5, <1>6, <1>7

\* Frames wraps every message of a queue, and nothing else.
LEMMA FramesRange ==
  ASSUME NEW q \in Seq(Msg)
  PROVE  /\ Frames(q) \in Seq(Frame)
         /\ \A f \in Range(Frames(q)) : \E m \in Range(q) : f = MsgFrame(m)
<1>1. Len(q) \in Nat /\ DOMAIN q = 1..Len(q) /\ \A i \in 1..Len(q) : q[i] \in Msg
  BY SeqLen
<1>2. \A m \in Msg : MsgFrame(m) \in Frame
  BY DEF Msg, Frame, MsgFrame
<1>3. Frames(q) \in Seq(Frame) /\ DOMAIN Frames(q) = 1..Len(q)
  BY <1>1, <1>2 DEF Frames
<1>4. \A i \in 1..Len(q) : Frames(q)[i] = MsgFrame(q[i])
  BY DEF Frames
<1> QED BY <1>1, <1>3, <1>4 DEF Range

\* Writing fs to connection c at r changes only the wire to the peer of r.
LEMMA WriteRange ==
  ASSUME NEW w \in [Conn -> [Side -> Seq(Frame)]], NEW c \in Conn, NEW r \in Side,
         NEW fs \in Seq(Frame)
  PROVE  /\ Write(w, c, r, fs) \in [Conn -> [Side -> Seq(Frame)]]
         /\ \A d \in Conn, s \in Side :
              Range(Write(w, c, r, fs)[d][s]) \subseteq
                Range(w[d][s]) \cup (IF d = c /\ s = Other(r) THEN Range(fs) ELSE {})
<1>1. Other(r) \in Side
  BY OtherSide
<1>2. CASE ~ up[c]
  BY <1>2 DEF Write
<1>3. CASE up[c]
  <2>1. /\ w[c][Other(r)] \o fs \in Seq(Frame)
        /\ Range(w[c][Other(r)] \o fs) = Range(w[c][Other(r)]) \cup Range(fs)
    BY <1>1, RangeConcat
  <2>2. Write(w, c, r, fs) = [w EXCEPT ![c][Other(r)] = w[c][Other(r)] \o fs]
    BY <1>3 DEF Write
  <2> QED BY <2>1, <2>2, <1>1
<1> QED BY Zenon, <1>2, <1>3

\* Taking a frame off a wire.
LEMMA TakeRange ==
  ASSUME NEW w \in [Conn -> [Side -> Seq(Frame)]], NEW c \in Conn, NEW r \in Side,
         w[c][r] # <<>>
  PROVE  /\ Take(w, r, c) \in [Conn -> [Side -> Seq(Frame)]]
         /\ \A d \in Conn, s \in Side : Range(Take(w, r, c)[d][s]) \subseteq Range(w[d][s])
         /\ Head(w[c][r]) \in Range(w[c][r]) /\ Head(w[c][r]) \in Frame
<1>1. /\ Tail(w[c][r]) \in Seq(Frame) /\ Range(Tail(w[c][r])) \subseteq Range(w[c][r])
      /\ Head(w[c][r]) \in Range(w[c][r]) /\ Head(w[c][r]) \in Frame
  BY RangeTail
<1> QED BY <1>1 DEF Take

\* Removing element i of a queue.
LEMMA RemoveRange ==
  ASSUME NEW q \in Seq(Msg), NEW i \in 1..Len(q)
  PROVE  LET rest == SubSeq(q, 1, i - 1) \o SubSeq(q, i + 1, Len(q)) IN
         /\ rest \in Seq(Msg) /\ Range(rest) \subseteq Range(q)
         /\ \A m \in Range(q) : m \in Range(rest) \/ m = q[i]
<1> DEFINE a == SubSeq(q, 1, i - 1)
           b == SubSeq(q, i + 1, Len(q))
<1>1. Len(q) \in Nat /\ DOMAIN q = 1..Len(q)
  BY SeqLen
<1>2. a \in Seq(Msg) /\ Range(a) = {q[k] : k \in 1..(i - 1)}
  <2>1. i - 1 \in Nat /\ i - 1 <= Len(q)
    BY <1>1
  <2> QED BY <2>1, RangeSubSeq
<1>3. b \in Seq(Msg) /\ Range(b) = {q[k] : k \in (i + 1)..Len(q)}
  <2>1. i + 1 \in Nat /\ 1 <= i + 1
    BY <1>1
  <2> QED BY <2>1, <1>1, RangeSubSeq
<1> HIDE DEF a, b
<1>4. a \o b \in Seq(Msg) /\ Range(a \o b) = Range(a) \cup Range(b)
  BY <1>2, <1>3, RangeConcat
<1>5. Range(a) \cup Range(b) \subseteq Range(q)
  <2>1. \A k \in 1..Len(q) : q[k] \in Range(q)
    BY <1>1 DEF Range
  <2> QED BY <2>1, <1>1, <1>2, <1>3
<1>6. ASSUME NEW m \in Range(q) PROVE m \in Range(a) \cup Range(b) \/ m = q[i]
  <2>1. PICK k \in 1..Len(q) : m = q[k]
    BY <1>1 DEF Range
  <2> QED BY <2>1, <1>1, <1>2, <1>3
<1> QED BY <1>4, <1>5, <1>6 DEF a, b

\* An acknowledgement removes at most one message, one with its sequence number.
LEMMA AcknowledgedRange ==
  ASSUME NEW q \in Seq(Msg), NEW s
  PROVE  /\ Acknowledged(q, s) \in Seq(Msg)
         /\ Range(Acknowledged(q, s)) \subseteq Range(q)
         /\ \A m \in Range(q) : m \in Range(Acknowledged(q, s)) \/ m.seq = s
<1>1. Len(q) \in Nat /\ DOMAIN q = 1..Len(q)
  BY SeqLen
<1> DEFINE first(j) == q[j].seq = s /\ \A k \in 1..(j - 1) : q[k].seq # s
           i == CHOOSE j \in 1..Len(q) : first(j)
<1>2. CASE ~ \E j \in 1..Len(q) : first(j)
  BY ZenonT(60), <1>2 DEF Acknowledged
<1>3. CASE \E j \in 1..Len(q) : first(j)
  <2>1. i \in 1..Len(q) /\ q[i].seq = s
    BY <1>3
  <2>2. Acknowledged(q, s) = SubSeq(q, 1, i - 1) \o SubSeq(q, i + 1, Len(q))
    BY Zenon, <1>3 DEF Acknowledged
  <2> HIDE DEF i
  <2> QED BY <2>1, <2>2, RemoveRange
<1> QED BY <1>2, <1>3

----------------------------------------------------------------------------
(***************************************************************************)
(* Type correctness.                                                       *)
(***************************************************************************)

\* fs holds acknowledgements of a connection and messages of q only.
OnlyOf(fs, q) ==
  \A f \in Range(fs) : f.type = "connectAck" \/ \E m \in Range(q) : f = MsgFrame(m)

\* The frames written when a connection is adopted are frames.
LEMMA AdoptType ==
  ASSUME NEW t, NEW p \in Seq(Msg), NEW q \in Seq(Msg),
         Range(p) \subseteq Range(q)
  PROVE  AdoptFrames(t, p, q) \in Seq(Frame) /\ OnlyOf(AdoptFrames(t, p, q), q)
<1> DEFINE ack == IF t = "connect" THEN <<Ctl("connectAck")>> ELSE <<>>
<1>1. Ctl("connectAck") \in Frame /\ Ctl("connectAck").type = "connectAck"
  BY SeqModAssumption DEF Ctl, Frame, SeqNo
<1>2. ack \in Seq(Frame) /\ \A f \in Range(ack) : f.type = "connectAck"
  BY <1>1, RangeShort
<1> HIDE DEF ack
<1>3. /\ Frames(p) \in Seq(Frame) /\ \A f \in Range(Frames(p)) : \E m \in Range(p) : f = MsgFrame(m)
      /\ Frames(q) \in Seq(Frame) /\ \A f \in Range(Frames(q)) : \E m \in Range(q) : f = MsgFrame(m)
  BY FramesRange
<1>4. Frames(p) \o ack \in Seq(Frame) /\ Range(Frames(p) \o ack) = Range(Frames(p)) \cup Range(ack)
  BY <1>2, <1>3, RangeConcat
<1> DEFINE g == Frames(p) \o ack
<1>5. /\ g \o Frames(q) \in Seq(Frame)
      /\ Range(g \o Frames(q)) = Range(Frames(p)) \cup Range(ack) \cup Range(Frames(q))
  <2> HIDE DEF g
  <2>1. g \in Seq(Frame) /\ Range(g) = Range(Frames(p)) \cup Range(ack)
    BY <1>4 DEF g
  <2> QED BY <1>3, <2>1, RangeConcat
<1>6. AdoptFrames(t, p, q) = g \o Frames(q)
  BY DEF AdoptFrames, ack
<1> HIDE DEF g
<1> QED BY Zenon, <1>2, <1>3, <1>5, <1>6 DEF OnlyOf

\* What is processed together is a sequence of message numbers.
LEMMA RunType ==
  ASSUME TypeOK, NEW r \in Side, NEW f \in Frame, NEW k \in 0..Half,
         \A j \in 1..k : Buffered(r, After(f.seq, j))
  PROVE  Run(r, f, k) \in Seq(Nat) /\ Len(Run(r, f, k)) = k + 1
<1>1. \A j \in 1..k : Early(r, After(f.seq, j)) \in incomingQueue[r]
  BY DEF Buffered, Early
<1>2. f.n \in Nat /\ \A j \in 1..k : Early(r, After(f.seq, j)).n \in Nat
  BY <1>1 DEF TypeOK, Msg, Frame
<1>3. \A j \in 1..(k + 1) : j # 1 => j - 1 \in 1..k
  BY HalfDef
<1>4. Run(r, f, k) \in [1..(k + 1) -> Nat] /\ k + 1 \in Nat
  BY <1>2, <1>3, HalfDef DEF Run
<1> QED BY <1>4, FnSeq

\* The state in which a store starts is well typed.
LEMMA InitType == Init => TypeOK
  BY RangeShort, SeqModAssumption DEF Init, TypeOK, SeqNo

\* Every handler of the store keeps the state of the edge well typed.
LEMMA NextType == TypeOK /\ [Next]_vars => TypeOK'
<1> SUFFICES ASSUME TypeOK, [Next]_vars PROVE TypeOK'
  OBVIOUS
<1> USE OtherSide
<1>1. ASSUME NEW r \in Side, Send(r) PROVE TypeOK'
  <2>1. PICK k \in 1..2 :
          /\ sent' = [sent EXCEPT ![r] = @ + k]
          /\ outgoingQueue' = [outgoingQueue EXCEPT ![r] = @ \o NewMessages(r, k)]
          /\ \/ UNCHANGED wire
             \/ \E c \in tcpconnections[r] :
                  wire' = Write(wire, c, r, Frames(NewMessages(r, k)))
    BY Zenon, <1>1 DEF Send
  <2>2. NewMessages(r, k) \in Seq(Msg) /\ Frames(NewMessages(r, k)) \in Seq(Frame)
    BY NewRange, FramesRange
  <2>3. sent' \in [Side -> Nat]
    BY <2>1 DEF TypeOK
  <2>4. outgoingQueue' \in [Side -> Seq(Msg)]
    <3>1. outgoingQueue[r] \o NewMessages(r, k) \in Seq(Msg)
      BY <2>2, RangeConcat DEF TypeOK
    <3> QED BY <2>1, <3>1 DEF TypeOK
  <2>5. wire' \in [Conn -> [Side -> Seq(Frame)]]
    <3>1. \A c \in tcpconnections[r] : c \in Conn
      BY DEF TypeOK
    <3>2. wire \in [Conn -> [Side -> Seq(Frame)]]
      BY DEF TypeOK
    <3>3. \A c \in Conn : Write(wire, c, r, Frames(NewMessages(r, k))) \in [Conn -> [Side -> Seq(Frame)]]
      BY Zenon, <2>2, <3>2, WriteRange
    <3> QED BY <2>1, <3>1, <3>2, <3>3
  <2> QED BY ZenonT(60), <1>1, <2>3, <2>4, <2>5 DEF TypeOK, Send, storeVars, connVars, recvVars, castVars
<1>2. ASSUME NEW r \in Side, ForwardBroadcast(r) PROVE TypeOK'
  BY <1>2 DEF TypeOK, ForwardBroadcast, storeVars, connVars, sendVars, recvVars
<1>3. ASSUME NEW r \in Side, StopConnecting(r) PROVE TypeOK'
  BY <1>3 DEF TypeOK, StopConnecting, connVars, sendVars, recvVars, castVars
<1>4. ASSUME NEW r \in Side, CloseStore(r) PROVE TypeOK'
  <2>1. wire' \in [Conn -> [Side -> Seq(Frame)]]
    BY <1>4, RangeShort DEF TypeOK, CloseStore
  <2>2. up' \in [Conn -> BOOLEAN] /\ open' \in [Conn -> [Side -> BOOLEAN]]
    BY <1>4 DEF TypeOK, CloseStore
  <2>3. tcpconnections' \in [Side -> SUBSET Conn] /\ closed' \in [Side -> BOOLEAN]
    BY <1>4 DEF TypeOK, CloseStore
  <2> QED BY <1>4, <2>1, <2>2, <2>3 DEF TypeOK, CloseStore, sendVars, recvVars, castVars
<1>5. ASSUME NEW r \in Side, NEW c \in Conn, ConnectEdge(r, c) PROVE TypeOK'
  <2>1. <<Ctl("connect")>> \in Seq(Frame) /\ <<>> \in Seq(Frame)
    BY SeqModAssumption, RangeShort DEF Ctl, Frame, SeqNo
  <2>2. wire' \in [Conn -> [Side -> Seq(Frame)]]
    BY <1>5, <2>1 DEF TypeOK, ConnectEdge
  <2>3. up' \in [Conn -> BOOLEAN] /\ open' \in [Conn -> [Side -> BOOLEAN]]
        /\ sourceRank' \in [Conn -> [Side -> BOOLEAN]]
    BY <1>5 DEF TypeOK, ConnectEdge
  <2> QED BY ZenonT(30), <1>5, <2>2, <2>3 DEF TypeOK, ConnectEdge, storeVars, sendVars, recvVars, castVars
<1>6. ASSUME NEW r \in Side, NEW c \in Conn, LoseTail(r, c) PROVE TypeOK'
  <2>1. PICK k \in 0..(Len(wire[c][r]) - 1) : wire' = [wire EXCEPT ![c][r] = SubSeq(@, 1, k)]
    BY Zenon, <1>6 DEF LoseTail
  <2>2. wire[c][r] \in Seq(Frame) /\ k \in Nat /\ k <= Len(wire[c][r])
    BY SeqLen DEF TypeOK
  <2>3. SubSeq(wire[c][r], 1, k) \in Seq(Frame)
    BY <2>2, RangeSubSeq
  <2>4. wire' \in [Conn -> [Side -> Seq(Frame)]]
    BY <2>1, <2>3 DEF TypeOK
  <2> QED BY <1>6, <2>4 DEF TypeOK, LoseTail, storeVars, connVars, sendVars, recvVars, castVars
<1>7. ASSUME NEW r \in Side, NEW c \in Conn, ReadError(r, c) \/ Reap(r, c) PROVE TypeOK'
  <2>1. CASE ReadError(r, c)
    BY <2>1 DEF TypeOK, ReadError, storeVars, sendVars, recvVars, castVars
  <2>2. CASE Reap(r, c)
    BY ZenonT(60), <2>2 DEF TypeOK, Reap, storeVars, sendVars, recvVars, castVars
  <2> QED BY <1>7, <2>1, <2>2
<1>8. ASSUME NEW r \in Side, NEW c \in Conn, KeepaliveTimeout(r, c) PROVE TypeOK'
  BY <1>8 DEF TypeOK, KeepaliveTimeout, CloseSocket, storeVars, sendVars, recvVars, castVars
<1>9. ASSUME NEW c \in Conn, Break(c) PROVE TypeOK'
  BY <1>9 DEF TypeOK, Break, storeVars, sendVars, recvVars, castVars

<1>10. ASSUME NEW r \in Side, NEW c \in Conn, OnReadTcp(r, c) PROVE TypeOK'
  <2> DEFINE f == Head(wire[c][r])
  <2>1. /\ wire[c][r] # <<>> /\ wire \in [Conn -> [Side -> Seq(Frame)]]
    BY <1>10 DEF OnReadTcp, TypeOK
  <2>2. Take(wire, r, c) \in [Conn -> [Side -> Seq(Frame)]] /\ f \in Frame
    BY <2>1, TakeRange
  <2>3. CASE RefuseConnect(r, c)
    BY Zenon, <2>2, <2>3 DEF TypeOK, RefuseConnect, CloseSocket, storeVars, sendVars, recvVars, castVars
  <2>4. CASE AdoptConnect(r, c)
    <3>1. PICK k \in pendingBroadcasts[r]..(Ahead(r) - sent[r]) :
            LET replayed == NewMessages(r, k)
                queue    == outgoingQueue[r] \o replayed
            IN  /\ sent' = [sent EXCEPT ![r] = @ + k]
                /\ outgoingQueue' = [outgoingQueue EXCEPT ![r] = queue]
                /\ wire' = Write(Take(wire, r, c), c, r, AdoptFrames(f.type, replayed, queue))
      BY Zenon, <2>4 DEF AdoptConnect
    <3>2. k \in Nat
      BY DEF TypeOK, Ahead
    <3>3. /\ NewMessages(r, k) \in Seq(Msg) /\ outgoingQueue[r] \o NewMessages(r, k) \in Seq(Msg)
          /\ Range(NewMessages(r, k)) \subseteq Range(outgoingQueue[r] \o NewMessages(r, k))
      BY <3>2, NewRange, RangeConcat DEF TypeOK
    <3>4. AdoptFrames(f.type, NewMessages(r, k), outgoingQueue[r] \o NewMessages(r, k)) \in Seq(Frame)
      <4> HIDE DEF f
      <4> QED BY Zenon, <3>3, AdoptType
    <3>5. wire' \in [Conn -> [Side -> Seq(Frame)]]
      <4> DEFINE fs == AdoptFrames(f.type, NewMessages(r, k), outgoingQueue[r] \o NewMessages(r, k))
                 w  == Take(wire, r, c)
      <4>1. wire' = Write(w, c, r, fs) /\ fs \in Seq(Frame) /\ w \in [Conn -> [Side -> Seq(Frame)]]
        BY ZenonT(30), <2>2, <3>1, <3>4
      <4> HIDE DEF fs, w
      <4> QED BY Zenon, <4>1, WriteRange
    <3>6. sent' \in [Side -> Nat] /\ outgoingQueue' \in [Side -> Seq(Msg)]
      BY <3>1, <3>2, <3>3 DEF TypeOK
    <3>7. /\ tcpconnections' \in [Side -> SUBSET Conn] /\ sourceRank' \in [Conn -> [Side -> BOOLEAN]]
          /\ everConnected' \in [Side -> BOOLEAN] /\ pendingBroadcasts' \in [Side -> Nat]
      BY <2>4 DEF TypeOK, AdoptConnect
    <3> QED BY Zenon, <2>4, <3>5, <3>6, <3>7 DEF TypeOK, AdoptConnect, storeVars, recvVars
  <2>5. CASE OnMessage(r, c)
    <3>1. AckFrame(f) \in Frame /\ <<AckFrame(f)>> \in Seq(Frame) /\ f.n \in Nat /\ f.seq \in SeqNo
      BY <2>2, RangeShort DEF Frame, AckFrame
    <3>2. wire' \in [Conn -> [Side -> Seq(Frame)]]
      <4> DEFINE w == Take(wire, r, c)
      <4>1. wire' = Write(w, c, r, <<AckFrame(f)>>) /\ w \in [Conn -> [Side -> Seq(Frame)]]
        BY <2>2, <2>5 DEF OnMessage
      <4> HIDE DEF w, f
      <4> QED BY Zenon, <3>1, <4>1, WriteRange
    <3>3. /\ delivered' \in [Side -> Seq(Nat)]
          /\ incomingSeq' \in [Side -> SeqNo]
          /\ incomingQueue' \in [Side -> SUBSET Msg]
      <4>1. CASE ProcessRun(r, f)
        <5> HIDE DEF f
        <5>1. PICK k \in 0..Half :
                /\ \A j \in 1..k : Buffered(r, After(f.seq, j))
                /\ delivered' = [delivered EXCEPT ![r] = @ \o Run(r, f, k)]
                /\ incomingSeq' = [incomingSeq EXCEPT ![r] = After(f.seq, k + 1)]
                /\ incomingQueue' = [incomingQueue EXCEPT ![r] =
                     {m \in @ : Diff(m.seq, After(f.seq, k + 1)) >= 0}]
          BY Zenon, <4>1 DEF ProcessRun
        <5>5. Run(r, f, k) \in Seq(Nat)
          BY <2>2, <5>1, RunType
        <5>6. After(f.seq, k + 1) \in SeqNo
          BY <3>1, ModDef DEF SeqNo, After
        <5>7. delivered' \in [Side -> Seq(Nat)]
          BY <5>1, <5>5, RangeConcat DEF TypeOK
        <5>8. incomingSeq' \in [Side -> SeqNo] /\ incomingQueue' \in [Side -> SUBSET Msg]
          BY <5>1, <5>6 DEF TypeOK
        <5> QED BY <5>7, <5>8
      <4>2. CASE KeepEarly(r, f)
        <5> DEFINE new == [seq |-> f.seq, n |-> f.n]
        <5>1. new \in Msg
          BY <3>1 DEF Msg
        <5>2. /\ incomingQueue' = [incomingQueue EXCEPT ![r] =
                   IF Diff(f.seq, incomingSeq[r]) > 0 THEN @ \cup {new} ELSE @]
              /\ UNCHANGED <<incomingSeq, delivered>>
          BY <4>2 DEF KeepEarly
        <5> HIDE DEF new
        <5>3. incomingQueue' \in [Side -> SUBSET Msg]
          BY <5>1, <5>2 DEF TypeOK
        <5> QED BY <5>2, <5>3 DEF TypeOK
      <4>3. ProcessRun(r, f) \/ KeepEarly(r, f)
        BY <2>5 DEF OnMessage
      <4> QED BY <4>1, <4>2, <4>3
    <3> QED BY Zenon, <2>5, <3>2, <3>3 DEF TypeOK, OnMessage, storeVars, connVars, sendVars, castVars
  <2>6. CASE DropMessage(r, c)
    BY <2>2, <2>6 DEF TypeOK, DropMessage, storeVars, connVars, sendVars, recvVars, castVars
  <2>7. CASE OnMessageAck(r, c)
    <3>1. Acknowledged(outgoingQueue[r], f.seq) \in Seq(Msg)
      BY ZenonT(30), AcknowledgedRange DEF TypeOK
    <3>2. outgoingQueue' \in [Side -> Seq(Msg)]
      BY <2>7, <3>1 DEF TypeOK, OnMessageAck
    <3> QED BY ZenonT(30), <2>2, <2>7, <3>2 DEF TypeOK, OnMessageAck, storeVars, connVars, recvVars, castVars
  <2> QED BY <1>10, <2>3, <2>4, <2>5, <2>6, <2>7 DEF OnReadTcp, OnConnect
<1>11. CASE UNCHANGED vars
  BY <1>11 DEF TypeOK, vars, storeVars, connVars, sendVars, recvVars, castVars
<1> QED BY <1>1, <1>2, <1>3, <1>4, <1>5, <1>6, <1>7, <1>8, <1>9, <1>10, <1>11 DEF Next

----------------------------------------------------------------------------
(***************************************************************************)
(* The inductive invariant.                                                *)
(***************************************************************************)

\* m is a message of r (or an acknowledgement of one) that r has numbered, that
\* carries the sequence number of its position and is at most Half messages old.
Good(r, m) ==
  /\ m.n < sent[r]
  /\ m.seq = m.n % SeqMod
  /\ Ahead(r) - m.n <= Half

\* Message n of r has been processed by the peer or waits in its reorder buffer.
Safe(r, n) ==
  \/ n < Len(delivered[Other(r)])
  \/ \E m \in incomingQueue[Other(r)] : m.n = n

\* What holds of the messages of r, wherever they are.
SideInv(r) ==
  /\ Ahead(r) - sent[r] <= Half
  /\ \A m \in Range(outgoingQueue[r]) : Good(r, m)
  /\ \A m \in incomingQueue[Other(r)] : Good(r, m)
  /\ \A c \in Conn : \A f \in Range(wire[c][Other(r)]) :
       f.type = "msg" => Good(r, f) /\ sourceRank[c][r]
  /\ \A c \in Conn : \A f \in Range(wire[c][r]) :
       f.type = "ack" => Good(r, f) /\ sourceRank[c][r] /\ Safe(r, f.n)
  /\ \A c \in tcpconnections[r] : sourceRank[c][r]
  /\ incomingSeq[r] = Len(delivered[r]) % SeqMod

\* The inductive invariant.
IInv ==
  /\ TypeOK
  /\ \A r \in Side : SideInv(r)
  /\ InOrderOnce
  /\ NothingForgotten

----------------------------------------------------------------------------
(***************************************************************************)
(* The inductive invariant.                                                *)
(***************************************************************************)

\* Initially nothing is in flight.
LEMMA InitInv == Init => IInv
<1> SUFFICES ASSUME Init PROVE IInv
  OBVIOUS
<1>1. TypeOK
  BY InitType
<1>2. /\ \A r \in Side : /\ sent[r] = 0 /\ Ahead(r) = 0 /\ incomingSeq[r] = 0
                         /\ outgoingQueue[r] = <<>> /\ incomingQueue[r] = {}
                         /\ tcpconnections[r] = {} /\ delivered[r] = <<>>
      /\ \A c \in Conn, r \in Side : wire[c][r] = <<>>
  BY DEF Init, Ahead
<1>3. 0 % SeqMod = 0 /\ Len(<<>>) = 0
  BY SeqModAssumption, ModUnique, 0 + SeqMod * 0 = 0
<1>4. ASSUME NEW r \in Side PROVE SideInv(r)
  <2>1. Ahead(r) - sent[r] <= Half /\ incomingSeq[r] = Len(delivered[r]) % SeqMod
    <3>1. Len(delivered[r]) = 0
      BY <1>2, <1>3
    <3> QED BY <1>2, <1>3, <3>1, HalfDef
  <2>2. /\ Range(outgoingQueue[r]) = {} /\ incomingQueue[Other(r)] = {} /\ tcpconnections[r] = {}
        /\ \A c \in Conn, s \in Side : Range(wire[c][s]) = {}
    BY <1>2, RangeShort, OtherSide
  <2> QED BY Zenon, <2>1, <2>2, OtherSide DEF SideInv
<1>5. InOrderOnce
  BY <1>2, <1>3, OtherSide DEF InOrderOnce
<1>6. NothingForgotten
  BY <1>2, <1>3, OtherSide DEF NothingForgotten
<1> QED BY <1>1, <1>4, <1>5, <1>6 DEF IInv

\* A step that leaves the counters, the queue and the reorder buffer alone and
\* adds no message or acknowledgement to a wire preserves the invariant.
LEMMA Shrink ==
  ASSUME IInv, TypeOK',
         UNCHANGED <<sendVars, recvVars, pendingBroadcasts>>,
         \A c \in Conn, r \in Side : \A f \in Range(wire'[c][r]) :
           f.type \in {"msg", "ack"} => f \in Range(wire[c][r]) /\ sourceRank'[c] = sourceRank[c],
         \A r \in Side : \A c \in tcpconnections'[r] : sourceRank'[c][r]
  PROVE  IInv'
<1>1. \A r \in Side : Ahead(r)' = Ahead(r) /\ \A m : Good(r, m)' <=> Good(r, m)
  BY DEF sendVars, Ahead, Good
<1>2. \A r \in Side, n \in Nat : Safe(r, n)' <=> Safe(r, n)
  BY DEF recvVars, Safe
<1>3. ASSUME NEW r \in Side PROVE SideInv(r)'
  <2>1. SideInv(r) /\ Other(r) \in Side
    BY OtherSide DEF IInv
  <2>2. \A c \in Conn : \A f \in Range(wire'[c][r]) : f.n \in Nat
    <3>1. \A c \in Conn : wire'[c][r] \in Seq(Frame)
      BY DEF TypeOK
    <3>2. \A c \in Conn : Range(wire'[c][r]) \subseteq Frame
      BY <3>1, RangeElem
    <3> QED BY <3>2 DEF Frame
  <2>3. \A c \in Conn : \A f \in Range(wire'[c][Other(r)]) :
          f.type = "msg" => Good(r, f)' /\ sourceRank'[c][r]
    BY <1>1, <2>1 DEF SideInv
  <2>4. \A c \in Conn : \A f \in Range(wire'[c][r]) :
          f.type = "ack" => Good(r, f)' /\ sourceRank'[c][r] /\ Safe(r, f.n)'
    BY <1>1, <1>2, <2>1, <2>2 DEF SideInv
  <2> QED BY <1>1, <2>1, <2>3, <2>4 DEF SideInv, sendVars, recvVars
<1>4. InOrderOnce'
  BY DEF IInv, InOrderOnce, sendVars, recvVars
<1>5. NothingForgotten'
  BY DEF IInv, NothingForgotten, sendVars, recvVars
<1> QED BY <1>3, <1>4, <1>5 DEF IInv

\* The peer of r is at most Half messages behind r.
LEMMA Window ==
  ASSUME IInv, NEW r \in Side
  PROVE  /\ Len(delivered[Other(r)]) \in Nat /\ sent[r] \in Nat /\ Ahead(r) \in Nat
         /\ sent[r] <= Ahead(r) /\ Len(delivered[Other(r)]) <= sent[r]
         /\ Ahead(r) - Len(delivered[Other(r)]) <= Half
<1> DEFINE len == Len(delivered[Other(r)])
<1>1. Other(r) \in Side /\ Other(Other(r)) = r
  BY OtherSide
<1>2. len \in Nat /\ sent[r] \in Nat /\ Ahead(r) \in Nat /\ sent[r] <= Ahead(r)
  BY <1>1, SeqLen DEF IInv, TypeOK, Ahead
<1>3. len <= sent[r]
  BY <1>1 DEF IInv, InOrderOnce
<1>4. SideInv(r)
  BY DEF IInv
<1>5. CASE len = sent[r]
  BY <1>2, <1>4, <1>5 DEF SideInv
<1>6. CASE len < sent[r]
  <2>1. len \in len..(sent[r] - 1)
    BY <1>2, <1>6
  <2>2. PICK m \in Range(outgoingQueue[r]) \cup incomingQueue[Other(r)] : m.n = len
    BY <2>1 DEF IInv, NothingForgotten
  <2>3. Good(r, m)
    BY <2>2, <1>4 DEF SideInv
  <2> QED BY <1>2, <1>3, <2>2, <2>3 DEF Good
<1> QED BY <1>2, <1>3, <1>5, <1>6

\* What the queues, reorder buffers and wires hold has a number.
LEMMA ElemType ==
  ASSUME TypeOK
  PROVE  /\ \A s \in Side : /\ Range(outgoingQueue[s]) \subseteq Msg
                            /\ incomingQueue[s] \subseteq Msg
         /\ \A c \in Conn, s \in Side : Range(wire[c][s]) \subseteq Frame
         /\ \A m \in Msg \cup Frame : m.n \in Nat
<1>1. /\ \A s \in Side : outgoingQueue[s] \in Seq(Msg) /\ incomingQueue[s] \subseteq Msg
      /\ \A c \in Conn, s \in Side : wire[c][s] \in Seq(Frame)
  BY DEF TypeOK
<1>2. \A m \in Msg \cup Frame : m.n \in Nat
  BY DEF Msg, Frame
<1> QED BY <1>1, <1>2, RangeElem

\* A queue, wire or reorder buffer still holds message m of r.
InUse(r, m) ==
  \/ m \in Range(outgoingQueue[r]) \cup incomingQueue[Other(r)]
  \/ m.type = "msg" /\ \E c \in Conn : m \in Range(wire[c][Other(r)])
  \/ m.type = "ack" /\ \E c \in Conn : m \in Range(wire[c][r])

\* A step in which r numbers k messages, queues them and writes messages of its
\* queue to connections it has adopted preserves the invariant, when no message
\* in use gets too old.
LEMMA Numbered ==
  ASSUME IInv, TypeOK', NEW r \in Side, NEW k \in Nat,
         sent' = [sent EXCEPT ![r] = @ + k],
         outgoingQueue' = [outgoingQueue EXCEPT ![r] = @ \o NewMessages(r, k)],
         UNCHANGED recvVars,
         \A s \in Side : s # r => pendingBroadcasts'[s] = pendingBroadcasts[s],
         Ahead(r)' - sent[r] <= Half,
         \A m : InUse(r, m) => Ahead(r)' - m.n <= Half,
         \A c \in Conn, s \in Side : \A f \in Range(wire'[c][s]) : f.type \in {"msg", "ack"} =>
           \/ f \in Range(wire[c][s])
           \/ s = Other(r) /\ sourceRank'[c][r] /\ \E m \in Range(outgoingQueue'[r]) : f = MsgFrame(m),
         \A c \in Conn, s \in Side : sourceRank[c][s] => sourceRank'[c][s],
         \A s \in Side : \A c \in tcpconnections'[s] : sourceRank'[c][s]
  PROVE  IInv'
<1>1. /\ Other(r) \in Side /\ Other(r) # r /\ Other(Other(r)) = r
      /\ sent'[r] = sent[r] + k /\ sent'[Other(r)] = sent[Other(r)]
      /\ outgoingQueue'[Other(r)] = outgoingQueue[Other(r)]
      /\ outgoingQueue'[r] = outgoingQueue[r] \o NewMessages(r, k)
      /\ Side = {r, Other(r)}
  <2>1. Other(r) \in Side /\ Other(r) # r /\ Other(Other(r)) = r /\ Side = {r, Other(r)}
    BY Zenon, TwoSides
  <2> QED BY Zenon, <2>1 DEF IInv, TypeOK
<1>2. sent[r] \in Nat /\ Ahead(r)' \in Nat
  BY DEF IInv, TypeOK, Ahead
<1>3. \A s \in Side, n \in Nat : Safe(s, n)' <=> Safe(s, n)
  BY DEF recvVars, Safe
<1>4. /\ NewMessages(r, k) \in Seq(Msg)
      /\ \A m \in Range(NewMessages(r, k)) :
           m.n \in sent[r]..(sent[r] + k - 1) /\ m.seq = m.n % SeqMod
      /\ \A n \in sent[r]..(sent[r] + k - 1) : \E m \in Range(NewMessages(r, k)) : m.n = n
  BY ZenonT(30), NewRange DEF IInv
<1>5. Range(outgoingQueue'[r]) = Range(outgoingQueue[r]) \cup Range(NewMessages(r, k))
  BY SMTT(30), <1>1, <1>4, RangeConcat DEF IInv, TypeOK
<1>6. \A m \in Range(NewMessages(r, k)) : Good(r, m)'
  <2>1. \A n \in sent[r]..(sent[r] + k - 1) : n < sent'[r] /\ Ahead(r)' - n <= Half
    BY SMTT(30), <1>1, <1>2, HalfDef
  <2> QED BY <1>4, <2>1 DEF Good
<1>7. \A m : InUse(r, m) => m.n \in Nat
  BY <1>1, ElemType DEF IInv, InUse
<1>8. \A m : InUse(r, m) => Good(r, m)'
  <2>1. SideInv(r)
    BY DEF IInv
  <2>2. \A m : InUse(r, m) => Good(r, m)
    BY <2>1 DEF SideInv, InUse
  <2> QED BY <2>2, <1>1, <1>2, <1>7 DEF Good
<1>9. SideInv(r)'
  <2>1. \A m \in Range(outgoingQueue'[r]) : Good(r, m)'
    BY <1>5, <1>6, <1>8 DEF InUse
  <2>2. \A m \in incomingQueue'[Other(r)] : Good(r, m)'
    BY <1>8 DEF InUse, recvVars
  <2>3. ASSUME NEW c \in Conn, NEW f \in Range(wire'[c][Other(r)]), f.type = "msg"
        PROVE  Good(r, f)' /\ sourceRank'[c][r]
    <3>1. CASE f \in Range(wire[c][Other(r)])
      <4>1. InUse(r, f)
        BY <2>3, <3>1 DEF InUse
      <4>2. sourceRank[c][r]
        BY <2>3, <3>1 DEF IInv, SideInv
      <4> QED BY <4>1, <4>2, <1>8
    <3>2. CASE sourceRank'[c][r] /\ \E m \in Range(outgoingQueue'[r]) : f = MsgFrame(m)
      BY <2>1, <3>2 DEF MsgFrame, Good
    <3> QED BY <1>1, <2>3, <3>1, <3>2
  <2>4. ASSUME NEW c \in Conn, NEW f \in Range(wire'[c][r]), f.type = "ack"
        PROVE  Good(r, f)' /\ sourceRank'[c][r] /\ Safe(r, f.n)'
    <3>1. f \in Range(wire[c][r])
      BY <1>1, <2>4 DEF MsgFrame
    <3>2. InUse(r, f) /\ sourceRank[c][r] /\ Safe(r, f.n)
      <4>1. SideInv(r)
        BY ZenonT(60) DEF IInv
      <4> QED BY ZenonT(60), <2>4, <3>1, <4>1 DEF InUse, SideInv
    <3> QED BY <3>2, <1>3, <1>7, <1>8
  <2>5. Ahead(r)' - sent'[r] <= Half
    BY <1>1, <1>2, HalfDef
  <2>6. incomingSeq'[r] = Len(delivered'[r]) % SeqMod
    BY DEF IInv, SideInv, recvVars
  <2> QED BY <2>1, <2>2, <2>3, <2>4, <2>5, <2>6 DEF SideInv
<1>10. SideInv(Other(r))'
  <2> DEFINE p == Other(r)
  <2>1. Ahead(p)' = Ahead(p) /\ \A m : Good(p, m)' <=> Good(p, m)
    BY <1>1 DEF Ahead, Good
  <2>2. SideInv(p)
    BY <1>1 DEF IInv
  <2>3. ASSUME NEW c \in Conn, NEW f \in Range(wire'[c][r]), f.type = "msg"
        PROVE  Good(p, f)' /\ sourceRank'[c][p]
    <3>1. f \in Range(wire[c][r])
      BY <1>1, <2>3
    <3> QED BY ZenonT(60), <1>1, <2>1, <2>2, <2>3, <3>1 DEF SideInv
  <2>4. ASSUME NEW c \in Conn, NEW f \in Range(wire'[c][p]), f.type = "ack"
        PROVE  Good(p, f)' /\ sourceRank'[c][p] /\ Safe(p, f.n)'
    <3>1. f \in Range(wire[c][p])
      BY <1>1, <2>4 DEF MsgFrame
    <3>2. Good(p, f) /\ sourceRank[c][p] /\ Safe(p, f.n) /\ f.n \in Nat
      <4>1. f.n \in Nat
        BY ZenonT(30), <1>1, <3>1, ElemType DEF IInv
      <4> QED BY ZenonT(60), <1>1, <2>2, <2>4, <3>1, <4>1 DEF SideInv
    <3> QED BY ZenonT(30), <1>1, <1>3, <2>1, <3>2
  <2>5. incomingSeq'[p] = Len(delivered'[p]) % SeqMod
    BY <2>2 DEF SideInv, recvVars
  <2> QED BY Zenon, <1>1, <2>1, <2>2, <2>3, <2>4, <2>5 DEF SideInv, recvVars
<1>11. InOrderOnce'
  <2>1. InOrderOnce /\ \A s \in Side : delivered'[s] = delivered[s] /\ Len(delivered[Other(s)]) \in Nat
    BY Window DEF IInv, recvVars
  <2>2. Len(delivered[r]) <= sent'[Other(r)] /\ Len(delivered[Other(r)]) <= sent'[r]
    BY <1>1, <1>2, <2>1 DEF InOrderOnce
  <2>3. \A s \in Side : Len(delivered'[s]) <= sent'[Other(s)]
    <3>1. \A s \in Side : s = r \/ s = Other(r)
      BY Zenon, <1>1
    <3>2. Other(Other(r)) = r
      BY <1>1
    <3> QED BY ZenonT(30), <2>1, <2>2, <3>1, <3>2
  <2>4. \A s \in Side : \A i \in 1..Len(delivered'[s]) : delivered'[s][i] = i - 1
    <3>1. delivered' = delivered
      BY Zenon DEF recvVars
    <3>2. \A s \in Side : \A i \in 1..Len(delivered[s]) : delivered[s][i] = i - 1
      BY Zenon, <2>1 DEF InOrderOnce
    <3> QED BY Zenon, <3>1, <3>2
  <2> QED BY ZenonT(30), <2>3, <2>4 DEF InOrderOnce
<1>12. NothingForgotten'
  <2> SUFFICES ASSUME NEW s \in Side, NEW n \in (Len(delivered[Other(s)]))..(sent'[s] - 1)
               PROVE  \E m \in Range(outgoingQueue'[s]) \cup incomingQueue[Other(s)] : m.n = n
    BY DEF NothingForgotten, recvVars
  <2>1. Len(delivered[Other(s)]) \in Nat /\ sent[s] \in Nat
    BY Window
  <2>2. CASE s = r /\ n >= sent[r]
    BY <2>1, <2>2, <1>1, <1>2, <1>4, <1>5
  <2>3. CASE s = r /\ n < sent[r]
    <3>1. n \in (Len(delivered[Other(s)]))..(sent[s] - 1)
      BY <2>1, <2>3
    <3>2. \E m \in Range(outgoingQueue[s]) \cup incomingQueue[Other(s)] : m.n = n
      BY <3>1 DEF IInv, NothingForgotten
    <3> QED BY <3>2, <2>3, <1>5
  <2>4. CASE s # r
    <3>1. s = Other(r) /\ sent'[s] = sent[s] /\ outgoingQueue'[s] = outgoingQueue[s]
      BY ZenonT(30), <1>1, <2>4
    <3> QED BY <3>1 DEF IInv, NothingForgotten
  <2> QED BY <1>2, <2>1, <2>2, <2>3, <2>4, <1>1
<1> QED BY <1>1, <1>9, <1>10, <1>11, <1>12 DEF IInv

\* sendMessage.
LEMMA SendInv ==
  ASSUME IInv, TypeOK', NEW r \in Side, Send(r)
  PROVE  IInv'
<1>1. PICK k \in 1..2 :
        /\ Recent(r, k)
        /\ sent' = [sent EXCEPT ![r] = @ + k]
        /\ outgoingQueue' = [outgoingQueue EXCEPT ![r] = @ \o NewMessages(r, k)]
        /\ \/ UNCHANGED wire
           \/ \E c \in tcpconnections[r] :
                wire' = Write(wire, c, r, Frames(NewMessages(r, k)))
  BY Zenon DEF Send
<1>2. UNCHANGED <<connVars, recvVars, pendingBroadcasts>>
  BY DEF Send, castVars
<1>3. Ahead(r)' = Ahead(r) + k /\ k \in Nat /\ Ahead(r) \in Nat /\ sent[r] \in Nat
  <2>1. sent'[r] = sent[r] + k /\ sent[r] \in Nat
    BY <1>1 DEF IInv, TypeOK
  <2>2. pendingBroadcasts'[r] = pendingBroadcasts[r] /\ pendingBroadcasts[r] \in Nat
    BY <1>2 DEF IInv, TypeOK
  <2> QED BY <2>1, <2>2 DEF Ahead
<1>4. Ahead(r)' - sent[r] <= Half
  <2>1. Ahead(r) + k - sent[r] <= Half
    BY <1>1 DEF Recent
  <2> QED BY <1>3, <2>1
<1>5. \A m : InUse(r, m) => Ahead(r)' - m.n <= Half
  <2>1. \A m : InUse(r, m) => Ahead(r) + k - m.n <= Half
    BY <1>1 DEF Recent, InUse
  <2>2. \A m : InUse(r, m) => m.n \in Nat
    BY OtherSide, ElemType DEF IInv, InUse
  <2> QED BY <1>3, <2>1, <2>2
<1>6. NewMessages(r, k) \in Seq(Msg)
  BY <1>3, NewRange DEF IInv
<1>7. Range(NewMessages(r, k)) \subseteq Range(outgoingQueue'[r])
  BY <1>1, <1>6, RangeConcat DEF IInv, TypeOK
<1>8. \A c \in tcpconnections[r] : sourceRank[c][r]
  BY DEF IInv, SideInv
<1>9. ASSUME NEW c \in Conn, NEW s \in Side, NEW f \in Range(wire'[c][s])
      PROVE  \/ f \in Range(wire[c][s])
             \/ /\ s = Other(r) /\ sourceRank[c][r]
                /\ \E m \in Range(outgoingQueue'[r]) : f = MsgFrame(m)
  <2>1. CASE UNCHANGED wire
    BY <2>1
  <2>2. ASSUME NEW d \in tcpconnections[r],
               wire' = Write(wire, d, r, Frames(NewMessages(r, k)))
        PROVE  \/ f \in Range(wire[c][s])
               \/ /\ s = Other(r) /\ sourceRank[c][r]
                  /\ \E m \in Range(outgoingQueue'[r]) : f = MsgFrame(m)
    <3>1. d \in Conn /\ wire \in [Conn -> [Side -> Seq(Frame)]]
      BY Zenon DEF IInv, TypeOK
    <3>2. /\ Frames(NewMessages(r, k)) \in Seq(Frame)
          /\ \A g \in Range(Frames(NewMessages(r, k))) :
               \E m \in Range(NewMessages(r, k)) : g = MsgFrame(m)
      BY <1>6, FramesRange
    <3>3. f \in Range(wire[c][s]) \/ (c = d /\ s = Other(r) /\ f \in Range(Frames(NewMessages(r, k))))
      BY Zenon, <2>2, <3>1, <3>2, WriteRange
    <3> QED BY <3>2, <3>3, <1>7, <1>8
  <2> QED BY <1>1, <2>1, <2>2
<1>10. UNCHANGED <<sourceRank, tcpconnections, recvVars>>
       /\ \A s \in Side : s # r => pendingBroadcasts'[s] = pendingBroadcasts[s]
  BY <1>2 DEF connVars
<1>11. \A s \in Side : \A c \in tcpconnections'[s] : sourceRank'[c][s]
  BY <1>10 DEF IInv, SideInv
<1>12. \A c \in Conn, s \in Side : sourceRank[c][s] => sourceRank'[c][s]
  BY <1>10
<1>13. ASSUME NEW c \in Conn, NEW s \in Side, NEW f \in Range(wire'[c][s]), f.type \in {"msg", "ack"}
       PROVE  \/ f \in Range(wire[c][s])
              \/ /\ s = Other(r) /\ sourceRank'[c][r]
                 /\ \E m \in Range(outgoingQueue'[r]) : f = MsgFrame(m)
  BY <1>9, <1>10
<1>14. /\ sent' = [sent EXCEPT ![r] = @ + k]
       /\ outgoingQueue' = [outgoingQueue EXCEPT ![r] = @ \o NewMessages(r, k)]
  BY <1>1
<1> QED BY Zenon, <1>3, <1>4, <1>5, <1>10, <1>11, <1>12, <1>13, <1>14, Numbered

\* signatureConnect or signatureConnectAck on the connection that r adopts.
LEMMA AdoptInv ==
  ASSUME IInv, TypeOK', NEW r \in Side, NEW c \in Conn, wire[c][r] # <<>>, AdoptConnect(r, c)
  PROVE  IInv'
<1> DEFINE fs(k) == AdoptFrames(Head(wire[c][r]).type, NewMessages(r, k),
                                outgoingQueue[r] \o NewMessages(r, k))
<1>1. PICK k \in pendingBroadcasts[r]..(Ahead(r) - sent[r]) :
        /\ sent' = [sent EXCEPT ![r] = @ + k]
        /\ outgoingQueue' = [outgoingQueue EXCEPT ![r] = @ \o NewMessages(r, k)]
        /\ wire' = Write(Take(wire, r, c), c, r, fs(k))
  BY Zenon DEF AdoptConnect
<1>2. /\ UNCHANGED recvVars
      /\ tcpconnections' = [tcpconnections EXCEPT ![r] = {c}]
      /\ sourceRank' = [sourceRank EXCEPT ![c][r] = TRUE]
      /\ pendingBroadcasts' = [pendingBroadcasts EXCEPT ![r] = 0]
  BY DEF AdoptConnect
<1>3. k \in Nat /\ Ahead(r)' = sent[r] + k /\ Ahead(r)' <= Ahead(r) /\ Ahead(r) \in Nat /\ sent[r] \in Nat
  <2>1. sent \in [Side -> Nat] /\ pendingBroadcasts \in [Side -> Nat]
    BY ZenonT(30) DEF IInv, TypeOK
  <2>2. pendingBroadcasts'[r] = 0 /\ sent'[r] = sent[r] + k
    BY <2>1, <1>1, <1>2
  <2>3. Ahead(r)' = sent[r] + k
    BY <2>1, <2>2 DEF Ahead
  <2>4. Ahead(r) \in Nat /\ k \in pendingBroadcasts[r]..(Ahead(r) - sent[r])
    <3>1. sent[r] \in Nat /\ pendingBroadcasts[r] \in Nat
      BY Zenon, <2>1
    <3>2. Ahead(r) \in Nat
      BY ONLY <3>1 DEF Ahead
    <3> QED BY Zenon, <1>1, <3>2
  <2> QED BY <2>1, <2>3, <2>4
<1>4. SideInv(r)
  BY DEF IInv
<1>5. Ahead(r)' - sent[r] <= Half
  <2>1. Ahead(r) - sent[r] <= Half
    BY Zenon, <1>4 DEF SideInv
  <2> QED BY <2>1, <1>3, HalfDef
<1>6. \A m : InUse(r, m) => Ahead(r)' - m.n <= Half
  <2>1. \A m : InUse(r, m) => Good(r, m)
    BY <1>4 DEF SideInv, InUse
  <2>2. \A m : InUse(r, m) => m.n \in Nat
    BY OtherSide, ElemType DEF IInv, InUse
  <2> QED BY <1>3, <2>1, <2>2, HalfDef DEF Good
<1>7. /\ NewMessages(r, k) \in Seq(Msg) /\ outgoingQueue[r] \in Seq(Msg)
      /\ outgoingQueue[r] \o NewMessages(r, k) \in Seq(Msg)
      /\ Range(NewMessages(r, k)) \subseteq Range(outgoingQueue[r] \o NewMessages(r, k))
      /\ outgoingQueue'[r] = outgoingQueue[r] \o NewMessages(r, k)
  <2>1. NewMessages(r, k) \in Seq(Msg) /\ outgoingQueue[r] \in Seq(Msg)
    BY Zenon, <1>3, NewRange DEF IInv, TypeOK
  <2>2. outgoingQueue'[r] = outgoingQueue[r] \o NewMessages(r, k)
    <3>1. outgoingQueue \in [Side -> Seq(Msg)]
      BY DEF IInv, TypeOK
    <3> QED BY Zenon, <3>1, <1>1
  <2>3. /\ outgoingQueue[r] \o NewMessages(r, k) \in Seq(Msg)
        /\ Range(outgoingQueue[r] \o NewMessages(r, k)) = Range(outgoingQueue[r]) \cup Range(NewMessages(r, k))
    BY ZenonT(60), <2>1, RangeConcat
  <2> QED BY <2>1, <2>2, <2>3
<1>8. /\ fs(k) \in Seq(Frame)
      /\ \A f \in Range(fs(k)) : f.type = "connectAck" \/ \E m \in Range(outgoingQueue'[r]) : f = MsgFrame(m)
  <2> DEFINE p == NewMessages(r, k)
             q == outgoingQueue[r] \o NewMessages(r, k)
  <2>1. p \in Seq(Msg) /\ q \in Seq(Msg) /\ Range(p) \subseteq Range(q)
    BY <1>7
  <2>0. q = outgoingQueue'[r]
    BY <1>7
  <2>2. fs(k) = AdoptFrames(Head(wire[c][r]).type, p, q)
    OBVIOUS
  <2> HIDE DEF p, q, fs
  <2> DEFINE t == Head(wire[c][r]).type
  <2> HIDE DEF t
  <2>3. AdoptFrames(t, p, q) \in Seq(Frame) /\ OnlyOf(AdoptFrames(t, p, q), q)
    BY Zenon, <2>1, AdoptType
  <2>4. fs(k) = AdoptFrames(t, p, q)
    BY <2>2 DEF t
  <2> QED BY <2>0, <2>3, <2>4 DEF OnlyOf
<1>9. /\ Take(wire, r, c) \in [Conn -> [Side -> Seq(Frame)]]
      /\ \A d \in Conn, s \in Side : Range(Take(wire, r, c)[d][s]) \subseteq Range(wire[d][s])
  BY Zenon, TakeRange DEF IInv, TypeOK
<1>10. sourceRank'[c][r] /\ \A d \in Conn, s \in Side : sourceRank[d][s] => sourceRank'[d][s]
  BY <1>2 DEF IInv, TypeOK
<1>11. ASSUME NEW d \in Conn, NEW s \in Side, NEW f \in Range(wire'[d][s]), f.type \in {"msg", "ack"}
       PROVE  \/ f \in Range(wire[d][s])
              \/ /\ s = Other(r) /\ sourceRank'[d][r]
                 /\ \E m \in Range(outgoingQueue'[r]) : f = MsgFrame(m)
  <2> DEFINE w == Take(wire, r, c)
             g == fs(k)
  <2>1. /\ wire' = Write(w, c, r, g) /\ w \in [Conn -> [Side -> Seq(Frame)]] /\ g \in Seq(Frame)
        /\ Range(w[d][s]) \subseteq Range(wire[d][s])
        /\ \A x \in Range(g) : x.type = "connectAck" \/ \E m \in Range(outgoingQueue'[r]) : x = MsgFrame(m)
    BY Zenon, <1>1, <1>8, <1>9
  <2> HIDE DEF w, g, fs
  <2>2. f \in Range(w[d][s]) \/ (d = c /\ s = Other(r) /\ f \in Range(g))
    BY Zenon, <2>1, WriteRange
  <2> QED BY SMTT(30), <2>1, <2>2, <1>10, <1>11
<1>12. ASSUME NEW s \in Side, NEW d \in tcpconnections'[s] PROVE sourceRank'[d][s]
  <2>1. CASE s = r
    BY <2>1, <1>2, <1>10 DEF IInv, TypeOK
  <2>2. CASE s # r
    <3>1. d \in tcpconnections[s] /\ d \in Conn
      BY <2>2, <1>2 DEF IInv, TypeOK
    <3>2. SideInv(s)
      BY DEF IInv
    <3> QED BY <3>1, <3>2, <1>10 DEF SideInv
  <2> QED BY <2>1, <2>2
<1>13. \A s \in Side : s # r => pendingBroadcasts'[s] = pendingBroadcasts[s]
  BY <1>2 DEF IInv, TypeOK
<1> HIDE DEF fs
<1> QED BY Zenon, <1>1, <1>2, <1>3, <1>5, <1>6, <1>10, <1>11, <1>12, <1>13, Numbered
=============================================================================
