--------------------------- MODULE StoreLinkProofs --------------------------
(***************************************************************************)
(* Receiving a message or an acknowledgement preserves the inductive       *)
(* invariant of StoreLink; the theorems about StoreLink, for any number of *)
(* connections, messages and faults and any even SeqMod.                   *)
(***************************************************************************)
EXTENDS StoreLinkInvariant

(***************************************************************************)
(* Receiving.                                                              *)
(***************************************************************************)

\* A step in which r takes message f of its peer off connection c, acknowledges
\* it and advances what it has processed preserves the invariant, when it loses
\* nothing it had and has f now.
LEMMA Received ==
  ASSUME IInv, TypeOK', NEW r \in Side, NEW c \in Conn, NEW f \in Range(wire[c][r]),
         f.type = "msg",
         UNCHANGED <<sendVars, connVars, pendingBroadcasts>>,
         \A s \in Side : s # r => /\ delivered'[s] = delivered[s]
                                  /\ incomingSeq'[s] = incomingSeq[s]
                                  /\ incomingQueue'[s] = incomingQueue[s],
         Len(delivered'[r]) <= sent[Other(r)],
         \A i \in 1..Len(delivered'[r]) : delivered'[r][i] = i - 1,
         incomingSeq'[r] = Len(delivered'[r]) % SeqMod,
         \A m \in incomingQueue'[r] : Good(Other(r), m),
         \A n \in Nat : Safe(Other(r), n) => Safe(Other(r), n)',
         Safe(Other(r), f.n)',
         \A d \in Conn, s \in Side : \A g \in Range(wire'[d][s]) :
           g \in Range(wire[d][s]) \/ (d = c /\ s = Other(r) /\ g = AckFrame(f))
  PROVE  IInv'
<1> DEFINE p == Other(r)
<1>1. /\ p \in Side /\ p # r /\ Other(p) = r /\ Side = {r, p}
      /\ SideInv(r) /\ SideInv(p)
  BY DEF IInv, Side, Other
<1> HIDE DEF p
<1>2. \A s \in Side : Ahead(s)' = Ahead(s) /\ \A m : Good(s, m)' <=> Good(s, m)
  BY DEF sendVars, Ahead, Good
<1>3. Good(p, f) /\ sourceRank[c][p]
  BY ZenonT(30), <1>1 DEF SideInv
<1>4. UNCHANGED <<sent, outgoingQueue, sourceRank, tcpconnections>>
  BY DEF sendVars, connVars
<1>5. \A n : Safe(r, n)' <=> Safe(r, n)
  BY <1>1 DEF Safe, p
<1>6. \A d \in Conn : \A g \in Range(wire[d][r]) \cup Range(wire[d][p]) : g.n \in Nat
  BY <1>1, ElemType DEF IInv
<1>7. SideInv(r)'
  <2>1. \A d \in Conn : \A g \in Range(wire'[d][p]) :
          g.type = "msg" => Good(r, g)' /\ sourceRank'[d][r]
    <3>1. AckFrame(f).type # "msg"
      BY DEF AckFrame
    <3> QED BY ZenonT(60), <1>1, <1>2, <1>4, <3>1 DEF SideInv, p
  <2>2. \A d \in Conn : \A g \in Range(wire'[d][r]) :
          g.type = "ack" => Good(r, g)' /\ sourceRank'[d][r] /\ Safe(r, g.n)'
    BY ZenonT(60), <1>1, <1>2, <1>4, <1>5 DEF SideInv, p
  <2>3. \A m \in incomingQueue'[p] : Good(r, m)'
    BY ZenonT(30), <1>1, <1>2 DEF SideInv, p
  <2> QED BY ZenonT(30), <1>1, <1>2, <1>4, <2>1, <2>2, <2>3 DEF SideInv, p
<1>8. SideInv(p)'
  <2>1. \A d \in Conn : \A g \in Range(wire'[d][r]) :
          g.type = "msg" => Good(p, g)' /\ sourceRank'[d][p]
    BY ZenonT(60), <1>1, <1>2, <1>4 DEF SideInv, p
  <2>2. ASSUME NEW d \in Conn, NEW g \in Range(wire'[d][p]), g.type = "ack"
        PROVE  Good(p, g)' /\ sourceRank'[d][p] /\ Safe(p, g.n)'
    <3>1. CASE g \in Range(wire[d][p])
      <4>1. Good(p, g) /\ sourceRank[d][p] /\ Safe(p, g.n) /\ g.n \in Nat
        BY ZenonT(30), <1>1, <1>6, <2>2, <3>1 DEF SideInv
      <4> QED BY ZenonT(30), <4>1, <1>1, <1>2, <1>4 DEF p
    <3>2. CASE d = c /\ g = AckFrame(f)
      <4>1. g.n = f.n /\ g.seq = f.seq
        BY <3>2 DEF AckFrame
      <4>2. Good(p, g)
        BY ZenonT(30), <4>1, <1>3 DEF Good
      <4> QED BY ZenonT(30), <4>1, <4>2, <3>2, <1>1, <1>2, <1>3, <1>4 DEF p
    <3> QED BY ZenonT(60), <2>2, <3>1, <3>2, <1>1 DEF p
  <2>3. \A m \in incomingQueue'[r] : Good(p, m)'
    BY <1>1, <1>2 DEF p
  <2>4. incomingSeq'[p] = Len(delivered'[p]) % SeqMod
    BY ZenonT(30), <1>1 DEF SideInv
  <2> QED BY ZenonT(30), <1>1, <1>2, <1>4, <2>1, <2>2, <2>3, <2>4 DEF SideInv
<1>9. InOrderOnce'
  <2>1. /\ Len(delivered'[r]) <= sent'[p]
        /\ \A i \in 1..Len(delivered'[r]) : delivered'[r][i] = i - 1
    BY <1>4 DEF p
  <2>2. /\ Len(delivered'[p]) <= sent'[r]
        /\ \A i \in 1..Len(delivered'[p]) : delivered'[p][i] = i - 1
    BY <1>1, <1>4 DEF IInv, InOrderOnce
  <2> QED BY ZenonT(30), <1>1, <2>1, <2>2 DEF InOrderOnce, p
<1>10. NothingForgotten'
  <2>1. \A n \in Len(delivered'[p])..(sent'[r] - 1) :
          \E m \in Range(outgoingQueue'[r]) \cup incomingQueue'[p] : m.n = n
    BY <1>1, <1>4 DEF IInv, NothingForgotten, p
  <2>2. ASSUME NEW n \in Len(delivered'[r])..(sent'[p] - 1)
        PROVE  \E m \in Range(outgoingQueue'[p]) \cup incomingQueue'[r] : m.n = n
    <3>1. Len(delivered[r]) \in Nat /\ Len(delivered'[r]) \in Nat /\ sent[p] \in Nat
      BY <1>1, SeqLen DEF IInv, TypeOK
    <3>2. n \in Nat /\ ~ (n < Len(delivered'[r])) /\ n <= sent[p] - 1
      BY <3>1, <1>4
    <3>3. CASE n < Len(delivered[r])
      <4>1. Safe(p, n)'
        BY <3>2, <3>3, <1>1 DEF Safe, p
      <4> QED BY <4>1, <3>2, <1>1 DEF Safe
    <3>4. CASE n >= Len(delivered[r])
      <4>1. n \in Len(delivered[r])..(sent[p] - 1)
        BY <3>1, <3>2, <3>4
      <4>2. \E m \in Range(outgoingQueue[p]) \cup incomingQueue[r] : m.n = n
        BY <4>1, <1>1 DEF IInv, NothingForgotten
      <4>3. CASE \E m \in Range(outgoingQueue[p]) : m.n = n
        BY <4>3, <1>4
      <4>4. CASE \E m \in incomingQueue[r] : m.n = n
        <5>1. Safe(p, n)'
          BY <4>4, <3>2, <1>1 DEF Safe, p
        <5> QED BY <5>1, <3>2, <1>1 DEF Safe
      <4> QED BY <4>2, <4>3, <4>4
    <3> QED BY <3>1, <3>2, <3>3, <3>4
  <2> QED BY <1>1, <2>1, <2>2 DEF NothingForgotten, p
<1> QED BY ZenonT(30), <1>1, <1>7, <1>8, <1>9, <1>10 DEF IInv

\* What the signatureMessage handler has in common for all messages: the frame
\* it takes, the acknowledgement it writes, and the exact distance of the
\* sequence numbers.
LEMMA MessageFacts ==
  ASSUME IInv, NEW r \in Side, NEW c \in Conn, wire[c][r] # <<>>, OnMessage(r, c)
  PROVE  \E f \in Range(wire[c][r]) :
         /\ f = Head(wire[c][r]) /\ f \in Frame /\ f.type = "msg" /\ Good(Other(r), f)
         /\ UNCHANGED <<sendVars, connVars, pendingBroadcasts>>
         /\ \A d \in Conn, s \in Side : \A g \in Range(wire'[d][s]) :
              g \in Range(wire[d][s]) \/ (d = c /\ s = Other(r) /\ g = AckFrame(f))
         /\ Diff(f.seq, incomingSeq[r]) = f.n - Len(delivered[r])
         /\ f.seq = incomingSeq[r] <=> f.n = Len(delivered[r])
         /\ IF f.seq = incomingSeq[r] THEN ProcessRun(r, f) ELSE KeepEarly(r, f)
<1> DEFINE f == Head(wire[c][r])
           w == Take(wire, r, c)
<1>1. /\ w \in [Conn -> [Side -> Seq(Frame)]] /\ f \in Range(wire[c][r]) /\ f \in Frame
      /\ \A d \in Conn, s \in Side : Range(w[d][s]) \subseteq Range(wire[d][s])
  BY Zenon, TakeRange DEF IInv, TypeOK
<1>2. f.type = "msg" /\ wire' = Write(w, c, r, <<AckFrame(f)>>)
      /\ UNCHANGED <<sendVars, connVars, pendingBroadcasts>>
      /\ IF f.seq = incomingSeq[r] THEN ProcessRun(r, f) ELSE KeepEarly(r, f)
  BY DEF OnMessage, castVars
<1> HIDE DEF f, w
<1>3. Other(r) \in Side /\ Other(Other(r)) = r
  BY OtherSide
<1>4. Good(Other(r), f)
  BY ZenonT(30), <1>1, <1>2, <1>3 DEF IInv, SideInv
<1>5. \A d \in Conn, s \in Side : \A g \in Range(wire'[d][s]) :
        g \in Range(wire[d][s]) \/ (d = c /\ s = Other(r) /\ g = AckFrame(f))
  <2>1. <<AckFrame(f)>> \in Seq(Frame) /\ Range(<<AckFrame(f)>>) = {AckFrame(f)}
    <3>1. AckFrame(f) \in Frame
      BY <1>1 DEF Frame, AckFrame
    <3> QED BY <3>1, RangeShort
  <2>2. \A d \in Conn, s \in Side :
          Range(wire'[d][s]) \subseteq
            Range(w[d][s]) \cup (IF d = c /\ s = Other(r) THEN Range(<<AckFrame(f)>>) ELSE {})
    BY Zenon, <1>1, <1>2, <2>1, WriteRange
  <2> QED BY Zenon, <1>1, <2>1, <2>2
<1>6. /\ Diff(f.seq, incomingSeq[r]) = f.n - Len(delivered[r])
      /\ f.seq = incomingSeq[r] <=> f.n = Len(delivered[r])
  <2> DEFINE len == Len(delivered[r])
             top == Ahead(Other(r))
  <2>1. /\ len \in Nat /\ sent[Other(r)] \in Nat /\ top \in Nat /\ sent[Other(r)] <= top
        /\ len <= sent[Other(r)] /\ top - len <= Half
    BY <1>3, Window
  <2>2. f.n \in Nat /\ f.n < sent[Other(r)] /\ f.seq = f.n % SeqMod /\ top - f.n <= Half
    BY <1>1, <1>4 DEF Good, Frame
  <2>3. incomingSeq[r] = len % SeqMod
    BY DEF IInv, SideInv
  <2> HIDE DEF len, top
  <2>4. f.n - len < Half /\ len - f.n <= Half
    BY <2>1, <2>2, HalfDef
  <2>5. Diff(f.n % SeqMod, len % SeqMod) = f.n - len
    BY <2>1, <2>2, <2>4, DiffExact
  <2>6. f.n % SeqMod = len % SeqMod <=> f.n = len
    <3>1. f.n - len < SeqMod /\ len - f.n < SeqMod
      BY <2>1, <2>2, <2>4, HalfDef
    <3> QED BY <2>1, <2>2, <3>1, SameMod
  <2> QED BY <2>2, <2>3, <2>5, <2>6 DEF len
<1> QED BY Zenon, <1>1, <1>2, <1>4, <1>5, <1>6 DEF f

\* An early message is buffered, a duplicate ignored; either way it is
\* acknowledged, and the acknowledgement is justified.
LEMMA NotNextInv ==
  ASSUME IInv, TypeOK', NEW r \in Side, NEW c \in Conn, wire[c][r] # <<>>, OnMessage(r, c),
         Head(wire[c][r]).seq # incomingSeq[r]
  PROVE  IInv'
<1> DEFINE p == Other(r)
<1>1. PICK f \in Range(wire[c][r]) :
        /\ f = Head(wire[c][r]) /\ f \in Frame /\ f.type = "msg" /\ Good(p, f)
        /\ UNCHANGED <<sendVars, connVars, pendingBroadcasts>>
        /\ \A d \in Conn, s \in Side : \A g \in Range(wire'[d][s]) :
             g \in Range(wire[d][s]) \/ (d = c /\ s = p /\ g = AckFrame(f))
        /\ Diff(f.seq, incomingSeq[r]) = f.n - Len(delivered[r])
        /\ f.n # Len(delivered[r])
        /\ KeepEarly(r, f)
  BY Zenon, MessageFacts
<1>2. /\ incomingQueue' = [incomingQueue EXCEPT ![r] =
           IF Diff(f.seq, incomingSeq[r]) > 0 THEN @ \cup {[seq |-> f.seq, n |-> f.n]} ELSE @]
      /\ UNCHANGED <<incomingSeq, delivered>>
  BY Zenon, <1>1 DEF KeepEarly
<1>3. p \in Side /\ Other(p) = r /\ p # r /\ SideInv(r) /\ SideInv(p)
  BY OtherSide DEF IInv
<1>4. Len(delivered[r]) \in Nat /\ f.n \in Nat
  BY ZenonT(60), <1>1, SeqLen DEF IInv, TypeOK, Frame
<1> DEFINE kept == [seq |-> f.seq, n |-> f.n]
<1>0. incomingQueue'[r] = IF Diff(f.seq, incomingSeq[r]) > 0 THEN incomingQueue[r] \cup {kept}
                                                             ELSE incomingQueue[r]
  BY ZenonT(60), <1>2 DEF IInv, TypeOK
<1>5. \A m \in incomingQueue'[r] : m \in incomingQueue[r] \/ m = kept
  BY <1>0
<1>6. \A m \in incomingQueue'[r] : Good(p, m)
  <2>1. \A m \in incomingQueue[r] : Good(p, m)
    BY ZenonT(30), <1>3 DEF SideInv
  <2>2. Good(p, kept)
    BY ZenonT(60), <1>1 DEF Good
  <2> HIDE DEF kept
  <2> QED BY <1>5, <2>1, <2>2
<1>7. incomingQueue[r] \subseteq incomingQueue'[r]
  BY ZenonT(30), <1>0
<1>8. \A n \in Nat : Safe(p, n) => Safe(p, n)'
  BY ZenonT(30), <1>2, <1>3, <1>7 DEF Safe
<1>9. Safe(p, f.n)'
  <2>1. CASE f.n < Len(delivered[r])
    BY <2>1, <1>2, <1>3 DEF Safe
  <2>2. CASE f.n > Len(delivered[r])
    <3>1. Diff(f.seq, incomingSeq[r]) = f.n - Len(delivered[r])
      BY Zenon, <1>1
    <3>2. kept \in incomingQueue'[r]
      BY <2>2, <3>1, <1>0, <1>4
    <3>3. kept.n = f.n
      OBVIOUS
    <3> QED BY ZenonT(30), <3>2, <3>3, <1>3 DEF Safe
  <2>3. f.n # Len(delivered[r])
    BY Zenon, <1>1
  <2> QED BY <2>1, <2>2, <2>3, <1>4
<1>10. \A s \in Side : s # r => /\ delivered'[s] = delivered[s]
                                /\ incomingSeq'[s] = incomingSeq[s]
                                /\ incomingQueue'[s] = incomingQueue[s]
  BY ZenonT(30), <1>2 DEF IInv, TypeOK
<1>11. /\ Len(delivered'[r]) <= sent[p] /\ incomingSeq'[r] = Len(delivered'[r]) % SeqMod
       /\ \A i \in 1..Len(delivered'[r]) : delivered'[r][i] = i - 1
  BY ZenonT(30), <1>2, <1>3 DEF IInv, InOrderOnce, SideInv
<1> QED BY Zenon, <1>1, <1>6, <1>8, <1>9, <1>10, <1>11, Received

\* The message that is next is processed together with the buffered messages
\* that follow it; they are the next messages of the peer, and nothing that has
\* not been processed leaves the reorder buffer.
LEMMA NextMessageInv ==
  ASSUME IInv, TypeOK', NEW r \in Side, NEW c \in Conn, wire[c][r] # <<>>, OnMessage(r, c),
         Head(wire[c][r]).seq = incomingSeq[r]
  PROVE  IInv'
<1> DEFINE p == Other(r)
           len == Len(delivered[r])
<1>0. PICK f \in Range(wire[c][r]) :
        /\ f = Head(wire[c][r]) /\ f \in Frame /\ f.type = "msg" /\ Good(p, f)
        /\ UNCHANGED <<sendVars, connVars, pendingBroadcasts>>
        /\ \A d \in Conn, s \in Side : \A g \in Range(wire'[d][s]) :
             g \in Range(wire[d][s]) \/ (d = c /\ s = p /\ g = AckFrame(f))
        /\ f.seq = incomingSeq[r] <=> f.n = len
        /\ IF f.seq = incomingSeq[r] THEN ProcessRun(r, f) ELSE KeepEarly(r, f)
  BY Zenon, MessageFacts
<1>1. /\ f \in Frame /\ f.type = "msg" /\ Good(p, f)
      /\ UNCHANGED <<sendVars, connVars, pendingBroadcasts>>
      /\ \A d \in Conn, s \in Side : \A g \in Range(wire'[d][s]) :
           g \in Range(wire[d][s]) \/ (d = c /\ s = p /\ g = AckFrame(f))
      /\ f.n = len
      /\ ProcessRun(r, f)
  BY Zenon, <1>0
<1>2. PICK k \in 0..Half :
        /\ \A j \in 1..k : Buffered(r, After(f.seq, j))
        /\ delivered' = [delivered EXCEPT ![r] = @ \o Run(r, f, k)]
        /\ incomingSeq' = [incomingSeq EXCEPT ![r] = After(f.seq, k + 1)]
        /\ incomingQueue' = [incomingQueue EXCEPT ![r] =
             {m \in @ : Diff(m.seq, After(f.seq, k + 1)) >= 0}]
  BY Zenon, <1>1 DEF ProcessRun
<1>3. p \in Side /\ Other(p) = r /\ p # r /\ SideInv(r) /\ SideInv(p)
  BY OtherSide DEF IInv
<1>4. /\ len \in Nat /\ sent[p] \in Nat /\ Ahead(p) \in Nat
      /\ sent[p] <= Ahead(p) /\ Ahead(p) - len <= Half
  BY <1>3, Window
<1>5. f.n = len /\ len < sent[p] /\ f.seq = len % SeqMod
  BY <1>1, <1>4 DEF Good
<1>6. \A j \in Nat : After(f.seq, j) = (len + j) % SeqMod
  <2> HIDE DEF len
  <2> QED BY SMTT(30), <1>4, <1>5, AddMod DEF After
<1>7. \A m \in incomingQueue[r] : /\ m.n \in Nat /\ m.n < sent[p] /\ m.seq = m.n % SeqMod
                                 /\ Ahead(p) - m.n <= Half
  BY Zenon, <1>3, ElemType DEF IInv, SideInv, Good
<1> HIDE DEF p, len
<1>8. k \in Nat /\ k <= Half
  BY HalfDef
<1>9. ASSUME NEW j \in 1..k PROVE Early(r, After(f.seq, j)).n = len + j /\ len + j < sent[p]
  <2> DEFINE m == Early(r, After(f.seq, j))
  <2>1. m \in incomingQueue[r] /\ m.seq = After(f.seq, j)
    BY <1>2 DEF Buffered, Early
  <2> HIDE DEF m
  <2>2. j \in Nat /\ j <= Half
    BY <1>8, HalfDef
  <2>3. m.n \in Nat /\ m.n < sent[p] /\ Ahead(p) - m.n <= Half
    BY ZenonT(30), <2>1, <1>7
  <2>4. m.n % SeqMod = (len + j) % SeqMod
    BY ZenonT(30), <2>1, <2>2, <1>6, <1>7
  <2>5. m.n - (len + j) < SeqMod /\ (len + j) - m.n < SeqMod
    <3>1. len < sent[p]
      BY <1>5
    <3> QED BY <2>2, <2>3, <3>1, <1>4, HalfDef
  <2>6. m.n = len + j
    <3>1. len + j \in Int
      BY <1>4, <2>2
    <3> QED BY <2>3, <2>4, <2>5, <3>1, SameMod
  <2> QED BY <2>3, <2>6 DEF m
<1>10. /\ Run(r, f, k) \in Seq(Nat) /\ Len(Run(r, f, k)) = k + 1
       /\ \A j \in 1..(k + 1) : Run(r, f, k)[j] = len + j - 1
  <2>1. \A j \in 1..(k + 1) : Run(r, f, k)[j] = len + j - 1
    <3>1. \A j \in 1..(k + 1) : j # 1 => j - 1 \in 1..k
      BY <1>8
    <3> QED BY <3>1, <1>4, <1>5, <1>8, <1>9 DEF Run
  <2>2. Run(r, f, k) \in [1..(k + 1) -> Nat] /\ k + 1 \in Nat
    <3>1. Run(r, f, k) = [j \in 1..(k + 1) |-> Run(r, f, k)[j]]
      BY DEF Run
    <3>2. \A j \in 1..(k + 1) : Run(r, f, k)[j] \in Nat
      BY <2>1, <1>4, <1>8
    <3> QED BY <3>1, <3>2, <1>8
  <2> QED BY ZenonT(30), <2>1, <2>2, FnSeq
<1>11. /\ Len(delivered'[r]) = len + k + 1
       /\ \A i \in 1..(len + k + 1) : delivered'[r][i] = i - 1
  <2>1. /\ delivered[r] \in Seq(Nat) /\ delivered'[r] = delivered[r] \o Run(r, f, k)
        /\ \A i \in 1..len : delivered[r][i] = i - 1
    BY ZenonT(60), <1>2 DEF IInv, TypeOK, InOrderOnce, len
  <2>2. /\ Len(delivered'[r]) = len + (k + 1)
        /\ \A i \in 1..(len + (k + 1)) : delivered'[r][i] =
             IF i <= len THEN delivered[r][i] ELSE Run(r, f, k)[i - len]
    <3> DEFINE a == delivered[r]
               b == Run(r, f, k)
    <3>1. a \in Seq(Nat) /\ b \in Seq(Nat) /\ Len(b) = k + 1 /\ delivered'[r] = a \o b /\ Len(a) = len
      BY <2>1, <1>10 DEF len
    <3> HIDE DEF a, b
    <3>2. /\ Len(a \o b) = Len(a) + Len(b)
          /\ \A i \in 1..(Len(a) + Len(b)) : (a \o b)[i] = IF i <= Len(a) THEN a[i] ELSE b[i - Len(a)]
      BY Zenon, <3>1, SeqConcat
    <3> QED BY ZenonT(30), <3>1, <3>2 DEF a, b
  <2>3. \A i \in 1..(len + (k + 1)) : delivered'[r][i] = i - 1
    <3> SUFFICES ASSUME NEW i \in 1..(len + (k + 1)) PROVE delivered'[r][i] = i - 1
      OBVIOUS
    <3>1. CASE i <= len
      <4>1. i \in 1..len
        BY <3>1, <1>4, <1>8
      <4> QED BY Zenon, <3>1, <4>1, <2>1, <2>2
    <3>2. CASE i > len
      <4>1. i - len \in 1..(k + 1) /\ len + (i - len) - 1 = i - 1 /\ ~ (i <= len)
        BY <3>2, <1>4, <1>8
      <4>2. delivered'[r][i] = Run(r, f, k)[i - len]
        BY Zenon, <4>1, <2>2
      <4>3. Run(r, f, k)[i - len] = len + (i - len) - 1
        BY Zenon, <4>1, <1>10
      <4> QED BY <4>1, <4>2, <4>3
    <3> QED BY <3>1, <3>2, <1>4, <1>8
  <2> QED BY <2>2, <2>3, <1>4, <1>8
<1>12. len + k + 1 <= sent[p]
  <2>1. CASE k = 0
    BY <2>1, <1>4, <1>5
  <2>2. CASE k > 0
    <3>1. k \in 1..k
      BY <2>2, <1>8
    <3> QED BY <3>1, <1>4, <1>8, <1>9
  <2> QED BY <2>1, <2>2, <1>8
<1>13. incomingSeq'[r] = (len + k + 1) % SeqMod
  <2>1. k + 1 \in Nat /\ len + (k + 1) = len + k + 1
    BY <1>4, <1>8
  <2> QED BY <2>1, <1>2, <1>6 DEF IInv, TypeOK
<1>14. incomingQueue'[r] = {m \in incomingQueue[r] : Diff(m.seq, After(f.seq, k + 1)) >= 0}
  BY <1>2 DEF IInv, TypeOK
<1>15. \A m \in incomingQueue[r] : m.n >= len + k + 1 => m \in incomingQueue'[r]
  <2> SUFFICES ASSUME NEW m \in incomingQueue[r], m.n >= len + k + 1
               PROVE  Diff(m.seq, After(f.seq, k + 1)) >= 0
    BY <1>14
  <2> DEFINE t == len + k + 1
  <2>1. t \in Int /\ After(f.seq, k + 1) = t % SeqMod
    <3>1. k + 1 \in Nat /\ len + (k + 1) = t
      BY <1>4, <1>8
    <3> QED BY SMTT(30), <3>1, <1>4, <1>6, <1>8
  <2>2. m.n - t < Half /\ t - m.n <= Half /\ m.n >= t /\ m.n \in Int
    BY <1>4, <1>7, <1>8, HalfDef
  <2> HIDE DEF t
  <2>3. Diff(m.n % SeqMod, t % SeqMod) = m.n - t
    BY <2>1, <2>2, DiffExact
  <2>4. m.seq = m.n % SeqMod
    BY <1>7
  <2> QED BY SMTT(30), <2>1, <2>2, <2>3, <2>4
<1>16. \A m \in incomingQueue'[r] : Good(p, m)
  <2>1. \A m \in incomingQueue[r] : Good(p, m)
    BY <1>3 DEF SideInv
  <2> QED BY <2>1, <1>14
<1>17. ASSUME NEW n \in Nat, Safe(p, n) PROVE Safe(p, n)'
  <2>1. CASE n < len + k + 1
    BY <2>1, <1>3, <1>11 DEF Safe
  <2>2. CASE n >= len + k + 1
    <3>1. ~ (n < len)
      BY <2>2, <1>4, <1>8
    <3>2. PICK m \in incomingQueue[r] : m.n = n
      BY <1>3, <1>17, <3>1 DEF Safe, len
    <3>3. m \in incomingQueue'[r]
      BY <2>2, <3>2, <1>15
    <3> QED BY <3>2, <3>3, <1>3 DEF Safe
  <2> QED BY <2>1, <2>2, <1>4, <1>8
<1>18. Safe(p, f.n)'
  <2>1. f.n < len + k + 1
    BY <1>4, <1>5, <1>8
  <2> QED BY <2>1, <1>3, <1>11 DEF Safe
<1>19. \A s \in Side : s # r => /\ delivered'[s] = delivered[s]
                                /\ incomingSeq'[s] = incomingSeq[s]
                                /\ incomingQueue'[s] = incomingQueue[s]
  BY <1>2 DEF IInv, TypeOK
<1>20. /\ Len(delivered'[r]) <= sent[p] /\ incomingSeq'[r] = Len(delivered'[r]) % SeqMod
       /\ \A i \in 1..Len(delivered'[r]) : delivered'[r][i] = i - 1
  BY <1>11, <1>12, <1>13
<1> QED BY Zenon, <1>1, <1>16, <1>17, <1>18, <1>19, <1>20, Received DEF p

\* signatureMessageAck: the message that leaves the queue is the one that was
\* acknowledged, and the peer has it.
LEMMA AckInv ==
  ASSUME IInv, TypeOK', NEW r \in Side, NEW c \in Conn, wire[c][r] # <<>>, OnMessageAck(r, c)
  PROVE  IInv'
<1> DEFINE p == Other(r)
<1>1. PICK f \in Range(wire[c][r]) : f = Head(wire[c][r]) /\ f \in Frame /\ f.type = "ack"
  BY Zenon, TakeRange DEF IInv, TypeOK, OnMessageAck
<1>2. /\ outgoingQueue' = [outgoingQueue EXCEPT ![r] = Acknowledged(@, f.seq)]
      /\ wire' = Take(wire, r, c)
      /\ UNCHANGED <<connVars, sent, recvVars, pendingBroadcasts>>
  BY <1>1 DEF OnMessageAck, castVars
<1>3. p \in Side /\ Other(p) = r /\ p # r /\ Side = {r, p} /\ SideInv(r) /\ SideInv(p)
  BY DEF IInv, Side, Other
<1>4. \A d \in Conn, s \in Side : Range(wire'[d][s]) \subseteq Range(wire[d][s])
  BY Zenon, <1>2, TakeRange DEF IInv, TypeOK
<1>5. /\ outgoingQueue'[p] = outgoingQueue[p]
      /\ outgoingQueue'[r] = Acknowledged(outgoingQueue[r], f.seq)
  BY <1>2, <1>3 DEF IInv, TypeOK
<1>6. /\ Range(outgoingQueue'[r]) \subseteq Range(outgoingQueue[r])
      /\ \A m \in Range(outgoingQueue[r]) : m \in Range(outgoingQueue'[r]) \/ m.seq = f.seq
  BY Zenon, <1>5, AcknowledgedRange DEF IInv, TypeOK
<1>7. Good(r, f) /\ Safe(r, f.n) /\ f.n \in Nat
  BY ZenonT(30), <1>1, <1>3 DEF SideInv, Frame
<1>8. \A m \in Range(outgoingQueue[r]) : m.seq = f.seq => m.n = f.n
  <2> SUFFICES ASSUME NEW m \in Range(outgoingQueue[r]), m.seq = f.seq PROVE m.n = f.n
    OBVIOUS
  <2>1. Good(r, m) /\ m.n \in Nat
    BY Zenon, <1>3, ElemType DEF SideInv, IInv
  <2>4. m.n < sent[r] /\ f.n < sent[r] /\ Ahead(r) - m.n <= Half /\ Ahead(r) - f.n <= Half
    BY Zenon, <2>1, <1>7 DEF Good
  <2>5. sent[r] \in Nat /\ Ahead(r) \in Nat /\ sent[r] <= Ahead(r)
    BY Zenon, Window
  <2>2. m.n - f.n < SeqMod /\ f.n - m.n < SeqMod
    BY <2>1, <2>4, <2>5, <1>7, HalfDef
  <2>3. m.n % SeqMod = f.n % SeqMod
    BY Zenon, <2>1, <1>7 DEF Good
  <2> QED BY <2>1, <2>2, <2>3, <1>7, SameMod
<1>9. \A s \in Side : /\ Ahead(s)' = Ahead(s) /\ \A m : Good(s, m)' <=> Good(s, m)
                      /\ \A n : Safe(s, n)' <=> Safe(s, n)
  BY <1>2 DEF Ahead, Good, Safe, recvVars
<1>10. UNCHANGED <<sent, incomingSeq, incomingQueue, delivered, sourceRank, tcpconnections>>
  BY <1>2 DEF connVars, recvVars
<1>11. ASSUME NEW s \in Side PROVE SideInv(s)'
  <2>1. SideInv(s) /\ Other(s) \in Side
    BY OtherSide DEF IInv
  <2>2. Range(outgoingQueue'[s]) \subseteq Range(outgoingQueue[s])
    BY <1>3, <1>5, <1>6
  <2> QED BY Zenon, <2>1, <2>2, <1>4, <1>9, <1>10 DEF SideInv
<1>12. InOrderOnce'
  BY <1>10 DEF IInv, InOrderOnce
<1>13. NothingForgotten'
  <2> SUFFICES ASSUME NEW s \in Side, NEW n \in Len(delivered[Other(s)])..(sent[s] - 1)
               PROVE  \E m \in Range(outgoingQueue'[s]) \cup incomingQueue[Other(s)] : m.n = n
    BY <1>10 DEF NothingForgotten
  <2>1. PICK m \in Range(outgoingQueue[s]) \cup incomingQueue[Other(s)] : m.n = n
    BY DEF IInv, NothingForgotten
  <2>2. CASE m \in Range(outgoingQueue'[s]) \cup incomingQueue[Other(s)]
    BY <2>1, <2>2
  <2>3. CASE m \notin Range(outgoingQueue'[s]) \cup incomingQueue[Other(s)]
    <3>1. s = r /\ m.seq = f.seq
      BY <2>1, <2>3, <1>3, <1>5, <1>6
    <3>2. f.n = n
      BY <2>1, <2>3, <3>1, <1>8
    <3>3. ~ (n < Len(delivered[Other(s)]))
      BY Window
    <3> QED BY <3>1, <3>2, <3>3, <1>7 DEF Safe
  <2> QED BY <2>2, <2>3
<1> QED BY <1>11, <1>12, <1>13 DEF IInv

----------------------------------------------------------------------------
(***************************************************************************)
(* The other steps, and the theorems.                                      *)
(***************************************************************************)

\* forwardBroadcast to an edge that has not connected yet.
LEMMA ForwardInv ==
  ASSUME IInv, TypeOK', NEW r \in Side, ForwardBroadcast(r)
  PROVE  IInv'
<1>1. /\ Recent(r, 2)
      /\ pendingBroadcasts' = [pendingBroadcasts EXCEPT ![r] = @ + 1]
      /\ UNCHANGED <<connVars, wire, sendVars, recvVars>>
  BY DEF ForwardBroadcast
<1>2. UNCHANGED <<sent, outgoingQueue, incomingSeq, incomingQueue, delivered, sourceRank, tcpconnections, wire>>
  BY <1>1 DEF connVars, sendVars, recvVars
<1>3. /\ Ahead(r)' \in Nat /\ Ahead(r) \in Nat /\ Ahead(r)' <= Ahead(r) + 2 /\ sent[r] \in Nat
      /\ \A s \in Side : s # r => Ahead(s)' = Ahead(s)
  <2>1. sent \in [Side -> Nat] /\ pendingBroadcasts \in [Side -> Nat]
    BY Zenon DEF IInv, TypeOK
  <2>2. pendingBroadcasts'[r] = pendingBroadcasts[r] + 1 /\ sent' = sent
    BY ONLY <2>1, <1>1, <1>2, r \in Side
  <2>3. \A s \in Side : s # r => pendingBroadcasts'[s] = pendingBroadcasts[s]
    BY Zenon, <2>1, <1>1
  <2>4. sent[r] \in Nat /\ pendingBroadcasts[r] \in Nat
    BY Zenon, <2>1
  <2>5. Ahead(r)' \in Nat /\ Ahead(r) \in Nat /\ Ahead(r)' <= Ahead(r) + 2
    BY ONLY <2>2, <2>4 DEF Ahead
  <2>6. \A s \in Side : s # r => Ahead(s)' = Ahead(s)
    BY Zenon, <2>2, <2>3 DEF Ahead
  <2> QED BY Zenon, <2>4, <2>5, <2>6
<1>4. /\ Ahead(r) + 2 - sent[r] <= Half
      /\ \A m : InUse(r, m) => Ahead(r) + 2 - m.n <= Half
  BY <1>1 DEF Recent, InUse
<1>5. ASSUME NEW m, InUse(r, m) PROVE Good(r, m)'
  <2>1. Good(r, m)
    BY <1>5 DEF IInv, SideInv, InUse
  <2>2. m.n \in Nat
    BY <1>5, OtherSide, ElemType DEF IInv, InUse
  <2>3. Ahead(r)' - m.n <= Half
    BY <2>2, <1>3, <1>4, <1>5, HalfDef
  <2> QED BY <2>1, <2>3, <1>2 DEF Good
<1>6. \A s \in Side : s # r => \A m : Good(s, m)' <=> Good(s, m)
  BY <1>2, <1>3 DEF Good
<1>7. \A s \in Side : \A n : Safe(s, n)' <=> Safe(s, n)
  BY <1>2 DEF Safe
<1>8. ASSUME NEW s \in Side PROVE SideInv(s)'
  <2>1. SideInv(s)
    BY DEF IInv
  <2>2. CASE s = r
    <3>1. Ahead(r)' - sent'[r] <= Half
      BY <1>2, <1>3, <1>4, HalfDef
    <3>2. \A m \in Range(outgoingQueue[r]) \cup incomingQueue[Other(r)] : Good(r, m)'
      BY <1>5 DEF InUse
    <3>3. \A d \in Conn : \A f \in Range(wire[d][Other(r)]) : f.type = "msg" => Good(r, f)'
      BY <1>5 DEF InUse
    <3>4. \A d \in Conn : \A f \in Range(wire[d][r]) : f.type = "ack" => Good(r, f)'
      BY <1>5 DEF InUse
    <3> QED BY <2>1, <2>2, <3>1, <3>2, <3>3, <3>4, <1>2, <1>7 DEF SideInv
  <2>3. CASE s # r
    BY ZenonT(30), <2>1, <2>3, <1>2, <1>3, <1>6, <1>7 DEF SideInv
  <2> QED BY <2>2, <2>3
<1>9. InOrderOnce' /\ NothingForgotten'
  BY <1>2 DEF IInv, InOrderOnce, NothingForgotten
<1> QED BY ZenonT(30), <1>8, <1>9 DEF IInv

\* Every step of the edge preserves the inductive invariant.
LEMMA NextInv == IInv /\ [Next]_vars => IInv'
<1> SUFFICES ASSUME IInv, [Next]_vars PROVE IInv'
  OBVIOUS
<1>1. TypeOK /\ TypeOK' /\ \A r \in Side : \A c \in tcpconnections[r] : sourceRank[c][r]
  BY ZenonT(30), NextType DEF IInv, SideInv
<1>2. ASSUME NEW r \in Side, StopConnecting(r) PROVE IInv'
  <2>1. UNCHANGED <<sendVars, recvVars, pendingBroadcasts, wire, sourceRank, tcpconnections>>
    BY <1>2 DEF StopConnecting, castVars, connVars
  <2> QED BY <1>1, <2>1, Shrink
<1>3. ASSUME NEW r \in Side, CloseStore(r) PROVE IInv'
  <2>1. UNCHANGED <<sendVars, recvVars, pendingBroadcasts, sourceRank>>
    BY <1>3 DEF CloseStore, castVars
  <2>2. \A c \in Conn, s \in Side : Range(wire'[c][s]) \subseteq Range(wire[c][s])
    <3>1. \A c \in Conn, s \in Side : wire'[c][s] = wire[c][s] \/ wire'[c][s] = <<>>
      BY <1>1, <1>3 DEF CloseStore, TypeOK
    <3> QED BY <3>1, RangeShort
  <2>3. \A s \in Side : tcpconnections'[s] \subseteq tcpconnections[s]
    BY <1>1, <1>3 DEF CloseStore, TypeOK
  <2> QED BY <1>1, <2>1, <2>2, <2>3, Shrink
<1>4. ASSUME NEW r \in Side, NEW c \in Conn, ConnectEdge(r, c) PROVE IInv'
  <2>1. /\ UNCHANGED <<sendVars, recvVars, pendingBroadcasts, tcpconnections>>
        /\ \A s \in Side : c \notin tcpconnections[s] /\ wire[c][s] = <<>>
        /\ \A d \in Conn : d # c => wire'[d] = wire[d] /\ sourceRank'[d] = sourceRank[d]
    BY <1>1, <1>4 DEF ConnectEdge, Gone, castVars, TypeOK
  <2>2. ASSUME NEW s \in Side, NEW f \in Range(wire'[c][s]) PROVE f.type = "connect"
    <3>1. wire'[c][s] = <<>> \/ wire'[c][s] = <<Ctl("connect")>>
      <4>1. /\ wire[c][s] = <<>> /\ Other(r) \in Side
            /\ wire[c] \in [Side -> Seq(Frame)] /\ wire \in [Conn -> [Side -> Seq(Frame)]]
        BY ZenonT(60), <1>1, <2>1, OtherSide DEF TypeOK
      <4>2. \E q \in {<<>>, <<Ctl("connect")>>} : wire' = [wire EXCEPT ![c][Other(r)] = q]
        BY ZenonT(60), <1>4 DEF ConnectEdge
      <4> QED BY <4>1, <4>2
    <3>2. f = Ctl("connect")
      BY Zenon, <2>2, <3>1, RangeShort
    <3> QED BY <3>2 DEF Ctl
  <2>3. \A s \in Side : \A d \in tcpconnections'[s] : sourceRank'[d][s]
    BY Zenon, <1>1, <2>1 DEF TypeOK
  <2>4. \A d \in Conn, s \in Side : \A f \in Range(wire'[d][s]) :
          f.type \in {"msg", "ack"} => f \in Range(wire[d][s]) /\ sourceRank'[d] = sourceRank[d]
    BY <2>1, <2>2
  <2> QED BY ZenonT(30), <1>1, <2>1, <2>3, <2>4, Shrink
<1>5. ASSUME NEW r \in Side, NEW c \in Conn, LoseTail(r, c) PROVE IInv'
  <2>1. UNCHANGED <<sendVars, recvVars, pendingBroadcasts, sourceRank, tcpconnections>>
    BY <1>5 DEF LoseTail, castVars, connVars
  <2>2. PICK k \in 0..(Len(wire[c][r]) - 1) : wire' = [wire EXCEPT ![c][r] = SubSeq(@, 1, k)]
    BY Zenon, <1>5 DEF LoseTail
  <2>3. wire[c][r] \in Seq(Frame) /\ k \in Nat /\ k <= Len(wire[c][r])
        /\ DOMAIN wire[c][r] = 1..Len(wire[c][r])
    BY <1>1, SeqLen DEF TypeOK
  <2>4. Range(SubSeq(wire[c][r], 1, k)) = {wire[c][r][i] : i \in 1..k}
    BY <2>3, RangeSubSeq
  <2>5. {wire[c][r][i] : i \in 1..k} \subseteq Range(wire[c][r])
    BY <2>3 DEF Range
  <2>6. \A d \in Conn, s \in Side : Range(wire'[d][s]) \subseteq Range(wire[d][s])
    BY ZenonT(60), <1>1, <2>2, <2>4, <2>5 DEF TypeOK
  <2> QED BY <1>1, <2>1, <2>6, Shrink
<1>6. ASSUME NEW r \in Side, NEW c \in Conn,
             ReadError(r, c) \/ KeepaliveTimeout(r, c) \/ Reap(r, c)
      PROVE  IInv'
  <2>1. /\ UNCHANGED <<sendVars, recvVars, pendingBroadcasts, sourceRank, wire>>
        /\ \/ UNCHANGED tcpconnections
           \/ tcpconnections' = [tcpconnections EXCEPT ![r] = @ \ {c}]
    BY <1>6 DEF ReadError, KeepaliveTimeout, Reap, castVars
  <2>2. \A s \in Side : tcpconnections'[s] \subseteq tcpconnections[s]
    <3>1. CASE UNCHANGED tcpconnections
      BY <3>1
    <3>2. CASE tcpconnections' = [tcpconnections EXCEPT ![r] = @ \ {c}]
      BY <1>1, <3>2 DEF TypeOK
    <3> QED BY <2>1, <3>1, <3>2
  <2> QED BY <1>1, <2>1, <2>2, Shrink
<1>7. ASSUME NEW c \in Conn, Break(c) PROVE IInv'
  <2>1. UNCHANGED <<sendVars, recvVars, pendingBroadcasts, wire, sourceRank, tcpconnections>>
    BY <1>7 DEF Break, castVars
  <2> QED BY <1>1, <2>1, Shrink
<1>8. ASSUME NEW r \in Side, NEW c \in Conn, OnReadTcp(r, c) PROVE IInv'
  <2>1. wire[c][r] # <<>>
    BY <1>8 DEF OnReadTcp
  <2>2. CASE RefuseConnect(r, c) \/ DropMessage(r, c)
    <3>1. /\ UNCHANGED <<sendVars, recvVars, pendingBroadcasts, sourceRank, tcpconnections>>
          /\ wire' = Take(wire, r, c)
      BY <2>2 DEF RefuseConnect, DropMessage, castVars, connVars
    <3>2. \A d \in Conn, s \in Side : Range(wire'[d][s]) \subseteq Range(wire[d][s])
      BY Zenon, <1>1, <2>1, <3>1, TakeRange DEF TypeOK
    <3> QED BY <1>1, <3>1, <3>2, Shrink
  <2>3. CASE AdoptConnect(r, c)
    BY <1>1, <2>1, <2>3, AdoptInv
  <2>4. CASE OnMessage(r, c)
    BY <1>1, <2>1, <2>4, NotNextInv, NextMessageInv
  <2>5. CASE OnMessageAck(r, c)
    BY <1>1, <2>1, <2>5, AckInv
  <2> QED BY <1>8, <2>2, <2>3, <2>4, <2>5 DEF OnReadTcp, OnConnect
<1>9. CASE UNCHANGED vars
  <2>1. UNCHANGED <<sendVars, recvVars, pendingBroadcasts, wire, sourceRank, tcpconnections>>
    BY <1>9 DEF vars, castVars, connVars
  <2> QED BY <1>1, <2>1, Shrink
<1> QED BY ZenonT(30), <1>1, <1>2, <1>3, <1>4, <1>5, <1>6, <1>7, <1>8, <1>9, SendInv, ForwardInv DEF Next

----------------------------------------------------------------------------
(***************************************************************************)
(* Theorems.                                                               *)
(***************************************************************************)

\* The inductive invariant holds in every reachable state of an edge.
THEOREM Invariance == Spec => []IInv
  BY InitInv, NextInv, PTL DEF Spec

\* The state of an edge stays well typed.
THEOREM TypeCorrect == Spec => []TypeOK
  BY InitType, NextType, PTL DEF Spec

\* onreadtcp gives processMessage exactly the messages the peer sent, in order
\* and once, whatever connections break and however often messages are written
\* again, for every number of messages and every width of the sequence number.
THEOREM Reliable == Spec => []InOrderOnce
<1>1. IInv => InOrderOnce
  BY DEF IInv
<1> QED BY <1>1, Invariance, PTL

\* A message stays in outgoingQueue until the peer has it, so that adopting a
\* new connection writes everything the peer still needs.
THEOREM Retained == Spec => []NothingForgotten
<1>1. IInv => NothingForgotten
  BY DEF IInv
<1> QED BY <1>1, Invariance, PTL

\* The CHECK(ci->sourceRank != -1) of the signatureMessageAck handler never fails.
THEOREM AckChecked == Spec => []AckOnAdopted
<1>1. IInv => AckOnAdopted
  <2> SUFFICES ASSUME IInv, NEW r \in Side, NEW c \in Conn,
                      wire[c][r] # <<>>, Head(wire[c][r]).type = "ack"
               PROVE  sourceRank[c][r]
    BY DEF AckOnAdopted
  <2>1. Head(wire[c][r]) \in Range(wire[c][r])
    BY Zenon, TakeRange DEF IInv, TypeOK
  <2> QED BY <2>1 DEF IInv, SideInv
<1> QED BY <1>1, Invariance, PTL

\* A well-ordered sequence of numbers is the sequence of the first ones.
LEMMA IsFirst ==
  ASSUME NEW s \in Seq(Nat), \A i \in 1..Len(s) : s[i] = i - 1
  PROVE  s = Fifo!FirstMessages(Len(s))
<1> DEFINE t == Fifo!FirstMessages(Len(s))
<1>1. Len(s) \in Nat
  BY SeqLen
<1>2. t = [i \in 1..Len(s) |-> i - 1]
  BY DEF Fifo!FirstMessages
<1>3. t \in [1..Len(s) -> Nat] /\ \A i \in 1..Len(s) : t[i] = i - 1
  BY <1>1, <1>2
<1> HIDE DEF t
<1>4. t \in Seq(Nat) /\ Len(t) = Len(s)
  BY ZenonT(60), <1>1, <1>3, FnSeq
<1>5. s = t
  BY Zenon, <1>3, <1>4, SeqSame
<1> QED BY <1>5 DEF t

\* The length of a concatenation.
LEMMA LenConcat ==
  ASSUME NEW s \in Seq(Nat), NEW t \in Seq(Nat)
  PROVE  Len(s \o t) = Len(s) + Len(t) /\ Len(s) \in Nat
  BY SeqConcat, SeqLen

\* The edge implements a pair of reliable FIFO channels.
THEOREM Refinement == Spec => ReliableFifo
<1>1. Init => Fifo!Init
  BY DEF Init, Fifo!Init
<1>2. IInv /\ IInv' /\ [Next]_vars => [Fifo!Next]_(Fifo!fifoVars)
  <2> SUFFICES ASSUME IInv, IInv', [Next]_vars, ~ UNCHANGED <<sent, delivered>>
               PROVE  Fifo!Next
    BY DEF Fifo!fifoVars
  <2>1. ASSUME NEW r \in Side, NEW k \in Nat, sent' = [sent EXCEPT ![r] = @ + k], UNCHANGED delivered
        PROVE  Fifo!Next
    <3>1. sent[r] \in Nat /\ sent'[r] = sent[r] + k /\ sent' = [sent EXCEPT ![r] = sent'[r]]
      BY <2>1 DEF IInv, TypeOK
    <3>2. k > 0
      <4>1. CASE k = 0
        <5>1. sent' = sent
          BY <2>1, <3>1, <4>1 DEF IInv, TypeOK
        <5> QED BY <2>1, <5>1
      <4> QED BY <4>1
    <3>3. sent'[r] > sent[r]
      BY <3>1, <3>2
    <3> QED BY Zenon, <2>1, <3>1, <3>3 DEF Fifo!Next, Fifo!Send
  <2>2. ASSUME NEW r \in Side, Send(r) PROVE Fifo!Next
    <3>1. UNCHANGED delivered /\ \E k \in 1..2 : sent' = [sent EXCEPT ![r] = @ + k]
      BY Zenon, <2>2 DEF Send, recvVars
    <3>2. \A k \in 1..2 : k \in Nat
      OBVIOUS
    <3> QED BY Zenon, <2>1, <3>1, <3>2
  <2>3. ASSUME NEW r \in Side, NEW c \in Conn, AdoptConnect(r, c) PROVE Fifo!Next
    <3>1. UNCHANGED delivered
          /\ \E k \in pendingBroadcasts[r]..(Ahead(r) - sent[r]) : sent' = [sent EXCEPT ![r] = @ + k]
      BY Zenon, <2>3 DEF AdoptConnect, recvVars
    <3>2. \A k \in pendingBroadcasts[r]..(Ahead(r) - sent[r]) : k \in Nat
      BY DEF IInv, TypeOK, Ahead
    <3> QED BY Zenon, <2>1, <3>1, <3>2
  <2>4. ASSUME NEW r \in Side, NEW c \in Conn, wire[c][r] # <<>>, OnMessage(r, c) PROVE Fifo!Next
    <3> DEFINE f == Head(wire[c][r])
    <3>1. f \in Frame /\ UNCHANGED sent /\ (ProcessRun(r, f) \/ KeepEarly(r, f))
      BY Zenon, <2>4, TakeRange DEF OnMessage, sendVars, IInv, TypeOK
    <3> HIDE DEF f
    <3>2. ProcessRun(r, f)
      BY <3>1 DEF KeepEarly
    <3>3. PICK k \in 0..Half :
            /\ \A j \in 1..k : Buffered(r, After(f.seq, j))
            /\ delivered' = [delivered EXCEPT ![r] = @ \o Run(r, f, k)]
      BY Zenon, <3>2 DEF ProcessRun
    <3>4. Run(r, f, k) \in Seq(Nat) /\ Len(Run(r, f, k)) = k + 1
      BY <3>1, <3>3, RunType DEF IInv
    <3>5. /\ delivered'[r] = delivered[r] \o Run(r, f, k) /\ delivered[r] \in Seq(Nat)
          /\ delivered' = [delivered EXCEPT ![r] = delivered'[r]]
      BY ZenonT(60), <3>3 DEF IInv, TypeOK
    <3>6. Len(delivered'[r]) \in (Len(delivered[r]) + 1)..sent[Other(r)]
      <4>1. Len(delivered'[r]) = Len(delivered[r]) + Len(Run(r, f, k)) /\ Len(delivered[r]) \in Nat
        BY Zenon, <3>4, <3>5, LenConcat
      <4>2. Len(delivered'[r]) <= sent[Other(r)] /\ sent[Other(r)] \in Nat
        BY ZenonT(30), <3>1, OtherSide DEF IInv, TypeOK, InOrderOnce
      <4>3. k \in Nat
        BY HalfDef
      <4>4. Len(delivered'[r]) = Len(delivered[r]) + (k + 1)
        BY <3>4, <4>1
      <4>5. \A x, y, z \in Nat : x + (z + 1) <= y => x + (z + 1) \in (x + 1)..y
        OBVIOUS
      <4> QED BY Zenon, <4>1, <4>2, <4>3, <4>4, <4>5
    <3>7. delivered'[r] = Fifo!FirstMessages(Len(delivered'[r]))
      <4>1. delivered'[r] \in Seq(Nat) /\ \A i \in 1..Len(delivered'[r]) : delivered'[r][i] = i - 1
        BY DEF IInv, TypeOK, InOrderOnce
      <4> QED BY <4>1, IsFirst
    <3>8. \E m \in (Len(delivered[r]) + 1)..sent[Other(r)] :
            delivered' = [delivered EXCEPT ![r] = Fifo!FirstMessages(m)]
      BY Zenon, <3>5, <3>6, <3>7
    <3> QED BY Zenon, <3>1, <3>8 DEF Fifo!Next, Fifo!Deliver
  <2>6. ASSUME NEW r \in Side, NEW c \in Conn, OnReadTcp(r, c) PROVE Fifo!Next
    <3>1. wire[c][r] # <<>>
      BY <2>6 DEF OnReadTcp
    <3>2. ~ (RefuseConnect(r, c) \/ DropMessage(r, c) \/ OnMessageAck(r, c))
      BY DEF RefuseConnect, DropMessage, OnMessageAck, sendVars, recvVars
    <3> QED BY ZenonT(30), <2>3, <2>4, <2>6, <3>1, <3>2 DEF OnReadTcp, OnConnect
  <2>7. \A r \in Side : ~ (ForwardBroadcast(r) \/ StopConnecting(r) \/ CloseStore(r))
    BY DEF ForwardBroadcast, StopConnecting, CloseStore, sendVars, recvVars
  <2>8. \A r \in Side, c \in Conn :
          ~ (\/ ConnectEdge(r, c) \/ LoseTail(r, c) \/ ReadError(r, c)
             \/ KeepaliveTimeout(r, c) \/ Reap(r, c) \/ Break(c))
    BY DEF ConnectEdge, LoseTail, ReadError, KeepaliveTimeout, Reap, Break, sendVars, recvVars
  <2>9. Next
    BY DEF vars, sendVars, recvVars
  <2> QED BY <2>2, <2>6, <2>7, <2>8, <2>9 DEF Next, Side
<1> QED BY <1>1, <1>2, Invariance, PTL DEF Spec, ReliableFifo, Fifo!Spec
=============================================================================
