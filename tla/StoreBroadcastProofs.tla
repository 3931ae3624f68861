------------------------ MODULE StoreBroadcastProofs ------------------------
(***************************************************************************)
(* Broadcasts over every mesh with the routes that findPaths computes.     *)
(***************************************************************************)
EXTENDS StoreBroadcast, SequenceTheorems, TLAPS

(***************************************************************************)
(* The inductive invariant.                                                *)
(***************************************************************************)

\* The broadcasts of s that p has had a reason to pass on.
Has(p, s) == IF p = s THEN started[s] ELSE Len(received[p][s])

\* Consecutive broadcasts from the one numbered first on, with ttl hops left.
Numbered(q, first, ttl) ==
  \A i \in 1..Len(q) : q[i].n = first + i - 1 /\ q[i].ttl = ttl

\* p keeps the broadcasts of s for r, to which it has had no connection.
Kept(p, r, s) == p # s /\ ~everConnected[p][r]

Hops(p, s) == worldSize - Distance[p][s]

\* What r has processed of the broadcasts of s, which s keeps for nobody.
Prefix(r, s) ==
  /\ \A i \in 1..Len(received[r][s]) : received[r][s][i] = i - 1
  /\ Len(received[r][s]) <= started[s]
  /\ pendingBroadcasts[s][r][s] = <<>>

\* The broadcasts of s come to r from p only.  What r has processed, what is on its
\* way and what p keeps for r are together what p has, numbered without a gap.
Feed(p, r, s) ==
  /\ \A q \in Rank \ {p} : chan[q][r][s] = <<>>
  /\ Numbered(chan[p][r][s], Len(received[r][s]), Hops(p, s))
  /\ Kept(p, r, s) =>
       /\ received[r][s] = <<>> /\ chan[p][r][s] = <<>>
       /\ Numbered(pendingBroadcasts[p][r][s], 0, Hops(p, s))
       /\ Len(pendingBroadcasts[p][r][s]) = Has(p, s)
  /\ ~Kept(p, r, s) => Len(received[r][s]) + Len(chan[p][r][s]) = Has(p, s)

\* A rank gets none of its own broadcasts, and those of another rank from its first
\* hop towards that rank.
Row(r, s) ==
  /\ Prefix(r, s)
  /\ r = s => received[r][s] = <<>> /\ \A q \in Rank : chan[q][r][s] = <<>>
  /\ r # s => Feed(firsthop[r][s], r, s)

IInv == TypeOK /\ \A r, s \in Rank : Row(r, s)

----------------------------------------------------------------------------
(***************************************************************************)
(* Routes and numbered sequences.                                          *)
(***************************************************************************)

\* The first hop of r towards s is a neighbour, one hop nearer, and does not go back
\* to r; hops are left there.
LEMMA Routes ==
  ASSUME NEW r \in Rank, NEW s \in Rank, r # s
  PROVE  /\ firsthop[r][s] \in Rank /\ firsthop[r][s] # r
         /\ r \in edges[firsthop[r][s]]
         /\ Hops(firsthop[r][s], s) \in 1..worldSize
         /\ Hops(firsthop[r][s], s) - 1 = Hops(r, s)
         /\ firsthop[firsthop[r][s]][s] # r
<1> DEFINE p == firsthop[r][s]
<1>1. p \in Rank /\ r \in edges[p] /\ Distance[p][s] = Distance[r][s] - 1
  BY MeshAssumption, RouteAssumption
<1>2. /\ Distance[p][s] \in Nat /\ Distance[r][s] \in Nat /\ worldSize \in Nat
      /\ Distance[p][s] < worldSize /\ Distance[r][s] < worldSize
  BY <1>1, MeshAssumption, RouteAssumption, WorldAssumption
<1>3. firsthop[p][s] # r
  <2>1. CASE p = s
    BY <2>1, <1>1, RouteAssumption
  <2>2. CASE p # s
    <3>1. Distance[firsthop[p][s]][s] = Distance[p][s] - 1
      BY <2>2, <1>1, RouteAssumption
    <3> QED BY <3>1, <1>1, <1>2
  <2> QED BY <2>1, <2>2
<1> QED BY <1>1, <1>2, <1>3, MeshAssumption DEF Hops

\* A rank that s sends to directly has s as its first hop.
LEMMA Neighbours ==
  ASSUME NEW r \in Rank, NEW s \in Rank
  PROVE  /\ r \in edges[s] => firsthop[r][s] = s /\ r # s
         /\ firsthop[s][s] = s /\ Hops(s, s) = worldSize
  BY MeshAssumption, RouteAssumption, WorldAssumption DEF Hops

\* The numbers go on when the next broadcast is appended.
LEMMA NumberedAppend ==
  ASSUME NEW q \in Seq(Frame), NEW f \in Frame, NEW a \in Nat, NEW t \in Int,
         Numbered(q, a, t), f.n = a + Len(q), f.ttl = t
  PROVE  /\ Append(q, f) \in Seq(Frame) /\ Len(Append(q, f)) = Len(q) + 1
         /\ Numbered(Append(q, f), a, t)
<1>1. /\ Append(q, f) \in Seq(Frame) /\ Len(Append(q, f)) = Len(q) + 1 /\ Len(q) \in Nat
      /\ \A i \in 1..Len(q) : Append(q, f)[i] = q[i]
      /\ Append(q, f)[Len(q) + 1] = f
  BY AppendProperties, LenProperties
<1>2. ASSUME NEW i \in 1..(Len(q) + 1)
      PROVE  Append(q, f)[i].n = a + i - 1 /\ Append(q, f)[i].ttl = t
  <2>1. CASE i = Len(q) + 1
    BY <2>1, <1>1
  <2>2. CASE i \in 1..Len(q)
    BY <2>2, <1>1 DEF Numbered
  <2> QED BY <2>1, <2>2, <1>1
<1> QED BY <1>1, <1>2 DEF Numbered

\* The first of a numbered sequence has the first number, the rest the next ones.
LEMMA NumberedTail ==
  ASSUME NEW q \in Seq(Frame), q # <<>>, NEW a \in Nat, NEW t \in Int, Numbered(q, a, t)
  PROVE  /\ Head(q) \in Frame /\ Head(q).n = a /\ Head(q).ttl = t
         /\ Tail(q) \in Seq(Frame) /\ Len(Tail(q)) = Len(q) - 1 /\ Len(q) \in Nat \ {0}
         /\ Numbered(Tail(q), a + 1, t)
<1>1. /\ Head(q) \in Frame /\ Tail(q) \in Seq(Frame) /\ Len(Tail(q)) = Len(q) - 1
      /\ \A i \in 1..Len(Tail(q)) : Tail(q)[i] = q[i + 1]
  BY HeadTailProperties
<1>2. Len(q) \in Nat \ {0} /\ Head(q) = q[1]
  BY EmptySeq, LenProperties
<1>3. Head(q).n = a /\ Head(q).ttl = t
  BY <1>2 DEF Numbered
<1>4. ASSUME NEW i \in 1..Len(Tail(q))
      PROVE  Tail(q)[i].n = (a + 1) + i - 1 /\ Tail(q)[i].ttl = t
  <2>1. i + 1 \in 1..Len(q) /\ Tail(q)[i] = q[i + 1]
    BY <1>1, <1>2
  <2>2. q[i + 1].n = a + (i + 1) - 1 /\ q[i + 1].ttl = t
    BY <2>1 DEF Numbered
  <2> QED BY <2>1, <2>2
<1> QED BY <1>1, <1>2, <1>3, <1>4 DEF Numbered

----------------------------------------------------------------------------
(***************************************************************************)
(* Types.                                                                  *)
(***************************************************************************)

\* The types of the parts of the state.
LEMMA Types ==
  ASSUME TypeOK, NEW q \in Rank, NEW e \in Rank, NEW s \in Rank
  PROVE  /\ started[s] \in Nat /\ everConnected[q][e] \in BOOLEAN
         /\ chan[q][e][s] \in Seq(Frame) /\ pendingBroadcasts[q][e][s] \in Seq(Frame)
         /\ received[q][s] \in Seq(Nat)
         /\ Len(chan[q][e][s]) \in Nat /\ Len(pendingBroadcasts[q][e][s]) \in Nat
         /\ Len(received[q][s]) \in Nat
<1>1. /\ started[s] \in Nat /\ everConnected[q][e] \in BOOLEAN
      /\ chan[q][e][s] \in Seq(Frame) /\ pendingBroadcasts[q][e][s] \in Seq(Frame)
      /\ received[q][s] \in Seq(Nat)
  BY DEF TypeOK
<1> QED BY <1>1, LenProperties

\* A new broadcast is a frame.
LEMMA CastType ==
  ASSUME TypeOK, NEW s \in Rank, BroadcastMessage(s)
  PROVE  /\ TypeOK'
         /\ [n |-> started[s], ttl |-> worldSize] \in Frame
<1>1. [n |-> started[s], ttl |-> worldSize] \in Frame
  BY Types, WorldAssumption DEF Frame
<1>2. \A q, e, t \in Rank : Append(chan[q][e][t], [n |-> started[s], ttl |-> worldSize]) \in Seq(Frame)
  BY <1>1, Types, AppendProperties
<1>3. chan' \in [Rank -> [Rank -> [Rank -> Seq(Frame)]]]
  BY <1>2, Types DEF BroadcastMessage
<1>4. started' \in [Rank -> Nat]
  BY DEF BroadcastMessage, TypeOK
<1> QED BY ZenonT(30), <1>1, <1>3, <1>4 DEF BroadcastMessage, TypeOK

\* What is replayed is frames.
LEMMA AdoptType ==
  ASSUME TypeOK, NEW r \in Rank, NEW e \in Rank, AdoptConnect(r, e)
  PROVE  TypeOK'
<1>1. \A s \in Rank : chan[r][e][s] \o pendingBroadcasts[r][e][s] \in Seq(Frame)
  BY Types, ConcatProperties
<1>2. chan' \in [Rank -> [Rank -> [Rank -> Seq(Frame)]]]
  <2> DEFINE new == [s \in Rank |-> IF s \in broadcastForwardFor(r, e)
                       THEN chan[r][e][s] \o pendingBroadcasts[r][e][s] ELSE chan[r][e][s]]
  <2>1. new \in [Rank -> Seq(Frame)]
    BY SMTT(30), <1>1, Types
  <2>2. chan' = [chan EXCEPT ![r][e] = new]
    BY ZenonT(30) DEF AdoptConnect
  <2> HIDE DEF new
  <2> QED BY Zenon, <2>1, <2>2 DEF TypeOK
<1>3. pendingBroadcasts' \in [Rank -> [Rank -> [Rank -> Seq(Frame)]]]
  <2>1. [s \in Rank |-> <<>>] \in [Rank -> Seq(Frame)]
    BY EmptySeq
  <2> QED BY Zenon, <2>1 DEF AdoptConnect, TypeOK
<1>4. everConnected' \in [Rank -> [Rank -> BOOLEAN]]
  BY Zenon DEF AdoptConnect, TypeOK
<1> QED BY Zenon, <1>2, <1>3, <1>4 DEF AdoptConnect, TypeOK

\* A frame that still has a hop is taken off, copied and appended to channels.
LEMMA ProcessType ==
  ASSUME TypeOK, NEW r \in Rank, NEW p \in Rank, NEW s \in Rank, ProcessMessage(r, p, s),
         Head(chan[p][r][s]).ttl > 0
  PROVE  /\ TypeOK'
         /\ Copy(Head(chan[p][r][s])) \in Frame
<1> DEFINE f == Head(chan[p][r][s])
<1>1. chan[p][r][s] \in Seq(Frame) /\ chan[p][r][s] # <<>>
  BY ZenonT(30), Types DEF ProcessMessage
<1>2. f \in Frame /\ Tail(chan[p][r][s]) \in Seq(Frame)
  BY <1>1, HeadTailProperties
<1>3. Copy(f) \in Frame /\ f.n \in Nat
  <2>1. f.ttl > 0
    OBVIOUS
  <2> HIDE DEF f
  <2>2. f.n \in Nat /\ f.ttl \in 0..worldSize /\ Copy(f) = [n |-> f.n, ttl |-> f.ttl - 1]
    BY <1>2 DEF Copy, Frame
  <2>3. f.ttl - 1 \in 0..worldSize
    BY <2>1, <2>2, WorldAssumption
  <2> QED BY <2>2, <2>3 DEF Frame
<1> HIDE DEF f
<1>4. \A q, e, t \in Rank : /\ Append(chan[q][e][t], Copy(f)) \in Seq(Frame)
                            /\ Append(pendingBroadcasts[q][e][t], Copy(f)) \in Seq(Frame)
  BY <1>3, Types, AppendProperties
<1>5. chan' \in [Rank -> [Rank -> [Rank -> Seq(Frame)]]]
  <2>1. chan' = [q \in Rank |-> [e \in Rank |-> [t \in Rank |->
            CASE q = p /\ e = r /\ t = s -> Tail(chan[q][e][t])
              [] q = r /\ t = s /\ e \in Forwards(r, p, s) -> Append(chan[q][e][t], Copy(f))
              [] OTHER -> chan[q][e][t]]]]
    BY DEF ProcessMessage, f
  <2>2. \A q, e, t \in Rank :
          (CASE q = p /\ e = r /\ t = s -> Tail(chan[q][e][t])
              [] q = r /\ t = s /\ e \in Forwards(r, p, s) -> Append(chan[q][e][t], Copy(f))
              [] OTHER -> chan[q][e][t]) \in Seq(Frame)
    BY <1>2, <1>4, Types
  <2> QED BY ZenonT(30), <2>1, <2>2
<1>6. pendingBroadcasts' \in [Rank -> [Rank -> [Rank -> Seq(Frame)]]]
  <2>1. pendingBroadcasts' = [q \in Rank |-> [e \in Rank |-> [t \in Rank |->
            IF q = r /\ t = s /\ e \in Keeps(r, p)
            THEN Append(pendingBroadcasts[q][e][t], Copy(f))
            ELSE pendingBroadcasts[q][e][t]]]]
    BY DEF ProcessMessage, f
  <2> QED BY <2>1, <1>4, Types
<1>7. received' \in [Rank -> [Rank -> Seq(Nat)]]
  <2>1. Append(received[r][s], f.n) \in Seq(Nat)
    BY <1>3, Types, AppendProperties
  <2>2. received' = [received EXCEPT ![r][s] = Append(received[r][s], f.n)]
    BY DEF ProcessMessage, f
  <2> QED BY Zenon, <2>1, <2>2 DEF TypeOK
<1> QED BY Zenon, <1>3, <1>5, <1>6, <1>7 DEF ProcessMessage, TypeOK, f

----------------------------------------------------------------------------
(***************************************************************************)
(* The steps.                                                              *)
(***************************************************************************)

\* Initially nothing is on its way.
LEMMA InitInv == Init => IInv
<1> SUFFICES ASSUME Init PROVE IInv
  OBVIOUS
<1>1. TypeOK
  BY EmptySeq DEF Init, TypeOK
<1>2. ASSUME NEW r \in Rank, NEW s \in Rank
      PROVE  Row(r, s)
  <2>1. /\ \A q \in Rank : chan[q][r][s] = <<>> /\ pendingBroadcasts[q][r][s] = <<>>
        /\ \A q \in Rank : received[q][s] = <<>>
        /\ started[s] = 0
    BY DEF Init
  <2>2. Len(<<>>) = 0
    BY EmptySeq
  <2>3. Prefix(r, s)
    BY <2>1, <2>2 DEF Prefix
  <2>4. r # s => Feed(firsthop[r][s], r, s)
    <3>1. ASSUME NEW p \in Rank PROVE Feed(p, r, s)
      <4>1. Has(p, s) = 0
        BY <2>1, <2>2 DEF Has
      <4>2. chan[p][r][s] = <<>> /\ pendingBroadcasts[p][r][s] = <<>> /\ received[r][s] = <<>>
        BY <2>1
      <4>3. Len(chan[p][r][s]) = 0 /\ Len(pendingBroadcasts[p][r][s]) = 0 /\ Len(received[r][s]) = 0
        BY <4>2, <2>2
      <4>4. /\ Numbered(chan[p][r][s], Len(received[r][s]), Hops(p, s))
            /\ Numbered(pendingBroadcasts[p][r][s], 0, Hops(p, s))
        BY <4>3 DEF Numbered
      <4>5. Len(received[r][s]) + Len(chan[p][r][s]) = Has(p, s)
        BY <4>1, <4>3
      <4>6. Len(pendingBroadcasts[p][r][s]) = Has(p, s)
        BY <4>1, <4>3
      <4> QED BY Zenon, <2>1, <4>2, <4>4, <4>5, <4>6 DEF Feed
    <3> QED BY <3>1, Routes
  <2> QED BY <2>1, <2>3, <2>4 DEF Row
<1> QED BY <1>1, <1>2 DEF IInv

\* A step that leaves alone what the broadcasts of t have to do with x.
LEMMA SameRow ==
  ASSUME NEW x \in Rank, NEW t \in Rank, Row(x, t),
         received'[x][t] = received[x][t], started'[t] = started[t],
         \A q \in Rank : chan'[q][x][t] = chan[q][x][t],
         pendingBroadcasts'[t][x][t] = <<>>,
         x # t => /\ everConnected'[firsthop[x][t]][x] = everConnected[firsthop[x][t]][x]
                  /\ pendingBroadcasts'[firsthop[x][t]][x][t] = pendingBroadcasts[firsthop[x][t]][x][t]
                  /\ received'[firsthop[x][t]][t] = received[firsthop[x][t]][t]
  PROVE  Row(x, t)'
<1>1. Prefix(x, t)'
  BY DEF Row, Prefix
<1>2. CASE x = t
  BY <1>1, <1>2 DEF Row
<1>3. CASE x # t
  <2>1. firsthop[x][t] \in Rank
    BY MeshAssumption
  <2>2. Feed(firsthop[x][t], x, t)'
    BY ZenonT(60), <1>3, <2>1 DEF Row, Feed, Numbered, Kept, Has, Hops
  <2> QED BY <1>1, <1>3, <2>2 DEF Row
<1> QED BY <1>2, <1>3

\* broadcastMessage gives every neighbour the next broadcast.
LEMMA CastInv ==
  ASSUME IInv, NEW s \in Rank, BroadcastMessage(s)
  PROVE  IInv'
<1> DEFINE f == [n |-> started[s], ttl |-> worldSize]
<1>1. TypeOK /\ TypeOK' /\ f \in Frame /\ f.n = started[s] /\ f.ttl = worldSize
  BY CastType DEF IInv
<1>2. \A q, e, t \in Rank :
        chan'[q][e][t] = IF q = s /\ t = s /\ e \in edges[s] THEN Append(chan[q][e][t], f) ELSE chan[q][e][t]
  BY DEF BroadcastMessage
<1>3. /\ started'[s] = started[s] + 1 /\ \A t \in Rank \ {s} : started'[t] = started[t]
      /\ UNCHANGED <<everConnected, pendingBroadcasts, received>>
  <2>1. started' = [started EXCEPT ![s] = started[s] + 1] /\ started \in [Rank -> Nat]
    BY <1>1 DEF BroadcastMessage, TypeOK
  <2>2. UNCHANGED <<everConnected, pendingBroadcasts, received>>
    BY DEF BroadcastMessage
  <2> QED BY <2>1, <2>2
<1> HIDE DEF f
<1>4. ASSUME NEW x \in Rank, NEW t \in Rank PROVE Row(x, t)'
  <2>1. Row(x, t)
    BY DEF IInv
  <2>2. CASE t # s
    <3>1. \A q \in Rank : chan'[q][x][t] = chan[q][x][t]
      BY <2>2, <1>2
    <3>2. pendingBroadcasts[t][x][t] = <<>>
      BY <2>1 DEF Row, Prefix
    <3> QED BY <2>1, <2>2, <3>1, <3>2, <1>3, SameRow
  <2>3. CASE t = s /\ x = s
    <3>1. s \notin edges[s]
      BY MeshAssumption
    <3>2. started[s] \in Nat /\ Len(received[s][s]) \in Nat
      BY <1>1, Types
    <3>3. Prefix(s, s)'
      BY <2>1, <2>3, <3>2, <1>3 DEF Row, Prefix
    <3> QED BY <2>1, <2>3, <3>1, <3>3, <1>2, <1>3 DEF Row
  <2>4. CASE t = s /\ x # s /\ x \in edges[s]
    <3>1. firsthop[x][s] = s /\ Hops(s, s) = worldSize
      BY <2>4, Neighbours
    <3>2. /\ chan[s][x][s] \in Seq(Frame) /\ Len(received[x][s]) \in Nat /\ started[s] \in Nat
          /\ Len(chan[s][x][s]) \in Nat /\ worldSize \in Int
      BY <1>1, Types, WorldAssumption
    <3>3. /\ Numbered(chan[s][x][s], Len(received[x][s]), worldSize)
          /\ Len(received[x][s]) + Len(chan[s][x][s]) = started[s]
      BY Zenon, <2>1, <2>4, <3>1 DEF Row, Feed, Kept, Has
    <3>4. /\ Numbered(Append(chan[s][x][s], f), Len(received[x][s]), worldSize)
          /\ Len(Append(chan[s][x][s], f)) = Len(chan[s][x][s]) + 1
      BY Zenon, <3>2, <3>3, <1>1, NumberedAppend
    <3>5. chan'[s][x][s] = Append(chan[s][x][s], f) /\ \A q \in Rank \ {s} : chan'[q][x][s] = chan[q][x][s]
      BY ZenonT(60), <1>2, <2>4
    <3>6. /\ Numbered(chan'[s][x][s], Len(received'[x][s]), Hops(s, s))
          /\ Len(received'[x][s]) + Len(chan'[s][x][s]) = started'[s]
      <4>1. received'[x][s] = received[x][s] /\ started'[s] = started[s] + 1
        BY <1>3
      <4>2. Numbered(chan'[s][x][s], Len(received'[x][s]), Hops(s, s))
        BY Zenon, <4>1, <3>1, <3>4, <3>5
      <4>3. Len(received'[x][s]) + Len(chan'[s][x][s]) = started'[s]
        <5>1. Len(received'[x][s]) = Len(received[x][s])
          BY Zenon, <4>1
        <5>2. Len(chan'[s][x][s]) = Len(chan[s][x][s]) + 1
          BY Zenon, <3>4, <3>5
        <5>3. Len(received[x][s]) + Len(chan[s][x][s]) = started[s] /\ started'[s] = started[s] + 1
          BY Zenon, <3>3, <4>1
        <5>4. Len(received[x][s]) \in Nat /\ Len(chan[s][x][s]) \in Nat /\ started[s] \in Nat
          BY Zenon, <3>2
        <5>5. Len(received[x][s]) + (Len(chan[s][x][s]) + 1) = started[s] + 1
          <6> DEFINE a == Len(received[x][s])
                     b == Len(chan[s][x][s])
                     c == started[s]
          <6>1. a \in Nat /\ b \in Nat /\ c \in Nat /\ a + b = c
            BY Zenon, <5>3, <5>4
          <6> HIDE DEF a, b, c
          <6>2. a + (b + 1) = c + 1
            BY SMTT(30), <6>1
          <6> QED BY Zenon, <6>2 DEF a, b, c
        <5> QED BY Zenon, <5>1, <5>2, <5>3, <5>5
      <4> QED BY Zenon, <4>2, <4>3
    <3>7. \A q \in Rank \ {s} : chan'[q][x][s] = <<>>
      BY ZenonT(30), <2>1, <2>4, <3>1, <3>5 DEF Row, Feed
    <3>8. Feed(s, x, s)'
      BY Zenon, <3>6, <3>7 DEF Feed, Kept, Has, Numbered, Hops
    <3>9. Prefix(x, s)'
      BY <2>1, <2>4, <3>2, <1>3 DEF Row, Prefix
    <3> QED BY <2>4, <3>1, <3>8, <3>9 DEF Row
  <2>5. CASE t = s /\ x # s /\ x \notin edges[s]
    <3>1. firsthop[x][s] # s /\ firsthop[x][s] \in Rank
      BY <2>5, Routes
    <3>2. \A q \in Rank : chan'[q][x][s] = chan[q][x][s]
      BY <1>2, <2>5
    <3>3. started[s] \in Nat /\ Len(received[x][s]) \in Nat
      BY <1>1, Types
    <3>4. Feed(firsthop[x][s], x, s)'
      <4>1. ASSUME NEW p \in Rank, p # s, Feed(p, x, s) PROVE Feed(p, x, s)'
        BY ZenonT(60), <4>1, <3>2, <1>3 DEF Feed, Numbered, Kept, Has, Hops
      <4> QED BY <2>1, <2>5, <3>1, <4>1 DEF Row
    <3>5. Prefix(x, s)'
      BY <2>1, <2>5, <3>3, <1>3 DEF Row, Prefix
    <3> QED BY <2>5, <3>4, <3>5 DEF Row
  <2> QED BY <2>2, <2>3, <2>4, <2>5
<1> QED BY <1>1, <1>4 DEF IInv

\* When r first adopts a connection to e, what it kept becomes what is on its way.
LEMMA AdoptInv ==
  ASSUME IInv, NEW r \in Rank, NEW e \in Rank, AdoptConnect(r, e)
  PROVE  IInv'
<1>1. TypeOK /\ TypeOK'
  BY SMTT(30), AdoptType DEF IInv
<1>2. e \in edges[r] /\ ~everConnected[r][e] /\ e # r
  BY ZenonT(30), MeshAssumption DEF AdoptConnect
<1>3. /\ \A q, x \in Rank : everConnected'[q][x] = IF q = r /\ x = e THEN TRUE ELSE everConnected[q][x]
      /\ \A q, x, t \in Rank :
           pendingBroadcasts'[q][x][t] = IF q = r /\ x = e THEN <<>> ELSE pendingBroadcasts[q][x][t]
      /\ started' = started /\ received' = received
  BY Zenon, <1>1 DEF AdoptConnect, TypeOK
<1>4. \A q, x, t \in Rank :
        chan'[q][x][t] = IF q = r /\ x = e /\ firsthop[e][t] = r
                         THEN chan[r][e][t] \o pendingBroadcasts[r][e][t] ELSE chan[q][x][t]
  BY Zenon, <1>1 DEF AdoptConnect, TypeOK, broadcastForwardFor
<1>5. ASSUME NEW x \in Rank, NEW t \in Rank PROVE Row(x, t)'
  <2>1. Row(x, t) /\ pendingBroadcasts[t][x][t] = <<>>
    BY DEF IInv, Row, Prefix
  <2>2. pendingBroadcasts'[t][x][t] = <<>>
    BY SMTT(30), <2>1, <1>3
  <2>3. CASE x # e \/ firsthop[e][t] # r
    <3>1. \A q \in Rank : chan'[q][x][t] = chan[q][x][t]
      BY <2>3, <1>4
    <3>2. x # t => /\ everConnected'[firsthop[x][t]][x] = everConnected[firsthop[x][t]][x]
                   /\ pendingBroadcasts'[firsthop[x][t]][x][t] = pendingBroadcasts[firsthop[x][t]][x][t]
      <4>1. ASSUME NEW q \in Rank, q # r \/ x # e
            PROVE  everConnected'[q][x] = everConnected[q][x] /\ pendingBroadcasts'[q][x][t] = pendingBroadcasts[q][x][t]
        <5>1. everConnected'[q][x] = everConnected[q][x]
          BY ZenonT(60), <4>1, <1>3
        <5>2. pendingBroadcasts'[q][x][t] = pendingBroadcasts[q][x][t]
          BY SMTT(30), <4>1, <1>3
        <5> QED BY Zenon, <5>1, <5>2
      <4>2. firsthop[x][t] \in Rank /\ (firsthop[x][t] # r \/ x # e)
        BY <2>3, MeshAssumption
      <4> QED BY <4>1, <4>2
    <3> QED BY ZenonT(30), <2>1, <2>2, <3>1, <3>2, <1>3, SameRow
  <2>4. CASE x = e /\ firsthop[e][t] = r
    <3>1. e # t /\ Feed(r, e, t) /\ Prefix(e, t)
      BY <2>1, <2>4, <1>2, Neighbours DEF Row
    <3>2. /\ chan[r][e][t] \in Seq(Frame) /\ pendingBroadcasts[r][e][t] \in Seq(Frame)
          /\ Len(pendingBroadcasts[r][e][t]) \in Nat
      BY <1>1, Types
    <3>3. chan'[r][e][t] = chan[r][e][t] \o pendingBroadcasts[r][e][t]
      BY Zenon, <1>4, <2>4
    <3>4. \A q \in Rank \ {r} : chan'[q][e][t] = <<>>
      BY <1>4, <3>1 DEF Feed
    <3>5. /\ Numbered(chan'[r][e][t], Len(received[e][t]), Hops(r, t))
          /\ Len(received[e][t]) + Len(chan'[r][e][t]) = Has(r, t)
      <4>1. CASE t = r
        <5>1. chan'[r][e][t] = chan[r][e][t]
          BY Zenon, <4>1, <2>1, <2>4, <3>2, <3>3, ConcatEmptySeq
        <5> QED BY Zenon, <5>1, <4>1, <3>1 DEF Feed, Kept
      <4>2. CASE t # r
        <5>1. Kept(r, e, t)
          BY <4>2, <1>2 DEF Kept
        <5>2. /\ received[e][t] = <<>> /\ chan[r][e][t] = <<>>
              /\ Numbered(pendingBroadcasts[r][e][t], 0, Hops(r, t))
              /\ Len(pendingBroadcasts[r][e][t]) = Has(r, t)
          BY <5>1, <3>1 DEF Feed
        <5>3. chan'[r][e][t] = pendingBroadcasts[r][e][t] /\ Len(<<>>) = 0
          BY <5>2, <3>2, <3>3, ConcatEmptySeq, EmptySeq
        <5>4. Numbered(chan'[r][e][t], Len(received[e][t]), Hops(r, t))
          BY Zenon, <5>2, <5>3
        <5>5. Len(received[e][t]) + Len(chan'[r][e][t]) = Has(r, t)
          BY <5>2, <5>3, <3>2
        <5> QED BY Zenon, <5>4, <5>5
      <4> QED BY Zenon, <4>1, <4>2
    <3>6. Feed(r, e, t)'
      BY Zenon, <3>4, <3>5, <1>3 DEF Feed, Kept, Has, Numbered, Hops
    <3>7. Prefix(e, t)'
      BY <3>1, <2>2, <2>4, <1>3 DEF Prefix
    <3> QED BY <2>4, <3>1, <3>6, <3>7 DEF Row
  <2> QED BY <2>3, <2>4
<1> QED BY <1>1, <1>5 DEF IInv

\* A broadcast that arrives comes from the first hop, is the next one and has the hops
\* left that it needs.
LEMMA Arrival ==
  ASSUME IInv, NEW r \in Rank, NEW p \in Rank, NEW s \in Rank, ProcessMessage(r, p, s)
  PROVE  /\ r # s /\ p = firsthop[r][s] /\ p # r /\ ~Kept(p, r, s)
         /\ Head(chan[p][r][s]).n = Len(received[r][s])
         /\ Head(chan[p][r][s]).ttl = Hops(r, s) + 1 /\ Hops(r, s) \in Nat
         /\ Len(received[r][s]) < started[s]
         /\ \A q \in Rank \ {p} : chan[q][r][s] = <<>>
<1>1. TypeOK /\ Row(r, s) /\ Prefix(p, s)
  BY DEF IInv, Row
<1>2. chan[p][r][s] # <<>> /\ everConnected[p][r]
  BY ZenonT(30) DEF ProcessMessage
<1>3. r # s
  BY <1>1, <1>2 DEF Row
<1>4. Feed(firsthop[r][s], r, s) /\ firsthop[r][s] \in Rank
  BY SMTT(30), <1>1, <1>3, Routes DEF Row
<1>5. p = firsthop[r][s]
  BY ZenonT(30), <1>2, <1>4 DEF Feed
<1>6. Feed(p, r, s)
  BY Zenon, <1>4, <1>5
<1>7. p # r /\ Hops(p, s) \in 1..worldSize /\ Hops(p, s) - 1 = Hops(r, s)
  BY <1>3, <1>5, Routes
<1>8. Hops(p, s) \in Int /\ Hops(p, s) = Hops(r, s) + 1 /\ Hops(r, s) \in Nat
  <2>1. worldSize \in Nat /\ Distance[r][s] \in Nat /\ Distance[p][s] \in Nat
    BY WorldAssumption, MeshAssumption
  <2> QED BY <1>7, <2>1 DEF Hops
<1>9. ~Kept(p, r, s)
  BY <1>2 DEF Kept
<1>10. /\ Numbered(chan[p][r][s], Len(received[r][s]), Hops(p, s))
       /\ Len(received[r][s]) + Len(chan[p][r][s]) = Has(p, s)
       /\ \A q \in Rank \ {p} : chan[q][r][s] = <<>>
  BY Zenon, <1>6, <1>9 DEF Feed
<1>11. /\ chan[p][r][s] \in Seq(Frame) /\ Len(received[r][s]) \in Nat /\ started[s] \in Nat
       /\ Len(chan[p][r][s]) \in Nat /\ Len(received[p][s]) \in Nat
  BY <1>1, Types
<1>12. /\ Head(chan[p][r][s]).n = Len(received[r][s]) /\ Head(chan[p][r][s]).ttl = Hops(p, s)
       /\ Len(Tail(chan[p][r][s])) = Len(chan[p][r][s]) - 1 /\ Len(chan[p][r][s]) \in Nat \ {0}
       /\ Numbered(Tail(chan[p][r][s]), Len(received[r][s]) + 1, Hops(p, s))
  <2> DEFINE q == chan[p][r][s]
             a == Len(received[r][s])
             h == Hops(p, s)
  <2>1. q \in Seq(Frame) /\ q # <<>> /\ a \in Nat /\ h \in Int /\ Numbered(q, a, h)
    BY Zenon, <1>2, <1>8, <1>10, <1>11
  <2> HIDE DEF q, a, h
  <2>2. /\ Head(q).n = a /\ Head(q).ttl = h
        /\ Len(Tail(q)) = Len(q) - 1 /\ Len(q) \in Nat \ {0} /\ Numbered(Tail(q), a + 1, h)
    BY SMTT(30), <2>1, NumberedTail
  <2> QED BY Zenon, <2>2 DEF q, a, h
<1>13. Has(p, s) <= started[s]
  BY <1>1, <1>11 DEF Has, Prefix
<1>14. Len(received[r][s]) < started[s]
  <2>1. Has(p, s) \in Nat
    BY <1>11 DEF Has
  <2>2. \A a, b, c, d \in Nat : a + b = c /\ c <= d /\ b # 0 => a < d
    OBVIOUS
  <2>3. Len(chan[p][r][s]) # 0
    BY <1>12
  <2> QED BY Zenon, <2>1, <2>2, <2>3, <1>10, <1>11, <1>13
<1>15. Head(chan[p][r][s]).ttl = Hops(r, s) + 1
  BY Zenon, <1>8, <1>12
<1> QED BY Zenon, <1>3, <1>5, <1>7, <1>8, <1>9, <1>10, <1>12, <1>14, <1>15

\* The broadcasts behind it are the next ones.
LEMMA Behind ==
  ASSUME IInv, NEW r \in Rank, NEW p \in Rank, NEW s \in Rank, ProcessMessage(r, p, s)
  PROVE  /\ (Len(received[r][s]) + 1) + Len(Tail(chan[p][r][s])) = Has(p, s)
         /\ Numbered(Tail(chan[p][r][s]), Len(received[r][s]) + 1, Hops(p, s))
<1>1. r # s /\ p = firsthop[r][s] /\ ~Kept(p, r, s)
  BY Arrival
<1>2. Feed(firsthop[r][s], r, s)
  BY <1>1 DEF IInv, Row
<1>3. /\ Numbered(chan[p][r][s], Len(received[r][s]), Hops(p, s))
      /\ Len(received[r][s]) + Len(chan[p][r][s]) = Has(p, s)
  BY Zenon, <1>1, <1>2 DEF Feed
<1>4. /\ chan[p][r][s] \in Seq(Frame) /\ Len(received[r][s]) \in Nat /\ Len(chan[p][r][s]) \in Nat
  BY Types DEF IInv
<1>5. Hops(p, s) \in Int /\ chan[p][r][s] # <<>>
  <2>1. chan[p][r][s] # <<>>
    BY ZenonT(60) DEF ProcessMessage
  <2>2. Hops(p, s) \in Int
    BY WorldAssumption, MeshAssumption DEF Hops
  <2> QED BY <2>1, <2>2
<1>6. /\ Len(Tail(chan[p][r][s])) = Len(chan[p][r][s]) - 1
      /\ Numbered(Tail(chan[p][r][s]), Len(received[r][s]) + 1, Hops(p, s))
  BY <1>3, <1>4, <1>5, NumberedTail
<1>7. \A a, b \in Nat : (a + 1) + (b - 1) = a + b
  OBVIOUS
<1>8. (Len(received[r][s]) + 1) + (Len(chan[p][r][s]) - 1) = Len(received[r][s]) + Len(chan[p][r][s])
  BY Zenon, <1>4, <1>7
<1> QED BY Zenon, <1>3, <1>6, <1>8

\* What processMessage records.
LEMMA Processed ==
  ASSUME IInv, NEW r \in Rank, NEW p \in Rank, NEW s \in Rank, ProcessMessage(r, p, s)
  PROVE  /\ TypeOK'
         /\ started' = started /\ everConnected' = everConnected
         /\ received'[r][s] = Append(received[r][s], Len(received[r][s]))
         /\ \A q, t \in Rank : q # r \/ t # s => received'[q][t] = received[q][t]
<1> DEFINE f == Head(chan[p][r][s])
<1>1. f.n = Len(received[r][s]) /\ f.ttl = Hops(r, s) + 1 /\ Hops(r, s) \in Nat
  BY Arrival
<1>2. f.ttl > 0
  <2>1. \A h \in Nat : h + 1 > 0
    OBVIOUS
  <2> QED BY Zenon, <2>1, <1>1
<1>3. TypeOK' /\ TypeOK
  BY <1>2, ProcessType DEF IInv
<1>4. /\ received' = [received EXCEPT ![r][s] = Append(received[r][s], f.n)]
      /\ started' = started /\ everConnected' = everConnected
  BY ZenonT(30) DEF ProcessMessage
<1> HIDE DEF f
<1>5. /\ received'[r][s] = Append(received[r][s], Len(received[r][s]))
      /\ \A q, t \in Rank : q # r \/ t # s => received'[q][t] = received[q][t]
  BY Zenon, <1>1, <1>3, <1>4 DEF TypeOK
<1> QED BY Zenon, <1>3, <1>4, <1>5

\* processMessage takes from the channel it reads and adds to those it forwards to.
LEMMA ProcessedChan ==
  ASSUME NEW r \in Rank, NEW p \in Rank, NEW s \in Rank, ProcessMessage(r, p, s), p # r
  PROVE  /\ chan'[p][r][s] = Tail(chan[p][r][s])
         /\ \A q \in Rank \ {p} : chan'[q][r][s] = chan[q][r][s]
         /\ \A q, x, t \in Rank : t # s \/ (x # r /\ (q # r \/ x \notin Forwards(r, p, s))) =>
              chan'[q][x][t] = chan[q][x][t]
         /\ \A x \in Forwards(r, p, s) : chan'[r][x][s] = Append(chan[r][x][s], Copy(Head(chan[p][r][s])))
<1> DEFINE g == Copy(Head(chan[p][r][s]))
<1>1. chan' = [q \in Rank |-> [e \in Rank |-> [t \in Rank |->
            CASE q = p /\ e = r /\ t = s -> Tail(chan[q][e][t])
              [] q = r /\ t = s /\ e \in Forwards(r, p, s) -> Append(chan[q][e][t], g)
              [] OTHER -> chan[q][e][t]]]]
  BY DEF ProcessMessage
<1> HIDE DEF g
<1>2. \A x \in Forwards(r, p, s) : x \in Rank /\ x # p /\ x # r
  BY MeshAssumption DEF Forwards
<1>3. \A q, x, t \in Rank : chan'[q][x][t] =
            CASE q = p /\ x = r /\ t = s -> Tail(chan[q][x][t])
              [] q = r /\ t = s /\ x \in Forwards(r, p, s) -> Append(chan[q][x][t], g)
              [] OTHER -> chan[q][x][t]
  BY <1>1
<1>4. chan'[p][r][s] = Tail(chan[p][r][s])
  BY <1>3
<1>5. \A q \in Rank \ {p} : chan'[q][r][s] = chan[q][r][s]
  BY <1>2, <1>3
<1>6. \A q, x, t \in Rank : t # s \/ (x # r /\ (q # r \/ x \notin Forwards(r, p, s))) =>
        chan'[q][x][t] = chan[q][x][t]
  BY <1>3
<1>7. \A x \in Forwards(r, p, s) : chan'[r][x][s] = Append(chan[r][x][s], g)
  BY Zenon, <1>2, <1>3
<1> QED BY Zenon, <1>4, <1>5, <1>6, <1>7 DEF g

\* processMessage adds to what it keeps for the edges without a connection.
LEMMA ProcessedKept ==
  ASSUME NEW r \in Rank, NEW p \in Rank, NEW s \in Rank, ProcessMessage(r, p, s)
  PROVE  /\ \A q, x, t \in Rank : t # s \/ q # r \/ x \notin Keeps(r, p) =>
              pendingBroadcasts'[q][x][t] = pendingBroadcasts[q][x][t]
         /\ \A x \in Keeps(r, p) :
              pendingBroadcasts'[r][x][s] = Append(pendingBroadcasts[r][x][s], Copy(Head(chan[p][r][s])))
<1> DEFINE g == Copy(Head(chan[p][r][s]))
<1>1. pendingBroadcasts' = [q \in Rank |-> [e \in Rank |-> [t \in Rank |->
            IF q = r /\ t = s /\ e \in Keeps(r, p)
            THEN Append(pendingBroadcasts[q][e][t], g) ELSE pendingBroadcasts[q][e][t]]]]
  BY ZenonT(30) DEF ProcessMessage
<1> HIDE DEF g
<1>2. \A x \in Keeps(r, p) : x \in Rank
  BY MeshAssumption DEF Keeps
<1>3. \A q, x, t \in Rank : pendingBroadcasts'[q][x][t] =
        IF q = r /\ t = s /\ x \in Keeps(r, p)
        THEN Append(pendingBroadcasts[q][x][t], g) ELSE pendingBroadcasts[q][x][t]
  BY <1>1
<1>4. \A q, x, t \in Rank : t # s \/ q # r \/ x \notin Keeps(r, p) =>
        pendingBroadcasts'[q][x][t] = pendingBroadcasts[q][x][t]
  BY <1>3
<1>5. \A x \in Keeps(r, p) : pendingBroadcasts'[r][x][s] = Append(pendingBroadcasts[r][x][s], g)
  BY Zenon, <1>2, <1>3
<1> QED BY Zenon, <1>4, <1>5 DEF g

\* The rank that processes the broadcast has the next one.
LEMMA ReceiverRow ==
  ASSUME IInv, NEW r \in Rank, NEW p \in Rank, NEW s \in Rank, ProcessMessage(r, p, s)
  PROVE  Row(r, s)' /\ Len(received'[r][s]) = Len(received[r][s]) + 1
<1> DEFINE k == Len(received[r][s])
<1> r # s /\ p # r
  BY Arrival
<1>1. /\ received'[r][s] = Append(received[r][s], k) /\ started'[s] = started[s]
      /\ received'[p][s] = received[p][s] /\ everConnected'[p][r] = everConnected[p][r]
      /\ pendingBroadcasts'[s][r][s] = pendingBroadcasts[s][r][s]
  <2>1. /\ received'[r][s] = Append(received[r][s], k) /\ started'[s] = started[s]
        /\ everConnected'[p][r] = everConnected[p][r]
    BY ZenonT(60), Processed
  <2>2. received'[p][s] = received[p][s]
    BY Processed
  <2>3. pendingBroadcasts'[s][r][s] = pendingBroadcasts[s][r][s]
    BY SMTT(30), ProcessedKept
  <2> QED BY Zenon, <2>1, <2>2, <2>3
<1>2. Prefix(r, s) /\ received[r][s] \in Seq(Nat) /\ k \in Nat /\ started[s] \in Nat
  BY Types DEF IInv, Row
<1>3. /\ Len(received'[r][s]) = k + 1 /\ received'[r][s][k + 1] = k
      /\ \A i \in 1..k : received'[r][s][i] = received[r][s][i]
  BY SMTT(30), <1>1, <1>2, AppendProperties
<1>4. Prefix(r, s)'
  <2>1. ASSUME NEW i \in 1..(k + 1) PROVE received'[r][s][i] = i - 1
    <3>1. CASE i = k + 1
      BY <3>1, <1>2, <1>3
    <3>2. CASE i \in 1..k
      BY <3>2, <1>2, <1>3 DEF Prefix
    <3> QED BY <3>1, <3>2, <1>2
  <2>2. k + 1 <= started[s]
    BY <1>2, Arrival
  <2>3. pendingBroadcasts[s][r][s] = <<>>
    BY Zenon, <1>2 DEF Prefix
  <2> QED BY ZenonT(30), <2>1, <2>2, <2>3, <1>1, <1>3 DEF Prefix
<1>5. Feed(p, r, s)'
  <2>1. /\ chan'[p][r][s] = Tail(chan[p][r][s])
        /\ \A q \in Rank \ {p} : chan'[q][r][s] = <<>>
    <3>1. /\ chan'[p][r][s] = Tail(chan[p][r][s])
          /\ \A q \in Rank \ {p} : chan'[q][r][s] = chan[q][r][s]
      BY SMTT(30), ProcessedChan
    <3>2. \A q \in Rank \ {p} : chan[q][r][s] = <<>>
      BY Arrival
    <3> QED BY ZenonT(60), <3>1, <3>2
  <2>2. Numbered(chan'[p][r][s], k + 1, Hops(p, s))
    BY Zenon, <2>1, Behind
  <2>3. (k + 1) + Len(chan'[p][r][s]) = Has(p, s)
    <3>1. (k + 1) + Len(Tail(chan[p][r][s])) = Has(p, s)
      BY Zenon, Behind
    <3> QED BY Zenon, <2>1, <3>1
  <2>4. ~Kept(p, r, s)' /\ Has(p, s)' = Has(p, s)
    <3>1. ~Kept(p, r, s)
      BY Arrival
    <3> QED BY <3>1, <1>1 DEF Kept, Has
  <2>5. Numbered(chan'[p][r][s], Len(received'[r][s]), Hops(p, s))
    BY Zenon, <2>2, <1>3
  <2>6. Len(received'[r][s]) + Len(chan'[p][r][s]) = Has(p, s)'
    BY Zenon, <2>3, <2>4, <1>3
  <2> QED BY Zenon, <2>1, <2>4, <2>5, <2>6 DEF Feed, Kept, Has, Numbered, Hops
<1>6. Row(r, s)'
  <2>1. p = firsthop[r][s]
    BY Arrival
  <2> QED BY <2>1, <1>4, <1>5 DEF Row
<1> QED BY Zenon, <1>3, <1>6

\* An edge whose first hop is the rank that processes the broadcast is sent the next
\* one, or has it kept.
LEMMA ForwardRow ==
  ASSUME IInv, NEW r \in Rank, NEW p \in Rank, NEW s \in Rank, ProcessMessage(r, p, s),
         NEW x \in Rank, x # r, firsthop[x][s] = r
  PROVE  Row(x, s)'
<1> DEFINE g == Copy(Head(chan[p][r][s]))
           k == Len(received[r][s])
<1>1. x # s /\ r # s /\ x # p /\ p # r /\ x \in edges[r]
  <2>1. r # s /\ p # r /\ p = firsthop[r][s]
    BY Arrival
  <2>2. x # s
    BY <2>1, Neighbours
  <2> QED BY <2>1, <2>2, Routes
<1>2. Row(x, s) /\ Feed(r, x, s) /\ Prefix(x, s)
  BY <1>1 DEF IInv, Row
<1>3. g \in Frame /\ g.n = k /\ g.ttl = Hops(r, s)
  <2> DEFINE f == Head(chan[p][r][s])
  <2>1. f.n = k /\ f.ttl = Hops(r, s) + 1 /\ Hops(r, s) \in Nat
    BY Arrival
  <2>2. f.ttl > 0 /\ f.ttl - 1 = Hops(r, s)
    <3>1. \A h \in Nat : h + 1 > 0 /\ (h + 1) - 1 = h
      OBVIOUS
    <3> QED BY Zenon, <3>1, <2>1
  <2>3. Copy(f) \in Frame
    BY <2>2, ProcessType DEF IInv
  <2>4. f \in Frame
    <3>1. chan[p][r][s] \in Seq(Frame) /\ chan[p][r][s] # <<>>
      BY ZenonT(60), Types DEF IInv, ProcessMessage
    <3> QED BY SMTT(30), <3>1, HeadTailProperties
  <2> HIDE DEF f
  <2>5. Copy(f).n = f.n /\ Copy(f).ttl = f.ttl - 1
    BY <2>4 DEF Copy, Frame
  <2>6. Copy(f).n = k /\ Copy(f).ttl = Hops(r, s)
    BY Zenon, <2>1, <2>2, <2>5
  <2> QED BY Zenon, <2>3, <2>6 DEF f
<1> HIDE DEF g
<1>4. /\ started'[s] = started[s] /\ everConnected'[r][x] = everConnected[r][x]
      /\ received'[x][s] = received[x][s]
      /\ pendingBroadcasts'[s][x][s] = pendingBroadcasts[s][x][s]
      /\ \A q \in Rank \ {r} : chan'[q][x][s] = chan[q][x][s]
  <2>1. started'[s] = started[s] /\ everConnected'[r][x] = everConnected[r][x]
    BY Zenon, Processed
  <2>2. received'[x][s] = received[x][s]
    BY Processed
  <2>3. pendingBroadcasts'[s][x][s] = pendingBroadcasts[s][x][s]
    BY SMTT(30), <1>1, ProcessedKept
  <2>4. \A q \in Rank \ {r} : chan'[q][x][s] = chan[q][x][s]
    BY <1>1, ProcessedChan
  <2> QED BY Zenon, <2>1, <2>2, <2>3, <2>4
<1>5. Prefix(x, s)'
  BY <1>2, <1>4 DEF Prefix
<1>6. /\ Has(r, s) = k /\ Has(r, s)' = k + 1
  BY <1>1, ReceiverRow DEF Has
<1>7. /\ chan[r][x][s] \in Seq(Frame) /\ pendingBroadcasts[r][x][s] \in Seq(Frame)
      /\ Len(chan[r][x][s]) \in Nat /\ Len(received[x][s]) \in Nat /\ k \in Nat
      /\ Hops(r, s) \in Int /\ k = 0 + k
  BY SMTT(30), Types, Arrival DEF IInv
<1>8. \A q \in Rank \ {r} : chan'[q][x][s] = <<>>
  BY <1>2, <1>4 DEF Feed
<1> HIDE DEF k
<1>9. CASE everConnected[r][x]
  <2>1. x \in Forwards(r, p, s) /\ x \notin Keeps(r, p)
    BY SMTT(30), <1>1, <1>9 DEF Forwards, Keeps, broadcastForwardFor
  <2>2. chan'[r][x][s] = Append(chan[r][x][s], g)
    BY SMTT(30), <2>1, <1>1, ProcessedChan DEF g
  <2>3. /\ Numbered(chan[r][x][s], Len(received[x][s]), Hops(r, s))
        /\ Len(received[x][s]) + Len(chan[r][x][s]) = k
    BY Zenon, <1>2, <1>6, <1>9 DEF Feed, Kept
  <2>4. /\ Len(Append(chan[r][x][s], g)) = Len(chan[r][x][s]) + 1
        /\ Numbered(Append(chan[r][x][s], g), Len(received[x][s]), Hops(r, s))
    BY Zenon, <2>3, <1>3, <1>7, NumberedAppend
  <2>5. Numbered(chan'[r][x][s], Len(received'[x][s]), Hops(r, s))
    BY Zenon, <2>2, <2>4, <1>4
  <2>6. Len(received'[x][s]) + Len(chan'[r][x][s]) = Has(r, s)'
    <3>1. Len(received[x][s]) \in Nat /\ Len(chan[r][x][s]) \in Nat /\ k \in Nat
      BY Zenon, <1>7
    <3>2. Len(received[x][s]) + Len(chan[r][x][s]) = k
      BY Zenon, <2>3
    <3>3. Len(received[x][s]) + (Len(chan[r][x][s]) + 1) = k + 1
      <4> DEFINE a == Len(received[x][s])
                 b == Len(chan[r][x][s])
      <4>1. a \in Nat /\ b \in Nat /\ k \in Nat /\ a + b = k
        BY Zenon, <3>1, <3>2
      <4> HIDE DEF a, b
      <4>2. a + (b + 1) = k + 1
        BY SMTT(30), <4>1
      <4> QED BY Zenon, <4>2 DEF a, b
    <3> QED BY Zenon, <3>3, <2>2, <2>4, <1>4, <1>6
  <2>7. ~Kept(r, x, s)'
    BY <1>4, <1>9 DEF Kept
  <2>8. Feed(r, x, s)'
    BY Zenon, <2>5, <2>6, <2>7, <1>8 DEF Feed, Kept, Has, Numbered, Hops
  <2> QED BY <2>8, <1>1, <1>5 DEF Row
<1>10. CASE ~everConnected[r][x]
  <2>1. x \notin Forwards(r, p, s) /\ x \in Keeps(r, p)
    BY <1>1, <1>10 DEF Forwards, Keeps
  <2>2. pendingBroadcasts'[r][x][s] = Append(pendingBroadcasts[r][x][s], g) /\ chan'[r][x][s] = chan[r][x][s]
    <3>1. pendingBroadcasts'[r][x][s] = Append(pendingBroadcasts[r][x][s], g)
      BY SMTT(30), <2>1, ProcessedKept DEF g
    <3>2. chan'[r][x][s] = chan[r][x][s]
      BY SMTT(30), <2>1, <1>1, ProcessedChan
    <3> QED BY ZenonT(60), <3>1, <3>2
  <2>3. /\ received[x][s] = <<>> /\ chan[r][x][s] = <<>>
        /\ Numbered(pendingBroadcasts[r][x][s], 0, Hops(r, s))
        /\ Len(pendingBroadcasts[r][x][s]) = k
    BY <1>1, <1>2, <1>6, <1>10 DEF Feed, Kept
  <2>4. /\ Len(Append(pendingBroadcasts[r][x][s], g)) = Len(pendingBroadcasts[r][x][s]) + 1
        /\ Numbered(Append(pendingBroadcasts[r][x][s], g), 0, Hops(r, s))
    BY SMTT(30), <2>3, <1>3, <1>7, NumberedAppend
  <2>5. /\ Numbered(pendingBroadcasts'[r][x][s], 0, Hops(r, s))
        /\ Len(pendingBroadcasts'[r][x][s]) = Has(r, s)'
    BY Zenon, <2>2, <2>3, <2>4, <1>6
  <2>6. Kept(r, x, s)' /\ received'[x][s] = <<>> /\ chan'[r][x][s] = <<>>
    BY ZenonT(30), <2>2, <2>3, <1>1, <1>4, <1>10 DEF Kept
  <2>7. Numbered(chan'[r][x][s], Len(received'[x][s]), Hops(r, s))
    <3>1. Len(chan'[r][x][s]) = 0
      BY <2>6, EmptySeq
    <3> QED BY <3>1 DEF Numbered
  <2>8. Feed(r, x, s)'
    BY <2>5, <2>6, <2>7, <1>8 DEF Feed, Kept, Has, Numbered, Hops
  <2> QED BY <2>8, <1>1, <1>5 DEF Row
<1> QED BY <1>9, <1>10

\* processMessage leaves the broadcasts of the others, and the other ranks, alone.
LEMMA ProcessInv ==
  ASSUME IInv, NEW r \in Rank, NEW p \in Rank, NEW s \in Rank, ProcessMessage(r, p, s)
  PROVE  IInv'
<1>1. r # s /\ p # r
  BY Arrival
<1>2. ASSUME NEW x \in Rank, NEW t \in Rank PROVE Row(x, t)'
  <2>1. Row(x, t) /\ pendingBroadcasts[t][x][t] = <<>> /\ firsthop[x][t] \in Rank
    <3>1. Row(x, t) /\ pendingBroadcasts[t][x][t] = <<>>
      BY DEF IInv, Row, Prefix
    <3>2. firsthop[x][t] \in Rank
      BY MeshAssumption
    <3> QED BY <3>1, <3>2
  <2>2. CASE t = s /\ x = r
    BY <2>2, ReceiverRow
  <2>3. CASE t = s /\ x # r /\ firsthop[x][s] = r
    BY SMTT(30), <2>3, ForwardRow
  <2>4. CASE t # s \/ (x # r /\ firsthop[x][t] # r)
    <3>1. t = s => x \notin Forwards(r, p, s)
      BY SMTT(30), <2>4 DEF Forwards, broadcastForwardFor
    <3>2. \A q \in Rank : chan'[q][x][t] = chan[q][x][t]
      BY <1>1, <2>4, <3>1, ProcessedChan
    <3>3. ASSUME NEW q \in Rank, t # s \/ q # r
          PROVE  /\ received'[q][t] = received[q][t]
                 /\ pendingBroadcasts'[q][x][t] = pendingBroadcasts[q][x][t]
                 /\ everConnected'[q][x] = everConnected[q][x]
      <4>1. received'[q][t] = received[q][t] /\ everConnected'[q][x] = everConnected[q][x]
        BY <3>3, Processed
      <4>2. pendingBroadcasts'[q][x][t] = pendingBroadcasts[q][x][t]
        BY SMTT(30), <3>3, ProcessedKept
      <4> QED BY Zenon, <4>1, <4>2
    <3>4. /\ received'[x][t] = received[x][t] /\ started'[t] = started[t]
          /\ pendingBroadcasts'[t][x][t] = <<>>
      <4>1. started'[t] = started[t]
        BY Zenon, Processed
      <4>2. received'[x][t] = received[x][t]
        BY Zenon, <2>4, <3>3
      <4>3. pendingBroadcasts'[t][x][t] = pendingBroadcasts[t][x][t]
        BY Zenon, <1>1, <3>3
      <4> QED BY Zenon, <2>1, <4>1, <4>2, <4>3
    <3>5. /\ everConnected'[firsthop[x][t]][x] = everConnected[firsthop[x][t]][x]
          /\ pendingBroadcasts'[firsthop[x][t]][x][t] = pendingBroadcasts[firsthop[x][t]][x][t]
          /\ received'[firsthop[x][t]][t] = received[firsthop[x][t]][t]
      BY Zenon, <2>1, <2>4, <3>3
    <3> QED BY ZenonT(60), <2>1, <3>2, <3>4, <3>5, SameRow
  <2> QED BY <2>2, <2>3, <2>4
<1>3. TypeOK'
  BY Processed
<1> QED BY <1>2, <1>3 DEF IInv

\* Every step keeps the invariant.
LEMMA NextInv == IInv /\ [Next]_vars => IInv'
<1> SUFFICES ASSUME IInv, [Next]_vars PROVE IInv'
  OBVIOUS
<1>1. CASE \E s \in Rank : BroadcastMessage(s)
  BY <1>1, CastInv
<1>2. CASE \E r, e \in Rank : AdoptConnect(r, e)
  BY <1>2, AdoptInv
<1>3. CASE \E r, p, s \in Rank : ProcessMessage(r, p, s)
  BY <1>3, ProcessInv
<1>4. CASE UNCHANGED vars
  <2>1. TypeOK'
    BY Zenon, <1>4 DEF vars, IInv, TypeOK
  <2>2. ASSUME NEW r \in Rank, NEW s \in Rank PROVE Row(r, s)'
    <3>1. Row(r, s) /\ pendingBroadcasts[s][r][s] = <<>>
      BY DEF IInv, Row, Prefix
    <3> QED BY <3>1, <1>4, SameRow DEF vars
  <2> QED BY <2>1, <2>2 DEF IInv
<1> QED BY <1>1, <1>2, <1>3, <1>4 DEF Next

----------------------------------------------------------------------------
(***************************************************************************)
(* What follows.                                                           *)
(***************************************************************************)

LEMMA Invariance == Spec => []IInv
  BY InitInv, NextInv, PTL DEF Spec

\* The edges' queues, what every rank has received and its pending broadcasts keep
\* their types in every mesh (broadcastMessage, forwardBroadcast, adoptConnection).
THEOREM BroadcastTypes == Spec => []TypeOK
<1>1. IInv => TypeOK
  BY DEF IInv
<1> QED BY <1>1, Invariance, PTL

\* In every mesh, and with any number of broadcasts, a rank processes the broadcasts of
\* another rank in order, each once, and never one of its own (forwardBroadcast,
\* replayPendingBroadcasts).
THEOREM BroadcastOnce == Spec => []OncePerRank
<1>1. IInv => OncePerRank
  <2> SUFFICES ASSUME IInv, NEW r \in Rank, NEW s \in Rank
               PROVE  /\ Len(received[r][s]) <= (IF r = s THEN 0 ELSE started[s])
                      /\ \A k \in 1..Len(received[r][s]) : received[r][s][k] = k - 1
    BY DEF OncePerRank
  <2>1. Row(r, s) /\ Prefix(r, s)
    BY DEF IInv, Row
  <2>2. r = s => Len(received[r][s]) = 0
    BY <2>1, EmptySeq DEF Row
  <2> QED BY <2>1, <2>2 DEF Prefix
<1> QED BY <1>1, Invariance, PTL

\* In every mesh whose hops are fewer than worldSize, the ttl that broadcastMessage
\* gives a broadcast outlasts its way: the CHECK(ttl != 0) of onreadtcp and of
\* forwardBroadcast never fails.
THEOREM BroadcastTtl == Spec => []TtlLeft
<1>1. IInv => TtlLeft
  <2> SUFFICES ASSUME IInv, NEW q \in Rank, NEW r \in Rank, NEW s \in Rank,
                      NEW k \in 1..Len(chan[q][r][s])
               PROVE  chan[q][r][s][k].ttl > 0
    BY DEF TtlLeft
  <2>1. Row(r, s)
    BY DEF IInv
  <2>2. chan[q][r][s] # <<>>
    BY EmptySeq
  <2>3. r # s
    BY <2>1, <2>2 DEF Row
  <2>4. Feed(firsthop[r][s], r, s) /\ firsthop[r][s] \in Rank
    BY SMTT(30), <2>1, <2>3, Routes DEF Row
  <2>5. q = firsthop[r][s]
    BY ZenonT(30), <2>2, <2>4 DEF Feed
  <2>6. Numbered(chan[q][r][s], Len(received[r][s]), Hops(q, s))
    BY ZenonT(30), <2>4, <2>5 DEF Feed
  <2>7. chan[q][r][s][k].ttl = Hops(q, s)
    BY <2>6 DEF Numbered
  <2>8. Hops(q, s) \in 1..worldSize /\ worldSize \in Nat
    BY <2>3, <2>5, Routes, WorldAssumption
  <2> QED BY <2>7, <2>8
<1> QED BY <1>1, Invariance, PTL
=============================================================================
