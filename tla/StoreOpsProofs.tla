--------------------------- MODULE StoreOpsProofs ---------------------------
(***************************************************************************)
(* The key-value operations of the store, for any ranks, clients, keys and *)
(* values, any placement of the keys and any number of operations: nobody  *)
(* waits for a key that is there, wait and check tell the truth about all  *)
(* of their keys, and the distributed table implements an atomic one.      *)
(***************************************************************************)
EXTENDS StoreOps, TLAPS

Types == {"set", "get", "check", "wait"}
Answer == Value \cup {"ok", "true", "false", NoAnswer}
WaitRec == [type : Types, key : Key, value : Value \cup {NoValue}, answer : Answer]
AskMsg == [type : Types, source : Rank, id : Nat, key : Key, value : Value \cup {NoValue}]
DoneMsg == [type : {"done"}, source : Rank, id : Nat, answer : Answer]
Table == [Key -> Value \cup {NoValue}]

\* The state that the messages change: the table s, its waiters W, the Waits ws of
\* the ranks and the messages p on their way.
Typed(s, W, ws, p) ==
  /\ s \in Table
  /\ W \in [Key -> [Rank -> Seq(AskMsg)]]
  /\ ws \in [Rank -> Seq(WaitRec)]
  /\ p \in [Rank -> [Rank -> Seq(AskMsg \cup DoneMsg)]]
  /\ \A r \in Rank : p[r][r] = <<>>

\* Answer a to Wait w holds of table s: only check may deny that its key is set.
Sound(s, w, a) == (a # NoAnswer /\ ~(w.type = "check" /\ a = "false")) => s[w.key] # NoValue

\* Request m is one that rank q keeps a Wait for, and has no answer to.
Pending(ws, q, m) ==
  /\ m \in AskMsg /\ m.source = q
  /\ m.id \in DOMAIN ws[q]
  /\ ws[q][m.id] = [type |-> m.type, key |-> m.key, value |-> m.value, answer |-> NoAnswer]
  /\ m.type = "set" => m.value \in Value

\* Message m from o is the answer to a Wait of q for a key of o.
Due(s, ws, o, q, m) ==
  /\ m \in DoneMsg /\ m.source = q
  /\ m.id \in DOMAIN ws[q]
  /\ Owner[ws[q][m.id].key] = o
  /\ ws[q][m.id].answer = NoAnswer
  /\ m.answer # NoAnswer /\ Sound(s, ws[q][m.id], m.answer)

\* The messages x from a to b: requests in the order of their calls, answers to
\* different Waits.
Line(s, ws, a, b, x) ==
  /\ \A i \in DOMAIN x :
       /\ x[i].type = "done" => Due(s, ws, a, b, x[i])
       /\ x[i].type # "done" => Pending(ws, a, x[i]) /\ Owner[x[i].key] = b
  /\ \A i, j \in DOMAIN x :
       i < j => /\ (x[i].type # "done" /\ x[j].type # "done") => x[i].id < x[j].id
                /\ (x[i].type = "done" /\ x[j].type = "done") => x[i].id # x[j].id

\* The requests of x and the answers of y are about different Waits.
Apart(x, y) ==
  \A i \in DOMAIN x, j \in DOMAIN y :
    (x[i].type # "done" /\ y[j].type = "done") => x[i].id # y[j].id

\* The waiters x of rank q for key k wait for a key that has no value, and are
\* neither on their way to its owner (y) nor answered (z).
Queue(s, ws, k, q, x, y, z) ==
  /\ \A i \in DOMAIN x :
       /\ Pending(ws, q, x[i]) /\ x[i].key = k /\ x[i].type \in {"get", "wait"}
       /\ s[k] = NoValue
       /\ \A j \in DOMAIN y : y[j].type # "done" => x[i].id # y[j].id
       /\ \A j \in DOMAIN z : z[j].type = "done" => x[i].id # z[j].id
  /\ \A i, j \in DOMAIN x : i # j => x[i].id # x[j].id

\* Wait id of rank q is over, or its request or its answer is somewhere: in hand,
\* on its way, or among the waiters.
Somewhere(W, ws, p, H, q, id) ==
  LET k == ws[q][id].key
      o == Owner[k]
  IN  \/ ws[q][id].answer # NoAnswer
      \/ \E m \in H : m.source = q /\ m.id = id
      \/ \E i \in DOMAIN p[q][o] : p[q][o][i].type # "done" /\ p[q][o][i].id = id
      \/ \E i \in DOMAIN p[o][q] : p[o][q][i].type = "done" /\ p[o][q][i].id = id
      \/ \E i \in DOMAIN W[k][q] : W[k][q][i].id = id

\* The requests H that are in hand at the owner of their key are nowhere else, and
\* come before those still on their way.
InHand(W, ws, p, H) ==
  \A m \in H :
    LET q == m.source
        o == Owner[m.key]
    IN  /\ q \in Rank /\ Pending(ws, q, m)
        /\ \A i \in DOMAIN p[q][o] : p[q][o][i].type # "done" => m.id < p[q][o][i].id
        /\ \A i \in DOMAIN p[o][q] : p[o][q][i].type = "done" => m.id # p[o][q][i].id
        /\ \A i \in DOMAIN W[m.key][q] : W[m.key][q][i].id # m.id

Consistent(s, W, ws, p, H) ==
  /\ Typed(s, W, ws, p)
  /\ \A q \in Rank : \A id \in DOMAIN ws[q] :
       Sound(s, ws[q][id], ws[q][id].answer) /\ Somewhere(W, ws, p, H, q, id)
  /\ \A a, b \in Rank : Line(s, ws, a, b, p[a][b]) /\ Apart(p[a][b], p[b][a])
  /\ \A k \in Key, q \in Rank : Queue(s, ws, k, q, W[k][q], p[q][Owner[k]], p[Owner[k]][q])
  /\ InHand(W, ws, p, H)

\* Operation o is a record of its fields.
OpRec(t, ks, v, ids, st, res) ==
  [type |-> t, keys |-> ks, value |-> v, ids |-> ids, state |-> st, result |-> res]

IsOp(o) == o = OpRec(o.type, o.keys, o.value, o.ids, o.state, o.result)

\* The operation o of a client at rank r: ids are its Waits, one for each key it has
\* asked for so far.
Issued(s, ws, r, o) ==
  /\ IsOp(o)
  /\ o.type \in Types \cup {"none"} /\ o.keys \in Seq(Key) /\ o.ids \in Seq(Nat)
  /\ o.value \in Value \cup {NoValue}
  /\ o.state \in {"idle", "called", "returned", "timed out"}
  /\ o.state = "called" => o.type \in Types
  /\ IF o.type = "set" THEN o.value \in Value ELSE o.value = NoValue
  /\ Len(o.ids) <= Len(o.keys)
  /\ \A i \in DOMAIN o.ids :
       /\ o.ids[i] \in DOMAIN ws[r]
       /\ ws[r][o.ids[i]].type = o.type /\ ws[r][o.ids[i]].key = o.keys[i]
  /\ (o.state = "returned" /\ (o.type = "wait" \/ o.result = "true"))
       => \A i \in DOMAIN o.keys : s[o.keys[i]] # NoValue

\* The inductive invariant.
IInv ==
  /\ Consistent(store, storeWaiters, waits, path, {})
  /\ \A c \in Client : Issued(store, waits, At[c], op[c])
  /\ op = [c \in Client |-> op[c]]

----------------------------------------------------------------------------
(***************************************************************************)
(* What processing request m does, in terms of the messageDones A[b] that  *)
(* it sends to each rank b and the reply rep to m itself.                  *)
(***************************************************************************)

\* Every waiter of the key, if m is a set, and m itself, unless it is put off, gets
\* one answer.
Gives(s, s2, W, ws, m, rep, A) ==
  /\ A \in [Rank -> Seq(DoneMsg)]
  /\ \A b \in Rank : \A i \in DOMAIN A[b] :
       /\ Due(s2, ws, Owner[m.key], b, A[b][i]) /\ ws[b][A[b][i].id].key = m.key
       /\ \/ m.type = "set" /\ \E j \in DOMAIN W[m.key][b] : W[m.key][b][j].id = A[b][i].id
          \/ b = m.source /\ rep # NoAnswer /\ A[b][i].id = m.id
       /\ \A j \in DOMAIN A[b] : i # j => A[b][i].id # A[b][j].id
  /\ m.type = "set" => \A b \in Rank : \A j \in DOMAIN W[m.key][b] :
                         \E i \in DOMAIN A[b] : A[b][i].id = W[m.key][b][j].id
  /\ rep # NoAnswer => \E i \in DOMAIN A[m.source] : A[m.source][i].id = m.id
  /\ rep = NoAnswer => m.type \in {"get", "wait"} /\ s[m.key] = NoValue

\* The table and its waiters.
Kept(s, s2, W, W2, m, rep) ==
  /\ s2 \in Table
  /\ \A k \in Key : s[k] # NoValue => s2[k] # NoValue
  /\ m.type = "set" \/ s2 = s
  /\ \A k \in Key \ {m.key} : s2[k] = s[k]
  /\ W2 \in [Key -> [Rank -> Seq(AskMsg)]]
  /\ \A k \in Key \ {m.key} : W2[k] = W[k]
  /\ \A b \in Rank : W2[m.key][b] = IF m.type = "set" THEN <<>>
                                    ELSE IF m.source = b /\ rep = NoAnswer THEN Append(W[m.key][b], m)
                                    ELSE W[m.key][b]

\* Wait w with its answer a.
Over(w, a) == [type |-> w.type, key |-> w.key, value |-> w.value, answer |-> a]

\* The Waits and the messages.
Told(ws, ws2, p, p2, r, A) ==
  /\ ws2 \in [Rank -> Seq(WaitRec)]
  /\ \A b \in Rank \ {r} : ws2[b] = ws[b]
  /\ DOMAIN ws2[r] = DOMAIN ws[r]
  /\ \A id \in DOMAIN ws[r] :
       \/ /\ \A i \in DOMAIN A[r] : A[r][i].id # id
          /\ ws2[r][id] = ws[r][id]
       \/ \E i \in DOMAIN A[r] :
            /\ A[r][i].id = id
            /\ ws2[r][id] = Over(ws[r][id], A[r][i].answer)
  /\ p2 \in [Rank -> [Rank -> Seq(AskMsg \cup DoneMsg)]]
  /\ \A a \in Rank \ {r} : p2[a] = p[a]
  /\ p2[r][r] = <<>>
  /\ \A b \in Rank \ {r} : p2[r][b] = p[r][b] \o A[b]

LEMMA Element ==
  ASSUME NEW S, NEW x \in Seq(S), NEW i \in DOMAIN x
  PROVE  x[i] \in S
OBVIOUS

LEMMA WaitTypes ==
  ASSUME NEW s, NEW W, NEW ws, NEW p, Typed(s, W, ws, p), NEW q \in Rank, NEW id \in DOMAIN ws[q]
  PROVE  ws[q][id] \in WaitRec /\ ws[q][id].key \in Key
<1>1. ws[q] \in Seq(WaitRec)  BY DEF Typed
<1>2. ws[q][id] \in WaitRec  BY <1>1, Element
<1> QED  BY <1>2 DEF WaitRec

Asked(ws, q, m) ==
  /\ m \in AskMsg /\ m.source = q /\ m.id \in DOMAIN ws[q]
  /\ ws[q][m.id].type = m.type /\ ws[q][m.id].key = m.key
  /\ ws[q][m.id].value = m.value /\ ws[q][m.id].answer = NoAnswer

LEMMA PendingFields ==
  ASSUME NEW ws, NEW q, NEW m, Pending(ws, q, m)
  PROVE  Asked(ws, q, m)
<1> DEFINE w == ws[q][m.id]
<1>1. w = [type |-> m.type, key |-> m.key, value |-> m.value, answer |-> NoAnswer]  BY Zenon DEF Pending
<1> HIDE DEF w
<1>2. w.type = m.type /\ w.key = m.key /\ w.value = m.value /\ w.answer = NoAnswer  BY <1>1
<1> QED  BY Zenon, <1>2 DEF Pending, Asked, w

LEMMA PendingStays ==
  ASSUME NEW ws, NEW ws2, NEW q, NEW m, Pending(ws, q, m),
         m.id \in DOMAIN ws2[q], ws2[q][m.id] = ws[q][m.id]
  PROVE  Pending(ws2, q, m)
BY DEF Pending

LEMMA DueStays ==
  ASSUME NEW s, NEW s2, NEW ws, NEW ws2, NEW o, NEW q, NEW m, Due(s, ws, o, q, m),
         m.id \in DOMAIN ws2[q], ws2[q][m.id] = ws[q][m.id],
         ws[q][m.id].key \in Key, \A k \in Key : s[k] # NoValue => s2[k] # NoValue
  PROVE  Due(s2, ws2, o, q, m)
BY Zenon DEF Due, Sound

\* Processing a request leaves everything consistent, with nothing in hand.
LEMMA Processed ==
  ASSUME NEW s, NEW W, NEW ws, NEW p, NEW m, NEW rep, NEW A, NEW s2, NEW W2, NEW ws2, NEW p2,
         Consistent(s, W, ws, p, {m}),
         Gives(s, s2, W, ws, m, rep, A),
         Kept(s, s2, W, W2, m, rep),
         Told(ws, ws2, p, p2, Owner[m.key], A)
  PROVE  Consistent(s2, W2, ws2, p2, {})
<1> DEFINE r == Owner[m.key]
           q == m.source
<1>1. /\ q \in Rank /\ m.key \in Key /\ m.id \in DOMAIN ws[q] /\ m.id \in Nat
      /\ r \in Rank
      /\ Pending(ws, q, m)
      /\ \A i \in DOMAIN p[q][r] : p[q][r][i].type # "done" => m.id < p[q][r][i].id
      /\ \A i \in DOMAIN p[r][q] : p[r][q][i].type = "done" => m.id # p[r][q][i].id
      /\ \A i \in DOMAIN W[m.key][q] : W[m.key][q][i].id # m.id
  BY Zenon, OpsAssumption DEF Consistent, InHand, Pending, AskMsg
<1>2. Typed(s, W, ws, p)  BY Zenon DEF Consistent
<1>3. \A k \in Key : s[k] # NoValue => s2[k] # NoValue  BY Zenon DEF Kept
<1> HIDE DEF r, q

\* Whoever waits for another key, or is told nothing, keeps what they have.
<1>4. ASSUME NEW b \in Rank, NEW id \in DOMAIN ws[b],
             b # r \/ ws[b][id].key # m.key \/ \A i \in DOMAIN A[r] : A[r][i].id # id
      PROVE  id \in DOMAIN ws2[b] /\ ws2[b][id] = ws[b][id]
  <2>1. CASE b # r  BY Zenon, <2>1 DEF Told, r
  <2>2. CASE b = r
    <3>2. \A i \in DOMAIN A[r] : ws[r][A[r][i].id].key = m.key  BY ZenonT(30), <1>1 DEF Gives
    <3>1. \A i \in DOMAIN A[r] : A[r][i].id # id  BY Zenon, <1>4, <2>2, <3>2
    <3> QED  BY Zenon, <2>2, <3>1 DEF Told, r
  <2> QED  BY <2>1, <2>2

\* Messages already on their way are still requests and answers of the same Waits.
<1>5. ASSUME NEW a \in Rank, NEW b \in Rank, NEW i \in DOMAIN p[a][b]
      PROVE  /\ p[a][b][i].type # "done" => Pending(ws2, a, p[a][b][i]) /\ Owner[p[a][b][i].key] = b
             /\ p[a][b][i].type = "done" => Due(s2, ws2, a, b, p[a][b][i])
  <2> DEFINE x == p[a][b][i]
  <2>1. a # b /\ Line(s, ws, a, b, p[a][b])  BY <1>2 DEF Typed, Consistent
  <2>3. CASE x.type # "done"
    <3>1. Pending(ws, a, x) /\ Owner[x.key] = b  BY Zenon, <2>1, <2>3 DEF Line
    <3>9. Asked(ws, a, x)  BY Zenon, <3>1, PendingFields
    <3>2. x.id \in DOMAIN ws[a] /\ ws[a][x.id].key = x.key  BY Zenon, <3>1, <3>9 DEF Asked
    <3>3. a # r \/ ws[a][x.id].key # m.key  BY Zenon, <2>1, <3>1, <3>2 DEF r
    <3>4. x.id \in DOMAIN ws2[a] /\ ws2[a][x.id] = ws[a][x.id]  BY Zenon, <3>2, <3>3, <1>4
    <3> QED  BY Zenon, <2>3, <3>1, <3>4, PendingStays
  <2>4. CASE x.type = "done"
    <3>1. Due(s, ws, a, b, x)  BY Zenon, <2>1, <2>4 DEF Line
    <3>2. x.id \in DOMAIN ws[b] /\ Owner[ws[b][x.id].key] = a  BY Zenon, <3>1 DEF Due
    <3>3. b # r \/ ws[b][x.id].key # m.key  BY Zenon, <2>1, <3>2 DEF r
    <3>4. x.id \in DOMAIN ws2[b] /\ ws2[b][x.id] = ws[b][x.id]  BY Zenon, <3>2, <3>3, <1>4
    <3>5. ws[b][x.id].key \in Key  BY Zenon, <1>2, <3>2, WaitTypes
    <3>6. Due(s2, ws2, a, b, x)  BY ZenonT(60), <1>3, <3>1, <3>4, <3>5, DueStays
    <3> QED  BY Zenon, <2>4, <3>6
  <2> QED  BY Zenon, <2>3, <2>4

\* A path gets answers at its end, if anything.
<1>6. ASSUME NEW a \in Rank, NEW b \in Rank, a # r \/ b = r
      PROVE  p2[a][b] = p[a][b]
  <2>1. CASE a # r  BY Zenon, <2>1 DEF Told, r
  <2>2. CASE a = r
    <3>1. p2[r][r] = <<>>  BY Zenon DEF Told, r
    <3>2. p[r][r] = <<>>  BY Zenon, <1>1, <1>2 DEF Typed
    <3> QED  BY <1>6, <2>2, <3>1, <3>2
  <2> QED  BY <2>1, <2>2
<1>7. ASSUME NEW b \in Rank, b # r
      PROVE  p2[r][b] = p[r][b] \o A[b] /\ p[r][b] \in Seq(AskMsg \cup DoneMsg) /\ A[b] \in Seq(DoneMsg)
  <2>1. p2[r][b] = p[r][b] \o A[b]  BY Zenon, <1>7 DEF Told, r
  <2>2. p[r][b] \in Seq(AskMsg \cup DoneMsg)  BY ZenonT(60), <1>1, <1>2 DEF Typed
  <2>3. A[b] \in Seq(DoneMsg)  BY Zenon DEF Gives
  <2> QED  BY Zenon, <2>1, <2>2, <2>3

\* What is new on a path: an answer to a Wait that had none so far.
<1>8. ASSUME NEW b \in Rank, b # r, NEW i \in DOMAIN A[b]
      PROVE  /\ A[b][i].type = "done"
             /\ Due(s2, ws2, r, b, A[b][i])
             /\ \A j \in DOMAIN p[r][b] : p[r][b][j].type = "done" => p[r][b][j].id # A[b][i].id
             /\ \A j \in DOMAIN p[b][r] : p[b][r][j].type # "done" => p[b][r][j].id # A[b][i].id
  <2>1. Due(s2, ws, r, b, A[b][i])  BY Zenon DEF Gives, r
  <2>2. ws2[b] = ws[b]  BY Zenon, <1>8 DEF Told, r
  <2>3. Due(s2, ws2, r, b, A[b][i])  BY Zenon, <2>1, <2>2 DEF Due
  <2>4. A[b][i].type = "done"  BY Zenon, <2>1 DEF Due, DoneMsg
  <2>5. CASE \E j \in DOMAIN W[m.key][b] : W[m.key][b][j].id = A[b][i].id
    <3>1. Queue(s, ws, m.key, b, W[m.key][b], p[b][r], p[r][b])  BY Zenon, <1>1 DEF Consistent, r
    <3> QED  BY ZenonT(60), <2>3, <2>4, <2>5, <3>1 DEF Queue
  <2>6. CASE b = q /\ A[b][i].id = m.id
    <3>2. p[b][r] \in Seq(AskMsg \cup DoneMsg)  BY Zenon, <1>1, <1>2 DEF Typed
    <3>3. \A j \in DOMAIN p[b][r] : p[b][r][j].id \in Nat  BY <3>2 DEF AskMsg, DoneMsg
    <3> QED  BY SMTT(30), <1>1, <2>3, <2>4, <2>6, <3>3
  <2> QED  BY ZenonT(60), <2>5, <2>6 DEF Gives, q

\* The paths stay in order.
<1>9. ASSUME NEW a \in Rank, NEW b \in Rank
      PROVE  Line(s2, ws2, a, b, p2[a][b])
  <2>1. Line(s, ws, a, b, p[a][b])  BY Zenon DEF Consistent
  <2>2. CASE a # r \/ b = r
    <3>1. p2[a][b] = p[a][b]  BY Zenon, <1>6, <2>2
    <3>2. Line(s2, ws2, a, b, p[a][b])  BY ZenonT(60), <2>1, <1>5 DEF Line
    <3> QED  BY Zenon, <3>1, <3>2
  <2>3. CASE a = r /\ b # r
    <3> DEFINE x == p[r][b]
               y == A[b]
               z == p2[r][b]
    <3>1. z = x \o y /\ x \in Seq(AskMsg \cup DoneMsg) /\ y \in Seq(DoneMsg)  BY Zenon, <2>3, <1>7
    <3>2. \A i \in DOMAIN x : /\ x[i].type = "done" => Due(s2, ws2, a, b, x[i])
                              /\ x[i].type # "done" => Pending(ws2, a, x[i]) /\ Owner[x[i].key] = b
      BY <1>5, <2>3
    <3>3. \A i, j \in DOMAIN x :
            i < j => /\ (x[i].type # "done" /\ x[j].type # "done") => x[i].id < x[j].id
                     /\ (x[i].type = "done" /\ x[j].type = "done") => x[i].id # x[j].id
      BY ZenonT(60), <2>1, <2>3 DEF Line
    <3>4. \A i \in DOMAIN y : /\ y[i].type = "done" /\ Due(s2, ws2, a, b, y[i])
                              /\ \A j \in DOMAIN x : x[j].type = "done" => x[j].id # y[i].id
      BY Zenon, <1>8, <2>3
    <3>5. \A i, j \in DOMAIN y : i # j => y[i].id # y[j].id  BY ZenonT(60) DEF Gives
    <3> HIDE DEF x, y, z
    <3>6. \A i \in DOMAIN z : \/ i \in DOMAIN x /\ z[i] = x[i]
                              \/ i > Len(x) /\ i - Len(x) \in DOMAIN y /\ z[i] = y[i - Len(x)]
      BY <3>1
    <3>7. DOMAIN z \subseteq Nat /\ Len(x) \in Nat /\ \A i \in DOMAIN x : i <= Len(x)  BY <3>1
    <3>8. \A i \in DOMAIN z : /\ z[i].type = "done" => Due(s2, ws2, a, b, z[i])
                              /\ z[i].type # "done" => Pending(ws2, a, z[i]) /\ Owner[z[i].key] = b
      BY <3>2, <3>4, <3>6
    <3>9. ASSUME NEW i \in DOMAIN z, NEW j \in DOMAIN z, i < j
          PROVE  /\ (z[i].type # "done" /\ z[j].type # "done") => z[i].id < z[j].id
                 /\ (z[i].type = "done" /\ z[j].type = "done") => z[i].id # z[j].id
      <4>1. CASE j \in DOMAIN x /\ z[j] = x[j]
        <5>1. i \in DOMAIN x /\ z[i] = x[i]  BY <3>6, <3>7, <3>9, <4>1
        <5> QED  BY Zenon, <3>3, <3>9, <4>1, <5>1
      <4>2. CASE j > Len(x) /\ j - Len(x) \in DOMAIN y /\ z[j] = y[j - Len(x)]
        <5>1. CASE i \in DOMAIN x /\ z[i] = x[i]  BY Zenon, <3>4, <4>2, <5>1
        <5>2. CASE i > Len(x) /\ i - Len(x) \in DOMAIN y /\ z[i] = y[i - Len(x)]
          <6>1. i - Len(x) # j - Len(x)  BY <3>7, <3>9
          <6> QED  BY Zenon, <3>4, <3>5, <4>2, <5>2, <6>1
        <5> QED  BY Zenon, <3>6, <5>1, <5>2
      <4> QED  BY Zenon, <3>6, <4>1, <4>2
    <3> QED  BY ZenonT(60), <2>3, <3>8, <3>9 DEF Line, z
  <2> QED  BY Zenon, <2>2, <2>3

\* Where the messages of a path come from.
<1>10. ASSUME NEW a \in Rank, NEW b \in Rank, NEW i \in DOMAIN p2[a][b]
       PROVE  \/ i \in DOMAIN p[a][b] /\ p2[a][b][i] = p[a][b][i]
              \/ a = r /\ b # r /\ \E j \in DOMAIN A[b] : p2[a][b][i] = A[b][j]
  <2>1. CASE a # r \/ b = r  BY Zenon, <1>6, <2>1
  <2>2. CASE a = r /\ b # r
    <3> DEFINE x == p[r][b]
               y == A[b]
               z == p2[r][b]
    <3>1. z = x \o y /\ x \in Seq(AskMsg \cup DoneMsg) /\ y \in Seq(DoneMsg) /\ i \in DOMAIN z
      BY Zenon, <1>7, <2>2
    <3> HIDE DEF x, y, z
    <3>2. \/ i \in DOMAIN x /\ z[i] = x[i]
          \/ i - Len(x) \in DOMAIN y /\ z[i] = y[i - Len(x)]
      BY <3>1
    <3> QED  BY Zenon, <2>2, <3>2 DEF x, y, z
  <2> QED  BY Zenon, <2>1, <2>2
<1>11. ASSUME NEW a \in Rank, NEW b \in Rank, NEW i \in DOMAIN p2[a][b], p2[a][b][i].type # "done"
       PROVE  i \in DOMAIN p[a][b] /\ p2[a][b][i] = p[a][b][i]
  BY SMTT(30), <1>8, <1>10, <1>11

\* Requests and answers between two ranks stay apart.
<1>12. ASSUME NEW a \in Rank, NEW b \in Rank
       PROVE  Apart(p2[a][b], p2[b][a])
  <2>1. Apart(p[a][b], p[b][a])  BY Zenon DEF Consistent
  <2> SUFFICES ASSUME NEW i \in DOMAIN p2[a][b], NEW j \in DOMAIN p2[b][a],
                      p2[a][b][i].type # "done", p2[b][a][j].type = "done"
               PROVE  p2[a][b][i].id # p2[b][a][j].id
    BY Zenon DEF Apart
  <2>2. i \in DOMAIN p[a][b] /\ p2[a][b][i] = p[a][b][i]  BY Zenon, <1>11
  <2>3. CASE j \in DOMAIN p[b][a] /\ p2[b][a][j] = p[b][a][j]  BY Zenon, <2>1, <2>2, <2>3 DEF Apart
  <2>4. CASE b = r /\ a # r /\ \E n \in DOMAIN A[a] : p2[b][a][j] = A[a][n]  BY SMTT(30), <1>8, <2>2, <2>4
  <2> QED  BY SMTT(30), <1>10, <2>3, <2>4

\* Whoever waits is still waiting, unless the key was set.
<1>13. ASSUME NEW k \in Key, NEW b \in Rank
       PROVE  Queue(s2, ws2, k, b, W2[k][b], p2[b][Owner[k]], p2[Owner[k]][b])
  <2> DEFINE o == Owner[k]
  <2>1. Queue(s, ws, k, b, W[k][b], p[b][o], p[o][b]) /\ o \in Rank  BY Zenon, OpsAssumption DEF Consistent
  <2>2. CASE W2[k][b] = <<>>  BY SMTT(30), <2>2 DEF Queue
  <2>3. CASE k # m.key \/ m.type # "set"
    \* The waiters from before.
    <3>1. ASSUME NEW i \in DOMAIN W[k][b]
          PROVE  /\ Pending(ws2, b, W[k][b][i]) /\ W[k][b][i].key = k /\ W[k][b][i].type \in {"get", "wait"}
                 /\ s2[k] = NoValue
                 /\ \A j \in DOMAIN p2[b][o] : p2[b][o][j].type # "done" => W[k][b][i].id # p2[b][o][j].id
                 /\ \A j \in DOMAIN p2[o][b] : p2[o][b][j].type = "done" => W[k][b][i].id # p2[o][b][j].id
      <4> DEFINE x == W[k][b][i]
      <4>1. /\ Pending(ws, b, x) /\ x.key = k /\ x.type \in {"get", "wait"} /\ s[k] = NoValue
            /\ \A j \in DOMAIN p[b][o] : p[b][o][j].type # "done" => x.id # p[b][o][j].id
            /\ \A j \in DOMAIN p[o][b] : p[o][b][j].type = "done" => x.id # p[o][b][j].id
        BY Zenon, <2>1 DEF Queue
      <4>9. Asked(ws, b, x)  BY Zenon, <4>1, PendingFields
      <4>2. x.id \in DOMAIN ws[b] /\ ws[b][x.id].key = k  BY Zenon, <4>1, <4>9 DEF Asked
      <4>3. \A j \in DOMAIN A[b] : A[b][j].id # x.id
        <5>1. CASE k # m.key
          <6>1. \A j \in DOMAIN A[b] : ws[b][A[b][j].id].key = m.key  BY Zenon DEF Gives
          <6> QED  BY Zenon, <4>2, <5>1, <6>1
        <5>2. CASE k = m.key /\ m.type # "set"
          <6>1. \A j \in DOMAIN A[b] : b = q /\ A[b][j].id = m.id  BY Zenon, <5>2 DEF Gives, q
          <6> QED  BY Zenon, <1>1, <5>2, <6>1
        <5> QED  BY Zenon, <2>3, <5>1, <5>2
      <4>4. x.id \in DOMAIN ws2[b] /\ ws2[b][x.id] = ws[b][x.id]
        <5>1. b # r \/ \A j \in DOMAIN A[r] : A[r][j].id # x.id  BY Zenon, <4>3
        <5> QED  BY Zenon, <1>4, <4>2, <5>1
      <4>5. Pending(ws2, b, x)  BY Zenon, <4>1, <4>4, PendingStays
      <4>6. s2[k] = NoValue  BY Zenon, <2>3, <4>1 DEF Kept
      <4>7. \A j \in DOMAIN p2[b][o] : p2[b][o][j].type # "done" => x.id # p2[b][o][j].id
        BY Zenon, <1>11, <2>1, <4>1
      <4>8. ASSUME NEW j \in DOMAIN p2[o][b], p2[o][b][j].type = "done"
            PROVE  x.id # p2[o][b][j].id
        <5>1. CASE j \in DOMAIN p[o][b] /\ p2[o][b][j] = p[o][b][j]  BY Zenon, <4>1, <4>8, <5>1
        <5>2. CASE \E n \in DOMAIN A[b] : p2[o][b][j] = A[b][n]  BY Zenon, <4>3, <5>2
        <5> QED  BY SMTT(30), <1>10, <2>1, <5>1, <5>2
      <4> QED  BY Zenon, <4>1, <4>5, <4>6, <4>7, <4>8
    <3>2. \A i, j \in DOMAIN W[k][b] : i # j => W[k][b][i].id # W[k][b][j].id  BY Zenon, <2>1 DEF Queue
    <3>3. CASE W2[k][b] = W[k][b]  BY ZenonT(60), <3>1, <3>2, <3>3 DEF Queue
    \* Request m is put off.
    <3>4. CASE k = m.key /\ b = q /\ rep = NoAnswer /\ W2[k][b] = Append(W[k][b], m)
      <4>1. W[k][b] \in Seq(AskMsg) /\ m \in AskMsg  BY Zenon, <1>1, <1>2 DEF Typed, Pending
      <4>2. m.type \in {"get", "wait"} /\ s[k] = NoValue  BY Zenon, <3>4 DEF Gives
      <4>3. \A j \in DOMAIN A[b] : FALSE  BY Zenon, <3>4, <4>2 DEF Gives
      <4>4. s2[k] = NoValue  BY Zenon, <4>2 DEF Kept
      <4>5. m.id \in DOMAIN ws2[b] /\ ws2[b][m.id] = ws[b][m.id]  BY Zenon, <1>1, <1>4, <3>4, <4>3
      <4>6. Pending(ws2, b, m)  BY Zenon, <1>1, <3>4, <4>5, PendingStays
      <4>7. o = r  BY Zenon, <3>4 DEF r
      <4>8. \A j \in DOMAIN p2[b][o] : p2[b][o][j].type # "done" => m.id # p2[b][o][j].id
        <5>1. p[b][r] \in Seq(AskMsg \cup DoneMsg)  BY Zenon, <1>1, <1>2 DEF Typed
        <5>2. \A j \in DOMAIN p[b][r] : p[b][r][j].id \in Nat  BY SMTT(30), <5>1 DEF AskMsg, DoneMsg
        <5> QED  BY SMTT(30), <1>1, <1>11, <3>4, <4>7, <5>2
      <4>9. \A j \in DOMAIN p2[o][b] : p2[o][b][j].type = "done" => m.id # p2[o][b][j].id
        BY SMTT(30), <1>1, <1>10, <3>4, <4>3, <4>7
      <4>10. \A j \in DOMAIN W[k][b] : W[k][b][j].id # m.id  BY Zenon, <1>1, <3>4
      <4>11. \A i \in DOMAIN W2[k][b] : \/ i \in DOMAIN W[k][b] /\ W2[k][b][i] = W[k][b][i]
                                        \/ i = Len(W[k][b]) + 1 /\ W2[k][b][i] = m
        BY SMTT(30), <3>4, <4>1
      <4>12. ASSUME NEW i \in DOMAIN W2[k][b] PROVE
               /\ Pending(ws2, b, W2[k][b][i]) /\ W2[k][b][i].key = k /\ W2[k][b][i].type \in {"get", "wait"}
               /\ s2[k] = NoValue
               /\ \A j \in DOMAIN p2[b][o] : p2[b][o][j].type # "done" => W2[k][b][i].id # p2[b][o][j].id
               /\ \A j \in DOMAIN p2[o][b] : p2[o][b][j].type = "done" => W2[k][b][i].id # p2[o][b][j].id
        <5>1. CASE i \in DOMAIN W[k][b] /\ W2[k][b][i] = W[k][b][i]  BY <3>1, <5>1, Zenon
        <5>2. CASE W2[k][b][i] = m  BY <3>4, <4>2, <4>4, <4>6, <4>8, <4>9, <5>2, ZenonT(60)
        <5> QED  BY <4>11, <5>1, <5>2, Zenon
      <4>13. ASSUME NEW i \in DOMAIN W2[k][b], NEW j \in DOMAIN W2[k][b], i # j
             PROVE  W2[k][b][i].id # W2[k][b][j].id
        <5>1. CASE i \in DOMAIN W[k][b] /\ W2[k][b][i] = W[k][b][i]
          <6>1. CASE j \in DOMAIN W[k][b] /\ W2[k][b][j] = W[k][b][j]  BY <3>2, <4>13, <5>1, <6>1, Zenon
          <6>2. CASE W2[k][b][j] = m  BY <4>10, <5>1, <6>2, Zenon
          <6> QED  BY <4>11, <6>1, <6>2, Zenon
        <5>2. CASE i = Len(W[k][b]) + 1 /\ W2[k][b][i] = m
          <6>1. CASE j \in DOMAIN W[k][b] /\ W2[k][b][j] = W[k][b][j]  BY <4>10, <5>2, <6>1, Zenon
          <6> QED  BY <4>11, <4>13, <5>2, <6>1, Zenon
        <5> QED  BY <4>11, <5>1, <5>2, Zenon
      <4> QED  BY Zenon, <4>12, <4>13 DEF Queue
    <3> QED  BY Zenon, <2>3, <3>3, <3>4 DEF Kept, q
  <2>4. CASE k = m.key /\ m.type = "set"
    <3>1. W2[k][b] = <<>>  BY Zenon, <2>4 DEF Kept
    <3> QED  BY Zenon, <2>2, <3>1
  <2> QED  BY Zenon, <2>3, <2>4

\* A Wait that the answers A[b] are about is over, or its answer is on its way.
<1>14. ASSUME NEW b \in Rank, NEW i \in DOMAIN A[b]
       PROVE  \/ b = r /\ A[b][i].id \in DOMAIN ws[b] /\ ws2[b][A[b][i].id].answer # NoAnswer
              \/ b # r /\ \E j \in DOMAIN p2[r][b] : p2[r][b][j].type = "done" /\ p2[r][b][j].id = A[b][i].id
  <2>1. Due(s2, ws, r, b, A[b][i])  BY ZenonT(30) DEF Gives, r
  <2>2. CASE b = r
    <3>1. A[r][i].id \in DOMAIN ws[r]  BY Zenon, <2>1, <2>2 DEF Due
    <3>2. PICK j \in DOMAIN A[r] : /\ A[r][j].id = A[r][i].id
                                   /\ ws2[r][A[r][i].id] = Over(ws[r][A[r][i].id], A[r][j].answer)
      BY Zenon, <2>2, <3>1 DEF Told, r
    <3>4. Due(s2, ws, r, r, A[r][j])  BY Zenon, <1>1 DEF Gives, r
    <3>3. A[r][j].answer # NoAnswer  BY Zenon, <3>4 DEF Due
    <3> QED  BY SMTT(30), <2>2, <3>1, <3>2, <3>3 DEF Over
  <2>3. CASE b # r
    <3> DEFINE x == p[r][b]
               y == A[b]
               z == p2[r][b]
    <3>1. z = x \o y /\ x \in Seq(AskMsg \cup DoneMsg) /\ y \in Seq(DoneMsg) /\ i \in DOMAIN y
      BY Zenon, <1>7, <2>3
    <3>2. A[b][i].type = "done"  BY Zenon, <1>8, <2>3
    <3> HIDE DEF x, y, z
    <3>3. Len(x) + i \in DOMAIN z /\ z[Len(x) + i] = y[i]  BY <3>1
    <3> QED  BY Zenon, <2>3, <3>2, <3>3 DEF x, y, z
  <2> QED  BY Zenon, <2>2, <2>3

\* What was on its way still is.
<1>15. ASSUME NEW a \in Rank, NEW b \in Rank, NEW i \in DOMAIN p[a][b]
       PROVE  i \in DOMAIN p2[a][b] /\ p2[a][b][i] = p[a][b][i]
  <2>1. CASE a # r \/ b = r  BY Zenon, <1>6, <2>1
  <2>2. CASE a = r /\ b # r
    <3> DEFINE x == p[r][b]
               y == A[b]
               z == p2[r][b]
    <3>1. z = x \o y /\ x \in Seq(AskMsg \cup DoneMsg) /\ y \in Seq(DoneMsg) /\ i \in DOMAIN x
      BY Zenon, <1>7, <2>2
    <3> HIDE DEF x, y, z
    <3>2. i \in DOMAIN z /\ z[i] = x[i]  BY <3>1
    <3> QED  BY Zenon, <2>2, <3>2 DEF x, z
  <2> QED  BY Zenon, <2>1, <2>2

\* The Waits keep their call; a new answer is one that is sound.
<1>16. ASSUME NEW b \in Rank, NEW id \in DOMAIN ws2[b]
       PROVE  /\ id \in DOMAIN ws[b] /\ ws2[b][id].key = ws[b][id].key
              /\ ws2[b][id].answer = NoAnswer => ws2[b][id] = ws[b][id]
              /\ ws[b][id].answer # NoAnswer => ws2[b][id].answer # NoAnswer
              /\ Sound(s2, ws2[b][id], ws2[b][id].answer)
  <2>1. id \in DOMAIN ws[b]  BY Zenon DEF Told
  <2>2. ws[b][id].key \in Key  BY Zenon, <1>2, <2>1, WaitTypes
  <2>3. Sound(s, ws[b][id], ws[b][id].answer)  BY Zenon, <2>1 DEF Consistent
  <2>4. CASE ws2[b][id] = ws[b][id]  BY Zenon, <1>3, <2>1, <2>2, <2>3, <2>4 DEF Sound
  <2>5. CASE b = r /\ \E i \in DOMAIN A[r] : /\ A[r][i].id = id
                                             /\ ws2[r][id] = Over(ws[r][id], A[r][i].answer)
    <3>1. PICK i \in DOMAIN A[r] : A[r][i].id = id /\ ws2[r][id] = Over(ws[r][id], A[r][i].answer)
      BY Zenon, <2>5
    <3>2. Due(s2, ws, r, r, A[r][i])  BY Zenon, <1>1 DEF Gives, r
    <3>3. A[r][i].answer # NoAnswer /\ Sound(s2, ws[r][id], A[r][i].answer)  BY Zenon, <3>1, <3>2 DEF Due
    <3> QED  BY SMTT(30), <2>1, <2>5, <3>1, <3>3 DEF Over, Sound
  <2> QED  BY ZenonT(60), <2>1, <2>4, <2>5 DEF Told, r

\* No Wait is forgotten.
<1>17. ASSUME NEW b \in Rank, NEW id \in DOMAIN ws2[b]
       PROVE  Somewhere(W2, ws2, p2, {}, b, id)
  <2> DEFINE k == ws[b][id].key
             o == Owner[k]
  <2>1. id \in DOMAIN ws[b] /\ ws2[b][id].key = k  BY Zenon, <1>16
  <2>2. k \in Key /\ o \in Rank  BY Zenon, <1>2, <2>1, WaitTypes, OpsAssumption
  <2> DEFINE Here == \/ ws2[b][id].answer # NoAnswer
                     \/ \E i \in DOMAIN p2[b][o] : p2[b][o][i].type # "done" /\ p2[b][o][i].id = id
                     \/ \E i \in DOMAIN p2[o][b] : p2[o][b][i].type = "done" /\ p2[o][b][i].id = id
                     \/ \E i \in DOMAIN W2[k][b] : W2[k][b][i].id = id
  <2>3. SUFFICES Here  BY Zenon, <2>1 DEF Somewhere
  <2>4. CASE ws[b][id].answer # NoAnswer  BY Zenon, <1>16, <2>4
  <2>5. CASE \E i \in DOMAIN A[b] : A[b][i].id = id /\ k = m.key
    <3>1. PICK i \in DOMAIN A[b] : A[b][i].id = id /\ k = m.key  BY Zenon, <2>5
    <3>2. CASE b = r /\ ws2[b][id].answer # NoAnswer  BY Zenon, <3>2
    <3>3. CASE \E j \in DOMAIN p2[r][b] : p2[r][b][j].type = "done" /\ p2[r][b][j].id = id
      BY ZenonT(60), <3>1, <3>3 DEF r
    <3> QED  BY ZenonT(60), <1>14, <3>1, <3>2, <3>3
  <2>6. CASE m.source = b /\ m.id = id
    <3>1. k = m.key  BY SMTT(30), <1>1, <2>6 DEF Pending, q
    <3>2. CASE rep # NoAnswer
      <4>1. \E i \in DOMAIN A[b] : A[b][i].id = id  BY Zenon, <2>6, <3>2 DEF Gives
      <4> QED  BY Zenon, <2>5, <3>1, <4>1
    <3>3. CASE rep = NoAnswer
      <4>1. m.type # "set"  BY Zenon, <3>3 DEF Gives
      <4>2. W2[k][b] = Append(W[k][b], m)  BY ZenonT(60), <2>6, <3>1, <3>3, <4>1 DEF Kept
      <4>3. W[k][b] \in Seq(AskMsg)  BY SMTT(30), <1>2, <2>2 DEF Typed
      <4> DEFINE x == W[k][b]
      <4> HIDE DEF x, k
      <4>4. x \in Seq(AskMsg) /\ W2[k][b] = Append(x, m)  BY Zenon, <4>2, <4>3 DEF x
      <4>5. Len(x) + 1 \in DOMAIN W2[k][b] /\ W2[k][b][Len(x) + 1] = m  BY SMTT(30), <4>4
      <4> QED  BY Zenon, <2>6, <4>5
    <3> QED  BY Zenon, <3>2, <3>3
  <2>7. CASE \E i \in DOMAIN p[b][o] : p[b][o][i].type # "done" /\ p[b][o][i].id = id
    BY ZenonT(60), <1>15, <2>2, <2>7
  <2>8. CASE \E i \in DOMAIN p[o][b] : p[o][b][i].type = "done" /\ p[o][b][i].id = id
    BY ZenonT(60), <1>15, <2>2, <2>8
  <2>9. CASE \E i \in DOMAIN W[k][b] : W[k][b][i].id = id
    <3>1. PICK i \in DOMAIN W[k][b] : W[k][b][i].id = id  BY Zenon, <2>9
    <3>2. CASE k = m.key /\ m.type = "set"
      <4>1. \E j \in DOMAIN A[b] : A[b][j].id = W[k][b][i].id  BY SMTT(30), <3>2 DEF Gives
      <4> QED  BY Zenon, <2>5, <3>1, <3>2, <4>1
    <3>3. CASE W2[k][b] = W[k][b]  BY Zenon, <3>1, <3>3
    <3>4. CASE W2[k][b] = Append(W[k][b], m)
      <4>3. W[k][b] \in Seq(AskMsg)  BY SMTT(30), <1>2, <2>2 DEF Typed
      <4> DEFINE x == W[k][b]
      <4> HIDE DEF x, k
      <4>4. x \in Seq(AskMsg) /\ W2[k][b] = Append(x, m) /\ i \in DOMAIN x  BY Zenon, <3>4, <4>3 DEF x
      <4>5. i \in DOMAIN W2[k][b] /\ W2[k][b][i] = x[i]  BY SMTT(30), <4>4
      <4> QED  BY Zenon, <3>1, <4>5 DEF x
    <3> QED  BY ZenonT(60), <2>2, <3>2, <3>3, <3>4 DEF Kept
  <2>10. Somewhere(W, ws, p, {m}, b, id)  BY Zenon, <2>1 DEF Consistent
  <2> QED  BY Zenon, <2>4, <2>6, <2>7, <2>8, <2>9, <2>10 DEF Somewhere
<1>18. Typed(s2, W2, ws2, p2)
  <2>1. \A a \in Rank : p2[a][a] = <<>>  BY Zenon, <1>2, <1>6 DEF Typed
  <2> QED  BY Zenon, <2>1 DEF Typed, Kept, Told
<1>19. InHand(W2, ws2, p2, {})  BY Zenon DEF InHand
<1> QED  BY Zenon, <1>9, <1>12, <1>13, <1>16, <1>17, <1>18, <1>19 DEF Consistent

----------------------------------------------------------------------------
(***************************************************************************)
(* ProcessRequest has these effects.                                       *)
(***************************************************************************)

\* What the answers say.
Says(ws, m, rep, A) ==
  \A b \in Rank : \A i \in DOMAIN A[b] :
    A[b][i].answer = IF m.type = "set" THEN IF ws[b][A[b][i].id].type = "get" THEN m.value ELSE "ok"
                     ELSE rep

LEMMA ReplyFacts ==
  ASSUME NEW m \in AskMsg, store \in Table
  PROVE  /\ Reply(m) \in Answer
         /\ m.type = "set" => Reply(m) = "ok"
         /\ m.type = "check" => Reply(m) = IF store[m.key] # NoValue THEN "true" ELSE "false"
         /\ m.type = "get" => Reply(m) = IF store[m.key] # NoValue THEN store[m.key] ELSE NoAnswer
         /\ m.type = "wait" => Reply(m) = IF store[m.key] # NoValue THEN "ok" ELSE NoAnswer
         /\ Reply(m) = NoAnswer => m.type \in {"get", "wait"} /\ store[m.key] = NoValue
         /\ Reply(m) # NoAnswer /\ m.type \in {"get", "wait"} => store[m.key] # NoValue
<1>1. m.key \in Key /\ m.type \in Types  BY DEF AskMsg
<1>2. store[m.key] \in Value \cup {NoValue}  BY <1>1 DEF Table
<1>3. CASE m.type = "set"
  <2>1. Reply(m) = "ok"  BY <1>3 DEF Reply
  <2> QED  BY Zenon, <1>3, <2>1, OpsAssumption DEF Answer
<1>4. CASE m.type = "check"
  <2>1. Reply(m) = IF store[m.key] # NoValue THEN "true" ELSE "false"  BY <1>4 DEF Reply
  <2> QED  BY Zenon, <1>4, <2>1, OpsAssumption DEF Answer
<1>5. CASE m.type = "get"
  <2>1. Reply(m) = IF store[m.key] # NoValue THEN store[m.key] ELSE NoAnswer  BY <1>5 DEF Reply
  <2> QED  BY Zenon, <1>2, <1>5, <2>1, OpsAssumption DEF Answer
<1>6. CASE m.type = "wait"
  <2>1. Reply(m) = IF store[m.key] # NoValue THEN "ok" ELSE NoAnswer  BY <1>6 DEF Reply
  <2> QED  BY Zenon, <1>6, <2>1, OpsAssumption DEF Answer
<1> QED  BY Zenon, <1>1, <1>3, <1>4, <1>5, <1>6 DEF Types

\* What a waiter x is told when its key gets value v.
Woken(x, v) == Done(x, IF x.type = "get" THEN v ELSE "ok")

\* The answers z to rank b: those to its waiters x, then the one to m.
Shape(x, m, rep, b, z) ==
  /\ z \in Seq(DoneMsg)
  /\ \A i \in DOMAIN z :
       \/ m.type = "set" /\ i \in DOMAIN x /\ z[i] = Woken(x[i], m.value)
       \/ b = m.source /\ rep # NoAnswer /\ z[i] = Done(m, rep) /\ i = Len(z)
  /\ m.type = "set" => \A j \in DOMAIN x : j \in DOMAIN z /\ z[j] = Woken(x[j], m.value)
  /\ (b = m.source /\ rep # NoAnswer) => \E i \in DOMAIN z : z[i] = Done(m, rep)

LEMMA AnswersShape ==
  ASSUME NEW ws, NEW p, NEW m, Consistent(store, storeWaiters, ws, p, {m}), NEW b \in Rank
  PROVE  Shape(storeWaiters[m.key][b], m, Reply(m), b, Answers(m, b))
<1> DEFINE x == storeWaiters[m.key][b]
           w == IF m.type = "set" THEN WaiterAnswers(m.key, b, m.value) ELSE <<>>
           t == IF m.source = b /\ Reply(m) # NoAnswer THEN <<Done(m, Reply(m))>> ELSE <<>>
           d(i) == Woken(x[i], m.value)
<1>1. /\ Pending(ws, m.source, m) /\ m \in AskMsg /\ m.key \in Key /\ m.id \in Nat /\ m.source \in Rank
      /\ m.type = "set" => m.value \in Value
  BY Zenon DEF Consistent, InHand, Pending, AskMsg
<1>2. x \in Seq(AskMsg) /\ store \in Table  BY <1>1 DEF Consistent, Typed
<1>3. Reply(m) \in Answer  BY <1>1, <1>2, ReplyFacts
<1>4. m.type = "set" => \A i \in DOMAIN x : d(i) \in DoneMsg
  <2> SUFFICES ASSUME m.type = "set", NEW i \in DOMAIN x PROVE d(i) \in DoneMsg  OBVIOUS
  <2>1. x[i] \in AskMsg  BY Zenon, <1>2, Element
  <2>2. x[i].source \in Rank /\ x[i].id \in Nat  BY Zenon, <2>1 DEF AskMsg
  <2>3. m.value \in Answer /\ "ok" \in Answer  BY <1>1 DEF Answer
  <2> HIDE DEF x
  <2> QED  BY <2>2, <2>3 DEF Woken, Done, DoneMsg
<1>5. w \in Seq(DoneMsg) /\ (m.type = "set" => /\ DOMAIN w = DOMAIN x
                                               /\ \A i \in DOMAIN x : w[i] = d(i))
                         /\ (m.type # "set" => w = <<>>)
  <2>1. CASE m.type = "set"
    <3>1. w = [i \in DOMAIN x |-> d(i)]  BY <2>1 DEF WaiterAnswers, Woken
    <3> HIDE DEF x, w, d
    <3>2. DOMAIN x = 1..Len(x) /\ Len(x) \in Nat  BY <1>2
    <3>3. w \in [1..Len(x) -> DoneMsg]  BY <1>4, <2>1, <3>1, <3>2
    <3> QED  BY <2>1, <3>1, <3>2, <3>3
  <2>2. CASE m.type # "set"  BY <2>2
  <2> QED  BY Zenon, <2>1, <2>2
<1>6. /\ t \in Seq(DoneMsg)
      /\ IF b = m.source /\ Reply(m) # NoAnswer THEN t = <<Done(m, Reply(m))>> ELSE t = <<>>
  <2>1. Done(m, Reply(m)) \in DoneMsg  BY Zenon, <1>1, <1>3 DEF Done, DoneMsg
  <2>2. CASE b = m.source /\ Reply(m) # NoAnswer  BY <2>1, <2>2
  <2>3. CASE ~(b = m.source /\ Reply(m) # NoAnswer)  BY <2>3
  <2> QED  BY <2>2, <2>3
<1>7. Answers(m, b) = w \o t  BY DEF Answers
<1> HIDE DEF x, w, t, d
<1> DEFINE z == w \o t
<1>8. z \in Seq(DoneMsg)  BY <1>5, <1>6
<1>9. ASSUME NEW i \in DOMAIN z
      PROVE  \/ m.type = "set" /\ i \in DOMAIN x /\ z[i] = d(i)
             \/ b = m.source /\ Reply(m) # NoAnswer /\ z[i] = Done(m, Reply(m)) /\ i = Len(z)
  <2>1. CASE i \in DOMAIN w  BY <1>5, <1>6, <2>1
  <2>2. CASE i \notin DOMAIN w
    <3>1. i - Len(w) \in DOMAIN t /\ z[i] = t[i - Len(w)] /\ Len(z) = Len(w) + Len(t)  BY <1>5, <1>6, <2>2
    <3>2. t = <<Done(m, Reply(m))>> /\ b = m.source /\ Reply(m) # NoAnswer  BY <1>6, <3>1
    <3>3. Len(t) = 1 /\ DOMAIN t = {1} /\ t[1] = Done(m, Reply(m))  BY <3>2
    <3>4. i = Len(z)  BY <1>5, <3>1, <3>3
    <3> QED  BY <3>1, <3>2, <3>3, <3>4
  <2> QED  BY Zenon, <2>1, <2>2
<1>10. ASSUME m.type = "set", NEW j \in DOMAIN x
       PROVE  j \in DOMAIN z /\ z[j] = d(j)
  BY <1>5, <1>6, <1>10
<1>11. ASSUME b = m.source, Reply(m) # NoAnswer
       PROVE  \E i \in DOMAIN z : z[i] = Done(m, Reply(m))
  <2>1. t = <<Done(m, Reply(m))>>  BY <1>6, <1>11
  <2>2. Len(w) + 1 \in DOMAIN z /\ z[Len(w) + 1] = Done(m, Reply(m))  BY <1>5, <1>6, <2>1
  <2> QED  BY <2>2
<1> HIDE DEF z
<1>12. Answers(m, b) = z  BY <1>7 DEF z
<1> QED  BY ZenonT(30), <1>8, <1>9, <1>10, <1>11, <1>12 DEF Shape, x, d

LEMMA GivesAnswers ==
  ASSUME NEW ws, NEW p, NEW m, Consistent(store, storeWaiters, ws, p, {m}), Store(m),
         NEW A, A = [b \in Rank |-> Answers(m, b)]
  PROVE  /\ Gives(store, store', storeWaiters, ws, m, Reply(m), A)
         /\ Says(ws, m, Reply(m), A)
<1> DEFINE W == storeWaiters
           k == m.key
           rep == Reply(m)
<1>1. /\ Pending(ws, m.source, m) /\ m \in AskMsg /\ m.key \in Key /\ m.id \in Nat /\ m.source \in Rank
      /\ m.type = "set" => m.value \in Value
      /\ m.id \in DOMAIN ws[m.source]
      /\ ws[m.source][m.id] = [type |-> m.type, key |-> m.key, value |-> m.value, answer |-> NoAnswer]
      /\ \A i \in DOMAIN W[m.key][m.source] : W[m.key][m.source][i].id # m.id
  BY Zenon DEF Consistent, InHand, Pending, AskMsg
<1>2. store \in Table  BY Zenon, <1>1 DEF Consistent, Typed
<1>3. /\ m.type = "set" => store'[k] = m.value /\ m.value # NoValue
      /\ m.type # "set" => store' = store
  BY Zenon, <1>1, <1>2, OpsAssumption DEF Store, Table
<1>9. \A b \in Rank : Shape(W[k][b], m, rep, b, A[b])  BY Zenon, AnswersShape
<1>4. ASSUME NEW b \in Rank, NEW i \in DOMAIN A[b]
      PROVE  /\ Due(store', ws, Owner[m.key], b, A[b][i]) /\ ws[b][A[b][i].id].key = m.key
             /\ \/ m.type = "set" /\ \E j \in DOMAIN W[k][b] : W[k][b][j].id = A[b][i].id
                \/ b = m.source /\ rep # NoAnswer /\ A[b][i].id = m.id
             /\ \A j \in DOMAIN A[b] : i # j => A[b][i].id # A[b][j].id
             /\ A[b][i].answer = IF m.type = "set" THEN IF ws[b][A[b][i].id].type = "get" THEN m.value ELSE "ok"
                                 ELSE rep
  <2>1. /\ A[b] \in Seq(DoneMsg)
        /\ \A j \in DOMAIN A[b] :
             \/ m.type = "set" /\ j \in DOMAIN W[k][b] /\ A[b][j] = Woken(W[k][b][j], m.value)
             \/ b = m.source /\ rep # NoAnswer /\ A[b][j] = Done(m, rep) /\ j = Len(A[b])
    BY Zenon, <1>9 DEF Shape
  <2>2. A[b][i] \in DoneMsg  BY Zenon, <2>1, Element
  <2>3. Queue(store, ws, k, b, W[k][b], p[b][Owner[k]], p[Owner[k]][b])  BY Zenon, <1>1 DEF Consistent
  <2>4. \A j \in DOMAIN A[b] :
          \/ m.type = "set" /\ j \in DOMAIN W[k][b] /\ A[b][j].id = W[k][b][j].id
          \/ b = m.source /\ j = Len(A[b]) /\ A[b][j].id = m.id
    <3> SUFFICES ASSUME NEW j \in DOMAIN A[b]
                 PROVE  \/ m.type = "set" /\ j \in DOMAIN W[k][b] /\ A[b][j].id = W[k][b][j].id
                        \/ b = m.source /\ j = Len(A[b]) /\ A[b][j].id = m.id
      BY Zenon
    <3>1. Woken(W[k][b][j], m.value).id = W[k][b][j].id /\ Done(m, rep).id = m.id  BY Zenon DEF Done, Woken
    <3> QED  BY <2>1, <3>1, Zenon
  <2>5. \A j \in DOMAIN A[b] : i # j => A[b][i].id # A[b][j].id
    <3> SUFFICES ASSUME NEW j \in DOMAIN A[b], i # j PROVE A[b][i].id # A[b][j].id  OBVIOUS
    <3>1. \A n, o \in DOMAIN W[k][b] : n # o => W[k][b][n].id # W[k][b][o].id  BY Zenon, <2>3 DEF Queue
    <3>2. CASE i \in DOMAIN W[k][b] /\ A[b][i].id = W[k][b][i].id
      <4>1. CASE j \in DOMAIN W[k][b] /\ A[b][j].id = W[k][b][j].id  BY <3>1, <3>2, <4>1
      <4>2. CASE b = m.source /\ A[b][j].id = m.id  BY Zenon, <1>1, <3>2, <4>2
      <4> QED  BY Zenon, <2>4, <4>1, <4>2
    <3>3. CASE b = m.source /\ i = Len(A[b]) /\ A[b][i].id = m.id
      <4>1. CASE j \in DOMAIN W[k][b] /\ A[b][j].id = W[k][b][j].id  BY ZenonT(60), <1>1, <3>3, <4>1
      <4> QED  BY Zenon, <2>4, <3>3, <4>1
    <3> QED  BY Zenon, <2>4, <3>2, <3>3
  <2>6. CASE /\ m.type = "set" /\ i \in DOMAIN W[k][b]
             /\ A[b][i] = Woken(W[k][b][i], m.value)
    <3> DEFINE x == W[k][b][i]
    <3>1. Pending(ws, b, x) /\ x.key = k  BY Zenon, <2>3, <2>6 DEF Queue
    <3>9. Asked(ws, b, x)  BY Zenon, <3>1, PendingFields
    <3>2. /\ x.source = b /\ x.id \in DOMAIN ws[b]
          /\ ws[b][x.id].key = k /\ ws[b][x.id].answer = NoAnswer /\ ws[b][x.id].type = x.type
      BY Zenon, <3>1, <3>9 DEF Asked
    <3>7. A[b][i] = Woken(x, m.value)  BY <2>6
    <3> HIDE DEF x
    <3>3. A[b][i].id = x.id /\ A[b][i].source = b
          /\ A[b][i].answer = IF x.type = "get" THEN m.value ELSE "ok"
      BY <3>2, <3>7 DEF Done, Woken
    <3>4. A[b][i].answer # NoAnswer  BY Zenon, <1>1, <2>6, <3>3, OpsAssumption
    <3>5. Due(store', ws, Owner[k], b, A[b][i])  BY ZenonT(60), <1>3, <2>2, <2>6, <3>2, <3>3, <3>4 DEF Due, Sound
    <3>6. \E j \in DOMAIN W[k][b] : W[k][b][j].id = A[b][i].id  BY Zenon, <2>6, <3>3 DEF x
    <3> QED  BY ZenonT(60), <2>5, <2>6, <3>2, <3>3, <3>5, <3>6
  <2>7. CASE b = m.source /\ rep # NoAnswer /\ A[b][i] = Done(m, rep)
    <3>1. A[b][i].id = m.id /\ A[b][i].source = b /\ A[b][i].answer = rep  BY <2>7 DEF Done
    <3>2. ws[b][m.id].key = k /\ ws[b][m.id].answer = NoAnswer /\ ws[b][m.id].type = m.type
      BY <1>1, <2>7
    <3>3. m.type \in Types  BY Zenon, <1>1 DEF AskMsg
    <3>4. Sound(store', ws[b][m.id], rep)
      <4>1. CASE m.type = "set"  BY Zenon, <1>3, <3>2, <4>1 DEF Sound
      <4>2. CASE m.type = "check"
        <5>1. rep = IF store[k] # NoValue THEN "true" ELSE "false"  BY Zenon, <1>1, <1>2, <4>2, ReplyFacts
        <5> QED  BY Zenon, <1>3, <3>2, <4>2, <5>1 DEF Sound
      <4>3. CASE m.type \in {"get", "wait"}
        <5>1. store[k] # NoValue  BY Zenon, <1>1, <1>2, <2>7, <4>3, ReplyFacts
        <5> QED  BY Zenon, <1>3, <3>2, <4>3, <5>1 DEF Sound
      <4> QED  BY Zenon, <3>3, <4>1, <4>2, <4>3 DEF Types
    <3>5. Due(store', ws, Owner[k], b, A[b][i])  BY ZenonT(60), <1>1, <2>2, <2>7, <3>1, <3>2, <3>4 DEF Due
    <3>6. m.type = "set" => rep = "ok"  BY Zenon, <1>1, <1>2, ReplyFacts
    <3> QED  BY ZenonT(60), <2>5, <2>7, <3>1, <3>2, <3>5, <3>6
  <2> QED  BY Zenon, <2>1, <2>6, <2>7
<1>5. A \in [Rank -> Seq(DoneMsg)]  BY Zenon, <1>9 DEF Shape
<1>6. m.type = "set" => \A b \in Rank : \A j \in DOMAIN W[k][b] :
                          \E i \in DOMAIN A[b] : A[b][i].id = W[k][b][j].id
  <2> SUFFICES ASSUME m.type = "set", NEW b \in Rank, NEW j \in DOMAIN W[k][b]
               PROVE  \E i \in DOMAIN A[b] : A[b][i].id = W[k][b][j].id
    BY Zenon
  <2>1. j \in DOMAIN A[b] /\ A[b][j] = Woken(W[k][b][j], m.value)  BY Zenon, <1>9 DEF Shape
  <2>2. A[b][j].id = W[k][b][j].id  BY <2>1 DEF Done, Woken
  <2> QED  BY Zenon, <2>1, <2>2
<1>7. rep # NoAnswer => \E i \in DOMAIN A[m.source] : A[m.source][i].id = m.id
  <2> SUFFICES ASSUME rep # NoAnswer PROVE \E i \in DOMAIN A[m.source] : A[m.source][i].id = m.id
    BY Zenon
  <2>1. PICK i \in DOMAIN A[m.source] : A[m.source][i] = Done(m, rep)  BY Zenon, <1>1, <1>9 DEF Shape
  <2> QED  BY <2>1 DEF Done
<1>8. rep = NoAnswer => m.type \in {"get", "wait"} /\ store[k] = NoValue  BY Zenon, <1>1, <1>2, ReplyFacts
<1>12. \A b \in Rank : \A i \in DOMAIN A[b] :
         /\ Due(store', ws, Owner[m.key], b, A[b][i]) /\ ws[b][A[b][i].id].key = m.key
         /\ \/ m.type = "set" /\ \E j \in DOMAIN W[k][b] : W[k][b][j].id = A[b][i].id
            \/ b = m.source /\ rep # NoAnswer /\ A[b][i].id = m.id
         /\ \A j \in DOMAIN A[b] : i # j => A[b][i].id # A[b][j].id
  BY <1>4
<1>10. Gives(store, store', storeWaiters, ws, m, rep, A)  BY ZenonT(60), <1>12, <1>5, <1>6, <1>7, <1>8 DEF Gives
<1>11. Says(ws, m, rep, A)  BY ZenonT(60), <1>4 DEF Says
<1> QED  BY Zenon, <1>10, <1>11

LEMMA KeptTable ==
  ASSUME NEW ws, NEW p, NEW m, Consistent(store, storeWaiters, ws, p, {m}), Store(m), Waiters(m)
  PROVE  Kept(store, store', storeWaiters, storeWaiters', m, Reply(m))
<1>1. m \in AskMsg /\ m.key \in Key /\ (m.type = "set" => m.value \in Value)
  BY Zenon DEF Consistent, InHand, Pending, AskMsg
<1>2. store \in Table /\ storeWaiters \in [Key -> [Rank -> Seq(AskMsg)]]  BY DEF Consistent, Typed
<1>3. /\ store' \in Table
      /\ \A k \in Key : store[k] # NoValue => store'[k] # NoValue
      /\ m.type = "set" \/ store' = store
      /\ \A k \in Key \ {m.key} : store'[k] = store[k]
  BY Zenon, <1>1, <1>2, OpsAssumption DEF Store, Table
<1> DEFINE new == [q \in Rank |->
             IF m.type = "set" THEN <<>>
             ELSE IF m.source = q /\ Reply(m) = NoAnswer THEN Append(storeWaiters[m.key][q], m)
             ELSE storeWaiters[m.key][q]]
<1>4. storeWaiters' = [storeWaiters EXCEPT ![m.key] = new]  BY Zenon, <1>1, <1>2 DEF Waiters
<1>5. new \in [Rank -> Seq(AskMsg)]
  <2>1. ASSUME NEW q \in Rank PROVE Append(storeWaiters[m.key][q], m) \in Seq(AskMsg)  BY <1>1, <1>2
  <2>2. ASSUME NEW q \in Rank PROVE storeWaiters[m.key][q] \in Seq(AskMsg)  BY <1>1, <1>2
  <2> QED  BY <2>1, <2>2
<1>6. \A b \in Rank : new[b] = IF m.type = "set" THEN <<>>
                               ELSE IF m.source = b /\ Reply(m) = NoAnswer THEN Append(storeWaiters[m.key][b], m)
                               ELSE storeWaiters[m.key][b]
  OBVIOUS
<1> HIDE DEF new
<1>7. storeWaiters' \in [Key -> [Rank -> Seq(AskMsg)]]  BY Zenon, <1>2, <1>4, <1>5
<1>8. storeWaiters'[m.key] = new /\ \A k \in Key \ {m.key} : storeWaiters'[k] = storeWaiters[k]
  BY <1>1, <1>2, <1>4
<1> QED  BY Zenon, <1>3, <1>6, <1>7, <1>8 DEF Kept

LEMMA OverRecord ==
  ASSUME NEW w \in WaitRec, NEW a
  PROVE  [w EXCEPT !.answer = a] = Over(w, a)
BY DEF WaitRec, Over

\* What messageDones ds do to the Waits x of a rank.
LEMMA CompletedFacts ==
  ASSUME NEW x \in Seq(WaitRec), NEW ds \in Seq(DoneMsg)
  PROVE  /\ Completed(x, ds) \in Seq(WaitRec)
         /\ DOMAIN Completed(x, ds) = DOMAIN x
         /\ \A id \in DOMAIN x :
              \/ /\ \A i \in DOMAIN ds : ds[i].id # id
                 /\ Completed(x, ds)[id] = x[id]
              \/ \E i \in DOMAIN ds :
                   /\ ds[i].id = id
                   /\ Completed(x, ds)[id] = Over(x[id], ds[i].answer)
<1> DEFINE d(id) == CHOOSE d \in Range(ds) : d.id = id
           y == Completed(x, ds)
<1>1. \A id \in DOMAIN x : x[id] \in WaitRec  BY Element
<1>2. ASSUME NEW id \in DOMAIN x, \E i \in DOMAIN ds : ds[i].id = id
      PROVE  \E i \in DOMAIN ds : ds[i].id = id /\ d(id) = ds[i]
  <2>1. \E e \in Range(ds) : e.id = id  BY <1>2 DEF Range
  <2>2. d(id) \in Range(ds) /\ d(id).id = id  BY <2>1
  <2> QED  BY Zenon, <2>2 DEF Range
<1> HIDE DEF d
<1>3. y = [id \in DOMAIN x |-> IF \E i \in DOMAIN ds : ds[i].id = id
                               THEN [x[id] EXCEPT !.answer = d(id).answer] ELSE x[id]]
  BY DEF Completed, Range, d
<1>4. ASSUME NEW id \in DOMAIN x
      PROVE  \/ /\ \A i \in DOMAIN ds : ds[i].id # id
                /\ y[id] = x[id]
             \/ \E i \in DOMAIN ds : ds[i].id = id /\ y[id] = Over(x[id], ds[i].answer)
  <2>1. CASE \A i \in DOMAIN ds : ds[i].id # id  BY <1>3, <2>1, Zenon
  <2>2. CASE \E i \in DOMAIN ds : ds[i].id = id
    <3>1. PICK i \in DOMAIN ds : ds[i].id = id /\ d(id) = ds[i]  BY <1>2, <2>2, Zenon
    <3>2. y[id] = [x[id] EXCEPT !.answer = d(id).answer]  BY <1>3, <2>2, Zenon
    <3>3. y[id] = Over(x[id], d(id).answer)  BY <1>1, <3>2, OverRecord, Zenon
    <3> QED  BY <3>1, <3>3, Zenon
  <2> QED  BY <2>1, <2>2, Zenon
<1>5. DOMAIN y = DOMAIN x /\ y = [id \in DOMAIN x |-> y[id]]  BY <1>3, Zenon
<1> HIDE DEF y
<1>6. \A id \in DOMAIN x : y[id] \in WaitRec
  <2> SUFFICES ASSUME NEW id \in DOMAIN x PROVE y[id] \in WaitRec  OBVIOUS
  <2>1. CASE y[id] = x[id]  BY Zenon, <1>1, <2>1
  <2>2. ASSUME NEW i \in DOMAIN ds, y[id] = Over(x[id], ds[i].answer)
        PROVE  y[id] \in WaitRec
    <3>1. ds[i] \in DoneMsg  BY Element
    <3>2. x[id] \in WaitRec  BY <1>1
    <3> QED  BY <2>2, <3>1, <3>2 DEF Over, WaitRec, DoneMsg
  <2> QED  BY Zenon, <1>4, <2>1, <2>2
<1>7. y \in Seq(WaitRec)
  <2>1. DOMAIN x = 1..Len(x) /\ Len(x) \in Nat  OBVIOUS
  <2>2. y \in [1..Len(x) -> WaitRec]  BY <1>5, <1>6, <2>1
  <2> QED  BY <2>1, <2>2
<1> QED  BY Zenon, <1>4, <1>5, <1>7 DEF y

LEMMA ToldAnswers ==
  ASSUME NEW ws, NEW p, NEW m, NEW r \in Rank, Consistent(store, storeWaiters, ws, p, {m}),
         ProcessRequest(r, m, ws, p), NEW A, A = [b \in Rank |-> Answers(m, b)]
  PROVE  Told(ws, waits', p, path', r, A)
<1>1. /\ ws \in [Rank -> Seq(WaitRec)] /\ p \in [Rank -> [Rank -> Seq(AskMsg \cup DoneMsg)]]
  BY Zenon DEF Consistent, Typed
<1>2. \A b \in Rank : A[b] = Answers(m, b) /\ A[b] \in Seq(DoneMsg)  BY Zenon, AnswersShape DEF Shape
<1>3. /\ waits' = [ws EXCEPT ![r] = Completed(ws[r], A[r])]
      /\ path' = [p EXCEPT ![r] = [q \in Rank |-> IF q = r THEN <<>> ELSE p[r][q] \o A[q]]]
  BY Zenon, <1>1, <1>2 DEF ProcessRequest
<1>4. /\ Completed(ws[r], A[r]) \in Seq(WaitRec)
      /\ DOMAIN Completed(ws[r], A[r]) = DOMAIN ws[r]
      /\ \A id \in DOMAIN ws[r] :
              \/ /\ \A i \in DOMAIN A[r] : A[r][i].id # id
                 /\ Completed(ws[r], A[r])[id] = ws[r][id]
              \/ \E i \in DOMAIN A[r] :
                   /\ A[r][i].id = id
                   /\ Completed(ws[r], A[r])[id] = Over(ws[r][id], A[r][i].answer)
  <2>1. ws[r] \in Seq(WaitRec) /\ A[r] \in Seq(DoneMsg)  BY <1>1, <1>2
  <2> QED  BY <2>1, CompletedFacts, ZenonT(60)
<1>5. /\ waits' \in [Rank -> Seq(WaitRec)] /\ waits'[r] = Completed(ws[r], A[r])
      /\ \A b \in Rank \ {r} : waits'[b] = ws[b]
  BY ZenonT(60), <1>1, <1>3, <1>4
<1> DEFINE new == [q \in Rank |-> IF q = r THEN <<>> ELSE p[r][q] \o A[q]]
<1>6. new \in [Rank -> Seq(AskMsg \cup DoneMsg)]
  <2>1. ASSUME NEW q \in Rank PROVE p[r][q] \o A[q] \in Seq(AskMsg \cup DoneMsg)
    <3>1. p[r][q] \in Seq(AskMsg \cup DoneMsg) /\ A[q] \in Seq(DoneMsg)  BY <1>1, <1>2
    <3>2. A[q] \in Seq(AskMsg \cup DoneMsg)  BY <3>1
    <3> QED  BY <3>1, <3>2
  <2> QED  BY <2>1
<1>7. new[r] = <<>> /\ \A b \in Rank \ {r} : new[b] = p[r][b] \o A[b]  BY Zenon
<1>8. path' = [p EXCEPT ![r] = new]  BY Zenon, <1>3
<1> HIDE DEF new
<1>9. path' \in [Rank -> [Rank -> Seq(AskMsg \cup DoneMsg)]] /\ path'[r] = new
      /\ \A a \in Rank \ {r} : path'[a] = p[a]
  <2> DEFINE Paths == [Rank -> Seq(AskMsg \cup DoneMsg)]
  <2> HIDE DEF Paths
  <2>1. p \in [Rank -> Paths] /\ new \in Paths  BY Zenon, <1>1, <1>6 DEF Paths
  <2>2. path' \in [Rank -> Paths] /\ path'[r] = new /\ \A a \in Rank \ {r} : path'[a] = p[a]
    BY Zenon, <1>8, <2>1
  <2> QED  BY Zenon, <2>2 DEF Paths
<1>10. \A id \in DOMAIN ws[r] :
       \/ /\ \A i \in DOMAIN A[r] : A[r][i].id # id
          /\ waits'[r][id] = ws[r][id]
       \/ \E i \in DOMAIN A[r] :
            /\ A[r][i].id = id
            /\ waits'[r][id] = Over(ws[r][id], A[r][i].answer)
  <2> SUFFICES ASSUME NEW id \in DOMAIN ws[r]
               PROVE  \/ /\ \A i \in DOMAIN A[r] : A[r][i].id # id
                         /\ waits'[r][id] = ws[r][id]
                      \/ \E i \in DOMAIN A[r] :
                           /\ A[r][i].id = id
                           /\ waits'[r][id] = Over(ws[r][id], A[r][i].answer)
    BY Zenon
  <2>1. waits'[r] = Completed(ws[r], A[r])  BY <1>5
  <2>2. \/ /\ \A i \in DOMAIN A[r] : A[r][i].id # id
           /\ Completed(ws[r], A[r])[id] = ws[r][id]
        \/ \E i \in DOMAIN A[r] :
             /\ A[r][i].id = id
             /\ Completed(ws[r], A[r])[id] = Over(ws[r][id], A[r][i].answer)
    BY <1>4
  <2> QED  BY ZenonT(60), <2>1, <2>2
<1>11. DOMAIN waits'[r] = DOMAIN ws[r]  BY <1>4, <1>5, Zenon
<1> QED  BY Zenon, <1>5, <1>7, <1>9, <1>10, <1>11 DEF Told

\* The values that are there stay, and so does what the Waits are for.
Holds(s, s2, ws, ws2) ==
  /\ \A k \in Key : s[k] # NoValue => s2[k] # NoValue
  /\ \A q \in Rank : \A id \in DOMAIN ws[q] :
       id \in DOMAIN ws2[q] /\ ws2[q][id].type = ws[q][id].type /\ ws2[q][id].key = ws[q][id].key

\* processMessage of a request, for those who hold it.
LEMMA ProcessInv ==
  ASSUME NEW ws, NEW p, NEW m, Consistent(store, storeWaiters, ws, p, {m}),
         ProcessRequest(Owner[m.key], m, ws, p)
  PROVE  /\ Consistent(store', storeWaiters', waits', path', {})
         /\ Holds(store, store', ws, waits')
<1> DEFINE A == [b \in Rank |-> Answers(m, b)]
           r == Owner[m.key]
<1>1. m.key \in Key /\ r \in Rank  BY Zenon, OpsAssumption DEF Consistent, InHand, Pending, AskMsg
<1>2. Gives(store, store', storeWaiters, ws, m, Reply(m), A)  BY Zenon, GivesAnswers DEF ProcessRequest
<1>3. Kept(store, store', storeWaiters, storeWaiters', m, Reply(m))  BY Zenon, KeptTable DEF ProcessRequest
<1>4. Told(ws, waits', p, path', r, A)  BY Zenon, <1>1, ToldAnswers
<1> HIDE DEF A
<1>5. Consistent(store', storeWaiters', waits', path', {})  BY Zenon, <1>2, <1>3, <1>4, Processed
<1>6. \A k \in Key : store[k] # NoValue => store'[k] # NoValue  BY Zenon, <1>3 DEF Kept
<1>7. ASSUME NEW q \in Rank, NEW id \in DOMAIN ws[q]
      PROVE  id \in DOMAIN waits'[q] /\ waits'[q][id].type = ws[q][id].type
                                     /\ waits'[q][id].key = ws[q][id].key
  <2>1. CASE q # r  BY Zenon, <1>4, <2>1 DEF Told
  <2>2. CASE q = r
    <3>1. id \in DOMAIN waits'[r]  BY Zenon, <1>4, <2>2 DEF Told
    <3>2. CASE waits'[r][id] = ws[r][id]  BY Zenon, <2>2, <3>1, <3>2
    <3>3. ASSUME NEW i \in DOMAIN A[r], waits'[r][id] = Over(ws[r][id], A[r][i].answer)
          PROVE  waits'[r][id].type = ws[r][id].type /\ waits'[r][id].key = ws[r][id].key
      BY <3>3 DEF Over
    <3> QED  BY ZenonT(60), <1>4, <2>2, <3>1, <3>2, <3>3 DEF Told
  <2> QED  BY Zenon, <2>1, <2>2
<1> QED  BY Zenon, <1>5, <1>6, <1>7 DEF Holds

----------------------------------------------------------------------------
(***************************************************************************)
(* Taking the first message off a path.                                    *)
(***************************************************************************)

\* The messages p2 are those of p without the first one from a to b.
Taken(p, p2, a, b) ==
  /\ p2 \in [Rank -> [Rank -> Seq(AskMsg \cup DoneMsg)]]
  /\ \A x, y \in Rank : ~(x = a /\ y = b) => p2[x][y] = p[x][y]
  /\ 1 \in DOMAIN p[a][b]
  /\ \A i \in DOMAIN p2[a][b] : i + 1 \in DOMAIN p[a][b] /\ p2[a][b][i] = p[a][b][i + 1]
  /\ \A i \in DOMAIN p[a][b] : i # 1 => i - 1 \in DOMAIN p2[a][b] /\ p2[a][b][i - 1] = p[a][b][i]
  /\ \A i \in DOMAIN p[a][b] : i \in Nat /\ i >= 1
  /\ \A i \in DOMAIN p2[a][b] : i \in Nat /\ i >= 1

LEMMA TailTaken ==
  ASSUME NEW p \in [Rank -> [Rank -> Seq(AskMsg \cup DoneMsg)]], NEW a \in Rank, NEW b \in Rank,
         p[a][b] # <<>>, NEW p2, p2 = [p EXCEPT ![a][b] = Tail(@)]
  PROVE  /\ Taken(p, p2, a, b)
         /\ Head(p[a][b]) = p[a][b][1]
<1> DEFINE M == AskMsg \cup DoneMsg
           x == p[a][b]
           z == p2[a][b]
<1>1. p \in [Rank -> [Rank -> Seq(M)]] /\ x \in Seq(M) /\ x # <<>>  BY Zenon
<1> HIDE DEF M
<1>2. z = Tail(x) /\ \A c, d \in Rank : ~(c = a /\ d = b) => p2[c][d] = p[c][d]  BY Zenon, <1>1
<1>3. p2 \in [Rank -> [Rank -> Seq(M)]]
  <2>1. Tail(x) \in Seq(M)  BY <1>1
  <2> QED  BY <1>1, <2>1
<1> HIDE DEF x, z
<1>4. /\ 1 \in DOMAIN x /\ Head(x) = x[1]
      /\ \A i \in DOMAIN z : i + 1 \in DOMAIN x /\ z[i] = x[i + 1]
      /\ \A i \in DOMAIN x : i # 1 => i - 1 \in DOMAIN z /\ z[i - 1] = x[i]
      /\ \A i \in DOMAIN x : i \in Nat /\ i >= 1
      /\ \A i \in DOMAIN z : i \in Nat /\ i >= 1
  BY <1>1, <1>2
<1> QED  BY ZenonT(60), <1>2, <1>3, <1>4 DEF Taken, x, z, M

\* Where the messages of p2 were, and where those of p are.
Found(p, p2, a, b, x, y) ==
  /\ \A i \in DOMAIN p2[x][y] : \E j \in DOMAIN p[x][y] :
       p2[x][y][i] = p[x][y][j] /\ ~(x = a /\ y = b /\ j = 1)
  /\ \A j \in DOMAIN p[x][y] :
       \/ x = a /\ y = b /\ j = 1
       \/ \E i \in DOMAIN p2[x][y] : p2[x][y][i] = p[x][y][j]

LEMMA TakenFrom ==
  ASSUME NEW p, NEW p2, NEW a \in Rank, NEW b \in Rank, Taken(p, p2, a, b),
         NEW x \in Rank, NEW y \in Rank
  PROVE  Found(p, p2, a, b, x, y)
<1>1. CASE x = a /\ y = b
  <2>1. ASSUME NEW i \in DOMAIN p2[a][b]
        PROVE  \E j \in DOMAIN p[a][b] : p2[a][b][i] = p[a][b][j] /\ j # 1
    <3>1. i + 1 \in DOMAIN p[a][b] /\ p2[a][b][i] = p[a][b][i + 1] /\ i \in Nat /\ i >= 1
      BY Zenon DEF Taken
    <3>2. i + 1 # 1  BY <3>1
    <3> QED  BY Zenon, <3>1, <3>2
  <2>2. ASSUME NEW j \in DOMAIN p[a][b], j # 1
        PROVE  \E i \in DOMAIN p2[a][b] : p2[a][b][i] = p[a][b][j]
    <3>1. j - 1 \in DOMAIN p2[a][b] /\ p2[a][b][j - 1] = p[a][b][j]  BY Zenon, <2>2 DEF Taken
    <3> QED  BY Zenon, <3>1
  <2> QED  BY Zenon, <1>1, <2>1, <2>2 DEF Found
<1>2. CASE ~(x = a /\ y = b)
  <2>1. p2[x][y] = p[x][y]  BY Zenon, <1>2 DEF Taken
  <2> QED  BY Zenon, <1>2, <2>1 DEF Found
<1> QED  BY Zenon, <1>1, <1>2

\* All the others are still on their way.
Left(p, p2, a, b) ==
  \A x, y \in Rank : \A j \in DOMAIN p[x][y] :
    ~(x = a /\ y = b /\ j = 1) => \E i \in DOMAIN p2[x][y] : p2[x][y][i] = p[x][y][j]

LEMMA TakenLeft ==
  ASSUME NEW p, NEW p2, NEW a \in Rank, NEW b \in Rank, Taken(p, p2, a, b)
  PROVE  Left(p, p2, a, b)
<1>1. \A x, y \in Rank : Found(p, p2, a, b, x, y)  BY Zenon, TakenFrom
<1> QED  BY ZenonT(60), <1>1 DEF Left, Found

LEMMA TakenLine ==
  ASSUME NEW s, NEW ws, NEW p, NEW p2, NEW a \in Rank, NEW b \in Rank, Taken(p, p2, a, b),
         NEW x \in Rank, NEW y \in Rank, Line(s, ws, x, y, p[x][y])
  PROVE  Line(s, ws, x, y, p2[x][y])
<1>1. CASE x = a /\ y = b
  <2> DEFINE u == p[a][b]
             z == p2[a][b]
  <2>1. /\ \A i \in DOMAIN z : i \in Nat /\ i + 1 \in DOMAIN u /\ z[i] = u[i + 1]
        /\ Line(s, ws, a, b, u)
    BY Zenon, <1>1 DEF Taken
  <2> HIDE DEF u, z
  <2>2. \A i, j \in DOMAIN z :
          i < j => /\ (z[i].type # "done" /\ z[j].type # "done") => z[i].id < z[j].id
                   /\ (z[i].type = "done" /\ z[j].type = "done") => z[i].id # z[j].id
    <3> SUFFICES ASSUME NEW i \in DOMAIN z, NEW j \in DOMAIN z, i < j
                 PROVE  /\ (z[i].type # "done" /\ z[j].type # "done") => z[i].id < z[j].id
                        /\ (z[i].type = "done" /\ z[j].type = "done") => z[i].id # z[j].id
      BY Zenon
    <3>1. i + 1 < j + 1 /\ i + 1 \in DOMAIN u /\ j + 1 \in DOMAIN u /\ z[i] = u[i + 1] /\ z[j] = u[j + 1]
      BY <2>1
    <3> QED  BY SMTT(30), <2>1, <3>1 DEF Line
  <2>3. \A i \in DOMAIN z :
          /\ z[i].type = "done" => Due(s, ws, a, b, z[i])
          /\ z[i].type # "done" => Pending(ws, a, z[i]) /\ Owner[z[i].key] = b
    BY SMTT(30), <2>1 DEF Line
  <2>4. Line(s, ws, a, b, z)  BY Zenon, <2>2, <2>3 DEF Line
  <2> QED  BY Zenon, <1>1, <2>4 DEF z
<1>2. CASE ~(x = a /\ y = b)
  <2>1. p2[x][y] = p[x][y]  BY Zenon, <1>2 DEF Taken
  <2> QED  BY Zenon, <2>1
<1> QED  BY Zenon, <1>1, <1>2

LEMMA TakenApart ==
  ASSUME NEW p, NEW p2, NEW a \in Rank, NEW b \in Rank, Taken(p, p2, a, b),
         NEW x \in Rank, NEW y \in Rank, Apart(p[x][y], p[y][x])
  PROVE  Apart(p2[x][y], p2[y][x])
<1> SUFFICES ASSUME NEW i \in DOMAIN p2[x][y], NEW j \in DOMAIN p2[y][x],
                    p2[x][y][i].type # "done", p2[y][x][j].type = "done"
             PROVE  p2[x][y][i].id # p2[y][x][j].id
  BY Zenon DEF Apart
<1>3. Found(p, p2, a, b, x, y) /\ Found(p, p2, a, b, y, x)  BY Zenon, TakenFrom
<1>1. PICK n \in DOMAIN p[x][y] : p2[x][y][i] = p[x][y][n]  BY Zenon, <1>3 DEF Found
<1>2. PICK o \in DOMAIN p[y][x] : p2[y][x][j] = p[y][x][o]  BY Zenon, <1>3 DEF Found
<1> QED  BY Zenon, <1>1, <1>2 DEF Apart

LEMMA TakenQueue ==
  ASSUME NEW s, NEW ws, NEW p, NEW p2, NEW a \in Rank, NEW b \in Rank, Taken(p, p2, a, b),
         NEW k, NEW q \in Rank, NEW o \in Rank, NEW x, Queue(s, ws, k, q, x, p[q][o], p[o][q])
  PROVE  Queue(s, ws, k, q, x, p2[q][o], p2[o][q])
<1>0. Found(p, p2, a, b, q, o) /\ Found(p, p2, a, b, o, q)  BY Zenon, TakenFrom
<1>1. \A i \in DOMAIN p2[q][o] : \E j \in DOMAIN p[q][o] : p2[q][o][i] = p[q][o][j]  BY Zenon, <1>0 DEF Found
<1>2. \A i \in DOMAIN p2[o][q] : \E j \in DOMAIN p[o][q] : p2[o][q][i] = p[o][q][j]  BY Zenon, <1>0 DEF Found
<1> QED  BY <1>1, <1>2 DEF Queue

\* A request that arrives is in hand at the owner of its key.
LEMMA TakeRequest ==
  ASSUME NEW s, NEW W, NEW ws, NEW p, Consistent(s, W, ws, p, {}),
         NEW a \in Rank, NEW b \in Rank, NEW p2, Taken(p, p2, a, b),
         NEW m, m = p[a][b][1], m.type # "done"
  PROVE  Consistent(s, W, ws, p2, {m}) /\ Owner[m.key] = b /\ m.source = a
<1>1. /\ Typed(s, W, ws, p) /\ Line(s, ws, a, b, p[a][b]) /\ Apart(p[a][b], p[b][a])
      /\ 1 \in DOMAIN p[a][b]
  BY Zenon DEF Consistent, Taken
<1>2. Pending(ws, a, m) /\ Owner[m.key] = b  BY Zenon, <1>1 DEF Line
<1>3. m.source = a /\ m.key \in Key /\ m.id \in Nat /\ a # b  BY <1>1, <1>2 DEF Pending, AskMsg, Typed
<1>4. Typed(s, W, ws, p2)
  <2>1. ASSUME NEW r \in Rank PROVE p2[r][r] = <<>>
    <3>1. p2[r][r] = p[r][r]  BY <1>3 DEF Taken
    <3> QED  BY Zenon, <1>1, <3>1 DEF Typed
  <2> QED  BY Zenon, <1>1, <2>1 DEF Typed, Taken
<1>5. \A x, y \in Rank : Line(s, ws, x, y, p2[x][y]) /\ Apart(p2[x][y], p2[y][x])
  BY Zenon, TakenLine, TakenApart DEF Consistent
<1>6. \A k \in Key, q \in Rank : Queue(s, ws, k, q, W[k][q], p2[q][Owner[k]], p2[Owner[k]][q])
  BY Zenon, TakenQueue, OpsAssumption DEF Consistent
<1>7. InHand(W, ws, p2, {m})
  <2>1. \A i \in DOMAIN p2[a][b] : p2[a][b][i].type # "done" => m.id < p2[a][b][i].id
    <3> SUFFICES ASSUME NEW i \in DOMAIN p2[a][b], p2[a][b][i].type # "done"
                 PROVE  m.id < p2[a][b][i].id
      BY Zenon
    <3>1. i + 1 \in DOMAIN p[a][b] /\ p2[a][b][i] = p[a][b][i + 1] /\ 1 < i + 1  BY DEF Taken
    <3> QED  BY Zenon, <1>1, <3>1 DEF Line
  <2>2. \A i \in DOMAIN p2[b][a] : p2[b][a][i].type = "done" => m.id # p2[b][a][i].id
    <3>1. p2[b][a] = p[b][a]  BY <1>3 DEF Taken
    <3> QED  BY Zenon, <1>1, <3>1 DEF Apart
  <2>3. \A i \in DOMAIN W[m.key][a] : W[m.key][a][i].id # m.id
    <3>1. Queue(s, ws, m.key, a, W[m.key][a], p[a][b], p[b][a])  BY Zenon, <1>2, <1>3 DEF Consistent
    <3> QED  BY ZenonT(60), <1>1, <3>1 DEF Queue
  <2> QED  BY ZenonT(60), <1>2, <1>3, <2>1, <2>2, <2>3 DEF InHand
<1>9. Left(p, p2, a, b)  BY TakenLeft
<1>8. ASSUME NEW q \in Rank, NEW id \in DOMAIN ws[q]
      PROVE  Somewhere(W, ws, p2, {m}, q, id)
  <2> DEFINE k == ws[q][id].key
             o == Owner[k]
  <2>1. k \in Key /\ o \in Rank  BY Zenon, <1>1, WaitTypes, OpsAssumption
  <2>2. Somewhere(W, ws, p, {}, q, id)  BY Zenon DEF Consistent
  <2>3. CASE \E i \in DOMAIN p[q][o] : p[q][o][i].type # "done" /\ p[q][o][i].id = id
    <3>1. PICK i \in DOMAIN p[q][o] : p[q][o][i].type # "done" /\ p[q][o][i].id = id  BY Zenon, <2>3
    <3>2. CASE q = a /\ o = b /\ i = 1  BY Zenon, <1>3, <3>1, <3>2 DEF Somewhere
    <3>3. CASE ~(q = a /\ o = b /\ i = 1)
      <4>1. PICK j \in DOMAIN p2[q][o] : p2[q][o][j] = p[q][o][i]  BY Zenon, <1>9, <2>1, <3>3 DEF Left
      <4> QED  BY Zenon, <3>1, <4>1 DEF Somewhere
    <3> QED  BY Zenon, <3>2, <3>3
  <2>4. CASE \E i \in DOMAIN p[o][q] : p[o][q][i].type = "done" /\ p[o][q][i].id = id
    <3>1. PICK i \in DOMAIN p[o][q] : p[o][q][i].type = "done" /\ p[o][q][i].id = id  BY Zenon, <2>4
    <3>2. CASE o = a /\ q = b /\ i = 1  BY Zenon, <3>1, <3>2
    <3>3. CASE ~(o = a /\ q = b /\ i = 1)
      <4>1. PICK j \in DOMAIN p2[o][q] : p2[o][q][j] = p[o][q][i]  BY ZenonT(60), <1>9, <2>1, <3>3 DEF Left
      <4> QED  BY Zenon, <3>1, <4>1 DEF Somewhere
    <3> QED  BY Zenon, <3>2, <3>3
  <2> QED  BY Zenon, <2>2, <2>3, <2>4 DEF Somewhere
<1> QED  BY ZenonT(60), <1>2, <1>3, <1>4, <1>5, <1>6, <1>7, <1>8 DEF Consistent

\* Wait m.id of rank b is over with the answer of m.
Ended(ws, ws2, b, m) ==
  /\ ws2 \in [Rank -> Seq(WaitRec)] /\ \A q \in Rank : DOMAIN ws2[q] = DOMAIN ws[q]
  /\ \A q \in Rank : \A id \in DOMAIN ws[q] :
       ws2[q][id] = IF q = b /\ id = m.id THEN Over(ws[q][id], m.answer) ELSE ws[q][id]

\* An answer that arrives ends its Wait.
LEMMA TakeDone ==
  ASSUME NEW s, NEW W, NEW ws, NEW p, Consistent(s, W, ws, p, {}),
         NEW a \in Rank, NEW b \in Rank, NEW p2, Taken(p, p2, a, b),
         NEW m, m = p[a][b][1], m.type = "done", NEW ws2, Ended(ws, ws2, b, m)
  PROVE  Consistent(s, W, ws2, p2, {}) /\ Due(s, ws, a, b, m)
<1>0. /\ ws2 \in [Rank -> Seq(WaitRec)] /\ \A q \in Rank : DOMAIN ws2[q] = DOMAIN ws[q]
      /\ \A q \in Rank : \A id \in DOMAIN ws[q] :
           ws2[q][id] = IF q = b /\ id = m.id THEN Over(ws[q][id], m.answer) ELSE ws[q][id]
  BY Zenon DEF Ended
<1>1. /\ Typed(s, W, ws, p) /\ Line(s, ws, a, b, p[a][b])
      /\ 1 \in DOMAIN p[a][b] /\ s \in Table
  BY Zenon DEF Consistent, Taken, Typed
<1>2. Due(s, ws, a, b, m)  BY Zenon, <1>1 DEF Line
<1>3. a # b  BY <1>1 DEF Typed
<1>4. Typed(s, W, ws2, p2)
  <2>1. ASSUME NEW r \in Rank PROVE p2[r][r] = <<>>
    <3>1. p2[r][r] = p[r][r]  BY <1>3 DEF Taken
    <3> QED  BY Zenon, <1>1, <3>1 DEF Typed
  <2> QED  BY Zenon, <1>0, <1>1, <2>1 DEF Typed, Taken
<1>5. m.id \in DOMAIN ws[b] /\ Owner[ws[b][m.id].key] = a  BY Zenon, <1>2 DEF Due
\* Nobody else is about this Wait.
<1>6. ASSUME NEW x \in Rank, NEW y \in Rank, NEW i \in DOMAIN p2[x][y]
      PROVE  /\ p2[x][y][i].type # "done" =>
                  Pending(ws2, x, p2[x][y][i]) /\ Owner[p2[x][y][i].key] = y
             /\ p2[x][y][i].type = "done" => Due(s, ws2, x, y, p2[x][y][i])
  <2> DEFINE u == p2[x][y][i]
  <2>0. Found(p, p2, a, b, x, y)  BY Zenon, TakenFrom
  <2>1. PICK j \in DOMAIN p[x][y] : u = p[x][y][j] /\ ~(x = a /\ y = b /\ j = 1)  BY Zenon, <2>0 DEF Found
  <2>2. Line(s, ws, x, y, p[x][y])  BY Zenon DEF Consistent
  <2>3. CASE u.type # "done"
    <3>1. Pending(ws, x, u) /\ Owner[u.key] = y  BY Zenon, <2>1, <2>2, <2>3 DEF Line
    <3>9. Asked(ws, x, u)  BY Zenon, <3>1, PendingFields
    <3>2. u.id \in DOMAIN ws[x] /\ ws[x][u.id].key = u.key  BY Zenon, <3>1, <3>9 DEF Asked
    <3>3. ~(x = b /\ u.id = m.id)
      <4> SUFFICES ASSUME x = b, u.id = m.id PROVE FALSE  BY Zenon
      <4>1. y = a  BY Zenon, <1>5, <3>1, <3>2
      <4>2. Apart(p[b][a], p[a][b])  BY Zenon DEF Consistent
      <4> QED  BY ZenonT(60), <1>1, <2>1, <2>3, <4>1, <4>2 DEF Apart
    <3>4. ws2[x][u.id] = ws[x][u.id] /\ u.id \in DOMAIN ws2[x]  BY ZenonT(60), <1>0, <3>2, <3>3
    <3> QED  BY ZenonT(60), <2>3, <3>1, <3>4, PendingStays
  <2>4. CASE u.type = "done"
    <3>1. Due(s, ws, x, y, u)  BY Zenon, <2>1, <2>2, <2>4 DEF Line
    <3>2. u.id \in DOMAIN ws[y] /\ Owner[ws[y][u.id].key] = x  BY Zenon, <3>1 DEF Due
    <3>3. ~(y = b /\ u.id = m.id)
      <4> SUFFICES ASSUME y = b, u.id = m.id PROVE FALSE  BY Zenon
      <4>1. x = a  BY Zenon, <1>5, <3>2
      <4>2. j # 1 /\ 1 < j  BY SMTT(30), <2>1, <4>1 DEF Taken
      <4> QED  BY ZenonT(60), <1>1, <2>1, <2>4, <4>1, <4>2 DEF Line
    <3>4. ws2[y][u.id] = ws[y][u.id] /\ u.id \in DOMAIN ws2[y]  BY ZenonT(60), <1>0, <3>2, <3>3
    <3>5. ws[y][u.id].key \in Key  BY Zenon, <1>1, <3>2, WaitTypes
    <3> QED  BY Zenon, <2>4, <3>1, <3>4, <3>5, DueStays
  <2> QED  BY Zenon, <2>3, <2>4
<1>7. ASSUME NEW x \in Rank, NEW y \in Rank
      PROVE  Line(s, ws2, x, y, p2[x][y])
  <2>1. Line(s, ws, x, y, p2[x][y])  BY Zenon, TakenLine DEF Consistent
  <2> QED  BY Zenon, <1>6, <2>1 DEF Line
<1>8. \A x, y \in Rank : Apart(p2[x][y], p2[y][x])  BY Zenon, TakenApart DEF Consistent
<1>9. ASSUME NEW k \in Key, NEW q \in Rank
      PROVE  Queue(s, ws2, k, q, W[k][q], p2[q][Owner[k]], p2[Owner[k]][q])
  <2> DEFINE o == Owner[k]
  <2>1. Queue(s, ws, k, q, W[k][q], p[q][o], p[o][q]) /\ o \in Rank  BY Zenon, OpsAssumption DEF Consistent
  <2>2. Queue(s, ws, k, q, W[k][q], p2[q][o], p2[o][q])  BY Zenon, <2>1, TakenQueue
  <2>3. ASSUME NEW i \in DOMAIN W[k][q]
        PROVE  Pending(ws2, q, W[k][q][i])
    <3> DEFINE u == W[k][q][i]
    <3>1. Pending(ws, q, u) /\ u.key = k  BY Zenon, <2>1 DEF Queue
    <3>9. Asked(ws, q, u)  BY Zenon, <3>1, PendingFields
    <3>2. u.id \in DOMAIN ws[q] /\ ws[q][u.id].key = k  BY Zenon, <3>1, <3>9 DEF Asked
    <3>3. ~(q = b /\ u.id = m.id)
      <4> SUFFICES ASSUME q = b, u.id = m.id PROVE FALSE  BY Zenon
      <4>1. o = a  BY Zenon, <1>5, <3>2
      <4> QED  BY ZenonT(60), <1>1, <2>1, <4>1 DEF Queue
    <3>4. ws2[q][u.id] = ws[q][u.id] /\ u.id \in DOMAIN ws2[q]  BY Zenon, <1>0, <3>2, <3>3
    <3> QED  BY Zenon, <3>1, <3>4, PendingStays
  <2> QED  BY ZenonT(60), <2>2, <2>3 DEF Queue
<1>91. Left(p, p2, a, b)  BY Zenon, TakenLeft
<1>10. ASSUME NEW q \in Rank, NEW id \in DOMAIN ws2[q]
       PROVE  Sound(s, ws2[q][id], ws2[q][id].answer) /\ Somewhere(W, ws2, p2, {}, q, id)
  <2> DEFINE k == ws[q][id].key
             o == Owner[k]
  <2>1. id \in DOMAIN ws[q] /\ k \in Key /\ o \in Rank  BY Zenon, <1>0, <1>1, WaitTypes, OpsAssumption
  <2>2. CASE q = b /\ id = m.id
    <3>1. ws2[q][id] = Over(ws[q][id], m.answer)  BY Zenon, <1>0, <2>1, <2>2
    <3>2. m.answer # NoAnswer /\ Sound(s, ws[q][id], m.answer)  BY Zenon, <1>2, <2>2 DEF Due
    <3>3. /\ ws2[q][id].answer = m.answer /\ ws2[q][id].type = ws[q][id].type
          /\ ws2[q][id].key = ws[q][id].key
      BY <3>1 DEF Over
    <3> QED  BY Zenon, <3>2, <3>3 DEF Sound, Somewhere
  <2>3. CASE ~(q = b /\ id = m.id)
    <3>1. ws2[q][id] = ws[q][id]  BY Zenon, <1>0, <2>1, <2>3
    <3>2. Sound(s, ws[q][id], ws[q][id].answer) /\ Somewhere(W, ws, p, {}, q, id)
      BY Zenon, <2>1 DEF Consistent
    <3>3. CASE \E i \in DOMAIN p[q][o] : p[q][o][i].type # "done" /\ p[q][o][i].id = id
      <4>1. PICK i \in DOMAIN p[q][o] : p[q][o][i].type # "done" /\ p[q][o][i].id = id  BY Zenon, <3>3
      <4>2. ~(q = a /\ o = b /\ i = 1)  BY Zenon, <4>1
      <4>3. PICK j \in DOMAIN p2[q][o] : p2[q][o][j] = p[q][o][i]  BY Zenon, <1>91, <2>1, <4>2 DEF Left
      <4>4. ws2[q][id].key = k  BY Zenon, <3>1
      <4>6. p2[q][o][j].type # "done" /\ p2[q][o][j].id = id  BY Zenon, <4>1, <4>3
      <4> HIDE DEF k, o
      <4>7. \E n \in DOMAIN p2[q][o] : p2[q][o][n].type # "done" /\ p2[q][o][n].id = id
        BY Zenon, <4>3, <4>6
      <4> USE DEF k, o
      <4>5. Somewhere(W, ws2, p2, {}, q, id)  BY Zenon, <4>7, <4>4 DEF Somewhere
      <4> QED  BY Zenon, <3>1, <3>2, <4>5
    <3>4. CASE \E i \in DOMAIN p[o][q] : p[o][q][i].type = "done" /\ p[o][q][i].id = id
      <4>1. PICK i \in DOMAIN p[o][q] : p[o][q][i].type = "done" /\ p[o][q][i].id = id  BY Zenon, <3>4
      <4>2. ~(o = a /\ q = b /\ i = 1)  BY Zenon, <2>3, <4>1
      <4>3. PICK j \in DOMAIN p2[o][q] : p2[o][q][j] = p[o][q][i]  BY ZenonT(60), <1>91, <2>1, <4>2 DEF Left
      <4>4. ws2[q][id].key = k  BY Zenon, <3>1
      <4>6. p2[o][q][j].type = "done" /\ p2[o][q][j].id = id  BY Zenon, <4>1, <4>3
      <4> HIDE DEF k, o
      <4>7. \E n \in DOMAIN p2[o][q] : p2[o][q][n].type = "done" /\ p2[o][q][n].id = id
        BY Zenon, <4>3, <4>6
      <4> USE DEF k, o
      <4>5. Somewhere(W, ws2, p2, {}, q, id)  BY Zenon, <4>7, <4>4 DEF Somewhere
      <4> QED  BY Zenon, <3>1, <3>2, <4>5
    <3> QED  BY ZenonT(60), <3>1, <3>2, <3>3, <3>4 DEF Somewhere
  <2> QED  BY Zenon, <2>2, <2>3
<1> QED  BY Zenon, <1>2, <1>4, <1>7, <1>8, <1>9, <1>10 DEF Consistent, InHand

----------------------------------------------------------------------------
(***************************************************************************)
(* A new Wait.                                                             *)
(***************************************************************************)

\* n is a new Wait w of rank a.
Grown(ws, ws2, a, n, w) ==
  /\ ws2 \in [Rank -> Seq(WaitRec)]
  /\ n \in DOMAIN ws2[a] /\ ws2[a][n] = w /\ n \in Nat
  /\ \A q \in Rank : \A id \in DOMAIN ws[q] :
       id \in DOMAIN ws2[q] /\ ws2[q][id] = ws[q][id] /\ id \in Nat /\ (q = a => id < n)
  /\ \A q \in Rank : \A id \in DOMAIN ws2[q] : id \in DOMAIN ws[q] \/ (q = a /\ id = n)

LEMMA AppendGrown ==
  ASSUME NEW ws \in [Rank -> Seq(WaitRec)], NEW a \in Rank, NEW w \in WaitRec,
         NEW ws2, ws2 = [ws EXCEPT ![a] = Append(@, w)]
  PROVE  Grown(ws, ws2, a, Len(ws[a]) + 1, w)
<1> DEFINE x == ws[a]
           y == ws2[a]
<1>1. x \in Seq(WaitRec) /\ y = Append(x, w)  OBVIOUS
<1>2. \A q \in Rank : q # a => ws2[q] = ws[q]  OBVIOUS
<1>3. y \in Seq(WaitRec)  BY <1>1
<1>4. ws2 \in [Rank -> Seq(WaitRec)]  BY Zenon, <1>3
<1>5. \A q \in Rank : \A id \in DOMAIN ws[q] : id \in Nat  OBVIOUS
<1> HIDE DEF x, y
<1>6. /\ Len(x) + 1 \in DOMAIN y /\ y[Len(x) + 1] = w /\ Len(x) + 1 \in Nat
      /\ \A id \in DOMAIN x : id \in DOMAIN y /\ y[id] = x[id] /\ id < Len(x) + 1
      /\ \A id \in DOMAIN y : id \in DOMAIN x \/ id = Len(x) + 1
  BY <1>1
<1> QED  BY <1>2, <1>4, <1>5, <1>6 DEF Grown, x, y

\* All is consistent but for the new Wait n of rank a, which nobody knows of.
Upto(s, W, ws, p, a, n) ==
  /\ Typed(s, W, ws, p)
  /\ \A q \in Rank : \A id \in DOMAIN ws[q] :
       ~(q = a /\ id = n) => Sound(s, ws[q][id], ws[q][id].answer) /\ Somewhere(W, ws, p, {}, q, id)
  /\ \A x, y \in Rank : Line(s, ws, x, y, p[x][y]) /\ Apart(p[x][y], p[y][x])
  /\ \A k \in Key, q \in Rank : Queue(s, ws, k, q, W[k][q], p[q][Owner[k]], p[Owner[k]][q])
  /\ \A y \in Rank : \A i \in DOMAIN p[a][y] : p[a][y][i].type # "done" => p[a][y][i].id < n
  /\ \A y \in Rank : \A i \in DOMAIN p[y][a] : p[y][a][i].type = "done" => p[y][a][i].id # n
  /\ \A k \in Key : \A i \in DOMAIN W[k][a] : W[k][a][i].id # n

LEMMA GrownUpto ==
  ASSUME NEW s, NEW W, NEW ws, NEW p, Consistent(s, W, ws, p, {}),
         NEW a \in Rank, NEW n, NEW w, NEW ws2, Grown(ws, ws2, a, n, w)
  PROVE  Upto(s, W, ws2, p, a, n)
<1>1. Typed(s, W, ws, p) /\ Typed(s, W, ws2, p)  BY Zenon DEF Consistent, Typed, Grown
<1>2. ASSUME NEW q \in Rank, NEW m, Pending(ws, q, m)
      PROVE  Pending(ws2, q, m) /\ (q = a => m.id < n)
  BY Zenon, <1>2 DEF Pending, Grown
<1>3. ASSUME NEW o \in Rank, NEW q \in Rank, NEW m, Due(s, ws, o, q, m)
      PROVE  Due(s, ws2, o, q, m) /\ (q = a => m.id < n)
  <2>1. m.id \in DOMAIN ws[q]  BY Zenon, <1>3 DEF Due
  <2>2. m.id \in DOMAIN ws2[q] /\ ws2[q][m.id] = ws[q][m.id] /\ (q = a => m.id < n)
    BY Zenon, <2>1 DEF Grown
  <2> QED  BY Zenon, <1>3, <2>2 DEF Due
<1>4. n \in Nat  BY Zenon DEF Grown
<1>5. ASSUME NEW x \in Rank, NEW y \in Rank
      PROVE  /\ Line(s, ws2, x, y, p[x][y]) /\ Apart(p[x][y], p[y][x])
             /\ \A i \in DOMAIN p[x][y] :
                  /\ (x = a /\ p[x][y][i].type # "done") => p[x][y][i].id < n
                  /\ (y = a /\ p[x][y][i].type = "done") => p[x][y][i].id < n
  <2>1. Line(s, ws, x, y, p[x][y]) /\ Apart(p[x][y], p[y][x])  BY Zenon DEF Consistent
  <2>2. ASSUME NEW i \in DOMAIN p[x][y]
        PROVE  /\ p[x][y][i].type = "done" =>
                    Due(s, ws2, x, y, p[x][y][i]) /\ (y = a => p[x][y][i].id < n)
               /\ p[x][y][i].type # "done" =>
                    /\ Pending(ws2, x, p[x][y][i]) /\ Owner[p[x][y][i].key] = y
                    /\ x = a => p[x][y][i].id < n
    BY Zenon, <1>2, <1>3, <2>1 DEF Line
  <2>3. Line(s, ws2, x, y, p[x][y])  BY Zenon, <2>1, <2>2 DEF Line
  <2> QED  BY Zenon, <2>1, <2>2, <2>3
<1>6. ASSUME NEW k \in Key, NEW q \in Rank
      PROVE  /\ Queue(s, ws2, k, q, W[k][q], p[q][Owner[k]], p[Owner[k]][q])
             /\ q = a => \A i \in DOMAIN W[k][q] : W[k][q][i].id < n
  <2>1. Queue(s, ws, k, q, W[k][q], p[q][Owner[k]], p[Owner[k]][q])  BY Zenon DEF Consistent
  <2>2. \A i \in DOMAIN W[k][q] : Pending(ws2, q, W[k][q][i]) /\ (q = a => W[k][q][i].id < n)
    BY Zenon, <1>2, <2>1 DEF Queue
  <2>3. Queue(s, ws2, k, q, W[k][q], p[q][Owner[k]], p[Owner[k]][q])  BY Zenon, <2>1, <2>2 DEF Queue
  <2> QED  BY Zenon, <2>2, <2>3
<1>7. ASSUME NEW q \in Rank, NEW id \in DOMAIN ws2[q], ~(q = a /\ id = n)
      PROVE  Sound(s, ws2[q][id], ws2[q][id].answer) /\ Somewhere(W, ws2, p, {}, q, id)
  <2>1. id \in DOMAIN ws[q] /\ ws2[q][id] = ws[q][id]  BY Zenon, <1>7 DEF Grown
  <2>2. Sound(s, ws[q][id], ws[q][id].answer) /\ Somewhere(W, ws, p, {}, q, id)
    BY Zenon, <2>1 DEF Consistent
  <2> QED  BY Zenon, <2>1, <2>2 DEF Somewhere
<1>8. \A y \in Rank : \A i \in DOMAIN p[y][a] : p[y][a][i].type = "done" => p[y][a][i].id # n
  <2> SUFFICES ASSUME NEW y \in Rank, NEW i \in DOMAIN p[y][a], p[y][a][i].type = "done",
                      p[y][a][i].id = n
               PROVE  FALSE
    BY Zenon
  <2>1. p[y][a][i].id < n  BY Zenon, <1>5
  <2> QED  BY SMTT(30), <1>4, <2>1
<1>9. \A k \in Key : \A i \in DOMAIN W[k][a] : W[k][a][i].id # n
  <2> SUFFICES ASSUME NEW k \in Key, NEW i \in DOMAIN W[k][a], W[k][a][i].id = n
               PROVE  FALSE
    BY Zenon
  <2>1. W[k][a][i].id < n  BY Zenon, <1>6
  <2> QED  BY <1>4, <2>1
<1> QED  BY ZenonT(60), <1>1, <1>5, <1>6, <1>7, <1>8, <1>9 DEF Upto

\* Its request is in hand, if the key is here.
LEMMA NewLocal ==
  ASSUME NEW s, NEW W, NEW ws, NEW p, NEW m, NEW a \in Rank, Upto(s, W, ws, p, a, m.id),
         Pending(ws, a, m), Owner[m.key] = a
  PROVE  Consistent(s, W, ws, p, {m})
<1>1. Typed(s, W, ws, p) /\ p[a][a] = <<>>  BY Zenon DEF Upto, Typed
<1>2. m.source = a /\ m.key \in Key /\ m.id \in DOMAIN ws[a] /\ ws[a][m.id].answer = NoAnswer
  BY SMTT(30) DEF Pending, AskMsg
<1>3. InHand(W, ws, p, {m})
  <2>1. \A i \in DOMAIN W[m.key][a] : W[m.key][a][i].id # m.id  BY Zenon, <1>2 DEF Upto
  <2>2. DOMAIN p[a][a] = {}  BY SMTT(30), <1>1
  <2> QED  BY Zenon, <1>2, <2>1, <2>2 DEF InHand
<1>4. ASSUME NEW q \in Rank, NEW id \in DOMAIN ws[q]
      PROVE  Sound(s, ws[q][id], ws[q][id].answer) /\ Somewhere(W, ws, p, {m}, q, id)
  <2>1. CASE q = a /\ id = m.id
    <3>1. Sound(s, ws[q][id], ws[q][id].answer)  BY Zenon, <1>2, <2>1 DEF Sound
    <3>2. Somewhere(W, ws, p, {m}, q, id)  BY Zenon, <1>2, <2>1 DEF Somewhere
    <3> QED  BY Zenon, <3>1, <3>2
  <2>2. CASE ~(q = a /\ id = m.id)
    <3>1. Sound(s, ws[q][id], ws[q][id].answer) /\ Somewhere(W, ws, p, {}, q, id)  BY Zenon, <2>2 DEF Upto
    <3>2. Somewhere(W, ws, p, {m}, q, id)  BY Zenon, <3>1 DEF Somewhere
    <3> QED  BY Zenon, <3>1, <3>2
  <2> QED  BY Zenon, <2>1, <2>2
<1> QED  BY Zenon, <1>1, <1>3, <1>4 DEF Upto, Consistent

\* The messages p2 are those of p, and m, the last from a to o.
Sent(p, p2, a, o, m, l) ==
  /\ p2 \in [Rank -> [Rank -> Seq(AskMsg \cup DoneMsg)]]
  /\ \A x, y \in Rank : ~(x = a /\ y = o) => p2[x][y] = p[x][y]
  /\ l \in DOMAIN p2[a][o] /\ p2[a][o][l] = m /\ l \in Nat
  /\ \A i \in DOMAIN p[a][o] : i \in DOMAIN p2[a][o] /\ p2[a][o][i] = p[a][o][i]
  /\ \A i \in DOMAIN p2[a][o] :
       \/ i \in DOMAIN p[a][o] /\ p2[a][o][i] = p[a][o][i] /\ i \in Nat /\ i < l
       \/ i = l

LEMMA AppendSent ==
  ASSUME NEW p \in [Rank -> [Rank -> Seq(AskMsg \cup DoneMsg)]], NEW a \in Rank, NEW o \in Rank,
         NEW m \in AskMsg, NEW p2, p2 = [p EXCEPT ![a][o] = Append(@, m)]
  PROVE  Sent(p, p2, a, o, m, Len(p[a][o]) + 1)
<1> DEFINE M == AskMsg \cup DoneMsg
           x == p[a][o]
           z == p2[a][o]
<1>1. p \in [Rank -> [Rank -> Seq(M)]] /\ x \in Seq(M) /\ m \in M  BY Zenon
<1> HIDE DEF M
<1>2. z = Append(x, m) /\ \A c, d \in Rank : ~(c = a /\ d = o) => p2[c][d] = p[c][d]  BY Zenon, <1>1
<1>3. p2 \in [Rank -> [Rank -> Seq(M)]]
  <2>1. Append(x, m) \in Seq(M)  BY <1>1
  <2> QED  BY Zenon, <1>1, <2>1
<1> HIDE DEF x, z
<1>4. /\ Len(x) + 1 \in DOMAIN z /\ z[Len(x) + 1] = m /\ Len(x) + 1 \in Nat
      /\ \A i \in DOMAIN x : i \in DOMAIN z /\ z[i] = x[i]
      /\ \A i \in DOMAIN z :
           \/ i \in DOMAIN x /\ z[i] = x[i] /\ i \in Nat /\ i < Len(x) + 1
           \/ i = Len(x) + 1
  BY <1>1, <1>2
<1> QED  BY Zenon, <1>2, <1>3, <1>4 DEF Sent, x, z, M

\* Otherwise it is on its way, after all the others to the same rank.
LEMMA NewRemote ==
  ASSUME NEW s, NEW W, NEW ws, NEW p, NEW m, NEW a \in Rank, Upto(s, W, ws, p, a, m.id),
         Pending(ws, a, m), NEW o, o = Owner[m.key], o # a, NEW p2, NEW l, Sent(p, p2, a, o, m, l)
  PROVE  Consistent(s, W, ws, p2, {})
<1>1. Typed(s, W, ws, p)  BY Zenon DEF Upto
<1>2. /\ m.source = a /\ m.key \in Key /\ m.id \in DOMAIN ws[a] /\ ws[a][m.id].answer = NoAnswer
      /\ o \in Rank /\ m.type # "done" /\ m.id \in Nat /\ ws[a][m.id].key = m.key
  BY SMTT(30), OpsAssumption DEF Pending, AskMsg, Types
<1>3. Typed(s, W, ws, p2)
  <2>1. ASSUME NEW r \in Rank PROVE p2[r][r] = <<>>
    <3>1. p2[r][r] = p[r][r]  BY SMTT(30), <1>2 DEF Sent
    <3> QED  BY Zenon, <1>1, <3>1 DEF Typed
  <2> QED  BY Zenon, <1>1, <2>1 DEF Typed, Sent
\* What is on its way now.
<1>4. ASSUME NEW x \in Rank, NEW y \in Rank, NEW i \in DOMAIN p2[x][y]
      PROVE  \/ i \in DOMAIN p[x][y] /\ p2[x][y][i] = p[x][y][i]
             \/ x = a /\ y = o /\ i = l /\ p2[x][y][i] = m
  <2>1. CASE x = a /\ y = o  BY Zenon, <2>1 DEF Sent
  <2>2. CASE ~(x = a /\ y = o)  BY ZenonT(60), <2>2 DEF Sent
  <2> QED  BY Zenon, <2>1, <2>2
<1>5. ASSUME NEW x \in Rank, NEW y \in Rank, NEW i \in DOMAIN p[x][y]
      PROVE  i \in DOMAIN p2[x][y] /\ p2[x][y][i] = p[x][y][i]
  <2>1. CASE x = a /\ y = o  BY Zenon, <2>1 DEF Sent
  <2>2. CASE ~(x = a /\ y = o)  BY ZenonT(60), <2>2 DEF Sent
  <2> QED  BY Zenon, <2>1, <2>2
<1>6. ASSUME NEW x \in Rank, NEW y \in Rank
      PROVE  Line(s, ws, x, y, p2[x][y])
  <2>1. Line(s, ws, x, y, p[x][y])  BY Zenon DEF Upto
  <2>2. CASE ~(x = a /\ y = o)
    <3>1. p2[x][y] = p[x][y]  BY ZenonT(30), <2>2 DEF Sent
    <3> QED  BY ZenonT(60), <2>1, <3>1
  <2>3. CASE x = a /\ y = o
    <3> DEFINE u == p[a][o]
               v == p2[a][o]
    <3>1. /\ Line(s, ws, a, o, u)
          /\ \A i \in DOMAIN u : u[i].type # "done" => u[i].id < m.id
          /\ \A i \in DOMAIN v : \/ i \in DOMAIN u /\ v[i] = u[i] /\ i \in Nat /\ i < l
                                \/ i = l
          /\ v[l] = m /\ l \in Nat
      BY ZenonT(60), <1>2, <2>1, <2>3 DEF Upto, Sent
    <3> HIDE DEF u, v
    <3>2. ASSUME NEW i \in DOMAIN v
          PROVE  /\ v[i].type = "done" => Due(s, ws, a, o, v[i])
                 /\ v[i].type # "done" => Pending(ws, a, v[i]) /\ Owner[v[i].key] = o
      BY ZenonT(60), <1>2, <3>1 DEF Line
    <3>3. ASSUME NEW i \in DOMAIN v, NEW j \in DOMAIN v, i < j
          PROVE  /\ (v[i].type # "done" /\ v[j].type # "done") => v[i].id < v[j].id
                 /\ (v[i].type = "done" /\ v[j].type = "done") => v[i].id # v[j].id
      <4>1. i \in DOMAIN u /\ v[i] = u[i]  BY SMTT(30), <3>1, <3>3
      <4>2. CASE j = l  BY ZenonT(60), <1>2, <3>1, <4>1, <4>2
      <4>3. CASE j \in DOMAIN u /\ v[j] = u[j]  BY ZenonT(60), <3>1, <3>3, <4>1, <4>3 DEF Line
      <4> QED  BY Zenon, <3>1, <4>2, <4>3
    <3>4. Line(s, ws, a, o, v)  BY Zenon, <3>2, <3>3 DEF Line
    <3> QED  BY Zenon, <2>3, <3>4 DEF v
  <2> QED  BY Zenon, <2>2, <2>3
<1>7. ASSUME NEW x \in Rank, NEW y \in Rank
      PROVE  Apart(p2[x][y], p2[y][x])
  <2> SUFFICES ASSUME NEW i \in DOMAIN p2[x][y], NEW j \in DOMAIN p2[y][x],
                      p2[x][y][i].type # "done", p2[y][x][j].type = "done"
               PROVE  p2[x][y][i].id # p2[y][x][j].id
    BY Zenon DEF Apart
  <2>1. j \in DOMAIN p[y][x] /\ p2[y][x][j] = p[y][x][j]  BY SMTT(30), <1>2, <1>4
  <2>2. CASE i \in DOMAIN p[x][y] /\ p2[x][y][i] = p[x][y][i]
    <3>1. Apart(p[x][y], p[y][x])  BY Zenon DEF Upto
    <3> QED  BY Zenon, <2>1, <2>2, <3>1 DEF Apart
  <2>3. CASE x = a /\ p2[x][y][i] = m  BY Zenon, <2>1, <2>3 DEF Upto
  <2> QED  BY SMTT(30), <1>4, <2>2, <2>3
<1>8. ASSUME NEW k \in Key, NEW q \in Rank
      PROVE  Queue(s, ws, k, q, W[k][q], p2[q][Owner[k]], p2[Owner[k]][q])
  <2> DEFINE b == Owner[k]
  <2>1. Queue(s, ws, k, q, W[k][q], p[q][b], p[b][q]) /\ b \in Rank  BY Zenon, OpsAssumption DEF Upto
  <2> HIDE DEF b
  <2>2. ASSUME NEW i \in DOMAIN W[k][q], NEW j \in DOMAIN p2[q][b], p2[q][b][j].type # "done"
        PROVE  W[k][q][i].id # p2[q][b][j].id
    <3>1. CASE j \in DOMAIN p[q][b] /\ p2[q][b][j] = p[q][b][j]  BY ZenonT(60), <2>1, <2>2, <3>1 DEF Queue
    <3>2. CASE q = a /\ p2[q][b][j] = m  BY Zenon, <3>2 DEF Upto
    <3> QED  BY ZenonT(60), <1>4, <2>1, <3>1, <3>2
  <2>3. ASSUME NEW i \in DOMAIN W[k][q], NEW j \in DOMAIN p2[b][q], p2[b][q][j].type = "done"
        PROVE  W[k][q][i].id # p2[b][q][j].id
    <3>1. j \in DOMAIN p[b][q] /\ p2[b][q][j] = p[b][q][j]  BY SMTT(30), <1>2, <1>4, <2>1, <2>3
    <3> QED  BY ZenonT(60), <2>1, <2>3, <3>1 DEF Queue
  <2>4. Queue(s, ws, k, q, W[k][q], p2[q][b], p2[b][q])  BY Zenon, <2>1, <2>2, <2>3 DEF Queue
  <2> QED  BY Zenon, <2>4 DEF b
<1>9. ASSUME NEW q \in Rank, NEW id \in DOMAIN ws[q]
      PROVE  Sound(s, ws[q][id], ws[q][id].answer) /\ Somewhere(W, ws, p2, {}, q, id)
  <2>1. CASE q = a /\ id = m.id
    <3>1. Sound(s, ws[q][id], ws[q][id].answer)  BY Zenon, <1>2, <2>1 DEF Sound
    <3>2. \E i \in DOMAIN p2[a][o] : p2[a][o][i].type # "done" /\ p2[a][o][i].id = m.id
      <4>1. l \in DOMAIN p2[a][o] /\ p2[a][o][l] = m  BY Zenon DEF Sent
      <4> QED  BY Zenon, <1>2, <4>1
    <3>3. Owner[ws[a][m.id].key] = o  BY Zenon, <1>2
    <3>4. Somewhere(W, ws, p2, {}, a, m.id)  BY Zenon, <3>2, <3>3 DEF Somewhere
    <3> QED  BY Zenon, <2>1, <3>1, <3>4
  <2>2. CASE ~(q = a /\ id = m.id)
    <3> DEFINE k == ws[q][id].key
               b == Owner[k]
    <3>1. Sound(s, ws[q][id], ws[q][id].answer) /\ Somewhere(W, ws, p, {}, q, id)  BY Zenon, <2>2 DEF Upto
    <3>2. b \in Rank  BY Zenon, <1>1, WaitTypes, OpsAssumption
    <3>3. \/ ws[q][id].answer # NoAnswer
          \/ \E i \in DOMAIN p[q][b] : p[q][b][i].type # "done" /\ p[q][b][i].id = id
          \/ \E i \in DOMAIN p[b][q] : p[b][q][i].type = "done" /\ p[b][q][i].id = id
          \/ \E i \in DOMAIN W[k][q] : W[k][q][i].id = id
      BY Zenon, <3>1 DEF Somewhere
    <3> HIDE DEF b
    <3>4. \/ ws[q][id].answer # NoAnswer
          \/ \E i \in DOMAIN p2[q][b] : p2[q][b][i].type # "done" /\ p2[q][b][i].id = id
          \/ \E i \in DOMAIN p2[b][q] : p2[b][q][i].type = "done" /\ p2[b][q][i].id = id
          \/ \E i \in DOMAIN W[k][q] : W[k][q][i].id = id
      BY ZenonT(60), <1>5, <3>2, <3>3
    <3>5. Somewhere(W, ws, p2, {}, q, id)  BY Zenon, <3>4 DEF Somewhere, b
    <3> QED  BY Zenon, <3>1, <3>5
  <2> QED  BY Zenon, <2>1, <2>2
<1> QED  BY ZenonT(60), <1>3, <1>6, <1>7, <1>8, <1>9 DEF Consistent, InHand, Upto

----------------------------------------------------------------------------
(***************************************************************************)
(* The steps.                                                              *)
(***************************************************************************)

LEMMA IssuedStays ==
  ASSUME NEW s, NEW s2, NEW ws, NEW ws2, Holds(s, s2, ws, ws2), NEW r \in Rank, NEW o,
         Issued(s, ws, r, o)
  PROVE  Issued(s2, ws2, r, o)
<1>1. \A i \in DOMAIN o.ids :
        /\ o.ids[i] \in DOMAIN ws2[r]
        /\ ws2[r][o.ids[i]].type = o.type /\ ws2[r][o.ids[i]].key = o.keys[i]
  BY ZenonT(30) DEF Issued, Holds
<1>2. \A i \in DOMAIN o.keys : o.keys[i] \in Key  BY Zenon, Element DEF Issued
<1>3. (o.state = "returned" /\ (o.type = "wait" \/ o.result = "true"))
        => \A i \in DOMAIN o.keys : s2[o.keys[i]] # NoValue
  BY Zenon, <1>2 DEF Issued, Holds
<1> QED  BY <1>1, <1>3 DEF Issued

\* Operation o has ended as u, in state x with result y.
Ends(o, u, x, y) == u = [o EXCEPT !.state = x, !.result = y]

LEMMA OpExcept ==
  ASSUME NEW o, IsOp(o), NEW x, NEW y
  PROVE  /\ [o EXCEPT !.ids = x] = OpRec(o.type, o.keys, o.value, x, o.state, o.result)
         /\ [o EXCEPT !.state = x] = OpRec(o.type, o.keys, o.value, o.ids, x, o.result)
         /\ \A u : Ends(o, u, x, y) => u = OpRec(o.type, o.keys, o.value, o.ids, x, y)
<1>1. PICK t, ks, v, ids, st, res :
        /\ t = o.type /\ ks = o.keys /\ v = o.value /\ ids = o.ids /\ st = o.state
        /\ res = o.result
  OBVIOUS
<1> DEFINE z == [type |-> t, keys |-> ks, value |-> v, ids |-> ids, state |-> st, result |-> res]
<1>2. o = z  BY Zenon, <1>1 DEF IsOp, OpRec
<1>3. [z EXCEPT !.ids = x] = OpRec(t, ks, v, x, st, res)  BY DEF OpRec
<1>4. [z EXCEPT !.state = x] = OpRec(t, ks, v, ids, x, res)  BY DEF OpRec
<1>5. [z EXCEPT !.state = x, !.result = y] = OpRec(t, ks, v, ids, x, y)
  <2> DEFINE u == [z EXCEPT !.state = x]
  <2>1. [z EXCEPT !.state = x, !.result = y] = [u EXCEPT !.result = y]  OBVIOUS
  <2>2. u = [type |-> t, keys |-> ks, value |-> v, ids |-> ids, state |-> x, result |-> res]
    OBVIOUS
  <2> HIDE DEF u
  <2>3. [[type |-> t, keys |-> ks, value |-> v, ids |-> ids, state |-> x, result |-> res]
           EXCEPT !.result = y] = OpRec(t, ks, v, ids, x, y)
    BY DEF OpRec
  <2> QED  BY Zenon, <2>1, <2>2, <2>3
<1> HIDE DEF z
<1> QED  BY Zenon, <1>1, <1>2, <1>3, <1>4, <1>5 DEF Ends

\* The operation of client c becomes o.
Turns(c, o) == op' = [d \in Client |-> IF d = c THEN o ELSE op[d]]

LEMMA OpInv ==
  ASSUME IInv, NEW c \in Client, NEW o, Turns(c, o), Consistent(store', storeWaiters', waits', path', {}),
         Holds(store, store', waits, waits'), Issued(store', waits', At[c], o)
  PROVE  IInv'
<1>1. ASSUME NEW d \in Client
      PROVE  Issued(store', waits', At[d], op'[d])
  <2>1. CASE d = c  BY <2>1 DEF Turns
  <2>2. CASE d # c
    <3>1. Issued(store, waits, At[d], op[d]) /\ At[d] \in Rank  BY OpsAssumption DEF IInv
    <3>2. op'[d] = op[d]  BY <2>2 DEF Turns
    <3> QED  BY <3>1, <3>2, IssuedStays
  <2> QED  BY <2>1, <2>2
<1>2. op' = [d \in Client |-> op'[d]]  BY DEF Turns
<1> QED  BY Zenon, <1>1, <1>2 DEF IInv

\* Nothing but the operation of a client changes.
LEMMA OnlyOp ==
  ASSUME IInv, NEW c \in Client, NEW o, Turns(c, o), UNCHANGED <<store, storeWaiters, waits, path>>,
         Issued(store, waits, At[c], o)
  PROVE  IInv'
<1>1. Consistent(store', storeWaiters', waits', path', {})  BY Zenon DEF IInv
<1>2. Holds(store, store', waits, waits')  BY DEF Holds
<1>3. Issued(store', waits', At[c], o)  BY Zenon
<1> QED  BY <1>1, <1>2, <1>3, OpInv

LEMMA BeginInv ==
  ASSUME IInv, NEW c \in Client, NEW t \in Types, NEW ks \in Seq(Key), NEW v \in Value \cup {NoValue},
         IF t = "set" THEN v \in Value ELSE v = NoValue, Begin(c, t, ks, v)
  PROVE  IInv'
<1> DEFINE o == OpRec(t, ks, v, <<>>, "called", NoAnswer)
<1>1. UNCHANGED <<store, storeWaiters, waits, path>>  BY DEF Begin
<1>2. Turns(c, o)
  <2>1. op = [d \in Client |-> op[d]]  BY DEF IInv
  <2>2. op' = [op EXCEPT ![c] = o]  BY DEF Begin, OpRec
  <2> HIDE DEF o
  <2> QED  BY <2>1, <2>2 DEF Turns
<1>3. Issued(store, waits, At[c], o)
  <2>1. /\ o.type = t /\ o.keys = ks /\ o.value = v /\ o.ids = <<>> /\ o.state = "called"
        /\ o.result = NoAnswer
    BY DEF OpRec
  <2>2. Len(<<>>) <= Len(ks) /\ <<>> \in Seq(Nat) /\ DOMAIN <<>> = {}  OBVIOUS
  <2> HIDE DEF o
  <2>3. IsOp(o)  BY Zenon, <2>1 DEF IsOp, o
  <2> QED  BY <2>1, <2>2, <2>3 DEF Issued
<1> HIDE DEF o
<1> QED  BY <1>1, <1>2, <1>3, OnlyOp

LEMMA CallsInv ==
  ASSUME IInv, NEW c \in Client, Calls(c)
  PROVE  IInv'
<1>1. ASSUME NEW k \in Key, NEW v \in Value, Begin(c, "set", <<k>>, v)
      PROVE  IInv'
  <2>1. "set" \in Types /\ <<k>> \in Seq(Key)  BY DEF Types
  <2> QED  BY Zenon, <1>1, <2>1, BeginInv
<1>2. ASSUME NEW k \in Key, Begin(c, "get", <<k>>, NoValue)
      PROVE  IInv'
  <2>1. "get" \in Types /\ <<k>> \in Seq(Key) /\ "get" # "set"  BY DEF Types
  <2> QED  BY Zenon, <1>2, <2>1, BeginInv
<1>3. ASSUME NEW ks \in KeyLists, NEW t \in {"check", "wait"}, Begin(c, t, ks, NoValue)
      PROVE  IInv'
  <2>1. t \in Types /\ ks \in Seq(Key) /\ t # "set"  BY OpsAssumption DEF Types
  <2> QED  BY Zenon, <1>3, <2>1, BeginInv
<1> QED  BY Zenon, <1>1, <1>2, <1>3 DEF Calls

LEMMA TimeOutInv ==
  ASSUME IInv, NEW c \in Client, TimeOut(c)
  PROVE  IInv'
<1> DEFINE x == op[c]
           o == OpRec(x.type, x.keys, x.value, x.ids, "timed out", x.result)
<1>1. UNCHANGED <<store, storeWaiters, waits, path>>  BY DEF TimeOut
<1>2. Issued(store, waits, At[c], x)  BY DEF IInv
<1>3. Turns(c, o)
  <2>1. op = [d \in Client |-> op[d]]  BY DEF IInv
  <2>2. op' = [op EXCEPT ![c] = [x EXCEPT !.state = "timed out"]]  BY DEF TimeOut
  <2>3. IsOp(x)  BY Zenon, <1>2 DEF Issued
  <2> HIDE DEF x
  <2>4. [x EXCEPT !.state = "timed out"] = o  BY Zenon, <2>3, OpExcept
  <2> HIDE DEF o
  <2> QED  BY <2>1, <2>2, <2>4 DEF Turns
<1>4. Issued(store, waits, At[c], o)
  <2>1. /\ o.type = x.type /\ o.keys = x.keys /\ o.value = x.value /\ o.ids = x.ids
        /\ o.state = "timed out" /\ o.result = x.result
    BY DEF OpRec
  <2> HIDE DEF o, x
  <2>2. IsOp(o)  BY Zenon, <2>1 DEF IsOp, o
  <2> QED  BY ZenonT(60), <1>2, <2>1, <2>2 DEF Issued
<1> HIDE DEF o
<1> QED  BY Zenon, <1>1, <1>3, <1>4, OnlyOp

LEMMA ReturnInv ==
  ASSUME IInv, NEW c \in Client, Return(c)
  PROVE  IInv'
<1> DEFINE x == op[c]
           r == At[c]
           res == IF "false" \in AnswersOf(c) THEN "false" ELSE CHOOSE a \in AnswersOf(c) : TRUE
           o == OpRec(x.type, x.keys, x.value, x.ids, "returned", res)
<1>1. UNCHANGED <<store, storeWaiters, waits, path>>  BY DEF Return
<1>2. Issued(store, waits, r, x) /\ r \in Rank /\ Len(x.ids) = Len(x.keys)
      /\ NoAnswer \notin AnswersOf(c)
  BY OpsAssumption DEF IInv, Return, Awaits
<1>3. Turns(c, o)
  <2>1. op = [d \in Client |-> op[d]]  BY DEF IInv
  <2> DEFINE u == [x EXCEPT !.state = "returned", !.result = res]
  <2>2. op' = [op EXCEPT ![c] = u] /\ Ends(x, u, "returned", res)  BY DEF Return, Ends
  <2>3. IsOp(x)  BY Zenon, <1>2 DEF Issued
  <2> HIDE DEF x, res, u
  <2>4. u = o  BY Zenon, <2>2, <2>3, OpExcept
  <2> HIDE DEF o
  <2> QED  BY <2>1, <2>2, <2>4 DEF Turns
<1>4. /\ o.type = x.type /\ o.keys = x.keys /\ o.value = x.value /\ o.ids = x.ids
      /\ o.state = "returned" /\ o.result = res
  BY DEF OpRec
<1> HIDE DEF o
<1>5. ASSUME x.type = "wait" \/ res = "true", NEW i \in DOMAIN x.keys
      PROVE  store[x.keys[i]] # NoValue
  <2> DEFINE id == x.ids[i]
  <2>1. i \in DOMAIN x.ids
    <3>1. x.ids \in Seq(Nat) /\ x.keys \in Seq(Key)  BY Zenon, <1>2 DEF Issued
    <3> HIDE DEF x
    <3> QED  BY <1>2, <1>5, <3>1
  <2>2. id \in DOMAIN waits[r] /\ waits[r][id].type = x.type /\ waits[r][id].key = x.keys[i]
    BY Zenon, <1>2, <2>1 DEF Issued
  <2>3. Sound(store, waits[r][id], waits[r][id].answer)  BY Zenon, <1>2, <2>2 DEF IInv, Consistent
  <2>4. waits[r][id].answer \in AnswersOf(c)
    <3>1. id \in Range(x.ids)  BY <2>1 DEF Range
    <3> QED  BY Zenon, <3>1 DEF AnswersOf
  <2>5. ~(waits[r][id].type = "check" /\ waits[r][id].answer = "false")
    <3>1. CASE x.type = "wait"  BY Zenon, <2>2, <3>1
    <3>2. CASE res = "true"  BY Zenon, <2>4, <3>2
    <3> QED  BY Zenon, <1>5, <3>1, <3>2
  <2> QED  BY Zenon, <1>2, <2>2, <2>3, <2>4, <2>5 DEF Sound
<1>6. Issued(store, waits, r, o)
  <2>1. IsOp(o)  BY Zenon, <1>4 DEF IsOp, o
  <2> HIDE DEF x, res
  <2>2. (o.state = "returned" /\ (o.type = "wait" \/ o.result = "true"))
          => \A i \in DOMAIN o.keys : store[o.keys[i]] # NoValue
    BY <1>4, <1>5
  <2> QED  BY ZenonT(60), <1>2, <1>4, <2>1, <2>2 DEF Issued
<1> QED  BY <1>1, <1>3, <1>6, OnlyOp

\* doWaitOp of client c asks request m; the Waits are ws with the new one.
WaitOf(m) == [type |-> m.type, key |-> m.key, value |-> m.value, answer |-> NoAnswer]

Asks(c, m, ws) ==
  /\ m \in AskMsg /\ m.source = At[c] /\ m.id = Len(waits[At[c]]) + 1
  /\ m.type = op[c].type /\ m.key = op[c].keys[Len(op[c].ids) + 1] /\ m.value = op[c].value
  /\ IF m.type = "set" THEN m.value \in Value ELSE m.value = NoValue
  /\ Grown(waits, ws, m.source, m.id, WaitOf(m))
  /\ Holds(store, store, waits, ws) /\ Holds(store, store', ws, waits') /\ Holds(store, store', waits, waits')
  /\ Consistent(store', storeWaiters', waits', path', {})
  /\ \/ /\ Owner[m.key] = m.source /\ Consistent(store, storeWaiters, ws, path, {m})
        /\ ProcessRequest(Owner[m.key], m, ws, path)
     \/ /\ waits' = ws /\ store' = store
        /\ \E l : Sent(path, path', m.source, Owner[m.key], m, l)

LEMMA Asking ==
  ASSUME IInv, NEW c \in Client, DoWaitOp(c)
  PROVE  \E m, ws : Asks(c, m, ws)
<1> DEFINE x == op[c]
           r == At[c]
           k == x.keys[Len(x.ids) + 1]
           id == Len(waits[r]) + 1
           m == Request(x.type, r, id, k, x.value)
           w == [type |-> m.type, key |-> k, value |-> m.value, answer |-> NoAnswer]
           ws == [waits EXCEPT ![r] = Append(@, w)]
<1>1. /\ Issued(store, waits, r, x) /\ r \in Rank
      /\ Consistent(store, storeWaiters, waits, path, {})
      /\ op = [d \in Client |-> op[d]]
  BY OpsAssumption DEF IInv
<1>2. /\ x.state = "called" /\ Len(x.ids) < Len(x.keys)
      /\ IF Owner[k] = r
         THEN ProcessRequest(r, m, ws, path)
         ELSE /\ waits' = ws
              /\ path' = [path EXCEPT ![r][Owner[k]] = Append(@, m)]
              /\ UNCHANGED <<store, storeWaiters>>
  BY Zenon DEF DoWaitOp
<1>3. /\ x.type \in Types /\ x.value \in Value \cup {NoValue}
      /\ IF x.type = "set" THEN x.value \in Value ELSE x.value = NoValue
      /\ x.keys \in Seq(Key) /\ x.ids \in Seq(Nat) /\ IsOp(x)
  BY Zenon, <1>1, <1>2 DEF Issued
<1>4. waits \in [Rank -> Seq(WaitRec)] /\ path \in [Rank -> [Rank -> Seq(AskMsg \cup DoneMsg)]]
  BY Zenon, <1>1 DEF Consistent, Typed
<1>5. k \in Key /\ id \in Nat
  <2>3. Len(x.ids) < Len(x.keys) /\ x.ids \in Seq(Nat) /\ x.keys \in Seq(Key)  BY Zenon, <1>2, <1>3
  <2> HIDE DEF x
  <2>1. Len(x.ids) + 1 \in DOMAIN x.keys  BY <2>3
  <2>2. waits[r] \in Seq(WaitRec)  BY <1>1, <1>4
  <2> QED  BY <1>3, <2>1, <2>2, Element
<1>7. /\ m.type = x.type /\ m.source = r /\ m.id = id /\ m.key = k /\ m.value = x.value
      /\ m \in AskMsg /\ w \in WaitRec /\ m = Request(m.type, r, id, k, m.value)
  <2> HIDE DEF x, id, k
  <2> QED  BY Zenon, <1>1, <1>3, <1>5 DEF Request, AskMsg, WaitRec, Answer
<1>8. Grown(waits, ws, r, id, w)
  <2> HIDE DEF w
  <2> QED  BY Zenon, <1>1, <1>4, <1>7, AppendGrown
<1>9. Upto(store, storeWaiters, ws, path, r, m.id) /\ Pending(ws, r, m)
  <2> HIDE DEF ws, id, k, x
  <2>1. m.id \in DOMAIN ws[r] /\ ws[r][m.id] = w  BY Zenon, <1>7, <1>8 DEF Grown
  <2> HIDE DEF m
  <2>2. Pending(ws, r, m)  BY Zenon, <1>3, <1>7, <2>1 DEF Pending
  <2>3. Upto(store, storeWaiters, ws, path, r, id)  BY <1>1, <1>8, GrownUpto
  <2> QED  BY Zenon, <1>7, <2>2, <2>3
<1>10. Holds(store, store, waits, ws)
  <2> HIDE DEF ws, w, id
  <2> QED  BY <1>8 DEF Holds, Grown
<1>11. /\ Consistent(store', storeWaiters', waits', path', {})
       /\ Holds(store, store', ws, waits')
       /\ \/ /\ Owner[m.key] = m.source /\ Consistent(store, storeWaiters, ws, path, {m})
             /\ ProcessRequest(Owner[m.key], m, ws, path)
          \/ /\ waits' = ws /\ store' = store
             /\ \E l : Sent(path, path', m.source, Owner[m.key], m, l)
  <2>1. CASE Owner[k] = r
    <3> HIDE DEF ws, m, k
    <3>1. Consistent(store, storeWaiters, ws, path, {m})  BY ZenonT(60), <1>1, <1>7, <1>9, <2>1, NewLocal
    <3>2. ProcessRequest(Owner[m.key], m, ws, path)  BY Zenon, <1>2, <1>7, <2>1
    <3>3. Consistent(store', storeWaiters', waits', path', {}) /\ Holds(store, store', ws, waits')
      BY <3>1, <3>2, ProcessInv
    <3> QED  BY Zenon, <1>7, <2>1, <3>1, <3>2, <3>3
  <2>2. CASE Owner[k] # r
    <3> HIDE DEF ws, m, k
    <3> DEFINE b == Owner[k]
    <3>1. /\ waits' = ws /\ path' = [path EXCEPT ![r][b] = Append(@, m)]
          /\ store' = store /\ storeWaiters' = storeWaiters /\ b \in Rank
      BY ZenonT(30), <1>2, <1>5, <2>2, OpsAssumption
    <3>2. b = Owner[m.key] /\ b # r  BY Zenon, <1>7, <2>2
    <3> HIDE DEF b
    <3>3. Sent(path, path', r, b, m, Len(path[r][b]) + 1)  BY ZenonT(60), <1>1, <1>4, <1>7, <3>1, AppendSent
    <3>4. Consistent(store, storeWaiters, ws, path', {})  BY ZenonT(60), <1>1, <1>9, <3>2, <3>3, NewRemote
    <3>5. Holds(store, store, ws, ws)  BY DEF Holds
    <3> QED  BY Zenon, <1>7, <3>1, <3>2, <3>3, <3>4, <3>5
  <2> QED  BY Zenon, <2>1, <2>2
<1>12. Grown(waits, ws, m.source, m.id, WaitOf(m))  BY Zenon, <1>7, <1>8 DEF WaitOf
<1>13. Holds(store, store', waits, waits')
  <2> HIDE DEF ws
  <2> QED  BY ZenonT(60), <1>10, <1>11 DEF Holds
<1>14. m.source = At[c] /\ m.id = Len(waits[At[c]]) + 1 /\ m.key = op[c].keys[Len(op[c].ids) + 1]
       /\ m.type = op[c].type /\ m.value = op[c].value
  BY Zenon, <1>7
<1> HIDE DEF x, r, k, id, m, w, ws
<1>15. Asks(c, m, ws)
  BY Zenon, <1>3, <1>7, <1>10, <1>11, <1>12, <1>13, <1>14 DEF Asks
<1> QED  BY Zenon, <1>15

LEMMA DoWaitOpInv ==
  ASSUME IInv, NEW c \in Client, DoWaitOp(c)
  PROVE  IInv'
<1>5. PICK m, ws : Asks(c, m, ws)  BY Zenon, Asking
<1> DEFINE x == op[c]
           r == At[c]
           id == m.id
           k == m.key
           o == OpRec(x.type, x.keys, x.value, Append(x.ids, id), x.state, x.result)
<1>1. /\ Issued(store, waits, r, x) /\ r \in Rank
      /\ op = [d \in Client |-> op[d]]
  BY OpsAssumption DEF IInv
<1>2. /\ x.state = "called" /\ Len(x.ids) < Len(x.keys)
      /\ op' = [op EXCEPT ![c].ids = Append(@, Len(waits[r]) + 1)]
  BY Zenon DEF DoWaitOp
<1>3. x.keys \in Seq(Key) /\ x.ids \in Seq(Nat) /\ IsOp(x)  BY Zenon, <1>1, <1>2 DEF Issued
<1>4. id = Len(waits[r]) + 1 /\ id \in Nat /\ k = x.keys[Len(x.ids) + 1]
  BY Zenon, <1>5 DEF Asks, AskMsg
<1>10. /\ Holds(store, store, waits, ws) /\ Holds(store, store', ws, waits') /\ Holds(store, store', waits, waits')
       /\ Consistent(store', storeWaiters', waits', path', {})
  BY Zenon, <1>5 DEF Asks
<1>6. Turns(c, o)
  <2>1. op' = [op EXCEPT ![c] = [x EXCEPT !.ids = Append(x.ids, id)]]  BY Zenon, <1>2, <1>4
  <2> HIDE DEF x, id
  <2>2. [x EXCEPT !.ids = Append(x.ids, id)] = o  BY Zenon, <1>3, OpExcept
  <2> HIDE DEF o
  <2> QED  BY Zenon, <1>1, <2>1, <2>2 DEF Turns
<1>12. Issued(store, ws, r, o)
  <2>1. Issued(store, ws, r, x)
    <3> HIDE DEF x, r
    <3> QED  BY <1>1, <1>10, IssuedStays
  <2>2. /\ o.type = x.type /\ o.keys = x.keys /\ o.value = x.value /\ o.ids = Append(x.ids, id)
        /\ o.state = x.state /\ o.result = x.result
    BY Zenon DEF OpRec
  <2> HIDE DEF o
  <2>3. IsOp(o)  BY Zenon, <2>2 DEF IsOp, o
  <2>4. id \in DOMAIN ws[r] /\ ws[r][id].type = x.type /\ ws[r][id].key = k
    <3>1. id \in DOMAIN ws[r] /\ ws[r][id] = WaitOf(m) /\ m.type = x.type  BY Zenon, <1>5 DEF Asks, Grown
    <3>2. WaitOf(m).type = m.type /\ WaitOf(m).key = m.key  BY DEF WaitOf
    <3> QED  BY Zenon, <3>1, <3>2
  <2> DEFINE n == Len(x.ids) + 1
             y == Append(x.ids, id)
  <2>5. k = x.keys[n]  BY Zenon, <1>4
  <2> HIDE DEF x, id, k
  <2>6. /\ y \in Seq(Nat) /\ Len(y) <= Len(x.keys) /\ n \in DOMAIN y /\ y[n] = id
        /\ \A i \in DOMAIN y : i = n \/ (i \in DOMAIN x.ids /\ y[i] = x.ids[i])
    <3>1. x.ids \in Seq(Nat) /\ x.keys \in Seq(Key) /\ id \in Nat /\ Len(x.ids) < Len(x.keys)
      BY Zenon, <1>2, <1>3, <1>4
    <3> QED  BY <3>1
  <2> HIDE DEF y, n
  <2>7. \A i \in DOMAIN y :
          y[i] \in DOMAIN ws[r] /\ ws[r][y[i]].type = x.type /\ ws[r][y[i]].key = x.keys[i]
    <3> SUFFICES ASSUME NEW i \in DOMAIN y
                 PROVE  y[i] \in DOMAIN ws[r] /\ ws[r][y[i]].type = x.type
                                              /\ ws[r][y[i]].key = x.keys[i]
      BY Zenon
    <3>1. CASE i = n  BY Zenon, <2>4, <2>5, <2>6, <3>1
    <3>2. CASE i \in DOMAIN x.ids /\ y[i] = x.ids[i]  BY Zenon, <2>1, <3>2 DEF Issued
    <3> QED  BY Zenon, <2>6, <3>1, <3>2
  <2>8. o.ids = y /\ x.state # "returned"  BY Zenon, <1>2, <2>2 DEF y
  <2> QED  BY ZenonT(60), <2>1, <2>2, <2>3, <2>6, <2>7, <2>8 DEF Issued
<1>14. Issued(store', waits', r, o)
  <2> HIDE DEF o
  <2> QED  BY <1>1, <1>10, <1>12, IssuedStays
<1> HIDE DEF o
<1> QED  BY ZenonT(60), <1>6, <1>10, <1>14, OpInv

\* No operation changes.
LEMMA NoOp ==
  ASSUME IInv, UNCHANGED op, Consistent(store', storeWaiters', waits', path', {}),
         Holds(store, store', waits, waits')
  PROVE  IInv'
<1>1. ASSUME NEW c \in Client
      PROVE  Issued(store', waits', At[c], op'[c])
  <2>1. Issued(store, waits, At[c], op[c]) /\ At[c] \in Rank  BY OpsAssumption DEF IInv
  <2> QED  BY <2>1, IssuedStays
<1>2. op' = [c \in Client |-> op'[c]]  BY DEF IInv
<1> QED  BY <1>1, <1>2 DEF IInv

\* processMessage of m, the next message from q, at r: p are the messages without it.
Receives(q, r, m, p) ==
  /\ Consistent(store, storeWaiters, waits, path, {})
  /\ Taken(path, p, q, r) /\ m = path[q][r][1] /\ op' = op
  /\ Holds(store, store', waits, waits') /\ Consistent(store', storeWaiters', waits', path', {})
  /\ \/ /\ m.type # "done" /\ Consistent(store, storeWaiters, waits, p, {m})
        /\ ProcessRequest(Owner[m.key], m, waits, p)
     \/ m.type = "done" /\ Ended(waits, waits', r, m) /\ path' = p /\ store' = store

LEMMA Receiving ==
  ASSUME IInv, NEW q \in Rank, NEW r \in Rank, ProcessMessage(q, r)
  PROVE  \E m, p : Receives(q, r, m, p)
<1> DEFINE m == Head(path[q][r])
           p == [path EXCEPT ![q][r] = Tail(@)]
<1>1. /\ Consistent(store, storeWaiters, waits, path, {})
      /\ path \in [Rank -> [Rank -> Seq(AskMsg \cup DoneMsg)]]
      /\ waits \in [Rank -> Seq(WaitRec)]
  BY Zenon DEF IInv, Consistent, Typed
<1>2. /\ path[q][r] # <<>> /\ op' = op
      /\ IF m.type = "done"
         THEN /\ waits' = [waits EXCEPT ![r] = Completed(@, <<m>>)]
              /\ path' = p /\ UNCHANGED <<store, storeWaiters>>
         ELSE ProcessRequest(r, m, waits, p)
  BY Zenon DEF ProcessMessage
<1>3. Taken(path, p, q, r) /\ m = path[q][r][1]  BY Zenon, <1>1, <1>2, TailTaken
<1> HIDE DEF m, p
<1>4. CASE m.type # "done"
  <2> DEFINE s == store
             W == storeWaiters
             ws == waits
             P == path
  <2>0. Consistent(s, W, ws, P, {}) /\ Taken(P, p, q, r) /\ m = P[q][r][1]  BY <1>1, <1>3
  <2> HIDE DEF s, W, ws, P
  <2>3. Consistent(s, W, ws, p, {m}) /\ Owner[m.key] = r  BY <1>4, <2>0, TakeRequest
  <2>1. Consistent(store, storeWaiters, waits, p, {m}) /\ Owner[m.key] = r
    BY <2>3 DEF s, W, ws
  <2>2. ProcessRequest(Owner[m.key], m, waits, p)  BY Zenon, <1>2, <1>4, <2>1
  <2>4. Consistent(store', storeWaiters', waits', path', {}) /\ Holds(store, store', waits, waits')
    BY Zenon, <2>1, <2>2, ProcessInv
  <2>5. Receives(q, r, m, p)  BY Zenon, <1>1, <1>2, <1>3, <1>4, <2>1, <2>2, <2>4 DEF Receives
  <2> QED  BY Zenon, <2>5
<1>5. CASE m.type = "done"
  <2>1. /\ waits' = [waits EXCEPT ![r] = Completed(@, <<m>>)] /\ path' = p
        /\ store' = store /\ storeWaiters' = storeWaiters
    BY Zenon, <1>2, <1>5
  <2>2. m \in DoneMsg
    <3>1. Line(store, waits, q, r, path[q][r]) /\ 1 \in DOMAIN path[q][r]
      BY Zenon, <1>1, <1>3 DEF Consistent, Taken
    <3> QED  BY Zenon, <1>3, <1>5, <3>1 DEF Line, Due
  <2> DEFINE y == Completed(waits[r], <<m>>)
  <2>3. /\ y \in Seq(WaitRec) /\ DOMAIN y = DOMAIN waits[r]
        /\ \A id \in DOMAIN waits[r] :
             y[id] = IF id = m.id THEN Over(waits[r][id], m.answer) ELSE waits[r][id]
    <3> DEFINE ds == <<m>>
    <3>1. ds \in Seq(DoneMsg) /\ DOMAIN ds = {1} /\ ds[1] = m /\ waits[r] \in Seq(WaitRec)
      BY <1>1, <2>2
    <3> HIDE DEF ds
    <3>2. /\ Completed(waits[r], ds) \in Seq(WaitRec)
          /\ DOMAIN Completed(waits[r], ds) = DOMAIN waits[r]
          /\ \A id \in DOMAIN waits[r] :
               \/ /\ \A i \in DOMAIN ds : ds[i].id # id
                  /\ Completed(waits[r], ds)[id] = waits[r][id]
               \/ \E i \in DOMAIN ds :
                    /\ ds[i].id = id
                    /\ Completed(waits[r], ds)[id] = Over(waits[r][id], ds[i].answer)
      BY ZenonT(30), <3>1, CompletedFacts
    <3>3. y = Completed(waits[r], ds)  BY DEF ds
    <3> HIDE DEF y
    <3> QED  BY ZenonT(60), <3>1, <3>2, <3>3
  <2>4. waits' = [waits EXCEPT ![r] = y]  BY <2>1
  <2> HIDE DEF y
  <2>5. /\ waits' \in [Rank -> Seq(WaitRec)]
        /\ waits'[r] = y /\ \A b \in Rank : b # r => waits'[b] = waits[b]
    BY Zenon, <1>1, <2>3, <2>4
  <2>6. /\ \A b \in Rank : DOMAIN waits'[b] = DOMAIN waits[b]
        /\ \A b \in Rank : \A id \in DOMAIN waits[b] :
             waits'[b][id] = IF b = r /\ id = m.id THEN Over(waits[b][id], m.answer) ELSE waits[b][id]
    BY Zenon, <2>3, <2>5
  <2>10. Ended(waits, waits', r, m)  BY Zenon, <2>5, <2>6 DEF Ended
  <2>7. Consistent(store, storeWaiters, waits', p, {})
    BY Zenon, <1>1, <1>3, <1>5, <2>10, TakeDone
  <2>8. Holds(store, store', waits, waits')
    <3>1. ASSUME NEW b \in Rank, NEW id \in DOMAIN waits[b]
          PROVE  waits'[b][id].type = waits[b][id].type /\ waits'[b][id].key = waits[b][id].key
      <4>1. CASE waits'[b][id] = waits[b][id]  BY Zenon, <4>1
      <4>2. CASE waits'[b][id] = Over(waits[b][id], m.answer)  BY <4>2 DEF Over
      <4> QED  BY Zenon, <2>6, <4>1, <4>2
    <3> QED  BY <2>1, <2>6, <3>1 DEF Holds
  <2>9. Consistent(store', storeWaiters', waits', path', {})  BY Zenon, <2>1, <2>7
  <2>11. Receives(q, r, m, p)  BY Zenon, <1>1, <1>2, <1>3, <1>5, <2>1, <2>8, <2>9, <2>10 DEF Receives
  <2> QED  BY Zenon, <2>11
<1> QED  BY Zenon, <1>4, <1>5

LEMMA ProcessMessageInv ==
  ASSUME IInv, NEW q \in Rank, NEW r \in Rank, ProcessMessage(q, r)
  PROVE  IInv'
<1>1. PICK m, p : Receives(q, r, m, p)  BY Zenon, Receiving
<1> QED  BY Zenon, <1>1, NoOp DEF Receives

----------------------------------------------------------------------------
LEMMA InitInv == Init => IInv
<1> SUFFICES ASSUME Init PROVE IInv  OBVIOUS
<1>1. Typed(store, storeWaiters, waits, path)
  <2>1. <<>> \in Seq(AskMsg) /\ <<>> \in Seq(WaitRec) /\ <<>> \in Seq(AskMsg \cup DoneMsg)  OBVIOUS
  <2> QED  BY Zenon, <2>1 DEF Init, Typed, Table
<1>2. /\ \A r \in Rank : DOMAIN waits[r] = {}
      /\ \A a, b \in Rank : path[a][b] = <<>> /\ DOMAIN path[a][b] = {}
      /\ \A k \in Key, q \in Rank : DOMAIN storeWaiters[k][q] = {}
  BY DEF Init
<1>3. Consistent(store, storeWaiters, waits, path, {})
  <2>1. \A r \in Rank : \A id \in DOMAIN waits[r] : FALSE  BY Zenon, <1>2
  <2>2. \A a, b \in Rank : \A i \in DOMAIN path[a][b] : FALSE  BY Zenon, <1>2
  <2>3. \A k \in Key, q \in Rank : \A i \in DOMAIN storeWaiters[k][q] : FALSE  BY Zenon, <1>2
  <2>4. \A a, b \in Rank : Line(store, waits, a, b, path[a][b]) /\ Apart(path[a][b], path[b][a])
    BY ZenonT(60), <2>2 DEF Line, Apart
  <2>5. \A k \in Key, q \in Rank :
          Queue(store, waits, k, q, storeWaiters[k][q], path[q][Owner[k]], path[Owner[k]][q])
    BY Zenon, <2>3 DEF Queue
  <2>6. InHand(storeWaiters, waits, path, {})  BY Zenon DEF InHand
  <2> QED  BY Zenon, <1>1, <2>1, <2>4, <2>5, <2>6 DEF Consistent
<1>4. ASSUME NEW c \in Client
      PROVE  Issued(store, waits, At[c], op[c])
  <2>1. op[c] = Idle  BY DEF Init
  <2>2. <<>> \in Seq(Key) /\ <<>> \in Seq(Nat) /\ DOMAIN <<>> = {} /\ Len(<<>>) = 0  OBVIOUS
  <2>3. IsOp(Idle)  BY Zenon DEF IsOp, OpRec, Idle
  <2> DEFINE o == Idle
  <2>4. /\ o.type = "none" /\ o.keys = <<>> /\ o.value = NoValue /\ o.ids = <<>>
        /\ o.state = "idle" /\ o.result = NoAnswer /\ IsOp(o)
    BY Zenon, <2>3 DEF Idle
  <2> HIDE DEF o
  <2>5. Issued(store, waits, At[c], o)  BY SMTT(30), <2>2, <2>4 DEF Issued
  <2> QED  BY Zenon, <2>1, <2>5 DEF o
<1>5. op = [c \in Client |-> op[c]]  BY DEF Init
<1> QED  BY <1>3, <1>4, <1>5 DEF IInv

LEMMA NextInv == IInv /\ [Next]_vars => IInv'
<1> SUFFICES ASSUME IInv, [Next]_vars PROVE IInv'  OBVIOUS
<1>1. ASSUME NEW c \in Client, Calls(c) \/ Runs(c) \/ TimeOut(c)
      PROVE  IInv'
  BY <1>1, CallsInv, DoWaitOpInv, ReturnInv, TimeOutInv DEF Runs
<1>2. ASSUME NEW q \in Rank, NEW r \in Rank, ProcessMessage(q, r)
      PROVE  IInv'
  BY <1>2, ProcessMessageInv
<1>3. CASE UNCHANGED vars
  BY Zenon, <1>3 DEF vars, IInv
<1> QED  BY <1>1, <1>2, <1>3 DEF Next

\* The inductive invariant holds.
THEOREM Invariance == Spec => []IInv
BY InitInv, NextInv, PTL DEF Spec

\* Nobody waits for a key that is there, whatever the ranks, the keys and where they
\* are kept, and however gets, waits and sets meet at the owner
\* (internalStoreSetValue, internalStoreGetValue).
THEOREM WakeupTheorem == Spec => []NoLostWakeup
<1>1. IInv => NoLostWakeup
  <2> SUFFICES ASSUME IInv, NEW k \in Key, NEW q \in Rank, NEW m \in Range(storeWaiters[k][q])
               PROVE  store[k] = NoValue /\ waits[q][m.id].answer = NoAnswer
    BY DEF NoLostWakeup
  <2>1. PICK i \in DOMAIN storeWaiters[k][q] : m = storeWaiters[k][q][i]  BY DEF Range
  <2>2. Pending(waits, q, m) /\ store[k] = NoValue  BY ZenonT(60), <2>1 DEF IInv, Consistent, Queue
  <2> QED  BY <2>2 DEF Pending
<1> QED  BY <1>1, Invariance, PTL

\* wait(keys) that returned, and check(keys) that returned true, tell the truth about
\* every one of their keys, for any lists of keys.
THEOREM KeysTheorem == Spec => []AllKeysThere
<1>1. IInv => AllKeysThere
  <2> SUFFICES ASSUME IInv, NEW c \in Client, op[c].state = "returned",
                      op[c].type = "wait" \/ op[c].result = "true", NEW k \in Range(op[c].keys)
               PROVE  store[k] # NoValue
    BY DEF AllKeysThere
  <2>1. PICK i \in DOMAIN op[c].keys : k = op[c].keys[i]  BY DEF Range
  <2> QED  BY ZenonT(60), <2>1 DEF IInv, Issued
<1> QED  BY <1>1, Invariance, PTL

====
