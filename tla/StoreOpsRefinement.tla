------------------------- MODULE StoreOpsRefinement -------------------------
(***************************************************************************)
(* The key-value operations of the store implement the atomic table of     *)
(* AtomicStore.                                                            *)
(***************************************************************************)
EXTENDS StoreOpsProofs

\* The answers on their way to Wait id of rank r.
Coming(p, r, id) == {m \in UNION {Range(p[q][r]) : q \in Rank} : m.type = "done" /\ m.id = id}

App(ws, p, r, id) ==
  IF Coming(p, r, id) = {} THEN ws[r][id].answer ELSE (CHOOSE m \in Coming(p, r, id) : TRUE).answer

\* The call that Wait w stands for, with a as the answer that the store gave.
CallOf(w, a) == [type |-> w.type, key |-> w.key, value |-> w.value, applied |-> a, seen |-> w.answer]

Abs(ws, p) == [r \in Rank |-> [id \in DOMAIN ws[r] |-> CallOf(ws[r][id], App(ws, p, r, id))]]

CallRec == [type : Types, key : Key, value : Value \cup {NoValue}, applied : Answer, seen : Answer]

LEMMA CallFields ==
  ASSUME NEW w, NEW a
  PROVE  /\ CallOf(w, a).type = w.type /\ CallOf(w, a).key = w.key /\ CallOf(w, a).value = w.value
         /\ CallOf(w, a).applied = a /\ CallOf(w, a).seen = w.answer
BY DEF CallOf

\* Call c stands for Wait w and has answer a; Wait u is w with answer a.
Stands(c, w, a) ==
  c.type = w.type /\ c.key = w.key /\ c.value = w.value /\ c.applied = a /\ c.seen = w.answer
Ends1(u, w, a) == u.type = w.type /\ u.key = w.key /\ u.value = w.value /\ u.answer = a

LEMMA CallStands == ASSUME NEW w, NEW a PROVE Stands(CallOf(w, a), w, a)
BY CallFields DEF Stands

LEMMA OverEnds == ASSUME NEW w, NEW a PROVE Ends1(Over(w, a), w, a)
BY DEF Over, Ends1

LEMMA AbsIs ==
  AtomicCalls = Abs(waits, path) /\ AtomicCalls' = Abs(waits', path')
BY Zenon DEF AtomicCalls, Abs, CallOf, Applied, App, Coming

LEMMA ComingIs ==
  ASSUME NEW p, NEW r, NEW id, NEW m
  PROVE  m \in Coming(p, r, id) <=> \E q \in Rank : \E i \in DOMAIN p[q][r] :
                                      m = p[q][r][i] /\ m.type = "done" /\ m.id = id
<1>1. m \in Coming(p, r, id) <=> /\ \E S \in {Range(p[q][r]) : q \in Rank} : m \in S
                                  /\ m.type = "done" /\ m.id = id
  BY Zenon DEF Coming
<1>2. (\E S \in {Range(p[q][r]) : q \in Rank} : m \in S) <=> \E q \in Rank : m \in Range(p[q][r])
  BY Zenon
<1>3. \A q \in Rank : m \in Range(p[q][r]) <=> \E i \in DOMAIN p[q][r] : m = p[q][r][i]
  BY DEF Range
<1> QED  BY Zenon, <1>1, <1>2, <1>3

LEMMA InitAtomic == Init => Atomic!Init
<1> SUFFICES ASSUME Init PROVE Atomic!Init  OBVIOUS
<1>1. Abs(waits, path) = [r \in Rank |-> <<>>]
  <2>1. ASSUME NEW r \in Rank, NEW f, f = [id \in DOMAIN waits[r] |-> CallOf(waits[r][id], App(waits, path, r, id))]
        PROVE  f = <<>>
    <3>1. DOMAIN waits[r] = {}  BY DEF Init
    <3>2. DOMAIN f = {} /\ f = [id \in DOMAIN f |-> f[id]]  BY Zenon, <3>1, <2>1
    <3> QED  BY <3>2
  <2>2. ASSUME NEW r \in Rank PROVE Abs(waits, path)[r] = <<>>  BY Zenon, <2>1 DEF Abs
  <2>3. Abs(waits, path) = [r \in Rank |-> Abs(waits, path)[r]]  BY Zenon DEF Abs
  <2> QED  BY <2>2, <2>3
<1>2. store = [k \in Key |-> NoValue]  BY DEF Init
<1> QED  BY Zenon, <1>1, <1>2, AbsIs DEF Atomic!Init

\* There is at most one answer on its way to a Wait, and it is the one given.
LEMMA AppComing ==
  ASSUME NEW s, NEW W, NEW ws, NEW p, NEW H, Consistent(s, W, ws, p, H),
         NEW r \in Rank, NEW id, NEW m \in Coming(p, r, id)
  PROVE  /\ App(ws, p, r, id) = m.answer
         /\ m.answer # NoAnswer /\ m.answer \in Answer
         /\ id \in DOMAIN ws[r] /\ ws[r][id].answer = NoAnswer
<1>1. ASSUME NEW n \in Coming(p, r, id)
      PROVE  \E q \in Rank : \E i \in DOMAIN p[q][r] :
               /\ n = p[q][r][i] /\ n.type = "done" /\ n.id = id
               /\ Due(s, ws, q, r, n) /\ Owner[ws[r][id].key] = q
  <2>1. PICK q \in Rank : \E i \in DOMAIN p[q][r] : n = p[q][r][i] /\ n.type = "done" /\ n.id = id
    BY SMTT(30), ComingIs
  <2>2. PICK i \in DOMAIN p[q][r] : n = p[q][r][i] /\ n.type = "done" /\ n.id = id  BY Zenon, <2>1
  <2>3. Line(s, ws, q, r, p[q][r])  BY Zenon DEF Consistent
  <2>4. Due(s, ws, q, r, n)  BY Zenon, <2>2, <2>3 DEF Line
  <2>5. Owner[ws[r][id].key] = q  BY Zenon, <2>2, <2>4 DEF Due
  <2> QED  BY Zenon, <2>2, <2>4, <2>5
<1>2. PICK q \in Rank : \E i \in DOMAIN p[q][r] :
        /\ m = p[q][r][i] /\ m.type = "done" /\ m.id = id
        /\ Due(s, ws, q, r, m) /\ Owner[ws[r][id].key] = q
  BY Zenon, <1>1
<1>3. PICK i \in DOMAIN p[q][r] :
        /\ m = p[q][r][i] /\ m.type = "done" /\ m.id = id
        /\ Due(s, ws, q, r, m) /\ Owner[ws[r][id].key] = q
  BY Zenon, <1>2
<1>4. ASSUME NEW n \in Coming(p, r, id) PROVE n = m
  <2>1. PICK j \in DOMAIN p[q][r] : n = p[q][r][j] /\ n.type = "done" /\ n.id = id
    BY Zenon, <1>1, <1>3
  <2>2. p[q][r] \in Seq(AskMsg \cup DoneMsg)  BY Zenon DEF Consistent, Typed
  <2>3. i = j \/ i < j \/ j < i
    <3> DEFINE x == p[q][r]
    <3>1. i \in DOMAIN x /\ j \in DOMAIN x /\ x \in Seq(AskMsg \cup DoneMsg)  BY Zenon, <2>2
    <3> HIDE DEF x
    <3> QED  BY <3>1
  <2>4. Line(s, ws, q, r, p[q][r])  BY Zenon DEF Consistent
  <2>5. i = j  BY Zenon, <1>3, <2>1, <2>3, <2>4 DEF Line
  <2> QED  BY Zenon, <1>3, <2>1, <2>5
<1>5. App(ws, p, r, id) = m.answer  BY Zenon, <1>4 DEF App
<1>6. m.answer # NoAnswer /\ m.answer \in Answer  BY Zenon, <1>3 DEF Due, DoneMsg
<1>7. id \in DOMAIN ws[r] /\ ws[r][id].answer = NoAnswer  BY Zenon, <1>3 DEF Due
<1> QED  BY Zenon, <1>5, <1>6, <1>7

LEMMA AppNone ==
  ASSUME NEW ws, NEW p, NEW r, NEW id, Coming(p, r, id) = {}
  PROVE  App(ws, p, r, id) = ws[r][id].answer
BY Zenon DEF App

\* What is answered to a Wait depends only on the Wait and on what is coming.
LEMMA AppSame ==
  ASSUME NEW ws, NEW p, NEW ws2, NEW p2, NEW r, NEW id, ws2[r][id].answer = ws[r][id].answer,
         \A m : m \in Coming(p2, r, id) <=> m \in Coming(p, r, id)
  PROVE  App(ws2, p2, r, id) = App(ws, p, r, id)
<1>1. Coming(p2, r, id) = Coming(p, r, id)  BY Zenon
<1> QED  BY <1>1 DEF App

LEMMA AbsTyped ==
  ASSUME NEW s, NEW W, NEW ws, NEW p, NEW H, Consistent(s, W, ws, p, H)
  PROVE  /\ Abs(ws, p) \in [Rank -> Seq(CallRec)]
         /\ \A r \in Rank : /\ DOMAIN Abs(ws, p)[r] = DOMAIN ws[r] /\ Len(Abs(ws, p)[r]) = Len(ws[r])
                            /\ \A id \in DOMAIN ws[r] :
                                 Abs(ws, p)[r][id] = CallOf(ws[r][id], App(ws, p, r, id))
<1>1. Typed(s, W, ws, p)  BY Zenon DEF Consistent
<1>2. ASSUME NEW r \in Rank, NEW id \in DOMAIN ws[r]
      PROVE  CallOf(ws[r][id], App(ws, p, r, id)) \in CallRec
  <2>1. ws[r][id] \in WaitRec  BY Zenon, <1>1, WaitTypes
  <2>2. App(ws, p, r, id) \in Answer
    <3>1. ASSUME NEW m \in Coming(p, r, id) PROVE App(ws, p, r, id) \in Answer
      <4>1. App(ws, p, r, id) = m.answer /\ m.answer \in Answer  BY AppComing
      <4> QED  BY Zenon, <4>1
    <3>2. CASE Coming(p, r, id) = {}
      <4>1. ws[r][id].answer \in Answer  BY Zenon, <2>1 DEF WaitRec
      <4>2. App(ws, p, r, id) = ws[r][id].answer  BY <3>2, AppNone
      <4> QED  BY Zenon, <4>1, <4>2
    <3> QED  BY Zenon, <3>1, <3>2
  <2> QED  BY Zenon, <2>1, <2>2 DEF CallOf, CallRec, WaitRec
<1>3. ASSUME NEW r \in Rank, NEW f, f = [id \in DOMAIN ws[r] |-> CallOf(ws[r][id], App(ws, p, r, id))]
      PROVE  f \in Seq(CallRec) /\ Len(f) = Len(ws[r])
  <2> DEFINE x == ws[r]
  <2>1. x \in Seq(WaitRec)  BY Zenon, <1>1 DEF Typed
  <2>2. f \in [DOMAIN x -> CallRec]  BY Zenon, <1>2, <1>3
  <2> HIDE DEF x
  <2>3. Len(x) \in Nat /\ DOMAIN x = 1..Len(x)  BY <2>1
  <2>4. f \in Seq(CallRec) /\ Len(f) = Len(x)  BY <2>2, <2>3
  <2> QED  BY Zenon, <2>4 DEF x
<1> QED  BY Zenon, <1>3 DEF Abs

----------------------------------------------------------------------------
(***************************************************************************)
(* Requests on their way are no part of the calls.                         *)
(***************************************************************************)

LEMMA SameComing ==
  ASSUME NEW p, NEW p2, NEW r \in Rank,
         \A q \in Rank : \A i \in DOMAIN p[q][r] :
           p[q][r][i].type = "done" => \E j \in DOMAIN p2[q][r] : p2[q][r][j] = p[q][r][i],
         NEW id, NEW m \in Coming(p, r, id)
  PROVE  m \in Coming(p2, r, id)
<1>1. \E q \in Rank : \E i \in DOMAIN p[q][r] : m = p[q][r][i] /\ m.type = "done" /\ m.id = id
  BY SMTT(30), ComingIs
<1>5. PICK q \in Rank : \E i \in DOMAIN p[q][r] : m = p[q][r][i] /\ m.type = "done" /\ m.id = id
  BY Zenon, <1>1
<1>2. PICK i \in DOMAIN p[q][r] : m = p[q][r][i] /\ m.type = "done" /\ m.id = id  BY Zenon, <1>5
<1>3. PICK j \in DOMAIN p2[q][r] : p2[q][r][j] = m  BY Zenon, <1>2
<1>4. \E x \in Rank : \E y \in DOMAIN p2[x][r] : m = p2[x][r][y] /\ m.type = "done" /\ m.id = id
  BY Zenon, <1>2, <1>3
<1> QED  BY <1>4, ComingIs

\* p2 has the answers of p.
Has(p, p2) ==
  \A r, q \in Rank : \A i \in DOMAIN p[q][r] :
    p[q][r][i].type = "done" => \E j \in DOMAIN p2[q][r] : p2[q][r][j] = p[q][r][i]

LEMMA SameAbs ==
  ASSUME NEW ws, NEW p, NEW p2, Has(p, p2), Has(p2, p)
  PROVE  Abs(ws, p2) = Abs(ws, p)
<1>1. ASSUME NEW r \in Rank, NEW id \in DOMAIN ws[r]
      PROVE  App(ws, p2, r, id) = App(ws, p, r, id)
  <2>1. ASSUME NEW m \in Coming(p, r, id) PROVE m \in Coming(p2, r, id)
    BY Zenon, SameComing DEF Has
  <2>2. ASSUME NEW m \in Coming(p2, r, id) PROVE m \in Coming(p, r, id)
    BY Zenon, SameComing DEF Has
  <2> QED  BY <2>1, <2>2, AppSame
<1> QED  BY Zenon, <1>1 DEF Abs

LEMMA TakenAbs ==
  ASSUME NEW ws, NEW p, NEW p2, NEW a \in Rank, NEW b \in Rank, Taken(p, p2, a, b),
         p[a][b][1].type # "done"
  PROVE  Abs(ws, p2) = Abs(ws, p)
<1>1. Left(p, p2, a, b)  BY Zenon, TakenLeft
<1>2. Has(p, p2)  BY ZenonT(60), <1>1 DEF Has, Left
<1>3. ASSUME NEW r \in Rank, NEW q \in Rank, NEW i \in DOMAIN p2[q][r]
      PROVE  \E j \in DOMAIN p[q][r] : p[q][r][j] = p2[q][r][i]
  <2>1. Found(p, p2, a, b, q, r)  BY Zenon, TakenFrom
  <2> QED  BY Zenon, <2>1 DEF Found
<1>4. Has(p2, p)  BY ZenonT(60), <1>3 DEF Has
<1> QED  BY Zenon, <1>2, <1>4, SameAbs

LEMMA SentAbs ==
  ASSUME NEW ws, NEW p, NEW p2, NEW a \in Rank, NEW o \in Rank, NEW m, NEW l, Sent(p, p2, a, o, m, l),
         m.type # "done"
  PROVE  Abs(ws, p2) = Abs(ws, p)
<1>1. ASSUME NEW q \in Rank, NEW r \in Rank, ~(q = a /\ r = o) PROVE p2[q][r] = p[q][r]
  BY Zenon, <1>1 DEF Sent
<1>2. Has(p, p2)
  <2>1. \A i \in DOMAIN p[a][o] : i \in DOMAIN p2[a][o] /\ p2[a][o][i] = p[a][o][i]  BY Zenon DEF Sent
  <2> QED  BY ZenonT(60), <1>1, <2>1 DEF Has
<1>3. Has(p2, p)
  <2>1. \A i \in DOMAIN p2[a][o] : \/ i \in DOMAIN p[a][o] /\ p2[a][o][i] = p[a][o][i]
                                   \/ p2[a][o][i] = m
    BY Zenon DEF Sent
  <2> QED  BY ZenonT(60), <1>1, <2>1 DEF Has
<1> QED  BY Zenon, <1>2, <1>3, SameAbs

----------------------------------------------------------------------------
(***************************************************************************)
(* An answer arrives: Deliver.                                             *)
(***************************************************************************)

LEMMA CallExcept ==
  ASSUME NEW c \in CallRec, NEW a, NEW x
  PROVE  /\ [c EXCEPT !.seen = x] =
              [type |-> c.type, key |-> c.key, value |-> c.value, applied |-> c.applied, seen |-> x]
         /\ [c EXCEPT !.applied = a, !.seen = x] =
              [type |-> c.type, key |-> c.key, value |-> c.value, applied |-> a, seen |-> x]
<1> DEFINE u == [c EXCEPT !.applied = a]
<1>1. [c EXCEPT !.seen = x] =
        [type |-> c.type, key |-> c.key, value |-> c.value, applied |-> c.applied, seen |-> x]
  BY DEF CallRec
<1>2. u = [type |-> c.type, key |-> c.key, value |-> c.value, applied |-> a, seen |-> c.seen]
  BY DEF CallRec
<1>3. [c EXCEPT !.applied = a, !.seen = x] = [u EXCEPT !.seen = x]  OBVIOUS
<1> HIDE DEF u
<1>4. [u EXCEPT !.seen = x] =
        [type |-> c.type, key |-> c.key, value |-> c.value, applied |-> a, seen |-> x]
  BY <1>2
<1> QED  BY Zenon, <1>1, <1>3, <1>4 DEF u

\* The answer of call id of rank b arrives.
Delivered(cs, ds, b, id) ==
  /\ id \in DOMAIN cs[b] /\ cs[b][id].seen = NoAnswer /\ cs[b][id].applied # NoAnswer
  /\ ds = [cs EXCEPT ![b][id].seen = cs[b][id].applied]

LEMMA DeliverAbs ==
  ASSUME NEW s, NEW W, NEW ws, NEW p, Consistent(s, W, ws, p, {}),
         NEW a \in Rank, NEW b \in Rank, NEW p2, Taken(p, p2, a, b),
         NEW m, m = p[a][b][1], m.type = "done", NEW ws2, Ended(ws, ws2, b, m)
  PROVE  Delivered(Abs(ws, p), Abs(ws2, p2), b, m.id)
<1> DEFINE n == m.id
<1>0. PICK cs : cs = Abs(ws, p)  BY Zenon
<1>1. Consistent(s, W, ws2, p2, {}) /\ Due(s, ws, a, b, m)  BY Zenon, TakeDone
<1>2. /\ \A q \in Rank : DOMAIN ws2[q] = DOMAIN ws[q]
      /\ \A q \in Rank : \A id \in DOMAIN ws[q] :
           ws2[q][id] = IF q = b /\ id = n THEN Over(ws[q][id], m.answer) ELSE ws[q][id]
  BY Zenon DEF Ended
<1>3. n \in DOMAIN ws[b] /\ ws[b][n].answer = NoAnswer /\ m.answer # NoAnswer  BY Zenon, <1>1 DEF Due
<1>4. App(ws, p, b, n) = m.answer
  <2>1. m \in Coming(p, b, n)
    <3>1. 1 \in DOMAIN p[a][b]  BY Zenon DEF Taken
    <3>2. \E q \in Rank : \E i \in DOMAIN p[q][b] : m = p[q][b][i] /\ m.type = "done" /\ m.id = n
      BY Zenon, <3>1
    <3> QED  BY ZenonT(30), <3>2, ComingIs
  <2> QED  BY <2>1, AppComing
<1>5. ws2[b][n] = Over(ws[b][n], m.answer) /\ ws2[b][n].answer = m.answer
  <2>1. ws2[b][n] = Over(ws[b][n], m.answer)  BY Zenon, <1>2, <1>3
  <2>2. Ends1(Over(ws[b][n], m.answer), ws[b][n], m.answer)  BY Zenon, OverEnds
  <2> QED  BY Zenon, <2>1, <2>2 DEF Ends1
<1>6. App(ws2, p2, b, n) = m.answer
  <2>1. ASSUME NEW d \in Coming(p2, b, n) PROVE FALSE
    <3>1. ws2[b][n].answer = NoAnswer  BY <1>1, AppComing
    <3> QED  BY Zenon, <1>3, <1>5, <3>1
  <2>2. Coming(p2, b, n) = {}  BY Zenon, <2>1
  <2>3. App(ws2, p2, b, n) = ws2[b][n].answer  BY <2>2, AppNone
  <2> QED  BY Zenon, <1>5, <2>3
<1>7. ASSUME NEW q \in Rank, NEW id \in DOMAIN ws[q], ~(q = b /\ id = n)
      PROVE  App(ws2, p2, q, id) = App(ws, p, q, id)
  <2>1. ws2[q][id] = ws[q][id]  BY Zenon, <1>2, <1>7
  <2>2. ASSUME NEW d \in Coming(p2, q, id) PROVE d \in Coming(p, q, id)
    <3>2. \A x \in Rank : Found(p, p2, a, b, x, q)  BY Zenon, TakenFrom
    <3>1. \A x \in Rank : \A i \in DOMAIN p2[x][q] : \E j \in DOMAIN p[x][q] : p[x][q][j] = p2[x][q][i]
      BY Zenon, <3>2 DEF Found
    <3> QED  BY Zenon, <3>1, SameComing
  <2>3. ASSUME NEW d \in Coming(p, q, id) PROVE d \in Coming(p2, q, id)
    <3>1. Left(p, p2, a, b)  BY Zenon, TakenLeft
    <3>2. \E x \in Rank : \E i \in DOMAIN p[x][q] : d = p[x][q][i] /\ d.type = "done" /\ d.id = id
      BY SMTT(30), ComingIs
    <3>3. PICK x \in Rank : \E i \in DOMAIN p[x][q] : d = p[x][q][i] /\ d.type = "done" /\ d.id = id
      BY Zenon, <3>2
    <3>4. PICK i \in DOMAIN p[x][q] : d = p[x][q][i] /\ d.type = "done" /\ d.id = id  BY Zenon, <3>3
    <3>5. ~(x = a /\ q = b /\ i = 1)  BY Zenon, <1>7, <3>4
    <3>6. \E j \in DOMAIN p2[x][q] : p2[x][q][j] = d  BY Zenon, <3>1, <3>4, <3>5 DEF Left
    <3>7. \E y \in Rank : \E j \in DOMAIN p2[y][q] : d = p2[y][q][j] /\ d.type = "done" /\ d.id = id
      BY Zenon, <3>4, <3>6
    <3> QED  BY ZenonT(30), <3>7, ComingIs
  <2> QED  BY <2>1, <2>2, <2>3, AppSame
<1>8. /\ cs \in [Rank -> Seq(CallRec)]
      /\ \A r \in Rank : /\ DOMAIN cs[r] = DOMAIN ws[r]
                         /\ \A id \in DOMAIN ws[r] : cs[r][id] = CallOf(ws[r][id], App(ws, p, r, id))
  BY <1>0, AbsTyped
<1> DEFINE ds == Abs(ws2, p2)
           e == CallOf(ws2[b][n], m.answer)
<1>9. /\ ds \in [Rank -> Seq(CallRec)]
      /\ \A r \in Rank : /\ DOMAIN ds[r] = DOMAIN ws[r]
                         /\ \A id \in DOMAIN ws[r] :
                              ds[r][id] = IF r = b /\ id = n THEN e ELSE cs[r][id]
  <2>1. /\ ds \in [Rank -> Seq(CallRec)]
        /\ \A r \in Rank : /\ DOMAIN ds[r] = DOMAIN ws2[r]
                           /\ \A id \in DOMAIN ws2[r] : ds[r][id] = CallOf(ws2[r][id], App(ws2, p2, r, id))
    BY <1>1, AbsTyped
  <2> HIDE DEF ds
  <2>2. ASSUME NEW r \in Rank, NEW id \in DOMAIN ws[r], ~(r = b /\ id = n)
        PROVE  ds[r][id] = cs[r][id]
    <3>1. ds[r][id] = CallOf(ws2[r][id], App(ws2, p2, r, id))  BY Zenon, <1>2, <2>1
    <3>2. ws2[r][id] = ws[r][id]  BY Zenon, <1>2, <2>2
    <3>3. App(ws2, p2, r, id) = App(ws, p, r, id)  BY Zenon, <1>7, <2>2
    <3> QED  BY Zenon, <1>8, <3>1, <3>2, <3>3
  <2>3. ds[b][n] = CallOf(ws2[b][n], App(ws2, p2, b, n))  BY ZenonT(60), <1>2, <1>3, <2>1
  <2>4. ds[b][n] = e  BY Zenon, <1>6, <2>3
  <2> QED  BY Zenon, <1>2, <2>1, <2>2, <2>4
<1>10. cs[b][n].seen = NoAnswer /\ cs[b][n].applied = m.answer /\ cs[b][n] \in CallRec
  <2>1. cs[b][n] = CallOf(ws[b][n], m.answer)  BY Zenon, <1>3, <1>4, <1>8
  <2>2. cs[b] \in Seq(CallRec) /\ n \in DOMAIN cs[b]  BY Zenon, <1>3, <1>8
  <2>3. cs[b][n] \in CallRec  BY Zenon, <2>2, Element
  <2>5. Stands(CallOf(ws[b][n], m.answer), ws[b][n], m.answer)  BY Zenon, CallStands
  <2>4. cs[b][n].seen = ws[b][n].answer /\ cs[b][n].applied = m.answer  BY Zenon, <2>1, <2>5 DEF Stands
  <2> QED  BY Zenon, <1>3, <2>3, <2>4
<1>11. [cs[b][n] EXCEPT !.seen = m.answer] = e
  <2> DEFINE c == cs[b][n]
  <2>1. c = CallOf(ws[b][n], m.answer)  BY Zenon, <1>3, <1>4, <1>8
  <2>2. c \in CallRec  BY Zenon, <1>10
  <2>6. Stands(CallOf(ws[b][n], m.answer), ws[b][n], m.answer)  BY Zenon, CallStands
  <2>7. Ends1(Over(ws[b][n], m.answer), ws[b][n], m.answer)  BY Zenon, OverEnds
  <2>3. c.type = ws[b][n].type /\ c.key = ws[b][n].key /\ c.value = ws[b][n].value /\ c.applied = m.answer
    BY Zenon, <2>1, <2>6 DEF Stands
  <2>8. /\ ws2[b][n].type = ws[b][n].type /\ ws2[b][n].key = ws[b][n].key
        /\ ws2[b][n].value = ws[b][n].value /\ ws2[b][n].answer = m.answer
    BY Zenon, <1>5, <2>7 DEF Ends1
  <2>4. e = [type |-> ws[b][n].type, key |-> ws[b][n].key, value |-> ws[b][n].value,
             applied |-> m.answer, seen |-> m.answer]
    BY Zenon, <2>8 DEF CallOf
  <2> HIDE DEF c, e
  <2>5. [c EXCEPT !.seen = m.answer] =
          [type |-> c.type, key |-> c.key, value |-> c.value, applied |-> c.applied, seen |-> m.answer]
    BY ZenonT(60), <2>2, CallExcept
  <2> QED  BY Zenon, <2>3, <2>4, <2>5 DEF c
<1> HIDE DEF ds, e
<1>12. ds = [cs EXCEPT ![b] = [cs[b] EXCEPT ![n] = e]]
  <2>1. ds[b] = [cs[b] EXCEPT ![n] = e]
    <3> DEFINE x == cs[b]
               y == ds[b]
    <3>1. x \in Seq(CallRec) /\ y \in Seq(CallRec) /\ DOMAIN y = DOMAIN x /\ n \in DOMAIN x
          /\ \A id \in DOMAIN x : y[id] = IF id = n THEN e ELSE x[id]
      BY Zenon, <1>3, <1>8, <1>9
    <3> HIDE DEF x, y
    <3>2. y = [x EXCEPT ![n] = e]  BY <3>1
    <3> QED  BY Zenon, <3>2 DEF x, y
  <2>2. ASSUME NEW q \in Rank, q # b PROVE ds[q] = cs[q]
    <3> DEFINE x == cs[q]
               y == ds[q]
    <3>1. x \in Seq(CallRec) /\ y \in Seq(CallRec) /\ DOMAIN y = DOMAIN x /\ \A id \in DOMAIN x : y[id] = x[id]
      BY ZenonT(30), <1>8, <1>9, <2>2
    <3> HIDE DEF x, y
    <3>2. y = x  BY <3>1
    <3> QED  BY Zenon, <3>2 DEF x, y
  <2> QED  BY <1>8, <1>9, <2>1, <2>2
<1>13. Delivered(cs, ds, b, n)  BY Zenon, <1>3, <1>8, <1>10, <1>11, <1>12 DEF Delivered
<1> QED  BY Zenon, <1>0, <1>13 DEF ds

----------------------------------------------------------------------------
(***************************************************************************)
(* A new Wait: Call.                                                       *)
(***************************************************************************)

\* The call of type t for key k with value v, not answered.
NewCall(t, k, v) == [type |-> t, key |-> k, value |-> v, applied |-> NoAnswer, seen |-> NoAnswer]

Began(cs, ds, a, t, k, v) == ds = [cs EXCEPT ![a] = Append(@, NewCall(t, k, v))]

LEMMA GrownAbs ==
  ASSUME NEW s, NEW W, NEW ws, NEW p, Consistent(s, W, ws, p, {}), NEW a \in Rank,
         NEW t \in Types, NEW k \in Key, NEW v \in Value \cup {NoValue}, NEW w,
         w = [type |-> t, key |-> k, value |-> v, answer |-> NoAnswer],
         NEW ws2, NEW n, n = Len(ws[a]) + 1, Grown(ws, ws2, a, n, w)
  PROVE  Began(Abs(ws, p), Abs(ws2, p), a, t, k, v)
<1> DEFINE cs == Abs(ws, p)
           ds == Abs(ws2, p)
           e == NewCall(t, k, v)
<1>1. /\ cs \in [Rank -> Seq(CallRec)]
      /\ \A r \in Rank : /\ DOMAIN cs[r] = DOMAIN ws[r] /\ Len(cs[r]) = Len(ws[r])
                         /\ \A id \in DOMAIN ws[r] : cs[r][id] = CallOf(ws[r][id], App(ws, p, r, id))
  BY AbsTyped
<1>2. /\ ds = [r \in Rank |-> ds[r]]
      /\ \A r \in Rank : /\ DOMAIN ds[r] = DOMAIN ws2[r] /\ ds[r] = [id \in DOMAIN ws2[r] |-> ds[r][id]]
                         /\ \A id \in DOMAIN ws2[r] : ds[r][id] = CallOf(ws2[r][id], App(ws2, p, r, id))
  BY Zenon DEF Abs
<1>3. /\ n \in DOMAIN ws2[a] /\ ws2[a][n] = w
      /\ \A q \in Rank : \A id \in DOMAIN ws[q] :
           id \in DOMAIN ws2[q] /\ ws2[q][id] = ws[q][id] /\ id \in Nat /\ (q = a => id < n)
      /\ \A q \in Rank : \A id \in DOMAIN ws2[q] : id \in DOMAIN ws[q] \/ (q = a /\ id = n)
  BY Zenon DEF Grown
<1> HIDE DEF cs, ds, e
<1>4. n \notin DOMAIN ws[a]
  <2>1. n \in DOMAIN ws[a] => n \in Nat /\ n < n  BY Zenon, <1>3
  <2> QED  BY <2>1
<1>5. ASSUME NEW q \in Rank, NEW id \in DOMAIN ws[q] PROVE ds[q][id] = cs[q][id]
  <2>1. ws2[q][id] = ws[q][id] /\ id \in DOMAIN ws2[q]  BY Zenon, <1>3
  <2>2. App(ws2, p, q, id) = App(ws, p, q, id)  BY <2>1, AppSame
  <2>3. ds[q][id] = CallOf(ws2[q][id], App(ws2, p, q, id))  BY Zenon, <1>2, <2>1
  <2> QED  BY Zenon, <1>1, <2>1, <2>2, <2>3
<1>6. ds[a][n] = e
  <2>1. ASSUME NEW d \in Coming(p, a, n) PROVE FALSE
    <3>1. n \in DOMAIN ws[a]  BY AppComing
    <3> QED  BY Zenon, <1>4, <3>1
  <2>2. Coming(p, a, n) = {}  BY Zenon, <2>1
  <2>3. App(ws2, p, a, n) = ws2[a][n].answer  BY <2>2, AppNone
  <2>4. w.answer = NoAnswer /\ w.type = t /\ w.key = k /\ w.value = v  OBVIOUS
  <2>5. App(ws2, p, a, n) = NoAnswer  BY Zenon, <1>3, <2>3, <2>4
  <2>6. ds[a][n] = CallOf(w, NoAnswer)  BY Zenon, <1>2, <1>3, <2>5
  <2>7. CallOf(w, NoAnswer) = e  BY Zenon, <2>4 DEF CallOf, NewCall, e
  <2> QED  BY Zenon, <2>6, <2>7
<1>7. e \in CallRec  BY DEF e, NewCall, CallRec, Answer
<1>8. ds[a] = Append(cs[a], e)
  <2> DEFINE x == cs[a]
             y == ds[a]
             z == ws2[a]
  <2>1. /\ x \in Seq(CallRec) /\ n = Len(x) + 1 /\ z \in Seq(WaitRec)
        /\ DOMAIN y = DOMAIN z /\ y = [i \in DOMAIN z |-> y[i]]
        /\ n \in DOMAIN z /\ \A i \in DOMAIN z : i \in DOMAIN x \/ i = n
        /\ \A i \in DOMAIN x : y[i] = x[i]
        /\ y[n] = e
    BY Zenon, <1>1, <1>2, <1>3, <1>5, <1>6 DEF Grown
  <2> HIDE DEF x, y, z
  <2>8. x \in Seq(CallRec) /\ n = Len(x) + 1 /\ z \in Seq(WaitRec)  BY Zenon, <2>1
  <2>9. DOMAIN z = 1..Len(z) /\ Len(z) \in Nat /\ DOMAIN x = 1..Len(x) /\ Len(x) \in Nat /\ n \in Nat
    BY <2>8
  <2>10. n \in DOMAIN z /\ \A i \in DOMAIN z : i \in DOMAIN x \/ i = n  BY Zenon, <2>1
  <2>11. n \in 1..Len(z) /\ \A i \in 1..Len(z) : i \in 1..Len(x) \/ i = n  BY Zenon, <2>9, <2>10
  <2>12. Len(z) = n
    <3>1. Len(z) \in 1..Len(z)  BY <2>9, <2>11
    <3>2. Len(z) \in 1..Len(x) \/ Len(z) = n  BY Zenon, <2>11, <3>1
    <3>3. n \in 1..Len(z)  BY Zenon, <2>11
    <3>4. n = Len(x) + 1  BY Zenon, <2>8
    <3>5. Len(z) \in Nat /\ Len(x) \in Nat  BY Zenon, <2>9
    <3> QED  BY <3>2, <3>3, <3>4, <3>5
  <2>2. DOMAIN z = 1..n /\ n \in Nat /\ DOMAIN x = 1..Len(x) /\ Len(x) \in Nat  BY Zenon, <2>9, <2>12
  <2>3. y = [i \in 1..n |-> y[i]] /\ DOMAIN y = 1..n  BY Zenon, <2>1, <2>2
  <2>4. \A i \in 1..n : y[i] = IF i <= Len(x) THEN x[i] ELSE e
    <3>1. \A i \in 1..Len(x) : y[i] = x[i]  BY Zenon, <2>1, <2>2
    <3>2. y[n] = e  BY Zenon, <2>1
    <3>3. \A i \in 1..n : i \in 1..Len(x) \/ i = n  BY <2>8, <2>2
    <3>4. \A i \in 1..Len(x) : i <= Len(x)  BY <2>2
    <3>5. ~(n <= Len(x))  BY <2>2, <2>8
    <3> QED  BY Zenon, <3>1, <3>2, <3>3, <3>4, <3>5
  <2>5. y \in [1..n -> CallRec]
    <3>1. \A i \in 1..n : i <= Len(x) => x[i] \in CallRec  BY <2>8, <2>2
    <3>2. \A i \in 1..n : y[i] \in CallRec  BY Zenon, <1>7, <2>4, <3>1
    <3> QED  BY Zenon, <2>3, <3>2
  <2>6. y \in Seq(CallRec) /\ Len(y) = n  BY <2>2, <2>5
  <2>7. y = Append(x, e)  BY <1>7, <2>2, <2>4, <2>6, <2>8
  <2> QED  BY Zenon, <2>7 DEF x, y
<1>9. ASSUME NEW q \in Rank, q # a PROVE ds[q] = cs[q]
  <2> DEFINE x == cs[q]
             y == ds[q]
  <2>3. DOMAIN ws2[q] = DOMAIN ws[q]  BY Zenon, <1>3, <1>9
  <2>1. /\ x \in Seq(CallRec) /\ DOMAIN y = DOMAIN x /\ y = [i \in DOMAIN x |-> y[i]]
        /\ \A id \in DOMAIN x : y[id] = x[id]
    BY Zenon, <1>1, <1>2, <1>5, <2>3
  <2> HIDE DEF x, y
  <2>4. x = [i \in DOMAIN x |-> x[i]]  BY <2>1
  <2>2. y = x  BY Zenon, <2>1, <2>4
  <2> QED  BY Zenon, <2>2 DEF x, y
<1>10. ds = [cs EXCEPT ![a] = Append(@, e)]  BY ZenonT(60), <1>1, <1>2, <1>8, <1>9
<1> QED  BY Zenon, <1>10 DEF Began, cs, ds, e

----------------------------------------------------------------------------
(***************************************************************************)
(* A request is processed: Takes.                                          *)
(***************************************************************************)

\* Nothing has been answered yet to the request in hand, or to a waiter.
LEMMA PendingNone ==
  ASSUME NEW s, NEW W, NEW ws, NEW p, NEW H, Consistent(s, W, ws, p, H),
         NEW q \in Rank, NEW m, Pending(ws, q, m),
         \A i \in DOMAIN p[Owner[m.key]][q] :
           p[Owner[m.key]][q][i].type = "done" => p[Owner[m.key]][q][i].id # m.id
  PROVE  App(ws, p, q, m.id) = NoAnswer
<1>1. m.id \in DOMAIN ws[q] /\ ws[q][m.id].key = m.key /\ ws[q][m.id].answer = NoAnswer
  <2>1. m.id \in DOMAIN ws[q]
        /\ ws[q][m.id] = [type |-> m.type, key |-> m.key, value |-> m.value, answer |-> NoAnswer]
    BY Zenon DEF Pending
  <2> DEFINE w == ws[q][m.id]
  <2>2. w = [type |-> m.type, key |-> m.key, value |-> m.value, answer |-> NoAnswer]  BY Zenon, <2>1
  <2> HIDE DEF w
  <2>3. w.key = m.key /\ w.answer = NoAnswer  BY ZenonT(30), <2>2
  <2> QED  BY Zenon, <2>1, <2>3 DEF w
<1>2. ASSUME NEW d \in Coming(p, q, m.id) PROVE FALSE
  <2>1. \E x \in Rank : \E i \in DOMAIN p[x][q] : d = p[x][q][i] /\ d.type = "done" /\ d.id = m.id
    BY SMTT(30), ComingIs
  <2>2. PICK x \in Rank : \E i \in DOMAIN p[x][q] : d = p[x][q][i] /\ d.type = "done" /\ d.id = m.id
    BY Zenon, <2>1
  <2>3. PICK i \in DOMAIN p[x][q] : d = p[x][q][i] /\ d.type = "done" /\ d.id = m.id  BY Zenon, <2>2
  <2>4. Line(s, ws, x, q, p[x][q])  BY Zenon DEF Consistent
  <2>5. Due(s, ws, x, q, d)  BY Zenon, <2>3, <2>4 DEF Line
  <2>6. Owner[ws[q][d.id].key] = x  BY Zenon, <2>5 DEF Due
  <2>7. Owner[m.key] = x  BY Zenon, <1>1, <2>3, <2>6
  <2> QED  BY Zenon, <2>3, <2>7
<1>3. Coming(p, q, m.id) = {}  BY Zenon, <1>2
<1>4. App(ws, p, q, m.id) = ws[q][m.id].answer  BY <1>3, AppNone
<1> QED  BY Zenon, <1>1, <1>4

\* The sets of a rank to a key take effect in the order of their calls.
LEMMA EarlierSets ==
  ASSUME NEW s, NEW W, NEW ws, NEW p, NEW m, Consistent(s, W, ws, p, {m}),
         NEW q, q = m.source, NEW j \in DOMAIN ws[q], j < m.id,
         ws[q][j].type = "set", ws[q][j].key = m.key
  PROVE  App(ws, p, q, j) # NoAnswer
<1> DEFINE o == Owner[m.key]
<1>1. /\ q \in Rank /\ m.id \in Nat /\ m.key \in Key
      /\ \A i \in DOMAIN p[q][o] : p[q][o][i].type # "done" => m.id < p[q][o][i].id
  BY Zenon DEF Consistent, InHand, Pending, AskMsg
<1>2. j \in Nat
  <2>1. ws[q] \in Seq(WaitRec)  BY Zenon, <1>1 DEF Consistent, Typed
  <2> DEFINE x == ws[q]
  <2>2. x \in Seq(WaitRec) /\ j \in DOMAIN x  BY Zenon, <2>1
  <2> HIDE DEF x
  <2> QED  BY <2>2
<1>3. Somewhere(W, ws, p, {m}, q, j)  BY Zenon, <1>1 DEF Consistent
<1>4. \/ ws[q][j].answer # NoAnswer
      \/ m.id = j
      \/ \E i \in DOMAIN p[q][o] : p[q][o][i].type # "done" /\ p[q][o][i].id = j
      \/ \E i \in DOMAIN p[o][q] : p[o][q][i].type = "done" /\ p[o][q][i].id = j
      \/ \E i \in DOMAIN W[m.key][q] : W[m.key][q][i].id = j
  BY ZenonT(60), <1>3 DEF Somewhere
<1> HIDE DEF o
<1>5. m.id # j /\ ~(m.id < j)  BY <1>1, <1>2
<1>6. CASE ws[q][j].answer # NoAnswer
  <2>1. ASSUME NEW d \in Coming(p, q, j) PROVE FALSE
    <3>1. ws[q][j].answer = NoAnswer  BY <1>1, AppComing
    <3> QED  BY Zenon, <1>6, <3>1
  <2>2. Coming(p, q, j) = {}  BY Zenon, <2>1
  <2>3. App(ws, p, q, j) = ws[q][j].answer  BY <2>2, AppNone
  <2> QED  BY Zenon, <1>6, <2>3
<1>7. CASE \E i \in DOMAIN p[q][o] : p[q][o][i].type # "done" /\ p[q][o][i].id = j
  BY Zenon, <1>1, <1>5, <1>7
<1>8. CASE \E i \in DOMAIN p[o][q] : p[o][q][i].type = "done" /\ p[o][q][i].id = j
  <2>1. PICK i \in DOMAIN p[o][q] : p[o][q][i].type = "done" /\ p[o][q][i].id = j  BY Zenon, <1>8
  <2> DEFINE d == p[o][q][i]
  <2>2. o \in Rank  BY Zenon, <1>1, OpsAssumption DEF o
  <2>3. \E x \in Rank : \E y \in DOMAIN p[x][q] : d = p[x][q][y] /\ d.type = "done" /\ d.id = j
    BY Zenon, <2>1, <2>2
  <2> HIDE DEF d
  <2>4. d \in Coming(p, q, j)  BY ZenonT(30), <2>3, ComingIs
  <2> QED  BY <1>1, <2>4, AppComing
<1>9. CASE \E i \in DOMAIN W[m.key][q] : W[m.key][q][i].id = j
  <2>1. PICK i \in DOMAIN W[m.key][q] : W[m.key][q][i].id = j  BY Zenon, <1>9
  <2> DEFINE d == W[m.key][q][i]
  <2>2. Queue(s, ws, m.key, q, W[m.key][q], p[q][o], p[o][q])  BY Zenon, <1>1 DEF Consistent, o
  <2>3. Pending(ws, q, d) /\ d.type \in {"get", "wait"} /\ d.id = j  BY Zenon, <2>1, <2>2 DEF Queue
  <2>4. ws[q][j] = [type |-> d.type, key |-> d.key, value |-> d.value, answer |-> NoAnswer]
    BY Zenon, <2>3 DEF Pending
  <2> HIDE DEF d
  <2> DEFINE w == ws[q][j]
  <2>5. w = [type |-> d.type, key |-> d.key, value |-> d.value, answer |-> NoAnswer]  BY Zenon, <2>4
  <2> HIDE DEF w
  <2>6. w.type = d.type  BY <2>5
  <2>7. ws[q][j].type = d.type  BY Zenon, <2>6 DEF w
  <2> QED  BY Zenon, <2>3, <2>7
<1> QED  BY Zenon, <1>4, <1>5, <1>6, <1>7, <1>8, <1>9

\* The Waits that the answers A are about.
Hit(A, b, id) == \E i \in DOMAIN A[b] : A[b][i].id = id

\* Call c with answer a, which its caller sees if here.
Told1(c, a, here) ==
  [type |-> c.type, key |-> c.key, value |-> c.value, applied |-> a, seen |-> IF here THEN a ELSE c.seen]

\* The calls ds are cs with the answers A, given at rank r.
Changed(cs, ds, A, r) ==
  /\ cs \in [Rank -> Seq(CallRec)] /\ ds \in [Rank -> Seq(CallRec)]
  /\ \A b \in Rank : DOMAIN ds[b] = DOMAIN cs[b]
  /\ \A b \in Rank : \A id \in DOMAIN cs[b] : ~Hit(A, b, id) => ds[b][id] = cs[b][id]
  /\ \A b \in Rank : \A i \in DOMAIN A[b] :
       /\ A[b][i].id \in DOMAIN cs[b]
       /\ ds[b][A[b][i].id] = Told1(cs[b][A[b][i].id], A[b][i].answer, b = r)

\* Request m is processed at rank r, with answers A.
Answering(s, W, ws, p, m, rep, A, s2, W2, ws2, p2, r) ==
  /\ Consistent(s, W, ws, p, {m}) /\ Consistent(s2, W2, ws2, p2, {})
  /\ r \in Rank /\ r = Owner[m.key]
  /\ Gives(s, s2, W, ws, m, rep, A) /\ Told(ws, ws2, p, p2, r, A)

\* Answer d has arrived at rank b if that is r, and is on its way otherwise.
Arrived(ws, ws2, p2, r, b, d) ==
  /\ d.id \in DOMAIN ws[b] /\ d.id \in DOMAIN ws2[b]
  /\ App(ws2, p2, b, d.id) = d.answer
  /\ ws[b][d.id].answer = NoAnswer
  /\ ws2[b][d.id] = IF b = r THEN Over(ws[b][d.id], d.answer) ELSE ws[b][d.id]

LEMMA AnswerApplied ==
  ASSUME NEW s, NEW W, NEW ws, NEW p, NEW m, NEW rep, NEW A, NEW s2, NEW W2, NEW ws2, NEW p2, NEW r,
         Answering(s, W, ws, p, m, rep, A, s2, W2, ws2, p2, r), NEW b \in Rank, NEW i \in DOMAIN A[b]
  PROVE  Arrived(ws, ws2, p2, r, b, A[b][i])
<1>0. /\ Consistent(s, W, ws, p, {m}) /\ Consistent(s2, W2, ws2, p2, {})
      /\ r \in Rank /\ r = Owner[m.key]
      /\ Gives(s, s2, W, ws, m, rep, A) /\ Told(ws, ws2, p, p2, r, A)
  BY Zenon DEF Answering
<1>7. PICK d : d = A[b][i]  BY Zenon
<1>8. PICK w : w = ws[b][d.id]  BY Zenon
<1>1. Due(s2, ws, r, b, d)  BY Zenon, <1>0, <1>7 DEF Gives
<1>2. d \in DoneMsg /\ d.id \in DOMAIN ws[b] /\ w.answer = NoAnswer /\ d.answer # NoAnswer  BY Zenon, <1>1, <1>8 DEF Due
<1>6. \A j \in DOMAIN A[b] : i # j => A[b][i].id # A[b][j].id  BY Zenon, <1>0 DEF Gives
<1>3. \A j \in DOMAIN A[b] : A[b][j].id = d.id => j = i  BY Zenon, <1>6, <1>7
<1>4. CASE b = r
  <2>1. d.id \in DOMAIN ws2[b] /\ ws2[b][d.id] = Over(w, d.answer)
    <3>1. d.id \in DOMAIN ws2[b]  BY Zenon, <1>0, <1>2, <1>4, <1>8 DEF Told
    <3>2. \/ \A j \in DOMAIN A[b] : A[b][j].id # d.id
          \/ \E j \in DOMAIN A[b] : A[b][j].id = d.id /\ ws2[b][d.id] = Over(w, A[b][j].answer)
      BY Zenon, <1>0, <1>2, <1>4, <1>8 DEF Told
    <3> QED  BY Zenon, <1>3, <1>7, <3>1, <3>2
  <2>2. ws2[b][d.id].answer = d.answer
    <3> DEFINE u == ws2[b][d.id]
    <3>1. u = Over(w, d.answer)  BY Zenon, <2>1
    <3> HIDE DEF u
    <3>2. u.answer = d.answer  BY <3>1 DEF Over
    <3> QED  BY Zenon, <3>2 DEF u
  <2>3. ASSUME NEW x \in Coming(p2, b, d.id) PROVE FALSE
    <3>1. ws2[b][d.id].answer = NoAnswer  BY <1>0, AppComing
    <3> QED  BY Zenon, <1>2, <2>2, <3>1
  <2>4. Coming(p2, b, d.id) = {}  BY Zenon, <2>3
  <2>5. App(ws2, p2, b, d.id) = ws2[b][d.id].answer  BY <2>4, AppNone
  <2> QED  BY ZenonT(60), <1>2, <1>4, <1>7, <1>8, <2>1, <2>2, <2>5 DEF Arrived
<1>5. CASE b # r
  <2>1. ws2[b] = ws[b] /\ p2[r][b] = p[r][b] \o A[b]  BY Zenon, <1>0, <1>5 DEF Told
  <2> DEFINE x == p[r][b]
             y == A[b]
             z == p2[r][b]
  <2>9. p \in [Rank -> [Rank -> Seq(AskMsg \cup DoneMsg)]]  BY Zenon, <1>0 DEF Consistent, Typed
  <2>10. A \in [Rank -> Seq(DoneMsg)]  BY Zenon, <1>0 DEF Gives
  <2>2. x \in Seq(AskMsg \cup DoneMsg) /\ y \in Seq(DoneMsg)  BY Zenon, <1>0, <2>9, <2>10
  <2>3. z = x \o y /\ i \in DOMAIN y /\ d = y[i]  BY Zenon, <1>7, <2>1
  <2> HIDE DEF x, y, z
  <2>4. Len(x) + i \in DOMAIN z /\ z[Len(x) + i] = y[i]  BY <2>2, <2>3
  <2>5. d.type = "done"  BY Zenon, <1>2 DEF DoneMsg
  <2>6. \E q \in Rank : \E j \in DOMAIN p2[q][b] : d = p2[q][b][j] /\ d.type = "done" /\ d.id = d.id
    <3>1. d = z[Len(x) + i]  BY Zenon, <2>3, <2>4
    <3> QED  BY Zenon, <1>0, <2>4, <2>5, <3>1 DEF z
  <2>7. d \in Coming(p2, b, d.id)  BY <2>6, ComingIs
  <2>8. App(ws2, p2, b, d.id) = d.answer  BY <1>0, <2>7, AppComing
  <2> QED  BY ZenonT(60), <1>2, <1>5, <1>7, <1>8, <2>1, <2>8 DEF Arrived
<1> QED  BY Zenon, <1>4, <1>5

\* The answers A can be sent after the messages p.
Sendable(p, A, r) ==
  A \in [Rank -> Seq(DoneMsg)] /\ p \in [Rank -> [Rank -> Seq(AskMsg \cup DoneMsg)]] /\ p[r][r] = <<>>

LEMMA NoAnswerSame ==
  ASSUME NEW ws, NEW p, NEW A, NEW ws2, NEW p2, NEW r \in Rank, Told(ws, ws2, p, p2, r, A),
         Sendable(p, A, r),
         NEW b \in Rank, NEW id \in DOMAIN ws[b], ~Hit(A, b, id)
  PROVE  App(ws2, p2, b, id) = App(ws, p, b, id) /\ ws2[b][id] = ws[b][id]
<1>1. ws2[b][id] = ws[b][id]
  <2>1. CASE b # r  BY Zenon, <2>1 DEF Told
  <2>2. CASE b = r
    <3>1. \/ ws2[r][id] = ws[r][id]
          \/ \E i \in DOMAIN A[r] : A[r][i].id = id
      BY Zenon, <2>2 DEF Told
    <3> QED  BY Zenon, <2>2, <3>1 DEF Hit
  <2> QED  BY Zenon, <2>1, <2>2
<1>2. ASSUME NEW q \in Rank, ~(q = r /\ b # r) PROVE p2[q][b] = p[q][b]
  <2>1. CASE q # r  BY Zenon, <2>1 DEF Told
  <2>2. CASE q = r /\ b = r  BY Zenon, <2>2 DEF Told, Sendable
  <2> QED  BY Zenon, <1>2, <2>1, <2>2
<1>3. ASSUME b # r
      PROVE  /\ \A i \in DOMAIN p[r][b] : i \in DOMAIN p2[r][b] /\ p2[r][b][i] = p[r][b][i]
             /\ \A i \in DOMAIN p2[r][b] : \/ i \in DOMAIN p[r][b] /\ p2[r][b][i] = p[r][b][i]
                                          \/ \E j \in DOMAIN A[b] : p2[r][b][i] = A[b][j]
  <2> DEFINE x == p[r][b]
             y == A[b]
             z == p2[r][b]
  <2>1. x \in Seq(AskMsg \cup DoneMsg) /\ y \in Seq(DoneMsg) /\ z = x \o y  BY ZenonT(60), <1>3 DEF Told, Sendable
  <2> HIDE DEF x, y, z
  <2>2. \A i \in DOMAIN x : i \in DOMAIN z /\ z[i] = x[i]  BY <2>1
  <2>3. \A i \in DOMAIN z : \/ i \in DOMAIN x /\ z[i] = x[i]
                            \/ i - Len(x) \in DOMAIN y /\ z[i] = y[i - Len(x)]
    BY <2>1
  <2>4. \A i \in DOMAIN z : \/ i \in DOMAIN x /\ z[i] = x[i]
                            \/ \E j \in DOMAIN y : z[i] = y[j]
    BY Zenon, <2>3
  <2> QED  BY Zenon, <2>2, <2>4 DEF x, y, z
<1>4. ASSUME NEW d \in Coming(p, b, id) PROVE d \in Coming(p2, b, id)
  <2>1. \A q \in Rank : \A i \in DOMAIN p[q][b] : \E j \in DOMAIN p2[q][b] : p2[q][b][j] = p[q][b][i]
    BY Zenon, <1>2, <1>3
  <2> QED  BY Zenon, <2>1, SameComing
<1>5. ASSUME NEW d \in Coming(p2, b, id) PROVE d \in Coming(p, b, id)
  <2>1. \E q \in Rank : \E i \in DOMAIN p2[q][b] : d = p2[q][b][i] /\ d.type = "done" /\ d.id = id
    BY SMTT(30), ComingIs
  <2>2. PICK q \in Rank : \E i \in DOMAIN p2[q][b] : d = p2[q][b][i] /\ d.type = "done" /\ d.id = id
    BY Zenon, <2>1
  <2>3. PICK i \in DOMAIN p2[q][b] : d = p2[q][b][i] /\ d.type = "done" /\ d.id = id  BY Zenon, <2>2
  <2>4. ASSUME NEW j \in DOMAIN A[b], d = A[b][j] PROVE FALSE  BY Zenon, <2>3, <2>4 DEF Hit
  <2>5. \E j \in DOMAIN p[q][b] : p[q][b][j] = d  BY Zenon, <1>2, <1>3, <2>3, <2>4
  <2>6. \E x \in Rank : \E j \in DOMAIN p[x][b] : d = p[x][b][j] /\ d.type = "done" /\ d.id = id
    BY Zenon, <2>3, <2>5
  <2> QED  BY <2>6, ComingIs
<1>6. App(ws2, p2, b, id) = App(ws, p, b, id)  BY <1>1, <1>4, <1>5, AppSame, SMTT(30)
<1> QED  BY ZenonT(60), <1>1, <1>6

LEMMA ProcessChanged ==
  ASSUME NEW s, NEW W, NEW ws, NEW p, NEW m, NEW rep, NEW A, NEW s2, NEW W2, NEW ws2, NEW p2,
         NEW r, Answering(s, W, ws, p, m, rep, A, s2, W2, ws2, p2, r)
  PROVE  Changed(Abs(ws, p), Abs(ws2, p2), A, r)
<1> DEFINE cs == Abs(ws, p)
           ds == Abs(ws2, p2)
<1>0. /\ Consistent(s, W, ws, p, {m}) /\ Consistent(s2, W2, ws2, p2, {})
      /\ r \in Rank /\ r = Owner[m.key]
      /\ Gives(s, s2, W, ws, m, rep, A) /\ Told(ws, ws2, p, p2, r, A)
  BY Zenon DEF Answering
<1>1. /\ cs \in [Rank -> Seq(CallRec)]
      /\ \A b \in Rank : /\ DOMAIN cs[b] = DOMAIN ws[b]
                         /\ \A id \in DOMAIN ws[b] : cs[b][id] = CallOf(ws[b][id], App(ws, p, b, id))
  BY <1>0, AbsTyped
<1>2. /\ ds \in [Rank -> Seq(CallRec)]
      /\ \A b \in Rank : /\ DOMAIN ds[b] = DOMAIN ws2[b]
                         /\ \A id \in DOMAIN ws2[b] : ds[b][id] = CallOf(ws2[b][id], App(ws2, p2, b, id))
  BY <1>0, AbsTyped
<1> HIDE DEF cs, ds
<1>3. \A b \in Rank : DOMAIN ws2[b] = DOMAIN ws[b]  BY Zenon, <1>0 DEF Told
<1>4. Sendable(p, A, r)  BY Zenon, <1>0 DEF Sendable, Consistent, Typed, Gives
<1>5. ASSUME NEW b \in Rank, NEW id \in DOMAIN ws[b], ~Hit(A, b, id)
      PROVE  ds[b][id] = cs[b][id]
  <2>1. App(ws2, p2, b, id) = App(ws, p, b, id) /\ ws2[b][id] = ws[b][id]  BY <1>0, <1>4, <1>5, NoAnswerSame
  <2>2. ds[b][id] = CallOf(ws2[b][id], App(ws2, p2, b, id))  BY Zenon, <1>2, <1>3
  <2>3. cs[b][id] = CallOf(ws[b][id], App(ws, p, b, id))  BY Zenon, <1>1
  <2> QED  BY Zenon, <2>1, <2>2, <2>3
<1>6. ASSUME NEW b \in Rank, NEW i \in DOMAIN A[b]
      PROVE  /\ A[b][i].id \in DOMAIN cs[b]
             /\ ds[b][A[b][i].id] = Told1(cs[b][A[b][i].id], A[b][i].answer, b = r)
  <2> DEFINE d == A[b][i]
             w == ws[b][d.id]
             u == ws2[b][d.id]
             c == cs[b][d.id]
             e == ds[b][d.id]
  <2>6. Arrived(ws, ws2, p2, r, b, A[b][i])  BY Zenon, AnswerApplied
  <2>7. Arrived(ws, ws2, p2, r, b, d)  BY Zenon, <2>6
  <2> HIDE DEF d
  <2>1. /\ d.id \in DOMAIN ws[b] /\ d.id \in DOMAIN ws2[b]
        /\ App(ws2, p2, b, d.id) = d.answer
        /\ w.answer = NoAnswer
        /\ u = IF b = r THEN Over(w, d.answer) ELSE w
    BY Zenon, <2>7 DEF Arrived
  <2>2. e = CallOf(u, d.answer) /\ c = CallOf(w, App(ws, p, b, d.id))
    <3>1. e = CallOf(u, App(ws2, p2, b, d.id))  BY Zenon, <1>2, <2>1
    <3> QED  BY Zenon, <1>1, <2>1, <3>1
  <2> HIDE DEF w, u, c, e
  <2>3. c.type = w.type /\ c.key = w.key /\ c.value = w.value /\ c.seen = w.answer  BY ZenonT(30), <2>2, CallFields
  <2>4. u.type = w.type /\ u.key = w.key /\ u.value = w.value
        /\ u.answer = IF b = r THEN d.answer ELSE w.answer
    <3>1. CASE b = r
      <4>1. u = Over(w, d.answer)  BY Zenon, <2>1, <3>1
      <4> QED  BY ZenonT(30), <3>1, <4>1 DEF Over
    <3>2. CASE b # r  BY Zenon, <2>1, <3>2
    <3> QED  BY Zenon, <3>1, <3>2
  <2>5. e = Told1(c, d.answer, b = r)
    <3>1. CASE b = r  BY Zenon, <2>2, <2>3, <2>4, <3>1 DEF CallOf, Told1
    <3>2. CASE b # r  BY Zenon, <2>2, <2>3, <2>4, <3>2 DEF CallOf, Told1
    <3> QED  BY Zenon, <3>1, <3>2
  <2> QED  BY Zenon, <1>1, <2>1, <2>5 DEF c, d, e
<1>7. \A b \in Rank : \A id \in DOMAIN cs[b] : ~Hit(A, b, id) => ds[b][id] = cs[b][id]
  BY Zenon, <1>1, <1>5
<1>8. \A b \in Rank : DOMAIN ds[b] = DOMAIN cs[b]  BY Zenon, <1>1, <1>2, <1>3
<1>9. Changed(cs, ds, A, r)  BY Zenon, <1>1, <1>2, <1>6, <1>7, <1>8 DEF Changed
<1> QED  BY Zenon, <1>9 DEF cs, ds

\* The answers A are for the calls S of cs; they are v to a get, u to any other.
Hits(cs, A, S) == \A b \in Rank : \A id \in DOMAIN cs[b] : <<b, id>> \in S <=> Hit(A, b, id)
Tells(cs, A, v, u) ==
  \A b \in Rank : \A i \in DOMAIN A[b] : A[b][i].answer = IF cs[b][A[b][i].id].type = "get" THEN v ELSE u
Gets(cs, ds, S, v, u, r) == ds = Atomic!Answered(cs, S, v, u, r)

LEMMA AnsweredIs ==
  ASSUME NEW cs, NEW ds, NEW A, NEW r, Changed(cs, ds, A, r), NEW S, NEW v, NEW u,
         Hits(cs, A, S), Tells(cs, A, v, u)
  PROVE  Gets(cs, ds, S, v, u, r)
<1> DEFINE a(b, id) == IF cs[b][id].type = "get" THEN v ELSE u
           new(b, id) == IF <<b, id>> \in S
                         THEN [cs[b][id] EXCEPT !.applied = a(b, id),
                                                !.seen = IF b = r THEN a(b, id) ELSE @]
                         ELSE cs[b][id]
<1>1. ASSUME NEW b \in Rank, NEW id \in DOMAIN cs[b]
      PROVE  ds[b][id] = new(b, id)
  <2>1. CASE ~Hit(A, b, id)  BY Zenon, <2>1 DEF Changed, Hits
  <2>2. CASE Hit(A, b, id)
    <3> DEFINE c == cs[b][id]
               x == a(b, id)
    <3>1. PICK i \in DOMAIN A[b] : A[b][i].id = id  BY Zenon, <2>2 DEF Hit
    <3>2. A[b][i].answer = x  BY Zenon, <3>1 DEF Tells
    <3>7. ds[b][A[b][i].id] = Told1(cs[b][A[b][i].id], A[b][i].answer, b = r)  BY Zenon DEF Changed
    <3>3. ds[b][id] = Told1(c, x, b = r)  BY Zenon, <3>1, <3>2, <3>7
    <3>4. c \in CallRec
      <4>1. cs[b] \in Seq(CallRec)  BY Zenon DEF Changed
      <4> QED  BY Zenon, <4>1, Element
    <3>5. new(b, id) = [c EXCEPT !.applied = x, !.seen = IF b = r THEN x ELSE c.seen]  BY Zenon, <2>2 DEF Hits
    <3> HIDE DEF c, x
    <3>6. [c EXCEPT !.applied = x, !.seen = IF b = r THEN x ELSE c.seen] = Told1(c, x, b = r)
      BY ZenonT(60), <3>4, CallExcept DEF Told1
    <3> QED  BY Zenon, <3>3, <3>5, <3>6
  <2> QED  BY Zenon, <2>1, <2>2
<1>2. ASSUME NEW b \in Rank PROVE ds[b] = [id \in DOMAIN cs[b] |-> new(b, id)]
  <2> DEFINE y == ds[b]
             D == DOMAIN cs[b]
  <2>1. y \in Seq(CallRec) /\ DOMAIN y = D  BY Zenon DEF Changed
  <2>2. \A id \in D : y[id] = new(b, id)  BY Zenon, <1>1
  <2> HIDE DEF y, new
  <2>3. y = [id \in DOMAIN y |-> y[id]]  BY <2>1
  <2> HIDE DEF D
  <2>4. y = [id \in D |-> new(b, id)]  BY Zenon, <2>1, <2>2, <2>3
  <2> QED  BY Zenon, <2>4 DEF y, D
<1>3. ds = [b \in Rank |-> ds[b]]  BY Zenon DEF Changed
<1>4. ds = [b \in Rank |-> [id \in DOMAIN cs[b] |-> new(b, id)]]
  <2> HIDE DEF new
  <2> QED  BY Zenon, <1>2, <1>3
<1> QED  BY Zenon, <1>4 DEF Atomic!Answered, Gets

----------------------------------------------------------------------------
(***************************************************************************)
(* Processing a request.                                                   *)
(***************************************************************************)

\* Request m is one of the calls cs, and its turn has come.
Ready(cs, m, q) ==
  /\ m \in AskMsg /\ m.key \in Key /\ q \in Rank /\ m.type \in Types
  /\ m.id \in DOMAIN cs[q]
  /\ cs[q][m.id].type = m.type /\ cs[q][m.id].key = m.key
  /\ cs[q][m.id].value = m.value /\ cs[q][m.id].applied = NoAnswer
  /\ \A j \in 1..m.id - 1 :
       cs[q][j].type = "set" /\ cs[q][j].key = m.key => cs[q][j].applied # NoAnswer

LEMMA Requested ==
  ASSUME NEW s, NEW W, NEW ws, NEW p, NEW m, Consistent(s, W, ws, p, {m})
  PROVE  Ready(Abs(ws, p), m, m.source)
<1> DEFINE cs == Abs(ws, p)
           q == m.source
           w == ws[q][m.id]
           c == cs[q][m.id]
<1>1. /\ Pending(ws, q, m) /\ m \in AskMsg /\ m.key \in Key /\ q \in Rank /\ m.type \in Types
      /\ \A i \in DOMAIN p[Owner[m.key]][q] :
           p[Owner[m.key]][q][i].type = "done" => p[Owner[m.key]][q][i].id # m.id
  BY Zenon DEF Consistent, InHand, Pending, AskMsg
<1>2. App(ws, p, q, m.id) = NoAnswer  BY ZenonT(60), <1>1, PendingNone
<1>3. Asked(ws, q, m)  BY Zenon, <1>1, PendingFields
<1>4. /\ m.id \in DOMAIN ws[q] /\ w.type = m.type /\ w.key = m.key /\ w.value = m.value
  BY Zenon, <1>3 DEF Asked
<1>5. /\ cs \in [Rank -> Seq(CallRec)]
      /\ \A b \in Rank : /\ DOMAIN cs[b] = DOMAIN ws[b]
                         /\ \A id \in DOMAIN ws[b] : cs[b][id] = CallOf(ws[b][id], App(ws, p, b, id))
  BY AbsTyped
<1>6. c = CallOf(w, NoAnswer)  BY Zenon, <1>1, <1>2, <1>4, <1>5
<1> HIDE DEF c, w, q, cs
<1>7. c.type = m.type /\ c.key = m.key /\ c.value = m.value /\ c.applied = NoAnswer
  BY <1>4, <1>6, CallFields
<1>8. ASSUME NEW j \in 1..m.id - 1, cs[q][j].type = "set", cs[q][j].key = m.key
      PROVE  cs[q][j].applied # NoAnswer
  <2>1. cs[q] \in Seq(CallRec) /\ m.id \in DOMAIN cs[q] /\ m.id \in Nat  BY ZenonT(30), <1>1, <1>4, <1>5 DEF AskMsg
  <2>2. j \in DOMAIN cs[q] /\ j < m.id  BY <1>8, <2>1
  <2>3. j \in DOMAIN ws[q] /\ cs[q][j] = CallOf(ws[q][j], App(ws, p, q, j))  BY Zenon, <1>1, <1>5, <2>2
  <2>4. /\ CallOf(ws[q][j], App(ws, p, q, j)).type = ws[q][j].type
        /\ CallOf(ws[q][j], App(ws, p, q, j)).key = ws[q][j].key
        /\ CallOf(ws[q][j], App(ws, p, q, j)).applied = App(ws, p, q, j)
    BY ZenonT(60), CallFields
  <2>5. ws[q][j].type = "set" /\ ws[q][j].key = m.key  BY Zenon, <1>8, <2>3, <2>4
  <2>6. App(ws, p, q, j) # NoAnswer  BY ZenonT(30), <2>2, <2>3, <2>5, EarlierSets DEF q
  <2> QED  BY Zenon, <2>3, <2>4, <2>6
<1> QED  BY ZenonT(60), <1>1, <1>4, <1>5, <1>7, <1>8 DEF c, w, q, cs, Ready

\* A call that a set wakes up waits for the key.
Waits(cs, k, b, id) == id \in DOMAIN cs[b] /\ <<b, id>> \in Atomic!Waiting(cs, k)

LEMMA WokenWaits ==
  ASSUME NEW s, NEW W, NEW ws, NEW p, NEW H, Consistent(s, W, ws, p, H),
         NEW k \in Key, NEW b \in Rank, NEW j \in DOMAIN W[k][b]
  PROVE  Waits(Abs(ws, p), k, b, W[k][b][j].id)
<1> DEFINE cs == Abs(ws, p)
           m == W[k][b][j]
           w == ws[b][m.id]
           c == cs[b][m.id]
<1>1. /\ Pending(ws, b, m) /\ m.key = k /\ m.type \in {"get", "wait"}
      /\ \A i \in DOMAIN p[Owner[k]][b] : p[Owner[k]][b][i].type = "done" => m.id # p[Owner[k]][b][i].id
  <2>1. Queue(s, ws, k, b, W[k][b], p[b][Owner[k]], p[Owner[k]][b])  BY Zenon DEF Consistent
  <2> QED  BY Zenon, <2>1 DEF Queue
<1>2. App(ws, p, b, m.id) = NoAnswer  BY ZenonT(60), <1>1, PendingNone
<1>3. Asked(ws, b, m)  BY Zenon, <1>1, PendingFields
<1> HIDE DEF m
<1>4. m.id \in DOMAIN ws[b] /\ w.type = m.type /\ w.key = m.key  BY Zenon, <1>3 DEF Asked
<1>5. /\ cs \in [Rank -> Seq(CallRec)]
      /\ \A a \in Rank : /\ DOMAIN cs[a] = DOMAIN ws[a]
                         /\ \A id \in DOMAIN ws[a] : cs[a][id] = CallOf(ws[a][id], App(ws, p, a, id))
  BY AbsTyped
<1>6. c = CallOf(w, NoAnswer) /\ m.id \in DOMAIN cs[b]  BY Zenon, <1>2, <1>4, <1>5
<1> HIDE DEF c, w, cs
<1>7. c.type \in {"get", "wait"} /\ c.key = k /\ c.applied = NoAnswer
  BY <1>1, <1>4, <1>6, CallFields
<1> DEFINE x == <<b, m.id>>
<1>8. x \in UNION {{a} \X DOMAIN cs[a] : a \in Rank} /\ x[1] = b /\ x[2] = m.id
  <2>1. x \in {b} \X DOMAIN cs[b] /\ x[1] = b /\ x[2] = m.id  BY <1>6
  <2> QED  BY Zenon, <2>1
<1> HIDE DEF x
<1>9. x \in Atomic!Waiting(cs, k)  BY Zenon, <1>7, <1>8 DEF Atomic!Waiting, c
<1> QED  BY Zenon, <1>6, <1>9 DEF x, m, cs, Waits

\* A set answers the calls S that wait for its key, and itself.
LEMMA SetHits ==
  ASSUME NEW s, NEW s2, NEW W, NEW ws, NEW p, NEW m, NEW rep, NEW A, Consistent(s, W, ws, p, {m}),
         Gives(s, s2, W, ws, m, rep, A), m.type = "set", rep # NoAnswer
  PROVE  \E S \in SUBSET Atomic!Waiting(Abs(ws, p), m.key) : Hits(Abs(ws, p), A, S \cup {<<m.source, m.id>>})
<1> DEFINE cs == Abs(ws, p)
           S == {x \in Atomic!Waiting(cs, m.key) : Hit(A, x[1], x[2])}
<1>1. Ready(cs, m, m.source)  BY Zenon, Requested
<1>2. m.key \in Key  BY Zenon, <1>1 DEF Ready
<1>3. \A b \in Rank : \A j \in DOMAIN W[m.key][b] : Waits(cs, m.key, b, W[m.key][b][j].id)
  BY Zenon, <1>2, WokenWaits
<1> HIDE DEF cs
<1>4. ASSUME NEW b \in Rank, NEW id \in DOMAIN cs[b]
      PROVE  <<b, id>> \in S \cup {<<m.source, m.id>>} <=> Hit(A, b, id)
  <2> DEFINE x == <<b, id>>
  <2>1. x[1] = b /\ x[2] = id  OBVIOUS
  <2>2. ASSUME Hit(A, b, id) PROVE x \in S \cup {<<m.source, m.id>>}
    <3>1. PICK i \in DOMAIN A[b] : A[b][i].id = id  BY Zenon, <2>2 DEF Hit
    <3>2. \/ \E j \in DOMAIN W[m.key][b] : W[m.key][b][j].id = A[b][i].id
          \/ b = m.source /\ A[b][i].id = m.id
      BY Zenon DEF Gives
    <3>3. CASE \E j \in DOMAIN W[m.key][b] : W[m.key][b][j].id = id
      <4>1. x \in Atomic!Waiting(cs, m.key)  BY Zenon, <1>3, <3>3 DEF Waits
      <4> HIDE DEF x
      <4> QED  BY Zenon, <2>1, <2>2, <4>1
    <3>4. CASE b = m.source /\ id = m.id  BY Zenon, <3>4
    <3> QED  BY Zenon, <3>1, <3>2, <3>3, <3>4
  <2>3. ASSUME x \in S PROVE Hit(A, b, id)
    <3> HIDE DEF x
    <3> QED  BY Zenon, <2>1, <2>3
  <2>4. ASSUME x = <<m.source, m.id>> PROVE Hit(A, b, id)
    <3>1. b = m.source /\ id = m.id  BY <2>4
    <3> QED  BY Zenon, <3>1 DEF Gives, Hit
  <2> QED  BY Zenon, <2>2, <2>3, <2>4
<1> HIDE DEF S
<1>5. S \in SUBSET Atomic!Waiting(cs, m.key)  BY Zenon DEF S
<1>6. Hits(cs, A, S \cup {<<m.source, m.id>>})  BY Zenon, <1>4 DEF Hits
<1> QED  BY ZenonT(60), <1>5, <1>6 DEF cs

\* Any other request that is not put off answers itself only.
LEMMA OneHit ==
  ASSUME NEW s, NEW s2, NEW W, NEW ws, NEW m, NEW rep, NEW A, Gives(s, s2, W, ws, m, rep, A),
         m.type # "set", rep # NoAnswer, NEW b \in Rank, NEW id
  PROVE  <<b, id>> \in {<<m.source, m.id>>} <=> Hit(A, b, id)
<1>1. ASSUME Hit(A, b, id) PROVE <<b, id>> = <<m.source, m.id>>  BY Zenon, <1>1 DEF Hit, Gives
<1>2. ASSUME <<b, id>> = <<m.source, m.id>> PROVE Hit(A, b, id)
  <2>1. b = m.source /\ id = m.id  BY <1>2
  <2> QED  BY Zenon, <2>1 DEF Gives, Hit
<1> QED  BY Zenon, <1>1, <1>2

\* Without answers nothing changes.
LEMMA NoHits ==
  ASSUME NEW cs, NEW ds, NEW A, NEW r, Changed(cs, ds, A, r), \A b \in Rank : \A i \in DOMAIN A[b] : FALSE
  PROVE  ds = cs
<1>1. ASSUME NEW b \in Rank PROVE ds[b] = cs[b]
  <2> DEFINE x == cs[b]
             y == ds[b]
  <2>1. x \in Seq(CallRec) /\ y \in Seq(CallRec) /\ DOMAIN y = DOMAIN x  BY Zenon DEF Changed
  <2>2. \A id \in DOMAIN x : y[id] = x[id]  BY Zenon DEF Changed, Hit
  <2> HIDE DEF x, y
  <2>3. x = [id \in DOMAIN x |-> x[id]] /\ y = [id \in DOMAIN y |-> y[id]]  BY <2>1
  <2>4. y = x  BY Zenon, <2>1, <2>2, <2>3
  <2> QED  BY Zenon, <2>4 DEF x, y
<1>2. cs = [b \in Rank |-> cs[b]] /\ ds = [b \in Rank |-> ds[b]]  BY Zenon DEF Changed
<1> QED  BY Zenon, <1>1, <1>2

\* A request is put off, or its call takes effect at the rank that owns the key.
LEMMA ProcessTakes ==
  ASSUME NEW ws, NEW p, NEW m, Consistent(store, storeWaiters, ws, p, {m}),
         ProcessRequest(Owner[m.key], m, ws, p)
  PROVE  \/ AtomicCalls' = Abs(ws, p) /\ store' = store
         \/ Atomic!Takes(Abs(ws, p), m.source, m.id, Owner[m.key])
<1> DEFINE A == [b \in Rank |-> Answers(m, b)]
           r == Owner[m.key]
           cs == Abs(ws, p)
           ds == Abs(waits', path')
           rep == Reply(m)
           q == m.source
           c == cs[q][m.id]
<1>1. Ready(cs, m, q)  BY Zenon, Requested
<1>2. /\ m \in AskMsg /\ m.key \in Key /\ r \in Rank /\ store \in Table
  BY Zenon, <1>1, OpsAssumption DEF Ready, Consistent, Typed
<1>3. Gives(store, store', storeWaiters, ws, m, rep, A) /\ Says(ws, m, rep, A)
  BY Zenon, GivesAnswers DEF ProcessRequest
<1>4. Kept(store, store', storeWaiters, storeWaiters', m, rep)  BY Zenon, KeptTable DEF ProcessRequest
<1>5. Told(ws, waits', p, path', r, A)  BY Zenon, <1>2, ToldAnswers
<1>6. Consistent(store', storeWaiters', waits', path', {})  BY Zenon, ProcessInv
<1> HIDE DEF A
<1>7. Answering(store, storeWaiters, ws, p, m, rep, A, store', storeWaiters', waits', path', r)
  BY Zenon, <1>2, <1>3, <1>5, <1>6 DEF Answering
<1>8. Changed(cs, ds, A, r)  BY Zenon, <1>7, ProcessChanged
<1>9. AtomicCalls' = ds  BY Zenon, AbsIs
<1>10. \A b \in Rank : \A i \in DOMAIN A[b] : cs[b][A[b][i].id].type = ws[b][A[b][i].id].type
  <2> SUFFICES ASSUME NEW b \in Rank, NEW i \in DOMAIN A[b]
               PROVE  cs[b][A[b][i].id].type = ws[b][A[b][i].id].type
    BY Zenon
  <2>1. A[b][i].id \in DOMAIN ws[b]  BY Zenon, <1>3 DEF Gives, Due
  <2>2. cs[b][A[b][i].id] = CallOf(ws[b][A[b][i].id], App(ws, p, b, A[b][i].id))  BY <2>1, AbsTyped
  <2>3. Stands(CallOf(ws[b][A[b][i].id], App(ws, p, b, A[b][i].id)), ws[b][A[b][i].id], App(ws, p, b, A[b][i].id))
    BY Zenon, CallStands
  <2> QED  BY Zenon, <2>2, <2>3 DEF Stands
<1>11. /\ m.type = "set" => rep = "ok" /\ store' = [store EXCEPT ![m.key] = m.value]
       /\ m.type = "check" => rep = IF store[m.key] # NoValue THEN "true" ELSE "false"
       /\ m.type = "get" => rep = IF store[m.key] # NoValue THEN store[m.key] ELSE NoAnswer
       /\ m.type = "wait" => rep = IF store[m.key] # NoValue THEN "ok" ELSE NoAnswer
       /\ m.type # "set" => store' = store
       /\ rep # NoAnswer /\ m.type \in {"get", "wait"} => store[m.key] # NoValue
  <2>1. m.type = "set" => store' = [store EXCEPT ![m.key] = m.value]  BY Zenon DEF ProcessRequest, Store
  <2>2. m.type # "set" => store' = store  BY Zenon, <1>4 DEF Kept
  <2> QED  BY ZenonT(30), <1>2, <2>1, <2>2, ReplyFacts
<1> HIDE DEF cs, ds, rep, r, q
<1>12. /\ c.applied = NoAnswer /\ c.type = m.type /\ c.key = m.key /\ c.value = m.value
       /\ \A j \in 1..m.id - 1 : cs[q][j].type = "set" /\ cs[q][j].key = c.key => cs[q][j].applied # NoAnswer
  BY Zenon, <1>1 DEF Ready
<1>13. CASE rep = NoAnswer
  <2>1. m.type \in {"get", "wait"}  BY Zenon, <1>3, <1>13 DEF Gives
  <2>2. \A b \in Rank : \A i \in DOMAIN A[b] : FALSE  BY Zenon, <1>3, <1>13, <2>1 DEF Gives
  <2>3. ds = cs  BY Zenon, <1>8, <2>2, NoHits
  <2> QED  BY Zenon, <1>9, <1>11, <2>1, <2>3 DEF cs
<1>14. CASE m.type = "set"
  <2>1. rep # NoAnswer  BY Zenon, <1>11, <1>14, OpsAssumption
  <2>6. \E S \in SUBSET Atomic!Waiting(Abs(ws, p), m.key) : Hits(Abs(ws, p), A, S \cup {<<m.source, m.id>>})
    BY Zenon, <1>3, <1>14, <2>1, SetHits
  <2>2. PICK S \in SUBSET Atomic!Waiting(cs, m.key) : Hits(cs, A, S \cup {<<q, m.id>>})
    BY Zenon, <2>6 DEF cs, q
  <2>3. Tells(cs, A, m.value, "ok")  BY ZenonT(60), <1>3, <1>10, <1>14 DEF Says, Tells
  <2>4. Gets(cs, ds, S \cup {<<q, m.id>>}, m.value, "ok", r)  BY Zenon, <1>8, <2>2, <2>3, AnsweredIs
  <2>5. Atomic!Takes(cs, q, m.id, r)  BY ZenonT(60), <1>9, <1>11, <1>12, <1>14, <2>2, <2>4 DEF Atomic!Takes, Gets
  <2> QED  BY Zenon, <2>5 DEF cs, q, r
<1>15. CASE m.type # "set" /\ rep # NoAnswer
  <2> DEFINE S == {<<q, m.id>>}
  <2>1. Hits(cs, A, S)  BY ZenonT(60), <1>3, <1>15, OneHit DEF q, Hits
  <2>2. \A b \in Rank : \A i \in DOMAIN A[b] : A[b][i].answer = rep /\ cs[b][A[b][i].id].type = m.type
    BY Zenon, <1>1, <1>3, <1>15 DEF Says, Gives, Ready, q
  <2> HIDE DEF S
  <2>3. CASE m.type \in {"get", "wait"}
    <3>1. Tells(cs, A, store[m.key], "ok")  BY Zenon, <1>11, <1>15, <2>2, <2>3 DEF Tells
    <3>2. Gets(cs, ds, S, store[m.key], "ok", r)  BY Zenon, <1>8, <2>1, <3>1, AnsweredIs
    <3>3. Atomic!Takes(cs, q, m.id, r)  BY ZenonT(60), <1>9, <1>11, <1>12, <1>15, <2>3, <3>2 DEF Atomic!Takes, S, Gets
    <3> QED  BY Zenon, <3>3 DEF cs, q, r
  <2>4. CASE m.type = "check"
    <3> DEFINE u == IF store[m.key] # NoValue THEN "true" ELSE "false"
    <3>1. Tells(cs, A, NoValue, u)  BY Zenon, <1>11, <2>2, <2>4 DEF Tells
    <3>2. Gets(cs, ds, S, NoValue, u, r)  BY Zenon, <1>8, <2>1, <3>1, AnsweredIs
    <3>3. Atomic!Takes(cs, q, m.id, r)  BY Zenon, <1>9, <1>11, <1>12, <2>4, <3>2 DEF Atomic!Takes, S, Gets
    <3> QED  BY Zenon, <3>3 DEF cs, q, r
  <2>5. m.type \in Types  BY Zenon, <1>1 DEF Ready
  <2> QED  BY Zenon, <1>15, <2>3, <2>4, <2>5 DEF Types
<1> QED  BY Zenon, <1>13, <1>14, <1>15

----------------------------------------------------------------------------
(***************************************************************************)
(* The steps.                                                              *)
(***************************************************************************)

\* A step that leaves the table, the Waits and the messages alone changes no call.
LEMMA SameAtomic ==
  ASSUME UNCHANGED <<store, waits, path>>
  PROVE  UNCHANGED Atomic!vars
BY Zenon, AbsIs DEF Atomic!vars

\* doWaitOp is a call, which takes effect at once if its key is here and has a value.
LEMMA DoWaitOpAtomic ==
  ASSUME IInv, NEW c \in Client, DoWaitOp(c)
  PROVE  Atomic!Next
<1>1. PICK m, ws : Asks(c, m, ws)  BY Zenon, Asking
<1> DEFINE cs == Abs(waits, path)
           new == Abs(ws, path)
           r == m.source
<1>2. /\ m \in AskMsg /\ m.id = Len(waits[r]) + 1
      /\ IF m.type = "set" THEN m.value \in Value ELSE m.value = NoValue
      /\ Grown(waits, ws, r, m.id, WaitOf(m))
  BY Zenon, <1>1 DEF Asks
<1>3. m.type \in Types /\ m.key \in Key /\ m.value \in Value \cup {NoValue} /\ r \in Rank
  BY Zenon, <1>2 DEF AskMsg
<1>4. Consistent(store, storeWaiters, waits, path, {}) /\ waits \in [Rank -> Seq(WaitRec)]
  BY Zenon DEF IInv, Consistent, Typed
<1>5. new = [cs EXCEPT ![r] = Append(@, NewCall(m.type, m.key, m.value))]
  <2>1. WaitOf(m) = [type |-> m.type, key |-> m.key, value |-> m.value, answer |-> NoAnswer]
    BY Zenon DEF WaitOf
  <2>2. Began(Abs(waits, path), Abs(ws, path), r, m.type, m.key, m.value)
    BY Zenon, <1>2, <1>3, <1>4, <2>1, GrownAbs
  <2> QED  BY Zenon, <2>2 DEF Began
<1>6. new = Atomic!Called(cs, r, m.type, m.key, m.value)  BY Zenon, <1>5 DEF Atomic!Called, NewCall
<1>7. AtomicCalls = cs  BY Zenon, AbsIs
<1>8. m.id = Len(new[r])
  <2>1. cs \in [Rank -> Seq(CallRec)] /\ Len(cs[r]) = Len(waits[r])  BY <1>3, <1>4, AbsTyped
  <2>2. new[r] = Append(cs[r], NewCall(m.type, m.key, m.value))  BY Zenon, <1>3, <1>5, <2>1
  <2>3. cs[r] \in Seq(CallRec) /\ NewCall(m.type, m.key, m.value) \in CallRec
    BY Zenon, <1>3, <2>1 DEF NewCall, CallRec, Answer
  <2> HIDE DEF cs, new
  <2>4. Len(Append(cs[r], NewCall(m.type, m.key, m.value))) = Len(cs[r]) + 1  BY <2>3
  <2> QED  BY Zenon, <1>2, <2>1, <2>2, <2>4
<1>9. \/ AtomicCalls' = new /\ store' = store
      \/ Atomic!Takes(new, r, m.id, r)
  <2>1. CASE /\ Owner[m.key] = r /\ Consistent(store, storeWaiters, ws, path, {m})
             /\ ProcessRequest(Owner[m.key], m, ws, path)
    <3>1. \/ AtomicCalls' = Abs(ws, path) /\ store' = store
          \/ Atomic!Takes(Abs(ws, path), m.source, m.id, Owner[m.key])
      BY Zenon, <2>1, ProcessTakes
    <3> QED  BY Zenon, <2>1, <3>1
  <2>2. CASE waits' = ws /\ store' = store /\ \E l : Sent(path, path', r, Owner[m.key], m, l)
    <3>1. PICK l : Sent(path, path', r, Owner[m.key], m, l)  BY Zenon, <2>2
    <3>2. Owner[m.key] \in Rank /\ m.type # "done"  BY Zenon, <1>3, OpsAssumption DEF Types
    <3>3. Abs(ws, path') = Abs(ws, path)  BY ZenonT(30), <1>3, <3>1, <3>2, SentAbs
    <3> QED  BY Zenon, <2>2, <3>3, AbsIs
  <2> QED  BY Zenon, <1>1, <2>1, <2>2 DEF Asks
<1> HIDE DEF cs, new, r
<1>10. Atomic!Call(cs, r, m.type, m.key, m.value)  BY Zenon, <1>6, <1>8, <1>9 DEF Atomic!Call
<1> QED  BY Zenon, <1>2, <1>3, <1>7, <1>10 DEF Atomic!Next, Types

\* processMessage of a request lets its call take effect, or puts it off; of an answer,
\* it delivers it.
LEMMA ProcessMessageAtomic ==
  ASSUME IInv, NEW q \in Rank, NEW r \in Rank, ProcessMessage(q, r)
  PROVE  [Atomic!Next]_(Atomic!vars)
<1>1. PICK m, p : Receives(q, r, m, p)  BY Zenon, Receiving
<1> DEFINE cs == Abs(waits, path)
<1>2. AtomicCalls = cs /\ AtomicCalls' = Abs(waits', path')  BY Zenon, AbsIs
<1>3. CASE m.type # "done"
  <2>1. /\ Taken(path, p, q, r) /\ m = path[q][r][1]
        /\ Consistent(store, storeWaiters, waits, p, {m}) /\ ProcessRequest(Owner[m.key], m, waits, p)
    BY Zenon, <1>1, <1>3 DEF Receives
  <2>2. Abs(waits, p) = cs  BY ZenonT(60), <1>3, <2>1, TakenAbs
  <2>3. \/ AtomicCalls' = Abs(waits, p) /\ store' = store
        \/ Atomic!Takes(Abs(waits, p), m.source, m.id, Owner[m.key])
    BY Zenon, <2>1, ProcessTakes
  <2>4. Ready(Abs(waits, p), m, m.source)  BY Zenon, <2>1, Requested
  <2>5. m.source \in Rank /\ m.id \in DOMAIN cs[m.source] /\ Owner[m.key] \in Rank
    BY Zenon, <2>2, <2>4, OpsAssumption DEF Ready
  <2> HIDE DEF cs
  <2> QED  BY Zenon, <1>2, <2>2, <2>3, <2>5 DEF Atomic!Next, Atomic!vars
<1>4. CASE m.type = "done"
  <2>1. /\ Consistent(store, storeWaiters, waits, path, {})
        /\ Taken(path, p, q, r) /\ m = path[q][r][1]
        /\ Ended(waits, waits', r, m) /\ path' = p /\ store' = store
    BY Zenon, <1>1, <1>4 DEF Receives
  <2>2. Delivered(cs, Abs(waits', p), r, m.id)  BY Zenon, <1>4, <2>1, DeliverAbs
  <2> HIDE DEF cs
  <2>3. Atomic!Deliver(cs, r, m.id)  BY Zenon, <1>2, <2>1, <2>2 DEF Atomic!Deliver, Delivered
  <2> QED  BY Zenon, <1>2, <2>2, <2>3 DEF Atomic!Next, Delivered
<1> QED  BY Zenon, <1>3, <1>4

LEMMA NextAtomic == IInv /\ [Next]_vars => [Atomic!Next]_(Atomic!vars)
<1> SUFFICES ASSUME IInv, [Next]_vars PROVE [Atomic!Next]_(Atomic!vars)  OBVIOUS
<1>1. ASSUME NEW c \in Client, Calls(c) \/ Return(c) \/ TimeOut(c)
      PROVE  UNCHANGED Atomic!vars
  <2>1. UNCHANGED <<store, waits, path>>  BY Zenon, <1>1 DEF Calls, Begin, Return, TimeOut
  <2> QED  BY Zenon, <2>1, SameAtomic
<1>2. ASSUME NEW c \in Client, DoWaitOp(c) PROVE Atomic!Next  BY Zenon, <1>2, DoWaitOpAtomic
<1>3. ASSUME NEW q \in Rank, NEW r \in Rank, ProcessMessage(q, r) PROVE [Atomic!Next]_(Atomic!vars)
  BY Zenon, <1>3, ProcessMessageAtomic
<1>4. CASE UNCHANGED vars
  <2>1. UNCHANGED <<store, waits, path>>  BY Zenon, <1>4 DEF vars
  <2> QED  BY Zenon, <2>1, SameAtomic
<1> QED  BY Zenon, <1>1, <1>2, <1>3, <1>4 DEF Next, Runs

\* The distributed table is an atomic one, whatever the ranks, the keys and where they
\* are kept: every set, get, wait and check takes effect at one moment between its
\* call and its answer, in the order in which a rank asked as far as its own sets of
\* the key go (doWaitOp, processMessage, internalStoreSetValue).
THEOREM AtomicTheorem == Spec => AtomicOperations
BY InitAtomic, Invariance, NextAtomic, PTL DEF Spec, AtomicOperations, Atomic!Spec
=============================================================================
