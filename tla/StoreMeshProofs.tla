--------------------------- MODULE StoreMeshProofs --------------------------
(***************************************************************************)
(* Every mesh that findPaths builds, of whatever size and whatever its     *)
(* random generators draw, fits the edge tables, and its breadth-first     *)
(* search ends with every rank visited and shortest first hops.            *)
(***************************************************************************)
EXTENDS StoreMesh, FiniteSetTheorems, TLAPS

(***************************************************************************)
(* Induction over the natural numbers, and functions defined by it.        *)
(***************************************************************************)

Less == {ss \in Nat \X Nat : ss[1] < ss[2]}

LEMMA LessWellFounded == IsWellFoundedOn(Less, Nat)
<1>1. OpToRel(<, Nat) = Less
  BY Zenon DEF OpToRel, Less
<1> QED BY Zenon, <1>1, NatLessThanWellFounded

\* A non-empty set of natural numbers has a least element.
LEMMA Least ==
  ASSUME NEW S \in SUBSET Nat, S # {}
  PROVE  \E x \in S : \A y \in S : x <= y
<1>1. PICK x \in S : \A y \in S : ~ (<<y, x>> \in Less)
  BY LessWellFounded, WFMin, Zenon
<1>2. ASSUME NEW y \in S PROVE x <= y
  <2>1. x \in Nat /\ y \in Nat /\ <<y, x>> \notin Less
    BY <1>1
  <2> QED BY <2>1 DEF Less
<1> QED BY <1>2

LEMMA Induct ==
  ASSUME NEW S, 0 \in S, \A n \in Nat : n \in S => n + 1 \in S
  PROVE  \A n \in Nat : n \in S
<1> SUFFICES ASSUME NEW n \in Nat, n \notin S PROVE FALSE
  OBVIOUS
<1> DEFINE T == Nat \ S
<1>1. T \in SUBSET Nat /\ T # {}
  OBVIOUS
<1>2. PICK x \in T : \A y \in T : x <= y
  BY <1>1, Least, Zenon
<1>3. x \in Nat /\ x \notin S /\ x # 0
  BY <1>2
<1>4. x - 1 \in Nat /\ x - 1 \notin T /\ (x - 1) + 1 = x
  BY <1>2, <1>3
<1> QED BY <1>3, <1>4

\* g follows F from z for n steps.
Follows(g, z, F, X, n) ==
  /\ g \in [0..n -> X] /\ g[0] = z
  /\ \A k \in 0..(n - 1) : g[k + 1] = F[g[k]]

LEMMA FollowsExists ==
  ASSUME NEW X, NEW z \in X, NEW F \in [X -> X]
  PROVE  \A n \in Nat : \E g : Follows(g, z, F, X, n)
<1> DEFINE S == {n \in Nat : \E g : Follows(g, z, F, X, n)}
<1>1. 0 \in S
  <2>1. Follows([k \in 0..0 |-> z], z, F, X, 0)
    BY DEF Follows
  <2> QED BY <2>1
<1>2. ASSUME NEW n \in Nat, n \in S PROVE n + 1 \in S
  <2>1. PICK g : Follows(g, z, F, X, n)
    BY <1>2
  <2> DEFINE h == [k \in 0..(n + 1) |-> IF k = n + 1 THEN F[g[n]] ELSE g[k]]
  <2>2. g \in [0..n -> X] /\ g[0] = z /\ \A k \in 0..(n - 1) : g[k + 1] = F[g[k]]
    BY <2>1 DEF Follows
  <2>3. g[n] \in X /\ F[g[n]] \in X
    BY <2>2
  <2>4. h \in [0..(n + 1) -> X] /\ h[0] = z
    BY <2>2, <2>3
  <2>5. ASSUME NEW k \in 0..((n + 1) - 1) PROVE h[k + 1] = F[h[k]]
    <3>1. CASE k = n
      BY <3>1
    <3>2. CASE k # n
      <4>1. k \in 0..(n - 1) /\ k + 1 \in 0..(n + 1) /\ k \in 0..(n + 1) /\ k + 1 # n + 1 /\ k # n + 1
        BY <3>2
      <4> QED BY <4>1, <2>2
    <3> QED BY <3>1, <3>2
  <2> HIDE DEF h
  <2>6. Follows(h, z, F, X, n + 1)
    BY <2>4, <2>5 DEF Follows
  <2> QED BY <2>6
<1> HIDE DEF S
<1>3. \A n \in Nat : n \in S
  BY Zenon, <1>1, <1>2, Induct
<1> QED BY Zenon, <1>3 DEF S

LEMMA FollowsUnique ==
  ASSUME NEW X, NEW z \in X, NEW F \in [X -> X]
  PROVE  \A k \in Nat : \A n, m \in Nat : \A g, h :
           (k <= n /\ k <= m /\ Follows(g, z, F, X, n) /\ Follows(h, z, F, X, m)) => g[k] = h[k]
<1> DEFINE S == {k \in Nat : \A n, m \in Nat : \A g, h :
           (k <= n /\ k <= m /\ Follows(g, z, F, X, n) /\ Follows(h, z, F, X, m)) => g[k] = h[k]}
<1>1. 0 \in S
  BY DEF Follows
<1>2. ASSUME NEW k \in Nat, k \in S PROVE k + 1 \in S
  <2> SUFFICES ASSUME NEW n \in Nat, NEW m \in Nat, NEW g, NEW h, k + 1 <= n, k + 1 <= m,
                      Follows(g, z, F, X, n), Follows(h, z, F, X, m)
               PROVE  g[k + 1] = h[k + 1]
    OBVIOUS
  <2>1. k <= n /\ k <= m /\ k \in 0..(n - 1) /\ k \in 0..(m - 1)
    OBVIOUS
  <2>2. g[k] = h[k]
    BY <1>2, <2>1
  <2>3. g[k + 1] = F[g[k]] /\ h[k + 1] = F[h[k]]
    BY <2>1 DEF Follows
  <2> QED BY <2>2, <2>3
<1> HIDE DEF S
<1>3. \A k \in Nat : k \in S
  BY Zenon, <1>1, <1>2, Induct
<1> QED BY Zenon, <1>3 DEF S

\* f is the sequence of X that starts with z and goes on with F.
Iterates(f, z, F, X) == f \in [Nat -> X] /\ f[0] = z /\ \A n \in Nat : f[n + 1] = F[f[n]]

\* A function can be defined by its value at 0 and a step.
LEMMA Recursion ==
  ASSUME NEW X, NEW z \in X, NEW F \in [X -> X]
  PROVE  \E f : Iterates(f, z, F, X)
<1> DEFINE G(n) == CHOOSE g : Follows(g, z, F, X, n)
           f == [n \in Nat |-> G(n)[n]]
<1>1. ASSUME NEW n \in Nat PROVE Follows(G(n), z, F, X, n)
  BY Zenon, FollowsExists
<1> HIDE DEF G
<1>2. ASSUME NEW n \in Nat PROVE G(n)[n] \in X
  BY <1>1 DEF Follows
<1>3. f \in [Nat -> X]
  BY <1>2
<1>4. f[0] = z
  BY <1>1 DEF Follows
<1>5. ASSUME NEW n \in Nat PROVE f[n + 1] = F[f[n]]
  <2>1. n + 1 \in Nat /\ n <= n /\ n <= n + 1 /\ n \in 0..((n + 1) - 1)
    OBVIOUS
  <2>2. Follows(G(n + 1), z, F, X, n + 1) /\ Follows(G(n), z, F, X, n)
    BY Zenon, <1>1, <2>1
  <2>3. G(n + 1)[n + 1] = F[G(n + 1)[n]]
    BY <2>1, <2>2 DEF Follows
  <2>4. G(n + 1)[n] = G(n)[n]
    BY <2>1, <2>2, FollowsUnique
  <2> QED BY <2>1, <2>3, <2>4
<1> HIDE DEF f
<1> QED BY Zenon, <1>3, <1>4, <1>5 DEF Iterates

----------------------------------------------------------------------------
(***************************************************************************)
(* The ring and the shortcuts.                                             *)
(***************************************************************************)

\* The next rank on the ring.
Succ(r) == (r + 1) % worldSize

LEMMA SuccIs ==
  ASSUME NEW r \in Ranks
  PROVE  Succ(r) = (IF r = worldSize - 1 THEN 0 ELSE r + 1) /\ Succ(r) \in Ranks
<1>1. worldSize \in Nat /\ worldSize > 0 /\ r \in Int /\ r >= 0 /\ r <= worldSize - 1
  BY WorldAssumption DEF Ranks
<1>2. CASE r = worldSize - 1
  <2>1. r + 1 = worldSize
    BY <1>1, <1>2
  <2>2. worldSize % worldSize = 0
    BY <1>1
  <2> QED BY <1>1, <1>2, <2>1, <2>2 DEF Succ, Ranks
<1>3. CASE r # worldSize - 1
  <2>1. r + 1 \in 0..(worldSize - 1)
    BY <1>1, <1>3
  <2>2. (r + 1) % worldSize = r + 1
    BY <1>1, <2>1
  <2> QED BY <1>3, <2>1, <2>2 DEF Succ, Ranks
<1> QED BY <1>2, <1>3

LEMMA SuccInjective ==
  ASSUME NEW a \in Ranks, NEW b \in Ranks, Succ(a) = Succ(b) PROVE a = b
BY SuccIs, WorldAssumption DEF Ranks

\* A set that holds s and with every rank the next one on the ring holds all ranks.
LEMMA AroundTheRing ==
  ASSUME NEW V, NEW s \in Ranks, s \in V, \A x \in Ranks : x \in V => Succ(x) \in V
  PROVE  \A x \in Ranks : x \in V
<1>0. worldSize \in Nat /\ worldSize > 0 /\ s \in Nat /\ s < worldSize
  BY WorldAssumption DEF Ranks
<1>1. ASSUME NEW x \in Nat, x \in V, x + 1 < worldSize PROVE x + 1 \in V
  <2>1. x \in Ranks /\ x # worldSize - 1
    BY <1>0, <1>1 DEF Ranks
  <2>2. Succ(x) = x + 1
    BY <2>1, SuccIs
  <2> QED BY <2>1, <2>2, <1>1
<1>2. \A j \in Nat : s + j < worldSize => s + j \in V
  <2> DEFINE S == {j \in Nat : s + j < worldSize => s + j \in V}
  <2>1. 0 \in S
    BY <1>0
  <2>2. ASSUME NEW j \in Nat, j \in S PROVE j + 1 \in S
    <3> SUFFICES ASSUME s + (j + 1) < worldSize PROVE s + (j + 1) \in V
      OBVIOUS
    <3>1. s + j \in Nat /\ s + j < worldSize /\ (s + j) + 1 = s + (j + 1)
      BY <1>0
    <3>2. s + j \in V
      BY <3>1, <2>2
    <3>3. (s + j) + 1 \in V
      BY <1>1, <3>1, <3>2
    <3> QED BY <3>1, <3>3
  <2> HIDE DEF S
  <2>3. \A j \in Nat : j \in S
    BY Zenon, <2>1, <2>2, Induct
  <2> QED BY Zenon, <2>3 DEF S
<1>3. 0 \in V
  <2>1. worldSize - 1 \in Ranks /\ (worldSize - 1) - s \in Nat
        /\ s + ((worldSize - 1) - s) = worldSize - 1 /\ worldSize - 1 < worldSize
    BY <1>0 DEF Ranks
  <2>2. worldSize - 1 \in V
    BY <1>2, <2>1
  <2> QED BY <2>1, <2>2, SuccIs
<1>4. \A x \in Nat : x < worldSize => x \in V
  <2> DEFINE S == {x \in Nat : x < worldSize => x \in V}
  <2>1. 0 \in S
    BY <1>3
  <2>2. ASSUME NEW x \in Nat, x \in S PROVE x + 1 \in S
    BY <2>2, <1>0, <1>1
  <2> HIDE DEF S
  <2>3. \A x \in Nat : x \in S
    BY Zenon, <2>1, <2>2, Induct
  <2> QED BY Zenon, <2>3 DEF S
<1> QED BY <1>0, <1>4 DEF Ranks

\* e may be an edge of r: before and behind it on the ring or, once there are
\* shortcuts, at either end of one.
Linked(ph, c, r, e) ==
  \/ Succ(r) = e \/ Succ(e) = r
  \/ ph \in {"shortcuts", "search", "done"} /\ (c[r] = e \/ c[e] = r)

\* Edges es are recorded at both ends, as the CHECK of addedge wants it.
Sane(ph, c, es) ==
  /\ es \in [Ranks -> SUBSET Ranks]
  /\ \A r \in Ranks : \A e \in es[r] : e # r /\ r \in es[e] /\ Linked(ph, c, r, e)

\* The mesh so far: the shortcuts are a permutation, and the ring is closed when
\* its phase is over.
MeshInv ==
  /\ rank \in Ranks /\ i \in 0..worldSize
  /\ phase \in {"ring", "repair", "shortcuts", "search", "done"}
  /\ connections \in Injection(Ranks, Ranks)
  /\ Sane(phase, connections, edges)
  /\ \A r \in Ranks : (phase # "ring" \/ r < i) => Succ(r) = r \/ Succ(r) \in edges[r]

LEMMA AddedgeSane ==
  ASSUME NEW ph, NEW c \in [Ranks -> Ranks], NEW es, Sane(ph, c, es), NEW r \in Ranks, NEW e \in Ranks,
         Linked(ph, c, r, e)
  PROVE  /\ Sane(ph, c, addedge(es, r, e))
         /\ \A x \in Ranks : es[x] \subseteq addedge(es, r, e)[x]
         /\ r = e \/ e \in addedge(es, r, e)[r]
<1>0. es \in [Ranks -> SUBSET Ranks]
  BY DEF Sane
<1>1. CASE r = e \/ e \in es[r]
  BY <1>1 DEF addedge
<1>2. CASE ~(r = e \/ e \in es[r])
  <2> DEFINE fs == addedge(es, r, e)
  <2>1. /\ fs \in [Ranks -> SUBSET Ranks]
        /\ fs[r] = es[r] \cup {e} /\ fs[e] = es[e] \cup {r}
        /\ \A x \in Ranks : x # r /\ x # e => fs[x] = es[x]
    BY <1>0, <1>2 DEF addedge
  <2> HIDE DEF fs
  <2>2. Linked(ph, c, e, r)
    BY DEF Linked
  <2>3. ASSUME NEW x \in Ranks, NEW y \in fs[x] PROVE y # x /\ x \in fs[y] /\ Linked(ph, c, x, y)
    <3>1. CASE y \in es[x]
      <4>1. y # x /\ x \in es[y] /\ Linked(ph, c, x, y) /\ y \in Ranks
        BY <3>1, <1>0 DEF Sane
      <4> QED BY <4>1, <2>1
    <3>2. CASE y \notin es[x]
      <4>1. (x = r /\ y = e) \/ (x = e /\ y = r)
        BY <3>2, <2>1
      <4> QED BY <4>1, <1>2, <2>1, <2>2
    <3> QED BY <3>1, <3>2
  <2>4. Sane(ph, c, fs)
    BY <2>1, <2>3 DEF Sane
  <2>5. \A x \in Ranks : es[x] \subseteq fs[x]
    BY <2>1
  <2> QED BY <2>1, <2>4, <2>5 DEF fs
<1> QED BY <1>1, <1>2

LEMMA SwapInjective ==
  ASSUME NEW c \in Injection(Ranks, Ranks), NEW r \in Ranks, NEW x \in Ranks
  PROVE  Swap(c, r, x) \in Injection(Ranks, Ranks)
<1>1. c \in [Ranks -> Ranks] /\ \A a, b \in Ranks : c[a] = c[b] => a = b
  BY DEF Injection, IsInjective
<1> DEFINE d == Swap(c, r, x)
<1>2. /\ d \in [Ranks -> Ranks] /\ d[x] = c[r] /\ d[r] = c[x]
      /\ \A a \in Ranks : a # x /\ a # r => d[a] = c[a]
  BY <1>1 DEF Swap
<1> HIDE DEF d
<1>3. ASSUME NEW a \in Ranks, NEW b \in Ranks, d[a] = d[b] PROVE a = b
  BY <1>1, <1>2, <1>3
<1> QED BY <1>2, <1>3 DEF d, Injection, IsInjective

LEMMA MeshInit == Init => MeshInv
<1> SUFFICES ASSUME Init PROVE MeshInv
  OBVIOUS
<1>1. 0 \in 0..worldSize /\ \A r \in Ranks : ~(r < 0)
  BY WorldAssumption DEF Ranks
<1>2. connections \in Injection(Ranks, Ranks)
  BY DEF Init, Injection, IsInjective
<1>3. Sane(phase, connections, edges)
  BY DEF Init, Sane
<1> QED BY <1>1, <1>2, <1>3 DEF Init, MeshInv

LEMMA MeshNext == MeshInv /\ [Next]_meshVars => MeshInv'
<1> SUFFICES ASSUME MeshInv, [Next]_meshVars PROVE MeshInv'
  OBVIOUS
<1>0. /\ worldSize \in Nat /\ worldSize > 0 /\ i \in Nat
      /\ connections \in [Ranks -> Ranks]
  BY WorldAssumption DEF MeshInv, Injection
<1>1. CASE AddRing
  <2>1. i \in Ranks /\ i + 1 \in 0..worldSize
    BY <1>0, <1>1 DEF AddRing, Ranks
  <2>2. Succ(i) \in Ranks /\ Linked(phase, connections, i, Succ(i)) /\ edges' = addedge(edges, i, Succ(i))
    BY <1>1, <2>1, SuccIs DEF AddRing, Succ, Linked
  <2>3. /\ Sane(phase, connections, edges')
        /\ \A x \in Ranks : edges[x] \subseteq edges'[x]
        /\ i = Succ(i) \/ Succ(i) \in edges'[i]
    BY ZenonT(30), <1>0, <2>1, <2>2, AddedgeSane DEF MeshInv
  <2>4. ASSUME NEW r \in Ranks, r < i + 1 PROVE Succ(r) = r \/ Succ(r) \in edges'[r]
    <3>1. r < i \/ r = i
      BY <1>0, <2>4 DEF Ranks
    <3> QED BY <3>1, <2>3 DEF MeshInv
  <2> QED BY ZenonT(30), <1>1, <2>1, <2>3, <2>4 DEF AddRing, MeshInv
<1>2. CASE Shuffle
  <2>1. \A r \in Ranks : Succ(r) = r \/ Succ(r) \in edges[r]
    BY <1>0, <1>2 DEF Shuffle, MeshInv, Ranks
  <2>2. connections' \in Injection(Ranks, Ranks) /\ phase' \in {"repair", "search"}
    BY <1>2 DEF Shuffle, MeshInv, Bijection
  <2>3. Sane(phase', connections', edges)
    BY <1>2 DEF Shuffle, MeshInv, Sane, Linked
  <2>4. i' = 0 /\ rank' = rank /\ edges' = edges /\ 0 \in 0..worldSize
    BY <1>0, <1>2 DEF Shuffle
  <2> QED BY <2>1, <2>2, <2>3, <2>4 DEF MeshInv
<1>3. ASSUME NEW x \in Ranks, Repair(x) PROVE MeshInv'
  <2>1. i \in Ranks
    BY <1>0, <1>3 DEF Repair, Ranks
  <2>2. connections' \in Injection(Ranks, Ranks)
    BY ZenonT(30), <1>3, <2>1, SwapInjective DEF Repair, MeshInv
  <2>3. Sane(phase, connections', edges)
    BY <1>3 DEF Repair, MeshInv, Sane, Linked
  <2> QED BY <1>3, <2>2, <2>3 DEF Repair, MeshInv
<1>4. CASE NextShortcut
  BY <1>0, <1>4 DEF NextShortcut, MeshInv
<1>5. CASE EndRepair
  <2>1. Sane(phase', connections', edges')
    BY <1>5 DEF EndRepair, MeshInv, Sane, Linked
  <2> QED BY <1>0, <1>5, <2>1 DEF EndRepair, MeshInv
<1>6. CASE AddShortcut
  <2>1. i \in Ranks /\ i + 1 \in 0..worldSize
    BY <1>0, <1>6 DEF AddShortcut, Ranks
  <2>2. /\ connections[i] \in Ranks /\ Linked(phase, connections, i, connections[i])
        /\ edges' = addedge(edges, i, connections[i])
    BY <1>0, <1>6, <2>1 DEF AddShortcut, Linked
  <2>3. /\ Sane(phase, connections, edges')
        /\ \A x \in Ranks : edges[x] \subseteq edges'[x]
    BY ZenonT(30), <1>0, <2>1, <2>2, AddedgeSane DEF MeshInv
  <2> QED BY <1>6, <2>1, <2>3 DEF AddShortcut, MeshInv
<1>7. CASE EndShortcuts
  <2>1. Sane(phase', connections', edges')
    BY <1>7 DEF EndShortcuts, MeshInv, Sane, Linked
  <2> QED BY <1>7, <2>1 DEF EndShortcuts, MeshInv
<1>8. CASE StartSearch \/ Expand
  <2>1. UNCHANGED <<rank, phase, connections, i, edges>>
    BY ZenonT(30), <1>8 DEF StartSearch, Expand
  <2> QED BY <2>1 DEF MeshInv
<1>9. CASE EndSearch
  <2>1. Sane(phase', connections', edges')
    BY <1>9 DEF EndSearch, MeshInv, Sane, Linked
  <2> QED BY <1>9, <2>1 DEF EndSearch, MeshInv
<1>10. CASE UNCHANGED meshVars
  BY <1>10 DEF meshVars, MeshInv
<1> QED BY ZenonT(30), <1>1, <1>2, <1>3, <1>4, <1>5, <1>6, <1>7, <1>8, <1>9, <1>10 DEF Next

LEMMA MeshInvariance == Spec => []MeshInv
BY MeshInit, MeshNext, PTL DEF Spec

LEMMA FourElements ==
  ASSUME NEW a, NEW b, NEW c, NEW d, NEW S, S \subseteq {a, b, c, d}
  PROVE  Cardinality(S) <= 4
<1>1. IsFiniteSet({a}) /\ Cardinality({a}) = 1
  BY FS_Singleton
<1>2. /\ IsFiniteSet({a} \cup {b}) /\ Cardinality({a} \cup {b}) \in {1, 2}
  BY <1>1, FS_AddElement
<1>3. /\ IsFiniteSet({a} \cup {b} \cup {c}) /\ Cardinality({a} \cup {b} \cup {c}) \in {1, 2, 3}
  BY <1>2, FS_AddElement
<1>4. /\ IsFiniteSet({a} \cup {b} \cup {c} \cup {d})
      /\ Cardinality({a} \cup {b} \cup {c} \cup {d}) \in {1, 2, 3, 4}
  BY <1>3, FS_AddElement
<1>5. S \in SUBSET ({a} \cup {b} \cup {c} \cup {d})
  OBVIOUS
<1>6. IsFiniteSet(S) /\ Cardinality(S) <= Cardinality({a} \cup {b} \cup {c} \cup {d})
  BY <1>4, <1>5, FS_Subset
<1>7. Cardinality(S) \in Nat
  BY <1>6, FS_CardinalityType
<1> QED BY <1>4, <1>6, <1>7

\* No rank has more edges than an edge table holds, in a mesh of any size: the
\* CHECK(edgePeerCount <= maxEdgePeers) of the constructor never fails.
THEOREM EdgesFitTheorem == Spec => []EdgesFit
<1>1. MeshInv => EdgesFit
  <2> SUFFICES ASSUME MeshInv, NEW r \in Ranks PROVE Cardinality(edges[r]) <= maxEdgePeers
    BY DEF EdgesFit
  <2> DEFINE p == CHOOSE e \in Ranks : Succ(e) = r
             q == CHOOSE e \in Ranks : connections[e] = r
  <2>1. edges[r] \subseteq Ranks /\ \A e \in edges[r] : Linked(phase, connections, r, e)
    BY DEF MeshInv, Sane
  <2>2. \A e \in Ranks : Succ(e) = r => e = p
    BY SuccInjective
  <2>3. \A e \in Ranks : connections[e] = r => e = q
    BY DEF MeshInv, Injection, IsInjective
  <2> HIDE DEF p, q
  <2>4. edges[r] \subseteq {Succ(r), p, connections[r], q}
    BY <2>1, <2>2, <2>3 DEF Linked
  <2>5. Cardinality(edges[r]) <= 4
    BY ZenonT(30), <2>4, FourElements
  <2> QED BY <2>5 DEF maxEdgePeers
<1> QED BY <1>1, MeshInvariance, PTL

----------------------------------------------------------------------------
(***************************************************************************)
(* Distances.                                                              *)
(***************************************************************************)

\* The ranks in b and their neighbours.
Around(b) == b \cup UNION {edges[x] : x \in b}

Edges == edges \in [Ranks -> SUBSET Ranks]

LEMMA AroundIs ==
  ASSUME Edges, NEW b \in SUBSET Ranks
  PROVE  /\ Around(b) \in SUBSET Ranks
         /\ \A y : y \in Around(b) <=> y \in b \/ \E x \in b : y \in edges[x]
<1>1. \A y : y \in UNION {edges[x] : x \in b} <=> \E x \in b : y \in edges[x]
  BY Zenon
<1>2. \A y : y \in Around(b) <=> y \in b \/ \E x \in b : y \in edges[x]
  BY Zenon, <1>1 DEF Around
<1> QED BY <1>2 DEF Edges

\* What the recursive definition of Within says.
LEMMA WithinIs ==
  ASSUME Edges, NEW r \in Ranks
  PROVE  /\ Within(edges, r, 0) = {r}
         /\ \A n \in Nat : Within(edges, r, n) \in SUBSET Ranks /\ Within(edges, r, n + 1) = Around(Within(edges, r, n))
<1> DEFINE Is(f) == f = [n \in Nat |-> IF n = 0 THEN {r} ELSE LET b == f[n - 1] IN b \cup UNION {edges[x] : x \in b}]
           ball == CHOOSE f : Is(f)
           F == [b \in SUBSET Ranks |-> Around(b)]
<1>1. \A k : Within(edges, r, k) = ball[k]
  BY Zenon DEF Within
<1>2. F \in [SUBSET Ranks -> SUBSET Ranks] /\ {r} \in SUBSET Ranks
  BY AroundIs
<1>10. PICK f : Iterates(f, {r}, F, SUBSET Ranks)
  <2> HIDE DEF F
  <2> QED BY Zenon, <1>2, Recursion
<1>3. f \in [Nat -> SUBSET Ranks] /\ f[0] = {r} /\ \A n \in Nat : f[n + 1] = F[f[n]]
  BY ZenonT(30), <1>10 DEF Iterates
<1>4. ASSUME NEW n \in Nat PROVE f[n] = IF n = 0 THEN {r} ELSE Around(f[n - 1])
  <2>1. CASE n = 0
    BY <2>1, <1>3
  <2>2. CASE n # 0
    <3>1. n - 1 \in Nat /\ (n - 1) + 1 = n
      BY <2>2
    <3>2. f[(n - 1) + 1] = F[f[n - 1]] /\ f[n - 1] \in SUBSET Ranks
      BY ZenonT(30), <3>1, <1>3
    <3> QED BY <2>2, <3>1, <3>2
  <2> QED BY <2>1, <2>2
<1>5. Is(f)
  <2>1. f = [n \in Nat |-> IF n = 0 THEN {r} ELSE Around(f[n - 1])]
    BY <1>3, <1>4
  <2> QED BY Zenon, <2>1 DEF Around
<1>6. Is(ball)
  BY Zenon, <1>5
<1> HIDE DEF ball
<1>7. ball = [n \in Nat |-> IF n = 0 THEN {r} ELSE Around(ball[n - 1])]
  BY Zenon, <1>6 DEF Around
<1>8. ball[0] = {r} /\ \A n \in Nat : ball[n + 1] = Around(ball[n])
  <2>1. 0 \in Nat /\ \A n \in Nat : n + 1 \in Nat /\ n + 1 # 0 /\ (n + 1) - 1 = n
    OBVIOUS
  <2>2. \A n \in Nat : ball[n] = IF n = 0 THEN {r} ELSE Around(ball[n - 1])
    BY Zenon, <1>7
  <2>3. ASSUME NEW n \in Nat PROVE ball[n + 1] = Around(ball[n])
    <3>1. ball[n + 1] = Around(ball[(n + 1) - 1])
      BY Zenon, <2>1, <2>2
    <3> QED BY <3>1, <2>1
  <2> QED BY Zenon, <2>1, <2>2, <2>3
<1>9. \A n \in Nat : n \in {k \in Nat : ball[k] \in SUBSET Ranks}
  <2> DEFINE S == {k \in Nat : ball[k] \in SUBSET Ranks}
  <2>1. 0 \in S
    BY <1>8
  <2>2. \A n \in Nat : n \in S => n + 1 \in S
    BY <1>8, AroundIs
  <2> HIDE DEF S
  <2>3. \A n \in Nat : n \in S
    BY Zenon, <2>1, <2>2, Induct
  <2> QED BY Zenon, <2>3 DEF S
<1> QED BY Zenon, <1>1, <1>8, <1>9

LEMMA WithinTypes ==
  ASSUME Edges, NEW r \in Ranks, NEW n \in Nat
  PROVE  /\ Within(edges, r, n) \in SUBSET Ranks
         /\ \A y : y \in Within(edges, r, n + 1) <=> y \in Within(edges, r, n) \/ \E x \in Within(edges, r, n) : y \in edges[x]
<1>1. Within(edges, r, n) \in SUBSET Ranks /\ Within(edges, r, n + 1) = Around(Within(edges, r, n))
  BY Zenon, WithinIs
<1> QED BY Zenon, <1>1, AroundIs

LEMMA WithinGrows ==
  ASSUME Edges, NEW r \in Ranks, NEW m \in Nat, NEW n \in Nat, m <= n
  PROVE  Within(edges, r, m) \subseteq Within(edges, r, n)
<1> DEFINE S == {k \in Nat : Within(edges, r, m) \subseteq Within(edges, r, m + k)}
<1>1. 0 \in S
  OBVIOUS
<1>2. ASSUME NEW k \in Nat, k \in S PROVE k + 1 \in S
  <2>1. m + k \in Nat /\ m + (k + 1) = (m + k) + 1
    OBVIOUS
  <2>2. Within(edges, r, m + k) \subseteq Within(edges, r, (m + k) + 1)
    BY Zenon, <2>1, WithinTypes
  <2>3. Within(edges, r, m) \subseteq Within(edges, r, m + k)
    BY <1>2
  <2>4. Within(edges, r, m) \subseteq Within(edges, r, m + (k + 1))
    BY <2>1, <2>2, <2>3
  <2> QED BY <2>4
<1> HIDE DEF S
<1>3. \A k \in Nat : k \in S
  BY Zenon, <1>1, <1>2, Induct
<1>4. n - m \in Nat /\ m + (n - m) = n
  OBVIOUS
<1>5. Within(edges, r, m) \subseteq Within(edges, r, m + (n - m))
  BY Zenon, <1>3, <1>4 DEF S
<1> QED BY <1>4, <1>5

\* The distance is the number of hops within which s comes into sight.
LEMMA DistanceIs ==
  ASSUME Edges, NEW r \in Ranks, NEW s \in Ranks, NEW k \in 0..worldSize,
         s \in Within(edges, r, k), k = 0 \/ s \notin Within(edges, r, k - 1)
  PROVE  Distance(edges, r, s) = k
<1> DEFINE First(j) == s \in Within(edges, r, j) /\ (j = 0 \/ s \notin Within(edges, r, j - 1))
<1>1. ASSUME NEW j \in 0..worldSize, First(j) PROVE j = k
  <2>1. j \in Nat /\ k \in Nat
    BY WorldAssumption
  <2>2. CASE j < k
    <3>1. k - 1 \in Nat /\ j <= k - 1 /\ k # 0
      BY <2>1, <2>2
    <3> QED BY <1>1, <2>1, <3>1, WithinGrows
  <2>3. CASE k < j
    <3>1. j - 1 \in Nat /\ k <= j - 1 /\ j # 0
      BY <2>1, <2>3
    <3> QED BY <1>1, <2>1, <3>1, WithinGrows
  <2> QED BY <2>1, <2>2, <2>3
<1>2. First(k)
  OBVIOUS
<1>3. Distance(edges, r, s) = CHOOSE j \in 0..worldSize : First(j)
  BY Zenon DEF Distance
<1> HIDE DEF First
<1> QED BY Zenon, <1>1, <1>2, <1>3

\* d grows by at most one from a rank to its neighbour.
Smooth(d) == d \in [Ranks -> Nat] /\ \A u \in Ranks : \A v \in edges[u] : d[v] <= d[u] + 1

LEMMA WithinBound ==
  ASSUME Edges, NEW r \in Ranks, NEW d, Smooth(d), d[r] = 0
  PROVE  \A n \in Nat : \A x \in Within(edges, r, n) : d[x] <= n
<1> DEFINE S == {n \in Nat : \A x \in Within(edges, r, n) : d[x] <= n}
<1>1. 0 \in S
  <2>1. \A x \in Within(edges, r, 0) : x = r
    BY WithinIs
  <2> QED BY <2>1
<1>2. ASSUME NEW n \in Nat, n \in S PROVE n + 1 \in S
  <2> SUFFICES ASSUME NEW x \in Within(edges, r, n + 1) PROVE d[x] <= n + 1
    OBVIOUS
  <2>1. /\ Within(edges, r, n) \in SUBSET Ranks
        /\ x \in Within(edges, r, n) \/ \E y \in Within(edges, r, n) : x \in edges[y]
    BY Zenon, WithinTypes
  <2>2. \A y \in Within(edges, r, n) : d[y] <= n /\ d[y] \in Nat
    BY <1>2, <2>1 DEF Smooth
  <2>3. CASE x \in Within(edges, r, n)
    BY <2>2, <2>3
  <2>4. CASE \E y \in Within(edges, r, n) : x \in edges[y]
    <3>1. PICK y \in Within(edges, r, n) : x \in edges[y]
      BY <2>4
    <3>2. y \in Ranks /\ x \in Ranks /\ d[x] <= d[y] + 1 /\ d[x] \in Nat /\ d[y] <= n /\ d[y] \in Nat
      BY <2>1, <2>2, <3>1 DEF Edges, Smooth
    <3> QED BY <3>2
  <2> QED BY <2>1, <2>3, <2>4
<1> HIDE DEF S
<1>3. \A n \in Nat : n \in S
  BY Zenon, <1>1, <1>2, Induct
<1> QED BY Zenon, <1>3 DEF S

\* What a neighbour f of r has within n hops, r has within one more.
LEMMA WithinShift ==
  ASSUME Edges, NEW r \in Ranks, NEW f \in edges[r]
  PROVE  \A n \in Nat : Within(edges, f, n) \subseteq Within(edges, r, n + 1)
<1>0. f \in Ranks
  BY DEF Edges
<1> DEFINE S == {n \in Nat : Within(edges, f, n) \subseteq Within(edges, r, n + 1)}
<1>1. 0 \in S
  <2>1. Within(edges, f, 0) = {f} /\ r \in Within(edges, r, 0)
    BY <1>0, WithinIs
  <2>2. f \in Within(edges, r, 0 + 1)
    BY Zenon, <2>1, WithinTypes
  <2> QED BY <2>1, <2>2
<1>2. ASSUME NEW n \in Nat, n \in S PROVE n + 1 \in S
  <2> SUFFICES ASSUME NEW y \in Within(edges, f, n + 1) PROVE y \in Within(edges, r, (n + 1) + 1)
    OBVIOUS
  <2>1. y \in Within(edges, f, n) \/ \E x \in Within(edges, f, n) : y \in edges[x]
    BY Zenon, <1>0, WithinTypes
  <2>2. Within(edges, f, n) \subseteq Within(edges, r, n + 1) /\ n + 1 \in Nat
    BY <1>2
  <2>3. y \in Within(edges, r, n + 1) \/ \E x \in Within(edges, r, n + 1) : y \in edges[x]
    BY <2>1, <2>2
  <2> QED BY Zenon, <2>2, <2>3, WithinTypes
<1> HIDE DEF S
<1>3. \A n \in Nat : n \in S
  BY Zenon, <1>1, <1>2, Induct
<1> QED BY Zenon, <1>3 DEF S

\* On a closed ring no rank is farther away than once around.
LEMMA RingBound ==
  ASSUME Edges, NEW r \in Ranks, NEW d, Smooth(d), d[r] = 0,
         \A x \in Ranks : Succ(x) = x \/ Succ(x) \in edges[x]
  PROVE  \A x \in Ranks : d[x] <= worldSize
<1> DEFINE far(x) == IF x >= r THEN x - r ELSE worldSize - r + x
           V == {x \in Ranks : d[x] <= far(x)}
<1>0. /\ worldSize \in Nat /\ worldSize > 0 /\ r \in Nat /\ r < worldSize
      /\ \A x \in Ranks : x \in Nat /\ x < worldSize /\ d[x] \in Nat
  BY WorldAssumption DEF Ranks, Smooth
<1>1. r \in V
  BY <1>0
<1>2. ASSUME NEW x \in Ranks, x \in V PROVE Succ(x) \in V
  <2>1. Succ(x) \in Ranks /\ Succ(x) = IF x = worldSize - 1 THEN 0 ELSE x + 1
    BY SuccIs
  <2>2. Succ(x) = x \/ d[Succ(x)] <= d[x] + 1
    BY DEF Smooth
  <2>3. CASE Succ(x) = x \/ Succ(x) = r
    BY <1>1, <1>2, <2>3
  <2>4. CASE Succ(x) # x /\ Succ(x) # r
    <3>1. far(Succ(x)) = far(x) + 1
      BY <1>0, <2>1, <2>4
    <3>2. d[x] <= far(x) /\ far(x) \in Int
      BY <1>0, <1>2
    <3>3. d[Succ(x)] <= far(Succ(x))
      BY <1>0, <2>1, <2>2, <2>4, <3>1, <3>2
    <3> QED BY <2>1, <3>3
  <2> QED BY <2>3, <2>4
<1> HIDE DEF V
<1>3. \A x \in Ranks : x \in V
  BY Zenon, <1>1, <1>2, AroundTheRing
<1>4. ASSUME NEW x \in Ranks PROVE d[x] <= worldSize
  <2>1. d[x] <= far(x)
    BY <1>3 DEF V
  <2> QED BY <2>1, <1>0
<1> QED BY <1>4

----------------------------------------------------------------------------
(***************************************************************************)
(* The breadth-first search.                                               *)
(***************************************************************************)

Node == [i : Ranks, first : Ranks]

\* The first hop of v is a neighbour from which v is d[v] - 1 hops away or fewer.
Reached(d, fh, v) == d[v] >= 1 /\ fh[v] \in edges[rank] /\ v \in Within(edges, fh[v], d[v] - 1)

\* Every rank of V is in the queue Q, or its neighbours are in V and at most one
\* hop farther away.
Expanded(d, V, Q) ==
  \A v \in V : \/ \E k \in 1..Len(Q) : Q[k].i = v
               \/ \A u \in edges[v] : u \in V /\ d[u] <= d[v] + 1

\* The queue is sorted by distance, and nothing is more than one hop beyond its head.
Sorted(d, V, Q) ==
  /\ \A j, k \in 1..Len(Q) : j < k => d[Q[j].i] <= d[Q[k].i]
  /\ Q # <<>> => \A v \in V : d[v] <= d[Q[1].i] + 1

\* The search has visited V, at the distances d, with first hops fh and the queue Q.
Searched(d, V, Q, fh) ==
  /\ d \in [Ranks -> Nat] /\ d[rank] = 0
  /\ V \in SUBSET Ranks /\ rank \in V
  /\ \A v \in V : v # rank => Reached(d, fh, v)
  /\ Q \in Seq(Node)
  /\ \A k \in 1..Len(Q) : Q[k].i \in V /\ Q[k].i # rank /\ Q[k].first = fh[Q[k].i]
  /\ Sorted(d, V, Q) /\ Expanded(d, V, Q)

\* The nodes Q are S in some order, with the first hops of f.
Lists(Q, S, f) ==
  /\ Q \in Seq(Node)
  /\ \A k \in 1..Len(Q) : Q[k].i \in S /\ Q[k].first = f[Q[k].i]
  /\ \A v \in S : \E k \in 1..Len(Q) : Q[k].i = v

LEMMA NodesList ==
  ASSUME NEW S \in SUBSET Ranks, NEW f \in [S -> Ranks], NEW order \in Orders(S)
  PROVE  Lists(Nodes(order, f), S, f)
<1> DEFINE n == Cardinality(S)
           Q == Nodes(order, f)
<1>1. n \in Nat
  <2>1. IsFiniteSet(Ranks)
    BY WorldAssumption, FS_Interval DEF Ranks
  <2> QED BY Zenon, <2>1, FS_Subset, FS_CardinalityType
<1>2. order \in [1..n -> S] /\ \A v \in S : \E k \in 1..n : order[k] = v
  BY Zenon DEF Orders, Bijection, Injection, Surjection
<1> HIDE DEF n
<1>3. Q = [k \in 1..n |-> [i |-> order[k], first |-> f[order[k]]]]
  BY <1>2 DEF Nodes
<1>4. ASSUME NEW k \in 1..n PROVE Q[k] \in Node /\ Q[k].i = order[k] /\ Q[k].first = f[order[k]]
  BY <1>2, <1>3 DEF Node
<1>5. Q \in Seq(Node) /\ Len(Q) = n
  BY <1>1, <1>3, <1>4
<1> HIDE DEF Q
<1>6. \A k \in 1..n : Q[k].i \in S /\ Q[k].first = f[Q[k].i]
  BY <1>2, <1>4
<1>7. \A v \in S : \E k \in 1..n : Q[k].i = v
  BY <1>2, <1>4
<1>8. Lists(Q, S, f)
  BY <1>5, <1>6, <1>7 DEF Lists
<1> QED BY <1>8 DEF Q

\* P is Q without its head and with the ranks of S, whose first hop is h, at its end.
Moved(Q, P, S, h) ==
  /\ P \in Seq(Node)
  /\ \A k \in 1..Len(P) : \/ k + 1 \in 1..Len(Q) /\ P[k] = Q[k + 1]
                          \/ k >= Len(Q) /\ P[k].i \in S /\ P[k].first = h
  /\ \A k \in 2..Len(Q) : k - 1 \in 1..Len(P) /\ P[k - 1] = Q[k]
  /\ \A v \in S : \E k \in 1..Len(P) : P[k].i = v

LEMMA QueueMoved ==
  ASSUME NEW Q \in Seq(Node), Q # <<>>, NEW S, NEW h, NEW f, \A v \in S : f[v] = h,
         NEW R, Lists(R, S, f)
  PROVE  Moved(Q, Tail(Q) \o R, S, h)
<1> DEFINE P == Tail(Q) \o R
<1>0. R \in Seq(Node)
  BY DEF Lists
<1>1. Tail(Q) \in Seq(Node) /\ Len(Tail(Q)) = Len(Q) - 1 /\ Len(Q) \in Nat /\ Len(R) \in Nat /\ Len(Q) >= 1
      /\ \A k \in 1..(Len(Q) - 1) : Tail(Q)[k] = Q[k + 1]
  BY <1>0
<1>2. P \in Seq(Node) /\ Len(P) = (Len(Q) - 1) + Len(R)
  BY <1>0, <1>1
<1>3. \A k \in 1..Len(P) : P[k] = IF k <= Len(Q) - 1 THEN Tail(Q)[k] ELSE R[k - (Len(Q) - 1)]
  BY <1>0, <1>1, <1>2
<1> HIDE DEF P
<1>4. ASSUME NEW k \in 1..Len(P)
      PROVE  \/ k + 1 \in 1..Len(Q) /\ P[k] = Q[k + 1]
             \/ k >= Len(Q) /\ P[k].i \in S /\ P[k].first = h
  <2>1. CASE k <= Len(Q) - 1
    BY <1>1, <1>3, <2>1
  <2>2. CASE ~(k <= Len(Q) - 1)
    <3>1. k >= Len(Q) /\ k - (Len(Q) - 1) \in 1..Len(R)
      BY <1>1, <1>2, <2>2
    <3>2. P[k] = R[k - (Len(Q) - 1)]
      BY <1>3, <2>2
    <3>3. R[k - (Len(Q) - 1)].i \in S /\ R[k - (Len(Q) - 1)].first = f[R[k - (Len(Q) - 1)].i]
      BY Zenon, <3>1 DEF Lists
    <3> QED BY Zenon, <3>1, <3>2, <3>3
  <2> QED BY <2>1, <2>2
<1>5. ASSUME NEW k \in 2..Len(Q) PROVE k - 1 \in 1..Len(P) /\ P[k - 1] = Q[k]
  <2>1. k - 1 \in 1..(Len(Q) - 1) /\ k - 1 \in 1..Len(P) /\ k - 1 <= Len(Q) - 1 /\ (k - 1) + 1 = k
    BY <1>1, <1>2
  <2> QED BY <2>1, <1>1, <1>3
<1>6. ASSUME NEW v \in S PROVE \E k \in 1..Len(P) : P[k].i = v
  <2>1. PICK j \in 1..Len(R) : R[j].i = v
    BY DEF Lists
  <2>2. /\ j + (Len(Q) - 1) \in 1..Len(P) /\ ~(j + (Len(Q) - 1) <= Len(Q) - 1)
        /\ (j + (Len(Q) - 1)) - (Len(Q) - 1) = j
    BY <1>1, <1>2
  <2>3. P[j + (Len(Q) - 1)] = R[j]
    BY ZenonT(30), <2>2, <1>3
  <2> QED BY Zenon, <2>1, <2>2, <2>3
<1>7. Moved(Q, P, S, h)
  BY Zenon, <1>2, <1>4, <1>5, <1>6 DEF Moved
<1> QED BY <1>7 DEF P

\* The distances when the neighbours S of a rank at distance n have been found.
Found(d, S, n) == [v \in Ranks |-> IF v \in S THEN n + 1 ELSE d[v]]

\* Expanding the head of the queue.
LEMMA ExpandSearched ==
  ASSUME MeshInv, NEW d, NEW V, NEW Q, NEW fh, Searched(d, V, Q, fh), Q # <<>>,
         NEW S, S = edges[Q[1].i] \ V,
         NEW P, Moved(Q, P, S, Q[1].first),
         NEW fh2, fh2 = [r \in Ranks |-> IF r \in S THEN Q[1].first ELSE fh[r]]
  PROVE  Searched(Found(d, S, d[Q[1].i]), V \cup S, P, fh2)
<1> DEFINE x == Q[1].i
           e == Found(d, S, d[x])
           W == V \cup S
<1>0. Edges
  BY DEF MeshInv, Sane, Edges
<1>1. /\ d \in [Ranks -> Nat] /\ d[rank] = 0 /\ V \in SUBSET Ranks /\ rank \in V
      /\ Q \in Seq(Node) /\ Len(Q) \in Nat /\ 1 \in 1..Len(Q)
  BY DEF Searched
<1>2. x \in V /\ x # rank /\ Q[1].first = fh[x] /\ x \in Ranks /\ d[x] \in Nat
  BY ZenonT(30), <1>1 DEF Searched
<1>3. S = edges[x] \ V /\ S \in SUBSET Ranks /\ rank \notin S /\ W \in SUBSET Ranks /\ rank \in W
  BY ZenonT(30), <1>0, <1>1, <1>2 DEF Edges
<1>4. Reached(d, fh, x)
  BY ZenonT(30), <1>2 DEF Searched
<1>5. /\ e \in [Ranks -> Nat]
      /\ \A v \in S : e[v] = d[x] + 1 /\ fh2[v] = fh[x]
      /\ \A v \in V : e[v] = d[v] /\ fh2[v] = fh[v]
  BY <1>1, <1>2, <1>3 DEF Found
<1>6. \A v \in V : d[v] <= d[x] + 1 /\ d[v] \in Nat
  BY ZenonT(30), <1>1 DEF Searched, Sorted
<1> HIDE DEF e, x, W
<1>7. ASSUME NEW v \in W, v # rank PROVE Reached(e, fh2, v)
  <2>1. CASE v \in V
    <3>1. Reached(d, fh, v)
      BY <1>7, <2>1 DEF Searched
    <3> QED BY ZenonT(30), <3>1, <2>1, <1>5 DEF Reached
  <2>2. CASE v \in S
    <3>1. d[x] >= 1 /\ fh[x] \in edges[rank] /\ x \in Within(edges, fh[x], d[x] - 1)
      BY <1>4 DEF Reached
    <3>2. fh[x] \in Ranks /\ d[x] - 1 \in Nat /\ (d[x] - 1) + 1 = d[x] /\ v \in edges[x]
      BY <1>0, <1>2, <1>3, <2>2, <3>1 DEF Edges, MeshInv
    <3>3. v \in Within(edges, fh[x], (d[x] - 1) + 1)
      BY Zenon, <1>0, <3>1, <3>2, WithinTypes
    <3>4. e[v] - 1 = d[x] /\ e[v] >= 1 /\ fh2[v] = fh[x]
      <4>1. e[v] = d[x] + 1 /\ fh2[v] = fh[x]
        BY Zenon, <1>5, <2>2
      <4> QED BY <1>2, <4>1
    <3>5. v \in Within(edges, fh2[v], e[v] - 1)
      BY <3>2, <3>3, <3>4
    <3> QED BY ZenonT(30), <3>1, <3>4, <3>5 DEF Reached
  <2> QED BY ZenonT(30), <2>1, <2>2 DEF W
<1>8. /\ P \in Seq(Node) /\ Len(P) \in Nat
      /\ \A k \in 1..Len(P) : \/ k + 1 \in 1..Len(Q) /\ P[k] = Q[k + 1]
                              \/ k >= Len(Q) /\ P[k].i \in S /\ P[k].first = fh[x]
      /\ \A k \in 2..Len(Q) : k - 1 \in 1..Len(P) /\ P[k - 1] = Q[k]
      /\ \A v \in S : \E k \in 1..Len(P) : P[k].i = v
  <2>1. P \in Seq(Node)
    BY DEF Moved
  <2> QED BY <2>1, <1>2 DEF Moved
<1>9. \A k \in 1..Len(Q) : Q[k].i \in V /\ Q[k].i # rank /\ Q[k].first = fh[Q[k].i]
  BY DEF Searched
<1>10. ASSUME NEW k \in 1..Len(P) PROVE P[k].i \in W /\ P[k].i # rank /\ P[k].first = fh2[P[k].i]
  <2>1. CASE k + 1 \in 1..Len(Q) /\ P[k] = Q[k + 1]
    <3>1. Q[k + 1].i \in V /\ Q[k + 1].i # rank /\ Q[k + 1].first = fh[Q[k + 1].i]
      BY Zenon, <2>1, <1>9
    <3>2. fh2[Q[k + 1].i] = fh[Q[k + 1].i]
      BY Zenon, <3>1, <1>5
    <3> QED BY ZenonT(30), <2>1, <3>1, <3>2 DEF W
  <2>2. CASE P[k].i \in S /\ P[k].first = fh[x]
    BY Zenon, <2>2, <1>3, <1>5 DEF W
  <2> QED BY Zenon, <1>8, <2>1, <2>2
<1>11. \A j, k \in 1..Len(Q) : j < k => d[Q[j].i] <= d[Q[k].i]
  BY ZenonT(30) DEF Searched, Sorted
<1>12. ASSUME NEW j \in 1..Len(P), NEW k \in 1..Len(P), j < k PROVE e[P[j].i] <= e[P[k].i]
  <2>1. CASE k + 1 \in 1..Len(Q) /\ P[k] = Q[k + 1]
    <3>1. j + 1 \in 1..Len(Q) /\ P[j] = Q[j + 1] /\ j + 1 < k + 1
      BY <1>1, <1>8, <1>12, <2>1
    <3>2. d[Q[j + 1].i] <= d[Q[k + 1].i]
      BY Zenon, <1>11, <2>1, <3>1
    <3>3. e[P[j].i] = d[Q[j + 1].i] /\ e[P[k].i] = d[Q[k + 1].i]
      BY Zenon, <1>5, <1>9, <2>1, <3>1
    <3> QED BY <3>2, <3>3
  <2>2. CASE P[k].i \in S
    <3>1. e[P[k].i] = d[x] + 1
      BY ZenonT(30), <1>5, <2>2
    <3>2. CASE j + 1 \in 1..Len(Q) /\ P[j] = Q[j + 1]
      <4>1. P[j].i \in V
        BY Zenon, <1>9, <3>2
      <4> QED BY ZenonT(30), <1>5, <1>6, <3>1, <4>1
    <3>3. CASE P[j].i \in S
      <4>1. e[P[j].i] = d[x] + 1
        BY ZenonT(30), <1>5, <3>3
      <4> QED BY <3>1, <4>1, <1>2
    <3> QED BY Zenon, <1>8, <3>2, <3>3
  <2> QED BY Zenon, <1>8, <2>1, <2>2
<1>13. ASSUME P # <<>>, NEW v \in W PROVE e[v] <= e[P[1].i] + 1
  <2>1. 1 \in 1..Len(P)
    BY <1>8, <1>13
  <2>2. e[P[1].i] >= d[x] /\ e[P[1].i] \in Nat
    <3>1. CASE 1 + 1 \in 1..Len(Q) /\ P[1] = Q[1 + 1]
      <4>1. d[Q[1].i] <= d[Q[1 + 1].i] /\ Q[1 + 1].i \in V
        BY <1>1, <1>9, <1>11, <3>1
      <4>2. e[P[1].i] = d[Q[1 + 1].i] /\ d[Q[1 + 1].i] \in Nat
        BY ZenonT(30), <1>5, <1>6, <3>1, <4>1
      <4> QED BY <4>1, <4>2 DEF x
    <3>2. CASE P[1].i \in S
      <4>1. e[P[1].i] = d[x] + 1
        BY Zenon, <1>5, <3>2
      <4> QED BY <1>2, <4>1
    <3> QED BY Zenon, <1>8, <2>1, <3>1, <3>2
  <2>3. e[v] <= d[x] + 1 /\ e[v] \in Nat
    <3>1. CASE v \in V
      <4>1. e[v] = d[v] /\ d[v] <= d[x] + 1 /\ d[v] \in Nat
        BY Zenon, <1>5, <1>6, <3>1
      <4> QED BY <4>1
    <3>2. CASE v \in S
      <4>1. e[v] = d[x] + 1
        BY Zenon, <1>5, <3>2
      <4> QED BY <1>2, <4>1
    <3> QED BY <3>1, <3>2 DEF W
  <2> QED BY <2>2, <2>3, <1>2
<1>14. ASSUME NEW v \in W
       PROVE  \/ \E k \in 1..Len(P) : P[k].i = v
              \/ \A u \in edges[v] : u \in W /\ e[u] <= e[v] + 1
  <2>1. CASE v \in S
    BY Zenon, <1>8, <2>1
  <2>2. CASE v = x
    <3>1. ASSUME NEW u \in edges[v] PROVE u \in W /\ e[u] <= e[v] + 1
      <4>1. CASE u \in V
        BY ZenonT(30), <1>2, <1>5, <1>6, <2>2, <4>1 DEF W
      <4>2. CASE u \notin V
        <5>1. u \in S
          BY <1>3, <2>2, <3>1, <4>2
        <5>2. e[u] = d[x] + 1 /\ e[v] = d[x]
          BY ZenonT(30), <1>2, <1>5, <2>2, <5>1
        <5> QED BY <5>1, <5>2, <1>2 DEF W
      <4> QED BY <4>1, <4>2
    <3> QED BY <3>1
  <2>3. CASE v \in V /\ v # x
    <3>1. \/ \E k \in 1..Len(Q) : Q[k].i = v
          \/ \A u \in edges[v] : u \in V /\ d[u] <= d[v] + 1
      BY <2>3 DEF Searched, Expanded
    <3>2. CASE \E k \in 1..Len(Q) : Q[k].i = v
      <4>1. PICK k \in 1..Len(Q) : Q[k].i = v
        BY <3>2
      <4>2. k # 1
        BY <4>1, <2>3 DEF x
      <4>3. k \in 2..Len(Q)
        BY <1>1, <4>1, <4>2
      <4> QED BY Zenon, <1>8, <4>1, <4>3
    <3>3. CASE \A u \in edges[v] : u \in V /\ d[u] <= d[v] + 1
      BY ZenonT(30), <1>5, <2>3, <3>3 DEF W
    <3> QED BY <3>1, <3>2, <3>3
  <2> QED BY <2>1, <2>2, <2>3 DEF W
<1>15. Sorted(e, W, P) /\ Expanded(e, W, P)
  BY Zenon, <1>12, <1>13, <1>14 DEF Sorted, Expanded
<1>16. e[rank] = 0
  BY ZenonT(30), <1>1, <1>5
<1>17. Searched(e, W, P, fh2)
  BY Zenon, <1>3, <1>5, <1>7, <1>8, <1>10, <1>15, <1>16 DEF Searched
<1> QED BY Zenon, <1>17 DEF e, W, x

\* Distances when the search begins.
Near == [v \in Ranks |-> IF v \in edges[rank] THEN 1 ELSE 0]

\* The search begins with the neighbours of rank.
LEMMA StartSearched ==
  ASSUME MeshInv, NEW Q, NEW f, f = [v \in edges[rank] |-> v], Lists(Q, edges[rank], f),
         NEW V, V = {rank} \cup edges[rank],
         NEW fh, \A r \in V : fh[r] = r
  PROVE  Searched(Near, V, Q, fh)
<1>0. Edges /\ rank \in Ranks /\ rank \notin edges[rank] /\ edges[rank] \in SUBSET Ranks
  BY DEF MeshInv, Sane, Edges
<1>1. Near \in [Ranks -> Nat] /\ Near[rank] = 0 /\ \A v \in edges[rank] : Near[v] = 1
  BY <1>0 DEF Near
<1>2. V \in SUBSET Ranks /\ rank \in V
  BY <1>0
<1>3. ASSUME NEW v \in V, v # rank PROVE Reached(Near, fh, v)
  <2>1. v \in edges[rank] /\ v \in Ranks /\ fh[v] = v
    BY <1>0, <1>3
  <2>2. Near[v] - 1 = 0 /\ Near[v] >= 1
    BY <1>1, <2>1
  <2>3. v \in Within(edges, v, 0)
    BY <1>0, <2>1, WithinIs
  <2> QED BY <2>1, <2>2, <2>3 DEF Reached
<1>4. /\ Q \in Seq(Node)
      /\ \A k \in 1..Len(Q) : Q[k].i \in edges[rank] /\ Q[k].first = f[Q[k].i]
      /\ \A v \in edges[rank] : \E k \in 1..Len(Q) : Q[k].i = v
  BY Zenon DEF Lists
<1>5. ASSUME NEW k \in 1..Len(Q) PROVE Q[k].i \in V /\ Q[k].i # rank /\ Q[k].first = fh[Q[k].i] /\ Near[Q[k].i] = 1
  BY <1>0, <1>1, <1>4
<1>6. \A v \in V : Near[v] <= 1 /\ Near[v] \in Nat
  BY <1>0, <1>1
<1>7. Sorted(Near, V, Q)
  <2>1. \A j, k \in 1..Len(Q) : j < k => Near[Q[j].i] <= Near[Q[k].i]
    BY <1>5
  <2>2. ASSUME Q # <<>>, NEW v \in V PROVE Near[v] <= Near[Q[1].i] + 1
    <3>1. 1 \in 1..Len(Q)
      BY <1>4, <2>2
    <3>2. Near[Q[1].i] = 1 /\ Near[v] <= 1 /\ Near[v] \in Nat
      BY Zenon, <1>5, <1>6, <3>1
    <3> QED BY <3>2
  <2> QED BY Zenon, <2>1, <2>2 DEF Sorted
<1>8. Expanded(Near, V, Q)
  <2> SUFFICES ASSUME NEW v \in V
               PROVE  \/ \E k \in 1..Len(Q) : Q[k].i = v
                      \/ \A u \in edges[v] : u \in V /\ Near[u] <= Near[v] + 1
    BY Zenon DEF Expanded
  <2>1. CASE v = rank
    BY <1>1, <2>1
  <2>2. CASE v \in edges[rank]
    BY Zenon, <1>4, <2>2
  <2> QED BY <2>1, <2>2
<1> QED BY Zenon, <1>1, <1>2, <1>3, <1>4, <1>5, <1>7, <1>8 DEF Searched

\* The search has not begun, or has visited what its tables say.
SearchInv ==
  IF visited = {} THEN open = <<>> /\ phase # "done"
  ELSE /\ phase \in {"search", "done"} /\ (phase = "done" => open = <<>>)
       /\ \E d : Searched(d, visited, open, firsthop)

LEMMA SameMesh ==
  ASSUME UNCHANGED <<rank, edges>>, NEW d, Searched(d, visited', open', firsthop')
  PROVE  Searched(d, visited, open, firsthop)'
<1>1. rank' = rank /\ edges' = edges
  OBVIOUS
<1> QED BY Zenon, <1>1 DEF Searched, Reached, Sorted, Expanded

LEMMA SearchNext == MeshInv /\ SearchInv /\ [Next]_meshVars => SearchInv'
<1> SUFFICES ASSUME MeshInv, SearchInv, [Next]_meshVars PROVE SearchInv'
  OBVIOUS
<1>0. edges[rank] \in SUBSET Ranks
  BY DEF MeshInv, Sane
<1>1. CASE StartSearch
  <2> DEFINE f == [v \in edges[rank] |-> v]
  <2>1. PICK order \in Orders(edges[rank]) : open' = Nodes(order, f)
    BY <1>1 DEF StartSearch
  <2>2. f \in [edges[rank] -> Ranks]
    BY <1>0
  <2> HIDE DEF f
  <2>3. Lists(open', edges[rank], f)
    BY Zenon, <1>0, <2>1, <2>2, NodesList
  <2>4. /\ visited' = {rank} \cup edges[rank] /\ phase' = "search"
        /\ UNCHANGED <<rank, edges>>
    BY <1>1 DEF StartSearch
  <2>5. \A r \in visited' : firsthop'[r] = r
    BY <1>0, <1>1, <2>4 DEF StartSearch, MeshInv
  <2>6. Searched(Near, visited', open', firsthop')
    BY Zenon, <2>3, <2>4, <2>5, StartSearched DEF f
  <2>7. PICK d : Searched(d, visited', open', firsthop')
    BY Zenon, <2>6
  <2>8. Searched(d, visited, open, firsthop)'
    BY Zenon, <2>4, <2>7, SameMesh
  <2> QED BY Zenon, <2>4, <2>8 DEF SearchInv
<1>2. CASE Expand
  <2>1. visited # {} /\ phase = "search"
    BY ZenonT(30), <1>2 DEF Expand, SearchInv
  <2>2. PICK d : Searched(d, visited, open, firsthop)
    BY Zenon, <2>1 DEF SearchInv
  <2> DEFINE x == open[1]
             new == edges[x.i] \ visited
             f == [v \in new |-> x.first]
  <2>3. open \in Seq(Node) /\ open # <<>> /\ Head(open) = open[1] /\ 1 \in 1..Len(open) /\ open[1] \in Node
    BY <1>2, <2>2 DEF Expand, Searched
  <2>4. /\ visited' = visited \cup new
        /\ \E order \in Orders(new) : open' = Tail(open) \o Nodes(order, f)
        /\ firsthop' = [r \in Ranks |-> IF r \in new THEN x.first ELSE firsthop[r]]
        /\ UNCHANGED <<rank, phase, edges>>
    BY Zenon, <1>2, <2>3 DEF Expand
  <2>5. new \in SUBSET Ranks /\ f \in [new -> Ranks] /\ \A v \in new : f[v] = x.first
    BY <2>3 DEF MeshInv, Sane, Node
  <2> HIDE DEF f, new
  <2>6. PICK order \in Orders(new) : open' = Tail(open) \o Nodes(order, f)
    BY Zenon, <2>4
  <2>7. Lists(Nodes(order, f), new, f)
    BY Zenon, <2>5, <2>6, NodesList
  <2>8. Moved(open, open', new, x.first)
    BY Zenon, <2>3, <2>5, <2>6, <2>7, QueueMoved
  <2>9. \E e : Searched(e, visited', open', firsthop')
    <3>1. Searched(Found(d, new, d[open[1].i]), visited \cup new, open', firsthop')
      BY Zenon, <2>2, <2>3, <2>4, <2>8, ExpandSearched DEF new, x
    <3> QED BY Zenon, <2>4, <3>1
  <2>10. PICK e : Searched(e, visited', open', firsthop')
    BY Zenon, <2>9
  <2>11. Searched(e, visited, open, firsthop)'
    BY Zenon, <2>4, <2>10, SameMesh
  <2>12. visited' # {}
    BY <2>1, <2>4
  <2> QED BY Zenon, <2>1, <2>4, <2>11, <2>12 DEF SearchInv
<1>3. CASE UNCHANGED <<rank, edges, visited, open, firsthop>>
  <2>1. (visited # {} => phase' \in {"search", "done"}) /\ (phase' = "done" => visited # {} /\ open = <<>>)
    <3>1. CASE phase' = phase
      BY <3>1 DEF SearchInv
    <3>2. CASE phase' # phase
      BY ZenonT(30), <3>2 DEF SearchInv, Next, meshVars, Repair, AddRing, Shuffle, NextShortcut, EndRepair, AddShortcut,
                  EndShortcuts, StartSearch, Expand, EndSearch
    <3> QED BY <3>1, <3>2
  <2>2. CASE visited = {}
    BY <1>3, <2>1, <2>2 DEF SearchInv
  <2>3. CASE visited # {}
    <3>1. PICK d : Searched(d, visited, open, firsthop)
      BY Zenon, <2>3 DEF SearchInv
    <3>2. Searched(d, visited, open, firsthop)'
      BY Zenon, <1>3, <3>1, SameMesh
    <3> QED BY Zenon, <1>3, <2>1, <2>3, <3>2 DEF SearchInv
  <2> QED BY <2>2, <2>3
<1>4. CASE visited = {} /\ UNCHANGED <<visited, open, firsthop>> /\ phase' # "done"
  BY <1>4 DEF SearchInv
<1>5. CASE AddRing \/ AddShortcut
  <2>1. visited = {}
    BY <1>5 DEF AddRing, AddShortcut, SearchInv
  <2> QED BY <1>4, <1>5, <2>1 DEF AddRing, AddShortcut
<1>6. CASE ~(AddRing \/ AddShortcut \/ StartSearch \/ Expand)
  <2>1. UNCHANGED <<rank, edges, visited, open, firsthop>>
    BY <1>6 DEF Next, meshVars, Repair, Shuffle, NextShortcut, EndRepair, EndShortcuts, EndSearch
  <2> QED BY <1>3, <2>1
<1> QED BY <1>1, <1>2, <1>5, <1>6

LEMMA SearchInvariance == Spec => [](MeshInv /\ SearchInv)
<1>1. Init => SearchInv
  BY DEF Init, SearchInv
<1> QED BY <1>1, MeshInit, MeshNext, SearchNext, PTL DEF Spec

\* In a mesh of any size, whatever is drawn and shuffled, the search visits every
\* rank, as the CHECK at the end of findPaths wants it, and every first hop it
\* leaves behind is a neighbour one hop closer to its target.
THEOREM ShortestTheorem == Spec => []FirstHopsAreShortest
<1>1. MeshInv /\ SearchInv => FirstHopsAreShortest
  <2> SUFFICES ASSUME MeshInv, SearchInv, phase = "done", NEW r \in Ranks \ {rank}
               PROVE  /\ firsthop[r] \in edges[rank]
                      /\ Distance(edges, firsthop[r], r) = Distance(edges, rank, r) - 1
    BY Zenon DEF FirstHopsAreShortest
  <2>0. Edges /\ rank \in Ranks /\ \A x \in Ranks : Succ(x) = x \/ Succ(x) \in edges[x]
    BY DEF MeshInv, Sane, Edges
  <2>1. open = <<>> /\ \E d : Searched(d, visited, open, firsthop)
    BY DEF SearchInv
  <2>2. PICK d : Searched(d, visited, open, firsthop)
    BY Zenon, <2>1
  <2>3. \A v \in visited : \A u \in edges[v] : u \in visited /\ d[u] <= d[v] + 1
    <3>1. 1..Len(open) = {}
      BY <2>1
    <3> QED BY Zenon, <2>2, <3>1 DEF Searched, Expanded
  <2>4. \A x \in Ranks : x \in visited
    <3>1. rank \in visited
      BY <2>2 DEF Searched
    <3>2. \A x \in Ranks : x \in visited => Succ(x) \in visited
      BY Zenon, <2>0, <2>3
    <3> QED BY Zenon, <2>0, <3>1, <3>2, AroundTheRing
  <2>5. Smooth(d) /\ d[rank] = 0 /\ d[r] \in Nat
    BY <2>2, <2>3, <2>4 DEF Smooth, Searched
  <2> DEFINE f == firsthop[r]
             n == d[r]
  <2>6. n >= 1 /\ n \in Nat /\ f \in edges[rank] /\ r \in Within(edges, f, n - 1)
    BY <2>2, <2>4, <2>5 DEF Searched, Reached
  <2>7. n <= worldSize
    BY <2>0, <2>5, RingBound
  <2> HIDE DEF f, n
  <2>8. n - 1 \in Nat /\ (n - 1) + 1 = n /\ n \in 0..worldSize /\ n - 1 \in 0..worldSize /\ ~(n <= n - 1) /\ n # 0
    BY <2>6, <2>7, WorldAssumption
  <2>9. \A k \in Nat : Within(edges, f, k) \subseteq Within(edges, rank, k + 1)
    BY Zenon, <2>0, <2>6, WithinShift
  <2>10. r \in Within(edges, rank, n)
    <3>1. r \in Within(edges, rank, (n - 1) + 1)
      BY <2>6, <2>8, <2>9
    <3> QED BY <2>8, <3>1
  <2>11. r \notin Within(edges, rank, n - 1)
    <3>1. r \in Within(edges, rank, n - 1) => d[r] <= n - 1
      BY ZenonT(30), <2>0, <2>5, <2>8, WithinBound
    <3> QED BY <2>8, <3>1 DEF n
  <2>12. Distance(edges, rank, r) = n
    BY <2>0, <2>8, <2>10, <2>11, DistanceIs
  <2>13. n - 1 = 0 \/ r \notin Within(edges, f, (n - 1) - 1)
    <3> SUFFICES ASSUME n - 1 # 0, r \in Within(edges, f, (n - 1) - 1) PROVE FALSE
      OBVIOUS
    <3>1. (n - 1) - 1 \in Nat /\ ((n - 1) - 1) + 1 = n - 1
      BY <2>8
    <3>2. r \in Within(edges, rank, ((n - 1) - 1) + 1)
      BY <2>9, <3>1
    <3> QED BY <2>11, <3>1, <3>2
  <2>14. Distance(edges, f, r) = n - 1
    <3>1. f \in Ranks
      BY <2>0, <2>6 DEF Edges
    <3> QED BY <2>0, <2>6, <2>8, <2>13, <3>1, DistanceIs
  <2> QED BY <2>6, <2>8, <2>12, <2>14 DEF f
<1> QED BY <1>1, SearchInvariance, PTL
=============================================================================
