----------------------------- MODULE StoreMesh -----------------------------
(***************************************************************************)
(* The mesh of the store (core/store.cc, findPaths): the ring with its     *)
(* random shortcuts, which every rank builds alike from the store key, and *)
(* the breadth-first search by which one rank fills its firsthop table.    *)
(* The random generators are nondeterministic choices.                     *)
(***************************************************************************)
EXTENDS Integers, Sequences, FiniteSets, Functions

CONSTANT worldSize

ASSUME WorldAssumption == worldSize \in Nat \ {0}

Ranks == 0..(worldSize - 1)

maxEdgePeers == 4

VARIABLES
  rank,         \* the rank that searches
  phase,        \* "ring", "repair", "shortcuts", "search" or "done"
  connections,  \* connections[i]: the shortcut drawn for i
  i,            \* the rank that the loop of the phase looks at
  edges,        \* edges[r]: neighbours of r in the mesh
  visited,      \* visited by the search
  open,         \* nodes to expand, with the first hop towards each
  firsthop      \* firsthop[r]: the edge towards r, worldSize when unknown

meshVars == <<rank, phase, connections, i, edges, visited, open, firsthop>>

\* Ranks up to two apart on the ring count as neighbours.
neighborsMutant(a, b) == LET x == IF a > b THEN a - b ELSE b - a IN x <= 2 \/ x >= worldSize - 2

neighbors(a, b) == LET x == IF a > b THEN a - b ELSE b - a IN x \in {1, worldSize - 1}

\* The shortcut drawn for r is none: r itself, a neighbour, or back and forth.
Unusable(c, r) == c[r] = r \/ neighbors(r, c[r]) \/ c[c[r]] = r

Swap(c, r, x) == [c EXCEPT ![r] = c[x], ![x] = c[r]]

\* The lambda addedge: an edge is recorded at both ends.
addedge(es, r, e) ==
  IF r = e \/ e \in es[r] THEN es ELSE [es EXCEPT ![r] = @ \cup {e}, ![e] = @ \cup {r}]

Init ==
  /\ rank \in Ranks
  /\ phase = "ring" /\ i = 0
  /\ edges = [r \in Ranks |-> {}]
  /\ connections = [r \in Ranks |-> r]
  /\ visited = {} /\ open = <<>>
  /\ firsthop = [r \in Ranks |-> worldSize]

AddRing ==
  /\ phase = "ring" /\ i < worldSize
  /\ edges' = addedge(edges, i, (i + 1) % worldSize)
  /\ i' = i + 1
  /\ UNCHANGED <<rank, phase, connections, visited, open, firsthop>>

\* The shuffle of the shortcuts; a small world has none.
Shuffle ==
  /\ phase = "ring" /\ i = worldSize
  /\ IF worldSize > 4
     THEN phase' = "repair" /\ connections' \in Bijection(Ranks, Ranks)
     ELSE phase' = "search" /\ UNCHANGED connections
  /\ i' = 0
  /\ UNCHANGED <<rank, edges, visited, open, firsthop>>

\* One round of the inner loop: draw x and exchange, when that gives x no
\* neighbour.
Repair(x) ==
  /\ phase = "repair" /\ i < worldSize
  /\ Unusable(connections, i)
  /\ ~neighbors(x, connections[i])
  /\ connections' = Swap(connections, i, x)
  /\ UNCHANGED <<rank, phase, i, edges, visited, open, firsthop>>

NextShortcut ==
  /\ phase = "repair" /\ i < worldSize
  /\ ~Unusable(connections, i)
  /\ i' = i + 1
  /\ UNCHANGED <<rank, phase, connections, edges, visited, open, firsthop>>

EndRepair ==
  /\ phase = "repair" /\ i = worldSize
  /\ phase' = "shortcuts" /\ i' = 0
  /\ UNCHANGED <<rank, connections, edges, visited, open, firsthop>>

\* Every rank gets a second shortcut.
AddShortcutMutant ==
  /\ phase = "shortcuts" /\ i < worldSize
  /\ edges' = addedge(addedge(edges, i, connections[i]), i, connections[connections[i]])
  /\ i' = i + 1
  /\ UNCHANGED <<rank, phase, connections, visited, open, firsthop>>

AddShortcut ==
  /\ phase = "shortcuts" /\ i < worldSize
  /\ edges' = addedge(edges, i, connections[i])
  /\ i' = i + 1
  /\ UNCHANGED <<rank, phase, connections, visited, open, firsthop>>

EndShortcuts ==
  /\ phase = "shortcuts" /\ i = worldSize
  /\ phase' = "search"
  /\ UNCHANGED <<rank, connections, i, edges, visited, open, firsthop>>

\* The orders in which the edges S may come out of the shuffle.
Orders(S) == Bijection(1..Cardinality(S), S)

Nodes(order, first) == [k \in DOMAIN order |-> [i |-> order[k], first |-> first[order[k]]]]

\* The search begins at rank; the order of the edges is shuffled.
StartSearch ==
  /\ phase = "search" /\ visited = {}
  /\ visited' = {rank} \cup edges[rank]
  /\ \E order \in Orders(edges[rank]) : open' = Nodes(order, [v \in edges[rank] |-> v])
  /\ firsthop' = [r \in Ranks |-> IF r \in visited' THEN r ELSE firsthop[r]]
  /\ UNCHANGED <<rank, phase, connections, i, edges>>

\* New nodes go to the front.
ExpandMutant ==
  /\ phase = "search" /\ open # <<>>
  /\ LET x   == Head(open)
         new == edges[x.i] \ visited
     IN  /\ visited' = visited \cup new
         /\ \E order \in Orders(new) : open' = Nodes(order, [v \in new |-> x.first]) \o Tail(open)
         /\ firsthop' = [r \in Ranks |-> IF r \in new THEN x.first ELSE firsthop[r]]
  /\ UNCHANGED <<rank, phase, connections, i, edges>>

\* Expand the first open node.
Expand ==
  /\ phase = "search" /\ open # <<>>
  /\ LET x   == Head(open)
         new == edges[x.i] \ visited
     IN  /\ visited' = visited \cup new
         /\ \E order \in Orders(new) : open' = Tail(open) \o Nodes(order, [v \in new |-> x.first])
         /\ firsthop' = [r \in Ranks |-> IF r \in new THEN x.first ELSE firsthop[r]]
  /\ UNCHANGED <<rank, phase, connections, i, edges>>

EndSearch ==
  /\ phase = "search" /\ visited # {} /\ open = <<>>
  /\ phase' = "done"
  /\ UNCHANGED <<rank, connections, i, edges, visited, open, firsthop>>

Next ==
  \/ \E x \in Ranks : Repair(x)
  \/ AddRing \/ Shuffle \/ NextShortcut \/ EndRepair \/ AddShortcut \/ EndShortcuts
  \/ StartSearch \/ Expand \/ EndSearch
  \/ phase = "done" /\ UNCHANGED meshVars

Spec == Init /\ [][Next]_meshVars

----------------------------------------------------------------------------
(***************************************************************************)
(* Properties.                                                             *)
(***************************************************************************)

\* The constructor's CHECK(edgePeerCount <= maxEdgePeers): the shortcuts remain a
\* permutation while they are repaired, so a rank is the end of at most two.
EdgesFit == \A r \in Ranks : Cardinality(edges[r]) <= maxEdgePeers

\* The ranks within k hops of r in a mesh with edges es.
Within(es, r, k) ==
  LET ball[n \in Nat] ==
        IF n = 0 THEN {r} ELSE LET b == ball[n - 1] IN b \cup UNION {es[x] : x \in b}
  IN  ball[k]

Distance(es, r, s) ==
  CHOOSE k \in 0..worldSize : s \in Within(es, r, k) /\ (k = 0 \/ s \notin Within(es, r, k - 1))

\* The table that the search leaves behind routes along shortest paths, whatever
\* the shuffles: each first hop is a neighbour, one hop closer to its target, so
\* that messages and broadcasts routed by the tables of different ranks never
\* run in circles (findPaths, with its CHECK that every rank was visited).
FirstHopsAreShortest ==
  phase = "done" => \A r \in Ranks \ {rank} :
    /\ firsthop[r] \in edges[rank]
    /\ Distance(edges, firsthop[r], r) = Distance(edges, rank, r) - 1

\* The permutations from which the draws for shortcut r can end the inner loop.
Repairable ==
  LET perms == Bijection(Ranks, Ranks) IN
  [r \in Ranks |->
    LET back[n \in 0..worldSize] ==
          IF n = 0 THEN {c \in perms : ~Unusable(c, r)}
          ELSE LET b == back[n - 1]
               IN  b \cup {c \in perms : \E x \in Ranks : ~neighbors(x, c[r]) /\ Swap(c, r, x) \in b}
    IN  back[worldSize]]

\* The inner loop of findPaths is never caught: in every state it can reach there
\* are draws that end it.
RepairCanFinish ==
  phase = "repair" /\ i < worldSize => connections \in Repairable[i]

=============================================================================
