-------------------------- MODULE AllGatherRoutes --------------------------
(* The routes of the CPU collectives (core/allgather.cc, AllGather::init).  *)
(* nodes is nodeRanks: one sequence of ranks per node.  The ranks of a node *)
(* read each other's memory.  On every other node one rank receives a       *)
(* source's data from the network, and is the proxy of the ranks beside it. *)
EXTENDS Integers, Sequences, FiniteSets, SequencesExt

Ranks(nodes) == UNION {Range(nodes[n]) : n \in DOMAIN nodes}
NodeOf(nodes, r) == CHOOSE n \in DOMAIN nodes : r \in Range(nodes[n])

\* The ranks that r has ipc access to: the higher ones, then the lower ones.  These
\* are all ranks of its node, as the CHECKs of AllGather::init demand.
ipcRanks(nodes, r) ==
  LET on == Range(nodes[NodeOf(nodes, r)])
  IN SetToSortSeq({i \in on : i > r}, <) \o SetToSortSeq({i \in on : i < r}, <)

findLocalRank(nodes, r) ==
  LET list == nodes[NodeOf(nodes, r)] IN (CHOOSE i \in DOMAIN list : list[i] = r) - 1

\* The rank of node n that receives the data of src.
ProxyOn(nodes, src, n) == nodes[n][(findLocalRank(nodes, src) % Len(nodes[n])) + 1]

\* The paths that rank takes part in: source, proxy, destination.  A path of two
\* ends at the proxy.
PathSet(nodes, rank) ==
  LET PathsTo(src, n) ==
        LET p == ProxyOn(nodes, src, n) IN
        CASE src = rank -> {<<src, p>>}
          [] p = rank -> {<<src, p>>} \cup {<<src, p, d>> : d \in Range(nodes[n]) \ {p}}
          [] OTHER -> {<<src, p, d>> : d \in Range(nodes[n]) \cap {rank}}
  IN UNION {UNION {PathsTo(src, n) : n \in DOMAIN nodes \ {NodeOf(nodes, src)}} : src \in Ranks(nodes)}

\* What the paths of rank are ordered by: the two stable partitions, the later
\* one first, then the order of sortFn.
PathKey(nodes, rank, p) ==
  LET size == Cardinality(Ranks(nodes))
      ranksPerNode == Len(nodes[NodeOf(nodes, rank)]) IN
  << IF Len(p) = 3 /\ p[2] = rank THEN 1 ELSE 0,
     IF p[1] = rank THEN 0 ELSE 1,
     Len(p),
     (size + p[2] - p[1]) % size,
     IF Len(p) = 3 THEN -((ranksPerNode + p[3] - p[2]) % ranksPerNode) ELSE 0 >> \o p

Precedes(a, b) == \E i \in DOMAIN a : (\A j \in 1..(i - 1) : a[j] = b[j]) /\ a[i] < b[i]

Paths(nodes, rank) ==
  SetToSortSeq(PathSet(nodes, rank),
               LAMBDA p, q : Precedes(PathKey(nodes, rank, p), PathKey(nodes, rank, q)))

\* Where a path of paths leads that starts at rank, or ends at rank without a
\* proxy, or that rank is the proxy or the destination of.
sendRanks(paths, rank) ==
  LET own == SelectSeq(paths, LAMBDA p : p[1] = rank) IN [i \in DOMAIN own |-> own[i][2]]
recvRanks(paths, rank) ==
  LET mine == SelectSeq(paths, LAMBDA p : Len(p) = 2 /\ p[2] = rank) IN [i \in DOMAIN mine |-> mine[i][1]]
proxyInfo(paths, rank) ==
  LET via == SelectSeq(paths, LAMBDA p : Len(p) = 3 /\ p[2] = rank)
  IN [i \in DOMAIN via |-> [source |-> via[i][1], destination |-> via[i][3]]]
proxyDestinationInfo(paths, rank) ==
  LET to == SelectSeq(paths, LAMBDA p : Len(p) = 3 /\ p[3] = rank)
  IN [i \in DOMAIN to |-> [source |-> to[i][1], proxy |-> to[i][2]]]

RingDistance(v, n) == LET d == (v + n) % n IN IF d <= n - d THEN d ELSE n - d

\* The neighbour that rank receives the data of source from when it goes round
\* the ring of nodes; rank itself when source is not among its recvRanks.
ringRecv(nodes, paths, rank, source) ==
  LET size == Cardinality(Ranks(nodes))
      before == ((NodeOf(nodes, rank) + Len(nodes) - 2) % Len(nodes)) + 1
      neighbors == SelectSeq(sendRanks(paths, rank), LAMBDA v : NodeOf(nodes, v) = before)
      Near(i) == \A j \in DOMAIN neighbors :
                   LET di == RingDistance(neighbors[i] - source, size)
                       dj == RingDistance(neighbors[j] - source, size)
                   IN di < dj \/ (di = dj /\ i <= j)
  IN IF source \in Range(recvRanks(paths, rank))
       THEN neighbors[CHOOSE i \in DOMAIN neighbors : Near(i)] ELSE rank

\* All that the collectives of rank r use, for one layout.
RoutesOf(nodes, r) ==
  LET paths == Paths(nodes, r)
      Receives(x, source) == ringRecv(nodes, Paths(nodes, x), x, source)
  IN [ipcRanks |-> ipcRanks(nodes, r),
      sendRanks |-> sendRanks(paths, r),
      recvRanks |-> recvRanks(paths, r),
      proxyInfo |-> proxyInfo(paths, r),
      proxyDestinationInfo |-> proxyDestinationInfo(paths, r),
      ringRecvs |-> [s \in Ranks(nodes) |-> Receives(r, s)],
      ringSends |-> [s \in Ranks(nodes) |->
        LET to == {x \in Ranks(nodes) \ {r} : Receives(x, s) = r}
        IN IF to = {} THEN r ELSE CHOOSE x \in to : TRUE]]
=============================================================================
