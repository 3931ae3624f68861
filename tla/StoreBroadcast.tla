--------------------------- MODULE StoreBroadcast ---------------------------
(***************************************************************************)
(* Broadcasts over the store's mesh (core/store.cc: broadcastMessage,      *)
(* forwardBroadcast, replayPendingBroadcasts).  An edge is a reliable FIFO *)
(* channel, as StoreLink shows; here it is split by the source of the      *)
(* broadcasts, and the k-th broadcast of a source is named k - 1.          *)
(*                                                                         *)
(* firsthop[r] is the routing table of rank r, Distance the number of hops *)
(* in the mesh; StoreMesh checks what is assumed of them here.             *)
(***************************************************************************)
EXTENDS Integers, Sequences

CONSTANTS Rank, worldSize, edges, firsthop, Distance,
          MaxCast     \* bound: broadcasts of each rank

ASSUME WorldAssumption == worldSize \in Nat /\ MaxCast \in [Rank -> Nat]
ASSUME MeshAssumption ==
  /\ edges \in [Rank -> SUBSET Rank]
  /\ \A r \in Rank : r \notin edges[r]
  /\ firsthop \in [Rank -> [Rank -> Rank]]
  /\ Distance \in [Rank -> [Rank -> Nat]]
ASSUME RouteAssumption ==
  \A r, s \in Rank :
    /\ Distance[r][s] < worldSize
    /\ r = s => firsthop[r][s] = r /\ Distance[r][s] = 0
    /\ r # s => /\ r \in edges[firsthop[r][s]]
                /\ Distance[firsthop[r][s]][s] = Distance[r][s] - 1
    /\ r \in edges[s] => firsthop[r][s] = s

VARIABLES
  started,            \* started[s]: broadcasts that s has begun
  everConnected,      \* everConnected[r][e]: r has adopted a connection to e
  chan,               \* chan[r][e][s]: broadcasts of s on their way from r to e
  pendingBroadcasts,  \* pendingBroadcasts[r][e][s]: kept by r until e connects
  received            \* received[r][s]: broadcasts of s that r has processed

vars == <<started, everConnected, chan, pendingBroadcasts, received>>

Frame == [n : Nat, ttl : 0..worldSize]

Init ==
  /\ started = [s \in Rank |-> 0]
  /\ everConnected = [r \in Rank |-> [e \in Rank |-> FALSE]]
  /\ chan = [r \in Rank |-> [e \in Rank |-> [s \in Rank |-> <<>>]]]
  /\ pendingBroadcasts = [r \in Rank |-> [e \in Rank |-> [s \in Rank |-> <<>>]]]
  /\ received = [r \in Rank |-> [s \in Rank |-> <<>>]]

\* A broadcast is given a single hop.
BroadcastMessageMutant(s) ==
  /\ started[s] < MaxCast[s]
  /\ started' = [started EXCEPT ![s] = @ + 1]
  /\ chan' = [r \in Rank |-> [e \in Rank |-> [t \in Rank |->
       IF r = s /\ t = s /\ e \in edges[s]
       THEN Append(chan[r][e][t], [n |-> started[s], ttl |-> 1])
       ELSE chan[r][e][t]]]]
  /\ UNCHANGED <<everConnected, pendingBroadcasts, received>>

\* broadcastMessage: s hands a copy to each of its edges, connected or not.
BroadcastMessage(s) ==
  /\ started[s] < MaxCast[s]
  /\ started' = [started EXCEPT ![s] = @ + 1]
  /\ chan' = [r \in Rank |-> [e \in Rank |-> [t \in Rank |->
       IF r = s /\ t = s /\ e \in edges[s]
       THEN Append(chan[r][e][t], [n |-> started[s], ttl |-> worldSize])
       ELSE chan[r][e][t]]]]
  /\ UNCHANGED <<everConnected, pendingBroadcasts, received>>

\* The sources towards which e is the first hop of r.
broadcastForwardForMutant(r, e) == {s \in Rank : firsthop[r][s] = e}

\* getBroadcastForwardRanks at e, which e tells r when they connect: the sources
\* towards which r is the first hop of e.
broadcastForwardFor(r, e) == {s \in Rank : firsthop[e][s] = r}

\* r adopts its first connection to e and replays what it kept for e and e wants.
AdoptConnect(r, e) ==
  /\ e \in edges[r] /\ ~everConnected[r][e]
  /\ everConnected' = [everConnected EXCEPT ![r][e] = TRUE]
  /\ chan' = [chan EXCEPT ![r][e] = [s \in Rank |->
       IF s \in broadcastForwardFor(r, e) THEN @[s] \o pendingBroadcasts[r][e][s] ELSE @[s]]]
  /\ pendingBroadcasts' = [pendingBroadcasts EXCEPT ![r][e] = [s \in Rank |-> <<>>]]
  /\ UNCHANGED <<started, received>>

\* Every edge but the sender gets a copy.
ForwardsMutant(r, p, s) == {e \in edges[r] \ {p} : everConnected[r][e]}

\* forwardBroadcast at r of a broadcast of s that came from p: where it goes, and
\* for which edges it is kept.
Forwards(r, p, s) ==
  {e \in edges[r] \ {p} : everConnected[r][e] /\ s \in broadcastForwardFor(r, e)}

Keeps(r, p) == {e \in edges[r] \ {p} : ~everConnected[r][e]}

CopyMutant(f) == [f EXCEPT !.ttl = @ + 1]

\* The copy that is forwarded.
Copy(f) == [f EXCEPT !.ttl = @ - 1]

\* processMessage of a broadcast of s that arrives at r from p: forward it, then
\* process it.  Nothing passes an edge before both ends have adopted it.
ProcessMessage(r, p, s) ==
  /\ everConnected[p][r] /\ everConnected[r][p]
  /\ chan[p][r][s] # <<>>
  /\ LET f == Head(chan[p][r][s]) IN
       /\ chan' = [q \in Rank |-> [e \in Rank |-> [t \in Rank |->
            CASE q = p /\ e = r /\ t = s -> Tail(chan[q][e][t])
              [] q = r /\ t = s /\ e \in Forwards(r, p, s) -> Append(chan[q][e][t], Copy(f))
              [] OTHER -> chan[q][e][t]]]]
       /\ pendingBroadcasts' = [q \in Rank |-> [e \in Rank |-> [t \in Rank |->
            IF q = r /\ t = s /\ e \in Keeps(r, p)
            THEN Append(pendingBroadcasts[q][e][t], Copy(f))
            ELSE pendingBroadcasts[q][e][t]]]]
       /\ received' = [received EXCEPT ![r][s] = Append(@, f.n)]
  /\ UNCHANGED <<started, everConnected>>

Next ==
  \/ \E s \in Rank : BroadcastMessage(s)
  \/ \E r, e \in Rank : AdoptConnect(r, e)
  \/ \E r, p, s \in Rank : ProcessMessage(r, p, s)

Spec == Init /\ [][Next]_vars

\* The edges come up and the store threads run (StoreLink, Delivery).
FairSpec ==
  /\ Spec
  /\ \A r, e \in Rank : WF_vars(AdoptConnect(r, e))
  /\ \A r, p, s \in Rank : WF_vars(ProcessMessage(r, p, s))

----------------------------------------------------------------------------
(***************************************************************************)
(* Properties.                                                             *)
(***************************************************************************)

\* Types of the broadcast state of a store.
TypeOK ==
  /\ started \in [Rank -> Nat]
  /\ everConnected \in [Rank -> [Rank -> BOOLEAN]]
  /\ chan \in [Rank -> [Rank -> [Rank -> Seq(Frame)]]]
  /\ pendingBroadcasts \in [Rank -> [Rank -> [Rank -> Seq(Frame)]]]
  /\ received \in [Rank -> [Rank -> Seq(Nat)]]

\* A rank processes the broadcasts of another rank in the order in which they
\* were begun, each once, and never one of its own: "the spanning tree structure
\* guarantees each rank receives the broadcast exactly once" although the copies
\* for edges that come up late are kept and replayed (forwardBroadcast,
\* replayPendingBroadcasts).
OncePerRank ==
  \A r, s \in Rank :
    /\ Len(received[r][s]) <= (IF r = s THEN 0 ELSE started[s])
    /\ \A k \in 1..Len(received[r][s]) : received[r][s][k] = k - 1

\* The CHECK(ttl != 0) of onreadtcp and of forwardBroadcast: no broadcast uses up
\* its hops.
TtlLeft ==
  \A r, e, s \in Rank : \A k \in 1..Len(chan[r][e][s]) : chan[r][e][s][k].ttl > 0

\* Every broadcast reaches every rank, in whatever order the edges come up.
ReachesAll ==
  \A r, s \in Rank : \A n \in 1..MaxCast[s] :
    (started[s] >= n /\ r # s) ~> (Len(received[r][s]) >= n)
=============================================================================
