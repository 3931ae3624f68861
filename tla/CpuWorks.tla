------------------------------ MODULE CpuWorks ------------------------------
(* The collectives of a process group as the CPU threads of its ranks run   *)
(* them (core/cputhread.cc, core/processgroup.cc).                          *)
(*                                                                          *)
(* A collective is a work: a coroutine whose step() runs from one YIELD to  *)
(* the next.  Its script is the sequence of its sections, each a condition  *)
(* to wait for and what is done when it holds.  Ranks meet through control  *)
(* writes (RDMA writes of step values and of DynamicAddresses into memory   *)
(* set aside per concurrency index), through data writes and reads, and on  *)
(* one node through shared memory.  Control writes arrive in any order, and *)
(* take their value from the sender's buffer when they do.                  *)
(*                                                                          *)
(* Data is abstract: an item is the input of a rank, a chunk or a tensor    *)
(* part, and got holds which items reached a result, and through whom.      *)
EXTENDS AllGatherRoutes, TLC

CONSTANT Plans   \* a sequence of [nodes, ops, maxConcurrency, queueThread]: what all ranks run

Kinds == {"Barrier", "InternalBarrier", "CreateQueue", "AllGatherCpu", "ReduceScatterCpu",
          "BroadcastRingCpu", "Cat", "Custom"}
Internal == {"InternalBarrier", "CreateQueue"}   \* of the queues: index 0, step values of their own
Async == {"Cat", "Custom"}                       \* the caller gets a future

\* op.at is the location or source rank; op.parts[i + 1] is the set of tensors rank i
\* has (Cat), or of the [from, part] that rank i reads (Custom); op.cuda are the ranks
\* that use CUDA tensors; op.list are the ranks whose list of tensors is read: it is
\* not empty (Cat), or too long for a dyn (Custom).  Every rank reads tensors of the
\* ranks with such a list: a custom op does not wait for the lists it does not use.
ASSUME WorksAssumption ==
  \A n \in DOMAIN Plans : LET p == Plans[n] IN
    /\ Ranks(p.nodes) = 0..(Cardinality(Ranks(p.nodes)) - 1)
    /\ p.maxConcurrency \in Nat \ {0} /\ p.queueThread \in BOOLEAN
    /\ \A k \in DOMAIN p.ops : LET op == p.ops[k] IN
         /\ op.kind \in Kinds /\ op.at \in Ranks(p.nodes)
         /\ op.kind = "Custom" => \A r \in Ranks(p.nodes) : op.list \subseteq {x.from : x \in op.parts[r + 1]}

VARIABLES
  plan,                    \* the plan in force
  nextStepValue,           \* of each rank
  nextConcurrencyIndex,
  nextInternalStepValue,   \* of each rank and concurrency index
  works,                   \* the works of each rank, in the order it asked for them
  streams, concurrency,    \* the lists that a work waits in
  activeWorks,             \* the works that are being stepped
  mem,                     \* what the cells of each rank and concurrency index hold
  control,                 \* control writes in flight
  sends, reads,            \* data writes and reads in flight
  landed,                  \* data that was written into a rank's buffer
  got,                     \* per rank and work, what reached its result
  bad                      \* the CHECKs that failed

vars == <<plan, nextStepValue, nextConcurrencyIndex, nextInternalStepValue, works, streams,
          concurrency, activeWorks, mem, control, sends, reads, landed, got, bad>>

-----------------------------------------------------------------------------
(* Cells, conditions and sections.  Step values are relative to the work's. *)

Eager(f) == f @@ <<>>   \* f itself; TLC computes it once, not at each use
RanksOf == Eager([n \in DOMAIN Plans |-> Ranks(Plans[n].nodes)])
Rank == RanksOf[plan]
OpsOf == Eager([n \in DOMAIN Plans |-> Plans[n].ops])
Ops == OpsOf[plan]
Dyn(i) == <<"dyn", i>>
Step(i) == <<"step", i>>
In(i, j) == <<"in", i, j>>
Chunk(i, n) == <<"chunk", i, n>>
ProxyReady(i) == <<"proxy", i>>
Addresses == <<"addr">>
CpuIn == <<"cpuIn">>
CpuOut == <<"cpuOut">>

Unset == [op |-> "none", step |-> 0, from |-> 0]
Cell(r, c, cell) == IF cell \in DOMAIN mem[r][c] THEN mem[r][c][cell] ELSE Unset

Is(r, cell, off) == [of |-> r, cell |-> cell, atLeast |-> FALSE, off |-> off]
Reached(r, cell, off) == [of |-> r, cell |-> cell, atLeast |-> TRUE, off |-> off]
Put(r, cell, op, off) == [of |-> r, cell |-> cell, op |-> op, off |-> off]

outDyns(r, S, op) == {Put(r, <<"outDyn", i>>, op, 0) : i \in S}
outSteps(r, S) == {Put(r, <<"outStep", j>>, "step", j) : j \in S}
writeDyn(i, src, dst) == [to |-> i, src |-> <<"outDyn", src>>, dst |-> Dyn(dst)]
writeStepValue(i, src, dst) == [to |-> i, src |-> <<"outStep", src>>, dst |-> Step(dst)]
writeInternal(i, src, dst) == [to |-> i, src |-> <<"outStep", src>>, dst |-> In(dst, src - 1)]

Section ==
  [wait |-> {}, control |-> FALSE, sends |-> 1000, quiet |-> {},    \* what it waits for
   check |-> {}, peers |-> {},                                      \* its CHECKs
   set |-> {}, post |-> {}, send |-> {}, fetch |-> {}, take |-> {}, \* what it does
   parts |-> {}, limit |-> 0, forward |-> <<>>, copy |-> <<>>]      \* loops of their own

\* Mutants: a buffer is reused while its control writes are in flight, or a wait is
\* missing.
ENTERMutant == Section
WAIT_CONTROLMutant == Section
WaitStepAtLeastMutant(r, i, off) == Section
WaitInternalMutant(r, i, j, off) == Section

ENTER == [Section EXCEPT !.control = TRUE]
WAIT_CONTROL == [Section EXCEPT !.control = TRUE]
WAIT_DYN(r, i, op) == [Section EXCEPT !.wait = {Is(r, Dyn(i), 0)}, !.check = {<<Dyn(i), op>>}]
WaitStep(r, i, off) == [Section EXCEPT !.wait = {Is(r, Step(i), off)}]
WaitStepAtLeast(r, i, off) == [Section EXCEPT !.wait = {Reached(r, Step(i), off)}]
WaitInternal(r, i, j, off) == [Section EXCEPT !.wait = {Is(r, In(i, j), off)}]
WaitPeer(i, off) == [Section EXCEPT !.wait = {Reached(i, Addresses, off)}]
WaitSends(n) == [Section EXCEPT !.sends = n]   \* fewer than n data writes in flight

\* The other ranks in increasing order, and all ranks from r downwards.
Others(size, r) == SelectSeq([n \in 1..size |-> n - 1], LAMBDA i : i # r)
Downward(size, r) == [n \in 1..size |-> (r + size + 1 - n) % size]

-----------------------------------------------------------------------------
(* The scripts of the works of rank r. *)

WorkBarrier(size, r) ==
  LET q == Others(size, r) IN
  << [ENTER EXCEPT !.set = outDyns(r, {0}, "Barrier") \cup outSteps(r, {0}),
                   !.post = {writeDyn(i, 0, r) : i \in Range(q)}] >>
  \o [n \in DOMAIN q |-> [WAIT_DYN(r, q[n], "Barrier") EXCEPT !.post = {writeStepValue(q[n], 0, r)}]]
  \o [n \in DOMAIN q |-> WaitStep(r, q[n], 0)]

WorkInternalBarrier(size, r) ==
  LET q == Others(size, r) IN
  << [ENTER EXCEPT !.set = outDyns(r, {0}, "InternalBarrier") \cup outSteps(r, 0..2),
                   !.post = {writeInternal(i, 1, r) : i \in Range(q)}] >>
  \o [n \in DOMAIN q |-> WaitInternal(r, q[n], 0, 1)]
  \o << [WAIT_CONTROL EXCEPT !.post = {writeInternal(i, 2, r) : i \in Range(q)}] >>
  \o [n \in DOMAIN q |-> WaitInternal(r, q[n], 1, 2)]
  \o << WAIT_CONTROL >>

\* The location writes its dyn into slot 0 of the others, whatever its rank is.  All
\* ranks agree on the location, so the errors for ranks that do not are left out.
WorkCreateQueue(size, r, location) ==
  LET q == Others(size, r)
      first == {writeInternal(i, 1, r) : i \in Range(q)} IN
  (IF r = location
     THEN << [ENTER EXCEPT !.set = outDyns(r, {0}, "CreateQueue") \cup outSteps(r, 0..2),
                           !.post = {writeDyn(i, 0, 0) : i \in Range(q)} \cup first,
                           !.take = {[of |-> "input", at |-> r, from |-> r]}] >>
     ELSE << [ENTER EXCEPT !.set = outSteps(r, 0..2)],
             [WAIT_DYN(r, 0, "CreateQueue") EXCEPT !.post = first,
                           !.take = {[of |-> "dyn", at |-> r, from |-> 0]}] >>)
  \o [n \in DOMAIN q |-> WaitInternal(r, q[n], 0, 1)]
  \o << [Section EXCEPT !.post = {writeInternal(i, 2, r) : i \in Range(q)}] >>
  \o [n \in DOMAIN q |-> WaitInternal(r, q[n], 1, 2)]
  \o << WAIT_CONTROL >>

\* How the works that use shared memory begin and end.
WaitPeers(peers, off) == [n \in DOMAIN peers |-> WaitPeer(peers[n], off)]
\* Mutant: leaves without waiting for the peers.
LeavePeersMutant(r, peers) == << [WaitSends(1) EXCEPT !.set = {Put(r, Addresses, "addr", 1)}] >>

LeavePeers(r, peers) ==
  << [WaitSends(1) EXCEPT !.set = {Put(r, Addresses, "addr", 1)}] >> \o WaitPeers(peers, 1)

\* A dyn for each rank that data comes from; then, for each rank it goes to, the
\* memory of the peers is read if it is part of the data, and the data is written when
\* that rank's dyn is here, at most two at a time.
Announce(r, from, op) ==
  [ENTER EXCEPT !.set = outDyns(r, Range(from), op) \cup outSteps(r, {0}) \cup {Put(r, Addresses, "addr", 0)},
                !.post = {writeDyn(i, i, r) : i \in Range(from)}]
SendEach(r, to, op, items) ==
  FlattenSeq([n \in DOMAIN to |->
    (IF items = {r} THEN <<>> ELSE << [Section EXCEPT !.peers = items \ {r}] >>)
    \o << [WAIT_DYN(r, to[n], op) EXCEPT !.send = {[to |-> to[n], items |-> items, relay |-> FALSE, dst |-> Step(r)]}],
          WaitSends(2) >>])
CopyLocal(r, peers) ==
  [Section EXCEPT !.peers = Range(peers),
                  !.take = {[of |-> "input", at |-> i, from |-> i] : i \in {r} \cup Range(peers)}]
ReceiveEach(r, from) ==
  [n \in DOMAIN from |-> [WaitStep(r, from[n], 0) EXCEPT
                            !.take = {[of |-> "landed", at |-> r, from |-> from[n]]}]]

\* Mutant: announces data that may not have arrived.
ForwardProxiesMutant(r, x) ==
  [Section EXCEPT
     !.forward = [n \in DOMAIN x.proxyInfo |->
        [Section EXCEPT !.set = {Put(x.proxyInfo[n].destination, ProxyReady(x.proxyInfo[n].source), "proxy", 0)}]],
     !.copy = [n \in DOMAIN x.proxyDestinationInfo |->
        LET i == x.proxyDestinationInfo[n] IN
        [Section EXCEPT !.wait = {Reached(r, ProxyReady(i.source), 0)}, !.peers = {i.proxy},
                        !.take = {[of |-> "landed", at |-> i.proxy, from |-> i.source]}]]]

\* Proxies tell their destinations what arrived, and copy what was announced to them,
\* each in its own order.
ForwardProxies(r, x) ==
  [Section EXCEPT
     !.forward = [n \in DOMAIN x.proxyInfo |->
        [WaitStep(r, x.proxyInfo[n].source, 0) EXCEPT
           !.set = {Put(x.proxyInfo[n].destination, ProxyReady(x.proxyInfo[n].source), "proxy", 0)}]],
     !.copy = [n \in DOMAIN x.proxyDestinationInfo |->
        LET i == x.proxyDestinationInfo[n] IN
        [Section EXCEPT !.wait = {Reached(r, ProxyReady(i.source), 0)}, !.peers = {i.proxy},
                        !.take = {[of |-> "landed", at |-> i.proxy, from |-> i.source]}]]]

WorkAllGatherCpu(r, x) ==
  << Announce(r, x.recvRanks, "AllGatherCpu") >> \o WaitPeers(x.ipcRanks, 0)
  \o SendEach(r, x.sendRanks, "AllGatherCpu", {r})
  \o << CopyLocal(r, x.ipcRanks), ForwardProxies(r, x) >>
  \o ReceiveEach(r, x.recvRanks)
  \o LeavePeers(r, x.ipcRanks)

\* A write carries the sum of the inputs of the sender's node.
WorkReduceScatterCpu(r, x) ==
  << Announce(r, x.sendRanks, "ReduceScatterCpu") >> \o WaitPeers(x.ipcRanks, 0)
  \o SendEach(r, x.recvRanks, "ReduceScatterCpu", {r} \cup Range(x.ipcRanks))
  \o << CopyLocal(r, x.ipcRanks) >>
  \o ReceiveEach(r, x.sendRanks)
  \o LeavePeers(r, x.ipcRanks)

\* The chunks go round the ring of nodes; the ranks beside the source and beside the
\* ranks on the ring copy the whole tensor.
WorkBroadcastRingCpu(r, x, source, chunks) ==
  LET recvFrom == x.ringRecvs[source]
      sendTo == x.ringSends[source]
      via == SelectSeq(x.proxyDestinationInfo, LAMBDA i : i.source = source)
      copyFrom == IF via # <<>> THEN {via[1].proxy} ELSE Range(x.ipcRanks) \cap {source}
      arrived(n) == IF r = source THEN {} ELSE {Is(r, Chunk(source, n), 0)}
  IN << IF recvFrom = r THEN [ENTER EXCEPT !.set = outSteps(r, {0})]
        ELSE [ENTER EXCEPT !.set = outDyns(r, {0}, "BroadcastRingCpu") \cup outSteps(r, {0}),
                           !.post = {writeDyn(recvFrom, 0, r)}] >>
     \o (IF sendTo = r THEN <<>> ELSE << WAIT_DYN(r, sendTo, "BroadcastRingCpu") >>)
     \o (IF sendTo = r /\ recvFrom = r THEN <<>>
         ELSE [n \in 1..chunks |->
                 [Section EXCEPT
                    !.wait = arrived(n),
                    !.send = IF sendTo = r THEN {}
                             ELSE {[to |-> sendTo, items |-> {n}, relay |-> r # source, dst |-> Chunk(source, n)]},
                    !.take = {[of |-> "chunk", at |-> r, from |-> n]}]])
     \o << [WaitSends(1) EXCEPT !.set = {Put(r, Addresses, "addr", 0)}] >>
     \o SetToSeq({[WaitPeer(i, 0) EXCEPT !.take = {[of |-> "tensor", at |-> i, from |-> i]}] : i \in copyFrom})
     \o LeavePeers(r, x.ipcRanks)

ReadList(op, i) == IF i \in op.list THEN {[from |-> i, part |-> 0]} ELSE {}

\* Everyone reads the lists of everyone, then all the parts, at most 8 at a time.
WorkCat(size, r, op) ==
  LET q == Others(size, r)
      d == Downward(size, r)
      all == UNION {{[from |-> i, part |-> p] : p \in op.parts[i + 1]} : i \in 0..(size - 1)} IN
  << [ENTER EXCEPT !.set = outDyns(r, 0..(size - 1), "Cat") \cup outSteps(r, {0}),
                   !.post = {writeDyn(i, i, r) : i \in 0..(size - 1)}] >>
  \o [n \in DOMAIN d |-> [WAIT_DYN(r, d[n], "Cat") EXCEPT !.fetch = ReadList(op, d[n])]]
  \o [n \in DOMAIN d |-> [Section EXCEPT !.quiet = ReadList(op, d[n])]]
  \o << [Section EXCEPT !.parts = all, !.limit = 8],
        [Section EXCEPT !.quiet = all, !.post = {writeStepValue(i, 0, r) : i \in Range(q)}] >>
  \o [n \in DOMAIN q |-> WaitStepAtLeast(r, q[n], 0)]

\* The inputs may be read when all ranks wrote stepValue, and reused when all wrote
\* stepValue + 1 over it.  A dyn arrives as a whole, so the wait for the step value at
\* its end is the wait for the one at its beginning.
WorkCustom(size, r, op) ==
  LET d == Downward(size, r)
      q == Tail(d) IN
  << [ENTER EXCEPT !.set = outDyns(r, {0}, "Custom") \cup outSteps(r, {0, 1}),
                   !.post = {writeDyn(i, 0, r) : i \in 0..(size - 1)}] >>
  \o [n \in DOMAIN d |-> [WAIT_DYN(r, d[n], "Custom") EXCEPT !.fetch = ReadList(op, d[n])]]
  \o << [Section EXCEPT !.wait = IF r \in op.cuda THEN {Reached(r, CpuIn, 0)} ELSE {},
                        !.post = {writeStepValue(i, 0, r) : i \in Range(q)}] >>
  \o [n \in DOMAIN q |-> WaitStepAtLeast(r, q[n], 0)]
  \o << [Section EXCEPT !.parts = op.parts[r + 1], !.limit = 2],
        [WAIT_CONTROL EXCEPT !.quiet = op.parts[r + 1], !.post = {writeStepValue(i, 1, r) : i \in Range(q)}] >>
  \o [n \in DOMAIN q |-> WaitStep(r, q[n], 1)]
  \o (IF r \in op.cuda THEN << [Section EXCEPT !.post = {[to |-> r, src |-> <<"outStep", 0>>, dst |-> CpuOut]}] >>
      ELSE <<>>)

ScriptOf(p, r, op) ==
  LET size == Cardinality(Ranks(p.nodes))
      x == RoutesOf(p.nodes, r) IN
  CASE op.kind = "Barrier" -> WorkBarrier(size, r)
    [] op.kind = "InternalBarrier" -> WorkInternalBarrier(size, r)
    [] op.kind = "CreateQueue" -> WorkCreateQueue(size, r, op.at)
    [] op.kind = "AllGatherCpu" -> WorkAllGatherCpu(r, x)
    [] op.kind = "ReduceScatterCpu" -> WorkReduceScatterCpu(r, x)
    [] op.kind = "BroadcastRingCpu" -> WorkBroadcastRingCpu(r, x, op.at, op.chunks)
    [] op.kind = "Cat" -> WorkCat(size, r, op)
    [] op.kind = "Custom" -> WorkCustom(size, r, op)

Scripts == Eager([n \in DOMAIN Plans |-> Eager([r \in RanksOf[n] |->
             Eager([k \in DOMAIN Plans[n].ops |-> ScriptOf(Plans[n], r, Plans[n].ops[k])])])])
Script(r, k) == Scripts[plan][r][k]
Done(r, k) == k \in DOMAIN works[r] /\ works[r][k].done
Entered(r, k) == k \in DOMAIN works[r] /\ works[r][k].at > 1

-----------------------------------------------------------------------------
(* Asking for a work, and the lists of the CPU thread.  The task queue from   *)
(* the caller to the CPU thread is first in first out: it delays a work as a  *)
(* later request would, and is left out.                                      *)

Init ==
  /\ plan \in DOMAIN Plans
  /\ LET C == 0..(Plans[plan].maxConcurrency - 1)
         W == DOMAIN Plans[plan].ops IN
     /\ nextStepValue = [r \in Rank |-> 4096]
     /\ nextConcurrencyIndex = [r \in Rank |-> 0]
     /\ nextInternalStepValue = [r \in Rank |-> [c \in C |-> 0]]
     /\ works = [r \in Rank |-> <<>>]
     /\ streams = [r \in Rank |-> [s \in {-1} \cup C |-> <<>>]]
     /\ concurrency = [r \in Rank |-> [c \in C |-> <<>>]]
     /\ activeWorks = [r \in Rank |-> <<>>]
     /\ mem = [r \in Rank |-> [c \in C |-> <<>>]]
     /\ got = [r \in Rank |-> [k \in W |-> {}]]
  /\ control = {} /\ sends = {} /\ reads = {} /\ landed = {} /\ bad = {}

\* The caller of work k waits for no other: a call that returns no future blocks its
\* thread.  Collectives are called by one thread at a time (threadUnsafe); the making
\* of a queue does not look at that lock, and with queueThread another thread does it.
Free(r, k) ==
  \A n \in DOMAIN works[r] :
    \/ Ops[n].kind \in Async \/ Done(r, n)
    \/ Plans[plan].queueThread /\ (Ops[n].kind \in Internal) # (Ops[k].kind \in Internal)

roundRobin(c, max) == (c + 1) % max

enqueue(r, k, c, s) ==
  /\ activeWorks' = IF concurrency[r][c] = <<>> /\ streams[r][s] = <<>>
                      THEN [activeWorks EXCEPT ![r] = Append(@, k)] ELSE activeWorks
  /\ streams' = [streams EXCEPT ![r][s] = Append(@, k)]
  /\ concurrency' = [concurrency EXCEPT ![r][c] = Append(@, k)]

\* The next operation of the program: it gets a step value, a concurrency index and a
\* stream, and is put into the lists.  Stream -1 is the one of blocking calls; a call
\* that returns a future has the stream of its concurrency index.
Request(r) ==
  LET k == Len(works[r]) + 1
      internal == Ops[k].kind \in Internal
      c == IF internal THEN 0 ELSE nextConcurrencyIndex[r]
      s == IF Ops[k].kind \in Async THEN c ELSE -1 IN
  /\ k \in DOMAIN Ops
  /\ Free(r, k)
  /\ works' = [works EXCEPT ![r] = Append(@,
       [stepValue |-> IF internal THEN 0 ELSE nextStepValue[r], concurrencyIndex |-> c, streamIndex |-> s,
        at |-> 1, done |-> FALSE, recvIndex |-> 0, proxyIndex |-> 0, begun |-> {}])]
  /\ IF internal THEN UNCHANGED <<nextStepValue, nextConcurrencyIndex>>
     ELSE /\ nextStepValue' = [nextStepValue EXCEPT ![r] = @ + 4096]
          /\ nextConcurrencyIndex' = [nextConcurrencyIndex EXCEPT ![r] = roundRobin(@, Plans[plan].maxConcurrency)]
  /\ enqueue(r, k, c, s)
  /\ UNCHANGED <<plan, nextInternalStepValue, mem, control, sends, reads, landed, got, bad>>

\* Mutant: steps a work while an earlier one of its stream goes on.
headsStreamMutant(r, k, str) == TRUE

headsStream(r, k, str) == Head(str[works[r][k].streamIndex]) = k

\* Work k of rank r is done: it leaves its lists, and the works behind it are stepped
\* from now on if they head both of theirs.
finish(r, k) ==
  LET c == works[r][k].concurrencyIndex
      s == works[r][k].streamIndex
      con == [concurrency[r] EXCEPT ![c] = Tail(@)]
      str == [streams[r] EXCEPT ![s] = Tail(@)]
      next == IF str[s] = <<>> THEN 0 ELSE Head(str[s])
      byStream == next # 0 /\ Head(con[works[r][next].concurrencyIndex]) = next
      queuedThisConcurrency == byStream /\ works[r][next].concurrencyIndex = c
      other == IF queuedThisConcurrency \/ con[c] = <<>> THEN 0 ELSE Head(con[c])
      byConcurrency == other # 0 /\ headsStream(r, other, str)
      i == CHOOSE j \in DOMAIN activeWorks[r] : activeWorks[r][j] = k
  IN /\ concurrency' = [concurrency EXCEPT ![r] = con]
     /\ streams' = [streams EXCEPT ![r] = str]
     /\ activeWorks' = [activeWorks EXCEPT ![r] =
          RemoveAt(@, i) \o (IF byStream THEN <<next>> ELSE <<>>)
                         \o (IF byConcurrency THEN <<other>> ELSE <<>>)]

\* The CHECKs on the lists when work k of rank r is done.
listsDisagree(r, k) ==
  \/ Head(concurrency[r][works[r][k].concurrencyIndex]) # k
  \/ Head(streams[r][works[r][k].streamIndex]) # k

-----------------------------------------------------------------------------
(* Stepping a work.  Works of the queues take their step value on entry. *)

Base(r, k) ==
  LET w == works[r][k] IN
  IF Ops[k].kind \in Internal /\ w.at = 1 THEN nextInternalStepValue[r][w.concurrencyIndex] + 1 ELSE w.stepValue

Live(r, k) == {x \in sends : x.from = r /\ x.k = k}
Reading(r, k) == {[from |-> x.from, part |-> x.part] : x \in {y \in reads : y.by = r /\ y.k = k}}

Ready(r, k, sec) ==
  LET c == works[r][k].concurrencyIndex IN
  /\ \A t \in sec.wait : LET v == Cell(t.of, c, t.cell).step
                             want == Base(r, k) + t.off IN IF t.atLeast THEN v >= want ELSE v = want
  /\ sec.control => ~\E f \in control : f.from = r /\ f.c = c
  /\ Cardinality(Live(r, k)) < sec.sends
  /\ sec.quiet \cap Reading(r, k) = {}

\* What a section copies into the result of work k of rank r, with the rank that
\* brought it.
Taken(r, k, t) ==
  CASE t.of = "input" -> {<<t.at, r>>}
    [] t.of = "dyn" -> {<<Cell(r, works[r][k].concurrencyIndex, Dyn(t.from)).from, r>>}
    [] t.of = "landed" -> UNION {{<<i, x.from>> : i \in x.items} : x \in {y \in landed : y.at = t.at /\ y.k = k /\ y.from = t.from}}
    [] t.of = "chunk" -> IF r = Ops[k].at THEN {<<t.from, r>>}
                         ELSE {<<t.from, x.from>> : x \in {y \in landed : y.at = r /\ y.k = k /\ t.from \in y.items}}
    [] t.of = "tensor" -> {<<i[1], t.at>> : i \in got[t.at][k]}

\* The CHECKs of a section: CHECK_DYN, the step value of a peer, and that memory it
\* copies from still belongs to the peer's work.
Failed(r, k, sec) ==
  LET c == works[r][k].concurrencyIndex IN
  {<<r, k, "op">> : x \in {y \in sec.check : Cell(r, c, y[1]).op # y[2]}}
  \cup {<<r, k, "peer">> : i \in {j \in sec.peers : Cell(j, c, Addresses).step - Base(r, k) \notin {0, 1}}}
  \cup {<<r, k, "freed">> : t \in {u \in sec.take : u.at # r /\ (~Entered(u.at, k) \/ Done(u.at, k))}}

Do(r, k, sec) ==
  LET c == works[r][k].concurrencyIndex
      Puts(x) == {a \in sec.set : a.of = x}
      Stored(x) == [cell \in {a.cell : a \in Puts(x)} |->
                      LET a == CHOOSE b \in Puts(x) : b.cell = cell
                      IN [op |-> a.op, step |-> Base(r, k) + a.off, from |-> r]]
      Held(y) == IF y.relay THEN {i \in y.items : \E x \in landed : x.at = r /\ x.k = k /\ i \in x.items} ELSE y.items
  IN /\ mem' = [x \in Rank |-> IF Puts(x) = {} THEN mem[x] ELSE [mem[x] EXCEPT ![c] = Stored(x) @@ @]]
     /\ control' = control \cup {[from |-> r, c |-> c, to |-> w.to, src |-> w.src, dst |-> w.dst, k |-> k,
                                  val |-> mem'[r][c][w.src]] : w \in sec.post}
     /\ sends' = sends \cup {[from |-> r, k |-> k, to |-> y.to, items |-> Held(y), dst |-> y.dst] : y \in sec.send}
     /\ reads' = reads \cup {[by |-> r, k |-> k, from |-> x.from, part |-> x.part] : x \in sec.fetch}
     /\ got' = [got EXCEPT ![r][k] = @ \cup UNION {Taken(r, k, t) : t \in sec.take}]
     /\ UNCHANGED <<plan, nextStepValue, nextConcurrencyIndex, landed>>

\* Active work k of rank r goes on to its next section, or is done.
StepWork(r, k) == \E script \in {Script(r, k)} :
  LET w == works[r][k]
      sec == script[w.at]
      last == w.at = Len(script) IN
  /\ k \in Range(activeWorks[r])
  /\ Ready(r, k, sec)
  /\ sec.parts \subseteq w.begun
  /\ w.recvIndex = Len(sec.forward) /\ w.proxyIndex = Len(sec.copy)
  /\ Do(r, k, sec)
  /\ works' = [works EXCEPT ![r][k] = [w EXCEPT !.stepValue = Base(r, k), !.at = w.at + 1, !.done = last,
                                                !.recvIndex = 0, !.proxyIndex = 0, !.begun = {}]]
  /\ nextInternalStepValue' = [nextInternalStepValue EXCEPT ![r][w.concurrencyIndex] =
                                 IF Ops[k].kind \in Internal /\ w.at = 1 THEN @ + 4 ELSE @]
  /\ IF last
       THEN /\ finish(r, k)
            /\ bad' = bad \cup Failed(r, k, sec) \cup {<<r, k, "lists">> : x \in {y \in {k} : listsDisagree(r, y)}}
       ELSE /\ bad' = bad \cup Failed(r, k, sec)
            /\ UNCHANGED <<streams, concurrency, activeWorks>>

\* The proxy loop of an all-gather: either of its two orders advances.
StepProxy(r, k) == \E script \in {Script(r, k)} :
  LET w == works[r][k]
      sec == script[w.at]
      Advance(part) ==
        /\ Ready(r, k, part)
        /\ Do(r, k, part)
        /\ bad' = bad \cup Failed(r, k, part)
        /\ UNCHANGED <<nextInternalStepValue, streams, concurrency, activeWorks>>
  IN /\ k \in Range(activeWorks[r])
     /\ \/ /\ w.recvIndex < Len(sec.forward)
           /\ Advance(sec.forward[w.recvIndex + 1])
           /\ works' = [works EXCEPT ![r][k].recvIndex = @ + 1]
        \/ /\ w.proxyIndex < Len(sec.copy)
           /\ Advance(sec.copy[w.proxyIndex + 1])
           /\ works' = [works EXCEPT ![r][k].proxyIndex = @ + 1]

\* Cat and custom ops start their reads in a random order, a custom op only when the
\* list of the rank it reads from is here.
StartRead(r, k) == \E script \in {Script(r, k)} :
  LET w == works[r][k]
      sec == script[w.at] IN
  /\ k \in Range(activeWorks[r])
  /\ \E x \in sec.parts \ w.begun :
       /\ Cardinality({y \in Reading(r, k) : y.part # 0}) < sec.limit
       /\ [from |-> x.from, part |-> 0] \notin Reading(r, k)
       /\ reads' = reads \cup {[by |-> r, k |-> k, from |-> x.from, part |-> x.part]}
       /\ works' = [works EXCEPT ![r][k].begun = @ \cup {x}]
  /\ UNCHANGED <<plan, nextStepValue, nextConcurrencyIndex, nextInternalStepValue, streams, concurrency,
                 activeWorks, mem, control, sends, landed, got, bad>>

-----------------------------------------------------------------------------
(* The network and the GPU. *)

\* A control write is done: the value its buffer has now is in the remote cell.
ControlDone(f) ==
  /\ f \in control
  /\ control' = control \ {f}
  /\ mem' = [mem EXCEPT ![f.to][f.c] = (f.dst :> mem[f.from][f.c][f.src]) @@ @]
  /\ UNCHANGED <<plan, nextStepValue, nextConcurrencyIndex, nextInternalStepValue, works, streams, concurrency,
                 activeWorks, sends, reads, landed, got, bad>>

\* A data write is done: its callback writes the step value.
SendDone(x) ==
  LET c == works[x.from][x.k].concurrencyIndex IN
  /\ x \in sends
  /\ sends' = sends \ {x}
  /\ landed' = landed \cup {[at |-> x.to, k |-> x.k, from |-> x.from, items |-> x.items]}
  /\ control' = control \cup {[from |-> x.from, c |-> c, to |-> x.to, src |-> <<"outStep", 0>>, dst |-> x.dst,
                               k |-> x.k, val |-> mem[x.from][c][<<"outStep", 0>>]]}
  /\ UNCHANGED <<plan, nextStepValue, nextConcurrencyIndex, nextInternalStepValue, works, streams, concurrency,
                 activeWorks, mem, reads, got, bad>>

ReadDone(x) ==
  /\ x \in reads
  /\ reads' = reads \ {x}
  /\ got' = IF x.part = 0 THEN got ELSE [got EXCEPT ![x.by][x.k] = @ \cup {<<x.part, x.from>>}]
  /\ UNCHANGED <<plan, nextStepValue, nextConcurrencyIndex, nextInternalStepValue, works, streams, concurrency,
                 activeWorks, mem, control, sends, landed, bad>>

\* The CUDA stream of rank r reaches custom op k: it writes the step value to cpuIn.
StreamReaches(r, k) ==
  LET c == works[r][k].concurrencyIndex
      Waits(j) == Ops[j].kind = "Custom" /\ r \in Ops[j].cuda
                  /\ Cell(r, works[r][j].concurrencyIndex, CpuIn).step < works[r][j].stepValue IN
  /\ Waits(k) /\ \A j \in 1..(k - 1) : ~Waits(j)
  /\ mem' = [mem EXCEPT ![r][c] = (CpuIn :> [op |-> "step", step |-> works[r][k].stepValue, from |-> r]) @@ @]
  /\ UNCHANGED <<plan, nextStepValue, nextConcurrencyIndex, nextInternalStepValue, works, streams, concurrency,
                 activeWorks, control, sends, reads, landed, got, bad>>

Next ==
  \/ \E r \in Rank : Request(r)
  \/ \E r \in Rank : \E k \in DOMAIN works[r] : StepWork(r, k) \/ StepProxy(r, k) \/ StartRead(r, k) \/ StreamReaches(r, k)
  \/ \E f \in control : ControlDone(f)
  \/ \E x \in sends : SendDone(x)
  \/ \E x \in reads : ReadDone(x)

Spec == Init /\ [][Next]_vars

-----------------------------------------------------------------------------
(* Properties *)

\* No CHECK of a work fails: the dyn that a rank waits for is of its own operation
\* (CHECK_DYN), a peer whose memory is copied is in the same operation and has not
\* left it, and a work that is done heads both of its lists.
ChecksPass == bad = {}

\* The buffer of a control write keeps the value it was posted with until the write
\* is done, so what arrives is what was sent: no work reuses outStepValue or outDyn
\* before ENTER or WAIT_CONTROL saw concurrencyLiveControlTransfers at 0.
ControlIntact == \A f \in control : mem[f.from][f.c][f.src] = f.val

\* A data write or read in flight touches only memory that the works of both ends
\* still hold.  A custom op reads CUDA inputs only after the stream of their rank
\* wrote cpuIn and before cpuOut lets that stream go on.
BuffersAlive ==
  /\ \A x \in sends : Entered(x.to, x.k) /\ ~Done(x.to, x.k) /\ ~Done(x.from, x.k)
  /\ \A x \in reads :
       /\ Entered(x.from, x.k) /\ ~Done(x.by, x.k)
       /\ IF Ops[x.k].kind = "Custom" /\ x.part # 0 /\ x.from \in Ops[x.k].cuda
            THEN LET w == works[x.from][x.k] IN
                 /\ Cell(x.from, w.concurrencyIndex, CpuIn).step >= w.stepValue
                 /\ Cell(x.from, w.concurrencyIndex, CpuOut).step < w.stepValue
            ELSE ~Done(x.from, x.k)

\* The items that the result of operation k has on rank r.
Expected(r, k) ==
  LET op == Ops[k] IN
  CASE op.kind \in {"AllGatherCpu", "ReduceScatterCpu"} -> Rank
    [] op.kind = "BroadcastRingCpu" -> 1..op.chunks
    [] op.kind = "Cat" -> UNION Range(op.parts)
    [] op.kind = "Custom" -> {x.part : x \in op.parts[r + 1]}
    [] op.kind = "CreateQueue" -> {op.at}
    [] OTHER -> {}

\* When a rank is told that an operation is done, its result has everything and has it
\* once: the input of every rank (also when it came through a proxy, or summed with
\* its node), every chunk, every part, or the queue of the rank that owns it.
ResultComplete ==
  \A r \in Rank : \A k \in DOMAIN works[r] : Done(r, k) =>
    /\ {x[1] : x \in got[r][k]} = Expected(r, k)
    /\ \A x, y \in got[r][k] : x[1] = y[1] => x = y

\* No rank is done with an operation before every rank has begun it; a broadcast is
\* the one that a rank may leave earlier.
NobodyLeavesEarly ==
  \A r \in Rank : \A k \in DOMAIN works[r] :
    Done(r, k) /\ Ops[k].kind # "BroadcastRingCpu" => \A i \in Rank : Entered(i, k)

\* The works being stepped are the ones at the head of both their lists, each once:
\* none is stepped while an earlier work of its stream or index goes on, and none is
\* forgotten when that one ends.
HeadsRun ==
  \A r \in Rank :
    /\ Range(activeWorks[r]) = {k \in DOMAIN works[r] :
         LET w == works[r][k] IN
         /\ concurrency[r][w.concurrencyIndex] # <<>> /\ Head(concurrency[r][w.concurrencyIndex]) = k
         /\ streams[r][w.streamIndex] # <<>> /\ Head(streams[r][w.streamIndex]) = k}
    /\ \A i, j \in DOMAIN activeWorks[r] : activeWorks[r][i] = activeWorks[r][j] => i = j

AllDone == \A r \in Rank : Len(works[r]) = Len(Ops) /\ \A k \in DOMAIN Ops : Done(r, k)

\* The ranks never all wait for each other: until every operation is done on every
\* rank, a transfer is in flight or a rank can go on, and either is a step forward.
\* No wait for an exact step value misses it because the value was overwritten first.
NeverStuck == AllDone \/ control # {} \/ sends # {} \/ reads # {} \/ ENABLED Next
=============================================================================
