------------------------------ MODULE TensorQueue ------------------------------
(***************************************************************************)
(* moodist.Queue: the calls of QueueImpl (core/queue.cc), the messages the *)
(* CPU threads exchange for them (core/cputhread.cc) and the storage that   *)
(* a queue keeps on the rank it is located on.                              *)
(*                                                                         *)
(* Each rank has a CPU thread with a FIFO of tasks.  A put becomes a task,  *)
(* the task a message with a sequence number, and the receiving CPU thread  *)
(* puts messages back in order.  A small tensor travels inside the message; *)
(* a large one is announced and then fetched with an RDMA read, and reads   *)
(* finish in any order.  The storage keeps the announced items of each      *)
(* source in order until they are ready.                                    *)
(*                                                                         *)
(* A plan says which queue there is and which calls each client thread      *)
(* makes.  Tensors, transactions and gets are named by numbers; 0 is the    *)
(* code's null tensor and its "no key".                                     *)
(***************************************************************************)
EXTENDS Integers, Sequences, FiniteSets, SequencesExt

CONSTANTS
  Rank,      \* the ranks of the group, 0 .. size - 1
  Client,    \* the application threads that use the queue
  At,        \* the rank each of them runs on
  Plans,     \* the scenarios: see PlanType
  SeqSpan,    \* 2^32 in the code: the range of seq_t
  FirstSeq   \* the sequence number the run starts from

Call == [op : {"put", "commit", "cancel", "get", "getTimeout"},
         id : Nat, txn : Nat, cuda : BOOLEAN]

(* locations: where the queue is kept, the first entry being where puts go; *)
(* small: the tensors that fit into a message.                              *)
PlanType == [multicast : BOOLEAN, locations : Seq(Rank),
             small : SUBSET Nat, calls : [Client -> Seq(Call)]]

ASSUME QueueAssumption ==
  /\ At \in [Client -> Rank]
  /\ SeqSpan \in Nat /\ FirstSeq \in 0 .. SeqSpan - 1
  /\ \A p \in Plans :
       /\ p \in PlanType /\ p.locations # <<>> /\ IsInjective(p.locations)
       /\ p.multicast \/ Len(p.locations) = 1

VARIABLES
  plan,
  pc, at,               \* each client: its next call, and how far into it
  putSize, putQueue,    \* QueueStorage::putQueueSize and putQueue, per rank
  mutex,                \* the client whose host function holds qs->mutex, or 0
  host, hostAt,         \* host functions launched on each client's stream
  tasks,                \* CpuThread::queue
  thread,               \* what the CPU thread is in the middle of
  wire,                 \* messages on the network, in no order
  outgoingSeqId, incomingSeqId, incomingSeqQueued,
  queuePutCallbacks,    \* puts whose tensor this rank still holds
  reads,                \* RDMA reads in progress
  store,                \* the QueueStorage of each rank
  result,               \* RemoteGetResult, on the stack of the getting client
  putDone,              \* puts whose QueueWork is done
  got,                  \* what each client's gets returned, 0 for Empty
  failed                \* a CHECK has failed, which ends the process

clientVars == <<pc, at, got>>
putVars    == <<putSize, putQueue, mutex, host, hostAt>>
netVars    == <<wire, outgoingSeqId, incomingSeqId, incomingSeqQueued>>
workVars   == <<queuePutCallbacks, reads, putDone>>
vars == <<plan, clientVars, putVars, tasks, thread, netVars, workVars,
          store, result, failed>>

location == plan.locations[1]
Current(c) == plan.calls[c][pc[c]]
Calling(c, ops) ==
  /\ pc[c] <= Len(plan.calls[c]) /\ at[c] = "ready"
  /\ Current(c).op \in ops
IsLocal(r) == plan.multicast \/ location = r

NoResult == [done |-> FALSE, safe |-> FALSE, val |-> 0, alive |-> FALSE]
Idle == [at |-> "loop"]

EmptyStore ==
  [vector |-> <<>>,                                 \* the tensors to be got
   known  |-> {},                                   \* keys of `incoming'
   items  |-> [s \in Rank |-> <<>>],                \* IncomingSource::items
   txns   |-> [s \in Rank |-> [k \in {} |-> 0]],    \* its transactions
   wait   |-> <<>>,                                 \* waitList and waitMap
   active |-> {},                                   \* activeOutgoingRemoteGets
   log    |-> <<>>]                                 \* every tensor ever added

Init ==
  /\ plan \in Plans
  /\ pc = [c \in Client |-> 1] /\ at = [c \in Client |-> "ready"]
  /\ got = [c \in Client |-> <<>>]
  /\ putSize = [r \in Rank |-> 0] /\ putQueue = [r \in Rank |-> <<>>]
  /\ mutex = [r \in Rank |-> 0]
  /\ host = [c \in Client |-> <<>>] /\ hostAt = [c \in Client |-> "idle"]
  /\ tasks = [r \in Rank |-> <<>>] /\ thread = [r \in Rank |-> Idle]
  /\ wire = {}
  /\ outgoingSeqId = [r \in Rank |-> [d \in Rank |-> FirstSeq]]
  /\ incomingSeqId = [r \in Rank |-> [s \in Rank |-> FirstSeq]]
  /\ incomingSeqQueued = [r \in Rank |-> [s \in Rank |-> <<>>]]
  /\ queuePutCallbacks = [r \in Rank |-> {}]
  /\ reads = [r \in Rank |-> {}] /\ putDone = {}
  /\ store = [r \in Rank |-> EmptyStore]
  /\ result = [c \in Client |-> NoResult]
  /\ failed = FALSE

--------------------------------------------------------------------------------
(* Tasks and messages. *)

PutMsg(key, val, get, txn) ==
  [type |-> "put", key |-> key, val |-> val, get |-> get, txn |-> txn,
   inline |-> val \in plan.small]
Send(d, m) == [task |-> "send", to |-> d, msg |-> m]

(* sendPut: putKey comes from a process-wide counter, so no two puts of a   *)
(* rank share one; it is written here as what the put is for.               *)
sendPut(d, val, txn) == Send(d, PutMsg(<<"put", val, d>>, val, 0, txn))
sendPutRemote(d, val, get) ==
  Send(d, PutMsg(<<IF get = 0 THEN "copy" ELSE "get", val, d>>, val, get, 0))
sendTransaction(op, key) ==
  Send(location, [type |-> "transaction", op |-> op, key |-> key])
sendGet(d, op, key) == Send(d, [type |-> "get", op |-> op, key |-> key])
sendFinished(d, key) == Send(d, [type |-> "finished", key |-> key])

(* What a put, a commit or a cancel hands to the CPU thread. *)
TaskOf(call) ==
  IF call.op = "put" THEN sendPut(location, call.id, call.txn)
                     ELSE sendTransaction(call.op, call.id)

enqueue(r, ts) == tasks' = [tasks EXCEPT ![r] = @ \o ts]

Return(c) ==
  /\ pc' = [pc EXCEPT ![c] = @ + 1]
  /\ at' = [at EXCEPT ![c] = "ready"]
Goto(c, place) == at' = [at EXCEPT ![c] = place] /\ UNCHANGED pc

--------------------------------------------------------------------------------
(* QueueImpl::put of a CPU tensor, and transactionOp.  putQueueSize is read *)
(* without the lock; when it is not zero the call locks and looks again.    *)

PutOps == {"put", "commit", "cancel"}
OnHost(call) == call.op \in PutOps /\ ~(call.op = "put" /\ call.cuda)

PutDirect(c) ==
  LET r == At[c] IN
  /\ Calling(c, PutOps) /\ OnHost(Current(c)) /\ putSize[r] = 0
  /\ enqueue(r, <<TaskOf(Current(c))>>)
  /\ Return(c)
  /\ UNCHANGED <<plan, got, putVars, thread, netVars, workVars, store, result, failed>>

PutSeesQueue(c) ==
  /\ Calling(c, PutOps) /\ OnHost(Current(c)) /\ putSize[At[c]] # 0
  /\ Goto(c, "locking")
  /\ UNCHANGED <<plan, got, putVars, tasks, thread, netVars, workVars, store,
                 result, failed>>

PutLocked(c) ==
  LET r == At[c] IN
  /\ at[c] = "locking" /\ mutex[r] = 0
  /\ IF putSize[r] # 0
     THEN /\ putSize' = [putSize EXCEPT ![r] = @ + 1]
          /\ putQueue' = [putQueue EXCEPT ![r] = Append(@,
               [task |-> TaskOf(Current(c)), id |-> Current(c).id, ready |-> TRUE])]
          /\ failed' = (failed \/ putSize'[r] # Len(putQueue'[r]))
          /\ UNCHANGED tasks
     ELSE /\ enqueue(r, <<TaskOf(Current(c))>>)
          /\ UNCHANGED <<putSize, putQueue, failed>>
  /\ Return(c)
  /\ UNCHANGED <<plan, got, mutex, host, hostAt, thread, netVars, workVars, store, result>>

(* put of a CUDA tensor: the size goes up before the lock is taken, and a   *)
(* host function is launched on the client's stream.                        *)
CudaPutCount(c) ==
  /\ Calling(c, {"put"}) /\ Current(c).cuda
  /\ putSize' = [putSize EXCEPT ![At[c]] = @ + 1]
  /\ Goto(c, "emplace")
  /\ UNCHANGED <<plan, got, putQueue, mutex, host, hostAt, tasks, thread, netVars,
                 workVars, store, result, failed>>

CudaPutEmplace(c) ==
  LET r == At[c] IN
  /\ at[c] = "emplace" /\ mutex[r] = 0
  /\ putQueue' = [putQueue EXCEPT ![r] = Append(@,
       [task |-> TaskOf(Current(c)), id |-> Current(c).id, ready |-> FALSE])]
  /\ failed' = (failed \/ putSize[r] # Len(putQueue'[r]))
  /\ host' = [host EXCEPT ![c] = Append(@, Current(c).id)]
  /\ Return(c)
  /\ UNCHANGED <<plan, got, putSize, mutex, hostAt, tasks, thread, netVars, workVars,
                 store, result>>

(* The host function f: it marks its put ready, locks, and hands over every *)
(* ready put at the front.                                                  *)
HostReady(c) ==
  LET r == At[c] IN
  /\ host[c] # <<>> /\ hostAt[c] = "idle"
  /\ hostAt' = [hostAt EXCEPT ![c] = "lock"]
  /\ putQueue' = [putQueue EXCEPT ![r] = [i \in DOMAIN @ |->
       IF @[i].id = Head(host[c]) THEN [@[i] EXCEPT !.ready = TRUE] ELSE @[i]]]
  /\ UNCHANGED <<plan, clientVars, putSize, mutex, host, tasks, thread, netVars, workVars,
                 store, result, failed>>

FrontReady(q) == q # <<>> /\ Head(q).ready

HostEnds(c) ==
  /\ hostAt' = [hostAt EXCEPT ![c] = "idle"]
  /\ host' = [host EXCEPT ![c] = Tail(@)]

HostLock(c) ==
  LET r == At[c] IN
  /\ hostAt[c] = "lock" /\ mutex[r] = 0
  /\ failed' = (failed \/ putQueue[r] = <<>>)
  /\ IF FrontReady(putQueue[r])
     THEN /\ mutex' = [mutex EXCEPT ![r] = c]
          /\ hostAt' = [hostAt EXCEPT ![c] = "send"] /\ UNCHANGED host
     ELSE HostEnds(c) /\ UNCHANGED mutex
  /\ UNCHANGED <<plan, clientVars, putSize, putQueue, tasks, thread, netVars, workVars,
                 store, result>>

HostSend(c) ==
  /\ hostAt[c] = "send"
  /\ enqueue(At[c], <<Head(putQueue[At[c]]).task>>)
  /\ hostAt' = [hostAt EXCEPT ![c] = "pop"]
  /\ UNCHANGED <<plan, clientVars, putSize, putQueue, mutex, host, thread, netVars,
                 workVars, store, result, failed>>

HostPop(c) ==
  LET r == At[c] IN
  /\ hostAt[c] = "pop"
  /\ putQueue' = [putQueue EXCEPT ![r] = Tail(@)]
  /\ putSize' = [putSize EXCEPT ![r] = @ - 1]
  /\ IF FrontReady(putQueue'[r])
     THEN hostAt' = [hostAt EXCEPT ![c] = "send"] /\ UNCHANGED <<mutex, host>>
     ELSE HostEnds(c) /\ mutex' = [mutex EXCEPT ![r] = 0]
  /\ UNCHANGED <<plan, clientVars, tasks, thread, netVars, workVars, store, result, failed>>

--------------------------------------------------------------------------------
(* QueueImpl::get.  On the rank that keeps the queue it takes the first     *)
(* tensor, waiting while there is none.                                     *)

Gets == {"get", "getTimeout"}

GetLocal(c) ==
  LET r == At[c] IN
  /\ Calling(c, Gets) /\ IsLocal(r) /\ mutex[r] = 0
  /\ store[r].vector # <<>>
  /\ got' = [got EXCEPT ![c] = Append(@, Head(store[r].vector))]
  /\ store' = [store EXCEPT ![r].vector = Tail(@)]
  /\ Return(c)
  /\ UNCHANGED <<plan, putVars, tasks, thread, netVars, workVars, result, failed>>

GetLocalExpires(c) ==
  LET r == At[c] IN
  /\ Calling(c, {"getTimeout"}) /\ IsLocal(r) /\ mutex[r] = 0
  /\ store[r].vector = <<>>
  /\ got' = [got EXCEPT ![c] = Append(@, 0)]
  /\ Return(c)
  /\ UNCHANGED <<plan, putVars, tasks, thread, netVars, workVars, store, result, failed>>

(* Elsewhere it registers a result that lives on its own stack, asks the    *)
(* rank of the queue for a tensor, and may stop asking after a timeout.     *)
GetStart(c) ==
  LET r == At[c] IN
  /\ Calling(c, Gets) /\ ~IsLocal(r) /\ mutex[r] = 0
  /\ failed' = (failed \/ store[r].vector # <<>>)
  /\ store' = [store EXCEPT ![r].active = @ \cup {Current(c).id}]
  /\ result' = [result EXCEPT ![c] = [NoResult EXCEPT !.alive = TRUE]]
  /\ enqueue(r, <<sendGet(location, "start", Current(c).id)>>)
  /\ Goto(c, "wait")
  /\ UNCHANGED <<plan, got, putVars, thread, netVars, workVars>>

GetStop(c) ==
  /\ at[c] = "wait" /\ Current(c).op = "getTimeout" /\ ~result[c].done
  /\ enqueue(At[c], <<sendGet(location, "stop", Current(c).id)>>)
  /\ Goto(c, "stopped")
  /\ UNCHANGED <<plan, got, putVars, thread, netVars, workVars, store, result, failed>>

GetSeesDone(c) ==
  /\ at[c] \in {"wait", "stopped"} /\ result[c].done
  /\ Goto(c, "done")
  /\ UNCHANGED <<plan, got, putVars, tasks, thread, netVars, workVars, store, result, failed>>

\* The get returns as soon as it sees `done'.
GetReturnMutant(c) ==
  LET r == At[c] IN
  /\ at[c] = "done" /\ mutex[r] = 0
  /\ failed' = (failed \/ store[r].vector # <<>> \/ Current(c).id \in store[r].active)
  /\ got' = [got EXCEPT ![c] = Append(@, result[c].val)]
  /\ result' = [result EXCEPT ![c].alive = FALSE]
  /\ Return(c)
  /\ UNCHANGED <<plan, putVars, tasks, thread, netVars, workVars, store>>

GetReturn(c) ==
  LET r == At[c] IN
  /\ at[c] = "done" /\ result[c].safe /\ mutex[r] = 0
  /\ failed' = (failed \/ store[r].vector # <<>> \/ Current(c).id \in store[r].active)
  /\ got' = [got EXCEPT ![c] = Append(@, result[c].val)]
  /\ result' = [result EXCEPT ![c].alive = FALSE]
  /\ Return(c)
  /\ UNCHANGED <<plan, putVars, tasks, thread, netVars, workVars, store>>

--------------------------------------------------------------------------------
(* The storage.  Each operation maps the storage q of rank r to an outcome: *)
(* the new storage, the tasks it enqueues, whether a CHECK failed, and the  *)
(* client whose remote get it ends (0 for none) with that get's tensor.     *)

Outcome(q, out, bad) == [q |-> q, out |-> out, bad |-> bad, client |-> 0, val |-> 0]

Getter(get) ==
  CHOOSE c \in Client : \E i \in DOMAIN plan.calls[c] :
    plan.calls[c][i].id = get /\ plan.calls[c][i].op \in Gets

GetEnds(q, get, val) ==
  IF get \in q.active
  THEN [Outcome([q EXCEPT !.active = @ \ {get}], <<>>, FALSE)
          EXCEPT !.client = Getter(get), !.val = val]
  ELSE Outcome(q, <<>>, TRUE)

\* The tensors are passed on last first.
ForwardsMutant(r, vals) ==
  LET others == SelectSeq(plan.locations, LAMBDA d : d # r)
      copies(v) == [i \in DOMAIN others |-> sendPutRemote(others[i], v, 0)]
  IN  IF plan.multicast /\ r = location
      THEN FlattenSeq([i \in DOMAIN vals |-> copies(vals[Len(vals) + 1 - i])]) ELSE <<>>

(* qsAdd: the first location of a multicast queue passes every tensor on. *)
Forwards(r, vals) ==
  LET others == SelectSeq(plan.locations, LAMBDA d : d # r)
      copies(v) == [i \in DOMAIN others |-> sendPutRemote(others[i], v, 0)]
  IN  IF plan.multicast /\ r = location
      THEN FlattenSeq([i \in DOMAIN vals |-> copies(vals[i])]) ELSE <<>>

ReadyPrefix(items) ==
  CHOOSE n \in 0 .. Len(items) :
    /\ \A i \in 1 .. n : items[i].ready
    /\ n < Len(items) => ~items[n + 1].ready

(* The ready items at the front become tensors of the queue, and the first  *)
(* tensors go to the remote gets that wait.                                 *)
transferQueuedItems(r, q, s) ==
  LET n    == ReadyPrefix(q.items[s])
      vals == [i \in 1 .. n |-> q.items[s][i].val]
      all  == q.vector \o vals
      k    == IF Len(all) < Len(q.wait) THEN Len(all) ELSE Len(q.wait)
      sent == [i \in 1 .. k |-> sendPutRemote(q.wait[i].source, all[i], q.wait[i].key)]
  IN  Outcome([q EXCEPT !.vector = SubSeq(all, k + 1, Len(all)),
                        !.items[s] = SubSeq(@, n + 1, Len(@)),
                        !.wait = SubSeq(@, k + 1, Len(@)),
                        !.log = @ \o vals],
              Forwards(r, vals) \o sent, FALSE)

NewItem(m) == [key |-> m.key, val |-> m.val, ready |-> FALSE]
MarkReady(items, key) ==
  [i \in DOMAIN items |->
     IF items[i].key = key THEN [items[i] EXCEPT !.ready = TRUE] ELSE items[i]]
AllReady(items) == \A i \in DOMAIN items : items[i].ready
HasKey(items, key) == \E i \in DOMAIN items : items[i].key = key
Without(f, key) == [k \in DOMAIN f \ {key} |-> f[k]]
With(f, key, v) == [k \in DOMAIN f \cup {key} |-> IF k = key THEN v ELSE f[k]]

(* queuePrepare: an announced item takes its place in the order of its      *)
(* source, or in its transaction.                                           *)
queuePrepare(q, s, m) ==
  LET t == IF m.txn \in DOMAIN q.txns[s] THEN q.txns[s][m.txn]
                                         ELSE [items |-> <<>>, committed |-> FALSE]
      known == [q EXCEPT !.known = @ \cup {s}]
  IN  CASE m.get # 0 -> Outcome(q, <<>>, m.get \notin q.active)
        [] m.get = 0 /\ m.txn # 0 ->
             Outcome([known EXCEPT !.txns[s] =
                        With(@, m.txn, [t EXCEPT !.items = Append(@, NewItem(m))])],
                     <<>>, t.committed)
        [] OTHER ->
             Outcome([known EXCEPT !.items[s] = Append(@, NewItem(m))], <<>>, FALSE)

(* The key of the placeholder that holds a committed transaction's place    *)
(* while some of its items are still being read.                            *)
Placeholder(txn) == <<"txn", txn>>

(* Put the items of a transaction where its placeholder is. *)
ReplacePlaceholder(items, txn, new) ==
  LET i == CHOOSE j \in DOMAIN items : items[j].key = Placeholder(txn)
  IN  SubSeq(items, 1, i - 1) \o new \o SubSeq(items, i + 1, Len(items))

finishInTransaction(r, q, s, m) ==
  IF m.txn \notin DOMAIN q.txns[s] THEN Outcome(q, <<>>, s \notin q.known)
  ELSE
  LET t == q.txns[s][m.txn]
      ready == MarkReady(t.items, m.key)
      bad == ~HasKey(t.items, m.key)
  IN  IF ~t.committed \/ ~AllReady(ready)
      THEN Outcome([q EXCEPT !.txns[s] = With(@, m.txn, [t EXCEPT !.items = ready])],
                   <<>>, bad)
      ELSE IF ~HasKey(q.items[s], Placeholder(m.txn)) THEN Outcome(q, <<>>, TRUE)
      ELSE [transferQueuedItems(r,
             [q EXCEPT !.items[s] = ReplacePlaceholder(@, m.txn, ready),
                       !.txns[s] = Without(@, m.txn)], s) EXCEPT !.bad = bad]

\* A tensor enters the queue when its data arrives, whatever is in front of it.
finishPlainMutant(r, q, s, m) ==
  LET item == [NewItem(m) EXCEPT !.ready = TRUE]
      rest == SelectSeq(q.items[s], LAMBDA x : x.key # m.key)
  IN  transferQueuedItems(r, [q EXCEPT !.items[s] = <<item>> \o rest], s)

finishPlain(r, q, s, m) ==
  LET marked == [q EXCEPT !.items[s] = MarkReady(@, m.key)]
  IN  IF ~HasKey(q.items[s], m.key) THEN Outcome(q, <<>>, TRUE)
      ELSE IF Head(q.items[s]).key = m.key THEN transferQueuedItems(r, marked, s)
      ELSE Outcome(marked, <<>>, FALSE)

(* queueFinish: the data of a put has arrived. *)
queueFinish(r, q, s, m) ==
  CASE m.get # 0              -> GetEnds(q, m.get, m.val)
    [] m.get = 0 /\ m.txn # 0 -> finishInTransaction(r, q, s, m)
    [] OTHER                  -> finishPlain(r, q, s, m)

\* The tensor that is sent stays in the queue.
queueRemoteGetStartMutant(q, s, key) ==
  IF q.vector # <<>>
  THEN Outcome(q, <<sendPutRemote(s, Head(q.vector), key)>>, FALSE)
  ELSE Outcome([q EXCEPT !.wait = Append(@, [source |-> s, key |-> key])], <<>>, FALSE)

queueRemoteGetStart(q, s, key) ==
  IF q.vector # <<>>
  THEN Outcome([q EXCEPT !.vector = Tail(@)], <<sendPutRemote(s, Head(q.vector), key)>>, FALSE)
  ELSE Outcome([q EXCEPT !.wait = Append(@, [source |-> s, key |-> key])], <<>>, FALSE)

\* A get that was answered already is told, too.
StopAlwaysAcksMutant(q, s, key) ==
  Outcome([q EXCEPT !.wait = Remove(@, [source |-> s, key |-> key])],
          <<sendGet(s, "ack", key)>>, FALSE)

\* The get leaves the wait list without an answer.
StopNeverAcksMutant(q, s, key) ==
  Outcome([q EXCEPT !.wait = Remove(@, [source |-> s, key |-> key])], <<>>, FALSE)

(* A get that was answered already is not told that it has stopped. *)
queueRemoteGetStop(q, s, key) ==
  LET w == [source |-> s, key |-> key]
  IN  IF Contains(q.wait, w)
      THEN Outcome([q EXCEPT !.wait = Remove(@, w)], <<sendGet(s, "ack", key)>>, FALSE)
      ELSE Outcome(q, <<>>, FALSE)

queueRemoteGetStopAck(q, key) == GetEnds(q, key, 0)

\* A commit does not wait for the items that are still being read.
queueTransactionCommitMutant(r, q, s, key) ==
  IF key \notin DOMAIN q.txns[s] THEN Outcome(q, <<>>, s \notin q.known)
  ELSE transferQueuedItems(r, [q EXCEPT !.items[s] = @ \o q.txns[s][key].items,
                                        !.txns[s] = Without(@, key)], s)

queueTransactionCommit(r, q, s, key) ==
  IF key \notin DOMAIN q.txns[s] THEN Outcome(q, <<>>, s \notin q.known)
  ELSE
  LET t == q.txns[s][key]
  IN  IF AllReady(t.items)
      THEN [transferQueuedItems(r, [q EXCEPT !.items[s] = @ \o t.items,
                                             !.txns[s] = Without(@, key)], s)
              EXCEPT !.bad = t.committed]
      ELSE Outcome([q EXCEPT !.txns[s][key].committed = TRUE,
                             !.items[s] = Append(@,
                               [key |-> Placeholder(key), val |-> 0, ready |-> FALSE])],
                   <<>>, t.committed)

queueTransactionCancel(q, s, key) ==
  Outcome([q EXCEPT !.txns[s] = Without(@, key)], <<>>, s \notin q.known)

--------------------------------------------------------------------------------
(* The CPU thread.  It runs its tasks in order; messages and finished RDMA  *)
(* reads are handled between them.                                          *)

(* header and sendBuffer: the message gets the next number for rank d. *)
Transmit(r, d, m) ==
  /\ wire' = wire \cup {[from |-> r, to |-> d, seq |-> outgoingSeqId[r][d], msg |-> m]}
  /\ outgoingSeqId' = [outgoingSeqId EXCEPT ![r][d] = (@ + 1) % SeqSpan]

NextTask(r, kind) ==
  /\ thread[r] = Idle /\ tasks[r] # <<>> /\ Head(tasks[r]).task = kind
  /\ tasks' = [tasks EXCEPT ![r] = Tail(@)]

(* executeQueuePut keeps the callback, and with it the tensor, until the    *)
(* receiver says that it has the data.                                      *)
ExecuteSend(r) ==
  LET t == Head(tasks[r]) IN
  /\ NextTask(r, "send")
  /\ Transmit(r, t.to, t.msg)
  /\ queuePutCallbacks' = [queuePutCallbacks EXCEPT ![r] =
       IF t.msg.type = "put" THEN @ \cup {t.msg.key} ELSE @]
  /\ UNCHANGED <<plan, clientVars, putVars, thread, incomingSeqId, incomingSeqQueued,
                 reads, putDone, store, result, failed>>

ExecuteRead(r) ==
  /\ NextTask(r, "read")
  /\ reads' = [reads EXCEPT ![r] = @ \cup
       {[source |-> Head(tasks[r]).source, msg |-> Head(tasks[r]).msg]}]
  /\ UNCHANGED <<plan, clientVars, putVars, thread, netVars, queuePutCallbacks, putDone,
                 store, result, failed>>

ExecuteReadFinished(r) ==
  LET key == Head(tasks[r]).key IN
  /\ NextTask(r, "finished")
  /\ failed' = (failed \/ key \notin queuePutCallbacks[r])
  /\ queuePutCallbacks' = [queuePutCallbacks EXCEPT ![r] = @ \ {key}]
  /\ putDone' = IF key[1] = "put" THEN putDone \cup {key[2]} ELSE putDone
  /\ UNCHANGED <<plan, clientVars, putVars, thread, netVars, reads, store, result>>

\* The source may forget a large tensor as soon as it is announced.
onRecvQueuePutMutant(r, s, m) ==
  LET q == store[r]
      p == queuePrepare(q, s, m)
      f == queueFinish(r, p.q, s, m)
  IN  IF m.inline
      THEN [f EXCEPT !.bad = @ \/ p.bad,
                     !.out = IF f.client = 0 THEN @ \o <<sendFinished(s, m.key)>> ELSE @]
      ELSE [p EXCEPT !.out = <<[task |-> "read", source |-> s, msg |-> m],
                               sendFinished(s, m.key)>>]

(* onRecvQueuePut, onRecvQueueReadFinished, onRecvQueueGet and              *)
(* onRecvQueueTransaction.                                                  *)
onRecvQueuePut(r, s, m) ==
  LET q == store[r]
      p == queuePrepare(q, s, m)
      f == queueFinish(r, p.q, s, m)
  IN  IF m.inline
      THEN [f EXCEPT !.bad = @ \/ p.bad,
                     !.out = IF f.client = 0 THEN @ \o <<sendFinished(s, m.key)>> ELSE @]
      ELSE [p EXCEPT !.out = <<[task |-> "read", source |-> s, msg |-> m]>>]

Handled(r, s, m) ==
  LET q == store[r]
      finished == [task |-> "finished", key |-> m.key]
  IN  CASE m.type = "put" -> onRecvQueuePut(r, s, m)
        [] m.type = "finished" -> Outcome(q, <<finished>>, FALSE)
        [] m.type = "get" /\ m.op = "start" -> queueRemoteGetStart(q, s, m.key)
        [] m.type = "get" /\ m.op = "stop" -> queueRemoteGetStop(q, s, m.key)
        [] m.type = "get" /\ m.op = "ack" -> queueRemoteGetStopAck(q, m.key)
        [] m.type = "transaction" /\ m.op = "commit" -> queueTransactionCommit(r, q, s, m.key)
        [] m.type = "transaction" /\ m.op = "cancel" -> queueTransactionCancel(q, s, m.key)

(* After a message, the one that follows it may have come early. *)
Continue(s, early, expected) ==
  IF early # <<>> /\ Head(early).seq = expected THEN [at |-> "drain", src |-> s] ELSE Idle

(* An outcome o takes effect.  A remote get that ends sees `done' before    *)
(* the CPU thread sets `safe'; the thread then goes on with `next'.         *)
Apply(r, s, m, o, next) ==
  /\ mutex[r] = 0
  /\ store' = [store EXCEPT ![r] = o.q]
  /\ enqueue(r, o.out)
  /\ failed' = (failed \/ o.bad)
  /\ IF o.client = 0
     THEN thread' = [thread EXCEPT ![r] = next] /\ UNCHANGED result
     ELSE /\ result' = [result EXCEPT ![o.client].val = o.val, ![o.client].done = TRUE]
          /\ thread' = [thread EXCEPT ![r] =
               [at |-> "safe", src |-> s, msg |-> m, client |-> o.client, next |-> next]]

OnRecvEarly(r) ==
  \E w \in wire :
    LET s == w.from
        ahead(e) == (e.seq - incomingSeqId[r][s]) % SeqSpan
        e == [seq |-> w.seq, msg |-> w.msg]
        before == {i \in DOMAIN incomingSeqQueued[r][s] :
                     ahead(incomingSeqQueued[r][s][i]) < ahead(e)}
    IN  /\ thread[r] = Idle /\ w.to = r /\ w.seq # incomingSeqId[r][s]
        /\ wire' = wire \ {w}
        /\ incomingSeqQueued' = [incomingSeqQueued EXCEPT ![r][s] =
             InsertAt(@, Cardinality(before) + 1, e)]
        /\ UNCHANGED <<plan, clientVars, putVars, tasks, thread, outgoingSeqId, incomingSeqId,
                       workVars, store, result, failed>>

OnRecv(r) ==
  \E w \in wire :
    LET s == w.from
        expected == (incomingSeqId[r][s] + 1) % SeqSpan
    IN  /\ thread[r] = Idle /\ w.to = r /\ w.seq = incomingSeqId[r][s]
        /\ wire' = wire \ {w}
        /\ incomingSeqId' = [incomingSeqId EXCEPT ![r][s] = expected]
        /\ Apply(r, s, w.msg, Handled(r, s, w.msg),
                 Continue(s, incomingSeqQueued[r][s], expected))
        /\ UNCHANGED <<plan, clientVars, putVars, outgoingSeqId, incomingSeqQueued, workVars>>

Drain(r) ==
  LET s == thread[r].src
      early == incomingSeqQueued[r][s]
      expected == (incomingSeqId[r][s] + 1) % SeqSpan
  IN  /\ thread[r].at = "drain"
      /\ incomingSeqQueued' = [incomingSeqQueued EXCEPT ![r][s] = Tail(@)]
      /\ incomingSeqId' = [incomingSeqId EXCEPT ![r][s] = expected]
      /\ Apply(r, s, Head(early).msg, Handled(r, s, Head(early).msg),
               Continue(s, Tail(early), expected))
      /\ UNCHANGED <<plan, clientVars, putVars, wire, outgoingSeqId, workVars>>

(* The callback of executeQueueRead. *)
ReadDone(r) ==
  \E rd \in reads[r] :
    LET o == queueFinish(r, store[r], rd.source, rd.msg) IN
    /\ thread[r] = Idle
    /\ reads' = [reads EXCEPT ![r] = @ \ {rd}]
    /\ Apply(r, rd.source, rd.msg, o, Idle)
    /\ IF o.client = 0
       THEN Transmit(r, rd.source, [type |-> "finished", key |-> rd.msg.key])
       ELSE UNCHANGED <<wire, outgoingSeqId>>
    /\ UNCHANGED <<plan, clientVars, putVars, incomingSeqId, incomingSeqQueued,
                   queuePutCallbacks, putDone>>

(* The rest of queueFinish and queueRemoteGetStopAck, and what their        *)
(* callers do after them: tell the source of the tensor that it was read.   *)
MarkSafe(r) ==
  LET t == thread[r] IN
  /\ t.at = "safe"
  /\ result' = [result EXCEPT ![t.client].safe = TRUE]
  /\ thread' = [thread EXCEPT ![r] = t.next]
  /\ IF t.msg.type = "put" /\ t.msg.inline
     THEN enqueue(r, <<sendFinished(t.src, t.msg.key)>>) ELSE UNCHANGED tasks
  /\ IF t.msg.type = "put" /\ ~t.msg.inline
     THEN Transmit(r, t.src, [type |-> "finished", key |-> t.msg.key])
     ELSE UNCHANGED <<wire, outgoingSeqId>>
  /\ UNCHANGED <<plan, clientVars, putVars, incomingSeqId, incomingSeqQueued, workVars,
                 store, failed>>

--------------------------------------------------------------------------------
ClientStep(c) ==
  \/ PutDirect(c) \/ PutSeesQueue(c) \/ PutLocked(c)
  \/ CudaPutCount(c) \/ CudaPutEmplace(c)
  \/ GetLocal(c) \/ GetLocalExpires(c)
  \/ GetStart(c) \/ GetStop(c) \/ GetSeesDone(c) \/ GetReturn(c)

HostStep(c) == HostReady(c) \/ HostLock(c) \/ HostSend(c) \/ HostPop(c)

ThreadStep(r) ==
  \/ ExecuteSend(r) \/ ExecuteRead(r) \/ ExecuteReadFinished(r)
  \/ OnRecvEarly(r) \/ OnRecv(r) \/ Drain(r) \/ ReadDone(r) \/ MarkSafe(r)

Next ==
  \/ \E c \in Client : ClientStep(c) \/ HostStep(c)
  \/ \E r \in Rank : ThreadStep(r)

(* Application threads, the driver's callback threads and the CPU threads   *)
(* keep running, and the network and the RDMA engine complete what was      *)
(* posted.  A plan is finite and no step can be repeated for ever, so it is *)
(* enough that something happens while something can.                       *)
Fairness == WF_vars(Next)

Spec == Init /\ [][Next]_vars /\ Fairness

--------------------------------------------------------------------------------
(* What must hold. *)

Ids(op) == UNION {{call.id : call \in {x \in Range(plan.calls[c]) : x.op = op}} : c \in Client}
PutsBy(c) == SelectSeq(plan.calls[c], LAMBDA call : call.op = "put")

(* What call i of client c adds to the queue: a plain put its tensor, a     *)
(* commit the tensors of its transaction.                                   *)
Unit(c, i) ==
  LET call == plan.calls[c][i]
      part == SelectSeq(PutsBy(c), LAMBDA p : p.txn = call.id)
  IN  CASE call.op = "put" /\ call.txn = 0 -> <<call.id>>
        [] call.op = "commit" -> [j \in DOMAIN part |-> part[j].id]
        [] OTHER -> <<>>
Issued(c) == FlattenSeq([i \in 1 .. pc[c] - 1 |-> Unit(c, i)])

(* No CHECK of queue.cc or of the queue messages in cputhread.cc fails,     *)
(* whatever the order of messages, reads, host functions and timeouts:      *)
(* putQueueSize agrees with putQueue, tensors and stop acks only arrive for *)
(* gets that are still registered, and a placeholder is always found.  Of   *)
(* the CHECKs on sizes only that of putQueueSize is modelled.               *)
ChecksPass == ~failed

(* docs/api/queue.md: "Multiple threads can safely put to the same queue".  *)
(* Safely means at least that no put ends the process, whatever the other   *)
(* threads are doing.                                                       *)
PutIsThreadSafe == ~failed

(* docs/api/queue.md: "Items from the same sender are delivered in FIFO     *)
(* order".  The tensors of one client enter the queue in the order of its   *)
(* puts and commits, although CUDA puts wait for their stream, large        *)
(* tensors for a read and messages overtake each other; nothing uncommitted *)
(* or cancelled enters.                                                     *)
FifoPerSender ==
  \A c \in Client :
    IsPrefix(SelectSeq(store[location].log,
                       LAMBDA v : \E p \in Range(PutsBy(c)) : p.id = v),
             Issued(c))

(* The tensors of a put or a transaction enter the queue of rank r in one   *)
(* step and next to each other, or not at all.                              *)
TogetherAt(r) ==
  \A c \in Client : \A i \in DOMAIN plan.calls[c] :
    LET u  == Unit(c, i)
        js == {j \in DOMAIN store[r].log : store[r].log[j] \in Range(u)}
    IN  js # {} => \E k \in js : js = k .. k + Len(u) - 1

(* A transaction is committed as a whole at the rank that puts go to: the   *)
(* only location of a queue, or the first of a multicast queue              *)
(* (queueTransactionCommit).  What the other locations of a multicast queue *)
(* show is the subject of VisibleTogether.                                  *)
AllOrNothing == TogetherAt(location)

(* docs/api/queue.md: "the transaction commits and all puts become visible  *)
(* atomically".  At every location of the queue a reader finds all tensors  *)
(* of a transaction or none.                                                *)
VisibleTogether == \A r \in Range(plan.locations) : TogetherAt(r)

(* Every location of a multicast queue adds the same tensors in the same    *)
(* order as the first, some of them later.                                  *)
CopiesAgree ==
  \A r \in Range(plan.locations) : IsPrefix(store[r].log, store[location].log)

(* Where tensor v, added to the queue at rank r, is now: in the queue, on   *)
(* its way to a remote get, or returned by a get.                           *)
Answers(v, m) == m.type = "put" /\ m.get # 0 /\ m.val = v
Where(seq, Is(_)) == {j \in DOMAIN seq : Is(seq[j])}
Places(r, v) ==
  {<<"vector", j>> : j \in Where(store[r].vector, LAMBDA x : x = v)}
  \cup UNION {{<<"task", d, j>> : j \in Where(tasks[d], LAMBDA t :
                 t.task \in {"send", "read"} /\ Answers(v, t.msg))} : d \in Rank}
  \cup {<<"wire", w>> : w \in {w \in wire : Answers(v, w.msg)}}
  \cup UNION {{<<"early", d, j>> : j \in Where(incomingSeqQueued[d][r],
                 LAMBDA e : Answers(v, e.msg))} : d \in Rank}
  \cup UNION {{<<"read", d, x>> : x \in {x \in reads[d] : Answers(v, x.msg)}} : d \in Rank}
  \cup {<<"result", c>> : c \in {c \in Client : result[c].alive /\ result[c].val = v}}
  \cup UNION {{<<"got", c, j>> : j \in Where(got[c], LAMBDA x : x = v)} :
                c \in {c \in Client : plan.multicast => At[c] = r}}

(* A tensor that entered the queue is in exactly one place: no get that     *)
(* times out while its answer is on the way loses it, and no two gets       *)
(* receive it.                                                              *)
Conserved ==
  \A r \in Range(plan.locations) : \A v \in Range(store[r].log) :
    Cardinality(Places(r, v)) = 1

(* A rank holds the tensor of every put that some rank may still read from  *)
(* its memory.                                                              *)
SourceAlive ==
  LET held(s, m) == m.type = "put" /\ ~m.inline => m.key \in queuePutCallbacks[s] IN
  /\ \A w \in wire : held(w.from, w.msg)
  /\ \A r \in Rank :
       /\ \A s \in Rank : \A e \in Range(incomingSeqQueued[r][s]) : held(s, e.msg)
       /\ \A t \in Range(tasks[r]) : t.task = "read" => held(t.source, t.msg)
       /\ \A rd \in reads[r] : held(rd.source, rd.msg)

(* The CPU thread writes to the result of a remote get only while the       *)
(* getting thread is still inside get: the result is on its stack.          *)
ResultAlive == \A r \in Rank : thread[r].at = "safe" => result[thread[r].client].alive

(* Every call returns and the work of every put is done in the end.         *)
EverythingEnds ==
  <>(/\ \A c \in Client : pc[c] > Len(plan.calls[c])
     /\ putDone = Ids("put"))

================================================================================
