------------------------------ MODULE StoreOps ------------------------------
(***************************************************************************)
(* The key-value operations of the store (core/store.cc: set, get, check,  *)
(* wait, doWaitOp and the handlers of processMessage), from the threads    *)
(* that call them to the rank that owns the key and back.  Between two     *)
(* ranks messages are delivered in order and once: StoreLink shows it for  *)
(* a connection, and the hops of a route are fixed (StoreMesh).            *)
(***************************************************************************)
EXTENDS Naturals, Sequences, Functions

CONSTANTS
  Rank, Client, Key, Value,
  NoValue, NoAnswer,
  At,          \* At[c]: the rank of client thread c
  Owner,       \* storeRank: Owner[k] is the rank that keeps key k
  KeyLists,    \* the lists of keys that check and wait are called with
  MaxOps       \* bound: MaxOps[c] operations of client c

ASSUME OpsAssumption ==
  /\ At \in [Client -> Rank] /\ Owner \in [Key -> Rank]
  /\ KeyLists \subseteq Seq(Key)
  /\ NoValue \notin Value
  /\ NoAnswer \notin Value \cup {"ok", "true", "false"}

VARIABLES
  store,         \* store[k] at Owner[k], or NoValue
  storeWaiters,  \* storeWaiters[k][q] at Owner[k]: requests of rank q that wait for k
  waits,         \* waits[r][id]: the Wait of the operation id of rank r
  path,          \* path[r][q]: messages on their way from r to q
  op,            \* op[c]: the operation of client c
  ops            \* ops[c]: how many operations c has begun

vars == <<store, storeWaiters, waits, path, op, ops>>

Idle == [type |-> "none", keys |-> <<>>, value |-> NoValue, ids |-> <<>>,
         state |-> "idle", result |-> NoAnswer]

Init ==
  /\ store = [k \in Key |-> NoValue]
  /\ storeWaiters = [k \in Key |-> [q \in Rank |-> <<>>]]
  /\ waits = [r \in Rank |-> <<>>]
  /\ path = [r \in Rank |-> [q \in Rank |-> <<>>]]
  /\ op = [c \in Client |-> Idle]
  /\ ops = [c \in Client |-> 0]

Request(type, r, id, k, v) == [type |-> type, source |-> r, id |-> id, key |-> k, value |-> v]
Done(m, answer) == [type |-> "done", source |-> m.source, id |-> m.id, answer |-> answer]

----------------------------------------------------------------------------
(***************************************************************************)
(* The rank that owns the key.                                             *)
(***************************************************************************)

\* The waiters are forgotten.
WaiterAnswersMutant(k, q, v) == <<>>

\* internalStoreSetValue: the waiters, in the order they came, get the value.  These
\* are the messageDones to rank q; there is no order between those to two ranks.
WaiterAnswers(k, q, v) ==
  [i \in DOMAIN storeWaiters[k][q] |->
     Done(storeWaiters[k][q][i], IF storeWaiters[k][q][i].type = "get" THEN v ELSE "ok")]

\* What request m is answered when it is processed: NoAnswer if it is put off.
Reply(m) ==
  CASE m.type = "set"   -> "ok"
    [] m.type = "check" -> IF store[m.key] # NoValue THEN "true" ELSE "false"
    [] m.type = "get"   -> IF store[m.key] # NoValue THEN store[m.key] ELSE NoAnswer
    [] m.type = "wait"  -> IF store[m.key] # NoValue THEN "ok" ELSE NoAnswer

\* The messageDones to rank q that processing request m sends, in order.
Answers(m, q) ==
  (IF m.type = "set" THEN WaiterAnswers(m.key, q, m.value) ELSE <<>>)
    \o (IF m.source = q /\ Reply(m) # NoAnswer THEN <<Done(m, Reply(m))>> ELSE <<>>)

\* What request m does to the table of values.
Store(m) == store' = [store EXCEPT ![m.key] = IF m.type = "set" THEN m.value ELSE @]

\* A get or wait for a key without a value is put off until it has one.
\* Mutated: whatever the key's value.
WaitersMutant(m) ==
  storeWaiters' = [storeWaiters EXCEPT ![m.key] = [q \in Rank |->
    IF m.type = "set" THEN <<>>
    ELSE IF m.source = q /\ m.type \in {"get", "wait"} THEN Append(@[q], m) ELSE @[q]]]

Waiters(m) ==
  storeWaiters' = [storeWaiters EXCEPT ![m.key] = [q \in Rank |->
    IF m.type = "set" THEN <<>>
    ELSE IF m.source = q /\ Reply(m) = NoAnswer THEN Append(@[q], m) ELSE @[q]]]

\* Waits ws of a rank with the answers that messageDones ds bring.
Completed(ws, ds) ==
  [id \in DOMAIN ws |->
     IF \E d \in Range(ds) : d.id = id
     THEN [ws[id] EXCEPT !.answer = (CHOOSE d \in Range(ds) : d.id = id).answer]
     ELSE ws[id]]

\* processMessage of request m at rank r, with waits ws and messages p so far:
\* an answer for r itself is processed on the spot (sendMessageTo).
ProcessRequest(r, m, ws, p) ==
  /\ Store(m) /\ Waiters(m)
  /\ waits' = [ws EXCEPT ![r] = Completed(@, Answers(m, r))]
  /\ path' = [p EXCEPT ![r] = [q \in Rank |-> IF q = r THEN <<>> ELSE @[q] \o Answers(m, q)]]

----------------------------------------------------------------------------
(***************************************************************************)
(* The client.                                                             *)
(***************************************************************************)

\* A thread calls set, get, check or wait.
Begin(c, type, keys, v) ==
  /\ op[c].state \in {"idle", "returned", "timed out"} /\ ops[c] < MaxOps[c]
  /\ op' = [op EXCEPT ![c] = [type |-> type, keys |-> keys, value |-> v, ids |-> <<>>,
                              state |-> "called", result |-> NoAnswer]]
  /\ ops' = [ops EXCEPT ![c] = @ + 1]
  /\ UNCHANGED <<store, storeWaiters, waits, path>>

\* doWaitOp for the next key.  A new message is put before the ones on their way.
DoWaitOpMutant(c) ==
  LET r == At[c]
      k == op[c].keys[Len(op[c].ids) + 1]
      id == Len(waits[r]) + 1
      m == Request(op[c].type, r, id, k, op[c].value)
      ws == [waits EXCEPT ![r] =
               Append(@, [type |-> m.type, key |-> k, value |-> m.value, answer |-> NoAnswer])]
  IN  /\ op[c].state = "called" /\ Len(op[c].ids) < Len(op[c].keys)
      /\ op' = [op EXCEPT ![c].ids = Append(@, id)]
      /\ IF Owner[k] = r
         THEN ProcessRequest(r, m, ws, path)
         ELSE /\ waits' = ws
              /\ path' = [path EXCEPT ![r][Owner[k]] = <<m>> \o @]
              /\ UNCHANGED <<store, storeWaiters>>
      /\ UNCHANGED ops

\* doWaitOp for the next key.
DoWaitOp(c) ==
  LET r == At[c]
      k == op[c].keys[Len(op[c].ids) + 1]
      id == Len(waits[r]) + 1
      m == Request(op[c].type, r, id, k, op[c].value)
      ws == [waits EXCEPT ![r] =
               Append(@, [type |-> m.type, key |-> k, value |-> m.value, answer |-> NoAnswer])]
  IN  /\ op[c].state = "called" /\ Len(op[c].ids) < Len(op[c].keys)
      /\ op' = [op EXCEPT ![c].ids = Append(@, id)]
      /\ IF Owner[k] = r
         THEN ProcessRequest(r, m, ws, path)
         ELSE /\ waits' = ws
              /\ path' = [path EXCEPT ![r][Owner[k]] = Append(@, m)]
              /\ UNCHANGED <<store, storeWaiters>>
      /\ UNCHANGED ops

AnswersOf(c) == {waits[At[c]][id].answer : id \in Range(op[c].ids)}

Awaits(c) == op[c].state = "called" /\ Len(op[c].ids) = Len(op[c].keys)

\* The operation returns when each of its Waits is over: check(keys) the conjunction
\* of the answers, get the value.  Mutated: one answer is enough.
ReturnMutant(c) ==
  /\ Awaits(c) /\ AnswersOf(c) # {NoAnswer}
  /\ op' = [op EXCEPT ![c] = [@ EXCEPT !.state = "returned",
                                       !.result = IF "false" \in AnswersOf(c) THEN "false"
                                                     ELSE CHOOSE a \in AnswersOf(c) : a # NoAnswer]]
  /\ UNCHANGED <<store, storeWaiters, waits, path, ops>>

Return(c) ==
  /\ Awaits(c) /\ NoAnswer \notin AnswersOf(c)
  /\ op' = [op EXCEPT ![c] = [@ EXCEPT !.state = "returned",
                                       !.result = IF "false" \in AnswersOf(c) THEN "false"
                                                     ELSE CHOOSE a \in AnswersOf(c) : TRUE]]
  /\ UNCHANGED <<store, storeWaiters, waits, path, ops>>

\* Wait::wait gives up; the entry of waits, and the request, stay where they are.
TimeOut(c) ==
  /\ Awaits(c) /\ NoAnswer \in AnswersOf(c)
  /\ op' = [op EXCEPT ![c].state = "timed out"]
  /\ UNCHANGED <<store, storeWaiters, waits, path, ops>>

\* processMessage of the next message from q at r.
ProcessMessage(q, r) ==
  /\ path[q][r] # <<>>
  /\ LET m == Head(path[q][r])
         p == [path EXCEPT ![q][r] = Tail(@)]
     IN  IF m.type = "done"
         THEN /\ waits' = [waits EXCEPT ![r] = Completed(@, <<m>>)]
              /\ path' = p /\ UNCHANGED <<store, storeWaiters>>
         ELSE ProcessRequest(r, m, waits, p)
  /\ UNCHANGED <<op, ops>>

----------------------------------------------------------------------------
Calls(c) ==
  \/ \E k \in Key, v \in Value : Begin(c, "set", <<k>>, v)
  \/ \E k \in Key : Begin(c, "get", <<k>>, NoValue)
  \/ \E ks \in KeyLists, type \in {"check", "wait"} : Begin(c, type, ks, NoValue)

Runs(c) == DoWaitOp(c) \/ Return(c)

Next ==
  \/ \E c \in Client : Calls(c) \/ Runs(c) \/ TimeOut(c)
  \/ \E q, r \in Rank : ProcessMessage(q, r)

Spec == Init /\ [][Next]_vars

\* Threads run, and links deliver; no timeout has to pass.
FairSpec ==
  /\ Spec
  /\ \A c \in Client : WF_vars(Runs(c))
  /\ \A q, r \in Rank : WF_vars(ProcessMessage(q, r))

----------------------------------------------------------------------------
(***************************************************************************)
(* Properties.                                                             *)
(***************************************************************************)

\* Nobody waits for a key that is there: a get or wait that arrives around a set is
\* answered or seen by it, whichever comes first (internalStoreSetValue,
\* internalStoreGetValue), and each waiter is an operation without an answer.
NoLostWakeup ==
  \A k \in Key, q \in Rank : \A m \in Range(storeWaiters[k][q]) :
    /\ store[k] = NoValue
    /\ waits[q][m.id].answer = NoAnswer

\* When wait(keys) has returned, or check(keys) returned true, every one of the keys
\* is set, although the keys are asked for one by one at different ranks.
AllKeysThere ==
  \A c \in Client :
    (op[c].state = "returned" /\ (op[c].type = "wait" \/ op[c].result = "true"))
      => \A k \in Range(op[c].keys) : store[k] # NoValue

\* What was answered to the operation id of rank r: the answer has come, or is on
\* its way.
Applied(r, id) ==
  LET coming == {m \in UNION {Range(path[q][r]) : q \in Rank} : m.type = "done" /\ m.id = id}
  IN  IF coming = {} THEN waits[r][id].answer ELSE (CHOOSE m \in coming : TRUE).answer

\* The calls that AtomicStore is about.
AtomicCalls ==
  [r \in Rank |-> [id \in DOMAIN waits[r] |->
    [type |-> waits[r][id].type, key |-> waits[r][id].key, value |-> waits[r][id].value,
     applied |-> Applied(r, id), seen |-> waits[r][id].answer]]]

Atomic == INSTANCE AtomicStore WITH kv <- store, calls <- AtomicCalls

\* The distributed table is an atomic one: every set, get, wait and check takes
\* effect at one moment between its call and its answer, and what a rank asks for
\* never overtakes an earlier set of that rank, timed out or not.
AtomicOperations == Atomic!Spec

\* An operation whose keys are set returns, even if its timeout never passes: no
\* answer gets lost between a set and the waiters of its key.
WaitersReturn ==
  \A c \in Client :
    (Awaits(c) /\ \A k \in Range(op[c].keys) : store[k] # NoValue) ~> ~Awaits(c)
=============================================================================
