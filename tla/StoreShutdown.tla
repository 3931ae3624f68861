--------------------------- MODULE StoreShutdown ---------------------------
(***************************************************************************)
(* The three-phase shutdown of the store (core/store.cc: close,            *)
(* runCloseStateMachine, exitWait, and processMessage of messageShutdown,  *)
(* messageExit and messageExitAck), with client threads that wait.         *)
(*                                                                         *)
(* A broadcast reaches each rank once and in order, as StoreBroadcast      *)
(* shows, until a rank on its way has closed.  Messages and the close      *)
(* callbacks run on the store's own thread, so none runs once it is closed.*)
(***************************************************************************)
EXTENDS Naturals, Sequences

CONSTANTS Rank,
          Client,      \* threads that use a store
          At,          \* At[c]: the rank of client c
          NoRank,      \* exitSourceRank without a value
          Path,        \* Path[s][d]: the ranks that a broadcast of s passes before d
          Plans        \* which stores are destroyed (closing), the phases whose
                       \* deadlines may pass (late), the clients that run (using)

Phase == {"WaitShutdownAck", "WaitExit", "WaitExitAck"}

ASSUME ShutdownAssumption ==
  /\ NoRank \notin Rank /\ At \in [Client -> Rank]
  /\ \A x \in {"idle", "pending", "shut down"} : x \notin Rank
  /\ Path \in [Rank -> [Rank -> SUBSET Rank]]
  /\ Plans \subseteq [closing : SUBSET Rank, late : SUBSET Phase, using : SUBSET Client]

VARIABLES
  plan,   \* the one of Plans that this behaviour follows
  st,     \* st[r]: the fields of the store of rank r
  wait,   \* wait[c]: what the wait of client c has come to
  mail,   \* mail[s][d]: messages of s that d has not processed
  cut     \* cut[s][d]: a rank between s and d has closed

vars == <<plan, st, wait, mail, cut>>

\* shutdownStates is kept as the sets of peers that have signalled each phase.
Store == [shuttingDown : BOOLEAN, exited : BOOLEAN, exitSourceRank : Rank \cup {NoRank},
          closeState : Phase \cup {"NotStarted", "Done"}, expired : BOOLEAN,
          shutdown : SUBSET Rank, exit : SUBSET Rank, exitAck : SUBSET Rank]

Message == [type : {"shutdown", "exit", "exitAck"}, origin : Rank \cup {NoRank}]

\* "idle", waiting, told that the store was shut down, or on which rank it was.
WaitState == {"idle", "pending", "shut down"} \cup Rank

Init ==
  /\ plan \in Plans
  /\ st = [r \in Rank |->
       [shuttingDown |-> FALSE, exited |-> FALSE, exitSourceRank |-> NoRank,
        closeState |-> "NotStarted", expired |-> FALSE,
        shutdown |-> {}, exit |-> {}, exitAck |-> {}]]
  /\ wait = [c \in Client |-> "idle"]
  /\ mail = [s \in Rank |-> [d \in Rank |-> <<>>]]
  /\ cut = [s \in Rank |-> [d \in Rank |-> FALSE]]

closed(r) == st[r].closeState = "Done"

Peers(r) == Rank \ {r}

\* broadcastMessage by r of the messages ms, after the pending messages of r in m.
Broadcast(m, r, ms) ==
  [m EXCEPT ![r] = [d \in Rank |-> IF d = r \/ cut[r][d] THEN @[d] ELSE @[d] \o ms]]

\* exitWait.
exitWait(s, r) == IF s.exitSourceRank \in Peers(r) THEN s.exitSourceRank ELSE "shut down"

\* r goes from st[r] to s and broadcasts ms; if that makes it exit, every wait
\* fails.
Becomes(r, s, m, ms) ==
  /\ st' = [st EXCEPT ![r] = s]
  /\ mail' = Broadcast(m, r, ms)
  /\ wait' = [c \in Client |->
       IF At[c] = r /\ wait[c] = "pending" /\ s.exited /\ ~st[r].exited
       THEN exitWait(s, r) ELSE wait[c]]
  /\ UNCHANGED <<plan, cut>>

----------------------------------------------------------------------------
(***************************************************************************)
(* Client threads: doWaitOp, and the messageDone or timeout that ends it.  *)
(***************************************************************************)

\* A store that has exited still takes on new waits.
DoWaitOpMutant(c) ==
  /\ c \in plan.using /\ wait[c] # "pending"
  /\ wait' = [wait EXCEPT ![c] = "pending"]
  /\ UNCHANGED <<plan, st, mail, cut>>

DoWaitOp(c) ==
  /\ c \in plan.using /\ wait[c] # "pending"
  /\ wait' = [wait EXCEPT ![c] = IF st[At[c]].exited THEN exitWait(st[At[c]], At[c]) ELSE "pending"]
  /\ UNCHANGED <<plan, st, mail, cut>>

EndWait(c) ==
  /\ wait[c] = "pending"
  /\ wait' = [wait EXCEPT ![c] = "idle"]
  /\ UNCHANGED <<plan, st, mail, cut>>

\* close(): the callback that it adds runs the state machine.
Close(r) ==
  /\ r \in plan.closing /\ ~st[r].shuttingDown
  /\ st' = [st EXCEPT ![r].shuttingDown = TRUE]
  /\ UNCHANGED <<plan, wait, mail, cut>>

----------------------------------------------------------------------------
(***************************************************************************)
(* runCloseStateMachine: one call runs through all the phases that it can  *)
(* leave, under the lock.  The phases map the fields s of the store and    *)
(* what it has broadcast to their next values.                             *)
(***************************************************************************)

Signal(type, origin) == <<[type |-> type, origin |-> origin]>>

\* The rank itself is not recorded.
StartShutdownMutant(r, w) ==
  IF w.s.closeState # "NotStarted" THEN w ELSE
  [s   |-> [w.s EXCEPT !.closeState = "WaitShutdownAck", !.expired = FALSE],
   out |-> w.out \o Signal("shutdown", r)]

\* NotStarted.
StartShutdown(r, w) ==
  IF w.s.closeState # "NotStarted" THEN w ELSE
  [s   |-> [w.s EXCEPT !.closeState = "WaitShutdownAck", !.expired = FALSE,
                       !.exitSourceRank = IF @ = NoRank THEN r ELSE @],
   out |-> w.out \o Signal("shutdown", r)]

\* The deadline is not looked at.
EndShutdownMutant(r, w) ==
  IF ~ (w.s.closeState = "WaitShutdownAck" /\ Peers(r) \subseteq w.s.shutdown) THEN w ELSE
  [s   |-> [w.s EXCEPT !.closeState = "WaitExit", !.expired = FALSE, !.exited = TRUE],
   out |-> w.out \o (IF w.s.exited THEN <<>> ELSE Signal("exit", w.s.exitSourceRank))]

\* The next phase keeps the deadline of this one.
StaleDeadlineMutant(r, w) ==
  IF ~ (w.s.closeState = "WaitShutdownAck" /\ (Peers(r) \subseteq w.s.shutdown \/ w.s.expired)) THEN w ELSE
  [s   |-> [w.s EXCEPT !.closeState = "WaitExit", !.exited = TRUE],
   out |-> w.out \o (IF w.s.exited THEN <<>> ELSE Signal("exit", w.s.exitSourceRank))]

\* WaitShutdownAck: exit, unless a message has made the store exit before.
EndShutdown(r, w) ==
  IF ~ (w.s.closeState = "WaitShutdownAck" /\ (Peers(r) \subseteq w.s.shutdown \/ w.s.expired)) THEN w ELSE
  [s   |-> [w.s EXCEPT !.closeState = "WaitExit", !.expired = FALSE, !.exited = TRUE],
   out |-> w.out \o (IF w.s.exited THEN <<>> ELSE Signal("exit", w.s.exitSourceRank))]

\* WaitExit.
EndExit(r, w) ==
  IF ~ (w.s.closeState = "WaitExit" /\ (Peers(r) \subseteq w.s.exit \/ w.s.expired)) THEN w ELSE
  [s   |-> [w.s EXCEPT !.closeState = "WaitExitAck", !.expired = FALSE],
   out |-> w.out \o Signal("exitAck", NoRank)]

\* There is no deadline.
EndExitAckMutant(r, w) ==
  IF ~ (w.s.closeState = "WaitExitAck" /\ Peers(r) \subseteq w.s.exitAck) THEN w ELSE
  [w EXCEPT !.s.closeState = "Done"]

\* WaitExitAck: closed.
EndExitAck(r, w) ==
  IF ~ (w.s.closeState = "WaitExitAck" /\ (Peers(r) \subseteq w.s.exitAck \/ w.s.expired)) THEN w ELSE
  [w EXCEPT !.s.closeState = "Done"]

\* The callback, which adds itself again until the store is closed.
RunCloseStateMachine(r) ==
  /\ st[r].shuttingDown /\ ~closed(r)
  /\ LET w == EndExitAck(r, EndExit(r, EndShutdown(r, StartShutdown(r, [s |-> st[r], out |-> <<>>]))))
     IN  Becomes(r, w.s, mail, w.out)

\* Time passes the deadline of the phase that r is in.
Deadline(r) ==
  /\ st[r].closeState \in plan.late /\ ~st[r].expired
  /\ st' = [st EXCEPT ![r].expired = TRUE]
  /\ UNCHANGED <<plan, wait, mail, cut>>

----------------------------------------------------------------------------
(***************************************************************************)
(* processMessage at d of the next message of s.                           *)
(***************************************************************************)

\* The first message that s has for d, of this type.
Receives(s, d, type) == ~closed(d) /\ mail[s][d] # <<>> /\ Head(mail[s][d]).type = type

Taken(s, d) == [mail EXCEPT ![s][d] = Tail(@)]

\* messageShutdown.
OnShutdown(s, d) ==
  /\ Receives(s, d, "shutdown")
  /\ Becomes(d, [st[d] EXCEPT !.shutdown = @ \cup {s},
                              !.exitSourceRank = IF @ = NoRank THEN Head(mail[s][d]).origin ELSE @],
             Taken(s, d), <<>>)

\* The rank that passes the news on names itself.
OnExitMutant(s, d) ==
  /\ Receives(s, d, "exit")
  /\ LET known == [st[d] EXCEPT !.exit = @ \cup {s}]
         origin == Head(mail[s][d]).origin
     IN  IF st[d].exited THEN Becomes(d, known, Taken(s, d), <<>>)
         ELSE Becomes(d, [known EXCEPT !.exited = TRUE,
                            !.exitSourceRank = IF @ = NoRank /\ ~known.shuttingDown THEN origin ELSE @],
                      Taken(s, d), Signal("exit", d))

\* messageExit: the first one makes d exit and pass it on.
OnExit(s, d) ==
  /\ Receives(s, d, "exit")
  /\ LET known == [st[d] EXCEPT !.exit = @ \cup {s}]
         origin == Head(mail[s][d]).origin
     IN  IF st[d].exited THEN Becomes(d, known, Taken(s, d), <<>>)
         ELSE Becomes(d, [known EXCEPT !.exited = TRUE,
                            !.exitSourceRank = IF @ = NoRank /\ ~known.shuttingDown THEN origin ELSE @],
                      Taken(s, d), Signal("exit", origin))

\* messageExitAck.
OnExitAck(s, d) ==
  /\ Receives(s, d, "exitAck")
  /\ Becomes(d, [st[d] EXCEPT !.exitAck = @ \cup {s}], Taken(s, d), <<>>)

\* closeResources of a rank on the way: what has not passed it is lost, and
\* nothing passes it any more.
Cut(s, d) ==
  /\ ~cut[s][d] /\ ~closed(d) /\ \E r \in Path[s][d] : closed(r)
  /\ cut' = [cut EXCEPT ![s][d] = TRUE]
  /\ \E k \in 0..Len(mail[s][d]) : mail' = [mail EXCEPT ![s][d] = SubSeq(@, 1, k)]
  /\ UNCHANGED <<plan, st, wait>>

----------------------------------------------------------------------------
Process(s, d) == OnShutdown(s, d) \/ OnExit(s, d) \/ OnExitAck(s, d)

Next ==
  \/ \E r \in Rank : Close(r) \/ RunCloseStateMachine(r) \/ Deadline(r)
  \/ \E c \in Client : DoWaitOp(c) \/ EndWait(c)
  \/ \E s, d \in Rank : Process(s, d) \/ Cut(s, d)

Spec == Init /\ [][Next]_vars

\* The store threads run, the deadlines that may pass do so, and messages that
\* are not lost arrive.  Clients and close() are free.
Fairness ==
  /\ \A r \in Rank : WF_vars(RunCloseStateMachine(r)) /\ WF_vars(Deadline(r))
  /\ \A s, d \in Rank : WF_vars(Process(s, d))

FairSpec == Spec /\ Fairness

----------------------------------------------------------------------------
(***************************************************************************)
(* Properties.                                                             *)
(***************************************************************************)

\* Types of the shutdown state; a store that is past NotStarted knows the rank it
\* names in messageExit (runCloseStateMachine dereferences exitSourceRank).
TypeOK ==
  /\ plan \in Plans
  /\ st \in [Rank -> Store]
  /\ wait \in [Client -> WaitState]
  /\ mail \in [Rank -> [Rank -> Seq(Message)]]
  /\ cut \in [Rank -> [Rank -> BOOLEAN]]
  /\ \A r \in Rank : st[r].closeState # "NotStarted" => st[r].exitSourceRank # NoRank

\* "error messages correctly blame the rank that initiated shutdown, not a
\* forwarding rank": a wait fails with a rank whose own store was closed
\* (exitWait, messageExit).
BlameInitiator ==
  \A c \in Client : wait[c] \in Rank => st[wait[c]].shuttingDown

\* No wait is left behind: a store that has exited has failed every wait, those
\* that began at that moment included (doWaitOp, exitWait).
NoWaitLeft == \A c \in Client : st[At[c]].exited => wait[c] # "pending"

\* A store that has closed its connections drops what it should pass on, and its
\* peers meet a broken connection.  It closes them only after every rank has exited,
\* unless its deadline for their exits may pass, and only after every rank has closed
\* its store as well, while only the last deadline may pass (runCloseStateMachine).
GracefulExit ==
  \A r, p \in Rank : closed(r) =>
    /\ "WaitExit" \notin plan.late => st[p].exited
    /\ plan.late \subseteq {"WaitExitAck"} => st[p].shuttingDown

\* close() comes to an end whatever the peers do, as its deadlines pass
\* (runCloseStateMachine): again and again no store is between the two.
CloseEnds ==
  []<>(plan.late = Phase => \A r \in Rank : st[r].shuttingDown => closed(r))

\* A store that closes while the others do not fails the waits of all ranks
\* before it goes: the first and the last deadline may pass, the one for the
\* exits of the peers is enough (messageExit is passed on by its receivers).
EveryoneWakes ==
  []<>(plan.late = {"WaitShutdownAck", "WaitExitAck"} /\ (\E x \in Rank : st[x].shuttingDown)
         => \A r \in Rank : st[r].exited)

=============================================================================
