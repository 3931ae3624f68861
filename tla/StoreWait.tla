----------------------------- MODULE StoreWait -----------------------------
(***************************************************************************)
(* The wait of one rank's clients for their answers, at the level of its   *)
(* locks (core/store.cc: doWaitOp, Wait::wait, exitWait, the messageDone   *)
(* handler).  Client threads and the store thread share the mutex of the   *)
(* store; each operation has a Wait with a mutex and a futex of its own.   *)
(* A critical section in which a thread needs no other lock is one step.   *)
(***************************************************************************)
EXTENDS Naturals

CONSTANT Client   \* threads, with one operation each; their timeouts may pass

VARIABLES
  exited,    \* the store has exited
  waits,     \* the operations that wait for a messageDone
  exiting,   \* waits that the store thread has still to fail, under its mutex
  held,      \* the store thread holds the mutex of the store
  locked,    \* locked[c]: client c holds the mutex of its Wait
  futex,     \* futex[c] of the Wait of c
  error,     \* error[c] of the Wait of c
  answered,  \* messageDone has come for c
  pc,        \* where client c is
  returned   \* what c was told

vars == <<exited, waits, exiting, held, locked, futex, error, answered, pc, returned>>
storeVars == <<exited, waits, exiting, held>>
waitVars == <<locked, futex, error, answered>>

Init ==
  /\ exited = FALSE /\ waits = {} /\ exiting = {} /\ held = FALSE
  /\ locked = [c \in Client |-> FALSE]
  /\ futex = [c \in Client |-> 0]
  /\ error = [c \in Client |-> FALSE]
  /\ answered = [c \in Client |-> FALSE]
  /\ pc = [c \in Client |-> "start"]
  /\ returned = [c \in Client |-> "none"]

\* doWaitOp.
DoWaitOp(c) ==
  /\ pc[c] = "start" /\ ~held
  /\ pc' = [pc EXCEPT ![c] = "wait"]
  /\ IF exited
     THEN /\ error' = [error EXCEPT ![c] = TRUE]
          /\ futex' = [futex EXCEPT ![c] = 1]
          /\ UNCHANGED waits
     ELSE waits' = waits \cup {c} /\ UNCHANGED <<error, futex>>
  /\ UNCHANGED <<exited, exiting, held, locked, answered, returned>>

----------------------------------------------------------------------------
(***************************************************************************)
(* Wait::wait.                                                             *)
(***************************************************************************)

\* futexWait has returned, by a wake-up or after a second at the latest.
Wake(c) ==
  /\ pc[c] = "wait"
  /\ pc' = [pc EXCEPT ![c] = IF futex[c] = 1 THEN "result" ELSE "timeout"]
  /\ UNCHANGED <<storeVars, waitVars, returned>>

\* After the timeout: keep the mutex of the Wait and go for that of the store,
\* unless the store has exited.
TimedOut(c) ==
  /\ pc[c] = "timeout"
  /\ locked' = [locked EXCEPT ![c] = ~error[c]]
  /\ pc' = [pc EXCEPT ![c] = IF error[c] THEN "result" ELSE "diagnose"]
  /\ UNCHANGED <<storeVars, futex, error, answered, returned>>

\* getConnectionDiagnostics.
GetConnectionDiagnostics(c) ==
  /\ pc[c] = "diagnose" /\ ~held
  /\ locked' = [locked EXCEPT ![c] = FALSE]
  /\ pc' = [pc EXCEPT ![c] = "done"]
  /\ returned' = [returned EXCEPT ![c] = "timed out"]
  /\ UNCHANGED <<storeVars, futex, error, answered>>

\* The end of wait(), under the mutex of the Wait.
Result(c) ==
  /\ pc[c] = "result"
  /\ pc' = [pc EXCEPT ![c] = "done"]
  /\ returned' = [returned EXCEPT ![c] = IF error[c] THEN "shut down" ELSE "answer"]
  /\ UNCHANGED <<storeVars, waitVars>>

----------------------------------------------------------------------------
(***************************************************************************)
(* The store thread.                                                       *)
(***************************************************************************)

\* processMessage of messageDone for the operation of c.
OnDone(c) ==
  /\ c \in waits /\ ~held
  /\ waits' = waits \ {c}
  /\ answered' = [answered EXCEPT ![c] = TRUE]
  /\ futex' = [futex EXCEPT ![c] = 1]
  /\ UNCHANGED <<exited, exiting, held, locked, error, pc, returned>>

\* messageExit, or the end of the first phase of the shutdown: under the mutex of
\* the store, exitWait for every entry of waits.
Exit ==
  /\ ~exited /\ ~held
  /\ exited' = TRUE /\ held' = TRUE /\ exiting' = waits
  /\ UNCHANGED <<waits, waitVars, pc, returned>>

ExitWait(c) ==
  /\ c \in exiting /\ ~locked[c]
  /\ exiting' = exiting \ {c}
  /\ error' = [error EXCEPT ![c] = TRUE]
  /\ futex' = [futex EXCEPT ![c] = 1]
  /\ UNCHANGED <<exited, waits, held, locked, answered, pc, returned>>

Exited ==
  /\ held /\ exiting = {}
  /\ held' = FALSE
  /\ UNCHANGED <<exited, waits, exiting, waitVars, pc, returned>>

----------------------------------------------------------------------------
Step(c) == DoWaitOp(c) \/ Wake(c) \/ TimedOut(c) \/ GetConnectionDiagnostics(c) \/ Result(c)

Next ==
  \/ \E c \in Client : Step(c) \/ OnDone(c) \/ ExitWait(c)
  \/ Exit \/ Exited

Spec == Init /\ [][Next]_vars

\* Threads run, and get a spin lock that is free again and again.
FairSpec ==
  /\ Spec
  /\ \A c \in Client : SF_vars(Step(c)) /\ SF_vars(ExitWait(c))
  /\ WF_vars(Exited)

----------------------------------------------------------------------------
(***************************************************************************)
(* Properties.                                                             *)
(***************************************************************************)

\* "The rank wakes all pending waits with an appropriate error"
\* (docs/internals/tcp_store.md): once the store has exited, every operation
\* comes to an end.
ExitWakesWaits == \A c \in Client : (exited /\ pc[c] # "start") ~> (pc[c] = "done")
=============================================================================
