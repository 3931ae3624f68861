-------------------------- MODULE MCStoreShutdown --------------------------
(* StoreShutdown for few ranks: in a world of up to three every rank is an *)
(* edge of every other.                                                    *)
EXTENDS StoreShutdown, TLC

CONSTANTS r1, r2, r3, c

Direct == [s \in Rank |-> [d \in Rank |-> {s}]]

Home == [x \in Client |-> r3]

\* Two close without the third, and their deadline for its exit does not pass.
Unexpected == [closing |-> {r1, r2}, late |-> {"WaitShutdownAck", "WaitExitAck"}, using |-> Client]

\* One closes alone, and gives up on the others.
Alone == [closing |-> {r1}, late |-> Phase, using |-> Client]

\* All close, and no deadline passes.
Graceful == [closing |-> Rank, late |-> {}, using |-> {}]

AllPlans == {Unexpected, Alone, Graceful}
=============================================================================
