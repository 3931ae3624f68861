---------------------------- MODULE MCStoreLink ----------------------------
(* Instances of StoreLink for TLC. *)
EXTENDS StoreLink

CONSTANTS SendA, SendB   \* bound: messages handed over by side 0 and side 1

SendBound == [r \in {0, 1} |-> IF r = 0 THEN SendA ELSE SendB]
=============================================================================
