---------------------------- MODULE FifoChannel ----------------------------
(***************************************************************************)
(* What one mesh edge of the store promises to the code above it: a pair   *)
(* of reliable FIFO channels, one in each direction.  Messages are named   *)
(* by the order in which they were handed over, 0, 1, 2, ...; a side has   *)
(* processed a prefix of what the other side handed over, each message     *)
(* once and in order.                                                      *)
(***************************************************************************)
EXTENDS Naturals, Sequences

CONSTANT Side,          \* the two ends of the edge
         Other(_)       \* the end opposite to an end

VARIABLES sent,         \* sent[r]: number of messages side r handed over
          delivered     \* delivered[r]: messages processed at r, in order

fifoVars == <<sent, delivered>>

FirstMessages(k) == [i \in 1..k |-> i - 1]

Init ==
  /\ sent = [r \in Side |-> 0]
  /\ delivered = [r \in Side |-> <<>>]

\* Side r hands over one more message, or several at once.
Send(r) ==
  /\ sent'[r] > sent[r]
  /\ sent' = [sent EXCEPT ![r] = sent'[r]]
  /\ UNCHANGED delivered

\* Side r processes the next message, or several at once.
Deliver(r) ==
  /\ \E k \in (Len(delivered[r]) + 1)..sent[Other(r)] :
        delivered' = [delivered EXCEPT ![r] = FirstMessages(k)]
  /\ UNCHANGED sent

Next == \E r \in Side : Send(r) \/ Deliver(r)

Spec == Init /\ [][Next]_fifoVars
=============================================================================
