----------------------------- MODULE StoreLink -----------------------------
(***************************************************************************)
(* One edge of the store's mesh (core/store.cc, struct EdgeInfo): the two  *)
(* StoreImpl objects at its ends, the TCP connections they open to each    *)
(* other, the connection handshake (signatureConnect, signatureConnectAck) *)
(* and the message stream with its acknowledgements (signatureMessage,     *)
(* signatureMessageAck).                                                   *)
(*                                                                         *)
(* The n-th message that side r hands to sendMessage is named by n, which  *)
(* stands for its content; the code sees only seq = n % SeqMod (2^32 in    *)
(* the code).  Each store runs its handlers one at a time under its mutex, *)
(* so a handler is one action.  Connection identifiers are reused once a   *)
(* connection is gone at both ends.                                        *)
(***************************************************************************)
EXTENDS SeqArith, Sequences, Functions

CONSTANTS Conn,         \* connections that may exist at the same time
          Initiators,   \* sides that know a reachable address of the peer
          MaxSend,      \* bound: messages handed over by each side
          MaxFaults,    \* bound: connection failures and timeouts
          MayClose      \* sides that may shut their store down

Side == {0, 1}

Other(r) == 1 - r

ASSUME InitiatorsAssumption == Initiators \subseteq Side /\ MayClose \subseteq Side
ASSUME BoundsAssumption == MaxFaults \in Nat /\ MaxSend \in [Side -> Nat]

VARIABLES
  closed,             \* closed[r]: the store at r has closed its resources
  noConnect,          \* noConnect[r]: r or, to r's knowledge, its peer exited
  up,                 \* up[c]: the connection carries data both ways
  open,               \* open[c][r]: r has not closed its socket of c
  sourceRank,         \* sourceRank[c][r]: ci->sourceRank is set at r
  tcpconnections,     \* tcpconnections[r]: connections adopted by r
  wire,               \* wire[c][r]: frames of c on their way to r
  sent,               \* sent[r]: messages r has numbered (outgoingSeq)
  outgoingQueue,      \* outgoingQueue[r]: messages of r not yet acknowledged
  incomingSeq,        \* incomingSeq[r]: next sequence number r processes
  incomingQueue,      \* incomingQueue[r]: messages received ahead of order
  everConnected,      \* everConnected[r]
  pendingBroadcasts,  \* pendingBroadcasts[r]: broadcasts to replay on connect
  delivered,          \* delivered[r]: messages given to processMessage at r
  faults              \* faults so far

storeVars == <<closed, noConnect>>
connVars  == <<up, open, sourceRank, tcpconnections>>
sendVars  == <<sent, outgoingQueue>>
recvVars  == <<incomingSeq, incomingQueue, delivered>>
castVars  == <<everConnected, pendingBroadcasts>>
vars == <<storeVars, connVars, wire, sendVars, recvVars, castVars, faults>>

Msg == [seq : SeqNo, n : Nat]

Frame == [type : {"connect", "connectAck", "msg", "ack"},
          seq : SeqNo, n : Nat]

Ctl(t)      == [type |-> t, seq |-> 0, n |-> 0]
MsgFrame(m) == [type |-> "msg", seq |-> m.seq, n |-> m.n]
AckFrame(f) == [type |-> "ack", seq |-> f.seq, n |-> f.n]

Init ==
  /\ closed = [r \in Side |-> FALSE]
  /\ noConnect = [r \in Side |-> FALSE]
  /\ up = [c \in Conn |-> FALSE]
  /\ open = [c \in Conn |-> [r \in Side |-> FALSE]]
  /\ sourceRank = [c \in Conn |-> [r \in Side |-> FALSE]]
  /\ tcpconnections = [r \in Side |-> {}]
  /\ wire = [c \in Conn |-> [r \in Side |-> <<>>]]
  /\ sent = [r \in Side |-> 0]
  /\ outgoingQueue = [r \in Side |-> <<>>]
  /\ incomingSeq = [r \in Side |-> 0]
  /\ incomingQueue = [r \in Side |-> {}]
  /\ everConnected = [r \in Side |-> FALSE]
  /\ pendingBroadcasts = [r \in Side |-> 0]
  /\ delivered = [r \in Side |-> <<>>]
  /\ faults = 0

----------------------------------------------------------------------------
(***************************************************************************)
(* Sending.                                                                *)
(***************************************************************************)

\* The k messages that r numbers next.
NewMessages(r, k) ==
  [i \in 1..k |-> [seq |-> (sent[r] + i - 1) % SeqMod, n |-> sent[r] + i - 1]]

Frames(q) == [i \in 1..Len(q) |-> MsgFrame(q[i])]

\* The wires after r wrote the frames fs to connection c; the frames are lost
\* when the connection is gone.
Write(w, c, r, fs) ==
  IF up[c] THEN [w EXCEPT ![c][Other(r)] = @ \o fs] ELSE w

\* The number of messages of r once its pending broadcasts are replayed, a
\* messageDiagnosticSource included.
Ahead(r) == sent[r] + pendingBroadcasts[r] + (IF pendingBroadcasts[r] > 0 THEN 1 ELSE 0)

\* No message lives through half of the sequence space: when r takes on k more
\* messages, everything of r that is waiting or in flight is at most Half
\* messages old.  In the code Half is 2^31.
Recent(r, k) ==
  LET young(n) == Ahead(r) + k - n <= Half IN
  /\ young(sent[r])
  /\ \A m \in Range(outgoingQueue[r]) \cup incomingQueue[Other(r)] : young(m.n)
  /\ \A c \in Conn :
       /\ \A f \in Range(wire[c][Other(r)]) : f.type = "msg" => young(f.n)
       /\ \A f \in Range(wire[c][r]) : f.type = "ack" => young(f.n)

\* sendMessage: number the message, queue it until it is acknowledged and write
\* it to the adopted connection, if there is one.  A messageDiagnosticSource
\* goes first when this edge has not had one for the originator yet
\* (ensureDiagnosticSourceSent).
Send(r) ==
  /\ ~closed[r]
  /\ \E k \in 1..2 :
       /\ Ahead(r) + k <= MaxSend[r]
       /\ Recent(r, k)
       /\ sent' = [sent EXCEPT ![r] = @ + k]
       /\ outgoingQueue' = [outgoingQueue EXCEPT ![r] = @ \o NewMessages(r, k)]
       /\ \/ /\ tcpconnections[r] = {}
             /\ UNCHANGED wire
          \/ \E c \in tcpconnections[r] :
               wire' = Write(wire, c, r, Frames(NewMessages(r, k)))
  /\ UNCHANGED <<storeVars, connVars, recvVars, castVars, faults>>

\* forwardBroadcast to an edge that has never connected: keep the broadcast for
\* the replay.  (Once connected it is a Send.)
ForwardBroadcast(r) ==
  /\ ~closed[r]
  /\ ~everConnected[r]
  /\ Ahead(r) + 2 <= MaxSend[r]
  /\ Recent(r, 2)
  /\ pendingBroadcasts' = [pendingBroadcasts EXCEPT ![r] = @ + 1]
  /\ UNCHANGED <<storeVars, connVars, wire, sendVars, recvVars, everConnected, faults>>

----------------------------------------------------------------------------
(***************************************************************************)
(* Connections.                                                            *)
(***************************************************************************)

\* No trace of connection c is left: its identifier can be used again.
Gone(c) ==
  /\ ~up[c]
  /\ \A r \in Side : ~open[c][r] /\ c \notin tcpconnections[r] /\ wire[c][r] = <<>>

\* connectEdge and the callback it schedules: open a connection to the peer and
\* write signatureConnect.  A peer that is closed accepts nothing.
ConnectEdge(r, c) ==
  /\ r \in Initiators
  /\ ~closed[r] /\ tcpconnections[r] = {} /\ ~noConnect[r]
  /\ Gone(c)
  /\ LET accepts == ~closed[Other(r)] IN
       /\ up' = [up EXCEPT ![c] = accepts]
       /\ open' = [open EXCEPT ![c] = [s \in Side |-> s = r \/ accepts]]
       /\ sourceRank' = [sourceRank EXCEPT ![c] = [s \in Side |-> FALSE]]
       /\ wire' = [wire EXCEPT ![c][Other(r)] = IF accepts THEN <<Ctl("connect")>> ELSE <<>>]
  /\ UNCHANGED <<storeVars, tcpconnections, sendVars, recvVars, castVars, faults>>

\* Side r closes its socket of c: nothing is written to c any more, frames that
\* r has already read are still processed.
CloseSocket(r, c) ==
  /\ up' = [up EXCEPT ![c] = FALSE]
  /\ open' = [open EXCEPT ![c][r] = FALSE]

\* The network breaks a connection.
Break(c) ==
  /\ up[c]
  /\ faults < MaxFaults
  /\ faults' = faults + 1
  /\ up' = [up EXCEPT ![c] = FALSE]
  /\ UNCHANGED <<storeVars, open, sourceRank, tcpconnections, wire, sendVars, recvVars, castVars>>

\* Frames of a dead connection that r has not read yet are lost.
LoseTail(r, c) ==
  /\ ~up[c]
  /\ \E k \in 0..(Len(wire[c][r]) - 1) : wire' = [wire EXCEPT ![c][r] = SubSeq(@, 1, k)]
  /\ UNCHANGED <<storeVars, connVars, sendVars, recvVars, castVars, faults>>

\* A read error closes only a connection that is not adopted.
ReadErrorMutant(r, c) ==
  /\ ~up[c] /\ open[c][r] /\ ~sourceRank[c][r]
  /\ open' = [open EXCEPT ![c][r] = FALSE]
  /\ UNCHANGED <<storeVars, up, sourceRank, tcpconnections, wire, sendVars, recvVars, castVars, faults>>

\* The read callback of addConnection is called with an error: it closes the
\* socket at once, on the reading thread, while frames read earlier may still
\* wait for their turn.
ReadError(r, c) ==
  /\ ~up[c] /\ open[c][r]
  /\ open' = [open EXCEPT ![c][r] = FALSE]
  /\ UNCHANGED <<storeVars, up, sourceRank, tcpconnections, wire, sendVars, recvVars, castVars, faults>>

\* keepalive finds c silent for too long (an adopted connection for 40 seconds,
\* a floating one for 20) and closes it.
KeepaliveTimeout(r, c) ==
  /\ ~closed[r]
  /\ open[c][r]
  /\ c \in tcpconnections[r] \/ ~sourceRank[c][r]
  /\ faults < MaxFaults
  /\ faults' = faults + 1
  /\ CloseSocket(r, c)
  /\ tcpconnections' = [tcpconnections EXCEPT ![r] = @ \ {c}]
  /\ UNCHANGED <<storeVars, sourceRank, wire, sendVars, recvVars, castVars>>

\* An adopted connection whose socket is closed is dropped (reaptcpconnections):
\* by the callback that a read error schedules, by keepalive, or by connectEdge.
Reap(r, c) ==
  /\ ~closed[r]
  /\ c \in tcpconnections[r] /\ ~open[c][r]
  /\ tcpconnections' = [tcpconnections EXCEPT ![r] = @ \ {c}]
  /\ UNCHANGED <<storeVars, up, open, sourceRank, wire, sendVars, recvVars, castVars, faults>>

\* The shutdown protocol tells r to open no more connections (exited, or
\* shutdownStates[edge].exited).
StopConnecting(r) ==
  /\ r \in MayClose
  /\ ~noConnect[r]
  /\ noConnect' = [noConnect EXCEPT ![r] = TRUE]
  /\ UNCHANGED <<closed, connVars, wire, sendVars, recvVars, castVars, faults>>

\* The last step of runCloseStateMachine with closeResources: every connection
\* of r is closed and no handler of r runs again.
CloseStore(r) ==
  /\ ~closed[r] /\ noConnect[r]
  /\ closed' = [closed EXCEPT ![r] = TRUE]
  /\ up' = [c \in Conn |-> up[c] /\ ~open[c][r]]
  /\ open' = [c \in Conn |-> [open[c] EXCEPT ![r] = FALSE]]
  /\ tcpconnections' = [tcpconnections EXCEPT ![r] = {}]
  /\ wire' = [c \in Conn |-> [wire[c] EXCEPT ![r] = <<>>]]
  /\ UNCHANGED <<noConnect, sourceRank, sendVars, recvVars, castVars, faults>>

----------------------------------------------------------------------------
(***************************************************************************)
(* Receiving: onreadtcp.                                                   *)
(***************************************************************************)

\* Take the next frame of c at r.
Take(w, r, c) == [w EXCEPT ![c][r] = Tail(@)]

\* signatureConnect or signatureConnectAck while r has an adopted connection:
\* the new one is closed.
RefuseConnect(r, c) ==
  /\ tcpconnections[r] # {}
  /\ CloseSocket(r, c)
  /\ wire' = Take(wire, r, c)
  /\ UNCHANGED <<storeVars, sourceRank, tcpconnections, sendVars, recvVars, castVars, faults>>

\* Adopting c writes only what is replayed.
AdoptFramesMutant(type, replayed, queue) ==
  Frames(replayed) \o (IF type = "connect" THEN <<Ctl("connectAck")>> ELSE <<>>)

\* What adopting c makes r write: the replayed broadcasts, the answer to a
\* signatureConnect, then everything that is not acknowledged.
AdoptFrames(type, replayed, queue) ==
  Frames(replayed)
    \o (IF type = "connect" THEN <<Ctl("connectAck")>> ELSE <<>>)
    \o Frames(queue)

\* A side that opened the connection forgets to record its peer.
AdoptConnectMutant(r, c) ==
  /\ tcpconnections[r] = {}
  /\ tcpconnections' = [tcpconnections EXCEPT ![r] = {c}]
  /\ sourceRank' = [sourceRank EXCEPT ![c][r] = Head(wire[c][r]).type = "connect"]
  /\ everConnected' = [everConnected EXCEPT ![r] = TRUE]
  /\ pendingBroadcasts' = [pendingBroadcasts EXCEPT ![r] = 0]
  /\ \E k \in pendingBroadcasts[r]..(Ahead(r) - sent[r]) :
       LET replayed == NewMessages(r, k)
           queue    == outgoingQueue[r] \o replayed
       IN  /\ sent' = [sent EXCEPT ![r] = @ + k]
           /\ outgoingQueue' = [outgoingQueue EXCEPT ![r] = queue]
           /\ wire' = Write(Take(wire, r, c), c, r,
                            AdoptFrames(Head(wire[c][r]).type, replayed, queue))
  /\ UNCHANGED <<storeVars, up, open, recvVars, faults>>

\* signatureConnect or signatureConnectAck while r has no adopted connection.
\* The replay may begin with a messageDiagnosticSource, as in Send.
AdoptConnect(r, c) ==
  /\ tcpconnections[r] = {}
  /\ tcpconnections' = [tcpconnections EXCEPT ![r] = {c}]
  /\ sourceRank' = [sourceRank EXCEPT ![c][r] = TRUE]
  /\ everConnected' = [everConnected EXCEPT ![r] = TRUE]
  /\ pendingBroadcasts' = [pendingBroadcasts EXCEPT ![r] = 0]
  /\ \E k \in pendingBroadcasts[r]..(Ahead(r) - sent[r]) :
       LET replayed == NewMessages(r, k)
           queue    == outgoingQueue[r] \o replayed
       IN  /\ sent' = [sent EXCEPT ![r] = @ + k]
           /\ outgoingQueue' = [outgoingQueue EXCEPT ![r] = queue]
           /\ wire' = Write(Take(wire, r, c), c, r,
                            AdoptFrames(Head(wire[c][r]).type, replayed, queue))
  /\ UNCHANGED <<storeVars, up, open, recvVars, faults>>

OnConnect(r, c) ==
  /\ Head(wire[c][r]).type \in {"connect", "connectAck"}
  /\ RefuseConnect(r, c) \/ AdoptConnect(r, c)

\* A message with sequence number s waits in the reorder buffer of r, and which.
Buffered(r, s) == \E m \in incomingQueue[r] : m.seq = s

Early(r, s) == CHOOSE m \in incomingQueue[r] : m.seq = s

\* The sequence number j after s, without the wrap-around.
AfterMutant(s, j) == s + j

\* The sequence number j after s.
After(s, j) == (s + j) % SeqMod

\* The message of frame f and the k buffered messages that follow it.
Run(r, f, k) ==
  [j \in 1..(k + 1) |-> IF j = 1 THEN f.n ELSE Early(r, After(f.seq, j - 1)).n]

\* Frame f holds the message r waits for: process it and the buffered messages
\* that follow it, and drop what has become old from the buffer.
ProcessRun(r, f) ==
  \E k \in 0..Half :
    /\ \A j \in 1..k : Buffered(r, After(f.seq, j))
    /\ ~Buffered(r, After(f.seq, k + 1))
    /\ delivered' = [delivered EXCEPT ![r] = @ \o Run(r, f, k)]
    /\ incomingSeq' = [incomingSeq EXCEPT ![r] = After(f.seq, k + 1)]
    /\ incomingQueue' = [incomingQueue EXCEPT ![r] =
         {m \in @ : Diff(m.seq, After(f.seq, k + 1)) >= 0}]

\* Any other message: buffer it when it is early, ignore it when it is not new.
KeepEarly(r, f) ==
  /\ incomingQueue' = [incomingQueue EXCEPT ![r] =
       IF Diff(f.seq, incomingSeq[r]) > 0 THEN @ \cup {[seq |-> f.seq, n |-> f.n]} ELSE @]
  /\ UNCHANGED <<incomingSeq, delivered>>

\* A message that is not old is processed at once.
OnMessageMutant(r, c) ==
  LET f == Head(wire[c][r]) IN
  /\ f.type = "msg"
  /\ sourceRank[c][r]
  /\ wire' = Write(Take(wire, r, c), c, r, <<AckFrame(f)>>)
  /\ IF Diff(f.seq, incomingSeq[r]) >= 0 THEN ProcessRun(r, f) ELSE KeepEarly(r, f)
  /\ UNCHANGED <<storeVars, connVars, sendVars, castVars, faults>>

\* A message that was processed before is processed again.
OnMessageRepeatMutant(r, c) ==
  LET f == Head(wire[c][r]) IN
  /\ f.type = "msg"
  /\ sourceRank[c][r]
  /\ wire' = Write(Take(wire, r, c), c, r, <<AckFrame(f)>>)
  /\ IF Diff(f.seq, incomingSeq[r]) <= 0 THEN ProcessRun(r, f) ELSE KeepEarly(r, f)
  /\ UNCHANGED <<storeVars, connVars, sendVars, castVars, faults>>

\* Only what is new is acknowledged.
OnMessageSilentMutant(r, c) ==
  LET f == Head(wire[c][r]) IN
  /\ f.type = "msg"
  /\ sourceRank[c][r]
  /\ wire' = Write(Take(wire, r, c), c, r,
                   IF Diff(f.seq, incomingSeq[r]) >= 0 THEN <<AckFrame(f)>> ELSE <<>>)
  /\ IF f.seq = incomingSeq[r] THEN ProcessRun(r, f) ELSE KeepEarly(r, f)
  /\ UNCHANGED <<storeVars, connVars, sendVars, castVars, faults>>

\* signatureMessage on an adopted connection: acknowledge it and process it when
\* its turn has come.
OnMessage(r, c) ==
  LET f == Head(wire[c][r]) IN
  /\ f.type = "msg"
  /\ sourceRank[c][r]
  /\ wire' = Write(Take(wire, r, c), c, r, <<AckFrame(f)>>)
  /\ IF f.seq = incomingSeq[r] THEN ProcessRun(r, f) ELSE KeepEarly(r, f)
  /\ UNCHANGED <<storeVars, connVars, sendVars, castVars, faults>>

\* signatureMessage on a connection that r has not adopted is dropped.
DropMessage(r, c) ==
  /\ Head(wire[c][r]).type = "msg"
  /\ ~sourceRank[c][r]
  /\ wire' = Take(wire, r, c)
  /\ UNCHANGED <<storeVars, connVars, sendVars, recvVars, castVars, faults>>

\* The queue without its messages up to sequence number s, as for cumulative
\* acknowledgements.
AcknowledgedMutant(q, s) == SelectSeq(q, LAMBDA m : Diff(m.seq, s) > 0)

\* The queue without its first message that has sequence number s.
Acknowledged(q, s) ==
  LET first(j) == q[j].seq = s /\ \A k \in 1..(j - 1) : q[k].seq # s
      i == CHOOSE j \in 1..Len(q) : first(j)
  IN  IF \E j \in 1..Len(q) : first(j)
      THEN SubSeq(q, 1, i - 1) \o SubSeq(q, i + 1, Len(q))
      ELSE q

\* signatureMessageAck.
OnMessageAck(r, c) ==
  /\ Head(wire[c][r]).type = "ack"
  /\ outgoingQueue' = [outgoingQueue EXCEPT ![r] = Acknowledged(@, Head(wire[c][r]).seq)]
  /\ wire' = Take(wire, r, c)
  /\ UNCHANGED <<storeVars, connVars, sent, recvVars, castVars, faults>>

OnReadTcp(r, c) ==
  /\ ~closed[r]
  /\ wire[c][r] # <<>>
  /\ OnConnect(r, c) \/ OnMessage(r, c) \/ DropMessage(r, c) \/ OnMessageAck(r, c)

----------------------------------------------------------------------------

Next ==
  \/ \E r \in Side :
       Send(r) \/ ForwardBroadcast(r) \/ StopConnecting(r) \/ CloseStore(r)
  \/ \E r \in Side, c \in Conn :
       \/ ConnectEdge(r, c) \/ LoseTail(r, c) \/ ReadError(r, c)
       \/ KeepaliveTimeout(r, c) \/ Reap(r, c) \/ OnReadTcp(r, c)
  \/ \E c \in Conn : Break(c)

Spec == Init /\ [][Next]_vars

\* keepalive runs connectEdge every 2 to 8 seconds on the store's thread, which
\* also runs every callback that a read has scheduled; a dead socket is reported
\* to its reader.  Nothing forces a side to send, to close or to fail.
Fairness ==
  /\ \A r \in Side : WF_vars(\E c \in Conn : ConnectEdge(r, c))
  /\ \A r \in Side, c \in Conn :
       WF_vars(OnReadTcp(r, c)) /\ WF_vars(ReadError(r, c)) /\ WF_vars(Reap(r, c))

FairSpec == Spec /\ Fairness

----------------------------------------------------------------------------
(***************************************************************************)
(* Properties.                                                             *)
(***************************************************************************)

\* Types of the state of an edge (struct EdgeInfo and its connections).
TypeOK ==
  /\ closed \in [Side -> BOOLEAN]
  /\ noConnect \in [Side -> BOOLEAN]
  /\ up \in [Conn -> BOOLEAN]
  /\ open \in [Conn -> [Side -> BOOLEAN]]
  /\ sourceRank \in [Conn -> [Side -> BOOLEAN]]
  /\ tcpconnections \in [Side -> SUBSET Conn]
  /\ wire \in [Conn -> [Side -> Seq(Frame)]]
  /\ sent \in [Side -> Nat]
  /\ outgoingQueue \in [Side -> Seq(Msg)]
  /\ incomingSeq \in [Side -> SeqNo]
  /\ incomingQueue \in [Side -> SUBSET Msg]
  /\ everConnected \in [Side -> BOOLEAN]
  /\ pendingBroadcasts \in [Side -> Nat]
  /\ delivered \in [Side -> Seq(Nat)]
  /\ faults \in Nat

\* What r has processed is exactly the first messages the peer numbered, each
\* once and in order, through reconnections, retransmissions, duplicates and
\* the wrap-around of the sequence numbers (onreadtcp, signatureMessage).
InOrderOnce ==
  \A r \in Side :
    /\ Len(delivered[r]) <= sent[Other(r)]
    /\ \A i \in 1..Len(delivered[r]) : delivered[r][i] = i - 1

\* A message that the peer has not processed and that does not wait in its
\* reorder buffer is still in outgoingQueue, so a reconnection will write it
\* again: an acknowledgement never releases a message that is not safe yet
\* (onreadtcp, signatureMessageAck).
NothingForgotten ==
  \A r \in Side : \A n \in Len(delivered[Other(r)])..(sent[r] - 1) :
    \E m \in Range(outgoingQueue[r]) \cup incomingQueue[Other(r)] : m.n = n

\* The two ends together are a pair of reliable FIFO channels: every step of the
\* edge hands over messages, processes the next ones in order, or does neither.
Fifo == INSTANCE FifoChannel

ReliableFifo == Fifo!Spec

\* The CHECK in the signatureMessageAck handler: an acknowledgement only ever
\* reaches a connection that its receiver has adopted.
AckOnAdopted ==
  \A r \in Side, c \in Conn :
    (wire[c][r] # <<>> /\ Head(wire[c][r]).type = "ack") => sourceRank[c][r]

\* A shutdown has begun at one end of the edge.
Leaving == \E r \in Side : noConnect[r] \/ closed[r]

\* What a side accepted, pending broadcasts included, is processed by the peer
\* once connections stop failing, when one side opens the connections and none
\* shuts down (connectEdge, onreadtcp).
Delivery ==
  \A r \in Side : \A n \in 1..MaxSend[r] :
    (sent[r] + pendingBroadcasts[r] >= n) ~> (Len(delivered[Other(r)]) >= n \/ Leaving)

\* Every message is released in the end: outgoingQueue does not keep what the
\* peer has, even when the acknowledgement was lost with its connection
\* (onreadtcp, signatureMessage acknowledges what it has seen before).
Released == \A r \in Side : <>[](outgoingQueue[r] = <<>> \/ Leaving)

\* A store that closed is noticed: its peer drops the connections to it and
\* never adopts one again (addConnection, reaptcpconnections).
ClosedIsNoticed ==
  \A r \in Side : closed[r] ~> [](tcpconnections[Other(r)] = {})
=============================================================================
