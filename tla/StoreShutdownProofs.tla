------------------------ MODULE StoreShutdownProofs ------------------------
(***************************************************************************)
(* The shutdown of a store for any number of ranks and clients, whatever   *)
(* stores are closed, deadlines pass and messages are lost.                *)
(***************************************************************************)
EXTENDS StoreShutdown, SequenceTheorems, TLAPS

(***************************************************************************)
(* The inductive invariant.  S is the stores, now or after a step.         *)
(***************************************************************************)

\* The fields s of the store of r agree: a store that has started to close knows whom
\* to blame, one that is past the first phase has exited, and it has left a phase
\* whose deadline may not pass because all peers had signalled.
Fit(late, r, s) ==
  /\ s.closeState # "NotStarted" => s.shuttingDown /\ s.exitSourceRank # NoRank
  /\ s.closeState \in {"WaitExit", "WaitExitAck", "Done"} => s.exited
  /\ late \subseteq {"WaitExitAck"} =>
       /\ s.expired => s.closeState \in {"WaitExitAck", "Done"}
       /\ s.closeState \in {"WaitExit", "WaitExitAck", "Done"} => Peers(r) \subseteq s.shutdown
  /\ "WaitExit" \notin late =>
       /\ s.expired => s.closeState # "WaitExit"
       /\ s.closeState \in {"WaitExitAck", "Done"} => Peers(r) \subseteq s.exit

\* What the fields s say of the other stores is true.
Truthful(S, s) ==
  /\ s.exitSourceRank # NoRank => S[s.exitSourceRank].shuttingDown
  /\ \A p \in s.shutdown : S[p].shuttingDown
  /\ \A p \in s.exit : S[p].exited

\* So is what message m of rank p says, if exited tells whether p has exited.
Meant(S, p, m, exited) ==
  /\ m.type \in {"shutdown", "exit"} => m.origin \in Rank /\ S[m.origin].shuttingDown
  /\ m.type = "shutdown" => S[p].shuttingDown
  /\ m.type = "exit" => exited

AllMeant(S, p, q, exited) == \A i \in 1..Len(q) : Meant(S, p, q[i], exited)

IInv ==
  /\ TypeOK
  /\ \A r \in Rank : Fit(plan.late, r, st[r]) /\ Truthful(st, st[r])
  /\ \A p, d \in Rank : AllMeant(st, p, mail[p][d], st[p].exited)
  /\ BlameInitiator /\ NoWaitLeft

\* Nothing that was true of stores S is false of stores T.
Later(S, T) ==
  \A x \in Rank : /\ S[x].shuttingDown => T[x].shuttingDown
                  /\ S[x].exited => T[x].exited

----------------------------------------------------------------------------
(***************************************************************************)
(* What was true stays true, and sequences of true messages.               *)
(***************************************************************************)

LEMMA TruthfulLater ==
  ASSUME NEW S, NEW T, Later(S, T), NEW s \in Store, Truthful(S, s)
  PROVE  Truthful(T, s)
<1>1. s.exitSourceRank \in Rank \cup {NoRank} /\ s.shutdown \subseteq Rank /\ s.exit \subseteq Rank
  BY DEF Store
<1> QED BY <1>1 DEF Truthful, Later

LEMMA MeantLater ==
  ASSUME NEW S, NEW T, Later(S, T), NEW p \in Rank, NEW q,
         NEW e, NEW f, e => f, AllMeant(S, p, q, e)
  PROVE  AllMeant(T, p, q, f)
  BY DEF AllMeant, Meant, Later

LEMMA NothingMeant ==
  \A S, p, e : <<>> \in Seq(Message) /\ AllMeant(S, p, <<>>, e)
<1>1. <<>> \in Seq(Message) /\ Len(<<>>) = 0
  BY EmptySeq
<1> QED BY <1>1 DEF AllMeant

LEMMA MeantConcat ==
  ASSUME NEW S, NEW p \in Rank, NEW e, NEW q \in Seq(Message), NEW u \in Seq(Message),
         AllMeant(S, p, q, e), AllMeant(S, p, u, e)
  PROVE  q \o u \in Seq(Message) /\ AllMeant(S, p, q \o u, e)
<1>1. /\ q \o u \in Seq(Message) /\ Len(q \o u) = Len(q) + Len(u)
      /\ \A i \in 1..(Len(q) + Len(u)) : (q \o u)[i] = IF i <= Len(q) THEN q[i] ELSE u[i - Len(q)]
      /\ Len(q) \in Nat /\ Len(u) \in Nat
  BY ConcatProperties, LenProperties
<1>2. ASSUME NEW i \in 1..(Len(q) + Len(u)) PROVE Meant(S, p, (q \o u)[i], e)
  <2>1. CASE i <= Len(q)
    <3>1. i \in 1..Len(q) /\ (q \o u)[i] = q[i]
      BY <2>1, <1>1
    <3> QED BY Zenon, <3>1 DEF AllMeant
  <2>2. CASE ~(i <= Len(q))
    <3>1. i - Len(q) \in 1..Len(u) /\ (q \o u)[i] = u[i - Len(q)]
      BY <2>2, <1>1
    <3> QED BY Zenon, <3>1 DEF AllMeant
  <2> QED BY <2>1, <2>2
<1> QED BY Zenon, <1>1, <1>2 DEF AllMeant

LEMMA MeantTail ==
  ASSUME NEW S, NEW p \in Rank, NEW e, NEW q \in Seq(Message), q # <<>>, AllMeant(S, p, q, e)
  PROVE  /\ Head(q) \in Message /\ Meant(S, p, Head(q), e)
         /\ Tail(q) \in Seq(Message) /\ AllMeant(S, p, Tail(q), e)
<1>1. /\ Head(q) \in Message /\ Tail(q) \in Seq(Message) /\ Len(Tail(q)) = Len(q) - 1
      /\ \A i \in 1..Len(Tail(q)) : Tail(q)[i] = q[i + 1]
  BY HeadTailProperties
<1>2. Len(q) \in Nat \ {0} /\ Head(q) = q[1]
  BY EmptySeq, LenProperties
<1>3. Meant(S, p, Head(q), e)
  BY <1>2 DEF AllMeant
<1>4. ASSUME NEW i \in 1..Len(Tail(q)) PROVE Meant(S, p, Tail(q)[i], e)
  <2>1. i + 1 \in 1..Len(q) /\ Tail(q)[i] = q[i + 1]
    BY <1>1, <1>2
  <2> QED BY Zenon, <2>1 DEF AllMeant
<1> QED BY Zenon, <1>1, <1>3, <1>4 DEF AllMeant

LEMMA MeantPrefix ==
  ASSUME NEW S, NEW p \in Rank, NEW e, NEW q \in Seq(Message), AllMeant(S, p, q, e), NEW k \in 0..Len(q)
  PROVE  SubSeq(q, 1, k) \in Seq(Message) /\ AllMeant(S, p, SubSeq(q, 1, k), e)
<1>1. Len(q) \in Nat /\ k \in Nat /\ \A i \in 1..Len(q) : q[i] \in Message
  BY LenProperties, ElementOfSeq
<1>2. SubSeq(q, 1, k) \in Seq(Message) /\ Len(SubSeq(q, 1, k)) = k
  BY <1>1, SubSeqProperties
<1>3. \A i \in 1..k : i \in 1..Len(q) /\ SubSeq(q, 1, k)[i] = q[i]
  BY <1>1, SubSeqProperties
<1> QED BY <1>2, <1>3 DEF AllMeant

----------------------------------------------------------------------------
(***************************************************************************)
(* The steps.                                                              *)
(***************************************************************************)

LEMMA InitInv == Init => IInv
<1> SUFFICES ASSUME Init PROVE IInv
  OBVIOUS
<1>1. ASSUME NEW r \in Rank
      PROVE  st[r] \in Store /\ Fit(plan.late, r, st[r]) /\ Truthful(st, st[r])
  <2>1. st[r] = [shuttingDown |-> FALSE, exited |-> FALSE, exitSourceRank |-> NoRank,
                 closeState |-> "NotStarted", expired |-> FALSE,
                 shutdown |-> {}, exit |-> {}, exitAck |-> {}]
    BY DEF Init
  <2>2. st[r] \in Store
    BY <2>1 DEF Store, Phase
  <2>3. Fit(plan.late, r, st[r])
    BY <2>1 DEF Fit
  <2>4. Truthful(st, st[r])
    BY <2>1 DEF Truthful
  <2> QED BY <2>2, <2>3, <2>4
<1>2. st \in [Rank -> Store] /\ plan \in Plans /\ cut \in [Rank -> [Rank -> BOOLEAN]]
  BY Zenon, <1>1 DEF Init
<1>3. mail \in [Rank -> [Rank -> Seq(Message)]]
  BY EmptySeq DEF Init
<1>4. wait \in [Client -> WaitState]
  BY DEF Init, WaitState
<1>5. \A r \in Rank : st[r].closeState = "NotStarted" /\ ~st[r].exited
  BY Zenon DEF Init
<1>6. TypeOK
  BY <1>2, <1>3, <1>4, <1>5 DEF TypeOK
<1>7. \A p, d \in Rank : AllMeant(st, p, mail[p][d], st[p].exited)
  <2>1. \A p, d \in Rank : mail[p][d] = <<>>
    BY DEF Init
  <2> QED BY <2>1, NothingMeant
<1>8. BlameInitiator /\ NoWaitLeft
  BY Zenon, ShutdownAssumption DEF Init, BlameInitiator, NoWaitLeft
<1> QED BY <1>1, <1>6, <1>7, <1>8 DEF IInv

\* exitWait blames a rank that has closed its store, or nobody.
LEMMA Blames ==
  ASSUME NEW S, NEW s \in Store, NEW r \in Rank, Truthful(S, s)
  PROVE  /\ exitWait(s, r) \in WaitState /\ exitWait(s, r) # "pending"
         /\ exitWait(s, r) \in Rank => S[exitWait(s, r)].shuttingDown
  BY ZenonT(60), ShutdownAssumption DEF exitWait, WaitState, Peers, Truthful

\* A store that goes to a state that fits and is truthful, with messages that are
\* meant, keeps the invariant.
LEMMA BecomesInv ==
  ASSUME IInv, NEW r \in Rank, NEW s \in Store, NEW m \in [Rank -> [Rank -> Seq(Message)]],
         NEW ms \in Seq(Message), Becomes(r, s, m, ms),
         Fit(plan.late, r, s), Truthful(st, s),
         st[r].shuttingDown => s.shuttingDown, st[r].exited => s.exited,
         \A p, d \in Rank : AllMeant(st, p, m[p][d], st[p].exited),
         AllMeant(st, r, ms, s.exited)
  PROVE  IInv'
<1>1. /\ st \in [Rank -> Store] /\ wait \in [Client -> WaitState]
      /\ \A p \in Rank : st[p] \in Store /\ Fit(plan.late, p, st[p]) /\ Truthful(st, st[p])
  BY DEF IInv, TypeOK
<1>2. plan' = plan /\ cut' = cut /\ plan \in Plans /\ cut \in [Rank -> [Rank -> BOOLEAN]]
  BY DEF Becomes, IInv, TypeOK
<1>3. st' \in [Rank -> Store] /\ st'[r] = s /\ \A p \in Rank \ {r} : st'[p] = st[p]
  BY <1>1 DEF Becomes
<1>4. Later(st, st')
  BY Zenon, <1>3 DEF Later
<1>6. ASSUME NEW p \in Rank
      PROVE  st'[p] \in Store /\ Fit(plan.late, p, st'[p]) /\ Truthful(st', st'[p])
  <2>1. st'[p] \in Store /\ Fit(plan.late, p, st'[p]) /\ Truthful(st, st'[p])
    BY Zenon, <1>1, <1>3
  <2> QED BY <2>1, <1>4, TruthfulLater
<1>7. ASSUME NEW p \in Rank, NEW d \in Rank
      PROVE  mail'[p][d] \in Seq(Message) /\ AllMeant(st', p, mail'[p][d], st'[p].exited)
  <2>1. mail' = [m EXCEPT ![r] = [x \in Rank |-> IF x = r \/ cut[r][x] THEN m[r][x] ELSE m[r][x] \o ms]]
    BY DEF Becomes, Broadcast
  <2>2. st[p].exited => st'[p].exited
    BY <1>4 DEF Later
  <2>3. m[p][d] \in Seq(Message) /\ AllMeant(st', p, m[p][d], st'[p].exited)
    BY <1>4, <2>2, MeantLater
  <2>4. CASE mail'[p][d] = m[p][d]
    BY Zenon, <2>3, <2>4
  <2>5. CASE p = r /\ mail'[r][d] = m[r][d] \o ms
    <3>1. AllMeant(st', r, ms, s.exited)
      BY <1>4, MeantLater
    <3> QED BY <3>1, <2>3, <2>5, <1>3, MeantConcat
  <2> QED BY ZenonT(30), <2>1, <2>4, <2>5
<1>8. mail' \in [Rank -> [Rank -> Seq(Message)]]
  <2>1. [x \in Rank |-> IF x = r \/ cut[r][x] THEN m[r][x] ELSE m[r][x] \o ms] \in [Rank -> Seq(Message)]
    BY ConcatProperties
  <2> QED BY <2>1 DEF Becomes, Broadcast
<1>9. ASSUME NEW c \in Client
      PROVE  /\ wait'[c] \in WaitState
             /\ wait'[c] \in Rank => st'[wait'[c]].shuttingDown
             /\ st'[At[c]].exited => wait'[c] # "pending"
  <2>1. /\ exitWait(s, r) \in WaitState /\ exitWait(s, r) # "pending"
        /\ exitWait(s, r) \in Rank => st'[exitWait(s, r)].shuttingDown
    <3>1. Truthful(st', s)
      BY <1>4, TruthfulLater
    <3> QED BY <3>1, Blames
  <2>2. /\ wait[c] \in WaitState /\ (wait[c] \in Rank => st'[wait[c]].shuttingDown)
        /\ st[At[c]].exited => wait[c] # "pending"
        /\ At[c] \in Rank
    BY Zenon, <1>1, <1>4, ShutdownAssumption DEF IInv, BlameInitiator, NoWaitLeft, Later
  <2>3. CASE At[c] = r /\ wait[c] = "pending" /\ s.exited /\ ~st[r].exited
    <3>1. wait'[c] = exitWait(s, r)
      BY <2>3 DEF Becomes
    <3> QED BY Zenon, <3>1, <2>1
  <2>4. CASE ~(At[c] = r /\ wait[c] = "pending" /\ s.exited /\ ~st[r].exited)
    <3>1. wait'[c] = wait[c]
      BY <2>4 DEF Becomes
    <3>2. st'[At[c]].exited => wait[c] # "pending"
      BY Zenon, <2>2, <2>4, <1>3
    <3>3. wait'[c] \in Rank => st'[wait'[c]].shuttingDown
      BY <3>1, <2>2
    <3>4. st'[At[c]].exited => wait'[c] # "pending"
      BY <3>1, <3>2
    <3>5. wait'[c] \in WaitState
      BY Zenon, <3>1, <2>2
    <3> QED BY Zenon, <3>3, <3>4, <3>5
  <2> QED BY <2>3, <2>4
<1>10. wait' \in [Client -> WaitState]
  BY <1>9 DEF Becomes
<1>11. TypeOK'
  BY <1>2, <1>3, <1>6, <1>8, <1>10 DEF TypeOK, Fit
<1>12. BlameInitiator' /\ NoWaitLeft'
  BY <1>9 DEF BlameInitiator, NoWaitLeft
<1> QED BY ZenonT(60), <1>2, <1>6, <1>7, <1>11, <1>12 DEF IInv, Fit, Truthful, AllMeant, Meant, Peers

\* A step that only changes the fields of one store, without making it exit.
LEMMA SilentInv ==
  ASSUME IInv, NEW r \in Rank, NEW s \in Store, st' = [st EXCEPT ![r] = s],
         UNCHANGED <<plan, wait, mail, cut>>,
         Fit(plan.late, r, s), Truthful(st, s),
         st[r].shuttingDown => s.shuttingDown, s.exited = st[r].exited
  PROVE  IInv'
<1>1. mail \in [Rank -> [Rank -> Seq(Message)]] /\ wait \in [Client -> WaitState]
  BY DEF IInv, TypeOK
<1>2. Broadcast(mail, r, <<>>) = mail
  <2>1. \A x \in Rank : mail[r][x] \o <<>> = mail[r][x]
    BY <1>1, ConcatEmptySeq
  <2>2. [x \in Rank |-> IF x = r \/ cut[r][x] THEN mail[r][x] ELSE mail[r][x] \o <<>>] = mail[r]
    BY <1>1, <2>1
  <2>3. Broadcast(mail, r, <<>>) = [mail EXCEPT ![r] = mail[r]]
    BY Zenon, <2>2 DEF Broadcast
  <2> QED BY <1>1, <2>3
<1>3. [c \in Client |-> IF At[c] = r /\ wait[c] = "pending" /\ s.exited /\ ~st[r].exited
                        THEN exitWait(s, r) ELSE wait[c]] = wait
  BY <1>1
<1>4. Becomes(r, s, mail, <<>>)
  BY <1>2, <1>3 DEF Becomes
<1>5. <<>> \in Seq(Message) /\ AllMeant(st, r, <<>>, s.exited)
  BY Zenon, NothingMeant
<1>6. \A p, d \in Rank : AllMeant(st, p, mail[p][d], st[p].exited)
  BY DEF IInv
<1> QED BY Zenon, <1>1, <1>4, <1>5, <1>6, BecomesInv

\* A step that leaves the stores alone.
LEMMA SameStoresInv ==
  ASSUME IInv, UNCHANGED <<plan, st>>,
         mail' \in [Rank -> [Rank -> Seq(Message)]], cut' \in [Rank -> [Rank -> BOOLEAN]],
         wait' \in [Client -> WaitState],
         \A p, d \in Rank : AllMeant(st, p, mail'[p][d], st[p].exited),
         \A c \in Client : /\ wait'[c] \in Rank => st[wait'[c]].shuttingDown
                           /\ st[At[c]].exited => wait'[c] # "pending"
  PROVE  IInv'
<1>1. TypeOK'
  BY DEF IInv, TypeOK
<1>2. BlameInitiator' /\ NoWaitLeft'
  BY DEF BlameInitiator, NoWaitLeft
<1>3. \A r \in Rank : Fit(plan.late, r, st[r]) /\ Truthful(st, st[r])
  BY DEF IInv
<1> QED BY ZenonT(60), <1>1, <1>2, <1>3 DEF IInv, Fit, Truthful, AllMeant, Meant, Peers

LEMMA CloseInv ==
  ASSUME IInv, NEW r \in Rank, Close(r)
  PROVE  IInv'
<1> DEFINE s == [st[r] EXCEPT !.shuttingDown = TRUE]
<1>1. st[r] \in Store /\ Fit(plan.late, r, st[r]) /\ Truthful(st, st[r])
  BY DEF IInv, TypeOK
<1>2. /\ s \in Store /\ s.shuttingDown
      /\ s.exited = st[r].exited /\ s.closeState = st[r].closeState /\ s.expired = st[r].expired
      /\ s.exitSourceRank = st[r].exitSourceRank /\ s.shutdown = st[r].shutdown /\ s.exit = st[r].exit
  BY Zenon, <1>1 DEF Store
<1>3. st' = [st EXCEPT ![r] = s] /\ UNCHANGED <<plan, wait, mail, cut>>
  BY DEF Close
<1> HIDE DEF s
<1>4. Fit(plan.late, r, s) /\ Truthful(st, s)
  BY <1>1, <1>2 DEF Fit, Truthful
<1> QED BY Zenon, <1>2, <1>3, <1>4, SilentInv

LEMMA DeadlineInv ==
  ASSUME IInv, NEW r \in Rank, Deadline(r)
  PROVE  IInv'
<1> DEFINE s == [st[r] EXCEPT !.expired = TRUE]
<1>1. st[r] \in Store /\ Fit(plan.late, r, st[r]) /\ Truthful(st, st[r])
  BY DEF IInv, TypeOK
<1>2. /\ s \in Store /\ s.shuttingDown = st[r].shuttingDown
      /\ s.exited = st[r].exited /\ s.closeState = st[r].closeState
      /\ s.exitSourceRank = st[r].exitSourceRank /\ s.shutdown = st[r].shutdown /\ s.exit = st[r].exit
  BY Zenon, <1>1 DEF Store
<1>3. st' = [st EXCEPT ![r] = s] /\ UNCHANGED <<plan, wait, mail, cut>> /\ st[r].closeState \in plan.late
  BY DEF Deadline
<1> HIDE DEF s
<1>4. Fit(plan.late, r, s) /\ Truthful(st, s)
  BY <1>1, <1>2, <1>3 DEF Fit, Truthful
<1> QED BY Zenon, <1>2, <1>3, <1>4, SilentInv

LEMMA ClientInv ==
  ASSUME IInv, NEW c \in Client, DoWaitOp(c) \/ EndWait(c)
  PROVE  IInv'
<1>1. /\ wait \in [Client -> WaitState] /\ At[c] \in Rank
      /\ st[At[c]] \in Store /\ Truthful(st, st[At[c]])
  BY Zenon, ShutdownAssumption DEF IInv, TypeOK
<1>2. UNCHANGED <<plan, st, mail, cut>>
  BY DEF DoWaitOp, EndWait
<1>3. PICK a : /\ wait' = [wait EXCEPT ![c] = a] /\ a \in WaitState
               /\ a \in Rank => st[a].shuttingDown
               /\ st[At[c]].exited => a # "pending"
  <2>1. CASE EndWait(c)
    <3>1. wait' = [wait EXCEPT ![c] = "idle"] /\ "idle" \in WaitState /\ "idle" \notin Rank
      BY Zenon, <2>1, ShutdownAssumption DEF EndWait, WaitState
    <3>2. "idle" # "pending"
      OBVIOUS
    <3> QED BY Zenon, <3>1, <3>2
  <2>2. CASE DoWaitOp(c) /\ st[At[c]].exited
    <3>1. wait' = [wait EXCEPT ![c] = exitWait(st[At[c]], At[c])]
      BY <2>2 DEF DoWaitOp
    <3> DEFINE b == exitWait(st[At[c]], At[c])
    <3>2. b \in WaitState /\ b # "pending" /\ (b \in Rank => st[b].shuttingDown)
      BY <1>1, Blames
    <3> HIDE DEF b
    <3>3. wait' = [wait EXCEPT ![c] = b]
      BY Zenon, <3>1 DEF b
    <3> QED BY Zenon, <3>2, <3>3
  <2>3. CASE DoWaitOp(c) /\ ~st[At[c]].exited
    <3>1. wait' = [wait EXCEPT ![c] = "pending"] /\ "pending" \in WaitState /\ "pending" \notin Rank
      BY Zenon, <2>3, ShutdownAssumption DEF DoWaitOp, WaitState
    <3> QED BY Zenon, <3>1, <2>3
  <2> QED BY <2>1, <2>2, <2>3
<1>4. wait' \in [Client -> WaitState]
  BY <1>1, <1>3
<1>5. ASSUME NEW x \in Client
      PROVE  /\ wait'[x] \in Rank => st[wait'[x]].shuttingDown
             /\ st[At[x]].exited => wait'[x] # "pending"
  <2>1. CASE x = c
    BY <2>1, <1>1, <1>3
  <2>2. CASE x # c
    <3>1. wait'[x] = wait[x]
      BY <2>2, <1>1, <1>3
    <3> QED BY <3>1 DEF IInv, BlameInitiator, NoWaitLeft
  <2> QED BY <2>1, <2>2
<1>6. /\ mail' \in [Rank -> [Rank -> Seq(Message)]] /\ cut' \in [Rank -> [Rank -> BOOLEAN]]
      /\ \A p, d \in Rank : AllMeant(st, p, mail'[p][d], st[p].exited)
  BY <1>2 DEF IInv, TypeOK
<1> QED BY <1>2, <1>4, <1>5, <1>6, SameStoresInv

LEMMA CutInv ==
  ASSUME IInv, NEW p \in Rank, NEW d \in Rank, Cut(p, d)
  PROVE  IInv'
<1>1. /\ mail \in [Rank -> [Rank -> Seq(Message)]] /\ cut \in [Rank -> [Rank -> BOOLEAN]]
      /\ \A x, y \in Rank : AllMeant(st, x, mail[x][y], st[x].exited)
  BY DEF IInv, TypeOK
<1>2. PICK k \in 0..Len(mail[p][d]) : mail' = [mail EXCEPT ![p][d] = SubSeq(mail[p][d], 1, k)]
  BY Zenon DEF Cut
<1>3. SubSeq(mail[p][d], 1, k) \in Seq(Message) /\ AllMeant(st, p, SubSeq(mail[p][d], 1, k), st[p].exited)
  BY <1>1, MeantPrefix
<1>4. UNCHANGED <<plan, st, wait>> /\ cut' \in [Rank -> [Rank -> BOOLEAN]]
  BY <1>1 DEF Cut
<1>5. mail' \in [Rank -> [Rank -> Seq(Message)]]
  BY <1>1, <1>2, <1>3
<1>6. ASSUME NEW x \in Rank, NEW y \in Rank PROVE AllMeant(st, x, mail'[x][y], st[x].exited)
  <2>1. CASE x = p /\ y = d
    <3>1. mail'[p][d] = SubSeq(mail[p][d], 1, k)
      BY <1>1, <1>2
    <3> QED BY Zenon, <2>1, <3>1, <1>3
  <2>2. CASE ~(x = p /\ y = d)
    <3>1. mail'[x][y] = mail[x][y]
      BY <2>2, <1>1, <1>2
    <3> QED BY Zenon, <3>1, <1>1
  <2> QED BY <2>1, <2>2
<1>7. /\ wait' \in [Client -> WaitState]
      /\ \A c \in Client : /\ wait'[c] \in Rank => st[wait'[c]].shuttingDown
                           /\ st[At[c]].exited => wait'[c] # "pending"
  BY <1>4 DEF IInv, TypeOK, BlameInitiator, NoWaitLeft
<1> QED BY <1>4, <1>5, <1>6, <1>7, SameStoresInv

----------------------------------------------------------------------------
(***************************************************************************)
(* runCloseStateMachine.                                                   *)
(***************************************************************************)

\* What the phases hand on: fields that r may take and messages that it may send.
Ready(r, w) ==
  /\ w \in [s : Store, out : Seq(Message)]
  /\ Fit(plan.late, r, w.s) /\ Truthful(st, w.s)
  /\ w.s.shuttingDown /\ (st[r].exited => w.s.exited)
  /\ AllMeant(st, r, w.out, w.s.exited)

LEMMA SignalMeant ==
  ASSUME NEW r \in Rank, NEW type \in {"shutdown", "exit", "exitAck"},
         NEW origin \in Rank \cup {NoRank}, NEW e,
         Meant(st, r, [type |-> type, origin |-> origin], e)
  PROVE  Signal(type, origin) \in Seq(Message) /\ AllMeant(st, r, Signal(type, origin), e)
<1> DEFINE m == [type |-> type, origin |-> origin]
<1>1. m \in Message
  BY DEF Message
<1>2. Signal(type, origin) = <<m>>
  BY DEF Signal
<1>3. Meant(st, r, m, e)
  OBVIOUS
<1> HIDE DEF m
<1>4. <<m>> \in Seq(Message) /\ Len(<<m>>) = 1 /\ <<m>>[1] = m
  BY <1>1
<1>5. AllMeant(st, r, <<m>>, e)
  BY <1>3, <1>4 DEF AllMeant
<1> QED BY Zenon, <1>2, <1>4, <1>5

\* The next phase and its message.
LEMMA ReadyNext ==
  ASSUME NEW r \in Rank, NEW w, Ready(r, w), NEW s \in Store, NEW ms \in Seq(Message),
         Fit(plan.late, r, s), Truthful(st, s), s.shuttingDown, w.s.exited => s.exited,
         AllMeant(st, r, ms, s.exited)
  PROVE  Ready(r, [s |-> s, out |-> w.out \o ms])
<1>1. w.out \in Seq(Message) /\ AllMeant(st, r, w.out, w.s.exited) /\ (st[r].exited => w.s.exited)
  BY SMTT(30) DEF Ready
<1>2. AllMeant(st, r, w.out, s.exited)
  BY SMTT(30), <1>1 DEF AllMeant, Meant
<1>3. w.out \o ms \in Seq(Message) /\ AllMeant(st, r, w.out \o ms, s.exited)
  BY <1>1, <1>2, MeantConcat
<1> DEFINE u == [s |-> s, out |-> w.out \o ms]
<1>4. u \in [s : Store, out : Seq(Message)] /\ u.s = s /\ u.out = w.out \o ms
  BY <1>3
<1> HIDE DEF u
<1>5. st[r].exited => s.exited
  BY <1>1
<1>6. Ready(r, u)
  BY <1>3, <1>4, <1>5 DEF Ready
<1> QED BY <1>6 DEF u

LEMMA StartReady ==
  ASSUME IInv, NEW r \in Rank, st[r].shuttingDown, NEW w, Ready(r, w)
  PROVE  Ready(r, StartShutdown(r, w))
<1>1. CASE w.s.closeState # "NotStarted"
  BY <1>1 DEF StartShutdown
<1>2. CASE w.s.closeState = "NotStarted"
  <2> DEFINE old == w.s
             s == [old EXCEPT !.closeState = "WaitShutdownAck", !.expired = FALSE,
                              !.exitSourceRank = IF @ = NoRank THEN r ELSE @]
  <2>1. StartShutdown(r, w) = [s |-> s, out |-> w.out \o Signal("shutdown", r)]
    BY <1>2 DEF StartShutdown
  <2>2. old \in Store /\ old.shuttingDown /\ Truthful(st, old)
    BY DEF Ready
  <2> HIDE DEF old
  <2>3. /\ s \in Store /\ s.closeState = "WaitShutdownAck" /\ ~s.expired
        /\ s.shuttingDown = old.shuttingDown /\ s.exited = old.exited
        /\ s.exitSourceRank = (IF old.exitSourceRank = NoRank THEN r ELSE old.exitSourceRank)
        /\ s.shutdown = old.shutdown /\ s.exit = old.exit
    BY Zenon, <2>2 DEF Store, Phase
  <2> HIDE DEF s
  <2>4. Fit(plan.late, r, s) /\ Truthful(st, s)
    BY Zenon, <2>2, <2>3, ShutdownAssumption DEF Fit, Truthful
  <2>5. Signal("shutdown", r) \in Seq(Message) /\ AllMeant(st, r, Signal("shutdown", r), s.exited)
    <3>1. Meant(st, r, [type |-> "shutdown", origin |-> r], s.exited)
      BY DEF Meant
    <3> QED BY <3>1, SignalMeant
  <2>6. w.s.exited => s.exited
    BY <2>3 DEF old
  <2>7. Ready(r, [s |-> s, out |-> w.out \o Signal("shutdown", r)])
    BY Zenon, <2>2, <2>3, <2>4, <2>5, <2>6, ReadyNext
  <2> QED BY Zenon, <2>1, <2>7
<1> QED BY <1>1, <1>2

LEMMA EndShutdownReady ==
  ASSUME IInv, NEW r \in Rank, st[r].shuttingDown, NEW w, Ready(r, w)
  PROVE  Ready(r, EndShutdown(r, w))
<1> DEFINE leaves == w.s.closeState = "WaitShutdownAck" /\ (Peers(r) \subseteq w.s.shutdown \/ w.s.expired)
<1>1. CASE ~leaves
  BY <1>1 DEF EndShutdown
<1>2. CASE leaves
  <2> DEFINE old == w.s
             s == [old EXCEPT !.closeState = "WaitExit", !.expired = FALSE, !.exited = TRUE]
             ms == IF old.exited THEN <<>> ELSE Signal("exit", old.exitSourceRank)
  <2>1. EndShutdown(r, w) = [s |-> s, out |-> w.out \o ms]
    BY <1>2 DEF EndShutdown
  <2>2. /\ old \in Store /\ old.shuttingDown /\ Truthful(st, old) /\ Fit(plan.late, r, old)
        /\ old.closeState = "WaitShutdownAck" /\ (Peers(r) \subseteq old.shutdown \/ old.expired)
    BY <1>2 DEF Ready
  <2> HIDE DEF old
  <2>3. /\ s \in Store /\ s.closeState = "WaitExit" /\ ~s.expired /\ s.exited
        /\ s.shuttingDown = old.shuttingDown /\ s.exitSourceRank = old.exitSourceRank
        /\ s.shutdown = old.shutdown /\ s.exit = old.exit
    BY Zenon, <2>2 DEF Store, Phase
  <2> HIDE DEF s
  <2>4. Fit(plan.late, r, s) /\ Truthful(st, s)
    BY <2>2, <2>3 DEF Fit, Truthful
  <2>5. ms \in Seq(Message) /\ AllMeant(st, r, ms, s.exited)
    <3>1. CASE old.exited
      <4>1. ms = <<>>
        BY <3>1
      <4> QED BY Zenon, <4>1, NothingMeant
    <3>2. CASE ~old.exited
      <4>1. old.exitSourceRank \in Rank /\ st[old.exitSourceRank].shuttingDown
        BY <2>2 DEF Fit, Truthful, Store
      <4>2. Meant(st, r, [type |-> "exit", origin |-> old.exitSourceRank], s.exited)
        BY <4>1, <2>3 DEF Meant
      <4>3. /\ Signal("exit", old.exitSourceRank) \in Seq(Message)
            /\ AllMeant(st, r, Signal("exit", old.exitSourceRank), s.exited)
        BY <4>1, <4>2, SignalMeant
      <4>4. ms = Signal("exit", old.exitSourceRank)
        BY <3>2
      <4> QED BY Zenon, <4>3, <4>4
    <3> QED BY <3>1, <3>2
  <2> HIDE DEF ms
  <2>6. w.s.exited => s.exited
    BY SMTT(30), <2>3
  <2>7. Ready(r, [s |-> s, out |-> w.out \o ms])
    BY Zenon, <2>2, <2>3, <2>4, <2>5, <2>6, ReadyNext
  <2> QED BY Zenon, <2>1, <2>7
<1> QED BY <1>1, <1>2

LEMMA EndExitReady ==
  ASSUME IInv, NEW r \in Rank, st[r].shuttingDown, NEW w, Ready(r, w)
  PROVE  Ready(r, EndExit(r, w))
<1> DEFINE leaves == w.s.closeState = "WaitExit" /\ (Peers(r) \subseteq w.s.exit \/ w.s.expired)
<1>1. CASE ~leaves
  BY <1>1 DEF EndExit
<1>2. CASE leaves
  <2> DEFINE old == w.s
             s == [old EXCEPT !.closeState = "WaitExitAck", !.expired = FALSE]
  <2>1. EndExit(r, w) = [s |-> s, out |-> w.out \o Signal("exitAck", NoRank)]
    BY <1>2 DEF EndExit
  <2>2. /\ old \in Store /\ old.shuttingDown /\ Truthful(st, old) /\ Fit(plan.late, r, old)
        /\ old.closeState = "WaitExit" /\ (Peers(r) \subseteq old.exit \/ old.expired)
    BY <1>2 DEF Ready
  <2> HIDE DEF old
  <2>3. /\ s \in Store /\ s.closeState = "WaitExitAck" /\ ~s.expired /\ s.exited = old.exited
        /\ s.shuttingDown = old.shuttingDown /\ s.exitSourceRank = old.exitSourceRank
        /\ s.shutdown = old.shutdown /\ s.exit = old.exit
    BY Zenon, <2>2 DEF Store, Phase
  <2> HIDE DEF s
  <2>4. Fit(plan.late, r, s) /\ Truthful(st, s)
    BY <2>2, <2>3 DEF Fit, Truthful
  <2>5. Signal("exitAck", NoRank) \in Seq(Message) /\ AllMeant(st, r, Signal("exitAck", NoRank), s.exited)
    <3>1. Meant(st, r, [type |-> "exitAck", origin |-> NoRank], s.exited)
      BY DEF Meant
    <3> QED BY <3>1, SignalMeant
  <2>6. w.s.exited => s.exited
    BY <2>3 DEF old
  <2>7. Ready(r, [s |-> s, out |-> w.out \o Signal("exitAck", NoRank)])
    BY Zenon, <2>2, <2>3, <2>4, <2>5, <2>6, ReadyNext
  <2> QED BY Zenon, <2>1, <2>7
<1> QED BY <1>1, <1>2

LEMMA EndExitAckReady ==
  ASSUME IInv, NEW r \in Rank, NEW w, Ready(r, w)
  PROVE  Ready(r, EndExitAck(r, w))
<1> DEFINE leaves == w.s.closeState = "WaitExitAck" /\ (Peers(r) \subseteq w.s.exitAck \/ w.s.expired)
<1>1. CASE ~leaves
  BY <1>1 DEF EndExitAck
<1>2. CASE leaves
  <2> DEFINE u == [w EXCEPT !.s.closeState = "Done"]
  <2>1. EndExitAck(r, w) = u
    BY <1>2 DEF EndExitAck
  <2>2. w \in [s : Store, out : Seq(Message)] /\ w.s \in Store
    BY DEF Ready
  <2>3. u \in [s : Store, out : Seq(Message)] /\ u.out = w.out /\ u.s = [w.s EXCEPT !.closeState = "Done"]
    <3>1. [w.s EXCEPT !.closeState = "Done"] \in Store
      BY <2>2 DEF Store
    <3> QED BY <2>2, <3>1
  <2> HIDE DEF u
  <2>4. /\ u.s.closeState = "Done" /\ u.s.expired = w.s.expired /\ u.s.exited = w.s.exited
        /\ u.s.shuttingDown = w.s.shuttingDown /\ u.s.exitSourceRank = w.s.exitSourceRank
        /\ u.s.shutdown = w.s.shutdown /\ u.s.exit = w.s.exit
    BY <2>2, <2>3 DEF Store
  <2>5. Fit(plan.late, r, u.s) /\ Truthful(st, u.s)
    BY <1>2, <2>4 DEF Ready, Fit, Truthful
  <2>6. AllMeant(st, r, u.out, u.s.exited)
    BY <2>3, <2>4 DEF Ready
  <2>7. Ready(r, u)
    BY SMTT(30), <2>3, <2>4, <2>5, <2>6 DEF Ready
  <2> QED BY Zenon, <2>1, <2>7
<1> QED BY <1>1, <1>2

LEMMA RunCloseInv ==
  ASSUME IInv, NEW r \in Rank, RunCloseStateMachine(r)
  PROVE  IInv'
<1> DEFINE w0 == [s |-> st[r], out |-> <<>>]
           w1 == StartShutdown(r, w0)
           w2 == EndShutdown(r, w1)
           w3 == EndExit(r, w2)
           w4 == EndExitAck(r, w3)
<1>1. st[r].shuttingDown /\ Becomes(r, w4.s, mail, w4.out)
  BY SMTT(30) DEF RunCloseStateMachine
<1>2. Ready(r, w0)
  <2>1. st[r] \in Store /\ Fit(plan.late, r, st[r]) /\ Truthful(st, st[r])
    BY DEF IInv, TypeOK
  <2>2. <<>> \in Seq(Message) /\ AllMeant(st, r, <<>>, st[r].exited)
    BY Zenon, NothingMeant
  <2>3. w0 \in [s : Store, out : Seq(Message)] /\ w0.s = st[r] /\ w0.out = <<>>
    BY <2>1, <2>2
  <2> HIDE DEF w0
  <2> QED BY <1>1, <2>1, <2>2, <2>3 DEF Ready
<1> HIDE DEF w0
<1>3. Ready(r, w1)
  BY <1>1, <1>2, StartReady
<1> HIDE DEF w1
<1>4. Ready(r, w2)
  BY <1>1, <1>3, EndShutdownReady
<1> HIDE DEF w2
<1>5. Ready(r, w3)
  BY <1>1, <1>4, EndExitReady
<1> HIDE DEF w3
<1>6. Ready(r, w4)
  BY <1>5, EndExitAckReady
<1> HIDE DEF w4
<1>7. /\ w4.s \in Store /\ w4.out \in Seq(Message)
      /\ Fit(plan.late, r, w4.s) /\ Truthful(st, w4.s)
      /\ w4.s.shuttingDown /\ (st[r].exited => w4.s.exited)
      /\ AllMeant(st, r, w4.out, w4.s.exited)
  BY <1>6 DEF Ready
<1>8. /\ mail \in [Rank -> [Rank -> Seq(Message)]]
      /\ \A p, d \in Rank : AllMeant(st, p, mail[p][d], st[p].exited)
  BY DEF IInv, TypeOK
<1> QED BY Zenon, <1>1, <1>7, <1>8, BecomesInv

----------------------------------------------------------------------------
(***************************************************************************)
(* processMessage.                                                         *)
(***************************************************************************)

\* The message that is taken is meant, and so are those that stay.
LEMMA TakenMeant ==
  ASSUME IInv, NEW p \in Rank, NEW d \in Rank, mail[p][d] # <<>>
  PROVE  /\ Head(mail[p][d]) \in Message /\ Meant(st, p, Head(mail[p][d]), st[p].exited)
         /\ Taken(p, d) \in [Rank -> [Rank -> Seq(Message)]]
         /\ \A x, y \in Rank : AllMeant(st, x, Taken(p, d)[x][y], st[x].exited)
<1>1. /\ mail \in [Rank -> [Rank -> Seq(Message)]]
      /\ \A x, y \in Rank : AllMeant(st, x, mail[x][y], st[x].exited)
  BY ZenonT(60) DEF IInv, TypeOK
<1>2. /\ Head(mail[p][d]) \in Message /\ Meant(st, p, Head(mail[p][d]), st[p].exited)
      /\ Tail(mail[p][d]) \in Seq(Message) /\ AllMeant(st, p, Tail(mail[p][d]), st[p].exited)
  BY <1>1, MeantTail
<1>3. Taken(p, d) = [mail EXCEPT ![p][d] = Tail(mail[p][d])]
  BY DEF Taken
<1>4. Taken(p, d) \in [Rank -> [Rank -> Seq(Message)]]
  BY <1>1, <1>2, <1>3
<1>5. ASSUME NEW x \in Rank, NEW y \in Rank PROVE AllMeant(st, x, Taken(p, d)[x][y], st[x].exited)
  <2>1. CASE x = p /\ y = d
    <3>1. Taken(p, d)[p][d] = Tail(mail[p][d])
      BY <1>1, <1>3
    <3> QED BY Zenon, <2>1, <3>1, <1>2
  <2>2. CASE ~(x = p /\ y = d)
    <3>1. Taken(p, d)[x][y] = mail[x][y]
      BY SMTT(30), <2>2, <1>1, <1>3
    <3> QED BY Zenon, <3>1, <1>1
  <2> QED BY <2>1, <2>2
<1> QED BY Zenon, <1>2, <1>4, <1>5

LEMMA OnShutdownInv ==
  ASSUME IInv, NEW p \in Rank, NEW d \in Rank, OnShutdown(p, d)
  PROVE  IInv'
<1> DEFINE m == Head(mail[p][d])
           old == st[d]
           s == [old EXCEPT !.shutdown = @ \cup {p},
                            !.exitSourceRank = IF @ = NoRank THEN m.origin ELSE @]
<1>1. mail[p][d] # <<>> /\ m.type = "shutdown" /\ Becomes(d, s, Taken(p, d), <<>>)
  BY DEF OnShutdown, Receives
<1>2. m \in Message /\ Meant(st, p, m, st[p].exited)
  BY <1>1, TakenMeant
<1>3. old \in Store /\ Fit(plan.late, d, old) /\ Truthful(st, old)
  BY DEF IInv, TypeOK
<1> HIDE DEF m, old
<1>4. m.origin \in Rank /\ st[m.origin].shuttingDown /\ st[p].shuttingDown
  BY <1>1, <1>2 DEF Meant
<1>5. /\ s \in Store /\ s.closeState = old.closeState /\ s.expired = old.expired
      /\ s.shuttingDown = old.shuttingDown /\ s.exited = old.exited
      /\ s.exitSourceRank = (IF old.exitSourceRank = NoRank THEN m.origin ELSE old.exitSourceRank)
      /\ s.shutdown = old.shutdown \cup {p} /\ s.exit = old.exit
  BY ZenonT(60), <1>3, <1>4 DEF Store
<1> HIDE DEF s
<1>6. Truthful(st, s)
  BY <1>3, <1>4, <1>5 DEF Truthful
<1>7. Fit(plan.late, d, s)
  BY ZenonT(60), <1>3, <1>4, <1>5, ShutdownAssumption DEF Fit
<1>8. /\ Taken(p, d) \in [Rank -> [Rank -> Seq(Message)]]
      /\ \A x, y \in Rank : AllMeant(st, x, Taken(p, d)[x][y], st[x].exited)
  BY <1>1, TakenMeant
<1>9. (st[d].shuttingDown => s.shuttingDown) /\ (st[d].exited => s.exited)
  BY <1>5 DEF old
<1> QED BY Zenon, <1>1, <1>5, <1>6, <1>7, <1>8, <1>9, NothingMeant, BecomesInv

LEMMA OnExitInv ==
  ASSUME IInv, NEW p \in Rank, NEW d \in Rank, OnExit(p, d)
  PROVE  IInv'
<1> DEFINE m == Head(mail[p][d])
           old == st[d]
           known == [old EXCEPT !.exit = @ \cup {p}]
           s == [known EXCEPT !.exited = TRUE,
                   !.exitSourceRank = IF @ = NoRank /\ ~known.shuttingDown THEN m.origin ELSE @]
<1>1. /\ mail[p][d] # <<>> /\ m.type = "exit"
      /\ old.exited => Becomes(d, known, Taken(p, d), <<>>)
      /\ ~old.exited => Becomes(d, s, Taken(p, d), Signal("exit", m.origin))
  BY DEF OnExit, Receives
<1>2. m \in Message /\ Meant(st, p, m, st[p].exited)
  BY <1>1, TakenMeant
<1>3. old \in Store /\ Fit(plan.late, d, old) /\ Truthful(st, old)
  BY DEF IInv, TypeOK
<1>4. /\ Taken(p, d) \in [Rank -> [Rank -> Seq(Message)]]
      /\ \A x, y \in Rank : AllMeant(st, x, Taken(p, d)[x][y], st[x].exited)
  BY <1>1, TakenMeant
<1> HIDE DEF m
<1>5. m.origin \in Rank /\ st[m.origin].shuttingDown /\ st[p].exited
  BY <1>1, <1>2 DEF Meant
<1> HIDE DEF old
<1>6. /\ known \in Store /\ known.closeState = old.closeState /\ known.expired = old.expired
      /\ known.shuttingDown = old.shuttingDown /\ known.exited = old.exited
      /\ known.exitSourceRank = old.exitSourceRank
      /\ known.shutdown = old.shutdown /\ known.exit = old.exit \cup {p}
  BY <1>3 DEF Store
<1> HIDE DEF known
<1>7. Fit(plan.late, d, known) /\ Truthful(st, known)
  BY <1>3, <1>5, <1>6 DEF Fit, Truthful
<1>8. /\ s \in Store /\ s.closeState = known.closeState /\ s.expired = known.expired
      /\ s.shuttingDown = known.shuttingDown /\ s.exited
      /\ s.exitSourceRank = (IF known.exitSourceRank = NoRank /\ ~known.shuttingDown
                             THEN m.origin ELSE known.exitSourceRank)
      /\ s.shutdown = known.shutdown /\ s.exit = known.exit
  BY Zenon, <1>5, <1>6 DEF Store
<1> HIDE DEF s
<1>9. Fit(plan.late, d, s) /\ Truthful(st, s)
  BY Zenon, <1>5, <1>7, <1>8, ShutdownAssumption DEF Fit, Truthful
<1>10. CASE old.exited
  <2>1. (st[d].shuttingDown => known.shuttingDown) /\ (st[d].exited => known.exited)
    BY <1>6 DEF old
  <2> QED BY Zenon, <2>1, <1>1, <1>4, <1>6, <1>7, <1>10, NothingMeant, BecomesInv
<1>11. CASE ~old.exited
  <2>1. (st[d].shuttingDown => s.shuttingDown) /\ (st[d].exited => s.exited)
    BY <1>6, <1>8 DEF old
  <2>2. Meant(st, d, [type |-> "exit", origin |-> m.origin], s.exited)
    BY SMTT(30), <1>5, <1>8 DEF Meant
  <2>3. Signal("exit", m.origin) \in Seq(Message) /\ AllMeant(st, d, Signal("exit", m.origin), s.exited)
    BY <1>5, <2>2, SignalMeant
  <2> QED BY ZenonT(60), <2>1, <2>3, <1>1, <1>4, <1>8, <1>9, <1>11, BecomesInv
<1> QED BY <1>10, <1>11

LEMMA OnExitAckInv ==
  ASSUME IInv, NEW p \in Rank, NEW d \in Rank, OnExitAck(p, d)
  PROVE  IInv'
<1> DEFINE old == st[d]
           s == [old EXCEPT !.exitAck = @ \cup {p}]
<1>1. mail[p][d] # <<>> /\ Becomes(d, s, Taken(p, d), <<>>)
  BY DEF OnExitAck, Receives
<1>2. old \in Store /\ Fit(plan.late, d, old) /\ Truthful(st, old)
  BY DEF IInv, TypeOK
<1> HIDE DEF old
<1>3. /\ s \in Store /\ s.closeState = old.closeState /\ s.expired = old.expired
      /\ s.shuttingDown = old.shuttingDown /\ s.exited = old.exited
      /\ s.exitSourceRank = old.exitSourceRank
      /\ s.shutdown = old.shutdown /\ s.exit = old.exit
  BY <1>2 DEF Store
<1> HIDE DEF s
<1>4. Fit(plan.late, d, s) /\ Truthful(st, s)
  BY <1>2, <1>3 DEF Fit, Truthful
<1>5. /\ Taken(p, d) \in [Rank -> [Rank -> Seq(Message)]]
      /\ \A x, y \in Rank : AllMeant(st, x, Taken(p, d)[x][y], st[x].exited)
  BY <1>1, TakenMeant
<1>6. (st[d].shuttingDown => s.shuttingDown) /\ (st[d].exited => s.exited)
  BY <1>3 DEF old
<1> QED BY Zenon, <1>1, <1>3, <1>4, <1>5, <1>6, NothingMeant, BecomesInv

----------------------------------------------------------------------------
(***************************************************************************)
(* What follows.                                                           *)
(***************************************************************************)

LEMMA NextInv == IInv /\ [Next]_vars => IInv'
<1> SUFFICES ASSUME IInv, [Next]_vars PROVE IInv'
  OBVIOUS
<1>1. CASE \E r \in Rank : Close(r) \/ RunCloseStateMachine(r) \/ Deadline(r)
  BY <1>1, CloseInv, RunCloseInv, DeadlineInv
<1>2. CASE \E c \in Client : DoWaitOp(c) \/ EndWait(c)
  BY <1>2, ClientInv
<1>3. CASE \E p, d \in Rank : Process(p, d) \/ Cut(p, d)
  BY <1>3, OnShutdownInv, OnExitInv, OnExitAckInv, CutInv DEF Process
<1>4. CASE UNCHANGED vars
  <2>1. UNCHANGED <<plan, st, wait, mail, cut>>
    BY <1>4 DEF vars
  <2>2. /\ mail' \in [Rank -> [Rank -> Seq(Message)]] /\ cut' \in [Rank -> [Rank -> BOOLEAN]]
        /\ wait' \in [Client -> WaitState]
        /\ \A p, d \in Rank : AllMeant(st, p, mail'[p][d], st[p].exited)
        /\ \A c \in Client : /\ wait'[c] \in Rank => st[wait'[c]].shuttingDown
                             /\ st[At[c]].exited => wait'[c] # "pending"
    BY <2>1 DEF IInv, TypeOK, BlameInitiator, NoWaitLeft
  <2> QED BY <2>1, <2>2, SameStoresInv
<1> QED BY <1>1, <1>2, <1>3, <1>4 DEF Next

LEMMA Invariance == Spec => []IInv
  BY InitInv, NextInv, PTL DEF Spec

\* A store that is past NotStarted knows the rank that it names when it exits: the
\* exitSourceRank that runCloseStateMachine dereferences always has a value.
THEOREM SourceKnown == Spec => []TypeOK
<1>1. IInv => TypeOK
  BY DEF IInv
<1> QED BY <1>1, Invariance, PTL

\* A wait that fails blames a rank whose own store was closed, however many ranks
\* passed the news on (exitWait, messageShutdown, messageExit).
THEOREM BlamesInitiator == Spec => []BlameInitiator
<1>1. IInv => BlameInitiator
  BY DEF IInv
<1> QED BY <1>1, Invariance, PTL

\* A store that has exited leaves no wait behind, whatever threads call it at that
\* moment (doWaitOp, exitWait).
THEOREM WaitsEnd == Spec => []NoWaitLeft
<1>1. IInv => NoWaitLeft
  BY DEF IInv
<1> QED BY <1>1, Invariance, PTL

\* For any ranks and paths between them: a store closes its connections, and so drops
\* what it should pass on, only when every rank has exited, unless its deadline for
\* that may pass, and only when every store has been closed while only the last
\* deadline may pass (runCloseStateMachine).
THEOREM ClosesLast == Spec => []GracefulExit
<1>1. IInv => GracefulExit
  <2> SUFFICES ASSUME IInv, NEW r \in Rank, NEW p \in Rank, closed(r)
               PROVE  /\ "WaitExit" \notin plan.late => st[p].exited
                      /\ plan.late \subseteq {"WaitExitAck"} => st[p].shuttingDown
    BY DEF GracefulExit
  <2>1. Fit(plan.late, r, st[r]) /\ Truthful(st, st[r]) /\ st[r].closeState = "Done"
    BY DEF IInv, closed
  <2>2. CASE p = r
    BY <2>1, <2>2 DEF Fit
  <2>3. CASE p # r
    BY <2>1, <2>3 DEF Fit, Truthful, Peers
  <2> QED BY <2>2, <2>3
<1> QED BY <1>1, Invariance, PTL
=============================================================================
