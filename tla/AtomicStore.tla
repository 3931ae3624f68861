---------------------------- MODULE AtomicStore ----------------------------
(***************************************************************************)
(* What the key-value operations of the store promise: every call takes    *)
(* effect at one moment between the call and the delivery of its answer,   *)
(* a get or wait not before its key is set, and the calls of a rank do not *)
(* overtake the sets of the same rank to the same key, even the sets whose *)
(* callers have given up.                                                  *)
(***************************************************************************)
EXTENDS Naturals, Sequences

CONSTANTS Rank, Key, Value, NoValue, NoAnswer

VARIABLES kv,      \* kv[k]: the value of key k, or NoValue
          calls    \* calls[r][i]: the i-th call of rank r, with the answer the
                   \* store gave (applied) and the one that arrived (seen)

vars == <<kv, calls>>

Init ==
  /\ kv = [k \in Key |-> NoValue]
  /\ calls = [r \in Rank |-> <<>>]

\* Calls cs with the new call of rank r.
Called(cs, r, type, k, v) ==
  [cs EXCEPT ![r] = Append(@, [type |-> type, key |-> k, value |-> v,
                               applied |-> NoAnswer, seen |-> NoAnswer])]

\* Calls cs after the calls in S have been answered: a get with value, any other with
\* other.  The answers of local calls, which need no delivery, are seen at once.
Answered(cs, S, value, other, local) ==
  [r \in Rank |-> [i \in DOMAIN cs[r] |->
    LET answer == IF cs[r][i].type = "get" THEN value ELSE other
    IN  IF <<r, i>> \in S
        THEN [cs[r][i] EXCEPT !.applied = answer, !.seen = IF r = local THEN answer ELSE @]
        ELSE cs[r][i]]]

\* Calls of cs that wait for key k.
Waiting(cs, k) ==
  {x \in UNION {{r} \X DOMAIN cs[r] : r \in Rank} :
     /\ cs[x[1]][x[2]].applied = NoAnswer /\ cs[x[1]][x[2]].key = k
     /\ cs[x[1]][x[2]].type \in {"get", "wait"}}

\* The call i of rank r in cs takes effect at the rank local.
Takes(cs, r, i, local) ==
  LET c == cs[r][i] IN
  /\ c.applied = NoAnswer
  /\ \A j \in 1..i - 1 :
       cs[r][j].type = "set" /\ cs[r][j].key = c.key => cs[r][j].applied # NoAnswer
  /\ \/ /\ c.type = "set"
        /\ kv' = [kv EXCEPT ![c.key] = c.value]
        /\ \E S \in SUBSET Waiting(cs, c.key) :
             calls' = Answered(cs, S \cup {<<r, i>>}, c.value, "ok", local)
     \/ /\ c.type \in {"get", "wait"} /\ kv[c.key] # NoValue
        /\ calls' = Answered(cs, {<<r, i>>}, kv[c.key], "ok", local)
        /\ UNCHANGED kv
     \/ /\ c.type = "check"
        /\ calls' = Answered(cs, {<<r, i>>}, NoValue,
                             IF kv[c.key] # NoValue THEN "true" ELSE "false", local)
        /\ UNCHANGED kv

\* A call, which may take effect at once if its key is here.
Call(cs, r, type, k, v) ==
  LET new == Called(cs, r, type, k, v) IN
  \/ calls' = new /\ UNCHANGED kv
  \/ Takes(new, r, Len(new[r]), r)

\* The answer of a call arrives.
Deliver(cs, r, i) ==
  /\ cs[r][i].seen = NoAnswer /\ cs[r][i].applied # NoAnswer
  /\ calls' = [cs EXCEPT ![r][i].seen = cs[r][i].applied]
  /\ UNCHANGED kv

Next ==
  LET cs == calls IN
  \E r \in Rank :
    \/ \E k \in Key, v \in Value : Call(cs, r, "set", k, v)
    \/ \E type \in {"get", "wait", "check"}, k \in Key : Call(cs, r, type, k, NoValue)
    \/ \E i \in DOMAIN cs[r] : Deliver(cs, r, i) \/ \E local \in Rank : Takes(cs, r, i, local)

Spec == Init /\ [][Next]_vars
=============================================================================
