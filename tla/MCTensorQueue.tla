-------------------------------- MODULE MCTensorQueue --------------------------------
(***************************************************************************)
(* Instances of TensorQueue for TLC.                                        *)
(***************************************************************************)
EXTENDS TensorQueue

put(id)        == [op |-> "put", id |-> id, txn |-> 0, cuda |-> FALSE]
cudaPut(id)    == [op |-> "put", id |-> id, txn |-> 0, cuda |-> TRUE]
putIn(txn, id) == [op |-> "put", id |-> id, txn |-> txn, cuda |-> FALSE]
commit(txn)    == [op |-> "commit", id |-> txn, txn |-> 0, cuda |-> FALSE]
cancel(txn)    == [op |-> "cancel", id |-> txn, txn |-> 0, cuda |-> FALSE]
get(id)        == [op |-> "get", id |-> id, txn |-> 0, cuda |-> FALSE]
getTimeout(id) == [op |-> "getTimeout", id |-> id, txn |-> 0, cuda |-> FALSE]

Single(small, a, b, c) ==
  [multicast |-> FALSE, locations |-> <<0>>, small |-> small, calls |-> <<a, b, c>>]

(* Client 1 runs on rank 0, where the queue is; clients 2 and 3 elsewhere. *)
OneEach == <<0, 1, 2>>

(* A transaction with a small and a large tensor, and puts before and after. *)
Mixed == Single({2, 4}, <<get(11)>>, <<put(1), putIn(9, 2), putIn(9, 3), commit(9), put(4)>>,
                <<put(5)>>)

(* A cancelled transaction whose tensor is still being read. *)
Cancelled == Single({2}, <<get(12)>>, <<putIn(9, 1), cancel(9), put(2), put(3)>>, <<get(11)>>)

(* CUDA puts, a put and a commit that queue behind them. *)
Cuda == Single({2}, <<get(11)>>, <<cudaPut(1), put(2), cudaPut(4), putIn(9, 3), commit(9)>>, <<>>)

(* Two remote gets with timeouts compete with a local one. *)
Timeouts == Single({1}, <<put(1), getTimeout(11)>>, <<getTimeout(12), put(2)>>, <<getTimeout(13)>>)

(* A copy on every rank; the transaction comes from the last. *)
Multicast ==
  [multicast |-> TRUE, locations |-> <<0, 1, 2>>, small |-> {2},
   calls |-> <<<<get(11)>>, <<get(12), get(13)>>, <<putIn(9, 1), putIn(9, 2), commit(9)>>>>]

OnlyMulticast == {Multicast}

(* Two threads of rank 1 put CUDA tensors. *)
TwoThreads == <<0, 1, 1>>
CudaThreads == {Single({}, <<>>, <<cudaPut(1)>>, <<cudaPut(2)>>)}

AllPlans == {Mixed, Cancelled, Cuda, Timeouts, Multicast}
================================================================================
