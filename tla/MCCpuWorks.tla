---------------------------- MODULE MCCpuWorks ----------------------------
(* Programs of few operations on two, three and four ranks.  With           *)
(* maxConcurrency 1 or 2 an index is used again at once or after one        *)
(* operation, where the program has 16 of them.                             *)
EXTENDS CpuWorks

Run(nodes, max, ops) == [nodes |-> nodes, maxConcurrency |-> max, ops |-> ops, queueThread |-> FALSE]

\* The same, with a thread of its own for the queues.
TwoThreads(p) == [p EXCEPT !.queueThread = TRUE]
Op(kind, at) == [kind |-> kind, at |-> at, parts |-> <<>>, cuda |-> {}, list |-> {}, chunks |-> 2]
Barrier == Op("Barrier", 0)
Part(i, p) == [from |-> i, part |-> p]

\* Two nodes of one rank, three of one, and two of two.
Pair == <<<<0>>, <<1>>>>
Three == <<<<0>>, <<1>>, <<2>>>>
Four == <<<<0, 1>>, <<2, 3>>>>

\* Rank 1 has no tensors.
Cat == [Op("Cat", 0) EXCEPT !.parts = <<{1, 2}, {}>>, !.list = {0}]

\* Rank 0 has its tensors on the GPU, rank 1 has a long list of them.
Custom == [Op("Custom", 0) EXCEPT !.parts = <<{Part(1, 1)}, {Part(1, 2), Part(0, 3)}>>, !.cuda = {0}, !.list = {1}]
CustomOfThree == [Op("Custom", 0) EXCEPT !.parts = <<{}, {Part(0, 1)}, {Part(0, 2)}>>, !.cuda = {0}]

\* In the last program the construction of a queue, by its own thread, comes after a
\* cat of its concurrency index and after a barrier of its stream.
Programs ==
  << Run(Three, 1, <<Barrier, Op("CreateQueue", 2), Op("InternalBarrier", 0), Barrier>>),
     Run(Three, 1, <<Op("BroadcastRingCpu", 1), Barrier>>),
     Run(Four, 1, <<Op("AllGatherCpu", 0), Op("BroadcastRingCpu", 3), Op("ReduceScatterCpu", 0)>>),
     Run(Three, 1, <<CustomOfThree>>),
     Run(Pair, 2, <<Cat, Barrier, Custom>>),
     Run(Pair, 1, <<Custom, Cat, Barrier>>),
     TwoThreads(Run(Pair, 2, <<Cat, Barrier, Op("CreateQueue", 0), Barrier>>)) >>

\* A collective, and then the construction of an unnamed queue on rank 2.
Construction == << Run(Three, 2, <<Op("AllGatherCpu", 0), Op("CreateQueue", 2), Op("InternalBarrier", 0)>>) >>
=============================================================================
