------------------------------ MODULE MCStartup ------------------------------
(* An instance of Startup for TLC.                                         *)
EXTENDS Startup

\* Too low, odd, too high, and beyond a short: 40000 is negative there, 65540 is 4.
ArgumentValues ==
  [name \in {"--q", "--s", "--t", "--input_size", "--mem"} |->
     CASE name = "--q" -> {2}
       [] name = "--s" -> {0, 3}
       [] name = "--t" -> {1, 3, 5000, 40000, 65540}
       [] name = "--input_size" -> {-40000, 1, 10, 40}
       [] name = "--mem" -> {2}]

Group(compute, copy, numQueues) == [compute |-> compute, copy |-> copy, numQueues |-> numQueues]

Device(integrated, gs) == [gpu |-> TRUE, integrated |-> integrated, groups |-> gs]

\* Everything in one group; a group that computes last, or behind one that only
\* copies; an integrated device beside discrete ones; no group to compute with.
PlatformKinds ==
  {<<Device(TRUE, <<Group(TRUE, TRUE, 1)>>)>>,
   <<Device(FALSE, <<Group(TRUE, TRUE, 1), Group(TRUE, TRUE, 2), Group(FALSE, TRUE, 8)>>)>>,
   <<Device(TRUE, <<Group(TRUE, TRUE, 1)>>),
     Device(FALSE, <<Group(TRUE, TRUE, 2), Group(FALSE, TRUE, 1), Group(TRUE, TRUE, 1)>>),
     Device(FALSE, <<Group(TRUE, FALSE, 1), Group(TRUE, FALSE, 1)>>)>>,
   <<Device(FALSE, <<Group(FALSE, TRUE, 1), Group(TRUE, TRUE, 2)>>)>>}

\* Short, right and too long for one or two queries, and with text in it.
FileKinds == {NoFile, <<3>>, <<12, 3, 3>>, <<3, Junk, 12>>}
=============================================================================
