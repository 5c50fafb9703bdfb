---------------------------- MODULE MCSingleThread ---------------------------
(* Instances of SingleThread for TLC.                                      *)
EXTENDS SingleThread

\* The shape of the resnet graph: a chain and a kernel no other waits on.
ForkKernels == {"first", "side", "last"}
ForkWaits == [k \in ForkKernels |-> IF k = "last" THEN {"first"} ELSE {}]

\* A graph in which the last kernel comes after every other: the executions of the
\* program's graphs in which none is late.
ChainKernels == {"first", "last"}
ChainWaits == [k \in ChainKernels |-> IF k = "last" THEN {"first"} ELSE {}]
=============================================================================
