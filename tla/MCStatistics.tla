---------------------------- MODULE MCStatistics ----------------------------
(* An instance of Statistics for TLC.                                      *)
EXTENDS Statistics

At(s, e) == [start |-> s, end |-> e]

\* Kernels in order, at three times, with long and empty ones; a first kernel
\* that runs last, as kernel 0 of the plain graph may; and a kernel during which
\* the device's clock wraps.
SomeExecutions ==
  {<<At(0, 1), At(1, 1), At(2, 3)>>, <<At(1, 4), At(4, 4), At(6, 6)>>,
   <<At(2, 2), At(2, 4), At(4, 9)>>, <<At(5, 6), At(3, 4), At(4, 5)>>,
   <<At(1, 2), At(7, 1), At(2, 3)>>}
=============================================================================
