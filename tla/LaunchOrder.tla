----------------------------- MODULE LaunchOrder -----------------------------
(* When the device can carry a command list to its end.                    *)

\* However far the kernels have run, one of those left waits on none of them.
Launchable(kernels, waits) ==
  \A S \in SUBSET kernels : S # {} => \E k \in S : waits[k] \cap S = {}
=============================================================================
