------------------------------ MODULE Discovery ------------------------------
(***************************************************************************)
(* The device zenon::init picks (src/src/zenon.cpp), its command queue     *)
(* groups, and the queue each zenon gets.  A driver reports devices as a   *)
(* sequence of records: a GPU, integrated, and its queue groups, again a   *)
(* sequence of records: does the group compute, does it copy, how many     *)
(* queues has it.  An ordinal counts from 0.                               *)
(***************************************************************************)
EXTENDS Integers, Sequences, FiniteSetsExt

discrete(d) == d.gpu /\ ~d.integrated

\* devices[0], unless one is a discrete GPU: the loop breaks at the first.
chosen_device(devices) ==
  LET found == {n \in 1 .. Len(devices) : discrete(devices[n])}
  IN  devices[IF found = {} THEN 1 ELSE Min(found)]

copy_only(g) == g.copy /\ ~g.compute

\* The loop breaks at the first group that copies only.
looked_at(groups) ==
  {i \in 1 .. Len(groups) : \A j \in 1 .. i - 1 : ~copy_only(groups[j])}

\* The last group seen that computes, or the number of groups.
computeQueueGroupOrdinal(groups) ==
  LET computing == {i \in looked_at(groups) : groups[i].compute}
  IN  IF computing = {} THEN Len(groups) ELSE Max(computing) - 1

\* The group the loop broke at, or the initial 0.
copyOnlyQueueGroupOrdinal(groups) ==
  LET found == {i \in looked_at(groups) : copy_only(groups[i])}
  IN  IF found = {} THEN 0 ELSE Max(found) - 1

\* The compute command list is created for group 0 whatever was found.
commandQueueGroupOrdinal == 0

\* Mutant: the queue number is not wrapped.
unwrapped(groups, multi_ccs, n) == IF multi_ccs THEN n ELSE 0

\* The compute queue of the n-th zenon constructed, from 0.
ccs_id(groups, multi_ccs, n) ==
  IF multi_ccs THEN n % groups[computeQueueGroupOrdinal(groups) + 1].numQueues ELSE 0
=============================================================================
