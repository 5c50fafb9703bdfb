----------------------------- MODULE KernelIndex -----------------------------
(***************************************************************************)
(* Which elements of their buffers the work items of src/kernels/module.cl *)
(* write.  A group has 32 work items in two sub-groups of 16; in the       *)
(* kernels that partition a buffer only the first item of each works.      *)
(* set_n_to_output is left out: nobody sets its group size.                *)
(***************************************************************************)
EXTENDS Integers

\* Mutant: a group per thread.
group_per_thread(threads) == threads

group_count(threads) == threads \div 2

\* The ids the working items compute: two for each group.
Ids(threads) ==
  {2 * g + s : g \in 0 .. group_count(threads) - 1, s \in {0, 1}}

\* copy_buffer, whose group size zenon::create_cmd_list sets to 32: every work item
\* writes an element.
direct(threads) == 0 .. 32 * group_count(threads) - 1

\* add_buffers and cmp_bound_kernel: every threads-th element.
strided(id, threads, input_size) ==
  {id + j * threads : j \in 0 .. input_size \div threads - 1}

\* mem_bound_kernel: a block of a buffer counter times as long.
blocked(id, threads, input_size, counter) ==
  LET threadblock == (input_size * counter) \div threads
  IN  {i + id * threadblock : i \in 0 .. threadblock - 1}
=============================================================================
