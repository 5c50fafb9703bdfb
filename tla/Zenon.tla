-------------------------------- MODULE Zenon --------------------------------
(***************************************************************************)
(* The zenons of src/src/zenon.cpp: each owns host vectors, device         *)
(* buffers, three command queues (input copy, compute, output copy), one   *)
(* command list per queue and the events of its kernel graph.  The         *)
(* operators below are the steps of zenon::run and zenon::get_result, and  *)
(* the device steps that carry the submitted lists out.  They have no      *)
(* control of their own: Threaded and SingleThread order them.             *)
(*                                                                         *)
(* The kernel graph is a parameter here; module KernelGraph gives the two  *)
(* graphs that zenon::create_cmd_list builds.  The contents of a vector    *)
(* are the one byte std::fill stores in all of it, and the graph's result  *)
(* is named by the input byte it was computed from.                        *)
(***************************************************************************)
EXTENDS Integers, FiniteSets, LaunchOrder

CONSTANTS
  PoolSize,        \* number of zenons the server constructs (--s)
  Kernels,         \* kernels of the command list, one event each
  Waits,           \* Waits[k]: the events kernel k waits on before launching
  Final,           \* kernel whose event is pushed to global_kernel_ts_event
  Writer,          \* kernel that writes the buffer the output copy reads
  Timed,           \* kernels whose timestamps are queried
  DisableBlitter,  \* --disable_blitter
  None             \* contents of memory no query's kernels have written

Zenons == 0 .. PoolSize - 1

\* Mutant: the value std::fill stores for input2, without the conversion.
UnwrappedByte(id) == id - 1

\* std::fill stores the int id in a uint8_t.
Bytes == 0 .. 255
Byte(id) == id % 256

ASSUME ZenonAssumption ==
  /\ PoolSize \in Nat
  /\ Waits \in [Kernels -> SUBSET Kernels]
  /\ Final \in Kernels
  /\ Writer \in Kernels
  /\ Timed \subseteq Kernels
  /\ DisableBlitter \in BOOLEAN
  /\ None \notin Int

\* What is asked of the graph; KernelGraphProofs shows it of the real ones.
ASSUME LaunchAssumption ==
  /\ IsFiniteSet(Kernels)
  /\ Launchable(Kernels, Waits)

VARIABLES
  input,       \* host vectors input1, input2, mem_input1, mem_input2
  dev_input,   \* device buffers input1_buffer, ..., mem_input2_buffer
  dev_result,  \* device buffer the output copy list reads
  output,      \* host vector output
  copying,     \* copy lists in flight: "input", "output"
  pending,     \* executions of command_list submitted and not retired
  ran,         \* kernels finished in the execution in progress
  events,      \* signalled events
  mixed,       \* zenons whose execution in progress used events of an earlier one
  gpu_result   \* inputs whose kernels kernel_time holds; {} while it is empty

hostVars == <<input, output, gpu_result>>
deviceVars == <<dev_input, dev_result, copying, pending, ran, events,
                mixed>>
zenonVars == <<input, output, dev_input, dev_result, copying, pending, ran,
               events, mixed, gpu_result>>

\* The vectors are constructed full of zeros, the device memory is not.
ZenonInit ==
  /\ input = [z \in Zenons |-> 0]
  /\ output = [z \in Zenons |-> 0]
  /\ dev_input = [z \in Zenons |-> None]
  /\ dev_result = [z \in Zenons |-> None]
  /\ copying = [z \in Zenons |-> {}]
  /\ pending = [z \in Zenons |-> 0]
  /\ ran = [z \in Zenons |-> {}]
  /\ events = [z \in Zenons |-> {}]
  /\ mixed = {}
  /\ gpu_result = [z \in Zenons |-> {}]

ZenonTypeOK ==
  /\ input \in [Zenons -> Bytes]
  /\ output \in [Zenons -> Bytes \cup {None}]
  /\ dev_input \in [Zenons -> Bytes \cup {None}]
  /\ dev_result \in [Zenons -> Bytes \cup {None}]
  /\ copying \in [Zenons -> SUBSET {"input", "output"}]
  /\ pending \in [Zenons -> Nat]
  /\ ran \in [Zenons -> SUBSET Kernels]
  /\ events \in [Zenons -> SUBSET Kernels]
  /\ mixed \in SUBSET Zenons
  /\ gpu_result \in [Zenons -> SUBSET (Bytes \cup {None})]
-----------------------------------------------------------------------------
(* Host steps.                                                             *)

fill_inputs(z, id) ==
  /\ input' = [input EXCEPT ![z] = Byte(id)]
  /\ UNCHANGED <<output, gpu_result, deviceVars>>

\* zeCommandQueueExecuteCommandLists on the copy queues and the compute queue.
execute_copy(z, which) ==
  /\ copying' = [copying EXCEPT ![z] = @ \cup {which}]
  /\ UNCHANGED <<hostVars, dev_input, dev_result, pending, ran, events, mixed>>

execute_compute(z) ==
  /\ pending' = [pending EXCEPT ![z] = @ + 1]
  /\ UNCHANGED <<hostVars, dev_input, dev_result, copying, ran, events, mixed>>

\* Mutants: the host does not wait for a copy queue, or for the compute queue.
CopyNotAwaited(z, which) == TRUE
ComputeNotAwaited(z) == TRUE

\* zeCommandQueueSynchronize(queue, UINT64_MAX) returns only when it is idle.
copy_idle(z, which) == which \notin copying[z]
compute_idle(z) == pending[z] = 0

\* zeEventQueryKernelTimestamp answers NOT_READY for an unsignalled event, and
\* SUCCESS_OR_TERMINATE turns that into std::terminate.
timestamps_ready(z) == Timed \subseteq events[z]

\* clear, then one push_back per event whose timestamp was read.
read_timestamps(z) ==
  /\ gpu_result' = [gpu_result EXCEPT ![z] = {dev_input[z]}]
  /\ UNCHANGED <<input, output, deviceVars>>

\* Mutant: the events stay signalled.
EventsKept(z) == UNCHANGED zenonVars

reset_events(z) ==
  /\ events' = [events EXCEPT ![z] = {}]
  /\ UNCHANGED <<hostVars, dev_input, dev_result, copying, pending, ran,
                 mixed>>

\* The line "Output:" shows output_buffer itself without the blitter.
shown_output(z) == IF DisableBlitter THEN dev_result[z] ELSE output[z]
-----------------------------------------------------------------------------
(* Device steps: the Level Zero runtime carrying out submitted lists.      *)

DeviceInputCopy(z) ==
  /\ "input" \in copying[z]
  /\ dev_input' = [dev_input EXCEPT ![z] = input[z]]
  /\ copying' = [copying EXCEPT ![z] = @ \ {"input"}]
  /\ UNCHANGED <<hostVars, dev_result, pending, ran, events, mixed>>

\* A list has no order of its own: a kernel may run once its events are set.  If
\* they are left from an earlier execution, what it reads may be that execution's,
\* and what is written in this one from then on need not be of the present input.
DeviceKernel(z, k) ==
  /\ pending[z] > 0
  /\ k \notin ran[z]
  /\ Waits[k] \subseteq events[z]
  /\ ran' = [ran EXCEPT ![z] = @ \cup {k}]
  /\ events' = [events EXCEPT ![z] = @ \cup {k}]
  /\ mixed' = IF Waits[k] \subseteq ran[z] THEN mixed ELSE mixed \cup {z}
  /\ dev_result' = IF k = Writer
                   THEN [dev_result EXCEPT ![z] = IF z \in mixed' THEN None
                                                  ELSE dev_input[z]]
                   ELSE dev_result
  /\ UNCHANGED <<hostVars, dev_input, copying, pending>>

DeviceRetire(z) ==
  /\ pending[z] > 0
  /\ ran[z] = Kernels
  /\ pending' = [pending EXCEPT ![z] = @ - 1]
  /\ ran' = [ran EXCEPT ![z] = {}]
  /\ mixed' = mixed \ {z}
  /\ UNCHANGED <<hostVars, dev_input, dev_result, copying, events>>

\* The output copy waits on the final event of the graph.
DeviceOutputCopy(z) ==
  /\ "output" \in copying[z]
  /\ Final \in events[z]
  /\ output' = [output EXCEPT ![z] = dev_result[z]]
  /\ copying' = [copying EXCEPT ![z] = @ \ {"output"}]
  /\ UNCHANGED <<input, gpu_result, dev_input, dev_result, pending, ran, events,
                 mixed>>

Device(z) ==
  \/ DeviceInputCopy(z)
  \/ \E k \in Kernels : DeviceKernel(z, k)
  \/ DeviceRetire(z)
  \/ DeviceOutputCopy(z)

\* The device has a step to take on z.
DeviceReady(z) ==
  \/ "input" \in copying[z]
  \/ pending[z] > 0 /\ \E k \in Kernels \ ran[z] : Waits[k] \subseteq events[z]
  \/ pending[z] > 0 /\ ran[z] = Kernels
  \/ "output" \in copying[z] /\ Final \in events[z]

\* Steps the device has left on z.
Work(z) == Cardinality(copying[z]) + pending[z] * (Cardinality(Kernels) + 1)
             - Cardinality(ran[z])

\* A step of the device on some zenon, which brings it nearer to its end.
WorkDone ==
  \E z \in Zenons : /\ Work(z)' \in 0 .. Work(z) - 1
                    /\ \A y \in Zenons \ {z} : Work(y)' = Work(y)
=============================================================================
