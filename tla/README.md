# Verification of ml_server_scenario

The program is a benchmark of the MLPerf "server" scenario for Intel GPUs.  A
`client` sends `--q` queries, at exponentially distributed intervals, to a
`server` that owns a pool of `--s` *zenons*.  A zenon is one inference engine:
host vectors, device buffers, three Level Zero command queues and the command
lists and events of a graph of 43 (default) or 54 (`--resnet`) kernels.  The
client runs in one of two modes: a thread per query, or (`--single_thread`) one
thread that polls the final events of all zenons.

About 3000 of the repository's three million lines are its own; the rest is
vendored (Boost, the Level Zero headers, the offline compiler).

## 1. Inventory

| component | source | state | operations |
|---|---|---|---|
| zenon: run | `src/src/zenon.cpp` 565-694 | vectors `input1..mem_input2`, `output`; their device buffers; lists in flight on three queues; 54 events; the member `gpu_result` | `run`, `is_finished`, `get_result`, `set_timestamps` |
| zenon: kernel graphs | `zenon.cpp` 314-563 | command lists, `kernel_ts_event`, `graph_event_count`, `kernel_names`, the global `global_kernel_ts_event` | `create_cmd_list`, `submit_kernel_to_cmd_list` |
| zenon: discovery | `zenon.cpp` 68-185 | static driver, device, context, queue ordinals, `zenon_cntr` | `init`, `create_module`, `allocate_buffers` |
| server: pool | `src/include/ze_info/server.hpp` | `zenek`, the lock-free queue `zenek_pool_boost` | constructor, `get_zenon_atomic`, `return_zenon_atomic`, `query_sample_multiple_threads`, `query_sample`, `is_finished`, `get_result`, `delete_zenek` |
| server: log | `server.hpp` 103-120 | `mtx` and one shared `std::unique_lock log_lock` | `log` |
| client: threads | `src/include/ze_info/client.hpp` 106-130, 197-214 | `results`, `gpu_results_vec`, the threads | `run_all`, `run_single` |
| client: polling loop | `client.hpp` 131-187 | `zenonki`, `q`, `cntr`, `finish_count`, `cumulative_dist` | `run_all` |
| client: distribution | `client.hpp` 42-87 | `dist`, the file `dist_<q>.txt` | `create_distribution` |
| client: statistics | `client.hpp` 216-342 | none of its own | `print_results`, `print_profiling`, `avg`, `avg_u` |
| main | `src/src/main.cpp`, `simple_run.cpp` | globals for the options | `main`, `run_mt` |
| kernels | `src/kernels/module.cl` | none | index partition and arithmetic per work item |
| helpers | `utils`, `ze_utils`, `capabilities`, `text_formatter`, `offline_compiler`, `start_test.py` | none | printing, files, result codes, the SPIR-V compiler |

How they interact.  The client calls the server; the server pops a zenon, fills
its host vectors and calls `zenon::run`.  `run` submits the input copy, the
kernels and the output copy to the Level Zero runtime and synchronizes with
it between them (not in single-threaded mode, where `run` returns after
submitting the kernels).  The runtime runs kernels when the events they wait on
are signalled, signals an event for each, and the host resets all events at the
end.  Zenons share nothing but the pool, the log lock, and the global vector of
final events.

What is hard here, and what makes each part correct:

* **Lending.**  Many threads pop and push at once, and there are exits by
  exception.  A zenon must be with one borrower or in the pool, exactly once.
* **Reuse.**  Vectors, buffers, `gpu_result`, command lists and events are
  reused for every query.  A query must get what was computed from *its* id, a
  list must not be executed while it is in flight, and a zenon must go back
  with nothing running and no event signalled.
* **Host beside device.**  In single-threaded mode the host fills and submits
  on one zenon while others run.  It must not touch what running kernels or
  copies read, and must only take results that are there.
* **Indices.**  The polling loop finds the final event by slot number, not by
  zenon, and `zenonki` is sized by one option and indexed by another.
* **The log lock.**  `std::unique_lock` is not thread safe and is shared.
* **The graph.**  A launch passes the address of the first event and a count.
  Are two events per launch enough to order the kernels, and is the buffer
  that is copied out settled when the final event is set?
* **The statistics.**  64-bit nanoseconds are summed in an `int`, and the
  results they come from live in zenons that serve one query after another.
* **The start.**  Options clamp each other, are narrowed to `short`, and decide
  which queue a zenon gets and which elements a work item writes.
* **The end.**  Every thread must be joined, the polling loop must stop, and
  nothing may terminate the process on the way.

The full list, with the line where each bites, is `hazards` in `PROJECT.json`.

## 2. Modules

| module | models | composed from |
|---|---|---|
| `LaunchOrder` | what is asked of a kernel graph: however far it has run, a kernel can start | |
| `Zenon` | the zenons' state, the host steps of `zenon::run`/`get_result` and the device steps behind them | `LaunchOrder` |
| `Server` | the constructor and the pool | `Zenon` |
| `LogLock` | `std::mutex` and the shared `std::unique_lock`, one step per check, flag store and mutex call | |
| `Threaded` | the client with a thread per query: warm-up, spawn, `run_single`, join, statistics | `Server`, `LogLock` |
| `QueryService` | abstract: borrow an idle zenon, get the own answer, give it back, be recorded | |
| `SingleThread` | the client with `--single_thread`: first round, polling loop, `print_profiling` | `Server` |
| `KernelGraph` | both command lists: which events each launch waits on, which buffers it reads and writes, one execution | `LaunchOrder` |
| `ZenonProofs` | lemmas about the pool and the device | `Zenon` |
| `ThreadedProofs`, `StageProofs`, `RunProofs` | theorems, each on the one before | `Threaded` |
| `Statistics` | the times `zenon::run` collects and what `print_profiling` makes of them, integer widths included | |
| `SingleThreadProofs` | theorems | `SingleThread`, `ZenonProofs` |
| `KernelGraphProofs` | theorems about both graphs | `KernelGraph` |
| `Options` | `main`'s options, clamps and widths | |
| `KernelIndex` | the elements the work items of `module.cl` write | |
| `Discovery` | `zenon::init`: device, queue groups and queues | |
| `Distribution` | `create_distribution` and its files | |
| `Startup` | from `main` to `run_all`, over several processes | the four above |
| `StartupProofs` | theorems about options, queues, work items and files | `Startup` |
| `StatisticsProofs` | theorems | `Statistics` |
| `MCThreaded`, `MCSingleThread`, `MCStartup`, `MCStatistics` | small kernel graphs, arguments, devices and timestamps for TLC | |

**State.**  `Zenon` keeps one function over zenons for each thing a zenon owns:
`input`, `dev_input`, `dev_result`, `output`, `gpu_result` for the data;
`copying`, `pending`, `ran` for submitted work; `events` for the signalled
events.  All inputs of a zenon are filled by `std::fill` with one value, so a
vector is the byte it is full of, and the conversion of the `int` id to
`uint8_t` is `id % 256`; `input2`, always one less, carries no further
information.  What the graph computes is named by the byte it was computed
from; uninitialised memory is `None`.  That name is right only of an execution
whose kernels read what this same execution wrote.  `mixed` holds the zenons
where a kernel has started on an event left signalled by an earlier execution;
the result such an execution writes is `None`, whatever it was given.

**Steps.**  One action per call that another thread or the device can fall
between: each `zeCommandQueueExecuteCommandLists`, each
`zeCommandQueueSynchronize`, the fill, the pop, the push.  `pc[a]` (in
`Threaded`) and `main` (in `SingleThread`) follow the code in source order.
`std::terminate`, an exception that leaves `main`, an index out of range and a
null pointer are final values of `main`.  `while (!pop(zenek));` is an action
disabled while the pool is empty.

**Histories.**  `Statistics` keeps the timestamps of each query's execution and
the exact sum beside the `int` that may wrap; nothing in its steps reads them.
`QueryService` is implemented by both clients: `borrowed`, `given` and `served`
are `zenek`, `answer` and the ended threads of `Threaded`, and in `SingleThread` are
computed from the slots, the loop's indices and where in an iteration it is.

**External code.**  Level Zero is modelled by what its header promises about
the calls used here: a copy list runs once its wait event is set, a kernel once
its events are, synchronize returns when the queue is idle, querying the
timestamp of an unsignalled event is an error.  The device steps of different
zenons interleave freely, which covers zenons that share a hardware queue.
`boost::lockfree::queue` is a linearisable FIFO queue.

## 3. Runs

Every passing run ends without error; every property has a mutant in
`PROJECT.json`, a plausible bug in a mapped definition that makes the run fail.

| run | question | bounds |
|---|---|---|
| `threaded` | does every query get its own answer from its own zenon and profile, and does everything end, with and behind the abstract service? | 3 queries plus the warm-up, 2 zenons, a 3-kernel graph with a straggler |
| `threaded_logging` | what is left of that when `log` may throw or hang? Does anybody but a waiter for its mutex wait in vain, and is a query ever sent round again? | 3 threads, 1 zenon, 3 lines each |
| `threaded_log_hangs` | (violation) does the run end with `--log`? | 2 threads |
| `single_loop` | is the polling loop right, does it wait for the right things, does it stop, and is it the abstract service? With and without the warm-up | 5 queries, 3 zenons, a straggler kernel |
| `single_no_blitter` | does `--profiling` stop when nothing waits for the reset event, and where do `zenonki` and the zenons part? | 3 queries, 2 zenons, a straggler kernel |
| `single_in_flight` | (violation) are lists executed only when idle, after the warm-up? | 1 zenon |
| `single_profiling_hangs` | (violation) does the run end with `--profiling`? | 1 zenon, 1 query |
| `graphs` | are kernels ordered by the events they wait on, and can one always start, in both graphs, with and without the blitter? | the real graphs: 43 and 54 (56) commands |
| `startup` | do options, queues and files fit together, over several processes and kills? | 3 processes, 2 arguments each, 1 or 2 queries, platforms of one or two devices, 4 kinds of file |
| `lists_on_queues` | (violation) is the kernels' list executed on a queue of the group it was created for? | as `startup` |
| `statistics` | do averages, totals and the span agree with the executions they are made of? | 3 queries, 2 zenons, 3 kernels, 5 executions, an `int` up to 15, a 64-bit number up to 255 and 3 nanoseconds to the "microsecond" |
| `graph_joins` | (violation) does each kernel wait for what its append lists? | the real graphs |

Why the bounds are enough.  Actors differ only by their id, and two zenons with
three borrowers already give a pool that runs empty, a queue whose order turns
round, a zenon used three times and two zenons running at once.  A 3-kernel
graph has a wait, a kernel nobody waits on, and a final kernel that is not
last to finish, which are the shapes of the 54-kernel graph that the
properties can tell apart.  In `single_loop` five queries over three zenons make
every slot be refilled or not.  The log lock needs three threads so that one
can throw while two contend.  `KernelGraph` is checked at its real size.

In `startup` two arguments suffice for every pair the clamps and `--fixed_dist`
relate, and three processes for a run, a killed one and a third between them;
`MaxArguments` and `MaxProcesses` are guards.  The arguments include the ones
that no longer fit a `short`, a size of 0 zenons and a negative buffer size; the
platforms include one where a later device is the discrete one, and groups in an
order where the loop must break.  In `statistics` the small widths are what makes
sums wrap at all: with an `int` of 15 some lines fit and some do not, a kernel 0
that runs last makes `gpu_time` wrap, and one execution has a clock that wraps
in the middle of a kernel.  A `Micro` of 3 makes the integer division of the
totals lose something and lets an average exceed its maximum.  Two zenons for three queries and the warm-up make a
zenon's result serve several queries.  Elsewhere no counter is unbounded:
`pending` is at most 2 and the loops end, so no state constraint is used.

`single_loop` and `single_no_blitter` differ in what the printing does.  With the
blitter it ends at the copy whose event is reset; without it, it goes on until,
with more queries than zenons, it meets a null pointer.  In both a kernel nobody
waits on may be late, as kernel 0 of the plain graph and the tails of resnet are,
which `set_timestamps` meets with `std::terminate`.  With exactly as many queries
as zenons the profile can be printed to its end; that only then, and that fewer
queries write past the end of `zenonki` at once, is proved
(`SlotsFitQueriesHolds`) and not run.  The violations of `single_in_flight` and
`single_profiling_hangs` are shown on a chain, which stands for the executions in
which no kernel is late.

`CHECK_DEADLOCK FALSE` is set where the program can really stop: a thread
waiting for a mutex nobody will unlock, and the host waiting on an output copy
whose event nobody will set, and `startup` after its last process.

### Fairness

`FairSpec` assumes weak fairness of each thread, of the main thread and of each
zenon's device: the operating system runs every runnable thread, and the
runtime completes submitted work whose events are set.  The single-threaded
loop is one thread.  Weak fairness is enough: a pop is re-enabled whenever a
zenon is returned and every query pops once, so nobody starves for ever; the
mutex likewise.  Nothing is assumed of the device's order.

### Findings

* `--log` with threads can hang (`threaded_log_hangs`): `log_lock` is one
  `std::unique_lock` for all threads (`server.hpp:105`).  One thread clears the
  flag after another has locked the mutex, whose `unlock` throws and leaves the
  mutex locked.  `threaded_logging` shows what survives: lines stay exclusive,
  durations are recorded, zenons come back.
* `--single_thread` returns the warm-up's zenon while it is still running
  (`single_in_flight`).  Nor are that zenon's events reset, so the first query
  that runs on it may compute with the warm-up's intermediate buffers
  (`OwnAnswers` excludes that one answer, and no other).  It executes the output copy again in `print_profiling`
  after its event was reset (`single_profiling_hangs`); reads `kernel_names`
  that were never filled when `--profiling` is off, which ends the process with
  `std::out_of_range` at the first finished query (`SetTimestamps` in
  `SingleThread`); and skips `dist[pool_size]`, so that later queries come one pause
  early (`PausesShift`).
* The joins of the resnet graph wait on the wrong second event (`graph_joins`);
  `graphs` shows what order remains.  Two of the kernels that may be late, 27 and
  46, write the buffer that is copied out (`CopySourceSettled`).
* On a device with two compute groups the queues are of the last of them and the
  compute command list of the first (`lists_on_queues`), which Level Zero forbids.

What the models show beside that.

* Options.  `--t` alone cannot exceed 32, because `input_size` defaults to the
  default of `--t` (`main.cpp:88`) and the last clamp takes it back; `start_test.py`
  sweeps to 128.  `--t 40000` becomes negative in a `short` and then 2.  With a
  negative `--input_size` the threads can leave their range, which only matters
  because `--s 0` then constructs nothing (`ThreadsInRange` asks for a zenon).
  `--mem` is documented in kB and used as a factor.
* Kernels.  `copy_buffer` and `set_n_to_output` have a work item per element
  where the others have sixteen idle ones for each that works, but are launched
  with the same group count: with the default 32 threads and 32 elements
  `copy_buffer` writes 512 (`KernelsPartition` says when it stays inside).
  `set_n_to_output` has no group size of its own and nobody sets one, so that its
  work items depend on the driver.  Without the blitter the plain graph also launches
  `set_n_to_output` with the arguments of another kernel.
* Files.  A process killed while it writes `dist_<q>.txt` leaves a file that is
  accepted with zeros for what is missing.
* Statistics.  The "last kernel end" is the start of the last timed kernel, and
  timestamps of the last two events are never read, so that the printed span
  misses the end of the graph and counts from query 0, whatever query ran first;
  `SpanCovers` says what it does cover.  `gpu_time`
  is measured from kernel 0, which nobody waits on in the plain graph: when it
  runs late, the difference wraps.  Averages are right while the sum over all
  queries fits an `int`, that is up to about two seconds (`MeansInRange`).  Minima and
  maxima of the totals are cut to whole microseconds and averages are not, so that
  an average may exceed the maximum beside it, by less than one.

## 4. Proofs

TLAPS proves, for every value of the constants that the modules' assumptions
allow: any number of queries and zenons, any kernel graph that can be carried to its
end (`LaunchAssumption`) and any setting of the options (`ZenonAssumption`,
`ThreadedAssumption`, `SingleThreadAssumption`); any
number of kernels (`KernelGraphAssumption`); any arguments, platforms, files,
processes and kills (`DistributionAssumption`, `StartupAssumption`); any
timestamps and integer widths (`StatisticsAssumption`):

| module | theorem | says | inductive invariant |
|---|---|---|---|
| `ThreadedProofs` | `TypeCorrect` | `[]TypeOK` | `CoreInv` |
| | `ExclusionHolds`, `NothingLostHolds`, `InOnePlaceHolds` | a zenon has one borrower or is in the pool, once, and always one of the two | `LendingInv` |
| `StageProofs` | `OwnAnswerHolds`, `OwnProfileHolds` | answers and kernel times are the query's own | `StageInv` |
| | `ListsNotInFlightHolds` | no list is executed while in flight | `StageInv` |
| | `QuietInPoolHolds` | what is in the pool is idle and reset | `StageInv` |
| | `NeverTerminatedHolds` | no timestamp of an unset event is asked for | `StageInv` |
| `RunProofs` | `AllRecordedHolds` | all durations are there at the end | `RecordInv` |
| | `ProfileCompleteHolds`, `EndsNormallyHolds` | without `--log`, so are all kernel times, and nothing ends the process early | `ProfiledInv` |
| | `LogExclusiveHolds` | one line at a time | `LogHeldInv` |
| | `SourcesStableHolds` | running work's sources do not change (an action property) | `StageInv` |
| | `AllAnsweredHolds` | when `run_all` prints, every query has its own answer, also those whose `log` threw | `RecordInv`, `ServiceInv` |
| | `NobodyWaitsInVainHolds` | whoever waits has somebody who can bring it on | `WaitInv` |
| | `GoesForwardHolds` | every step brings a thread, `run_all` or a device forward and none brings it back (an action property) | `StageInv` |
| | `ServiceImplemented` | with the blitter on, `Threaded` implements `QueryService` | `ServiceInv` |
| `SingleThreadProofs` | `TypeCorrect` | `[]TypeOK` | `IInv` |
| | `SlotOwnsEventHolds`, `PopFindsZenonHolds`, `SlotsFitQueriesHolds` | slots, events, pool and vectors fit together, the last but for the two cases it names | `IInv` |
| | `OwnAnswersHolds`, `AnsweredOnceHolds` | answers are the query's own but for one after a warm-up, and each is taken once | `IInv` |
| | `ListsNotInFlightHolds`, `SourcesStableHolds` | nothing in flight is executed again or changed, but for what the warm-up left running | `IInv` |
| | `NobodyWaitsInVainHolds` | the client waits and polls only while a device can bring it on | `WaitInv` |
| | `GoesForwardHolds` | it never goes back, and apart from empty polls every step is progress (an action property) | `IInv` |
| | `PausesShiftHolds` | each query has its pauses, shifted by one behind the first round | `PausesInv` |
| | `LoopImplementsService` | with the blitter on and no warm-up, `SingleThread` implements `QueryService` | `IInv` |
| `KernelGraphProofs` | `TypeCorrect` | `[]TypeOK` | `OrderInv` |
| | `PlainInOrderHolds` | the plain graph is in order but for kernel 0 | `OrderInv` |
| | `CopySourceSettledHolds` | at the final event the copied buffer is settled, but for tails 27 and 46 of resnet | `OrderInv`, `SpineInv` |
| | `PlainOperandsHolds` | each plain kernel reads its two predecessors' results | `OperandInv` |
| | `ResnetSpineHolds` | only the branch tails of resnet can be late | `SpineInv` |
| | `SomethingCanLaunchHolds` | until all commands have run, one can start | `OrderInv` |
| | `GraphsFitZenon` | both graphs are what `Zenon` assumes | `OrderInv` |
| `StartupProofs` | `TypeCorrect` | `[]TypeOK` | `SetupInv` |
| | `ThreadsInRangeHolds`, `KernelsPartitionHolds` | options keep their range; partitioning work items share no element, and when `copy_buffer`'s stay inside | `SetupInv` |
| | `QueuesExistHolds` | which queues the zenons get | `SetupInv` |
| | `FileSaysDistHolds`, `FixedDistRepeatsHolds` | runs with `--fixed_dist` use what the file says, and repeat (an action property) | `FileInv` |
| `StatisticsProofs` | `MeansInRangeHolds` | an average lies between its extremes, but for the fraction of a microsecond they lose, unless its sum wraps | `StatisticsInv` |
| | `TotalsAddUpHolds` | the total agrees with the kernels' lines but for fractions and rounding | `StatisticsInv` |
| | `SpanCoversHolds` | the span covers each ordered execution but for its last kernel and what ran before query 0 began | `StatisticsInv` |

The argument.  Types need `CoreInv`: an actor has a zenon exactly between its pop
and its push (`Linked`), the threads `run_all` has not spawned yet are idle
(`LoopInv`), and a call of `log` is under way only while lines are left (`LogInv`).  Exclusion is
inductive only with `NothingLost` and `Linked` beside it (`LendingInv`): a push
puts back what is with nobody else, and a pop takes what is with nobody.

Nothing about answers is inductive by itself, because an answer is right only
if the vector, the buffer, the result and the copy behind it were.  `StageInv`
therefore ties the step a borrower is at to its zenon: `InFlight` (only the
list it waits for is in flight), `EventStage` (which events are set) and
`DataStage` (how far its byte has come).  A step of another actor leaves all of
this alone because of exclusion; a device step moves it along.  The device may
run a kernel nobody waits on after the final event, which is why the reset is
safe only behind `zeCommandQueueSynchronize`: `pending` is 0 there.  And because
every execution so starts with no event set, each event a kernel waits on was
signalled by a kernel of the same execution, and no zenon is ever in `mixed`.

Liveness is out of the prover's reach, but its two safety halves are not, and
they hold for all constants where TLC sees one instance.  `GoesForward` gives
each actor and `run_all` a position that no step lowers, and the device an amount
of work (`Work`: copies, executions, kernels to run); each step raises a position
or takes a unit of work off.  Work is only added by steps that raise a position and
positions are bounded, so an execution has finitely many steps, whatever the
interleaving and whatever `log` throws.  `NobodyWaitsInVain` says that it does not
stop early: at each blocking call (the three synchronizes, the spin on the pool,
the mutex, the joins) what is waited for is there, or the device has a step, or
another thread holds what is waited for and is itself at one of these calls or
able to step.  The waits are layered, a join on a thread, a pop on a thread that
runs, a run on its device, so there is no circle among them.  Three things are
left out, because the code does not have them: the mutex after an `unlock` that
threw (`threaded_log_hangs`), the pool with `--s 0`, whose first pop spins, and
the output copy of `print_profiling` (`single_profiling_hangs`).  The device's part
needs that kernels left over never all wait for each other; that is
`LaunchAssumption`, the only thing assumed of the graph beyond its types, and
`GraphsFitZenon` shows it of the two graphs the code builds: a launch waits on
events of kernels with smaller numbers only (`WaitsAreEarlier`), so that the first
of those left is free.  The two extra commands of resnet without the blitter, which
set the events of kernels 0 and 1 a second time, have no place in `Zenon`;
`SomethingCanLaunchHolds` covers them.  For the loop, `WaitInv` adds that every query taken
from the list is answered or some zenon works for it (`Covered`), that it was
submitted and its final event stays set until the answer is taken (`Submitted`),
and that the loop takes a query for each it counts (`Refilled`), which is why a
loop that has not counted all of them polls for something.

The refinement maps `borrowed` to `zenek`, `given` to `answer`, `served` to the
actors that are done.  Pop, the end of `run`, push and the thread's end are the
four steps of the service; the rest stutter.  It assumes the blitter because
without it nothing copies the result to the vector that is returned.

In the plain graph, kernel `c` waits for `c - 1` and `c - 2`, so what has run is
closed downwards but for kernel 0 (`OrderInv`).  `LatestInv` adds which kernel
wrote each third of the intermediate buffers last, from which the operands
follow.

A distribution file that a run has used is never rewritten, because a process
only draws when it has found the file missing or too long (`Rewritten` in
`FileInv`); and one that is written reads back as `dist` (`WrittenIsRead`).

The polling loop is one thread, so its invariant `IInv` is a description of where
everything is at each of its steps.  `Control` and `Counters` tie the call under way
to the loops' indices; `SlotsFilled`, `Zenek` and `Pool` say which zenon is in
which slot, in hand and in the queue (`InSlot`: with the warm-up the zenons are
shifted by one against the slots).  `Asked` says for which query each zenon works,
no two for the same, and `AnswersCounted` and `AnsweredQuiet` that the answers taken so
far are of queries before `q`, each once, and leave their zenon idle and reset.
That makes a signalled final event evidence of an answer not yet taken, which is
what `is_finished` relies on.  `Copies` and `Contents` follow the byte through the
buffers as `DataStage` does for the threads.  A zenon is `Fresh` when its events
are those of its present execution alone; only the warm-up's zenon is not, from the
warm-up until its first answer is taken (`Spoilt`), and that answer is the one
`OwnAnswers` leaves out.  The loop lends a zenon when it pops
it and gets it back when it pushes it; the answer is given while it shows the
result, and the query is served when the loop has counted it.  The refinement is
claimed without the warm-up, which lends a running zenon (`single_in_flight`):
with it the mapping is constant.

In the resnet graph the events of a launch are the first it lists and, if it
lists two, the one with the next number.  `SpineInv` says that what has run had
all of these signalled before, and the rest is a chain: whoever is signalled has
run (but for kernels 0 and 1 without the blitter, whose events two later
launches signal as well), so that from the final event back only the tails of the
four branches are not waited for.

`SetupInv` keeps what `main`'s clamps leave (`ThreadsSet`: threads between 2 and
the smaller of 4096 and the buffer, for a buffer of at least 2) and which queue
each constructed zenon got (`ZenonsConstructed`).  The queue of zenon `n` exists
because a remainder is smaller than its divisor and the group found computes
(`OrdinalsFound`, from the existence of largest and smallest numbers).  That
`id + j * threads` determines `id` and `j` is the uniqueness of a number's last
digit in base `threads` (`DigitsUnique`, `DigitsExist`).

`StatisticsInv` says that each query has what its own execution left
(`TimesInv`), that the running sum is that of the values so far and the `int`
equals it as long as it fits (`SumInv`), and the same of each printed line.
Lemmas about `Sum` (it is additive, monotone, covers its elements, and what
rounding does to it) are shown by `UpTo`, an induction over a set of
numbers, and exchange the sum over kernels with that over queries.

## 5. Only model-checked

Liveness under fairness (`Completes`, `LoopEnds`, `RunStops`, `ZenonsComeBack`), which the
prover cannot do: what is proved is that executions are finite but for empty polls
and that nobody waits in vain, and the step from there to "eventually" is TLC's.
The refinement of `QueryService` is not claimed with the blitter off.  All
invariants and action properties of the passing runs are proved.

The runs check conjunctions where one exploration answers several questions:
`InOnePlace` is `ZenonExclusion` and `NothingLost`, `EndsNormally` is
`NeverTerminated` and `ProfileComplete`, `AllAnswered` contains `OwnAnswer`, and
`NobodyWaitsInVain` of the loop contains `PopFindsZenon`; the theorems state the parts
as well.  `ListsNotInFlight` of the threads and the types of `KernelGraph` and
`Startup` are proved and not run again.

## 6. Not modelled

The choice of driver and the loading of the module; the names of kernels in the
statistics; what `set_n_to_output` writes, whose group size nobody sets.  Printing, device capabilities, string helpers, the
compiler wrapper and the test sweep are pure input and output: they keep no
state a later step depends on, and nothing about them is promised that could be
stated.  `~zenon` is never run: `delete_zenek`'s bound
`zenek_pool_size` stays 0.  Failures of Level Zero calls other than an unready
timestamp end the process at once and are left out.  `SingleThread` leaves out
`log`, harmless in one thread.  With `--q 0` both clients index empty vectors at
once; `Threaded` and `SingleThread` assume a query.

## 7. Plan

Done: the modules and theorems above, in the order pool and threads, polling
loop, kernel graphs, start-up, statistics.  What could still be added:

* the durations `run_single` and the polling loop measure on the host, which need
  a clock;
* names against timestamps in the resnet graph without the blitter;
* the refinement of the service with the blitter off, for an abstract service
  whose answer is the device's buffer rather than the host's vector.
