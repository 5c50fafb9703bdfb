------------------------------- MODULE Startup -------------------------------
(***************************************************************************)
(* The program from main to the start of client::run_all, several times in *)
(* the same directory: parsing, construction of the server and its zenons, *)
(* creation of the distribution.  A process may be killed at any step;     *)
(* only the files outlive it.                                              *)
(***************************************************************************)
EXTENDS Options, KernelIndex, Discovery, Distribution

CONSTANTS
  Values,        \* Values[name]: the numbers an argument is given
  Platforms,     \* sequences of devices the driver may report
  UserFiles,     \* what a dist_<q>.txt may hold before the first process
  MaxArguments,  \* arguments given to a process
  MaxProcesses   \* processes started

Flags == {"--fixed_dist", "--single_ccs"}

QueueGroup == [compute: BOOLEAN, copy: BOOLEAN, numQueues: Nat \ {0}]
GpuDevice == [gpu: BOOLEAN, integrated: BOOLEAN, groups: Seq(QueueGroup)]

ASSUME StartupAssumption ==
  /\ DOMAIN Values = {"--q", "--s", "--t", "--input_size", "--mem"}
  /\ Values["--q"] \subseteq Nat
  /\ \A name \in DOMAIN Values : Values[name] \subseteq Int
  /\ Platforms \subseteq Seq(GpuDevice) \ {<<>>}
  /\ UserFiles \subseteq Contents
  /\ MaxArguments \in Nat
  /\ MaxProcesses \in Nat \ {0}

VARIABLES
  stage,         \* how far the process is
  options,       \* its options
  arguments,     \* how many arguments it has parsed
  devices,       \* the devices of its driver
  ccs_ids,       \* the queue numbers of the zenons constructed
  processes,     \* processes started so far
  used           \* history: the pauses of the last --fixed_dist run of a length

vars == <<stage, options, arguments, devices, ccs_ids, processes, used, files, dist>>

Lengths == Values["--q"] \cup {DefaultQueries}

\* The queue groups of the device zenon::init picks.
groups == chosen_device(devices).groups

Init ==
  /\ stage = "parse"
  /\ options = default_options
  /\ arguments = 0
  /\ devices \in Platforms
  /\ ccs_ids = <<>>
  /\ processes = 1
  /\ used = [q \in Lengths |-> NoFile]
  /\ files \in [Lengths -> UserFiles]
  /\ dist = <<>>

Parse(name, v) ==
  /\ stage = "parse"
  /\ arguments < MaxArguments
  /\ options' = parsed(options, name, v)
  /\ arguments' = arguments + 1
  /\ UNCHANGED <<stage, devices, ccs_ids, processes, used, files, dist>>

\* An unknown argument: main prints the help and returns 1.
Unknown ==
  /\ stage = "parse"
  /\ arguments < MaxArguments
  /\ stage' = "ended"
  /\ UNCHANGED <<options, arguments, devices, ccs_ids, processes, used, files, dist>>

Parsed ==
  /\ stage = "parse"
  /\ options' = clamped(options)
  /\ stage' = "server"
  /\ UNCHANGED <<arguments, devices, ccs_ids, processes, used, files, dist>>

\* zenon::init finds a compute queue, and no vector or buffer has a length the
\* standard library or Level Zero refuses.
constructible ==
  /\ computeQueueGroupOrdinal(groups) < Len(groups)
  /\ options.input_size > 0
  /\ options.mem > 0

ConstructZenon ==
  /\ stage = "server"
  /\ Len(ccs_ids) < options.consumers
  /\ constructible
  /\ ccs_ids' = Append(ccs_ids, ccs_id(groups, options.multi_ccs, Len(ccs_ids)))
  /\ UNCHANGED <<stage, options, arguments, devices, processes, used, files, dist>>

\* An exception or SUCCESS_OR_TERMINATE in the server's constructor; the count
\* read past the last queue group ends there too, whatever it is.
ConstructionFails ==
  /\ stage = "server"
  /\ \/ Len(ccs_ids) < options.consumers /\ ~constructible
     \/ options.consumers < 0
  /\ stage' = "ended"
  /\ UNCHANGED <<options, arguments, devices, ccs_ids, processes, used, files, dist>>

ServerConstructed ==
  /\ stage = "server"
  /\ Len(ccs_ids) = options.consumers
  /\ dist' = zeros(options.queries)
  /\ stage' = "dist"
  /\ UNCHANGED <<options, arguments, devices, ccs_ids, processes, used, files>>

ReadDist ==
  /\ stage = "dist"
  /\ options.fixed_dist
  /\ read_dist(options.queries)
  /\ stage' = IF accepted(options.queries) THEN "created" ELSE "draw"
  /\ UNCHANGED <<options, arguments, devices, ccs_ids, processes, used, files>>

DrawDist ==
  /\ \/ stage = "draw"
     \/ stage = "dist" /\ ~options.fixed_dist
  /\ draw(options.queries)
  /\ stage' = IF options.fixed_dist THEN "open" ELSE "created"
  /\ UNCHANGED <<options, arguments, devices, ccs_ids, processes, used, files>>

OpenFile ==
  /\ stage = "open"
  /\ open_file(options.queries)
  /\ stage' = "write"
  /\ UNCHANGED <<options, arguments, devices, ccs_ids, processes, used, dist>>

WriteFile ==
  /\ stage = "write"
  /\ write_file(options.queries)
  /\ stage' = "created"
  /\ UNCHANGED <<options, arguments, devices, ccs_ids, processes, used, dist>>

\* run_all begins.
RunAll ==
  /\ stage = "created"
  /\ used' = IF options.fixed_dist THEN [used EXCEPT ![options.queries] = dist] ELSE used
  /\ stage' = "run"
  /\ UNCHANGED <<options, arguments, devices, ccs_ids, processes, files, dist>>

KilledWriting ==
  /\ stage = "write"
  /\ \E n \in 0 .. Len(dist) : \E f \in torn(n) :
       files' = [files EXCEPT ![options.queries] = f]
  /\ stage' = "ended"
  /\ UNCHANGED <<options, arguments, devices, ccs_ids, processes, used, dist>>

\* The process is over, on its own or killed, and the next is started.
NextProcess ==
  /\ stage # "write"
  /\ processes < MaxProcesses
  /\ processes' = processes + 1
  /\ stage' = "parse"
  /\ options' = default_options
  /\ arguments' = 0
  /\ ccs_ids' = <<>>
  /\ dist' = <<>>
  /\ UNCHANGED <<devices, used, files>>

Next ==
  \/ \E name \in DOMAIN Values : \E v \in Values[name] : Parse(name, v)
  \/ \E name \in Flags : Parse(name, 0)
  \/ Unknown \/ Parsed
  \/ ConstructZenon \/ ConstructionFails \/ ServerConstructed
  \/ ReadDist \/ DrawDist \/ OpenFile \/ WriteFile \/ RunAll
  \/ KilledWriting \/ NextProcess

Spec == Init /\ [][Next]_vars
-----------------------------------------------------------------------------
(* Properties.                                                             *)

Stages == {"parse", "server", "dist", "draw", "open", "write", "created", "run", "ended"}

TypeOK ==
  /\ stage \in Stages
  /\ options \in [queries: Lengths, consumers: Int, threads: Int, input_size: Int, mem: Int,
                  fixed_dist: BOOLEAN, multi_ccs: BOOLEAN]
  /\ arguments \in 0 .. MaxArguments
  /\ devices \in Platforms
  /\ ccs_ids \in Seq(Nat)
  /\ processes \in 1 .. MaxProcesses
  /\ files \in [Lengths -> Contents]
  /\ stage \in {"dist", "draw", "open", "write", "created", "run"} =>
       dist \in [1 .. options.queries -> Int]

\* Whatever arguments are given, in whatever order, and whatever is left of --t
\* in a short, if they allow a zenon to be constructed: no more threads than
\* elements, and, if there are two elements, the two threads the kernels need to
\* do anything.
ThreadsInRange ==
  stage = "run" /\ ccs_ids # <<>> =>
    /\ options.threads <= options.input_size
    /\ options.threads <= 4096
    /\ options.input_size >= 2 => options.threads >= 2

\* No two work items of a kernel that partitions its buffer write the same element,
\* and none of them writes behind it; they leave nothing out if the threads are even
\* and divide the size.  copy_buffer, launched with as many groups, writes its buffer
\* and nothing else only if that has sixteen elements for each thread: with fewer, as
\* by default, it goes on behind the end, with more it leaves elements out.
KernelsPartition ==
  stage = "run" /\ ccs_ids # <<>> =>
    LET t == options.threads
        size == options.input_size
        one(id) == strided(id, t, size)
        block(id) == blocked(id, t, size, options.mem)
    IN  /\ \A a, b \in Ids(t) : a < b => /\ one(a) \cap one(b) = {}
                                         /\ block(a) \cap block(b) = {}
        /\ UNION {one(a) : a \in Ids(t)} \subseteq 0 .. size - 1
        /\ UNION {block(a) : a \in Ids(t)} \subseteq 0 .. size * options.mem - 1
        /\ t % 2 = 0 /\ size % t = 0 =>
             /\ UNION {one(a) : a \in Ids(t)} = 0 .. size - 1
             /\ UNION {block(a) : a \in Ids(t)} = 0 .. size * options.mem - 1
        /\ t % 2 = 0 =>
             /\ direct(t) \subseteq 0 .. size - 1 <=> 16 * t <= size
             /\ 0 .. size - 1 \subseteq direct(t) <=> size <= 16 * t

\* Every zenon that was constructed has an existing queue of a group that
\* computes, whatever the order of the device's groups, and the copy queues are
\* of a group that only copies if the device has one.  An integrated device is
\* used only where there is no discrete GPU.
QueuesExist ==
  stage = "run" /\ ccs_ids # <<>> =>
    LET compute == computeQueueGroupOrdinal(groups) + 1
        copy == copyOnlyQueueGroupOrdinal(groups) + 1
    IN  /\ compute \in DOMAIN groups /\ groups[compute].compute
        /\ \A n \in DOMAIN ccs_ids : ccs_ids[n] < groups[compute].numQueues
        /\ (\E i \in DOMAIN groups : copy_only(groups[i])) => copy_only(groups[copy])
        /\ (\E n \in DOMAIN devices : discrete(devices[n])) => discrete(chosen_device(devices))

\* Level Zero executes a command list only on a queue of the group the list was
\* created for (ze_api.h:1965).  create_cmd_list takes group 0 for the compute list,
\* init the group it found last for the queue.
ListOnItsQueue ==
  stage = "run" /\ ccs_ids # <<>> =>
    commandQueueGroupOrdinal = computeQueueGroupOrdinal(groups)

\* With --fixed_dist the pauses a run uses are the ones its file holds, also
\* when the file was missing, too long, or cut by a kill.
FileSaysDist ==
  stage = "run" /\ options.fixed_dist =>
    /\ ~too_long(files[options.queries], options.queries)
    /\ stored(files[options.queries], options.queries) = dist

\* Two runs with --fixed_dist and as many queries use the same pauses, whatever
\* runs and kills come between.
FixedDistRepeats ==
  [][\A q \in Lengths : used[q] # NoFile => used'[q] = used[q]]_vars
=============================================================================
