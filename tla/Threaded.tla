------------------------------- MODULE Threaded ------------------------------
(***************************************************************************)
(* The client (src/include/ze_info/client.hpp) without --single_thread:    *)
(* client::run_all warms up, spawns one std::thread per query and joins    *)
(* them; every thread runs client::run_single, which borrows a zenon from  *)
(* the server, runs the query's sample on it and gives it back.            *)
(*                                                                         *)
(* pc[a] is where actor a is in run_single and in the calls it makes:      *)
(*                                                                         *)
(*   pop fill              server::query_sample_multiple_threads           *)
(*   input_copy input_sync compute compute_sync output_copy output_sync    *)
(*   profile finish        zenon::run                                      *)
(*   return lock ... cleared   the pool and three calls of server::log     *)
(*   record done           run_single after the try block                  *)
(***************************************************************************)
EXTENDS Server, LogLock

CONSTANTS
  NumQueries,      \* --q
  WarmUp,          \* TRUE unless --disable_wu
  Profiling,       \* --profiling
  Logging          \* --log

ASSUME ThreadedAssumption ==
  /\ NumQueries \in Nat \ {0}
  /\ {WarmUp, Profiling, Logging} \subseteq BOOLEAN
  /\ Free \notin Int

Queries == 0 .. NumQueries - 1
Main == -1                        \* the main thread, in the warm-up
Actors == Queries \cup {Main}
Qid(a) == IF a = Main THEN 0 ELSE a

\* Lines query_sample_multiple_threads logs.
LogCalls == 3

LogSteps == {"lock", "mutex", "owned", "print", "unlock", "cleared"}
Running == {"fill", "input_copy", "input_sync", "compute", "compute_sync",
            "output_copy", "output_sync", "profile", "finish", "return"}
Steps == {"idle", "pop", "record", "done"} \cup Running \cup LogSteps

VARIABLES
  pc,
  zenek,           \* the zenon an actor has borrowed
  answer,          \* what the output vector holds when zenon::run ends
  result,          \* the gpu_results zenon::run returned
  logged,          \* lines an actor has logged
  main,            \* where run_all is; "terminated" after std::terminate
  i,               \* loop variable of run_all
  results,         \* queries whose duration is recorded
  gpu_results_vec

actorVars == <<pc, zenek, answer, result, logged>>
clientVars == <<main, i, results, gpu_results_vec>>
vars == <<serverVars, logLockVars, actorVars, clientVars>>

Init ==
  /\ ServerInit
  /\ LogLockInit
  /\ pc = [a \in Actors |-> IF WarmUp /\ a = Main THEN "pop" ELSE "idle"]
  /\ zenek = [a \in Actors |-> None]
  /\ answer = [a \in Actors |-> None]
  /\ result = [a \in Actors |-> {}]
  /\ logged = [a \in Actors |-> 0]
  /\ main = IF WarmUp THEN "warmup" ELSE "spawn"
  /\ i = 0
  /\ results = {}
  /\ gpu_results_vec = [q \in Queries |-> {}]

\* Nothing moves after std::terminate.
Alive == main \notin {"terminated", "crashed"}

At(a, step) == Alive /\ pc[a] = step
GoTo(a, step) == pc' = [pc EXCEPT ![a] = step]
-----------------------------------------------------------------------------
(* server::query_sample_multiple_threads, up to the call of zenon::run.    *)

Pop(a) ==
  /\ At(a, "pop")
  /\ \E z \in Zenons : /\ get_zenon_atomic(z)
                       /\ zenek' = [zenek EXCEPT ![a] = z]
  /\ GoTo(a, "fill")
  /\ UNCHANGED <<answer, result, logged, logLockVars, clientVars>>

Fill(a) ==
  /\ At(a, "fill")
  /\ fill_inputs(zenek[a], Qid(a))
  /\ GoTo(a, IF DisableBlitter THEN "compute" ELSE "input_copy")
  /\ UNCHANGED <<zenek_pool_boost, zenek, answer, result, logged, logLockVars,
                 clientVars>>
-----------------------------------------------------------------------------
(* zenon::run without single_thread.                                       *)

InputCopy(a) ==
  /\ At(a, "input_copy")
  /\ execute_copy(zenek[a], "input")
  /\ GoTo(a, "input_sync")
  /\ UNCHANGED <<zenek_pool_boost, zenek, answer, result, logged, logLockVars,
                 clientVars>>

InputSync(a) ==
  /\ At(a, "input_sync")
  /\ copy_idle(zenek[a], "input")
  /\ GoTo(a, "compute")
  /\ UNCHANGED <<serverVars, zenek, answer, result, logged, logLockVars,
                 clientVars>>

Compute(a) ==
  /\ At(a, "compute")
  /\ execute_compute(zenek[a])
  /\ GoTo(a, "compute_sync")
  /\ UNCHANGED <<zenek_pool_boost, zenek, answer, result, logged, logLockVars,
                 clientVars>>

\* Mutant: profiling is never done.
NoProfile == "finish"

\* Where the run goes once its output is on the host.
AfterOutput == IF Profiling THEN "profile" ELSE "finish"

ComputeSync(a) ==
  /\ At(a, "compute_sync")
  /\ compute_idle(zenek[a])
  /\ GoTo(a, IF DisableBlitter THEN AfterOutput ELSE "output_copy")
  /\ UNCHANGED <<serverVars, zenek, answer, result, logged, logLockVars,
                 clientVars>>

OutputCopy(a) ==
  /\ At(a, "output_copy")
  /\ execute_copy(zenek[a], "output")
  /\ GoTo(a, "output_sync")
  /\ UNCHANGED <<zenek_pool_boost, zenek, answer, result, logged, logLockVars,
                 clientVars>>

OutputSync(a) ==
  /\ At(a, "output_sync")
  /\ copy_idle(zenek[a], "output")
  /\ GoTo(a, AfterOutput)
  /\ UNCHANGED <<serverVars, zenek, answer, result, logged, logLockVars,
                 clientVars>>

Profile(a) ==
  /\ At(a, "profile")
  /\ IF timestamps_ready(zenek[a])
     THEN /\ read_timestamps(zenek[a])
          /\ GoTo(a, "finish")
          /\ UNCHANGED main
     ELSE /\ main' = "terminated"
          /\ UNCHANGED <<zenonVars, pc>>
  /\ UNCHANGED <<zenek_pool_boost, zenek, answer, result, logged, logLockVars,
                 i, results, gpu_results_vec>>

\* Reset the events, show the output, copy the gpu_result member out.
Finish(a) ==
  /\ At(a, "finish")
  /\ reset_events(zenek[a])
  /\ answer' = [answer EXCEPT ![a] = shown_output(zenek[a])]
  /\ result' = [result EXCEPT ![a] = gpu_result[zenek[a]]]
  /\ GoTo(a, "return")
  /\ UNCHANGED <<zenek_pool_boost, zenek, logged, logLockVars, clientVars>>
-----------------------------------------------------------------------------
(* query_sample_multiple_threads after zenon::run, and server::log.        *)

Return(a) ==
  /\ At(a, "return")
  /\ return_zenon_atomic(zenek[a])
  /\ zenek' = [zenek EXCEPT ![a] = None]
  /\ GoTo(a, IF Logging THEN "lock" ELSE "record")
  /\ gpu_results_vec' = IF Logging THEN gpu_results_vec
                        ELSE [gpu_results_vec EXCEPT ![Qid(a)] = result[a]]
  /\ UNCHANGED <<answer, result, logged, logLockVars, main, i, results>>

\* Mutant: run_single rethrows, so that results[qid] is not assigned.
LeaveRunSingle(a) ==
  /\ GoTo(a, "done")
  /\ UNCHANGED <<serverVars, zenek, answer, result, logged, logLockVars,
                 clientVars>>

\* Mutant: the query is tried again.
RetryQuery(a) ==
  /\ GoTo(a, "pop")
  /\ UNCHANGED <<serverVars, zenek, answer, result, logged, logLockVars,
                 clientVars>>

\* run_single catches the exception: it skips the rest of the try block, the
\* assignment to gpu_results_vec included.
Catch(a) ==
  /\ GoTo(a, "record")
  /\ UNCHANGED <<serverVars, zenek, answer, result, logged, logLockVars,
                 clientVars>>

LockThrows(a) == At(a, "lock") /\ lock_throws /\ Catch(a)

UnlockThrows(a) == At(a, "unlock") /\ unlock_throws /\ Catch(a)

LockChecked(a) ==
  /\ At(a, "lock")
  /\ ~lock_throws
  /\ GoTo(a, "mutex")
  /\ UNCHANGED <<serverVars, zenek, answer, result, logged, logLockVars,
                 clientVars>>

MutexLock(a) ==
  /\ At(a, "mutex")
  /\ mutex_lock(a)
  /\ GoTo(a, "owned")
  /\ UNCHANGED <<serverVars, zenek, answer, result, logged, clientVars>>

SetOwned(a) ==
  /\ At(a, "owned")
  /\ set_owns(TRUE)
  /\ GoTo(a, "print")
  /\ UNCHANGED <<serverVars, zenek, answer, result, logged, clientVars>>

PrintLine(a) ==
  /\ At(a, "print")
  /\ logged' = [logged EXCEPT ![a] = @ + 1]
  /\ GoTo(a, "unlock")
  /\ UNCHANGED <<serverVars, zenek, answer, result, logLockVars, clientVars>>

MutexUnlock(a) ==
  /\ At(a, "unlock")
  /\ ~unlock_throws
  /\ mutex_unlock
  /\ GoTo(a, "cleared")
  /\ UNCHANGED <<serverVars, zenek, answer, result, logged, clientVars>>

\* The last call of log is followed by the return to run_single.
ClearOwned(a) ==
  /\ At(a, "cleared")
  /\ set_owns(FALSE)
  /\ IF logged[a] < LogCalls
     THEN GoTo(a, "lock") /\ UNCHANGED gpu_results_vec
     ELSE /\ GoTo(a, "record")
          /\ gpu_results_vec' = [gpu_results_vec EXCEPT ![Qid(a)] = result[a]]
  /\ UNCHANGED <<serverVars, zenek, answer, result, logged, main, i, results>>

Log(a) ==
  \/ LockThrows(a) \/ LockChecked(a) \/ MutexLock(a) \/ SetOwned(a)
  \/ PrintLine(a) \/ UnlockThrows(a) \/ MutexUnlock(a) \/ ClearOwned(a)

\* results[qid] = ms.count(), then run_single returns.
Record(a) ==
  /\ At(a, "record")
  /\ results' = results \cup {Qid(a)}
  /\ GoTo(a, "done")
  /\ UNCHANGED <<serverVars, zenek, answer, result, logged, logLockVars, main, i,
                 gpu_results_vec>>

Actor(a) ==
  \/ Pop(a) \/ Fill(a) \/ InputCopy(a) \/ InputSync(a) \/ Compute(a)
  \/ ComputeSync(a) \/ OutputCopy(a) \/ OutputSync(a) \/ Profile(a)
  \/ Finish(a) \/ Return(a) \/ Log(a) \/ Record(a)
-----------------------------------------------------------------------------
(* client::run_all and client::print_results.                              *)

WarmedUp ==
  /\ main = "warmup"
  /\ pc[Main] = "done"
  /\ main' = "spawn"
  /\ UNCHANGED <<serverVars, logLockVars, actorVars, i, results, gpu_results_vec>>

\* new std::thread(&client::run_single, this, i); the sleep before the next one
\* may take any time.
Spawn ==
  /\ main = "spawn"
  /\ i < NumQueries
  /\ GoTo(i, "pop")
  /\ i' = i + 1
  /\ UNCHANGED <<serverVars, logLockVars, zenek, answer, result, logged, main,
                 results, gpu_results_vec>>

\* Mutant: the first thread is not joined.
FirstNotJoined ==
  /\ main = "spawn"
  /\ i = NumQueries
  /\ main' = "join"
  /\ i' = 1
  /\ UNCHANGED <<serverVars, logLockVars, actorVars, results, gpu_results_vec>>

AllSpawned ==
  /\ main = "spawn"
  /\ i = NumQueries
  /\ main' = "join"
  /\ i' = 0
  /\ UNCHANGED <<serverVars, logLockVars, actorVars, results, gpu_results_vec>>

Join ==
  /\ main = "join"
  /\ i < NumQueries
  /\ pc[i] = "done"
  /\ i' = i + 1
  /\ UNCHANGED <<serverVars, logLockVars, actorVars, main, results,
                 gpu_results_vec>>

\* print_profiling reads kernel_time.at(j) of every query; at throws when the
\* vector is empty, and nobody catches it.
ProfileMissing == Profiling /\ \E q \in Queries : gpu_results_vec[q] = {}

\* print_results, then delete_zenek, whose loop runs to zenek_pool_size = 0.
PrintResults ==
  /\ main = "join"
  /\ i = NumQueries
  /\ main' = IF ProfileMissing THEN "crashed" ELSE "done"
  /\ UNCHANGED <<serverVars, logLockVars, actorVars, i, results, gpu_results_vec>>

MainThread == WarmedUp \/ Spawn \/ AllSpawned \/ Join \/ PrintResults

\* Lists already submitted go on while the process lives.
Gpu(z) ==
  /\ Alive
  /\ Device(z)
  /\ UNCHANGED <<zenek_pool_boost, logLockVars, actorVars, clientVars>>

Stopped ==
  /\ main \in {"done", "terminated", "crashed"}
  /\ UNCHANGED vars

Next ==
  \/ MainThread
  \/ \E a \in Actors : Actor(a)
  \/ \E z \in Zenons : Gpu(z)
  \/ Stopped

\* The scheduler runs every thread and the device completes what it is given.
Fairness ==
  /\ WF_vars(MainThread)
  /\ \A a \in Actors : WF_vars(Actor(a))
  /\ \A z \in Zenons : WF_vars(Gpu(z))

Spec == Init /\ [][Next]_vars
FairSpec == Spec /\ Fairness
-----------------------------------------------------------------------------
(* Properties.                                                             *)

TypeOK ==
  /\ ServerTypeOK
  /\ LogLockTypeOK(Actors)
  /\ pc \in [Actors -> Steps]
  /\ zenek \in [Actors -> Zenons \cup {None}]
  /\ answer \in [Actors -> Bytes \cup {None}]
  /\ result \in [Actors -> SUBSET (Bytes \cup {None})]
  /\ logged \in [Actors -> 0 .. LogCalls]
  /\ main \in {"warmup", "spawn", "join", "done", "crashed", "terminated"}
  /\ i \in 0 .. NumQueries
  /\ results \in SUBSET Queries
  /\ gpu_results_vec \in [Queries -> SUBSET (Bytes \cup {None})]

\* A zenon is in one place at a time: two threads never run on the same zenon
\* and no thread runs on a zenon another thread can still pop.
ZenonExclusion ==
  /\ \A a, b \in Actors : zenek[a] # None /\ zenek[a] = zenek[b] => a = b
  /\ \A a \in Actors : zenek[a] # None => ~Pooled(zenek[a])
  /\ \A m, n \in 1 .. Len(zenek_pool_boost) :
       zenek_pool_boost[m] = zenek_pool_boost[n] => m = n

\* No zenon drops out of circulation, whatever log throws.
NothingLost ==
  \A z \in Zenons : Pooled(z) \/ \E a \in Actors : zenek[a] = z

\* The two together: a zenon always is in exactly one place.
InOnePlace == ZenonExclusion /\ NothingLost

\* The host vector a query's run ends with was computed from that query's id,
\* although zenons are reused and their buffers keep the previous sample.
OwnAnswer ==
  \A a \in Actors :
    ~DisableBlitter /\ answer[a] # None => answer[a] = Byte(Qid(a))

\* The kernel times stored for a query were measured on that query's execution,
\* although gpu_result is a member of the reused zenon.
OwnProfile ==
  \A q \in Queries : ~DisableBlitter => gpu_results_vec[q] \subseteq {Byte(q)}

\* No command list is executed while an earlier execution of it is in flight,
\* which zeCommandQueueExecuteCommandLists forbids.
ListsNotInFlight ==
  \A a \in Actors :
    /\ pc[a] = "input_copy" => "input" \notin copying[zenek[a]]
    /\ pc[a] = "compute" => pending[zenek[a]] = 0
    /\ pc[a] = "output_copy" => "output" \notin copying[zenek[a]]

\* A zenon in the pool is quiet: nothing of it is in flight and none of its
\* events is left signalled for the next sample's kernels to be launched by.
QuietInPool ==
  \A z \in Zenons : Pooled(z) =>
    copying[z] = {} /\ pending[z] = 0 /\ ran[z] = {} /\ events[z] = {}

\* zenon::run never asks for the timestamp of an event that is not signalled,
\* so SUCCESS_OR_TERMINATE does not end the process.
NeverTerminated == main # "terminated"

\* When run_all prints its statistics every query has its duration, also the
\* queries whose try block an exception left.
AllRecorded == main \in {"done", "crashed"} => results = Queries

\* Without logging every thread stores its gpu_results before it is joined, so
\* print_profiling finds kernel times for every query.
ProfileComplete == ~Logging => main # "crashed"

\* Neither the device nor print_profiling ends the process before run_all does.
EndsNormally == NeverTerminated /\ ProfileComplete

\* Lines are logged one at a time, although log_lock is shared and unprotected.
LogExclusive ==
  \A a, b \in Actors : pc[a] = "print" /\ pc[b] = "print" => a = b

\* Nobody ever has another's answer, and when run_all prints every query has its
\* own, also the queries whose thread an exception of the log lock sent to the
\* catch block.
AllAnswered ==
  /\ OwnAnswer
  /\ main \in {"done", "crashed"} =>
       \A q \in Queries : ~DisableBlitter => answer[q] = Byte(q)

\* Who waits for the device waits for something the device can do, ...
DeviceAnswers(a) ==
  /\ pc[a] = "input_sync" => copy_idle(zenek[a], "input") \/ DeviceReady(zenek[a])
  /\ pc[a] = "compute_sync" => compute_idle(zenek[a]) \/ DeviceReady(zenek[a])
  /\ pc[a] = "output_sync" => copy_idle(zenek[a], "output") \/ DeviceReady(zenek[a])

\* ... who spins on the pool waits for a thread that holds a zenon, ...
PoolAnswers(a) ==
  pc[a] = "pop" /\ PoolSize > 0 =>
    zenek_pool_boost # <<>> \/ \E b \in Actors : pc[b] \in Running

\* ... who waits for the log's mutex waits for a thread that is logging, or for
\* one that unlock has thrown out, ...
MutexAnswers(a) ==
  pc[a] = "mutex" /\ mtx # Free =>
    pc[mtx] \in {"owned", "print", "unlock"} \cup {"record", "done"}

\* ... and run_all waits only for threads it has started.
RunAllAnswers ==
  /\ main = "warmup" => pc[Main] # "idle"
  /\ main = "join" => \A q \in Queries : pc[q] # "idle"

\* No thread waits for what nobody is going to do, except on the mutex of a log
\* call that unlock threw out of.
NobodyWaitsInVain ==
  /\ \A a \in Actors : DeviceAnswers(a) /\ PoolAnswers(a) /\ MutexAnswers(a)
  /\ RunAllAnswers

\* How far an actor has come: the log's loop goes round once per line, ...
Position ==
  [idle |-> 0, pop |-> 1, fill |-> 2, input_copy |-> 3, input_sync |-> 4,
   compute |-> 5, compute_sync |-> 6, output_copy |-> 7, output_sync |-> 8,
   profile |-> 9, finish |-> 10, return |-> 11, unlock |-> 12, cleared |-> 13,
   lock |-> 14, mutex |-> 15, owned |-> 16, print |-> 17, record |-> 18,
   done |-> 19]
Progress(a) == 20 * logged[a] + Position[pc[a]]

\* ... and how far run_all has come.
MainProgress ==
  CASE main = "warmup" -> 0
    [] main = "spawn" -> 1 + i
    [] main = "join" -> NumQueries + 2 + i
    [] OTHER -> 2 * NumQueries + 3

\* Nobody goes back, and every step brings run_all, a thread or the device
\* forward: exceptions of log send no query round again, and the process can
\* take only so many steps.
GoesForward ==
  [][/\ MainProgress' >= MainProgress
     /\ \A a \in Actors : Progress(a)' >= Progress(a)
     /\ \/ MainProgress' > MainProgress
        \/ \E a \in Actors : Progress(a)' > Progress(a)
        \/ WorkDone]_vars

\* While kernels run or a copy is in flight nobody changes what they read.
SourcesStable ==
  [][\A z \in Zenons :
       /\ "input" \in copying[z] => input'[z] = input[z]
       /\ pending[z] > 0 => dev_input'[z] = dev_input[z]
       /\ "output" \in copying[z] => dev_result'[z] = dev_result[z]]_vars

\* Every query is run and joined and run_all ends.
Completes == <>(main = "done")

\* In the end every zenon is back in the pool, even when log has left the
\* process stuck on its mutex.
ZenonsComeBack == <>[](\A z \in Zenons : Pooled(z))

AnswerTo(a) == Byte(Qid(a))
Service == INSTANCE QueryService
  WITH Nothing <- None, borrowed <- zenek, given <- answer,
       served <- {a \in Actors : pc[a] = "done"}

\* Threads, pool, lists and events together are the plain query service.
ImplementsService == Service!Spec
=============================================================================
