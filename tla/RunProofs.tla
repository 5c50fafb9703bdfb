------------------------------ MODULE RunProofs ------------------------------
(***************************************************************************)
(* Theorems of Threaded about the run as a whole: what is recorded when it *)
(* ends, the lines it logs, what changes under running kernels, and that   *)
(* it implements QueryService.                                             *)
(***************************************************************************)
EXTENDS StageProofs

-----------------------------------------------------------------------------
(* Recording.                                                              *)

\* A thread that has ended has recorded its duration, ...
DoneInv == \A q \in Queries : pc[q] = "done" => q \in results

\* ... and run_all passes only the threads that have ended.
JoinInv ==
  /\ main = "join" => \A j \in Queries : j < i => pc[j] = "done"
  /\ main \in {"done", "crashed"} => \A j \in Queries : pc[j] = "done"

RecordInv == StageInv /\ DoneInv /\ JoinInv

LEMMA RecordInit == Init => RecordInv
<1> SUFFICES ASSUME Init PROVE RecordInv
  OBVIOUS
<1>1. DoneInv /\ JoinInv
  BY ActorsFacts DEF Init, DoneInv, JoinInv
<1> QED BY <1>1, StageInit DEF RecordInv

\* An actor that is done takes no step and run_all does not move for others'.
LEMMA RecordActor ==
  ASSUME RecordInv, NEW a \in Actors, Actor(a)
  PROVE  DoneInv' /\ JoinInv'
<1>0. /\ pc \in [Actors -> Steps] /\ CoreInv /\ StageOK(a) /\ ProfileInv
  BY DEF RecordInv, StageInv, LendingInv, CoreInv, TypeOK
<1>1. \A c \in Actors \ {a} : pc'[c] = pc[c]
  BY <1>0, ActorFrame
<1>2. pc[a] # "done"
  BY DEF Actor, Pop, Fill, InputCopy, InputSync, Compute, ComputeSync, OutputCopy,
         OutputSync, Profile, Finish, Return, Log, LockThrows, LockChecked, MutexLock,
         SetOwned, PrintLine, UnlockThrows, MutexUnlock, ClearOwned, Record, At
<1>3. /\ i' = i
      /\ main' = main
  <2>1. CASE Profile(a)
    <3>1. timestamps_ready(zenek[a])
      BY <1>0, <2>1, ZenonAssumption
      DEF Profile, At, timestamps_ready, StageOK, EventStage, Running
    <3> QED BY <2>1, <3>1 DEF Profile
  <2>2. CASE ~Profile(a)
    BY <2>2 DEF Actor, Pop, Fill, InputCopy, InputSync, Compute, ComputeSync, OutputCopy,
         OutputSync, Finish, Return, Log, LockThrows, LockChecked, MutexLock,
         SetOwned, PrintLine, UnlockThrows, MutexUnlock, ClearOwned, Record, Catch,
         clientVars
  <2> QED BY <2>1, <2>2
<1>4. /\ results \subseteq results'
      /\ pc'[a] = "done" => Qid(a) \in results'
  <2>1. CASE Record(a)
    BY <2>1 DEF Record
  <2>2. CASE ~Record(a)
    BY <1>0, <1>2, <2>2
    DEF Actor, Pop, Fill, InputCopy, InputSync, Compute, ComputeSync, OutputCopy,
        OutputSync, Profile, Finish, Return, Log, LockThrows, LockChecked, MutexLock,
        SetOwned, PrintLine, UnlockThrows, MutexUnlock, ClearOwned, Catch, GoTo,
        clientVars, AfterOutput
  <2> QED BY <2>1, <2>2
<1>5. DoneInv'
  BY <1>1, <1>4, ActorsFacts DEF RecordInv, DoneInv, Qid
<1>6. JoinInv'
  BY <1>1, <1>2, <1>3, ActorsFacts DEF RecordInv, JoinInv
<1> QED BY <1>5, <1>6

LEMMA RecordMain ==
  ASSUME RecordInv, MainThread
  PROVE  DoneInv' /\ JoinInv'
<1>0. /\ pc \in [Actors -> Steps] /\ i \in 0 .. NumQueries /\ LoopInv
      /\ DoneInv /\ JoinInv
  BY DEF RecordInv, StageInv, LendingInv, CoreInv, TypeOK
<1>1. CASE Spawn
  BY <1>0, <1>1 DEF Spawn, GoTo, DoneInv, JoinInv
<1>2. CASE Join
  BY <1>0, <1>2, ThreadedAssumption DEF Join, actorVars, DoneInv, JoinInv, Queries
<1>3. CASE PrintResults
  BY <1>0, <1>3, ThreadedAssumption DEF PrintResults, actorVars, DoneInv, JoinInv, Queries
<1>4. CASE AllSpawned
  BY <1>0, <1>4, ThreadedAssumption DEF AllSpawned, actorVars, DoneInv, JoinInv, Queries
<1>5. CASE WarmedUp
  BY <1>0, <1>5 DEF WarmedUp, actorVars, DoneInv, JoinInv
<1> QED BY <1>1, <1>2, <1>3, <1>4, <1>5 DEF MainThread

LEMMA RecordNext == RecordInv /\ [Next]_vars => RecordInv'
<1> SUFFICES ASSUME RecordInv, [Next]_vars PROVE RecordInv'
  OBVIOUS
<1>1. StageInv'
  BY StageNext DEF RecordInv
<1>2. CASE \E a \in Actors : Actor(a)
  BY <1>1, <1>2, RecordActor DEF RecordInv
<1>3. CASE MainThread
  BY <1>1, <1>3, RecordMain DEF RecordInv
<1>4. CASE (\E z \in Zenons : Gpu(z)) \/ Stopped \/ UNCHANGED vars
  <2>1. UNCHANGED <<pc, results, main, i>>
    BY <1>4 DEF Gpu, Stopped, vars, actorVars, clientVars
  <2> QED BY <1>1, <2>1 DEF RecordInv, DoneInv, JoinInv
<1> QED BY <1>2, <1>3, <1>4 DEF Next

\* When run_all prints its statistics, every query's duration is there, also of
\* the threads whose try block an exception of the log lock left.
THEOREM AllRecordedHolds == Spec => []AllRecorded
<1>1. RecordInv => AllRecorded
  BY DEF RecordInv, DoneInv, JoinInv, AllRecorded, StageInv, LendingInv, CoreInv, TypeOK
<1> QED BY <1>1, RecordInit, RecordNext, PTL DEF Spec
-----------------------------------------------------------------------------
(* Profiling.                                                              *)

\* Kernel times travel from the zenon to the actor to the client, and without
\* logging nothing comes between.
TimesInv ==
  Profiling /\ ~Logging =>
    \A a \in Actors :
      /\ pc[a] \notin LogSteps
      /\ pc[a] = "finish" => gpu_result[zenek[a]] # {}
      /\ pc[a] = "return" => result[a] # {}
      /\ pc[a] \in {"record", "done"} => gpu_results_vec[Qid(a)] # {}

ProfiledInv == RecordInv /\ TimesInv /\ ProfileComplete

LEMMA ProfiledInit == Init => ProfiledInv
<1> SUFFICES ASSUME Init PROVE ProfiledInv
  OBVIOUS
<1>1. TimesInv /\ ProfileComplete
  BY DEF Init, TimesInv, ProfileComplete, LogSteps
<1> QED BY <1>1, RecordInit DEF ProfiledInv

LEMMA ProfiledActor ==
  ASSUME ProfiledInv, Profiling, ~Logging, NEW a \in Actors, Actor(a)
  PROVE  TimesInv'
<1>0. /\ CoreInv /\ pc \in [Actors -> Steps] /\ zenek \in [Actors -> Zenons \cup {None}]
      /\ result \in [Actors -> SUBSET (Bytes \cup {None})]
      /\ gpu_result \in [Zenons -> SUBSET (Bytes \cup {None})]
      /\ gpu_results_vec \in [Queries -> SUBSET (Bytes \cup {None})]
      /\ \A c \in Actors : pc[c] \in Running => zenek[c] \in Zenons
      /\ \A b, c \in Actors : zenek[b] # None /\ zenek[b] = zenek[c] => b = c
      /\ TimesInv
  BY DEF ProfiledInv, RecordInv, StageInv, LendingInv, ZenonExclusion, CoreInv, TypeOK,
         ServerTypeOK, ZenonTypeOK, Linked
<1>1. /\ \A c \in Actors \ {a} : pc'[c] = pc[c] /\ zenek'[c] = zenek[c]
      /\ \A c \in Actors \ {a} : answer'[c] = answer[c] /\ result'[c] = result[c]
      /\ \A y \in Zenons : y # zenek[a] => Untouched(y)
  BY <1>0, ActorFrame
<1>2. /\ pc'[a] \notin LogSteps
      /\ pc'[a] = "finish" => gpu_result'[zenek'[a]] # {}
      /\ pc'[a] = "return" => result'[a] # {}
      /\ pc'[a] \in {"record", "done"} => gpu_results_vec'[Qid(a)] # {}
      /\ \/ gpu_results_vec' = gpu_results_vec
         \/ result[a] # {} /\ gpu_results_vec' = [gpu_results_vec EXCEPT ![Qid(a)] = result[a]]
  <2> USE DEF GoTo, At, TimesInv, LogSteps, Running, clientVars
  <2>1. CASE Profile(a)
    <3>1. timestamps_ready(zenek[a])
      BY <1>0, <2>1, ZenonAssumption
      DEF Profile, timestamps_ready, ProfiledInv, RecordInv, StageInv, StageOK, EventStage
    <3>2. /\ pc[a] = "profile" /\ pc' = [pc EXCEPT ![a] = "finish"]
          /\ zenek' = zenek /\ gpu_results_vec' = gpu_results_vec
          /\ gpu_result' = [gpu_result EXCEPT ![zenek[a]] = {dev_input[zenek[a]]}]
      BY <2>1, <3>1 DEF Profile, read_timestamps
    <3>3. zenek[a] \in Zenons
      BY <1>0, <3>2
    <3>4. pc'[a] = "finish" /\ gpu_result'[zenek'[a]] # {}
      BY <1>0, <3>2, <3>3
    <3> QED BY <3>2, <3>4
  <2>2. CASE Finish(a)
    BY <1>0, <2>2 DEF Finish
  <2>3. CASE Return(a)
    BY <1>0, <2>3, ActorsFacts DEF Return
  <2>4. CASE Record(a)
    BY <1>0, <2>4 DEF Record
  <2>5. CASE Log(a)
    BY <1>0, <2>5 DEF Log, LockThrows, LockChecked, MutexLock, SetOwned, PrintLine,
                      UnlockThrows, MutexUnlock, ClearOwned
  <2>6. CASE ~(Profile(a) \/ Finish(a) \/ Return(a) \/ Record(a) \/ Log(a))
    BY <1>0, <2>6 DEF Actor, Pop, Fill, InputCopy, InputSync, Compute, ComputeSync,
                      OutputCopy, OutputSync, AfterOutput
  <2> QED BY <2>1, <2>2, <2>3, <2>4, <2>5, <2>6
<1>3. ASSUME NEW c \in Actors, c # a
      PROVE  /\ pc'[c] \notin LogSteps
             /\ pc'[c] = "finish" => gpu_result'[zenek'[c]] # {}
             /\ pc'[c] = "return" => result'[c] # {}
             /\ pc'[c] \in {"record", "done"} => gpu_results_vec'[Qid(c)] # {}
  <2>1. pc[c] = "finish" => zenek[c] \in Zenons /\ zenek[c] # zenek[a]
    BY <1>0, <1>3, NoneFacts DEF Running
  <2>2. gpu_results_vec[Qid(c)] # {} => gpu_results_vec'[Qid(c)] # {}
    BY <1>0, <1>2, ActorsFacts
  <2>3. /\ pc'[c] = pc[c] /\ zenek'[c] = zenek[c] /\ result'[c] = result[c]
        /\ pc[c] = "finish" => gpu_result'[zenek[c]] = gpu_result[zenek[c]]
    BY <1>1, <1>3, <2>1 DEF Untouched
  <2>4. /\ pc[c] \notin LogSteps
        /\ pc[c] = "finish" => gpu_result[zenek[c]] # {}
        /\ pc[c] = "return" => result[c] # {}
        /\ pc[c] \in {"record", "done"} => gpu_results_vec[Qid(c)] # {}
    BY <1>0 DEF TimesInv
  <2> QED BY <2>2, <2>3, <2>4
<1> QED BY <1>2, <1>3 DEF TimesInv

LEMMA ProfiledNext == ProfiledInv /\ [Next]_vars => ProfiledInv'
<1> SUFFICES ASSUME ProfiledInv, [Next]_vars PROVE ProfiledInv'
  OBVIOUS
<1>1. RecordInv'
  BY RecordNext DEF ProfiledInv
<1>2. TimesInv'
  <2> SUFFICES ASSUME Profiling, ~Logging PROVE TimesInv'
    BY DEF TimesInv
  <2>1. CASE \E a \in Actors : Actor(a)
    BY <2>1, ProfiledActor
  <2>2. CASE ~ \E a \in Actors : Actor(a)
    <3>1. UNCHANGED <<gpu_result, zenek, result, gpu_results_vec>>
      BY <2>2 DEF Next, MainThread, WarmedUp, Spawn, AllSpawned, Join, PrintResults, Gpu,
                  Device, DeviceInputCopy, DeviceKernel, DeviceRetire, DeviceOutputCopy,
                  hostVars, Stopped, vars, serverVars, zenonVars, actorVars, clientVars
    <3>2. \A c \in Actors : pc'[c] = pc[c] \/ pc'[c] = "pop"
      BY <2>2 DEF Next, MainThread, WarmedUp, Spawn, AllSpawned, Join, PrintResults, Gpu,
                  Stopped, vars, actorVars, GoTo, ProfiledInv, RecordInv, StageInv,
                  LendingInv, CoreInv, TypeOK
    <3> QED BY <3>1, <3>2 DEF ProfiledInv, TimesInv, LogSteps
  <2> QED BY <2>1, <2>2
<1>3. ProfileComplete'
  <2> SUFFICES ASSUME ~Logging, main' = "crashed", main # "crashed" PROVE FALSE
    BY DEF ProfiledInv, ProfileComplete
  <2>1. PrintResults /\ ProfileMissing
    BY DEF Next, MainThread, WarmedUp, Spawn, AllSpawned, Join, PrintResults, Gpu, Stopped,
           vars, clientVars, Actor, Pop, Fill, InputCopy, InputSync, Compute, ComputeSync,
           OutputCopy, OutputSync, Profile, Finish, Return, Log, LockThrows, LockChecked,
           MutexLock, SetOwned, PrintLine, UnlockThrows, MutexUnlock, ClearOwned, Record,
           Catch
  <2>2. \A j \in Queries : pc[j] = "done"
    <3>1. main' = "crashed" /\ JoinInv' /\ pc' = pc
      BY <1>1, <2>1 DEF RecordInv, PrintResults, actorVars
    <3> QED BY <3>1 DEF JoinInv
  <2>3. \A j \in Queries : gpu_results_vec[j] # {}
    BY <2>1, <2>2, ActorsFacts DEF ProfileMissing, ProfiledInv, TimesInv, Qid
  <2> QED BY <2>1, <2>3 DEF ProfileMissing
<1> QED BY <1>1, <1>2, <1>3 DEF ProfiledInv

\* Without --log print_profiling finds the kernel times of every query.
THEOREM ProfileCompleteHolds == Spec => []ProfileComplete
<1>1. ProfiledInv => ProfileComplete
  BY DEF ProfiledInv
<1> QED BY <1>1, ProfiledInit, ProfiledNext, PTL DEF Spec

\* Nothing ends the process before run_all does, but that log may cost a profile.
THEOREM EndsNormallyHolds == Spec => []EndsNormally
<1>1. NeverTerminated /\ ProfileComplete => EndsNormally
  BY DEF EndsNormally
<1> QED BY <1>1, NeverTerminatedHolds, ProfileCompleteHolds, PTL
-----------------------------------------------------------------------------
(* Logging.                                                                *)

\* From its mutex call to its unlock an actor holds the mutex, whatever the flag
\* of the lock object says.
HoldsInv == \A a \in Actors : pc[a] \in {"owned", "print", "unlock"} => mtx = a

LogHeldInv == CoreInv /\ HoldsInv

LEMMA LogHeldNext == LogHeldInv /\ [Next]_vars => LogHeldInv'
<1> SUFFICES ASSUME LogHeldInv, [Next]_vars PROVE LogHeldInv'
  OBVIOUS
<1>0. CoreInv' /\ HoldsInv /\ CoreInv /\ pc \in [Actors -> Steps]
  BY CoreNext DEF LogHeldInv, CoreInv, TypeOK
<1>1. ASSUME NEW a \in Actors, Actor(a) PROVE HoldsInv'
  <2>0. \A c \in Actors \ {a} : pc'[c] = pc[c]
    BY <1>0, <1>1, ActorFrame
  <2>1. CASE MutexLock(a)
    <3>1. mtx = Free /\ mtx' = a /\ Free \notin Actors
      BY <2>1, ThreadedAssumption DEF MutexLock, mutex_lock, Actors, Queries, Main
    <3> QED BY <1>0, <2>0, <3>1 DEF HoldsInv
  <2>2. CASE MutexUnlock(a)
    <3>1. mtx = a /\ pc' = [pc EXCEPT ![a] = "cleared"]
      BY <1>0, <2>2 DEF MutexUnlock, At, GoTo, HoldsInv
    <3> QED BY <1>0, <2>0, <3>1 DEF HoldsInv
  <2>3. CASE ~MutexLock(a) /\ ~MutexUnlock(a)
    <3>1. mtx' = mtx
      BY <1>1, <2>3
      DEF Actor, Pop, Fill, InputCopy, InputSync, Compute, ComputeSync, OutputCopy,
          OutputSync, Profile, Finish, Return, Log, LockThrows, LockChecked, SetOwned,
          PrintLine, UnlockThrows, ClearOwned, Record, Catch, set_owns, logLockVars
    <3>2. pc'[a] \in {"owned", "print", "unlock"} =>
            pc[a] \in {"owned", "print", "unlock"}
      BY <1>0, <1>1, <2>3
      DEF Actor, Pop, Fill, InputCopy, InputSync, Compute, ComputeSync, OutputCopy,
          OutputSync, Profile, Finish, Return, Log, LockThrows, LockChecked, SetOwned,
          PrintLine, UnlockThrows, ClearOwned, Record, Catch, At, GoTo, AfterOutput
    <3> QED BY <1>0, <2>0, <3>1, <3>2 DEF HoldsInv
  <2> QED BY <2>1, <2>2, <2>3
<1>2. CASE ~ \E a \in Actors : Actor(a)
  <2>1. mtx' = mtx
    BY <1>2 DEF Next, MainThread, WarmedUp, Spawn, AllSpawned, Join, PrintResults, Gpu,
                Stopped, vars, logLockVars
  <2>2. \A c \in Actors : pc'[c] = pc[c] \/ pc'[c] = "pop"
    BY <1>0, <1>2 DEF Next, MainThread, WarmedUp, Spawn, AllSpawned, Join, PrintResults,
                      Gpu, Stopped, vars, actorVars, GoTo
  <2>3. ASSUME NEW c \in Actors, pc'[c] \in {"owned", "print", "unlock"}
        PROVE  mtx' = c
    <3>1. pc[c] \in {"owned", "print", "unlock"}
      BY <2>2, <2>3
    <3> QED BY <1>0, <2>1, <3>1 DEF HoldsInv
  <2> QED BY <1>0, <2>3 DEF HoldsInv, LogHeldInv
<1> QED BY <1>0, <1>1, <1>2 DEF LogHeldInv

\* Two threads never print a line at a time, although log_lock is one object that
\* all of them lock and unlock without protection.
THEOREM LogExclusiveHolds == Spec => []LogExclusive
<1>1. Init => LogHeldInv
  BY CoreInit DEF LogHeldInv, HoldsInv, Init
<1>2. LogHeldInv => LogExclusive
  BY DEF LogHeldInv, HoldsInv, LogExclusive
<1> QED BY <1>1, <1>2, LogHeldNext, PTL DEF Spec
-----------------------------------------------------------------------------
(* What running lists read.                                                *)

LEMMA StableStep ==
  ASSUME StageInv, [Next]_vars, NEW z \in Zenons
  PROVE  /\ "input" \in copying[z] => input'[z] = input[z]
         /\ pending[z] > 0 => dev_input'[z] = dev_input[z]
         /\ "output" \in copying[z] => dev_result'[z] = dev_result[z]
<1>0. CoreInv /\ ZenonTypeOK
  BY DEF StageInv, LendingInv, CoreInv, TypeOK, ServerTypeOK
<1>1. CASE Pooled(z)
  BY <1>0, <1>1 DEF StageInv, QuietInPool
<1>2. CASE ~Pooled(z)
  <2>1. PICK a \in Actors : zenek[a] = z
    BY <1>2 DEF StageInv, LendingInv, NothingLost
  <2>2. InFlight(z, pc[a]) /\ pc[a] \in Running
    BY <1>0, <2>1, NoneFacts DEF StageInv, StageOK, CoreInv, Linked
  <2>3. CASE Actor(a)
    <3>1. CASE Fill(a)
      BY <1>0, <2>1, <2>2, <3>1 DEF Fill, fill_inputs, At, InFlight, deviceVars
    <3>2. CASE ~Fill(a)
      <4>1. UNCHANGED <<input, dev_input, dev_result>>
        BY <2>3, <3>2
        DEF Actor, Pop, InputCopy, InputSync, Compute, ComputeSync, OutputCopy,
            OutputSync, Profile, Finish, Return, Log, LockThrows, LockChecked, MutexLock,
            SetOwned, PrintLine, UnlockThrows, MutexUnlock, ClearOwned, Record, Catch,
            get_zenon_atomic, return_zenon_atomic, execute_copy, execute_compute,
            read_timestamps, reset_events, serverVars, zenonVars, hostVars, deviceVars
      <4> QED BY <4>1
    <3> QED BY <3>1, <3>2
  <2>4. ASSUME NEW c \in Actors, c # a, Actor(c)
        PROVE  Untouched(z)
    <3>1. zenek[c] # z
      BY <2>1, <2>4, NoneFacts DEF StageInv, LendingInv, ZenonExclusion
    <3> QED BY <1>0, <2>4, <3>1, ActorFrame
  <2>5. ASSUME NEW y \in Zenons, Gpu(y)
        PROVE  /\ "input" \in copying[z] => input'[z] = input[z]
               /\ pending[z] > 0 => dev_input'[z] = dev_input[z]
               /\ "output" \in copying[z] => dev_result'[z] = dev_result[z]
    <3>1. Device(y)
      BY <2>5 DEF Gpu
    <3>2. CASE DeviceInputCopy(y)
      BY <1>0, <2>2, <3>2 DEF DeviceInputCopy, hostVars, InFlight, ZenonTypeOK
    <3>3. CASE \E k \in Kernels : DeviceKernel(y, k)
      <4> PICK k \in Kernels : DeviceKernel(y, k)
        BY <3>3
      <4>1. /\ pending[y] > 0 /\ input' = input /\ dev_input' = dev_input
            /\ y # z => dev_result'[z] = dev_result[z]
        BY <1>0 DEF DeviceKernel, hostVars, ZenonTypeOK
      <4> QED BY <2>2, <4>1 DEF InFlight
    <3>4. CASE DeviceRetire(y) \/ DeviceOutputCopy(y)
      BY <3>4 DEF DeviceRetire, DeviceOutputCopy, hostVars
    <3> QED BY <3>1, <3>2, <3>3, <3>4 DEF Device
  <2>6. CASE MainThread \/ Stopped \/ UNCHANGED vars
    <3>1. UNCHANGED zenonVars
      BY <2>6 DEF MainThread, WarmedUp, Spawn, AllSpawned, Join, PrintResults, Stopped,
                  vars, serverVars
    <3> QED BY <3>1 DEF zenonVars
  <2> QED BY <2>3, <2>4, <2>5, <2>6 DEF Next, Untouched
<1> QED BY <1>1, <1>2

\* While kernels run or a copy is in flight nobody changes what they read.
THEOREM SourcesStableHolds == Spec => SourcesStable
<1>1. StageInv /\ [Next]_vars =>
        [\A z \in Zenons :
           /\ "input" \in copying[z] => input'[z] = input[z]
           /\ pending[z] > 0 => dev_input'[z] = dev_input[z]
           /\ "output" \in copying[z] => dev_result'[z] = dev_result[z]]_vars
  BY StableStep
<1> QED BY <1>1, StageCorrect, PTL DEF Spec, SourcesStable
-----------------------------------------------------------------------------
(* The query service.  Every step of the threads, the pool and the device  *)
(* is one of its four steps or none.  Without the blitter the shown output *)
(* is not the one copied to the host, so the theorem assumes that the      *)
(* blitter is on.                                                          *)

\* An actor has an answer from the end of its zenon::run on.
Unanswered == {"idle", "pop"} \cup (Running \ {"return"})
AnsweredInv == \A a \in Actors : answer[a] = None <=> pc[a] \in Unanswered

ServiceInv == StageInv /\ AnsweredInv

LEMMA ServiceInit == Init => ServiceInv /\ Service!Init
<1> SUFFICES ASSUME Init PROVE ServiceInv /\ Service!Init
  OBVIOUS
<1>1. AnsweredInv
  BY DEF Init, AnsweredInv, Unanswered
<1>2. Service!Init
  BY DEF Init, Service!Init
<1> QED BY <1>1, <1>2, StageInit DEF ServiceInv

\* A step that neither borrows, answers, gives back nor ends.
LEMMA ServiceStutter ==
  ASSUME AnsweredInv, UNCHANGED <<zenek, answer>>, pc \in [Actors -> Steps],
         \A a \in Actors : /\ pc'[a] \in Unanswered <=> pc[a] \in Unanswered
                           /\ pc'[a] = "done" <=> pc[a] = "done"
  PROVE  AnsweredInv' /\ UNCHANGED Service!qsVars
  BY DEF AnsweredInv, Service!qsVars

LEMMA ServicePop ==
  ASSUME ServiceInv, NEW a \in Actors, Pop(a)
  PROVE  AnsweredInv' /\ Service!Next
<1>0. /\ zenek \in [Actors -> Zenons \cup {None}] /\ pc \in [Actors -> Steps]
      /\ zenek_pool_boost \in Seq(Zenons)
      /\ Linked /\ ZenonExclusion /\ AnsweredInv
  BY DEF ServiceInv, StageInv, LendingInv, CoreInv, TypeOK, ServerTypeOK
<1>1. PICK z \in Zenons : /\ get_zenon_atomic(z)
                          /\ zenek' = [zenek EXCEPT ![a] = z]
  BY DEF Pop
<1>2. /\ pc[a] = "pop" /\ pc' = [pc EXCEPT ![a] = "fill"] /\ answer' = answer
      /\ zenek[a] = None /\ answer[a] = None
  BY <1>0 DEF Pop, At, GoTo, Linked, Running, AnsweredInv, Unanswered
<1>3. \A b \in Actors : zenek[b] # z
  <2>1. zenek_pool_boost # <<>> /\ z = zenek_pool_boost[1]
    BY <1>0, <1>1 DEF get_zenon_atomic
  <2>2. Pooled(z)
    BY <1>0, <2>1 DEF Pooled
  <2> QED BY <1>0, <2>2, NoneFacts DEF ZenonExclusion
<1>4. {b \in Actors : pc'[b] = "done"} = {b \in Actors : pc[b] = "done"}
  BY <1>0, <1>2
<1>5. Service!Borrow(a, z)
  BY <1>0, <1>1, <1>2, <1>3, <1>4 DEF Service!Borrow, Service!Idle
<1>6. AnsweredInv'
  BY <1>0, <1>2 DEF AnsweredInv, Unanswered, Running
<1> QED BY <1>5, <1>6 DEF Service!Next

LEMMA ServiceFinish ==
  ASSUME ~DisableBlitter, ServiceInv, NEW a \in Actors, Finish(a)
  PROVE  AnsweredInv' /\ Service!Next
<1>0. /\ zenek \in [Actors -> Zenons \cup {None}] /\ pc \in [Actors -> Steps]
      /\ answer \in [Actors -> Bytes \cup {None}]
      /\ Linked /\ AnsweredInv /\ StageOK(a)
  BY DEF ServiceInv, StageInv, LendingInv, CoreInv, TypeOK
<1>1. /\ pc[a] = "finish" /\ pc' = [pc EXCEPT ![a] = "return"] /\ zenek' = zenek
      /\ zenek[a] # None /\ answer[a] = None
      /\ answer' = [answer EXCEPT ![a] = output[zenek[a]]]
  BY <1>0 DEF Finish, At, GoTo, Linked, Running, AnsweredInv, Unanswered, shown_output
<1>2. output[zenek[a]] = AnswerTo(a)
  BY <1>0, <1>1 DEF StageOK, DataStage, Running, AnswerTo
<1>3. AnswerTo(a) # None
  BY ByteType, ActorsFacts, NoneFacts DEF AnswerTo
<1>4. {b \in Actors : pc'[b] = "done"} = {b \in Actors : pc[b] = "done"}
  BY <1>0, <1>1
<1>5. Service!Answer(a)
  BY <1>1, <1>2, <1>4 DEF Service!Answer
<1>6. AnsweredInv'
  BY <1>0, <1>1, <1>2, <1>3 DEF AnsweredInv, Unanswered, Running
<1> QED BY <1>5, <1>6 DEF Service!Next

LEMMA ServiceReturn ==
  ASSUME ServiceInv, NEW a \in Actors, Return(a)
  PROVE  AnsweredInv' /\ Service!Next
<1>0. pc \in [Actors -> Steps] /\ Linked /\ AnsweredInv
  BY DEF ServiceInv, StageInv, LendingInv, CoreInv, TypeOK
<1>1. /\ pc[a] = "return" /\ zenek[a] # None /\ answer[a] # None
      /\ zenek' = [zenek EXCEPT ![a] = None] /\ answer' = answer
      /\ \/ pc' = [pc EXCEPT ![a] = "lock"]
         \/ pc' = [pc EXCEPT ![a] = "record"]
  BY <1>0 DEF Return, At, GoTo, Linked, Running, AnsweredInv, Unanswered
<1>2. {b \in Actors : pc'[b] = "done"} = {b \in Actors : pc[b] = "done"}
  BY <1>0, <1>1
<1>3. Service!GiveBack(a)
  BY <1>1, <1>2 DEF Service!GiveBack
<1>4. AnsweredInv'
  BY <1>0, <1>1 DEF AnsweredInv, Unanswered, Running
<1> QED BY <1>3, <1>4 DEF Service!Next

LEMMA ServiceRecord ==
  ASSUME ServiceInv, NEW a \in Actors, Record(a)
  PROVE  AnsweredInv' /\ Service!Next
<1>0. pc \in [Actors -> Steps] /\ Linked /\ AnsweredInv
  BY DEF ServiceInv, StageInv, LendingInv, CoreInv, TypeOK
<1>1. /\ pc[a] = "record" /\ zenek[a] = None /\ answer[a] # None
      /\ zenek' = zenek /\ answer' = answer
      /\ pc' = [pc EXCEPT ![a] = "done"]
  BY <1>0 DEF Record, At, GoTo, Linked, Running, AnsweredInv, Unanswered, CoreInv
<1>2. {b \in Actors : pc'[b] = "done"} = {b \in Actors : pc[b] = "done"} \cup {a}
  BY <1>0, <1>1
<1>3. Service!Serve(a)
  BY <1>1, <1>2 DEF Service!Serve
<1>4. AnsweredInv'
  BY <1>0, <1>1 DEF AnsweredInv, Unanswered, Running
<1> QED BY <1>3, <1>4 DEF Service!Next

LEMMA ServiceActor ==
  ASSUME ~DisableBlitter, ServiceInv, NEW a \in Actors, Actor(a)
  PROVE  AnsweredInv' /\ [Service!Next]_(Service!qsVars)
<1>1. CASE Pop(a)
  BY <1>1, ServicePop
<1>2. CASE Finish(a)
  BY <1>2, ServiceFinish
<1>3. CASE Return(a)
  BY <1>3, ServiceReturn
<1>4. CASE Record(a)
  BY <1>4, ServiceRecord
<1>5. CASE ~(Pop(a) \/ Finish(a) \/ Return(a) \/ Record(a))
  <2>0. pc \in [Actors -> Steps] /\ AnsweredInv
    BY DEF ServiceInv, StageInv, LendingInv, CoreInv, TypeOK
  <2>1. UNCHANGED <<zenek, answer>>
    BY <1>5
    DEF Actor, Fill, InputCopy, InputSync, Compute, ComputeSync, OutputCopy, OutputSync,
        Profile, Log, LockThrows, LockChecked, MutexLock, SetOwned, PrintLine,
        UnlockThrows, MutexUnlock, ClearOwned, Catch
  <2>2. \A c \in Actors \ {a} : pc'[c] = pc[c]
    BY ActorFrame DEF ServiceInv, StageInv, LendingInv
  <2>3. /\ pc'[a] \in Unanswered <=> pc[a] \in Unanswered
        /\ pc'[a] = "done" <=> pc[a] = "done"
    BY <1>5, <2>0
    DEF Actor, Fill, InputCopy, InputSync, Compute, ComputeSync, OutputCopy, OutputSync,
        Profile, Log, LockThrows, LockChecked, MutexLock, SetOwned, PrintLine,
        UnlockThrows, MutexUnlock, ClearOwned, Catch, At, GoTo, AfterOutput, Unanswered,
        Running
  <2>4. \A c \in Actors : /\ pc'[c] \in Unanswered <=> pc[c] \in Unanswered
                          /\ pc'[c] = "done" <=> pc[c] = "done"
    BY <2>2, <2>3
  <2> QED BY <2>0, <2>1, <2>4, ServiceStutter
<1> QED BY <1>1, <1>2, <1>3, <1>4, <1>5

LEMMA ServiceNext ==
  ASSUME ~DisableBlitter, ServiceInv, [Next]_vars
  PROVE  ServiceInv' /\ [Service!Next]_(Service!qsVars)
<1>0. StageInv' /\ pc \in [Actors -> Steps] /\ AnsweredInv
  BY StageNext DEF ServiceInv, StageInv, LendingInv, CoreInv, TypeOK
<1>1. CASE \E a \in Actors : Actor(a)
  BY <1>0, <1>1, ServiceActor DEF ServiceInv
<1>2. CASE MainThread \/ (\E z \in Zenons : Gpu(z)) \/ Stopped \/ UNCHANGED vars
  <2>1. UNCHANGED <<zenek, answer>>
    BY <1>2 DEF MainThread, WarmedUp, Spawn, AllSpawned, Join, PrintResults, Gpu, Stopped,
                vars, actorVars
  <2>2. \A c \in Actors :
          pc'[c] = pc[c] \/ (pc[c] = "idle" /\ pc'[c] = "pop")
    <3>1. CASE Spawn
      <4>1. LoopInv /\ i \in 0 .. NumQueries
        BY DEF ServiceInv, StageInv, LendingInv, CoreInv, TypeOK
      <4>2. i \in Queries /\ i \in Actors /\ pc[i] = "idle"
        BY <3>1, <4>1, ActorsFacts, ThreadedAssumption DEF Spawn, LoopInv, Queries
      <4>3. pc' = [pc EXCEPT ![i] = "pop"]
        BY <3>1 DEF Spawn, GoTo
      <4> QED BY <1>0, <4>2, <4>3
    <3>2. CASE ~Spawn
      <4>1. pc' = pc
        BY <1>2, <3>2 DEF MainThread, WarmedUp, AllSpawned, Join, PrintResults, Gpu,
                          Stopped, vars, actorVars
      <4> QED BY <4>1
    <3> QED BY <3>1, <3>2
  <2>3. \A c \in Actors : /\ pc'[c] \in Unanswered <=> pc[c] \in Unanswered
                          /\ pc'[c] = "done" <=> pc[c] = "done"
    BY <2>2 DEF Unanswered
  <2> QED BY <1>0, <2>1, <2>3, ServiceStutter DEF ServiceInv
<1> QED BY <1>1, <1>2 DEF Next

\* With the blitter on, the threads, the pool of zenons, the command lists and
\* the events together do nothing but serve queries: each borrows an idle zenon,
\* gets its own answer while it has it, gives it back and ends once.
THEOREM ServiceImplemented == ~DisableBlitter => (Spec => ImplementsService)
<1> SUFFICES ASSUME ~DisableBlitter PROVE Spec => Service!Spec
  BY DEF ImplementsService
<1>1. Init => ServiceInv /\ Service!Init
  BY ServiceInit
<1>2. ServiceInv /\ [Next]_vars => ServiceInv' /\ [Service!Next]_(Service!qsVars)
  BY ServiceNext
<1> QED BY <1>1, <1>2, PTL DEF Spec, Service!Spec
-----------------------------------------------------------------------------
(* What is answered when the run ends.                                     *)

\* Nobody has another's answer, and when run_all prints every query has its own,
\* whatever log threw.
THEOREM AllAnsweredHolds == Spec => []AllAnswered
<1>1. CASE DisableBlitter
  <2>1. AllAnswered
    BY <1>1 DEF AllAnswered, OwnAnswer
  <2> QED BY <2>1, PTL
<1>2. CASE ~DisableBlitter
  <2>1. Init => RecordInv /\ ServiceInv
    BY RecordInit, ServiceInit
  <2>2. RecordInv /\ ServiceInv /\ [Next]_vars => (RecordInv /\ ServiceInv)'
    BY <1>2, RecordNext, ServiceNext
  <2>3. RecordInv /\ ServiceInv => AllAnswered
    <3> SUFFICES ASSUME RecordInv, AnsweredInv, OwnAnswer, main \in {"done", "crashed"},
                        NEW q \in Queries
                 PROVE  answer[q] = Byte(q)
      BY DEF AllAnswered, ServiceInv, RecordInv, StageInv, StoredInv
    <3>1. pc[q] = "done" /\ q \in Actors /\ Qid(q) = q
      BY ActorsFacts DEF RecordInv, JoinInv, Qid
    <3>2. answer[q] # None
      BY <3>1 DEF AnsweredInv, Unanswered, Running
    <3> QED BY <1>2, <3>1, <3>2 DEF OwnAnswer
  <2> QED BY <2>1, <2>2, <2>3, PTL DEF Spec
<1> QED BY <1>1, <1>2
-----------------------------------------------------------------------------
(* Who waits, and for what.                                                *)

\* The mutex is held from the call that locks it to the one that unlocks it, and
\* for ever if unlock throws.
HeldInv ==
  mtx # Free => pc[mtx] \in {"owned", "print", "unlock"} \cup {"record", "done"}

\* The actors run_all has started.
StartedInv ==
  /\ main = "warmup" => pc[Main] # "idle"
  /\ main = "spawn" => \A j \in Queries : j < i => pc[j] # "idle"
  /\ main = "join" => \A j \in Queries : pc[j] # "idle"

WaitInv == StageInv /\ HeldInv /\ StartedInv

LEMMA WaitInit == Init => WaitInv
<1> SUFFICES ASSUME Init PROVE WaitInv
  OBVIOUS
<1>1. HeldInv
  BY DEF Init, LogLockInit, HeldInv
<1>2. StartedInv
  BY ActorsFacts, ThreadedAssumption DEF Init, StartedInv, Queries
<1> QED BY <1>1, <1>2, StageInit DEF WaitInv

\* A step of an actor.
LEMMA WaitActor ==
  ASSUME WaitInv, NEW a \in Actors, Actor(a)
  PROVE  HeldInv' /\ StartedInv'
<1>0. /\ CoreInv /\ pc \in [Actors -> Steps] /\ mtx \in Actors \cup {Free}
      /\ Free \notin Actors
  BY ThreadedAssumption
  DEF WaitInv, StageInv, LendingInv, CoreInv, TypeOK, LogLockTypeOK, Actors, Queries, Main
<1>1. \A c \in Actors \ {a} : pc'[c] = pc[c]
  BY <1>0, ActorFrame
<1>2. pc'[a] # "idle" /\ i' = i /\ (main' = main \/ main' = "terminated")
  BY <1>0
  DEF Actor, Pop, Fill, InputCopy, InputSync, Compute, ComputeSync, OutputCopy,
      OutputSync, Profile, Finish, Return, Log, LockThrows, LockChecked, MutexLock,
      SetOwned, PrintLine, UnlockThrows, MutexUnlock, ClearOwned, Record, Catch, At, GoTo,
      AfterOutput, clientVars
<1>3. StartedInv'
  BY <1>1, <1>2, ActorsFacts DEF WaitInv, StartedInv
<1>4. HeldInv'
  <2>1. CASE MutexLock(a)
    <3>1. mtx' = a /\ pc'[a] = "owned"
      BY <1>0, <2>1 DEF MutexLock, mutex_lock, GoTo
    <3> QED BY <3>1 DEF HeldInv
  <2>2. CASE MutexUnlock(a)
    BY <2>2 DEF MutexUnlock, mutex_unlock, HeldInv
  <2>3. CASE ~MutexLock(a) /\ ~MutexUnlock(a)
    <3>1. mtx' = mtx
      BY <2>3
      DEF Actor, Pop, Fill, InputCopy, InputSync, Compute, ComputeSync, OutputCopy,
          OutputSync, Profile, Finish, Return, Log, LockThrows, LockChecked, SetOwned,
          PrintLine, UnlockThrows, ClearOwned, Record, Catch, set_owns, logLockVars
    <3>2. pc[a] \in {"owned", "print", "unlock"} \cup {"record", "done"} =>
            pc'[a] \in {"owned", "print", "unlock"} \cup {"record", "done"}
      BY <1>0, <2>3
      DEF Actor, Pop, Fill, InputCopy, InputSync, Compute, ComputeSync, OutputCopy,
          OutputSync, Profile, Finish, Return, Log, LockThrows, LockChecked, SetOwned,
          PrintLine, UnlockThrows, ClearOwned, Record, Catch, At, GoTo
    <3> QED BY <1>0, <1>1, <3>1, <3>2 DEF WaitInv, HeldInv
  <2> QED BY <2>1, <2>2, <2>3
<1> QED BY <1>3, <1>4

LEMMA WaitNext == WaitInv /\ [Next]_vars => WaitInv'
<1> SUFFICES ASSUME WaitInv, [Next]_vars PROVE WaitInv'
  OBVIOUS
<1>0. /\ StageInv' /\ pc \in [Actors -> Steps] /\ mtx \in Actors \cup {Free}
      /\ i \in 0 .. NumQueries /\ LoopInv
  BY StageNext DEF WaitInv, StageInv, LendingInv, CoreInv, TypeOK, LogLockTypeOK
<1>1. CASE \E a \in Actors : Actor(a)
  BY <1>0, <1>1, WaitActor DEF WaitInv
<1>2. CASE Spawn
  <2>1. /\ i \in Queries /\ i \in Actors /\ pc[i] = "idle" /\ main = "spawn"
        /\ pc' = [pc EXCEPT ![i] = "pop"] /\ i' = i + 1 /\ main' = main /\ mtx' = mtx
    BY <1>0, <1>2, ActorsFacts, ThreadedAssumption
    DEF Spawn, GoTo, LoopInv, Queries, logLockVars
  <2>2. HeldInv'
    BY <1>0, <2>1 DEF WaitInv, HeldInv
  <2>3. StartedInv'
    BY <1>0, <2>1, ActorsFacts, ThreadedAssumption DEF WaitInv, StartedInv, Queries
  <2> QED BY <1>0, <2>2, <2>3 DEF WaitInv
<1>3. CASE ~Spawn /\ ~ \E a \in Actors : Actor(a)
  <2>1. mtx' = mtx /\ pc' = pc
    BY <1>3 DEF Next, MainThread, WarmedUp, AllSpawned, Join, PrintResults, Gpu, Stopped,
                vars, logLockVars, actorVars
  <2>2. HeldInv'
    BY <2>1 DEF WaitInv, HeldInv
  <2>3. StartedInv'
    <3>1. CASE WarmedUp
      BY <1>0, <2>1, <3>1, ThreadedAssumption DEF WarmedUp, StartedInv, LoopInv, Queries
    <3>2. CASE AllSpawned
      BY <1>0, <2>1, <3>2, ThreadedAssumption DEF AllSpawned, WaitInv, StartedInv, Queries
    <3>3. CASE ~WarmedUp /\ ~AllSpawned
      <4>1. main' \in {"done", "crashed"} \/ (main' = main /\ (i' = i \/ main = "join"))
        BY <1>3, <3>3 DEF Next, MainThread, Join, PrintResults, Gpu, Stopped, vars, clientVars
      <4> QED BY <2>1, <4>1 DEF WaitInv, StartedInv
    <3> QED BY <3>1, <3>2, <3>3
  <2> QED BY <1>0, <2>2, <2>3 DEF WaitInv
<1> QED BY <1>1, <1>2, <1>3

\* A borrower waits for lists it has submitted and for kernels whose events are
\* in the graph, so the device has a step to take for it.
LEMMA DeviceAnswersAll ==
  ASSUME StageInv, NEW a \in Actors
  PROVE  DeviceAnswers(a)
<1> SUFFICES ASSUME pc[a] \in {"input_sync", "compute_sync", "output_sync"}
             PROVE  DeviceAnswers(a)
  BY DEF DeviceAnswers
<1>1. /\ ZenonTypeOK /\ zenek[a] \in Zenons
      /\ InFlight(zenek[a], pc[a]) /\ EventStage(zenek[a], pc[a])
  BY DEF StageInv, StageOK, LendingInv, CoreInv, TypeOK, ServerTypeOK, Linked, Running
<1>2. pc[a] = "input_sync" => copy_idle(zenek[a], "input") \/ DeviceReady(zenek[a])
  BY DEF copy_idle, DeviceReady
<1>3. pc[a] = "compute_sync" => compute_idle(zenek[a]) \/ DeviceReady(zenek[a])
  BY <1>1, ComputeReady DEF compute_idle, EventStage
<1>4. pc[a] = "output_sync" => copy_idle(zenek[a], "output") \/ DeviceReady(zenek[a])
  BY <1>1, ZenonAssumption DEF copy_idle, DeviceReady, EventStage
<1> QED BY <1>2, <1>3, <1>4 DEF DeviceAnswers

\* A zenon that is not in the pool is with a thread that runs on it.
LEMMA PoolAnswersAll ==
  ASSUME StageInv, NEW a \in Actors
  PROVE  PoolAnswers(a)
<1> SUFFICES ASSUME PoolSize > 0, zenek_pool_boost = <<>>
             PROVE  \E b \in Actors : pc[b] \in Running
  BY DEF PoolAnswers
<1>1. 0 \in Zenons /\ ~Pooled(0)
  BY ZenonAssumption DEF Zenons, Pooled
<1>2. PICK b \in Actors : zenek[b] = 0
  BY <1>1 DEF StageInv, LendingInv, NothingLost
<1> QED BY <1>1, <1>2, NoneFacts DEF StageInv, LendingInv, CoreInv, Linked

\* Whoever waits waits for somebody who can go on, whatever the graph, the number
\* of zenons and of queries: the one wait in vain is for the mutex that a thread
\* still held when unlock threw.
THEOREM NobodyWaitsInVainHolds == Spec => []NobodyWaitsInVain
<1>1. WaitInv => NobodyWaitsInVain
  <2> SUFFICES ASSUME WaitInv PROVE NobodyWaitsInVain
    OBVIOUS
  <2>1. \A a \in Actors : DeviceAnswers(a) /\ PoolAnswers(a)
    BY DeviceAnswersAll, PoolAnswersAll DEF WaitInv
  <2>2. \A a \in Actors : MutexAnswers(a)
    BY DEF WaitInv, HeldInv, MutexAnswers
  <2>3. RunAllAnswers
    BY DEF WaitInv, StartedInv, RunAllAnswers
  <2> QED BY <2>1, <2>2, <2>3 DEF NobodyWaitsInVain
<1> QED BY <1>1, WaitInit, WaitNext, PTL DEF Spec
-----------------------------------------------------------------------------
(* Every step leads forward.                                               *)

\* The order of run_single's steps.
LEMMA PositionFacts ==
  /\ Position["idle"] = 0 /\ Position["pop"] = 1
  /\ Position["fill"] = 2 /\ Position["input_copy"] = 3
  /\ Position["input_sync"] = 4 /\ Position["compute"] = 5
  /\ Position["compute_sync"] = 6 /\ Position["output_copy"] = 7
  /\ Position["output_sync"] = 8 /\ Position["profile"] = 9
  /\ Position["finish"] = 10 /\ Position["return"] = 11
  /\ Position["unlock"] = 12 /\ Position["cleared"] = 13
  /\ Position["lock"] = 14 /\ Position["mutex"] = 15
  /\ Position["owned"] = 16 /\ Position["print"] = 17
  /\ Position["record"] = 18 /\ Position["done"] = 19
  BY DEF Position

LEMMA PositionType == \A s \in Steps : Position[s] \in 0 .. 19
  BY PositionFacts DEF Steps, Running, LogSteps

\* Threads go forward.
LEMMA ActorForward ==
  ASSUME StageInv, NEW a \in Actors, Actor(a)
  PROVE  /\ MainProgress' = MainProgress
         /\ Progress(a)' > Progress(a) /\ Progress(a)' >= Progress(a)
         /\ \A c \in Actors \ {a} : Progress(c)' = Progress(c)
<1>0. /\ CoreInv /\ pc \in [Actors -> Steps] /\ logged \in [Actors -> 0 .. LogCalls]
      /\ StageOK(a) /\ ProfileInv
  BY DEF StageInv, LendingInv, CoreInv, TypeOK
<1>1. Profile(a) => timestamps_ready(zenek[a])
  BY <1>0, ZenonAssumption
  DEF Profile, At, timestamps_ready, StageOK, EventStage, Running
<1>2. main' = main /\ i' = i
  BY <1>1
  DEF Actor, Pop, Fill, InputCopy, InputSync, Compute, ComputeSync, OutputCopy,
      OutputSync, Profile, Finish, Return, Log, LockThrows, LockChecked, MutexLock,
      SetOwned, PrintLine, UnlockThrows, MutexUnlock, ClearOwned, Record, Catch,
      clientVars
<1>3. \A c \in Actors \ {a} : pc'[c] = pc[c] /\ logged'[c] = logged[c]
  <2>1. \A c \in Actors \ {a} : logged'[c] = logged[c]
    BY <1>0
    DEF Actor, Pop, Fill, InputCopy, InputSync, Compute, ComputeSync, OutputCopy,
        OutputSync, Profile, Finish, Return, Log, LockThrows, LockChecked, MutexLock,
        SetOwned, PrintLine, UnlockThrows, MutexUnlock, ClearOwned, Record, Catch
  <2> QED BY <1>0, <2>1, ActorFrame
<1>6. pc'[a] \in Steps
  BY <1>0, ActorType DEF TypeOK
<1>4. Progress(a)' > Progress(a) /\ Progress(a)' >= Progress(a)
  <2>1. CASE PrintLine(a)
    BY <1>0, <2>1, PositionFacts DEF PrintLine, At, GoTo, Progress, LogCalls
  <2>2. CASE ~PrintLine(a)
    <3>1. logged' = logged
      BY <2>2
      DEF Actor, Pop, Fill, InputCopy, InputSync, Compute, ComputeSync, OutputCopy,
          OutputSync, Profile, Finish, Return, Log, LockThrows, LockChecked, MutexLock,
          SetOwned, UnlockThrows, MutexUnlock, ClearOwned, Record, Catch
    <3>2. Position[pc'[a]] > Position[pc[a]]
      <4> USE <1>0, PositionFacts DEF At, GoTo
      <4>1. CASE Pop(a) \/ Fill(a) \/ InputCopy(a) \/ InputSync(a) \/ Compute(a)
        BY <4>1 DEF Pop, Fill, InputCopy, InputSync, Compute
      <4>2. CASE ComputeSync(a) \/ OutputCopy(a) \/ OutputSync(a)
        BY <4>2 DEF ComputeSync, OutputCopy, OutputSync, AfterOutput
      <4>3. CASE Profile(a)
        BY <1>1, <4>3 DEF Profile
      <4>4. CASE Finish(a) \/ Return(a) \/ Record(a)
        BY <4>4 DEF Finish, Return, Record
      <4>5. CASE Log(a)
        <5>1. CASE LockThrows(a) \/ LockChecked(a) \/ UnlockThrows(a)
          BY <5>1 DEF LockThrows, LockChecked, UnlockThrows, Catch
        <5>2. CASE MutexLock(a) \/ MutexUnlock(a)
          BY <5>2 DEF MutexLock, MutexUnlock
        <5>3. CASE SetOwned(a)
          BY <5>3 DEF SetOwned, set_owns
        <5>4. CASE ClearOwned(a)
          BY <5>4 DEF ClearOwned
        <5> QED BY <2>2, <4>5, <5>1, <5>2, <5>3, <5>4 DEF Log
      <4> QED BY <4>1, <4>2, <4>3, <4>4, <4>5 DEF Actor
    <3>3. Position[pc'[a]] \in 0 .. 19 /\ Position[pc[a]] \in 0 .. 19
      BY <1>0, <1>6, PositionType
    <3> QED BY <1>0, <3>1, <3>2, <3>3 DEF Progress, LogCalls
  <2> QED BY <2>1, <2>2
<1>5. \A c \in Actors \ {a} : Progress(c)' = Progress(c)
  BY <1>3 DEF Progress
<1>7. MainProgress' = MainProgress
  BY <1>2 DEF MainProgress
<1> QED BY <1>4, <1>5, <1>7

\* run_all goes forward, over each thread it starts and over each it joins.
LEMMA MainForward ==
  ASSUME StageInv, MainThread
  PROVE  /\ MainProgress' > MainProgress /\ MainProgress' >= MainProgress
         /\ \A c \in Actors : Progress(c)' >= Progress(c)
<1>0. /\ pc \in [Actors -> Steps] /\ logged \in [Actors -> 0 .. LogCalls]
      /\ i \in 0 .. NumQueries /\ NumQueries \in Nat /\ LoopInv
  BY ThreadedAssumption DEF StageInv, LendingInv, CoreInv, TypeOK
<1>1. logged' = logged
  BY DEF MainThread, WarmedUp, Spawn, AllSpawned, Join, PrintResults, actorVars
<1>2. MainProgress' > MainProgress /\ MainProgress' >= MainProgress
  <2>1. CASE WarmedUp
    BY <1>0, <2>1 DEF WarmedUp, MainProgress
  <2>2. CASE Spawn
    BY <1>0, <2>2 DEF Spawn, MainProgress
  <2>3. CASE AllSpawned
    BY <1>0, <2>3 DEF AllSpawned, MainProgress
  <2>4. CASE Join
    BY <1>0, <2>4 DEF Join, MainProgress
  <2>5. CASE PrintResults
    BY <1>0, <2>5 DEF PrintResults, MainProgress
  <2> QED BY <2>1, <2>2, <2>3, <2>4, <2>5 DEF MainThread
<1>3. CASE Spawn
  <2>1. /\ i \in Queries /\ i \in Actors /\ pc[i] = "idle"
        /\ pc' = [pc EXCEPT ![i] = "pop"]
    BY <1>0, <1>3, ActorsFacts DEF Spawn, GoTo, LoopInv, Queries
  <2>2. ASSUME NEW c \in Actors PROVE Progress(c)' >= Progress(c)
    <3>1. Position[pc'[c]] >= Position[pc[c]]
      <4>1. CASE c = i
        BY <1>0, <2>1, <4>1, PositionFacts
      <4>2. CASE c # i
        <5>1. pc'[c] = pc[c]
          BY <1>0, <2>1, <4>2
        <5> QED BY <1>0, <5>1, PositionType
      <4> QED BY <4>1, <4>2
    <3>2. Position[pc'[c]] \in 0 .. 19 /\ Position[pc[c]] \in 0 .. 19
      <4>1. pc'[c] \in Steps
        BY <1>0, <2>1 DEF Steps
      <4> QED BY <1>0, <4>1, PositionType
    <3> QED BY <1>0, <1>1, <3>1, <3>2 DEF Progress, LogCalls
  <2> QED BY <1>2, <2>2
<1>4. CASE ~Spawn
  <2>1. pc' = pc
    BY <1>4 DEF MainThread, WarmedUp, AllSpawned, Join, PrintResults, actorVars
  <2>2. ASSUME NEW c \in Actors PROVE Progress(c)' = Progress(c) /\ Progress(c) \in Nat
    BY <1>0, <1>1, <2>1, PositionType DEF Progress, LogCalls
  <2> QED BY <1>2, <2>2
<1> QED BY <1>3, <1>4

\* The device goes forward on the zenon some thread has.
LEMMA GpuForward ==
  ASSUME StageInv, NEW z \in Zenons, Gpu(z)
  PROVE  /\ MainProgress' = MainProgress
         /\ \A c \in Actors : Progress(c)' = Progress(c)
         /\ WorkDone
<1>1. UNCHANGED <<pc, logged, main, i>> /\ Device(z) /\ ZenonTypeOK
  BY DEF Gpu, actorVars, clientVars, StageInv, LendingInv, CoreInv, TypeOK, ServerTypeOK
<1>2. pending[z] = 0 => ran[z] = {}
  <2>1. CASE Pooled(z)
    BY <2>1 DEF StageInv, QuietInPool
  <2>2. CASE ~Pooled(z)
    <3>1. PICK a \in Actors : zenek[a] = z
      BY <2>2 DEF StageInv, LendingInv, NothingLost
    <3> QED BY <3>1, NoneFacts
            DEF StageInv, StageOK, EventStage, LendingInv, CoreInv, Linked
  <2> QED BY <2>1, <2>2
<1>3. WorkDone
  BY <1>1, <1>2, DeviceWorks
<1> QED BY <1>1, <1>3 DEF MainProgress, Progress

\* A thread goes at most once through run_single, run_all at most once over its
\* threads and the device only through what it was given, for any number of
\* queries: each step uses up some of what is left to do.
THEOREM GoesForwardHolds == Spec => GoesForward
<1>1. StageInv /\ [Next]_vars =>
        [/\ MainProgress' >= MainProgress
         /\ \A a \in Actors : Progress(a)' >= Progress(a)
         /\ \/ MainProgress' > MainProgress
            \/ \E a \in Actors : Progress(a)' > Progress(a)
            \/ WorkDone]_vars
  <2> SUFFICES ASSUME StageInv, Next
               PROVE  \/ /\ MainProgress' >= MainProgress
                         /\ \A a \in Actors : Progress(a)' >= Progress(a)
                         /\ \/ MainProgress' > MainProgress
                            \/ \E a \in Actors : Progress(a)' > Progress(a)
                            \/ WorkDone
                      \/ UNCHANGED vars
    OBVIOUS
  <2>0. /\ MainProgress \in Int
        /\ \A c \in Actors : Progress(c) \in Int
    <3>1. /\ pc \in [Actors -> Steps] /\ logged \in [Actors -> 0 .. LogCalls]
          /\ i \in 0 .. NumQueries /\ NumQueries \in Nat
      BY ThreadedAssumption DEF StageInv, LendingInv, CoreInv, TypeOK
    <3>2. \A c \in Actors : Progress(c) \in Int
      BY <3>1, PositionType DEF Progress, LogCalls
    <3>3. MainProgress \in Int
      BY <3>1 DEF MainProgress
    <3> QED BY <3>2, <3>3
  <2>1. ASSUME NEW a \in Actors, Actor(a)
        PROVE  /\ MainProgress' >= MainProgress
               /\ \A c \in Actors : Progress(c)' >= Progress(c)
               /\ Progress(a)' > Progress(a)
    <3>1. /\ MainProgress' = MainProgress
          /\ Progress(a)' > Progress(a) /\ Progress(a)' >= Progress(a)
          /\ \A c \in Actors \ {a} : Progress(c)' = Progress(c)
      BY <2>1, ActorForward
    <3> QED BY <2>0, <3>1
  <2>2. CASE MainThread
    BY <2>2, MainForward
  <2>3. CASE \E z \in Zenons : Gpu(z)
    <3>1. /\ MainProgress' = MainProgress /\ WorkDone
          /\ \A c \in Actors : Progress(c)' = Progress(c)
      BY <2>3, GpuForward
    <3> QED BY <2>0, <3>1
  <2> QED BY <2>1, <2>2, <2>3 DEF Next, Stopped
<1> QED BY <1>1, StageCorrect, PTL DEF Spec, GoesForward
=============================================================================
