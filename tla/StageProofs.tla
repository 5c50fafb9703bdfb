----------------------------- MODULE StageProofs -----------------------------
(***************************************************************************)
(* Theorems of Threaded about what a query finds and leaves on the zenon   *)
(* it has borrowed.                                                        *)
(***************************************************************************)
EXTENDS ThreadedProofs

-----------------------------------------------------------------------------
(* The inductive invariant: what zenon z is doing while its borrower, whose *)
(* inputs are byte b, is at step p of zenon::run.                           *)

\* Which lists are in flight: only the one the borrower waits for.
InFlight(z, p) ==
  /\ "input" \in copying[z] => p = "input_sync"
  /\ "output" \in copying[z] => p = "output_sync"
  /\ pending[z] # 0 => p = "compute_sync" /\ pending[z] = 1

\* Which events are set: those of the kernels that ran since the last reset.
EventStage(z, p) ==
  /\ pending[z] = 0 => ran[z] = {}
  /\ pending[z] # 0 => events[z] = ran[z]
  /\ p \in {"fill", "input_copy", "input_sync", "compute", "return"} => events[z] = {}
  /\ p \in {"output_copy", "output_sync", "profile", "finish"} => events[z] = Kernels
  /\ p = "compute_sync" /\ pending[z] = 0 => events[z] = Kernels

\* How far byte b has come: host vector, device input, device result, output.
DataStage(z, p, b) ==
  /\ p # "fill" => input[z] = b
  /\ p = "input_sync" => "input" \in copying[z] \/ dev_input[z] = b
  /\ p \notin {"fill", "input_copy", "input_sync"} => DisableBlitter \/ dev_input[z] = b
  /\ Writer \in events[z] => DisableBlitter \/ dev_result[z] = b
  /\ p = "output_sync" => "output" \in copying[z] \/ DisableBlitter \/ output[z] = b
  /\ p \in {"profile", "finish"} => DisableBlitter \/ output[z] = b
  /\ p = "finish" => DisableBlitter \/ gpu_result[z] \subseteq {b}

\* What holds of an actor that has a zenon.
StageOK(a) ==
  pc[a] \in Running =>
    /\ InFlight(zenek[a], pc[a])
    /\ EventStage(zenek[a], pc[a])
    /\ DataStage(zenek[a], pc[a], Byte(Qid(a)))

\* Without --profiling no zenon ever has kernel times.
ProfileInv ==
  /\ ~Profiling => \A z \in Zenons : gpu_result[z] = {}
  /\ \A a \in Actors : pc[a] = "profile" => Profiling

\* What an actor and the client have stored is their own.
StoredInv ==
  /\ OwnAnswer
  /\ \A a \in Actors : DisableBlitter \/ result[a] \subseteq {Byte(Qid(a))}
  /\ OwnProfile

StageInv ==
  /\ LendingInv
  /\ \A a \in Actors : StageOK(a)
  /\ ProfileInv
  /\ QuietInPool
  /\ mixed = {}
  /\ StoredInv
  /\ NeverTerminated

LEMMA StageInit == Init => StageInv
<1> SUFFICES ASSUME Init PROVE StageInv
  OBVIOUS
<1>1. \A a \in Actors : pc[a] \notin Running /\ pc[a] # "profile"
  BY DEF Init, Running
<1>2. /\ mixed = {}
      /\ \A z \in Zenons : /\ copying[z] = {} /\ pending[z] = 0 /\ ran[z] = {}
                           /\ events[z] = {} /\ gpu_result[z] = {}
  BY DEF Init, ServerInit, ZenonInit
<1>3. StoredInv
  BY DEF Init, StoredInv, OwnAnswer, OwnProfile
<1> QED BY <1>1, <1>2, <1>3, LendingInit
        DEF StageInv, StageOK, ProfileInv, QuietInPool, NeverTerminated, Init
-----------------------------------------------------------------------------
(* What a step leaves alone.                                               *)

\* Nothing of zenon y changes.
Untouched(y) ==
  /\ input'[y] = input[y] /\ output'[y] = output[y] /\ gpu_result'[y] = gpu_result[y]
  /\ dev_input'[y] = dev_input[y] /\ dev_result'[y] = dev_result[y]
  /\ copying'[y] = copying[y] /\ pending'[y] = pending[y]
  /\ ran'[y] = ran[y] /\ events'[y] = events[y]

\* An actor whose zenon nobody touches stays where it was.
LEMMA StageFrame ==
  ASSUME NEW c \in Actors, StageOK(c), pc'[c] = pc[c], zenek'[c] = zenek[c],
         Untouched(zenek[c])
  PROVE  StageOK(c)'
<1>1. InFlight(zenek[c], pc[c]) => InFlight(zenek[c], pc[c])'
  BY DEF InFlight, Untouched
<1>2. EventStage(zenek[c], pc[c]) => EventStage(zenek[c], pc[c])'
  BY DEF EventStage, Untouched
<1>3. DataStage(zenek[c], pc[c], Byte(Qid(c))) =>
        DataStage(zenek[c], pc[c], Byte(Qid(c)))'
  BY DEF DataStage, Untouched
<1> QED BY <1>1, <1>2, <1>3 DEF StageOK

\* An actor's step touches no zenon but its own and moves no other actor.
LEMMA ActorFrame ==
  ASSUME CoreInv, NEW a \in Actors, Actor(a)
  PROVE  /\ \A c \in Actors \ {a} : pc'[c] = pc[c] /\ zenek'[c] = zenek[c]
         /\ \A c \in Actors \ {a} : answer'[c] = answer[c] /\ result'[c] = result[c]
         /\ \A y \in Zenons : y # zenek[a] => Untouched(y)
<1>0. /\ pc \in [Actors -> Steps]
      /\ zenek \in [Actors -> Zenons \cup {None}]
      /\ answer \in [Actors -> Bytes \cup {None}]
      /\ result \in [Actors -> SUBSET (Bytes \cup {None})]
      /\ ZenonTypeOK
  BY DEF CoreInv, TypeOK, ServerTypeOK
<1> USE DEF GoTo, Untouched, ZenonTypeOK, zenonVars, hostVars, deviceVars, serverVars
<1>1. CASE Pop(a)
  BY <1>0, <1>1 DEF Pop, get_zenon_atomic
<1>2. CASE Fill(a)
  BY <1>0, <1>2 DEF Fill, fill_inputs
<1>3. CASE InputCopy(a)
  BY <1>0, <1>3 DEF InputCopy, execute_copy
<1>4. CASE InputSync(a)
  BY <1>0, <1>4 DEF InputSync
<1>5. CASE Compute(a)
  BY <1>0, <1>5 DEF Compute, execute_compute
<1>6. CASE ComputeSync(a)
  BY <1>0, <1>6 DEF ComputeSync
<1>7. CASE OutputCopy(a)
  BY <1>0, <1>7 DEF OutputCopy, execute_copy
<1>8. CASE OutputSync(a)
  BY <1>0, <1>8 DEF OutputSync
<1>9. CASE Profile(a)
  <2>1. CASE timestamps_ready(zenek[a])
    BY <1>0, <1>9, <2>1 DEF Profile, read_timestamps
  <2>2. CASE ~timestamps_ready(zenek[a])
    BY <1>0, <1>9, <2>2 DEF Profile
  <2> QED BY <2>1, <2>2
<1>10. CASE Finish(a)
  BY <1>0, <1>10 DEF Finish, reset_events
<1>11. CASE Return(a)
  BY <1>0, <1>11 DEF Return, return_zenon_atomic
<1>12. CASE Log(a)
  <2>1. CASE LockThrows(a) \/ UnlockThrows(a)
    BY <1>0, <2>1 DEF LockThrows, UnlockThrows, Catch
  <2>2. CASE ClearOwned(a)
    <3>1. /\ UNCHANGED serverVars /\ zenek' = zenek
          /\ answer' = answer /\ result' = result
          /\ \E step \in Steps : pc' = [pc EXCEPT ![a] = step]
      BY <2>2 DEF ClearOwned, Steps, LogSteps
    <3> QED BY <1>0, <3>1
  <2>3. CASE ~(LockThrows(a) \/ UnlockThrows(a) \/ ClearOwned(a))
    BY <1>0, <1>12, <2>3 DEF Log, LockChecked, MutexLock, SetOwned, PrintLine, MutexUnlock
  <2> QED BY <2>1, <2>2, <2>3
<1>13. CASE Record(a)
  BY <1>0, <1>13 DEF Record
<1> QED BY <1>1, <1>2, <1>3, <1>4, <1>5, <1>6, <1>7, <1>8, <1>9, <1>10, <1>11,
           <1>12, <1>13 DEF Actor
-----------------------------------------------------------------------------
(* What a step does to the zenon it is about.                              *)

\* A pop finds a quiet zenon.
LEMMA StagePop ==
  ASSUME StageInv, NEW a \in Actors, Pop(a)
  PROVE  StageOK(a)'
<1>1. /\ zenek'[a] \in Zenons /\ Pooled(zenek'[a])
      /\ pc'[a] = "fill" /\ UNCHANGED zenonVars
  <2>1. PICK z \in Zenons : /\ get_zenon_atomic(z)
                            /\ zenek' = [zenek EXCEPT ![a] = z]
    BY DEF Pop
  <2>2. zenek_pool_boost \in Seq(Zenons) /\ zenek_pool_boost # <<>> /\ z = zenek_pool_boost[1]
    BY <2>1 DEF get_zenon_atomic, StageInv, LendingInv, CoreInv, TypeOK, ServerTypeOK
  <2>3. Pooled(z)
    BY <2>2 DEF Pooled
  <2> QED BY <2>1, <2>3
          DEF Pop, GoTo, get_zenon_atomic, StageInv, LendingInv, CoreInv, TypeOK
<1>2. /\ copying[zenek'[a]] = {} /\ pending[zenek'[a]] = 0
      /\ ran[zenek'[a]] = {} /\ events[zenek'[a]] = {}
  BY <1>1 DEF StageInv, QuietInPool
<1>3. /\ copying'[zenek'[a]] = {} /\ pending'[zenek'[a]] = 0
      /\ ran'[zenek'[a]] = {} /\ events'[zenek'[a]] = {}
  BY <1>1, <1>2 DEF zenonVars
<1> QED BY <1>1, <1>3 DEF StageOK, InFlight, EventStage, DataStage

\* A borrower's step keeps its zenon in the stage its pc says.
LEMMA StageRun ==
  ASSUME StageInv, NEW a \in Actors, pc[a] \in Running, Actor(a)
  PROVE  StageOK(a)'
<1>0. /\ pc \in [Actors -> Steps]
      /\ zenek[a] \in Zenons
      /\ ZenonTypeOK
      /\ InFlight(zenek[a], pc[a])
      /\ EventStage(zenek[a], pc[a])
      /\ DataStage(zenek[a], pc[a], Byte(Qid(a)))
  BY DEF StageInv, StageOK, LendingInv, CoreInv, TypeOK, ServerTypeOK, Linked
<1> USE DEF GoTo, At, StageOK, InFlight, EventStage, DataStage, ZenonTypeOK, zenonVars,
            hostVars, deviceVars, serverVars, Running
<1>2. CASE Fill(a)
  BY <1>0, <1>2 DEF Fill, fill_inputs
<1>3. CASE InputCopy(a)
  BY <1>0, <1>3 DEF InputCopy, execute_copy
<1>4. CASE InputSync(a)
  BY <1>0, <1>4 DEF InputSync, copy_idle
<1>5. CASE Compute(a)
  <2>1. /\ pending[zenek[a]] = 0 /\ ran[zenek[a]] = {} /\ events[zenek[a]] = {}
        /\ pending'[zenek[a]] = 1 /\ pc'[a] = "compute_sync" /\ zenek'[a] = zenek[a]
    BY <1>0, <1>5 DEF Compute, execute_compute
  <2> QED BY <1>0, <1>5, <2>1 DEF Compute, execute_compute
<1>6. CASE ComputeSync(a)
  BY <1>0, <1>6 DEF ComputeSync, compute_idle, AfterOutput
<1>7. CASE OutputCopy(a)
  BY <1>0, <1>7 DEF OutputCopy, execute_copy
<1>8. CASE OutputSync(a)
  <2>1. /\ pc[a] = "output_sync" /\ "output" \notin copying[zenek[a]]
        /\ pc'[a] \in {"profile", "finish"} /\ pc'[a] = AfterOutput
        /\ UNCHANGED zenonVars /\ zenek'[a] = zenek[a]
    BY <1>0, <1>8 DEF OutputSync, copy_idle, AfterOutput
  <2>2. pc'[a] = "finish" => gpu_result[zenek[a]] = {}
    BY <1>0, <2>1 DEF AfterOutput, StageInv, ProfileInv
  <2>3. InFlight(zenek[a], pc[a])' /\ EventStage(zenek[a], pc[a])'
    BY <1>0, <2>1
  <2>4. DataStage(zenek[a], pc[a], Byte(Qid(a)))'
    BY <1>0, <2>1, <2>2
  <2> QED BY <2>3, <2>4
<1>9. CASE Profile(a)
  BY <1>0, <1>9, ZenonAssumption DEF Profile, timestamps_ready, read_timestamps
<1>10. CASE Finish(a)
  BY <1>0, <1>10 DEF Finish, reset_events
<1>11. CASE Return(a)
  BY <1>0, <1>11 DEF Return
<1> QED BY <1>2, <1>3, <1>4, <1>5, <1>6, <1>7, <1>8, <1>9, <1>10, <1>11
        DEF Actor, Pop, Log, LockThrows, LockChecked, MutexLock, SetOwned, PrintLine,
            UnlockThrows, MutexUnlock, ClearOwned, Record

\* Everything else of the invariant after an actor's step.
LEMMA StageActor ==
  ASSUME StageInv, LendingInv', NEW a \in Actors, Actor(a)
  PROVE  StageInv'
<1>0. /\ CoreInv /\ CoreInv'
      /\ zenek \in [Actors -> Zenons \cup {None}]
      /\ pc[a] \in Running => zenek[a] \in Zenons
  BY DEF StageInv, LendingInv, CoreInv, TypeOK, Linked
<1>1. /\ \A c \in Actors \ {a} : pc'[c] = pc[c] /\ zenek'[c] = zenek[c]
      /\ \A c \in Actors \ {a} : answer'[c] = answer[c] /\ result'[c] = result[c]
      /\ \A y \in Zenons : y # zenek[a] => Untouched(y)
  BY <1>0, ActorFrame
<1>2. StageOK(a)'
  <2>1. CASE pc[a] \in Running
    BY <2>1, StageRun
  <2>2. CASE Pop(a)
    BY <2>2, StagePop
  <2>3. CASE pc[a] \notin Running /\ ~Pop(a)
    <3>1. pc'[a] \notin Running
      BY ZenonT(30), <1>0, <2>3
      DEF Actor, Fill, InputCopy, InputSync, Compute, ComputeSync, OutputCopy, OutputSync,
          Profile, Finish, Return, Log, LockThrows, LockChecked, MutexLock, SetOwned,
          PrintLine, UnlockThrows, MutexUnlock, ClearOwned, Record, Catch, At, GoTo,
          Running, CoreInv, TypeOK
    <3> QED BY <3>1 DEF StageOK
  <2> QED BY <2>1, <2>2, <2>3
<1>3. ASSUME NEW c \in Actors PROVE StageOK(c)'
  <2>1. CASE c = a
    BY <1>2, <2>1
  <2>2. CASE c # a /\ pc[c] \in Running
    <3>1. zenek[c] \in Zenons /\ zenek[c] # zenek[a]
      BY <2>2 DEF StageInv, LendingInv, CoreInv, TypeOK, Linked, ZenonExclusion
    <3> QED BY <1>1, <2>2, <3>1, StageFrame DEF StageInv
  <2>3. CASE c # a /\ pc[c] \notin Running
    BY <1>1, <2>3 DEF StageOK
  <2> QED BY <2>1, <2>2, <2>3
<1>4. QuietInPool'
  <2> SUFFICES ASSUME NEW z \in Zenons, Pooled(z)'
               PROVE  /\ copying'[z] = {} /\ pending'[z] = 0
                      /\ ran'[z] = {} /\ events'[z] = {}
    BY DEF QuietInPool
  <2>1. \A c \in Actors : zenek'[c] # z
    BY NoneFacts DEF LendingInv, ZenonExclusion
  <2>2. Pooled(z) \/ zenek[a] = z
    BY <1>1, <2>1 DEF StageInv, LendingInv, NothingLost
  <2>3. CASE zenek[a] = z
    <3>1. Return(a)
      BY <1>0, <2>1, <2>3, NoneFacts
      DEF Actor, Pop, Fill, InputCopy, InputSync, Compute, ComputeSync, OutputCopy,
          OutputSync, Profile, Finish, Log, LockThrows, LockChecked, MutexLock, SetOwned,
          PrintLine, UnlockThrows, MutexUnlock, ClearOwned, Record, Catch, At,
          CoreInv, Linked, Running
    <3>2. pc[a] = "return" /\ StageOK(a) /\ UNCHANGED zenonVars
      BY <3>1 DEF Return, return_zenon_atomic, At, StageInv
    <3>3. copying[z] \subseteq {"input", "output"}
      BY DEF StageInv, LendingInv, CoreInv, TypeOK, ServerTypeOK, ZenonTypeOK
    <3> QED BY <2>3, <3>2, <3>3 DEF StageOK, InFlight, EventStage, Running, zenonVars
  <2>4. CASE Pooled(z) /\ zenek[a] # z
    BY <1>1, <2>4 DEF Untouched, StageInv, QuietInPool
  <2> QED BY <2>2, <2>3, <2>4
<1>5. mixed' = {}
  BY DEF StageInv, Actor, Pop, Fill, InputCopy, InputSync, Compute, ComputeSync,
         OutputCopy, OutputSync, Profile, Finish, Return, Log, LockThrows, LockChecked,
         MutexLock, SetOwned, PrintLine, UnlockThrows, MutexUnlock, ClearOwned, Record,
         Catch, get_zenon_atomic, return_zenon_atomic, fill_inputs, execute_copy,
         execute_compute, read_timestamps, reset_events, serverVars, zenonVars, hostVars,
         deviceVars
<1>6. CASE Profile(a)
  <2>1. pc[a] = "profile" /\ StageOK(a) /\ Profiling /\ zenek[a] \in Zenons
    BY <1>0, <1>6 DEF Profile, At, Running, StageInv, ProfileInv
  <2>2. timestamps_ready(zenek[a])
    BY <2>1, ZenonAssumption DEF timestamps_ready, StageOK, EventStage, Running
  <2>3. /\ UNCHANGED <<answer, result, gpu_results_vec, main>>
        /\ pc' = [pc EXCEPT ![a] = "finish"]
    BY <1>6, <2>2 DEF Profile, GoTo
  <2>4. StoredInv' /\ NeverTerminated'
    BY <2>3 DEF StageInv, StoredInv, OwnAnswer, OwnProfile, NeverTerminated
  <2>5. ProfileInv'
    BY <2>1 DEF ProfileInv
  <2> QED BY <1>3, <1>4, <1>5, <2>4, <2>5 DEF StageInv
<1>7. CASE Finish(a)
  <2>1. pc[a] = "finish" /\ StageOK(a) /\ zenek[a] \in Zenons
    BY <1>0, <1>7 DEF Finish, At, Running, StageInv
  <2>2. /\ DisableBlitter \/ output[zenek[a]] = Byte(Qid(a))
        /\ DisableBlitter \/ gpu_result[zenek[a]] \subseteq {Byte(Qid(a))}
    BY <2>1 DEF StageOK, DataStage, Running
  <2>3. /\ answer' = [answer EXCEPT ![a] = shown_output(zenek[a])]
        /\ result' = [result EXCEPT ![a] = gpu_result[zenek[a]]]
        /\ pc' = [pc EXCEPT ![a] = "return"]
        /\ UNCHANGED <<gpu_results_vec, gpu_result, main>>
    BY <1>7 DEF Finish, GoTo, reset_events, hostVars, clientVars
  <2>4. StoredInv'
    BY <2>2, <2>3 DEF StageInv, StoredInv, OwnAnswer, OwnProfile, shown_output,
                      LendingInv, CoreInv, TypeOK
  <2>5. ProfileInv' /\ NeverTerminated'
    BY <2>3 DEF ProfileInv, StageInv, NeverTerminated, LendingInv, CoreInv, TypeOK
  <2> QED BY <1>3, <1>4, <1>5, <2>4, <2>5 DEF StageInv
<1>8. CASE ~Profile(a) /\ ~Finish(a)
  <2>1. UNCHANGED <<answer, result, gpu_result, main>>
    BY <1>8
    DEF Actor, Pop, Fill, InputCopy, InputSync, Compute, ComputeSync, OutputCopy,
        OutputSync, Return, Log, LockThrows, LockChecked, MutexLock, SetOwned, PrintLine,
        UnlockThrows, MutexUnlock, ClearOwned, Record, Catch, get_zenon_atomic,
        return_zenon_atomic, fill_inputs, execute_copy, execute_compute, zenonVars,
        hostVars, serverVars, clientVars
  <2>2. pc'[a] = "profile" => Profiling
    BY <1>0, <1>8
    DEF Actor, Pop, Fill, InputCopy, InputSync, Compute, ComputeSync, OutputCopy,
        OutputSync, Return, Log, LockThrows, LockChecked, MutexLock, SetOwned, PrintLine,
        UnlockThrows, MutexUnlock, ClearOwned, Record, Catch, GoTo, AfterOutput,
        CoreInv, TypeOK
  <2>3. \/ gpu_results_vec' = gpu_results_vec
        \/ gpu_results_vec' = [gpu_results_vec EXCEPT ![Qid(a)] = result[a]]
    BY <1>8
    DEF Actor, Pop, Fill, InputCopy, InputSync, Compute, ComputeSync, OutputCopy,
        OutputSync, Return, Log, LockThrows, LockChecked, MutexLock, SetOwned, PrintLine,
        UnlockThrows, MutexUnlock, ClearOwned, Record, Catch, clientVars
  <2>4. ProfileInv'
    BY <1>1, <2>1, <2>2 DEF StageInv, ProfileInv
  <2>5. StoredInv'
    BY <2>1, <2>3, <1>0
    DEF StageInv, StoredInv, OwnAnswer, OwnProfile, CoreInv, TypeOK
  <2>6. NeverTerminated'
    BY <2>1 DEF StageInv, NeverTerminated
  <2> QED BY <1>3, <1>4, <1>5, <2>4, <2>5, <2>6 DEF StageInv
<1> QED BY <1>6, <1>7, <1>8
-----------------------------------------------------------------------------
(* The device and the main thread.                                         *)

\* The device only works for borrowers, and keeps their zenons in stage.
LEMMA StageGpu ==
  ASSUME StageInv, LendingInv', NEW z \in Zenons, Gpu(z)
  PROVE  StageInv'
<1>1. /\ Device(z) /\ ZenonTypeOK
      /\ UNCHANGED <<pc, zenek, answer, result, main, gpu_results_vec, zenek_pool_boost>>
      /\ UNCHANGED gpu_result
  BY DEF Gpu, actorVars, clientVars, StageInv, LendingInv, CoreInv, TypeOK, ServerTypeOK,
         Device, DeviceInputCopy, DeviceKernel, DeviceRetire, DeviceOutputCopy, hostVars
<1>2. \A y \in Zenons : y # z => Untouched(y)
  BY <1>1 DEF Device, DeviceInputCopy, DeviceKernel, DeviceRetire, DeviceOutputCopy,
              hostVars, Untouched, ZenonTypeOK
<1>3. ~Pooled(z)
  <2>1. Pooled(z) => copying[z] = {} /\ pending[z] = 0
    BY DEF StageInv, QuietInPool
  <2> QED BY <1>1, <2>1 DEF Device, DeviceInputCopy, DeviceKernel, DeviceRetire,
                            DeviceOutputCopy
<1>4. PICK a \in Actors : zenek[a] = z
  BY <1>3 DEF StageInv, LendingInv, NothingLost
<1>5. /\ pc[a] \in Running
      /\ InFlight(z, pc[a]) /\ EventStage(z, pc[a]) /\ DataStage(z, pc[a], Byte(Qid(a)))
  BY <1>4, NoneFacts DEF StageInv, LendingInv, CoreInv, Linked, StageOK
<1>6. StageOK(a)'
  <2> USE DEF StageOK, InFlight, EventStage, DataStage, ZenonTypeOK, hostVars, Running
  <2>1. CASE DeviceInputCopy(z)
    BY <1>1, <1>4, <1>5, <2>1 DEF DeviceInputCopy
  <2>2. CASE \E k \in Kernels : DeviceKernel(z, k)
    <3> PICK k \in Kernels : DeviceKernel(z, k)
      BY <2>2
    <3>0. Waits[k] \subseteq ran[z] /\ mixed' = {}
      BY <1>1, <1>5 DEF DeviceKernel, StageInv, EventStage
    <3>1. /\ pc[a] = "compute_sync" /\ pending[z] # 0 /\ pending' = pending
          /\ copying' = copying /\ dev_input' = dev_input
          /\ input' = input /\ output' = output
          /\ ran'[z] = ran[z] \cup {k} /\ events'[z] = events[z] \cup {k}
          /\ dev_result'[z] = IF k = Writer THEN dev_input[z] ELSE dev_result[z]
      BY <1>1, <1>5, <3>0 DEF DeviceKernel
    <3> QED BY <1>1, <1>4, <1>5, <3>1
  <2>3. CASE DeviceRetire(z)
    BY <1>1, <1>4, <1>5, <2>3 DEF DeviceRetire
  <2>4. CASE DeviceOutputCopy(z)
    BY <1>1, <1>4, <1>5, <2>4, ZenonAssumption DEF DeviceOutputCopy
  <2> QED BY <1>1, <2>1, <2>2, <2>3, <2>4 DEF Device
<1>7. ASSUME NEW c \in Actors PROVE StageOK(c)'
  <2>1. CASE c = a
    BY <1>6, <2>1
  <2>2. CASE c # a /\ pc[c] \in Running
    <3>1. zenek[c] \in Zenons /\ zenek[c] # z
      BY <1>4, <2>2 DEF StageInv, LendingInv, CoreInv, TypeOK, Linked, ZenonExclusion
    <3> QED BY <1>1, <1>2, <3>1, StageFrame DEF StageInv
  <2>3. CASE c # a /\ pc[c] \notin Running
    BY <1>1, <2>3 DEF StageOK
  <2> QED BY <2>1, <2>2, <2>3
<1>8. QuietInPool'
  <2> SUFFICES ASSUME NEW y \in Zenons, Pooled(y)'
               PROVE  /\ copying'[y] = {} /\ pending'[y] = 0
                      /\ ran'[y] = {} /\ events'[y] = {}
    BY DEF QuietInPool
  <2>1. Pooled(y) /\ y # z
    BY <1>1, <1>3 DEF Pooled
  <2> QED BY <1>2, <2>1 DEF Untouched, StageInv, QuietInPool
<1>9. StoredInv' /\ ProfileInv' /\ NeverTerminated'
  BY <1>1 DEF StageInv, StoredInv, OwnAnswer, OwnProfile, ProfileInv, NeverTerminated
<1>10. mixed' = {}
  <2>1. ASSUME NEW k \in Kernels, DeviceKernel(z, k) PROVE mixed' = {}
    <3>1. pending[z] # 0 /\ Waits[k] \subseteq events[z] /\ events[z] = ran[z]
      BY <1>1, <1>5, <2>1 DEF DeviceKernel, EventStage, ZenonTypeOK
    <3> QED BY <2>1, <3>1 DEF DeviceKernel, StageInv
  <2> QED BY <1>1, <2>1 DEF StageInv, Device, DeviceInputCopy, DeviceRetire,
                            DeviceOutputCopy
<1> QED BY <1>7, <1>8, <1>9, <1>10 DEF StageInv

\* The main thread never has a zenon at hand, nor does a stutter change any.
LEMMA StageMain ==
  ASSUME StageInv, LendingInv', MainThread \/ UNCHANGED vars
  PROVE  StageInv'
<1>1. /\ UNCHANGED <<zenonVars, zenek_pool_boost, zenek, answer, result, gpu_results_vec>>
      /\ main' # main => main' # "terminated"
  BY DEF MainThread, WarmedUp, Spawn, AllSpawned, Join, PrintResults, vars, serverVars,
         actorVars, clientVars
<1>2. ASSUME NEW a \in Actors
      PROVE  pc'[a] = pc[a] \/ pc'[a] = "pop"
  BY DEF MainThread, WarmedUp, Spawn, AllSpawned, Join, PrintResults, vars, actorVars,
         GoTo, StageInv, LendingInv, CoreInv, TypeOK
<1>3. ASSUME NEW a \in Actors PROVE StageOK(a)'
  <2>1. CASE pc'[a] = pc[a]
    <3>1. Untouched(zenek[a])
      BY <1>1 DEF Untouched, zenonVars
    <3> QED BY <1>1, <2>1, <3>1, StageFrame DEF StageInv
  <2>2. CASE pc'[a] = "pop"
    BY <2>2 DEF StageOK, Running
  <2> QED BY <1>2, <2>1, <2>2
<1>4. QuietInPool'
  BY <1>1 DEF StageInv, QuietInPool, Pooled, zenonVars
<1>5. StoredInv' /\ NeverTerminated'
  BY <1>1 DEF StageInv, StoredInv, OwnAnswer, OwnProfile, NeverTerminated
<1>6. ProfileInv'
  BY <1>1, <1>2 DEF StageInv, ProfileInv, zenonVars
<1>7. mixed' = {}
  BY <1>1 DEF StageInv, zenonVars
<1> QED BY <1>3, <1>4, <1>5, <1>6, <1>7 DEF StageInv

LEMMA StageNext == StageInv /\ [Next]_vars => StageInv'
<1> SUFFICES ASSUME StageInv, [Next]_vars PROVE StageInv'
  OBVIOUS
<1>1. LendingInv'
  BY LendingNext DEF StageInv
<1>2. CASE \E a \in Actors : Actor(a)
  BY <1>1, <1>2, StageActor
<1>3. CASE \E z \in Zenons : Gpu(z)
  BY <1>1, <1>3, StageGpu
<1>4. CASE MainThread \/ Stopped \/ UNCHANGED vars
  BY <1>1, <1>4, StageMain DEF Stopped
<1> QED BY <1>2, <1>3, <1>4 DEF Next

LEMMA StageCorrect == Spec => []StageInv
<1> QED BY StageInit, StageNext, PTL DEF Spec
-----------------------------------------------------------------------------
\* Every query's output was computed from its own id, however often the zenon it
\* ran on was used before and whatever ran beside it.
THEOREM OwnAnswerHolds == Spec => []OwnAnswer
<1>1. StageInv => OwnAnswer
  BY DEF StageInv, StoredInv
<1> QED BY <1>1, StageCorrect, PTL

\* The kernel times kept for a query are those of its own execution.
THEOREM OwnProfileHolds == Spec => []OwnProfile
<1>1. StageInv => OwnProfile
  BY DEF StageInv, StoredInv
<1> QED BY <1>1, StageCorrect, PTL

\* A list is executed only when its earlier execution is over.
THEOREM ListsNotInFlightHolds == Spec => []ListsNotInFlight
<1>1. StageInv => ListsNotInFlight
  BY DEF StageInv, StageOK, InFlight, ListsNotInFlight, Running
<1> QED BY <1>1, StageCorrect, PTL

\* A zenon is returned with nothing in flight and no event left signalled.
THEOREM QuietInPoolHolds == Spec => []QuietInPool
<1>1. StageInv => QuietInPool
  BY DEF StageInv
<1> QED BY <1>1, StageCorrect, PTL

\* No timestamp is asked of an event that is not signalled.
THEOREM NeverTerminatedHolds == Spec => []NeverTerminated
<1>1. StageInv => NeverTerminated
  BY DEF StageInv
<1> QED BY <1>1, StageCorrect, PTL
=============================================================================
