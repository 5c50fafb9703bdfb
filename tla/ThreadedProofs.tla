---------------------------- MODULE ThreadedProofs ---------------------------
(***************************************************************************)
(* Theorems of Threaded, for any number of queries and zenons, any kernel  *)
(* graph and any options.                                                  *)
(***************************************************************************)
EXTENDS Threaded, ZenonProofs

-----------------------------------------------------------------------------
(* The inductive invariant behind the types and the lending of zenons.     *)

\* An actor has a zenon exactly between its pop and its return.
Linked == \A a \in Actors : pc[a] \in Running <=> zenek[a] # None

\* run_all starts each thread once: those not yet spawned are idle.
LoopInv ==
  /\ main = "warmup" => i = 0
  /\ main \in {"warmup", "spawn"} => \A j \in Queries : j >= i => pc[j] = "idle"

\* A call of log is under way only while not all lines are logged.
LogInv ==
  \A a \in Actors :
    /\ pc[a] \in {"lock", "mutex", "owned", "print"} => logged[a] < LogCalls
    /\ pc[a] \in {"idle", "pop"} \cup Running => logged[a] = 0

CoreInv == TypeOK /\ Linked /\ LoopInv /\ LogInv

LEMMA ActorsFacts ==
  /\ Main \in Actors /\ Main \notin Queries /\ Queries \subseteq Actors
  /\ 0 \in Queries
  /\ \A a \in Actors : Qid(a) \in Queries /\ Qid(a) \in Int
  BY ThreadedAssumption DEF Actors, Main, Queries, Qid

LEMMA NoneFacts == None \notin Zenons /\ None \notin Bytes
  BY ZenonAssumption DEF Zenons, Bytes

\* The initial state.
LEMMA CoreInit == Init => CoreInv
<1> SUFFICES ASSUME Init PROVE CoreInv
  OBVIOUS
<1>1. ZenonTypeOK
  BY DEF Init, ServerInit, ZenonInit, ZenonTypeOK, Bytes
<1>2. zenek_pool_boost \in Seq(Zenons)
  BY ZenonAssumption DEF Init, ServerInit, Zenons
<1>3. TypeOK
  <2>1. pc \in [Actors -> Steps] /\ logged \in [Actors -> 0 .. LogCalls]
    BY DEF Init, Steps, LogCalls
  <2>2. i \in 0 .. NumQueries
    BY ThreadedAssumption DEF Init
  <2>3. /\ zenek \in [Actors -> Zenons \cup {None}]
        /\ answer \in [Actors -> Bytes \cup {None}]
        /\ result \in [Actors -> SUBSET (Bytes \cup {None})]
    BY DEF Init
  <2>4. /\ gpu_results_vec \in [Queries -> SUBSET (Bytes \cup {None})]
        /\ results \in SUBSET Queries
        /\ main \in {"warmup", "spawn", "join", "done", "crashed", "terminated"}
    BY DEF Init
  <2>5. LogLockTypeOK(Actors)
    BY DEF Init, LogLockInit, LogLockTypeOK
  <2> QED BY <1>1, <1>2, <2>1, <2>2, <2>3, <2>4, <2>5 DEF TypeOK, ServerTypeOK
<1>4. Linked /\ LoopInv /\ LogInv
  BY ActorsFacts, ThreadedAssumption
  DEF Init, Linked, LoopInv, LogInv, Running, LogCalls
<1> QED BY <1>3, <1>4 DEF CoreInv

\* Every step of an actor keeps the types.
LEMMA ActorType ==
  ASSUME CoreInv, NEW a \in Actors, Actor(a)
  PROVE  TypeOK'
<1> USE DEF At, GoTo, TypeOK, ServerTypeOK, LogLockTypeOK, Steps, Running, LogSteps,
            serverVars, logLockVars, clientVars, CoreInv
<1>0. pc[a] \in Running => zenek[a] \in Zenons
  BY DEF Linked
<1>1. CASE Pop(a)
  <2>1. ZenonTypeOK'
    BY <1>1, ZenonStutterType DEF Pop, get_zenon_atomic
  <2> QED BY <1>1, <2>1 DEF Pop, get_zenon_atomic
<1>2. CASE Fill(a)
  <2>1. ZenonTypeOK'
    BY <1>0, <1>2, FillType, ActorsFacts DEF Fill
  <2> QED BY <1>2, <2>1 DEF Fill
<1>3. CASE InputCopy(a)
  <2>1. ZenonTypeOK'
    BY <1>0, <1>3, ExecuteCopyType DEF InputCopy
  <2> QED BY <1>3, <2>1 DEF InputCopy
<1>4. CASE InputSync(a)
  BY <1>4, ZenonStutterType DEF InputSync
<1>5. CASE Compute(a)
  <2>1. ZenonTypeOK'
    BY <1>0, <1>5, ExecuteComputeType DEF Compute
  <2> QED BY <1>5, <2>1 DEF Compute
<1>6. CASE ComputeSync(a)
  BY <1>6, ZenonStutterType DEF ComputeSync, AfterOutput
<1>7. CASE OutputCopy(a)
  <2>1. ZenonTypeOK'
    BY <1>0, <1>7, ExecuteCopyType DEF OutputCopy
  <2> QED BY <1>7, <2>1 DEF OutputCopy
<1>8. CASE OutputSync(a)
  BY <1>8, ZenonStutterType DEF OutputSync, AfterOutput
<1>9. CASE Profile(a)
  <2>1. CASE timestamps_ready(zenek[a])
    <3>1. ZenonTypeOK'
      BY <1>0, <1>9, <2>1, ReadTimestampsType DEF Profile
    <3> QED BY <1>9, <2>1, <3>1 DEF Profile
  <2>2. CASE ~timestamps_ready(zenek[a])
    BY <1>9, <2>2, ZenonStutterType DEF Profile
  <2> QED BY <2>1, <2>2
<1>10. CASE Finish(a)
  <2>1. ZenonTypeOK'
    BY <1>0, <1>10, ResetType DEF Finish
  <2>2. shown_output(zenek[a]) \in Bytes \cup {None}
    BY <1>0, <1>10, ShownType DEF Finish
  <2>3. gpu_result[zenek[a]] \in SUBSET (Bytes \cup {None})
    BY <1>0, <1>10 DEF Finish, ZenonTypeOK
  <2> QED BY <1>10, <2>1, <2>2, <2>3 DEF Finish
<1>11. CASE Return(a)
  <2>1. ZenonTypeOK'
    BY <1>11, ZenonStutterType DEF Return, return_zenon_atomic
  <2>2. zenek_pool_boost' \in Seq(Zenons)
    BY <1>0, <1>11 DEF Return, return_zenon_atomic
  <2>3. gpu_results_vec' \in [Queries -> SUBSET (Bytes \cup {None})]
    <3>1. result[a] \in SUBSET (Bytes \cup {None})
      OBVIOUS
    <3> QED BY <1>11, <3>1, ActorsFacts DEF Return
  <2>4. pc' \in [Actors -> Steps]
    BY <1>11 DEF Return
  <2> QED BY <1>11, <2>1, <2>2, <2>3, <2>4 DEF Return
<1>12. CASE Log(a)
  <2>1. ZenonTypeOK'
    BY <1>12, ZenonStutterType
    DEF Log, LockThrows, LockChecked, MutexLock, SetOwned, PrintLine, UnlockThrows,
        MutexUnlock, ClearOwned, Catch
  <2>2. CASE LockThrows(a) \/ UnlockThrows(a)
    BY <2>1, <2>2 DEF LockThrows, UnlockThrows, Catch
  <2>3. CASE LockChecked(a)
    BY <2>1, <2>3 DEF LockChecked
  <2>4. CASE MutexLock(a)
    BY <2>1, <2>4 DEF MutexLock, mutex_lock
  <2>5. CASE SetOwned(a)
    BY <2>1, <2>5 DEF SetOwned, set_owns
  <2>6. CASE PrintLine(a)
    <3>1. logged[a] + 1 \in 0 .. LogCalls
      BY <2>6 DEF PrintLine, LogInv, LogCalls
    <3> QED BY <2>1, <2>6, <3>1 DEF PrintLine
  <2>7. CASE MutexUnlock(a)
    BY <2>1, <2>7 DEF MutexUnlock, mutex_unlock
  <2>8. CASE ClearOwned(a)
    BY <2>1, <2>8, ActorsFacts DEF ClearOwned, set_owns
  <2> QED BY <1>12, <2>2, <2>3, <2>4, <2>5, <2>6, <2>7, <2>8 DEF Log
<1>13. CASE Record(a)
  BY <1>13, ZenonStutterType, ActorsFacts DEF Record
<1> QED BY <1>1, <1>2, <1>3, <1>4, <1>5, <1>6, <1>7, <1>8, <1>9, <1>10, <1>11,
           <1>12, <1>13 DEF Actor

\* Every step of an actor keeps pc and zenek in step, and the loops' invariants.
LEMMA ActorLinked ==
  ASSUME CoreInv, NEW a \in Actors, Actor(a)
  PROVE  Linked' /\ LoopInv' /\ LogInv'
<1> USE DEF At, GoTo, Linked, LoopInv, LogInv, Running, logLockVars, clientVars
<1>0. /\ pc \in [Actors -> Steps]
      /\ zenek \in [Actors -> Zenons \cup {None}]
      /\ logged \in [Actors -> 0 .. LogCalls]
      /\ Linked /\ LoopInv /\ LogInv
  BY DEF CoreInv, TypeOK
<1>1. CASE Pop(a)
  BY <1>0, <1>1, NoneFacts DEF Pop
<1>2. CASE Fill(a)
  BY <1>0, <1>2 DEF Fill
<1>3. CASE InputCopy(a)
  BY <1>0, <1>3 DEF InputCopy
<1>4. CASE InputSync(a)
  BY <1>0, <1>4 DEF InputSync
<1>5. CASE Compute(a)
  BY <1>0, <1>5 DEF Compute
<1>6. CASE ComputeSync(a)
  BY <1>0, <1>6 DEF ComputeSync, AfterOutput
<1>7. CASE OutputCopy(a)
  BY <1>0, <1>7 DEF OutputCopy
<1>8. CASE OutputSync(a)
  BY <1>0, <1>8 DEF OutputSync, AfterOutput
<1>9. CASE Profile(a)
  <2>1. CASE timestamps_ready(zenek[a])
    <3>1. main' = main /\ i' = i /\ zenek' = zenek /\ logged' = logged
      BY <1>9, <2>1 DEF Profile
    <3>2. pc[a] = "profile" /\ pc' = [pc EXCEPT ![a] = "finish"]
      BY <1>9, <2>1 DEF Profile
    <3> QED BY <1>0, <3>1, <3>2, ActorsFacts
  <2>2. CASE ~timestamps_ready(zenek[a])
    BY <1>0, <1>9, <2>2 DEF Profile
  <2> QED BY <2>1, <2>2
<1>10. CASE Finish(a)
  BY <1>0, <1>10 DEF Finish
<1>11. CASE Return(a)
  <2>1. Linked' /\ LoopInv'
    BY <1>0, <1>11 DEF Return
  <2>2. LogInv'
    BY <1>0, <1>11 DEF Return, LogCalls
  <2> QED BY <2>1, <2>2
<1>12. CASE Log(a)
  <2>1. CASE LockThrows(a) \/ UnlockThrows(a)
    <3>1. pc[a] \in LogSteps /\ Catch(a)
      BY <2>1 DEF LockThrows, UnlockThrows, LogSteps
    <3> QED BY <1>0, <3>1 DEF Catch, LogSteps
  <2>2. CASE LockChecked(a)
    BY <1>0, <2>2 DEF LockChecked
  <2>3. CASE MutexLock(a)
    BY <1>0, <2>3 DEF MutexLock
  <2>4. CASE SetOwned(a)
    BY <1>0, <2>4 DEF SetOwned
  <2>5. CASE PrintLine(a)
    BY <1>0, <2>5 DEF PrintLine
  <2>6. CASE MutexUnlock(a)
    BY <1>0, <2>6 DEF MutexUnlock
  <2>7. CASE ClearOwned(a)
    <3>1. main' = main /\ i' = i /\ zenek' = zenek /\ logged' = logged
      BY <2>7 DEF ClearOwned
    <3>2. /\ pc[a] = "cleared"
          /\ \/ logged[a] < LogCalls /\ pc' = [pc EXCEPT ![a] = "lock"]
             \/ pc' = [pc EXCEPT ![a] = "record"]
      BY <2>7 DEF ClearOwned
    <3> QED BY <1>0, <3>1, <3>2, ActorsFacts
  <2> QED BY <1>12, <2>1, <2>2, <2>3, <2>4, <2>5, <2>6, <2>7 DEF Log
<1>13. CASE Record(a)
  BY <1>0, <1>13 DEF Record
<1> QED BY <1>1, <1>2, <1>3, <1>4, <1>5, <1>6, <1>7, <1>8, <1>9, <1>10, <1>11,
           <1>12, <1>13 DEF Actor

\* Every step of the main thread keeps the invariant.
LEMMA MainCore == CoreInv /\ MainThread => CoreInv'
<1> SUFFICES ASSUME CoreInv, MainThread PROVE CoreInv'
  OBVIOUS
<1> USE DEF CoreInv, GoTo, actorVars
<1>0. UNCHANGED <<serverVars, logLockVars, zenek, answer, result, logged, results,
                  gpu_results_vec>>
  BY DEF MainThread, WarmedUp, Spawn, AllSpawned, Join, PrintResults
<1>1. ServerTypeOK' /\ LogLockTypeOK(Actors)'
  BY <1>0, ZenonStutterType
  DEF TypeOK, ServerTypeOK, LogLockTypeOK, serverVars, logLockVars
<1>2. /\ pc' \in [Actors -> Steps]
      /\ i' \in 0 .. NumQueries
      /\ main' \in {"warmup", "spawn", "join", "done", "crashed", "terminated"}
  BY ThreadedAssumption
  DEF TypeOK, Steps, MainThread, WarmedUp, Spawn, AllSpawned, Join, PrintResults
<1>3. TypeOK'
  BY <1>0, <1>1, <1>2 DEF TypeOK
<1>4. CASE Spawn
  <2>1. i \in Queries /\ i \in Actors /\ pc[i] = "idle"
    BY <1>4, ActorsFacts, ThreadedAssumption DEF Spawn, LoopInv, TypeOK, Queries
  <2>2. pc' = [pc EXCEPT ![i] = "pop"] /\ i' = i + 1 /\ main' = "spawn"
    BY <1>4 DEF Spawn
  <2>3. Linked' /\ LogInv'
    BY <1>0, <2>1, <2>2 DEF Linked, LogInv, Running, TypeOK
  <2>4. LoopInv'
    BY SMTT(20), <1>4, <2>1, <2>2, ActorsFacts DEF Spawn, LoopInv, TypeOK, Queries
  <2> QED BY <1>3, <2>3, <2>4
<1>5. CASE WarmedUp \/ AllSpawned \/ Join \/ PrintResults
  <2>1. pc' = pc
    BY <1>5 DEF WarmedUp, AllSpawned, Join, PrintResults
  <2>2. Linked' /\ LogInv'
    BY <1>0, <2>1 DEF Linked, LogInv
  <2>3. LoopInv'
    BY <1>5, <2>1 DEF WarmedUp, AllSpawned, Join, PrintResults, LoopInv
  <2> QED BY <1>3, <2>2, <2>3
<1> QED BY <1>4, <1>5 DEF MainThread

\* Every step of the device keeps the invariant, and so does a stutter.
LEMMA GpuCore == ASSUME CoreInv, NEW z \in Zenons, Gpu(z) PROVE CoreInv'
<1>1. ZenonTypeOK'
  BY DeviceType DEF CoreInv, TypeOK, ServerTypeOK, Gpu
<1> QED BY <1>1
        DEF CoreInv, TypeOK, ServerTypeOK, LogLockTypeOK, Linked, LoopInv, LogInv, Gpu,
            logLockVars, actorVars, clientVars

LEMMA StutterCore == CoreInv /\ UNCHANGED vars => CoreInv'
  BY ZenonStutterType
  DEF CoreInv, TypeOK, ServerTypeOK, LogLockTypeOK, Linked, LoopInv, LogInv,
      vars, serverVars, logLockVars, actorVars, clientVars

LEMMA CoreNext == CoreInv /\ [Next]_vars => CoreInv'
<1> SUFFICES ASSUME CoreInv, [Next]_vars PROVE CoreInv'
  OBVIOUS
<1>1. CASE MainThread
  BY <1>1, MainCore
<1>2. CASE \E a \in Actors : Actor(a)
  BY <1>2, ActorType, ActorLinked DEF CoreInv
<1>3. CASE \E z \in Zenons : Gpu(z)
  BY <1>3, GpuCore
<1>4. CASE Stopped \/ UNCHANGED vars
  BY <1>4, StutterCore DEF Stopped
<1> QED BY <1>1, <1>2, <1>3, <1>4 DEF Next

LEMMA CoreCorrect == Spec => []CoreInv
<1> QED BY CoreInit, CoreNext, PTL DEF Spec

\* The program's variables always have the values the code gives them, whatever
\* threads, device and log lock do.
THEOREM TypeCorrect == Spec => []TypeOK
<1>1. CoreInv => TypeOK
  BY DEF CoreInv
<1> QED BY <1>1, CoreCorrect, PTL
-----------------------------------------------------------------------------
(* No zenon is shared and none is lost.                                    *)

LendingInv == CoreInv /\ ZenonExclusion /\ NothingLost

LEMMA LendingInit == Init => LendingInv
<1> SUFFICES ASSUME Init PROVE LendingInv
  OBVIOUS
<1>1. /\ Len(zenek_pool_boost) = PoolSize
      /\ \A n \in 1 .. PoolSize : zenek_pool_boost[n] = n - 1
      /\ \A a \in Actors : zenek[a] = None
  BY ZenonAssumption DEF Init, ServerInit
<1>2. ZenonExclusion
  BY <1>1, ZenonAssumption DEF ZenonExclusion
<1>3. NothingLost
  <2> SUFFICES ASSUME NEW z \in Zenons PROVE Pooled(z)
    BY DEF NothingLost
  <2>1. z + 1 \in 1 .. PoolSize /\ zenek_pool_boost[z + 1] = z
    BY <1>1, ZenonAssumption DEF Zenons
  <2> QED BY <1>1, <2>1 DEF Pooled
<1> QED BY <1>2, <1>3, CoreInit DEF LendingInv

\* What is in a sequence, and whether it is there once, after a pop and a push.
In(x, s) == \E n \in 1 .. Len(s) : s[n] = x
Once(s) == \A m, n \in 1 .. Len(s) : s[m] = s[n] => m = n

LEMMA TailIn ==
  ASSUME NEW S, NEW s \in Seq(S), s # <<>>
  PROVE  /\ Head(s) \in S
         /\ \A x \in S : In(x, s) <=> x = Head(s) \/ In(x, Tail(s))
         /\ Once(s) => Once(Tail(s)) /\ ~In(Head(s), Tail(s))
<1>1. /\ Len(s) \in Nat \ {0} /\ Len(Tail(s)) = Len(s) - 1
      /\ \A n \in 1 .. Len(Tail(s)) : Tail(s)[n] = s[n + 1]
      /\ Head(s) = s[1] /\ s[1] \in S
  OBVIOUS
<1>2. ASSUME NEW x \in S, In(x, s), x # Head(s) PROVE In(x, Tail(s))
  <2>1. PICK n \in 1 .. Len(s) : s[n] = x
    BY <1>2 DEF In
  <2>2. n - 1 \in 1 .. Len(Tail(s)) /\ Tail(s)[n - 1] = x
    BY <1>1, <1>2, <2>1
  <2> QED BY <2>2 DEF In
<1>3. ASSUME NEW x \in S, In(x, Tail(s)) PROVE In(x, s)
  BY <1>1, <1>3 DEF In
<1>4. In(Head(s), s)
  BY <1>1 DEF In
<1>5. Once(s) => Once(Tail(s)) /\ ~In(Head(s), Tail(s))
  BY <1>1 DEF Once, In
<1> QED BY <1>1, <1>2, <1>3, <1>4, <1>5

LEMMA AppendIn ==
  ASSUME NEW S, NEW s \in Seq(S), NEW e \in S
  PROVE  /\ \A x \in S : In(x, Append(s, e)) <=> x = e \/ In(x, s)
         /\ Once(s) /\ ~In(e, s) => Once(Append(s, e))
<1>1. /\ Len(s) \in Nat /\ Len(Append(s, e)) = Len(s) + 1
      /\ \A n \in 1 .. Len(s) : Append(s, e)[n] = s[n]
      /\ Append(s, e)[Len(s) + 1] = e
  OBVIOUS
<1>2. ASSUME NEW x \in S, In(x, Append(s, e)), x # e PROVE In(x, s)
  <2>1. PICK n \in 1 .. Len(s) + 1 : Append(s, e)[n] = x
    BY <1>1, <1>2 DEF In
  <2>2. n \in 1 .. Len(s) /\ s[n] = x
    BY <1>1, <1>2, <2>1
  <2> QED BY <2>2 DEF In
<1>3. ASSUME NEW x \in S, In(x, s) PROVE In(x, Append(s, e))
  BY <1>1, <1>3 DEF In
<1>4. In(e, Append(s, e))
  <2>1. Len(s) + 1 \in 1 .. Len(Append(s, e))
    BY <1>1
  <2> QED BY <1>1, <2>1 DEF In
<1>5. Once(s) /\ ~In(e, s) => Once(Append(s, e))
  BY <1>1 DEF Once, In
<1> QED BY <1>2, <1>3, <1>4, <1>5

LEMMA PooledIn ==
  /\ \A z : Pooled(z) <=> In(z, zenek_pool_boost)
  /\ ZenonExclusion <=>
       /\ \A a, b \in Actors : zenek[a] # None /\ zenek[a] = zenek[b] => a = b
       /\ \A a \in Actors : zenek[a] # None => ~In(zenek[a], zenek_pool_boost)
       /\ Once(zenek_pool_boost)
  BY DEF Pooled, In, Once, ZenonExclusion

\* A pop takes the zenon out of the only place it was in.
LEMMA LendingPop ==
  ASSUME LendingInv, NEW a \in Actors, Pop(a)
  PROVE  ZenonExclusion' /\ NothingLost'
<1>1. /\ zenek_pool_boost \in Seq(Zenons) /\ zenek_pool_boost # <<>>
      /\ zenek_pool_boost' = Tail(zenek_pool_boost)
      /\ zenek' = [zenek EXCEPT ![a] = Head(zenek_pool_boost)]
      /\ zenek \in [Actors -> Zenons \cup {None}]
      /\ zenek[a] = None
  BY DEF Pop, get_zenon_atomic, At, LendingInv, CoreInv, TypeOK, ServerTypeOK, Linked,
         Running
<1>2. /\ Head(zenek_pool_boost) \in Zenons
      /\ \A z \in Zenons : In(z, zenek_pool_boost) <=>
           z = Head(zenek_pool_boost) \/ In(z, zenek_pool_boost')
      /\ Once(zenek_pool_boost) =>
           Once(zenek_pool_boost') /\ ~In(Head(zenek_pool_boost), zenek_pool_boost')
  BY <1>1, TailIn
<1>3. /\ \A b, c \in Actors : zenek[b] # None /\ zenek[b] = zenek[c] => b = c
      /\ \A b \in Actors : zenek[b] # None => ~In(zenek[b], zenek_pool_boost)
      /\ Once(zenek_pool_boost)
      /\ \A z \in Zenons : In(z, zenek_pool_boost) \/ \E b \in Actors : zenek[b] = z
  BY PooledIn DEF LendingInv, NothingLost
<1>4. \A b, c \in Actors : zenek'[b] # None /\ zenek'[b] = zenek'[c] => b = c
  BY <1>1, <1>2, <1>3
<1>5. \A b \in Actors : zenek'[b] # None => ~In(zenek'[b], zenek_pool_boost')
  BY <1>1, <1>2, <1>3
<1>6. \A z \in Zenons : In(z, zenek_pool_boost') \/ \E b \in Actors : zenek'[b] = z
  BY <1>1, <1>2, <1>3, NoneFacts
<1> QED BY <1>2, <1>3, <1>4, <1>5, <1>6 DEF NothingLost, ZenonExclusion, Pooled, In, Once

\* A return puts it back in one place.
LEMMA LendingReturn ==
  ASSUME LendingInv, NEW a \in Actors, Return(a)
  PROVE  ZenonExclusion' /\ NothingLost'
<1>1. /\ zenek_pool_boost \in Seq(Zenons)
      /\ zenek_pool_boost' = Append(zenek_pool_boost, zenek[a])
      /\ zenek' = [zenek EXCEPT ![a] = None]
      /\ zenek \in [Actors -> Zenons \cup {None}]
      /\ zenek[a] \in Zenons
  BY DEF Return, return_zenon_atomic, At, LendingInv, CoreInv, TypeOK, ServerTypeOK,
         Linked, Running
<1>2. /\ \A z \in Zenons : In(z, zenek_pool_boost') <=>
           z = zenek[a] \/ In(z, zenek_pool_boost)
      /\ Once(zenek_pool_boost) /\ ~In(zenek[a], zenek_pool_boost) =>
           Once(zenek_pool_boost')
  BY <1>1, AppendIn
<1>3. /\ \A b, c \in Actors : zenek[b] # None /\ zenek[b] = zenek[c] => b = c
      /\ \A b \in Actors : zenek[b] # None => ~In(zenek[b], zenek_pool_boost)
      /\ Once(zenek_pool_boost)
      /\ \A z \in Zenons : In(z, zenek_pool_boost) \/ \E b \in Actors : zenek[b] = z
  BY PooledIn DEF LendingInv, NothingLost
<1>4. \A b, c \in Actors : zenek'[b] # None /\ zenek'[b] = zenek'[c] => b = c
  BY <1>1, <1>3
<1>5. \A b \in Actors : zenek'[b] # None => ~In(zenek'[b], zenek_pool_boost')
  BY <1>1, <1>2, <1>3, NoneFacts
<1>6. \A z \in Zenons : In(z, zenek_pool_boost') \/ \E b \in Actors : zenek'[b] = z
  BY <1>1, <1>2, <1>3
<1>7. Once(zenek_pool_boost')
  BY <1>1, <1>2, <1>3, NoneFacts
<1> QED BY <1>4, <1>5, <1>6, <1>7 DEF NothingLost, ZenonExclusion, Pooled, In, Once

\* Nothing else touches the pool or the borrowed zenons.
LEMMA LendingOther ==
  ASSUME LendingInv, [Next]_vars,
         ~ \E a \in Actors : Pop(a) \/ Return(a)
  PROVE  UNCHANGED <<zenek, zenek_pool_boost>>
<1>1. CASE MainThread
  BY <1>1 DEF MainThread, WarmedUp, Spawn, AllSpawned, Join, PrintResults, serverVars,
              actorVars
<1>2. ASSUME NEW a \in Actors, Actor(a) PROVE UNCHANGED <<zenek, zenek_pool_boost>>
  <2>1. CASE Log(a)
    BY <2>1 DEF Log, LockThrows, LockChecked, MutexLock, SetOwned, PrintLine,
                UnlockThrows, MutexUnlock, ClearOwned, Catch, serverVars
  <2>2. CASE ~Log(a)
    BY <1>2, <2>2 DEF Actor, Fill, InputCopy, InputSync, Compute, ComputeSync,
                      OutputCopy, OutputSync, Profile, Finish, Record, serverVars
  <2> QED BY <2>1, <2>2
<1>3. CASE \E z \in Zenons : Gpu(z)
  BY <1>3 DEF Gpu, actorVars
<1>4. CASE Stopped \/ UNCHANGED vars
  BY <1>4 DEF Stopped, vars, serverVars, actorVars
<1> QED BY <1>1, <1>2, <1>3, <1>4 DEF Next

LEMMA LendingNext == LendingInv /\ [Next]_vars => LendingInv'
<1> SUFFICES ASSUME LendingInv, [Next]_vars PROVE LendingInv'
  OBVIOUS
<1>1. CoreInv'
  BY CoreNext DEF LendingInv
<1>2. CASE \E a \in Actors : Pop(a) \/ Return(a)
  BY <1>1, <1>2, LendingPop, LendingReturn DEF LendingInv
<1>3. CASE ~ \E a \in Actors : Pop(a) \/ Return(a)
  <2>1. UNCHANGED <<zenek, zenek_pool_boost>>
    BY <1>3, LendingOther
  <2> QED BY <1>1, <2>1 DEF LendingInv, ZenonExclusion, NothingLost, Pooled
<1> QED BY <1>2, <1>3

LEMMA LendingCorrect == Spec => []LendingInv
<1> QED BY LendingInit, LendingNext, PTL DEF Spec

\* However many threads pop and push, with the warm-up or without, with log
\* calls that throw or not, no two actors have the same zenon and no zenon that
\* somebody has is in the pool.
THEOREM ExclusionHolds == Spec => []ZenonExclusion
<1>1. LendingInv => ZenonExclusion
  BY DEF LendingInv
<1> QED BY <1>1, LendingCorrect, PTL

\* Every zenon is in the pool or with an actor that will return it.
THEOREM NothingLostHolds == Spec => []NothingLost
<1>1. LendingInv => NothingLost
  BY DEF LendingInv
<1> QED BY <1>1, LendingCorrect, PTL

\* A zenon is always in exactly one place.
THEOREM InOnePlaceHolds == Spec => []InOnePlace
<1>1. ZenonExclusion /\ NothingLost => InOnePlace
  BY DEF InOnePlace
<1> QED BY <1>1, ExclusionHolds, NothingLostHolds, PTL
=============================================================================
