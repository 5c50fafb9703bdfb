-------------------------- MODULE SingleThreadProofs -------------------------
(***************************************************************************)
(* Theorems of SingleThread, for any number of queries and zenons, any     *)
(* kernel graph with a timed kernel and any options: the polling loop      *)
(* lends, refills and answers as it should.                                *)
(***************************************************************************)
EXTENDS SingleThread, ZenonProofs, FiniteSetTheorems, SequenceTheorems

-----------------------------------------------------------------------------
(* The inductive invariant.                                                *)

\* Steps at which zenek's inputs are not yet those its kernels will read.
Refilling == {"input_copy", "input_sync", "compute"}

\* Which call can be where.
Control ==
  /\ caller = "warmup" => main \in SampleSteps /\ warm_up
  /\ caller = "init" => main \in {"init", "undefined"} \cup SampleSteps
  /\ caller = "poll" =>
       main \in {"poll", "set_timestamps", "requery", "next", "terminated"}
                \cup SampleSteps \cup ResultSteps
  /\ caller = "print" => main \in {"print", "done", "undefined"} \cup ResultSteps
  /\ main \in SampleSteps \ {"pop"} => zenek \in Zenons

\* Where the loops are, and that no index leaves its vector in the first two.
Counters ==
  /\ caller = "warmup" => q = 0 /\ cntr = 0 /\ finish_count = 0
  /\ caller = "init" =>
       /\ cntr = 0 /\ finish_count = 0 /\ q \in 0 .. PoolSize
       /\ main # "undefined" => q \in 0 .. NumQueries
       /\ main \in SampleSteps => q < PoolSize
       /\ main = "undefined" => NumQueries < PoolSize
  /\ caller = "poll" =>
       /\ q \in PoolSize .. NumQueries
       /\ cntr \in 0 .. PoolSize - 1
       /\ main \in SampleSteps => q < NumQueries
  /\ caller = "print" =>
       /\ PoolSize <= NumQueries
       /\ finish_count = NumQueries
       /\ cntr \in 0 .. PoolSize
       /\ main \in ResultSteps => cntr < PoolSize
       /\ main = "undefined" => PoolSize < NumQueries
       /\ main = "done" /\ Profiling => cntr = NumQueries

\* The warm-up moves zenon 0 to the back of the pool, and so every zenon one slot
\* on.  Slots keep their zenon from then on.
InSlot(s) == IF ~warm_up THEN s ELSE IF s + 1 = PoolSize THEN 0 ELSE s + 1

SlotsFilled ==
  \A s \in Queries :
    zenonki[s] = IF \/ caller = "init" /\ s < q /\ s < PoolSize
                    \/ caller \in {"poll", "print"} /\ s < PoolSize
                 THEN InSlot(s) ELSE None

\* The zenon a call is about, and what the pool can hold when it is popped from.
Zenek ==
  /\ caller = "warmup" /\ main # "pop" => zenek = 0
  /\ caller = "init" /\ main \in SampleSteps \ {"pop"} => zenek = InSlot(q)
  /\ caller = "poll" /\ main \notin {"poll", "next"} => zenek = InSlot(cntr)
  /\ caller = "print" /\ main \in ResultSteps => zenek \in Zenons

Pool ==
  /\ caller = "warmup" /\ main = "pop" =>
       zenek_pool_boost = [n \in 1 .. PoolSize |-> n - 1]
  /\ caller = "warmup" /\ main # "pop" =>
       zenek_pool_boost = [n \in 1 .. PoolSize - 1 |-> n]
  /\ caller = "init" /\ main \in {"init", "pop"} =>
       zenek_pool_boost = [n \in 1 .. PoolSize - q |-> InSlot(q + n - 1)]
  /\ caller = "init" /\ main \in SampleSteps \ {"pop"} =>
       zenek_pool_boost = [n \in 1 .. PoolSize - q - 1 |-> InSlot(q + n)]
  /\ caller = "poll" /\ q < NumQueries =>
       zenek_pool_boost = IF main \in {"requery", "pop"} THEN <<zenek>> ELSE <<>>

\* Which query each zenon works or has worked for: in the first loop the one with
\* the number of its slot, later any, but no two zenons for the same.
Asked ==
  /\ caller = "init" =>
       \A s \in 0 .. PoolSize - 1 :
         /\ s < q => asked[InSlot(s)] = s
         /\ s = q /\ main \in Refilling => asked[InSlot(s)] = s
         /\ ~warm_up /\ ~(s = q /\ main \in Refilling) /\ s >= q =>
              asked[InSlot(s)] = None
  /\ caller \in {"poll", "print"} =>
       /\ \A z \in Zenons :
            \/ asked[z] \in 0 .. q - 1
            \/ caller = "poll" /\ main \in Refilling /\ z = zenek /\ asked[z] = q
       /\ \A y, z \in Zenons : asked[y] = asked[z] => y = z
       /\ caller = "poll" /\ main \in Refilling => asked[zenek] = q

\* Every query submitted so far is answered or a zenon works for it; the loop
\* counts the answers, and a zenon whose query is answered has nothing left.
AnswersCounted ==
  /\ caller \in {"warmup", "init"} => answers = <<>>
  /\ Answered \subseteq Queries
  /\ caller \in {"poll", "print"} => \A a \in Answered : a < q
  /\ IsFiniteSet(Answered)
  /\ Cardinality(Answered) = Len(answers)
  /\ Len(answers) = IF main = "requery" THEN finish_count + 1 ELSE finish_count
  /\ \A m, n \in 1 .. Len(answers) : answers[m][1] = answers[n][1] => m = n

AnsweredQuiet ==
  /\ \A z \in Zenons : asked[z] \in Answered => pending[z] = 0 /\ events[z] = {}
  /\ caller = "poll" /\ main \in {"requery", "pop", "fill"} => asked[zenek] \in Answered
  /\ caller = "poll" /\ main \in ResultSteps => asked[zenek] \notin Answered
  /\ ~warm_up => \A z \in Zenons :
       asked[z] = None \/ (z = zenek /\ main \in Refilling) => pending[z] = 0

\* Copies are in flight only where the host waits for them.
Copies ==
  \A z \in Zenons :
    /\ "input" \in copying[z] => z = zenek /\ main = "input_sync"
    /\ "output" \in copying[z] => z = zenek /\ main = "output_sync"
    /\ z = zenek /\ main \in {"output_copy", "output_sync", "show"} => pending[z] = 0
    /\ pending[z] = 0 => ran[z] = {}

\* The kernels of the last execution have computed the buffer copied out.
Settled(z) == pending[z] = 0 \/ (pending[z] = 1 /\ Writer \in ran[z])

\* The warm-up's zenon, until the first query it runs afterwards is over.
Spoilt(z) == JustWarmed(z) \/ (z = 0 /\ RunOnLeftovers(asked[z]))

\* A zenon that no loop has submitted anything to, or that is being refilled.
Unstarted(z) ==
  \/ caller = "warmup"
  \/ caller = "init" /\ \E s \in q .. PoolSize - 1 : z = InSlot(s)
  \/ caller = "poll" /\ z = zenek /\ main \in Refilling

\* Any other zenon is executed only when it is idle and its events are reset, so
\* that its kernels run on each other's results.
Fresh ==
  \A z \in Zenons :
    /\ pending[z] = 0 => z \notin mixed
    /\ ~Spoilt(z) =>
         /\ z \notin mixed
         /\ pending[z] \in {0, 1}
         /\ pending[z] # 0 => events[z] \subseteq ran[z]
         /\ Unstarted(z) => pending[z] = 0 /\ events[z] = {}

\* What each memory holds of the query the zenon was given.
Contents ==
  \A z \in Zenons :
    /\ asked[z] # None => asked[z] \in Int /\ input[z] = Byte(asked[z])
    /\ /\ asked[z] # None /\ ~DisableBlitter
       /\ ~(z = zenek /\ main = "input_copy") /\ "input" \notin copying[z]
      => dev_input[z] = input[z]
    /\ /\ asked[z] # None /\ Settled(z) /\ ~Spoilt(z)
       /\ ~(z = zenek /\ main \in Refilling)
      => dev_result[z] = dev_input[z]
    /\ /\ z = zenek /\ ~DisableBlitter
       /\ main = "show" \/ (main = "output_sync" /\ "output" \notin copying[z])
      => output[z] = dev_result[z]

LoopInv == Control /\ Counters /\ SlotsFilled /\ Zenek /\ Pool
QueryInv == Asked /\ AnswersCounted /\ AnsweredQuiet
MemoryInv == Copies /\ Fresh /\ Contents
IInv == TypeOK /\ LoopInv /\ QueryInv /\ MemoryInv /\ OwnAnswers

-----------------------------------------------------------------------------
(* Constants and slots.                                                    *)

LEMMA ConstantFacts ==
  /\ PoolSize \in Nat /\ PoolSize > 0 /\ 0 \in Zenons
  /\ NumQueries \in Nat /\ NumQueries > 0 /\ 0 \in Queries
  /\ None \notin Int /\ None \notin Zenons /\ None \notin Bytes
  BY SingleThreadAssumption, ZenonAssumption DEF Zenons, Queries, Bytes

\* Slots and zenons correspond one to one.
LEMMA InSlotFacts ==
  /\ \A s \in 0 .. PoolSize - 1 : InSlot(s) \in Zenons
  /\ \A s, t \in 0 .. PoolSize - 1 : InSlot(s) = InSlot(t) => s = t
  /\ \A z \in Zenons : \E s \in 0 .. PoolSize - 1 : InSlot(s) = z
<1>1. \A s \in 0 .. PoolSize - 1 : InSlot(s) \in Zenons
  BY ConstantFacts DEF InSlot, Zenons
<1>2. \A s, t \in 0 .. PoolSize - 1 : InSlot(s) = InSlot(t) => s = t
  BY ConstantFacts DEF InSlot
<1>3. ASSUME NEW z \in Zenons PROVE \E s \in 0 .. PoolSize - 1 : InSlot(s) = z
  <2>1. CASE ~warm_up
    BY <2>1, <1>3 DEF InSlot, Zenons
  <2>2. CASE warm_up /\ z = 0
    <3>1. PoolSize - 1 \in 0 .. PoolSize - 1 /\ InSlot(PoolSize - 1) = z
      BY <2>2, ConstantFacts DEF InSlot
    <3> QED BY <3>1
  <2>3. CASE warm_up /\ z # 0
    <3>1. z - 1 \in 0 .. PoolSize - 1 /\ InSlot(z - 1) = z
      BY <2>3, <1>3, ConstantFacts DEF InSlot, Zenons
    <3> QED BY <3>1
  <2> QED BY <2>1, <2>2, <2>3
<1> QED BY <1>1, <1>2, <1>3

\* The poll's next slot.
LEMMA NextSlotFacts ==
  ASSUME NEW c \in 0 .. PoolSize - 1
  PROVE  (c + 1) % PoolSize \in 0 .. PoolSize - 1
  BY ConstantFacts

-----------------------------------------------------------------------------
(* Types.                                                                  *)

LEMMA TypeInit == Init => TypeOK
<1> SUFFICES ASSUME Init PROVE TypeOK
  OBVIOUS
<1>1. ZenonTypeOK
  BY DEF Init, ServerInit, ZenonInit, ZenonTypeOK, Bytes
<1>2. zenek_pool_boost \in Seq(Zenons)
  BY ConstantFacts DEF Init, ServerInit, Zenons
<1>3. /\ main \in Steps /\ caller \in Callers /\ zenek \in Zenons \cup {None}
      /\ warm_up \in WarmUps
  BY DEF Init, Steps, SampleSteps, Callers
<1>4. /\ q \in 0 .. NumQueries + PoolSize
      /\ cntr \in 0 .. NumQueries + PoolSize
      /\ finish_count \in 0 .. NumQueries
  BY ConstantFacts DEF Init
<1>5. /\ zenonki \in [Queries -> Zenons \cup {None}]
      /\ waited \in SUBSET Queries
      /\ results \in SUBSET (Queries \cup Zenons)
      /\ asked \in [Zenons -> Int \cup {None}]
      /\ answers \in Seq(Int \X (Bytes \cup {None}))
  BY DEF Init
<1> QED BY <1>1, <1>2, <1>3, <1>4, <1>5 DEF TypeOK, ServerTypeOK

\* Every step of the thread keeps the types.
LEMMA ClientType ==
  ASSUME TypeOK, LoopInv, QueryInv, Client, UNCHANGED warm_up
  PROVE  TypeOK'
<1> USE DEF At, GoTo, Calls, TypeOK, ServerTypeOK, Steps, SampleSteps, ResultSteps,
            Ended, Callers, serverVars, loopVars, clientVars
<1>0. main \in (SampleSteps \ {"pop"}) \cup ResultSteps \cup {"set_timestamps"}
        => zenek \in Zenons
  BY InSlotFacts DEF LoopInv, Control, Counters, Zenek
<1>1. CASE Pop
  <2>1. ZenonTypeOK'
    BY <1>1, ZenonStutterType DEF Pop, get_zenon_atomic
  <2> QED BY <1>1, <2>1 DEF Pop, get_zenon_atomic
<1>2. CASE Fill
  <2>1. SampleId \in Int
    BY DEF SampleId
  <2>2. ZenonTypeOK'
    BY <1>0, <1>2, <2>1, FillType DEF Fill
  <2> QED BY <1>2, <2>1, <2>2 DEF Fill
<1>3. CASE InputCopy
  <2>1. ZenonTypeOK'
    BY <1>0, <1>3, ExecuteCopyType DEF InputCopy
  <2> QED BY <1>3, <2>1 DEF InputCopy
<1>4. CASE InputSync
  BY <1>4, ZenonStutterType DEF InputSync
<1>5. CASE ComputeWarmUp
  <2>1. ZenonTypeOK'
    BY <1>0, <1>5, ExecuteComputeType DEF ComputeWarmUp
  <2> QED BY <1>0, <1>5, <2>1, ConstantFacts DEF ComputeWarmUp
<1>6. CASE ComputeInit
  <2>1. ZenonTypeOK'
    BY <1>0, <1>6, ExecuteComputeType DEF ComputeInit
  <2>2. q' \in 0 .. NumQueries + PoolSize
    BY <1>6, ConstantFacts DEF ComputeInit, LoopInv, Counters
  <2>3. waited' \in SUBSET Queries
    BY <1>6, ConstantFacts DEF ComputeInit, Queries
  <2>4. zenonki' \in [Queries -> Zenons \cup {None}]
    BY <1>0, <1>6 DEF ComputeInit
  <2> QED BY <1>6, <2>1, <2>2, <2>3, <2>4 DEF ComputeInit
<1>7. CASE ComputeNext
  <2>1. ZenonTypeOK'
    BY <1>0, <1>7, ExecuteComputeType DEF ComputeNext
  <2>2. q' \in 0 .. NumQueries + PoolSize
    BY <1>7, ConstantFacts DEF ComputeNext, LoopInv, Counters
  <2>3. waited' \in SUBSET Queries
    BY <1>7, ConstantFacts DEF ComputeNext, Queries
  <2>4. zenonki' \in [Queries -> Zenons \cup {None}]
    BY <1>0, <1>7 DEF ComputeNext
  <2> QED BY <1>7, <2>1, <2>2, <2>3, <2>4 DEF ComputeNext
<1>8. CASE InitLoop
  BY <1>8, ZenonStutterType DEF InitLoop
<1>9. CASE PollFinished
  <2>1. cntr \in Queries /\ cntr \in Zenons
    BY <1>9, ConstantFacts DEF PollFinished, LoopInv, Control, Counters, Queries, Zenons
  <2> QED BY <1>9, <2>1, ZenonStutterType DEF PollFinished
<1>10. CASE PollPending
  BY <1>10, ZenonStutterType DEF PollPending
<1>11. CASE SetTimestamps
  <2>1. CASE timestamps_ready(zenek) /\ Profiling
    <3>1. ZenonTypeOK'
      BY <1>0, <1>11, <2>1, ReadTimestampsType DEF SetTimestamps
    <3> QED BY <1>11, <2>1, <3>1 DEF SetTimestamps
  <2>2. CASE ~(timestamps_ready(zenek) /\ Profiling)
    BY <1>11, <2>2, ZenonStutterType DEF SetTimestamps
  <2> QED BY <2>1, <2>2
<1>12. CASE Requery
  <2>1. finish_count + 1 = Cardinality(Answered)
    BY <1>12 DEF Requery, QueryInv, AnswersCounted
  <2>2. IsFiniteSet(Queries) /\ Cardinality(Queries) = NumQueries
    BY FS_Interval, ConstantFacts DEF Queries
  <2>3. Cardinality(Answered) <= NumQueries
    BY <2>2, FS_Subset DEF QueryInv, AnswersCounted
  <2>4. finish_count' \in 0 .. NumQueries
    BY <1>12, <2>1, <2>3 DEF Requery
  <2> QED BY <1>12, <2>4, ZenonStutterType DEF Requery
<1>13. CASE NextSlot
  <2>1. cntr' \in 0 .. NumQueries + PoolSize
    <3>1. cntr \in 0 .. PoolSize - 1
      BY <1>13 DEF NextSlot, LoopInv, Control, Counters
    <3> QED BY <1>13, <3>1, NextSlotFacts, ConstantFacts DEF NextSlot
  <2> QED BY <1>13, <2>1, ZenonStutterType DEF NextSlot
<1>14. CASE ResultSync
  BY <1>14, ZenonStutterType DEF ResultSync
<1>15. CASE OutputCopy
  <2>1. ZenonTypeOK'
    BY <1>0, <1>15, ExecuteCopyType DEF OutputCopy
  <2> QED BY <1>15, <2>1 DEF OutputCopy
<1>16. CASE OutputSync
  BY <1>16, ZenonStutterType DEF OutputSync
<1>17. CASE ShowToClient
  <2>1. ZenonTypeOK'
    BY <1>0, <1>17, ResetType DEF ShowToClient
  <2>2. <<asked[zenek], shown_output(zenek)>> \in Int \X (Bytes \cup {None})
    <3>1. asked[zenek] \in Int
      BY <1>0, <1>17 DEF ShowToClient, QueryInv, Asked
    <3> QED BY <1>0, <1>17, <3>1, ShownType DEF ShowToClient
  <2>3. zenek_pool_boost' \in Seq(Zenons)
    BY <1>0, <1>17 DEF ShowToClient
  <2>4. answers' \in Seq(Int \X (Bytes \cup {None}))
    BY <1>17, <2>2 DEF ShowToClient
  <2> QED BY <1>17, <2>1, <2>3, <2>4 DEF ShowToClient
<1>18. CASE ShowToPrinter
  <2>1. ZenonTypeOK'
    BY <1>0, <1>18, ResetType DEF ShowToPrinter
  <2>2. cntr' \in 0 .. NumQueries + PoolSize
    BY <1>18, ConstantFacts DEF ShowToPrinter, LoopInv, Counters
  <2> QED BY <1>18, <2>1, <2>2 DEF ShowToPrinter
<1>19. CASE PrintResults
  <2>1. zenek' \in Zenons \cup {None}
    BY <1>19, ConstantFacts DEF PrintResults, LoopInv, Control, Counters, Queries
  <2> QED BY <1>19, <2>1, ZenonStutterType DEF PrintResults
<1> QED BY <1>1, <1>2, <1>3, <1>4, <1>5, <1>6, <1>7, <1>8, <1>9, <1>10, <1>11,
           <1>12, <1>13, <1>14, <1>15, <1>16, <1>17, <1>18, <1>19
        DEF Client, QuerySample, RunAll, GetResult

-----------------------------------------------------------------------------
(* The loops, the slots and the pool.                                      *)

LEMMA LoopInit == Init => LoopInv
<1> SUFFICES ASSUME Init PROVE LoopInv
  OBVIOUS
<1>1. warm_up \in BOOLEAN
  BY SingleThreadAssumption DEF Init
<1>2. Control /\ Counters
  BY <1>1, ConstantFacts DEF Init, Control, Counters, SampleSteps
<1>3. SlotsFilled /\ Zenek
  BY <1>1, ConstantFacts DEF Init, SlotsFilled, Zenek, SampleSteps
<1>4. Pool
  BY <1>1, ConstantFacts DEF Init, ServerInit, Pool, SampleSteps, InSlot
<1> QED BY <1>2, <1>3, <1>4 DEF LoopInv

\* The calls, the counters and the slots after a step of the thread.
LEMMA ControlStep ==
  ASSUME TypeOK, LoopInv, QueryInv, Client, UNCHANGED warm_up
  PROVE  Control' /\ Counters' /\ SlotsFilled' /\ Zenek'
<1> USE ConstantFacts
    DEF LoopInv, Control, Counters, SlotsFilled, Zenek, At, GoTo, Calls, Callers,
        SampleSteps, ResultSteps, loopVars, InSlot
<1>0. /\ main \in Steps /\ caller \in Callers
      /\ q \in Int /\ cntr \in Int /\ finish_count \in Int
      /\ zenonki \in [Queries -> Zenons \cup {None}]
  BY DEF TypeOK
<1>1. CASE Pop
  <2>1. zenek' \in Zenons
    BY <1>1 DEF Pop
  <2>2. Zenek'
    <3>1. CASE caller = "warmup"
      BY <1>0, <1>1, <3>1 DEF Pop, get_zenon_atomic, Pool
    <3>2. CASE caller = "init"
      <4>1. PoolSize - q >= 1 /\ q \in Int
        BY <1>0, <1>1, <3>2 DEF Pop
      <4>2. zenek' = zenek_pool_boost[1]
        BY <1>1 DEF Pop, get_zenon_atomic
      <4>3. zenek_pool_boost = [n \in 1 .. PoolSize - q |-> InSlot(q + n - 1)]
        BY <1>1, <3>2 DEF Pop, Pool
      <4>4. zenek' = InSlot(q)
        BY <4>1, <4>2, <4>3
      <4> QED BY <1>1, <3>2, <4>4 DEF Pop
    <3>3. CASE caller = "poll"
      BY <1>0, <1>1, <3>3 DEF Pop, get_zenon_atomic, Pool
    <3> QED BY <1>0, <1>1, <3>1, <3>2, <3>3 DEF Pop
  <2> QED BY <1>1, <1>0, <2>1, <2>2 DEF Pop
<1>2. CASE Fill
  BY <1>0, <1>2 DEF Fill
<1>3. CASE InputCopy
  BY <1>0, <1>3 DEF InputCopy
<1>4. CASE InputSync
  BY <1>0, <1>4 DEF InputSync
<1>5. CASE ComputeWarmUp
  BY <1>0, <1>5 DEF ComputeWarmUp, Queries
<1>6. CASE ComputeInit
  <2>1. Control' /\ Counters' /\ Zenek'
    BY <1>0, <1>6, SingleThreadAssumption DEF ComputeInit
  <2>2. SlotsFilled'
    <3>1. CASE q < NumQueries
      BY <1>0, <1>6, <3>1 DEF ComputeInit, Queries
    <3>2. CASE ~(q < NumQueries)
      BY <1>0, <1>6, <3>2 DEF ComputeInit, Queries
    <3> QED BY <3>1, <3>2
  <2> QED BY <2>1, <2>2
<1>7. CASE ComputeNext
  <2>1. Control' /\ Counters' /\ Zenek'
    BY <1>0, <1>7 DEF ComputeNext
  <2>2. SlotsFilled'
    BY <1>0, <1>7 DEF ComputeNext, Queries
  <2> QED BY <2>1, <2>2
<1>8. CASE InitLoop
  <2>1. q < PoolSize \/ q = PoolSize
    BY <1>0, <1>8 DEF InitLoop
  <2>2. cntr = 0
    BY <1>0, <1>8 DEF InitLoop
  <2> QED BY <1>0, <1>8, <2>1, <2>2 DEF InitLoop, Queries
<1>9. CASE PollFinished
  <2>1. cntr \in Queries /\ zenonki[cntr] = InSlot(cntr)
    BY <1>0, <1>9 DEF PollFinished, Queries
  <2> QED BY <1>0, <1>9, <2>1 DEF PollFinished
<1>10. CASE PollPending
  BY <1>0, <1>10 DEF PollPending
<1>11. CASE SetTimestamps
  BY <1>0, <1>11 DEF SetTimestamps
<1>12. CASE Requery
  BY <1>0, <1>12 DEF Requery
<1>13. CASE NextSlot
  <2>1. CASE finish_count = NumQueries
    BY <1>0, <1>13, <2>1 DEF NextSlot
  <2>2. CASE finish_count # NumQueries
    <3>0. cntr \in 0 .. PoolSize - 1
      BY <1>0, <1>13 DEF NextSlot
    <3>1. cntr' \in 0 .. PoolSize - 1
      BY <1>13, <2>2, <3>0, NextSlotFacts DEF NextSlot
    <3> QED BY <1>0, <1>13, <2>2, <3>1 DEF NextSlot
  <2> QED BY <2>1, <2>2
<1>14. CASE ResultSync
  BY <1>0, <1>14 DEF ResultSync
<1>15. CASE OutputCopy
  BY <1>0, <1>15 DEF OutputCopy
<1>16. CASE OutputSync
  BY <1>0, <1>16 DEF OutputSync
<1>17. CASE ShowToClient
  BY <1>0, <1>17 DEF ShowToClient
<1>18. CASE ShowToPrinter
  BY <1>0, <1>18 DEF ShowToPrinter
<1>19. CASE PrintResults
  <2>1. CASE ~Profiling \/ cntr = NumQueries
    BY <1>0, <1>19, <2>1 DEF PrintResults
  <2>2. CASE ~(~Profiling \/ cntr = NumQueries)
    <3>1. caller = "print" /\ cntr \in Queries /\ zenonki[cntr] \in Zenons \cup {None}
      BY <1>0, <1>19, <2>2 DEF PrintResults, Queries
    <3>2. zenonki[cntr] = IF cntr < PoolSize THEN InSlot(cntr) ELSE None
      BY <3>1
    <3>3. zenonki[cntr] # None <=> cntr < PoolSize
      <4> HIDE DEF InSlot
      <4> QED BY <1>0, <3>1, <3>2, InSlotFacts
    <3> HIDE DEF SlotsFilled
    <3>4. CASE cntr < PoolSize
      <4>1. zenonki[cntr] \in Zenons
        BY <3>1, <3>3, <3>4
      <4>2. SlotsFilled'
        BY <1>19, <2>2 DEF PrintResults, SlotsFilled
      <4> QED BY <1>0, <1>19, <2>2, <3>1, <3>4, <4>1, <4>2 DEF PrintResults
    <3>5. CASE ~(cntr < PoolSize)
      <4>1. zenonki[cntr] = None /\ cntr = PoolSize
        BY <3>1, <3>3, <3>5
      <4>2. SlotsFilled'
        BY <1>19, <2>2 DEF PrintResults, SlotsFilled
      <4> QED BY <1>0, <1>19, <2>2, <3>1, <3>5, <4>1, <4>2 DEF PrintResults
    <3> QED BY <3>4, <3>5
  <2> QED BY <2>1, <2>2
<1> QED BY <1>1, <1>2, <1>3, <1>4, <1>5, <1>6, <1>7, <1>8, <1>9, <1>10, <1>11,
           <1>12, <1>13, <1>14, <1>15, <1>16, <1>17, <1>18, <1>19
        DEF Client, QuerySample, RunAll, GetResult

\* A sequence is a function, and so is its tail.
LEMMA TailAsFunction ==
  ASSUME NEW S, NEW s \in Seq(S), s # <<>>
  PROVE  Tail(s) = [n \in 1 .. Len(s) - 1 |-> s[n + 1]]
<1>1. /\ Tail(s) \in Seq(S) /\ Len(Tail(s)) = Len(s) - 1
      /\ \A n \in 1 .. Len(s) - 1 : Tail(s)[n] = s[n + 1]
  OBVIOUS
<1>2. ASSUME NEW t \in Seq(S) PROVE t = [n \in 1 .. Len(t) |-> t[n]]
  <2>1. PICK m \in Nat : t \in [1 .. m -> S]
    BY SeqDef
  <2>2. Len(t) = m
    BY <2>1
  <2> QED BY <2>1, <2>2
<1>3. Tail(s) = [n \in 1 .. Len(Tail(s)) |-> Tail(s)[n]]
  BY <1>1, <1>2
<1> QED BY <1>1, <1>3

\* What the pool holds after a step of the thread.
LEMMA PoolStep ==
  ASSUME TypeOK, LoopInv, Client, UNCHANGED warm_up
  PROVE  Pool'
<1> USE ConstantFacts
    DEF LoopInv, Control, Counters, Pool, At, GoTo, Calls, Callers, SampleSteps,
        ResultSteps, loopVars, serverVars, InSlot
<1>0. main \in Steps /\ caller \in Callers /\ q \in Int
  BY DEF TypeOK
<1>1. CASE Pop
  <2>1. zenek_pool_boost' = Tail(zenek_pool_boost)
    BY <1>1 DEF Pop, get_zenon_atomic
  <2>0. Tail(zenek_pool_boost)
          = [n \in 1 .. Len(zenek_pool_boost) - 1 |-> zenek_pool_boost[n + 1]]
    <3>1. zenek_pool_boost \in Seq(Zenons) /\ zenek_pool_boost # <<>>
      BY <1>1 DEF Pop, get_zenon_atomic, TypeOK, ServerTypeOK
    <3> QED BY <3>1, TailAsFunction
  <2>2. CASE caller = "warmup"
    <3>1. zenek_pool_boost = [n \in 1 .. PoolSize |-> n - 1]
      BY <1>1, <2>2 DEF Pop
    <3>2. Tail(zenek_pool_boost) = [n \in 1 .. PoolSize - 1 |-> n]
      BY <2>0, <3>1
    <3> QED BY <1>0, <1>1, <2>1, <2>2, <3>2 DEF Pop
  <2>3. CASE caller = "init"
    <3>1. PoolSize - q \in Nat /\ PoolSize - q >= 1
      BY <1>0, <1>1, <2>3 DEF Pop
    <3>2. zenek_pool_boost = [n \in 1 .. PoolSize - q |-> InSlot(q + n - 1)]
      BY <1>1, <2>3 DEF Pop
    <3>3. Tail(zenek_pool_boost) = [n \in 1 .. PoolSize - q - 1 |-> InSlot(q + n)]
      <4>1. Len(zenek_pool_boost) = PoolSize - q
        BY <3>1, <3>2
      <4>2. \A n \in 1 .. PoolSize - q - 1 : zenek_pool_boost[n + 1] = InSlot(q + n)
        BY <1>0, <3>1, <3>2
      <4> QED BY <2>0, <4>1, <4>2
    <3> QED BY <1>0, <1>1, <2>1, <2>3, <3>3 DEF Pop
  <2>4. CASE caller = "poll"
    <3>1. zenek_pool_boost = <<zenek>>
      BY <1>1, <2>4 DEF Pop
    <3>2. Tail(zenek_pool_boost) = <<>>
      BY <3>1
    <3> QED BY <1>0, <1>1, <2>1, <2>4, <3>2 DEF Pop
  <2> QED BY <1>0, <1>1, <2>2, <2>3, <2>4 DEF Pop
<1>2. CASE Fill
  BY <1>0, <1>2 DEF Fill
<1>3. CASE InputCopy
  BY <1>0, <1>3 DEF InputCopy
<1>4. CASE InputSync
  BY <1>0, <1>4 DEF InputSync
<1>5. CASE ComputeWarmUp
  <2>1. zenek_pool_boost = [n \in 1 .. PoolSize - 1 |-> n] /\ zenek = 0
    BY <1>5 DEF ComputeWarmUp, Zenek
  <2>2. Append(zenek_pool_boost, zenek) = [n \in 1 .. PoolSize |-> InSlot(n - 1)]
    BY <1>5, <2>1 DEF ComputeWarmUp, InSlot
  <2> QED BY <1>5, <2>2 DEF ComputeWarmUp
<1>6. CASE ComputeInit
  <2>1. zenek_pool_boost = [n \in 1 .. PoolSize - q - 1 |-> InSlot(q + n)]
    BY <1>6 DEF ComputeInit
  <2>2. zenek_pool_boost = [n \in 1 .. PoolSize - (q + 1) |-> InSlot((q + 1) + n - 1)]
    BY <1>0, <2>1
  <2> QED BY <1>0, <1>6, <2>2 DEF ComputeInit
<1>7. CASE ComputeNext
  BY <1>0, <1>7 DEF ComputeNext
<1>8. CASE InitLoop
  <2>1. CASE q < PoolSize
    BY <1>0, <1>8, <2>1 DEF InitLoop
  <2>2. CASE ~(q < PoolSize)
    <3>1. q = PoolSize /\ PoolSize - q = 0
      BY <1>0, <1>8, <2>2 DEF InitLoop
    <3>2. zenek_pool_boost = [n \in 1 .. PoolSize - q |-> InSlot(q + n - 1)]
      BY <1>0, <1>8 DEF InitLoop
    <3>3. zenek_pool_boost = <<>>
      BY <3>1, <3>2
    <3> QED BY <1>0, <1>8, <2>2, <3>3 DEF InitLoop
  <2> QED BY <2>1, <2>2
<1>9. CASE PollFinished
  BY <1>0, <1>9 DEF PollFinished
<1>10. CASE PollPending
  BY <1>0, <1>10 DEF PollPending
<1>11. CASE SetTimestamps
  BY <1>0, <1>11 DEF SetTimestamps
<1>12. CASE Requery
  BY <1>0, <1>12 DEF Requery
<1>13. CASE NextSlot
  BY <1>0, <1>13 DEF NextSlot
<1>14. CASE ResultSync
  BY <1>0, <1>14 DEF ResultSync
<1>15. CASE OutputCopy
  BY <1>0, <1>15 DEF OutputCopy
<1>16. CASE OutputSync
  BY <1>0, <1>16 DEF OutputSync
<1>17. CASE ShowToClient
  <2>1. zenek_pool_boost' = Append(zenek_pool_boost, zenek) /\ zenek' = zenek
    BY <1>17 DEF ShowToClient
  <2>2. q < NumQueries => zenek_pool_boost' = <<zenek>>
    BY <1>17, <2>1 DEF ShowToClient
  <2> QED BY <1>0, <1>17, <2>1, <2>2 DEF ShowToClient
<1>18. CASE ShowToPrinter
  BY <1>0, <1>18 DEF ShowToPrinter
<1>19. CASE PrintResults
  BY <1>0, <1>19 DEF PrintResults
<1> QED BY <1>1, <1>2, <1>3, <1>4, <1>5, <1>6, <1>7, <1>8, <1>9, <1>10, <1>11,
           <1>12, <1>13, <1>14, <1>15, <1>16, <1>17, <1>18, <1>19
        DEF Client, QuerySample, RunAll, GetResult

-----------------------------------------------------------------------------
(* Queries and answers.                                                    *)

LEMMA QueryInit == Init => QueryInv
<1> SUFFICES ASSUME Init PROVE QueryInv
  OBVIOUS
<1>1. Answered = {} /\ answers = <<>> /\ Len(answers) = 0
  BY DEF Init, Answered
<1>2. IsFiniteSet(Answered) /\ Cardinality(Answered) = 0
  BY <1>1, FS_EmptySet
<1>3. AnswersCounted
  BY <1>1, <1>2 DEF Init, AnswersCounted
<1>4. Asked
  BY <1>1, ConstantFacts DEF Init, Asked, InSlot, Zenons, Refilling
<1>5. AnsweredQuiet
  BY <1>1 DEF Init, ServerInit, ZenonInit, AnsweredQuiet, ResultSteps
<1> QED BY <1>3, <1>4, <1>5 DEF QueryInv

\* The steps that leave the questions and the answers alone.
LEMMA AnsweredSame == answers' = answers => Answered' = Answered
  BY DEF Answered

\* Who works for what after a step of the thread.
LEMMA AskedStep ==
  ASSUME TypeOK, LoopInv, QueryInv, Client, UNCHANGED warm_up
  PROVE  Asked'
<1> USE ConstantFacts
    DEF LoopInv, Control, Counters, Zenek, QueryInv, Asked, Refilling, At, GoTo, Calls,
        Callers, SampleSteps, ResultSteps, loopVars, InSlot
<1>0. /\ main \in Steps /\ caller \in Callers /\ q \in Int
      /\ asked \in [Zenons -> Int \cup {None}]
  BY DEF TypeOK
<1>1. CASE Pop
  BY <1>0, <1>1 DEF Pop
<1>2. CASE Fill
  <2>1. asked' = [asked EXCEPT ![zenek] = SampleId] /\ zenek' = zenek /\ zenek \in Zenons
    BY <1>2 DEF Fill
  <2>2. CASE caller = "warmup"
    BY <1>2, <2>2 DEF Fill
  <2>3. CASE caller = "init"
    <3>1. zenek = InSlot(q) /\ SampleId = q /\ q \in 0 .. PoolSize - 1
      BY <1>0, <1>2, <2>3 DEF Fill, SampleId
    <3>2. \A s \in 0 .. PoolSize - 1 :
            asked'[InSlot(s)] = IF s = q THEN q ELSE asked[InSlot(s)]
      BY <1>0, <2>1, <3>1, InSlotFacts
    <3> HIDE DEF InSlot
    <3>3. \A s \in 0 .. PoolSize - 1 : InSlot(s)' = InSlot(s)
      BY DEF InSlot
    <3> QED BY <1>0, <1>2, <2>3, <3>1, <3>2, <3>3 DEF Fill
  <2>4. CASE caller = "poll"
    <3>1. SampleId = q /\ \A z \in Zenons : asked[z] \in 0 .. q - 1
      BY <1>2, <2>4 DEF Fill, SampleId
    <3> QED BY <1>0, <1>2, <2>1, <2>4, <3>1 DEF Fill
  <2> QED BY <1>0, <1>2, <2>2, <2>3, <2>4 DEF Fill
<1>3. CASE InputCopy
  BY <1>0, <1>3 DEF InputCopy
<1>4. CASE InputSync
  BY <1>0, <1>4 DEF InputSync
<1>5. CASE ComputeWarmUp
  BY <1>0, <1>5 DEF ComputeWarmUp
<1>6. CASE ComputeInit
  <2> HIDE DEF InSlot
  <2>1. \A s \in 0 .. PoolSize - 1 : InSlot(s)' = InSlot(s)
    BY DEF InSlot
  <2> QED BY <1>0, <1>6, <2>1 DEF ComputeInit
<1>7. CASE ComputeNext
  BY <1>0, <1>7 DEF ComputeNext
<1>8. CASE InitLoop
  <2>1. CASE q < PoolSize
    BY <1>0, <1>8, <2>1 DEF InitLoop
  <2>2. CASE ~(q < PoolSize)
    <3>1. q = PoolSize /\ \A s \in 0 .. PoolSize - 1 : asked[InSlot(s)] = s
      BY <1>0, <1>8, <2>2 DEF InitLoop
    <3> HIDE DEF InSlot
    <3>2. \A z \in Zenons : asked[z] \in 0 .. q - 1
      BY <1>0, <3>1, InSlotFacts
    <3>3. \A y, z \in Zenons : asked[y] = asked[z] => y = z
      BY <3>1, InSlotFacts
    <3> QED BY <1>0, <1>8, <2>2, <3>2, <3>3 DEF InitLoop
  <2> QED BY <2>1, <2>2
<1>9. CASE PollFinished
  BY <1>0, <1>9 DEF PollFinished
<1>10. CASE PollPending
  BY <1>0, <1>10 DEF PollPending
<1>11. CASE SetTimestamps
  BY <1>0, <1>11 DEF SetTimestamps
<1>12. CASE Requery
  BY <1>0, <1>12 DEF Requery
<1>13. CASE NextSlot
  BY <1>0, <1>13 DEF NextSlot
<1>14. CASE ResultSync
  BY <1>0, <1>14 DEF ResultSync
<1>15. CASE OutputCopy
  BY <1>0, <1>15 DEF OutputCopy
<1>16. CASE OutputSync
  BY <1>0, <1>16 DEF OutputSync
<1>17. CASE ShowToClient
  BY <1>0, <1>17 DEF ShowToClient
<1>18. CASE ShowToPrinter
  BY <1>0, <1>18 DEF ShowToPrinter
<1>19. CASE PrintResults
  BY <1>0, <1>19 DEF PrintResults
<1> QED BY <1>1, <1>2, <1>3, <1>4, <1>5, <1>6, <1>7, <1>8, <1>9, <1>10, <1>11,
           <1>12, <1>13, <1>14, <1>15, <1>16, <1>17, <1>18, <1>19
        DEF Client, QuerySample, RunAll, GetResult

\* One more answer, to a query that had none.
LEMMA ShowCounted ==
  ASSUME TypeOK, LoopInv, QueryInv, ShowToClient
  PROVE  AnswersCounted' /\ Answered' = Answered \cup {asked[zenek]}
<1> USE DEF LoopInv, Control, Counters, Zenek, QueryInv, Asked, AnswersCounted, At, GoTo
<1> DEFINE a == asked[zenek]
<1>1. /\ caller = "poll" /\ caller' = "poll" /\ main' = "requery"
      /\ finish_count' = finish_count /\ q' = q /\ q \in PoolSize .. NumQueries
      /\ answers' = Append(answers, <<a, shown_output(zenek)>>)
      /\ Len(answers) = finish_count /\ finish_count \in Int
  BY DEF ShowToClient, loopVars, TypeOK
<1>2. zenek \in Zenons
  BY <1>1, InSlotFacts DEF ShowToClient
<1>3. a \in 0 .. q - 1 /\ a \in Queries
  BY <1>1, <1>2, ConstantFacts DEF ShowToClient, Refilling, Queries
<1>4. a \notin Answered
  BY <1>1 DEF ShowToClient, AnsweredQuiet, ResultSteps
<1>5. answers \in Seq(Int \X (Bytes \cup {None}))
  BY DEF TypeOK
<1>6. /\ Len(answers') = Len(answers) + 1
      /\ \A n \in 1 .. Len(answers) : answers'[n] = answers[n]
      /\ answers'[Len(answers) + 1] = <<a, shown_output(zenek)>>
  BY <1>1, <1>5
<1>7. Answered' = Answered \cup {a}
  <2>1. \A n \in 1 .. Len(answers') : n \in 1 .. Len(answers) \/ n = Len(answers) + 1
    BY <1>1, <1>6
  <2>2. Len(answers) + 1 \in 1 .. Len(answers') /\ 1 .. Len(answers) \subseteq 1 .. Len(answers')
    BY <1>1, <1>5, <1>6
  <2>3. ASSUME NEW x \in Answered' PROVE x \in Answered \cup {a}
    <3>1. PICK n \in 1 .. Len(answers') : x = answers'[n][1]
      BY DEF Answered
    <3>2. CASE n \in 1 .. Len(answers)
      <4>1. x = answers[n][1]
        BY <1>6, <3>1, <3>2
      <4> QED BY <3>2, <4>1 DEF Answered
    <3>3. CASE n = Len(answers) + 1
      <4>1. x = <<a, shown_output(zenek)>>[1]
        BY <1>6, <3>1, <3>3
      <4> QED BY <4>1
    <3> QED BY <2>1, <3>1, <3>2, <3>3
  <2>4. ASSUME NEW x \in Answered PROVE x \in Answered'
    <3>1. PICK n \in 1 .. Len(answers) : x = answers[n][1]
      BY DEF Answered
    <3>2. n \in 1 .. Len(answers') /\ x = answers'[n][1]
      BY <1>6, <2>2, <3>1
    <3> QED BY <3>2 DEF Answered
  <2>5. a \in Answered'
    <3>1. a = answers'[Len(answers) + 1][1]
      BY <1>6
    <3> QED BY <2>2, <3>1 DEF Answered
  <2> QED BY <2>3, <2>4, <2>5
<1>8. IsFiniteSet(Answered') /\ Cardinality(Answered') = Cardinality(Answered) + 1
  BY <1>4, <1>7, FS_AddElement
<1>9. \A m, n \in 1 .. Len(answers') : answers'[m][1] = answers'[n][1] => m = n
  <2>1. \A n \in 1 .. Len(answers) : answers'[n][1] # a
    BY <1>4, <1>6 DEF Answered
  <2> QED BY <1>1, <1>6, <2>1
<1> QED BY <1>1, <1>3, <1>6, <1>7, <1>8, <1>9

LEMMA CountedStep ==
  ASSUME TypeOK, LoopInv, QueryInv, Client, UNCHANGED warm_up
  PROVE  AnswersCounted'
<1> USE DEF LoopInv, Control, QueryInv, AnswersCounted, At, GoTo, Calls, Callers,
            SampleSteps, ResultSteps, loopVars
<1>0. main \in Steps /\ caller \in Callers /\ q \in Int
  BY DEF TypeOK
<1>1. CASE ShowToClient
  BY <1>1, ShowCounted
<1>2. CASE ~ShowToClient
  <2>1. answers' = answers
    BY <1>2 DEF Client, QuerySample, RunAll, GetResult, Pop, Fill, InputCopy,
       InputSync, ComputeWarmUp, ComputeInit, ComputeNext, InitLoop, PollFinished,
       PollPending, SetTimestamps, Requery, NextSlot, ResultSync, OutputCopy,
       OutputSync, ShowToPrinter, PrintResults
  <2>2. Answered' = Answered
    BY <2>1, AnsweredSame
  <2>3. q' \in Int /\ q' >= q
    BY <1>0, <1>2 DEF Client, QuerySample, RunAll, GetResult, Pop, Fill, InputCopy,
       InputSync, ComputeWarmUp, ComputeInit, ComputeNext, InitLoop, PollFinished,
       PollPending, SetTimestamps, Requery, NextSlot, ResultSync, OutputCopy,
       OutputSync, ShowToPrinter, PrintResults
  <2>4. /\ caller' \in {"warmup", "init"} => caller \in {"warmup", "init"}
        /\ caller \in {"warmup", "init"} => Answered = {}
    <3>1. caller' \in {"warmup", "init"} => caller \in {"warmup", "init"}
      BY <1>0, <1>2 DEF Client, QuerySample, RunAll, GetResult, Pop, Fill, InputCopy,
       InputSync, ComputeWarmUp, ComputeInit, ComputeNext, InitLoop, PollFinished,
       PollPending, SetTimestamps, Requery, NextSlot, ResultSync, OutputCopy,
       OutputSync, ShowToPrinter, PrintResults
    <3>2. caller \in {"warmup", "init"} => Answered = {}
      BY DEF Answered
    <3> QED BY <3>1, <3>2
  <2>5. Len(answers) = IF main' = "requery" THEN finish_count' + 1 ELSE finish_count'
    <3>1. CASE Requery
      BY <3>1 DEF Requery
    <3>2. CASE ~Requery
      BY <1>0, <1>2, <3>2 DEF Client, QuerySample, RunAll, GetResult, Pop, Fill,
       InputCopy, InputSync, ComputeWarmUp, ComputeInit, ComputeNext, InitLoop,
       PollFinished, PollPending, SetTimestamps, NextSlot, ResultSync, OutputCopy,
       OutputSync, ShowToPrinter, PrintResults
    <3> QED BY <3>1, <3>2
  <2>6. IsFiniteSet(Answered') /\ Cardinality(Answered') = Len(answers')
    BY <2>1, <2>2
  <2>7. \A a \in Answered : caller' \in {"poll", "print"} => a < q'
    BY <1>0, <2>3, <2>4 DEF Queries
  <2> QED BY <1>0, <2>1, <2>2, <2>4, <2>5, <2>6, <2>7
<1> QED BY <1>1, <1>2

\* An answered query's zenon has nothing left, and the thread submits only to
\* zenons with nothing in flight.
LEMMA QuietStep ==
  ASSUME TypeOK, LoopInv, QueryInv, MemoryInv, Client, UNCHANGED warm_up
  PROVE  AnsweredQuiet'
<1> USE ConstantFacts
    DEF LoopInv, Control, Counters, QueryInv, AnsweredQuiet, Refilling, At, GoTo,
        Calls, Callers, SampleSteps, ResultSteps, loopVars, serverVars, zenonVars,
        deviceVars, hostVars
<1>0. /\ main \in Steps /\ caller \in Callers /\ q \in Int
      /\ asked \in [Zenons -> Int \cup {None}]
      /\ pending \in [Zenons -> Nat] /\ events \in [Zenons -> SUBSET Kernels]
      /\ caller \in {"warmup", "init"} => Answered = {}
      /\ \A a \in Answered : a \in Int
  BY SMTT(20) DEF TypeOK, ServerTypeOK, ZenonTypeOK, AnswersCounted, Answered, Queries
<1>s. answers' = answers => Answered' = Answered
  BY AnsweredSame
<1>1. CASE Pop
  <2>1. Zenek'
    BY ControlStep
  <2>2. ~warm_up /\ caller = "init" => asked[zenek'] = None
    BY <1>0, <1>1, <2>1 DEF Pop, Zenek, Asked, InSlot
  <2> QED BY <1>0, <1>s, <1>1, <2>2 DEF Pop, get_zenon_atomic, Pool
<1>2. CASE Fill
  <2>1. zenek \in Zenons /\ asked' = [asked EXCEPT ![zenek] = SampleId]
    BY <1>2 DEF Fill
  <2>2. Answered' = Answered /\ pending' = pending /\ events' = events /\ zenek' = zenek
        /\ caller' = caller /\ main' \in Refilling
    BY <1>s, <1>2 DEF Fill, fill_inputs
  <2>3. SampleId \notin Answered /\ SampleId \in Int
    BY <1>0, <1>2 DEF Fill, SampleId, AnswersCounted
  <2>4. ~warm_up => pending[zenek] = 0
    <3>1. CASE caller = "init"
      BY <1>2, <3>1 DEF Fill, Asked, Zenek, InSlot
    <3>2. CASE caller = "poll"
      BY <1>2, <2>1, <3>2 DEF Fill
    <3> QED BY <1>0, <1>2, <3>1, <3>2 DEF Fill
  <2> QED BY <1>0, <2>1, <2>2, <2>3, <2>4
<1>3. CASE InputCopy
  BY <1>0, <1>s, <1>3 DEF InputCopy, execute_copy
<1>4. CASE InputSync
  BY <1>0, <1>s, <1>4 DEF InputSync
<1>5. CASE ComputeWarmUp
  BY <1>0, <1>s, <1>5 DEF ComputeWarmUp, execute_compute
<1>6. CASE ComputeInit
  <2>1. zenek \in Zenons /\ asked[zenek] # None
    BY <1>0, <1>6 DEF ComputeInit, Zenek, Asked, InSlot
  <2> QED BY <1>0, <1>s, <1>6, <2>1 DEF ComputeInit, execute_compute
<1>7. CASE ComputeNext
  <2>1. zenek \in Zenons /\ asked[zenek] # None /\ asked[zenek] \notin Answered
    BY <1>0, <1>7 DEF ComputeNext, Asked, AnswersCounted
  <2> QED BY <1>0, <1>s, <1>7, <2>1 DEF ComputeNext, execute_compute
<1>8. CASE InitLoop
  BY <1>0, <1>s, <1>8 DEF InitLoop
<1>9. CASE PollFinished
  BY <1>0, <1>s, <1>9 DEF PollFinished
<1>10. CASE PollPending
  BY <1>0, <1>s, <1>10 DEF PollPending
<1>11. CASE SetTimestamps
  <2>1. CASE timestamps_ready(zenek) /\ Profiling
    <3>1. zenek \in Zenons
      BY <1>0, <1>11, InSlotFacts DEF SetTimestamps, Zenek
    <3>2. events[zenek] # {}
      BY <2>1, SingleThreadAssumption DEF timestamps_ready
    <3>3. asked[zenek] \notin Answered
      BY <3>1, <3>2
    <3> QED BY <1>0, <1>s, <1>11, <2>1, <3>3 DEF SetTimestamps, read_timestamps
  <2>2. CASE ~(timestamps_ready(zenek) /\ Profiling)
    BY <1>0, <1>s, <1>11, <2>2 DEF SetTimestamps
  <2> QED BY <2>1, <2>2
<1>12. CASE Requery
  BY <1>0, <1>s, <1>12 DEF Requery
<1>13. CASE NextSlot
  BY <1>0, <1>s, <1>13 DEF NextSlot
<1>14. CASE ResultSync
  BY <1>0, <1>s, <1>14 DEF ResultSync
<1>15. CASE OutputCopy
  BY <1>0, <1>s, <1>15 DEF OutputCopy, execute_copy
<1>16. CASE OutputSync
  BY <1>0, <1>s, <1>16 DEF OutputSync
<1>17. CASE ShowToClient
  <2>1. zenek \in Zenons /\ zenek' = zenek /\ pending[zenek] = 0
    BY <1>17, InSlotFacts DEF ShowToClient, Zenek, MemoryInv, Copies
  <2>2. Answered' = Answered \cup {asked[zenek]}
    BY <1>17, ShowCounted
  <2>3. \A z \in Zenons : asked[z] = asked[zenek] => z = zenek
    BY <1>17, <2>1 DEF ShowToClient, Asked
  <2> QED BY <1>0, <1>17, <2>1, <2>2, <2>3 DEF ShowToClient, reset_events
<1>18. CASE ShowToPrinter
  <2>1. zenek \in Zenons
    BY <1>18 DEF ShowToPrinter, Zenek
  <2> QED BY <1>0, <1>s, <1>18, <2>1 DEF ShowToPrinter, reset_events
<1>19. CASE PrintResults
  BY <1>0, <1>s, <1>19 DEF PrintResults
<1> QED BY <1>1, <1>2, <1>3, <1>4, <1>5, <1>6, <1>7, <1>8, <1>9, <1>10, <1>11,
           <1>12, <1>13, <1>14, <1>15, <1>16, <1>17, <1>18, <1>19
        DEF Client, QuerySample, RunAll, GetResult

\* The device touches no question and no answer, and nothing of an idle zenon but
\* the copies.
LEMMA QueryGpu ==
  ASSUME TypeOK, LoopInv, QueryInv, NEW z \in Zenons, Gpu(z), UNCHANGED warm_up
  PROVE  QueryInv'
<1>1. UNCHANGED <<clientVars, warm_up>>
  BY DEF Gpu
<1>2. Answered' = Answered
  BY <1>1 DEF clientVars, Answered
<1>3. Asked' /\ AnswersCounted'
  BY <1>1, <1>2 DEF QueryInv, Asked, AnswersCounted, clientVars, loopVars, InSlot
<1>4. \A y \in Zenons : pending[y] = 0 => pending'[y] = 0 /\ events'[y] = events[y]
  BY DEF Gpu, Device, DeviceInputCopy, DeviceKernel, DeviceRetire, DeviceOutputCopy,
         TypeOK, ServerTypeOK, ZenonTypeOK
<1>5. AnsweredQuiet'
  BY <1>1, <1>2, <1>4 DEF QueryInv, AnsweredQuiet, clientVars
<1> QED BY <1>3, <1>5 DEF QueryInv

-----------------------------------------------------------------------------
(* The zenons' memory.                                                     *)

LEMMA MemoryInit == Init => MemoryInv /\ OwnAnswers
  BY ConstantFacts DEF Init, ServerInit, ZenonInit, MemoryInv, Copies, Fresh,
                       Contents, OwnAnswers

\* Copies in flight after a step of the thread.
LEMMA CopiesStep ==
  ASSUME TypeOK, LoopInv, QueryInv, MemoryInv, Client, UNCHANGED warm_up
  PROVE  Copies'
<1> USE DEF MemoryInv, Copies, At, GoTo, Calls, loopVars, serverVars, zenonVars,
            deviceVars, hostVars
<1>0. /\ copying \in [Zenons -> SUBSET {"input", "output"}]
      /\ pending \in [Zenons -> Nat]
  BY DEF TypeOK, ServerTypeOK, ZenonTypeOK
<1>1. CASE Pop
  BY <1>0, <1>1 DEF Pop, get_zenon_atomic
<1>2. CASE Fill
  BY <1>0, <1>2 DEF Fill, fill_inputs
<1>3. CASE InputCopy
  BY <1>0, <1>3 DEF InputCopy, execute_copy
<1>4. CASE InputSync
  BY <1>0, <1>4 DEF InputSync, copy_idle
<1>5. CASE ComputeWarmUp
  BY <1>0, <1>5 DEF ComputeWarmUp, execute_compute
<1>6. CASE ComputeInit
  BY <1>0, <1>6 DEF ComputeInit, execute_compute
<1>7. CASE ComputeNext
  BY <1>0, <1>7 DEF ComputeNext, execute_compute
<1>8. CASE InitLoop
  BY <1>0, <1>8 DEF InitLoop
<1>9. CASE PollFinished
  BY <1>0, <1>9 DEF PollFinished
<1>10. CASE PollPending
  BY <1>0, <1>10 DEF PollPending
<1>11. CASE SetTimestamps
  BY <1>0, <1>11 DEF SetTimestamps, read_timestamps
<1>12. CASE Requery
  BY <1>0, <1>12 DEF Requery
<1>13. CASE NextSlot
  BY <1>0, <1>13 DEF NextSlot
<1>14. CASE ResultSync
  BY <1>0, <1>14 DEF ResultSync, compute_idle
<1>15. CASE OutputCopy
  BY <1>0, <1>15 DEF OutputCopy, execute_copy
<1>16. CASE OutputSync
  BY <1>0, <1>16 DEF OutputSync, copy_idle
<1>17. CASE ShowToClient
  BY <1>0, <1>17 DEF ShowToClient, reset_events
<1>18. CASE ShowToPrinter
  BY <1>0, <1>18 DEF ShowToPrinter, reset_events
<1>19. CASE PrintResults
  BY <1>0, <1>19 DEF PrintResults
<1> QED BY <1>1, <1>2, <1>3, <1>4, <1>5, <1>6, <1>7, <1>8, <1>9, <1>10, <1>11,
           <1>12, <1>13, <1>14, <1>15, <1>16, <1>17, <1>18, <1>19
        DEF Client, QuerySample, RunAll, GetResult

\* What the warm-up spoils stays spoilt until the poll refills it.
LEMMA SpoiltStep ==
  ASSUME TypeOK, LoopInv, QueryInv, Client, UNCHANGED warm_up,
         NEW z \in Zenons, ~Spoilt(z)'
  PROVE  ~Spoilt(z) \/ (main = "fill" /\ caller = "poll" /\ z = zenek)
<1> SUFFICES ASSUME Spoilt(z) PROVE main = "fill" /\ caller = "poll" /\ z = zenek
  OBVIOUS
<1> USE ConstantFacts DEF Spoilt, JustWarmed, RunOnLeftovers, At, GoTo, Calls
<1>1. CASE Fill
  <2>1. caller \in {"warmup", "init", "poll"} /\ caller' = caller /\ main = "fill"
    BY <1>1 DEF Fill, LoopInv, Control, ResultSteps, TypeOK, Callers
  <2>2. z # zenek => asked'[z] = asked[z]
    BY <1>1 DEF Fill, TypeOK
  <2> QED BY <2>1, <2>2
<1>2. CASE InitLoop
  <2>1. caller = "init" /\ ~(q < PoolSize)
    BY <1>2 DEF InitLoop, LoopInv, Control, TypeOK, Callers, SampleSteps, ResultSteps
  <2>2. q = PoolSize /\ PoolSize - 1 \in 0 .. PoolSize - 1 /\ InSlot(PoolSize - 1) = 0
    BY <1>2, <2>1 DEF InitLoop, LoopInv, Counters, InSlot
  <2>3. asked[0] = PoolSize - 1
    BY <2>1, <2>2 DEF QueryInv, Asked
  <2> QED BY <1>2, <2>3 DEF InitLoop
<1>3. CASE ~Fill /\ ~InitLoop
  <2>1. /\ asked' = asked
        /\ caller \in {"warmup", "init"} => caller' \in {"warmup", "init"}
    BY <1>3 DEF Client, QuerySample, RunAll, GetResult, Pop, InputCopy, InputSync,
       ComputeWarmUp, ComputeInit, ComputeNext, PollFinished, PollPending,
       SetTimestamps, Requery, NextSlot, ResultSync, OutputCopy, OutputSync,
       ShowToClient, ShowToPrinter, PrintResults, LoopInv, Control, SampleSteps,
       ResultSteps
  <2> QED BY <2>1
<1> QED BY <1>1, <1>2, <1>3

\* Which executions are fresh after a step of the thread.
LEMMA FreshStep ==
  ASSUME TypeOK, LoopInv, QueryInv, MemoryInv, Client, UNCHANGED warm_up
  PROVE  Fresh'
<1> USE DEF MemoryInv, Fresh, Unstarted, Refilling, At, GoTo, Calls, loopVars,
            serverVars, zenonVars, deviceVars, hostVars
<1>0. /\ pending \in [Zenons -> Nat]
      /\ events \in [Zenons -> SUBSET Kernels]
      /\ q \in Int
      /\ \A z \in Zenons :
           ~Spoilt(z)' => ~Spoilt(z) \/ (main = "fill" /\ caller = "poll" /\ z = zenek)
      /\ \A s : InSlot(s)' = InSlot(s)
  BY SpoiltStep DEF TypeOK, ServerTypeOK, ZenonTypeOK, InSlot
<1>1. CASE Pop
  BY <1>0, <1>1 DEF Pop, get_zenon_atomic
<1>2. CASE Fill
  <2>1. zenek \in Zenons
    BY <1>2 DEF Fill, LoopInv, Control, SampleSteps
  <2>2. caller = "poll" => pending[zenek] = 0 /\ events[zenek] = {}
    BY <1>2, <2>1 DEF Fill, QueryInv, AnsweredQuiet
  <2>3. pending' = pending /\ events' = events /\ ran' = ran /\ mixed' = mixed
    BY <1>2 DEF Fill, fill_inputs
  <2>4. caller' = caller /\ q' = q /\ zenek' = zenek
    BY <1>2 DEF Fill
  <2> QED BY <1>0, <2>1, <2>2, <2>3, <2>4
<1>3. CASE InputCopy
  BY <1>0, <1>3 DEF InputCopy, execute_copy
<1>4. CASE InputSync
  BY <1>0, <1>4 DEF InputSync
<1>5. CASE ComputeWarmUp
  <2>1. Spoilt(zenek)'
    BY <1>5, ConstantFacts DEF ComputeWarmUp, LoopInv, Control, Zenek, Spoilt,
                                   JustWarmed
  <2> QED BY <1>0, <1>5, <2>1 DEF ComputeWarmUp, execute_compute
<1>6. CASE ComputeInit
  <2>1. zenek = InSlot(q) /\ q \in 0 .. PoolSize - 1 /\ q' = q + 1 /\ caller' = "init"
    BY <1>6, ConstantFacts DEF ComputeInit, LoopInv, Control, Counters, Zenek, SampleSteps
  <2>2. \A z \in Zenons : Unstarted(z)' => Unstarted(z) /\ z # zenek
    BY <1>0, <1>6, <2>1, InSlotFacts DEF ComputeInit
  <2>3. Unstarted(zenek)
    BY <1>6, <2>1 DEF ComputeInit
  <2> HIDE DEF Unstarted
  <2> QED BY <1>0, <1>6, <2>2, <2>3 DEF ComputeInit, execute_compute
<1>7. CASE ComputeNext
  BY <1>0, <1>7 DEF ComputeNext, execute_compute
<1>8. CASE InitLoop
  BY <1>0, <1>8 DEF InitLoop
<1>9. CASE PollFinished
  BY <1>0, <1>9 DEF PollFinished
<1>10. CASE PollPending
  BY <1>0, <1>10 DEF PollPending
<1>11. CASE SetTimestamps
  BY <1>0, <1>11 DEF SetTimestamps, read_timestamps
<1>12. CASE Requery
  BY <1>0, <1>12 DEF Requery
<1>13. CASE NextSlot
  BY <1>0, <1>13 DEF NextSlot
<1>14. CASE ResultSync
  BY <1>0, <1>14 DEF ResultSync
<1>15. CASE OutputCopy
  BY <1>0, <1>15 DEF OutputCopy, execute_copy
<1>16. CASE OutputSync
  BY <1>0, <1>16 DEF OutputSync
<1>17. CASE ShowToClient
  BY <1>0, <1>17 DEF ShowToClient, reset_events
<1>18. CASE ShowToPrinter
  BY <1>0, <1>18 DEF ShowToPrinter, reset_events
<1>19. CASE PrintResults
  BY <1>0, <1>19 DEF PrintResults
<1> QED BY <1>1, <1>2, <1>3, <1>4, <1>5, <1>6, <1>7, <1>8, <1>9, <1>10, <1>11,
           <1>12, <1>13, <1>14, <1>15, <1>16, <1>17, <1>18, <1>19
        DEF Client, QuerySample, RunAll, GetResult

\* What the memories hold after a step of the thread.
LEMMA ContentsStep ==
  ASSUME TypeOK, LoopInv, QueryInv, MemoryInv, Client, UNCHANGED warm_up
  PROVE  Contents'
<1> USE ConstantFacts
    DEF MemoryInv, Copies, Contents, Settled, Refilling, At, GoTo, Calls, loopVars,
        serverVars, zenonVars, deviceVars, hostVars
<1>0. /\ copying \in [Zenons -> SUBSET {"input", "output"}]
      /\ pending \in [Zenons -> Nat]
      /\ input \in [Zenons -> Bytes]
      /\ asked \in [Zenons -> Int \cup {None}]
      /\ q \in Int
      /\ \A z \in Zenons :
           ~Spoilt(z)' => ~Spoilt(z) \/ (main = "fill" /\ caller = "poll" /\ z = zenek)
  BY SpoiltStep DEF TypeOK, ServerTypeOK, ZenonTypeOK
<1>1. CASE Pop
  BY <1>0, <1>1 DEF Pop, get_zenon_atomic
<1>2. CASE Fill
  <2>1. zenek \in Zenons /\ SampleId \in Int
    BY <1>0, <1>2 DEF Fill, SampleId, LoopInv, Control, SampleSteps
  <2> QED BY <1>0, <1>2, <2>1 DEF Fill, fill_inputs
<1>3. CASE InputCopy
  BY <1>0, <1>3 DEF InputCopy, execute_copy
<1>4. CASE InputSync
  BY <1>0, <1>4 DEF InputSync, copy_idle
<1>5. CASE ComputeWarmUp
  BY <1>0, <1>5 DEF ComputeWarmUp, execute_compute
<1>6. CASE ComputeInit
  BY <1>0, <1>6 DEF ComputeInit, execute_compute
<1>7. CASE ComputeNext
  BY <1>0, <1>7 DEF ComputeNext, execute_compute
<1>8. CASE InitLoop
  BY <1>0, <1>8 DEF InitLoop
<1>9. CASE PollFinished
  BY <1>0, <1>9 DEF PollFinished
<1>10. CASE PollPending
  BY <1>0, <1>10 DEF PollPending
<1>11. CASE SetTimestamps
  BY <1>0, <1>11 DEF SetTimestamps, read_timestamps
<1>12. CASE Requery
  BY <1>0, <1>12 DEF Requery
<1>13. CASE NextSlot
  BY <1>0, <1>13 DEF NextSlot
<1>14. CASE ResultSync
  BY <1>0, <1>14 DEF ResultSync, compute_idle
<1>15. CASE OutputCopy
  BY <1>0, <1>15 DEF OutputCopy, execute_copy
<1>16. CASE OutputSync
  BY <1>0, <1>16 DEF OutputSync, copy_idle
<1>17. CASE ShowToClient
  BY <1>0, <1>17 DEF ShowToClient, reset_events
<1>18. CASE ShowToPrinter
  BY <1>0, <1>18 DEF ShowToPrinter, reset_events
<1>19. CASE PrintResults
  BY <1>0, <1>19 DEF PrintResults
<1> QED BY <1>1, <1>2, <1>3, <1>4, <1>5, <1>6, <1>7, <1>8, <1>9, <1>10, <1>11,
           <1>12, <1>13, <1>14, <1>15, <1>16, <1>17, <1>18, <1>19
        DEF Client, QuerySample, RunAll, GetResult

\* What get_result has on the host is the answer to the query the zenon was given.
LEMMA ShownAnswer ==
  ASSUME TypeOK, LoopInv, QueryInv, MemoryInv, ~DisableBlitter, caller = "poll",
         main = "show" \/ (main = "output_sync" /\ "output" \notin copying[zenek]),
         ~RunOnLeftovers(asked[zenek])
  PROVE  shown_output(zenek) = Byte(asked[zenek]) /\ asked[zenek] \in Int
<1>1. zenek \in Zenons
  BY InSlotFacts DEF LoopInv, Counters, Zenek
<1>2. asked[zenek] # None
  BY <1>1, ConstantFacts DEF QueryInv, Asked, TypeOK, Refilling
<1>3. output[zenek] = dev_result[zenek] /\ pending[zenek] = 0
  BY <1>1 DEF MemoryInv, Contents, Copies
<1>4. dev_result[zenek] = dev_input[zenek]
  BY <1>1, <1>2, <1>3 DEF MemoryInv, Contents, Settled, Refilling, Spoilt, JustWarmed
<1>5. dev_input[zenek] = input[zenek]
  BY <1>1, <1>2 DEF MemoryInv, Contents, Copies
<1>6. input[zenek] = Byte(asked[zenek]) /\ asked[zenek] \in Int
  BY <1>1, <1>2 DEF MemoryInv, Contents
<1> QED BY <1>3, <1>4, <1>5, <1>6 DEF shown_output

LEMMA OwnAnswersStep ==
  ASSUME TypeOK, LoopInv, QueryInv, MemoryInv, OwnAnswers, Client, UNCHANGED warm_up
  PROVE  OwnAnswers'
<1>1. CASE ShowToClient
  <2>1. answers' = Append(answers, <<asked[zenek], shown_output(zenek)>>)
    BY <1>1 DEF ShowToClient
  <2>2. answers \in Seq(Int \X (Bytes \cup {None}))
    BY DEF TypeOK
  <2>3. \A n \in 1 .. Len(answers') :
          answers'[n] = IF n \in 1 .. Len(answers) THEN answers[n]
                        ELSE <<asked[zenek], shown_output(zenek)>>
    BY <2>1, <2>2
  <2>4. ~DisableBlitter /\ ~RunOnLeftovers(asked[zenek]) =>
          shown_output(zenek) = Byte(asked[zenek])
    BY <1>1, ShownAnswer DEF ShowToClient, At
  <2> QED BY <2>3, <2>4 DEF OwnAnswers, RunOnLeftovers
<1>2. CASE ~ShowToClient
  <2>1. answers' = answers
    BY <1>2 DEF Client, QuerySample, RunAll, GetResult, Pop, Fill, InputCopy,
       InputSync, ComputeWarmUp, ComputeInit, ComputeNext, InitLoop, PollFinished,
       PollPending, SetTimestamps, Requery, NextSlot, ResultSync, OutputCopy,
       OutputSync, ShowToPrinter, PrintResults
  <2> QED BY <2>1 DEF OwnAnswers, RunOnLeftovers
<1> QED BY <1>1, <1>2

\* The device's steps.
LEMMA MemoryGpu ==
  ASSUME TypeOK, LoopInv, QueryInv, MemoryInv, OwnAnswers,
         NEW z \in Zenons, Gpu(z), UNCHANGED warm_up
  PROVE  MemoryInv' /\ OwnAnswers'
<1>1. UNCHANGED <<main, zenek, caller, asked, answers>>
  BY DEF Gpu, clientVars
<1>2. OwnAnswers'
  BY <1>1 DEF OwnAnswers, RunOnLeftovers
<1>3. Device(z)
  BY DEF Gpu
<1>0. /\ copying \in [Zenons -> SUBSET {"input", "output"}]
      /\ pending \in [Zenons -> Nat]
      /\ input \in [Zenons -> Bytes]
      /\ dev_input \in [Zenons -> Bytes \cup {None}]
      /\ dev_result \in [Zenons -> Bytes \cup {None}]
      /\ output \in [Zenons -> Bytes \cup {None}]
      /\ ran \in [Zenons -> SUBSET Kernels]
  BY DEF TypeOK, ServerTypeOK, ZenonTypeOK
<1>8. /\ \A y \in Zenons : Spoilt(y)' = Spoilt(y) /\ Unstarted(y)' = Unstarted(y)
      /\ events \in [Zenons -> SUBSET Kernels]
  BY <1>1 DEF Spoilt, JustWarmed, RunOnLeftovers, Unstarted, InSlot, clientVars, loopVars, Gpu, TypeOK,
     ServerTypeOK, ZenonTypeOK
<1> USE <1>8 DEF MemoryInv, Copies, Fresh, Contents, Settled, Refilling, hostVars
<1>4. CASE DeviceInputCopy(z)
  BY <1>0, <1>1, <1>2, <1>4 DEF DeviceInputCopy
<1>5. CASE \E k \in Kernels : DeviceKernel(z, k)
  <2> PICK k \in Kernels : DeviceKernel(z, k)
    BY <1>5
  <2>1. /\ ran' = [ran EXCEPT ![z] = @ \cup {k}] /\ pending[z] > 0
        /\ events' = [events EXCEPT ![z] = @ \cup {k}]
        /\ UNCHANGED <<input, output, dev_input, copying, pending>>
    BY DEF DeviceKernel
  <2>2. \A y \in Zenons : y # z => /\ ran'[y] = ran[y] /\ dev_result'[y] = dev_result[y]
                                   /\ events'[y] = events[y]
                                   /\ y \in mixed' <=> y \in mixed
    BY <1>0 DEF DeviceKernel
  <2>3. k # Writer => (Writer \in ran'[z] <=> Writer \in ran[z])
    BY <1>0, <2>1
  <2>4. Copies'
    BY <1>0, <1>1, <2>1, <2>2
  <2>5. ~Spoilt(z) => mixed' = mixed
    BY <2>1 DEF DeviceKernel
  <2>6. ~Spoilt(z) => dev_result'[z] = IF k = Writer THEN dev_input[z] ELSE dev_result[z]
    BY <1>0, <2>5 DEF DeviceKernel
  <2>7. Fresh'
    BY <1>0, <2>1, <2>2, <2>5
  <2>8. Contents'
    BY <1>0, <1>1, <2>1, <2>2, <2>3, <2>6
  <2> QED BY <1>2, <2>4, <2>7, <2>8
<1>6. CASE DeviceRetire(z)
  <2>1. /\ ran' = [ran EXCEPT ![z] = {}] /\ pending' = [pending EXCEPT ![z] = @ - 1]
        /\ pending[z] > 0 /\ Writer \in ran[z]
        /\ UNCHANGED <<input, output, dev_input, dev_result, copying>>
    BY <1>6, ZenonAssumption DEF DeviceRetire
  <2>2. Copies' /\ Contents'
    BY <1>0, <1>1, <2>1
  <2>3. mixed' = mixed \ {z} /\ events' = events
    BY <1>6 DEF DeviceRetire
  <2>4. Fresh'
    BY <1>0, <2>1, <2>3
  <2> QED BY <1>2, <2>2, <2>4
<1>7. CASE DeviceOutputCopy(z)
  BY <1>0, <1>1, <1>2, <1>7 DEF DeviceOutputCopy
<1> QED BY <1>2, <1>3, <1>4, <1>5, <1>6, <1>7 DEF Device

-----------------------------------------------------------------------------
(* The invariant is inductive.                                             *)

LEMMA Inductive == Spec => []IInv
<1>1. Init => IInv
  BY TypeInit, LoopInit, QueryInit, MemoryInit DEF IInv
<1>2. IInv /\ [Next]_vars => IInv'
  <2> SUFFICES ASSUME IInv, [Next]_vars PROVE IInv'
    OBVIOUS
  <2> USE DEF IInv
  <2>1. CASE Client /\ UNCHANGED warm_up
    BY <2>1, ClientType, ControlStep, PoolStep, AskedStep, CountedStep, QuietStep,
       CopiesStep, FreshStep, ContentsStep, OwnAnswersStep
    DEF LoopInv, QueryInv, MemoryInv
  <2>2. ASSUME NEW z \in Zenons, Gpu(z), UNCHANGED warm_up PROVE IInv'
    <3>1. UNCHANGED <<clientVars, zenek_pool_boost, warm_up>>
      BY <2>2 DEF Gpu
    <3>2. ZenonTypeOK'
      BY <2>2, DeviceType DEF Gpu, TypeOK, ServerTypeOK
    <3>3. TypeOK'
      BY <3>1, <3>2 DEF TypeOK, ServerTypeOK, clientVars, loopVars
    <3>4. LoopInv'
      BY <3>1 DEF LoopInv, Control, Counters, SlotsFilled, Zenek, Pool, InSlot,
                  clientVars, loopVars
    <3> QED BY <2>2, <3>3, <3>4, QueryGpu, MemoryGpu
  <2>3. CASE UNCHANGED vars
    <3>1. UNCHANGED <<clientVars, serverVars, warm_up>>
      BY <2>3 DEF vars
    <3>2. TypeOK'
      BY <3>1, ZenonStutterType
      DEF TypeOK, ServerTypeOK, clientVars, loopVars, serverVars
    <3>3. LoopInv'
      BY <3>1 DEF LoopInv, Control, Counters, SlotsFilled, Zenek, Pool, InSlot,
                  clientVars, loopVars, serverVars
    <3>4. QueryInv'
      <4>1. Answered' = Answered
        BY <3>1, AnsweredSame DEF clientVars
      <4> QED BY <3>1, <4>1
          DEF QueryInv, Asked, AnswersCounted, AnsweredQuiet, InSlot, clientVars, loopVars,
              serverVars, zenonVars
    <3>5. MemoryInv' /\ OwnAnswers'
      BY <3>1 DEF MemoryInv, Copies, Fresh, Unstarted, Spoilt, JustWarmed,
                  RunOnLeftovers, InSlot, Contents, Settled, OwnAnswers, clientVars, loopVars,
                  serverVars, zenonVars
    <3> QED BY <3>2, <3>3, <3>4, <3>5
  <2> QED BY <2>1, <2>2, <2>3 DEF Next, Stopped, vars
<1> QED BY <1>1, <1>2, PTL DEF Spec

-----------------------------------------------------------------------------
(* The theorems.                                                           *)

\* Every variable keeps its type: no counter leaves its range and no pool, slot or
\* answer holds anything but what belongs there.
THEOREM TypeCorrect == Spec => []TypeOK
<1>1. IInv => TypeOK
  BY DEF IInv
<1> QED BY <1>1, Inductive, PTL

\* Without the warm-up the event polled for a slot is its own zenon's, however many
\* rounds the pool has made.
THEOREM SlotOwnsEventHolds == Spec => []SlotOwnsEvent
<1>1. IInv => SlotOwnsEvent
  BY DEF IInv, LoopInv, SlotsFilled, InSlot, SlotOwnsEvent
<1> QED BY <1>1, Inductive, PTL

\* Every answer is the output computed from the query's own id, with and without
\* the warm-up.
THEOREM OwnAnswersHolds == Spec => []OwnAnswers
<1>1. IInv => OwnAnswers
  BY DEF IInv
<1> QED BY <1>1, Inductive, PTL

\* No query is answered twice and the loop ends only with all of them answered.
THEOREM AnsweredOnceHolds == Spec => []AnsweredOnce
<1>1. ASSUME IInv PROVE AnsweredOnce
  <2> USE DEF IInv, LoopInv, QueryInv, AnswersCounted
  <2>1. IsFiniteSet(Queries) /\ Cardinality(Queries) = NumQueries
    BY FS_Interval, ConstantFacts DEF Queries
  <2>2. CASE main = "print"
    <3>1. caller = "print"
      BY <1>1, <2>2 DEF Control, TypeOK, Callers, SampleSteps, ResultSteps
    <3>2. Cardinality(Answered) = NumQueries
      BY <1>1, <2>2, <3>1 DEF Counters
    <3>3. Answered = Queries
      BY <1>1, <2>1, <3>2, FS_Subset
    <3> QED BY <1>1, <3>3 DEF AnsweredOnce
  <2> QED BY <1>1, <2>2 DEF AnsweredOnce
<1> QED BY <1>1, Inductive, PTL

\* A zenon that is being refilled is idle, unless the warm-up has left it running.
LEMMA RefilledIdle ==
  ASSUME IInv, main \in Refilling, ~JustWarmed(zenek)
  PROVE  zenek \in Zenons /\ pending[zenek] = 0
<1>1. zenek \in Zenons /\ caller \in {"warmup", "init", "poll"}
  BY DEF IInv, LoopInv, Control, TypeOK, Callers, Refilling, SampleSteps, ResultSteps
<1>2. CASE caller = "poll"
  <2>1. asked[zenek] = q /\ q \in PoolSize .. NumQueries
    BY <1>2 DEF IInv, QueryInv, Asked, LoopInv, Counters
  <2>2. ~Spoilt(zenek) /\ Unstarted(zenek)
    BY <1>2, <2>1, ConstantFacts DEF Spoilt, RunOnLeftovers, Unstarted
  <2> QED BY <1>1, <2>2 DEF IInv, MemoryInv, Fresh
<1>3. CASE caller = "warmup"
  BY <1>3 DEF IInv, LoopInv, Control, Zenek, JustWarmed, Refilling
<1>4. CASE caller = "init"
  <2>1. q \in 0 .. PoolSize - 1 /\ zenek = InSlot(q)
    BY <1>4, ConstantFacts DEF IInv, LoopInv, Counters, Zenek, Refilling, SampleSteps
  <2>2. Unstarted(zenek)
    BY <1>4, <2>1 DEF Unstarted
  <2>3. ~Spoilt(zenek)
    BY <1>4 DEF Spoilt, JustWarmed, RunOnLeftovers
  <2> QED BY <1>1, <2>2, <2>3 DEF IInv, MemoryInv, Fresh
<1> QED BY <1>1, <1>2, <1>3, <1>4

\* No list is executed while its last execution is in flight, but for the one the
\* warm-up left running.
THEOREM ListsNotInFlightHolds == Spec => []ListsNotInFlight
<1>1. ASSUME IInv, ~JustWarmed(zenek) PROVE ExecutesIdleLists
  <2>1. main \in ResultSteps => zenek \in Zenons
    BY <1>1, InSlotFacts
    DEF IInv, LoopInv, Control, Counters, Zenek, TypeOK, Callers, SampleSteps, ResultSteps
  <2>2. main \in Refilling => zenek \in Zenons /\ pending[zenek] = 0
    BY <1>1, RefilledIdle
  <2> QED BY <1>1, <2>1, <2>2
      DEF IInv, MemoryInv, Copies, Refilling, ExecutesIdleLists, ResultSteps
<1>2. IInv => ListsNotInFlight
  BY <1>1 DEF ListsNotInFlight
<1> QED BY <1>2, Inductive, PTL

\* The thread never spins on an empty pool.
THEOREM PopFindsZenonHolds == Spec => []PopFindsZenon
<1>1. ASSUME IInv, main = "pop" PROVE zenek_pool_boost # <<>>
  <2> USE ConstantFacts DEF IInv, LoopInv, Pool, Counters, SampleSteps
  <2>1. caller \in {"warmup", "init", "poll"}
    BY <1>1 DEF Control, TypeOK, Callers, ResultSteps
  <2>2. CASE caller = "warmup"
    BY <1>1, <2>2
  <2>3. CASE caller = "init"
    <3>1. Len(zenek_pool_boost) = PoolSize - q /\ PoolSize - q > 0
      BY <1>1, <2>3
    <3> QED BY <3>1
  <2>4. CASE caller = "poll"
    <3>1. zenek_pool_boost = <<zenek>>
      BY <1>1, <2>4
    <3> QED BY <3>1
  <2> QED BY <2>1, <2>2, <2>3, <2>4
<1>2. IInv => PopFindsZenon
  BY <1>1 DEF PopFindsZenon
<1> QED BY <1>2, Inductive, PTL

\* The first loop leaves its vector only with fewer queries than zenons; with more,
\* print_profiling meets a null pointer and never prints to its end.
THEOREM SlotsFitQueriesHolds == Spec => []SlotsFitQueries
<1>1. IInv => SlotsFitQueries
  <2> SUFFICES ASSUME IInv PROVE SlotsFitQueries
    OBVIOUS
  <2>1. caller \in Callers /\ Control /\ Counters
    BY DEF IInv, TypeOK, LoopInv
  <2>2. main = "undefined" => \/ caller = "init" /\ NumQueries < PoolSize
                              \/ caller = "print" /\ NumQueries > PoolSize
    <3>1. main = "undefined" => caller \in {"init", "print"}
      BY <2>1 DEF Control, Callers, SampleSteps, ResultSteps
    <3> QED BY <2>1, <3>1, ConstantFacts DEF Counters
  <2>3. main = "done" /\ Profiling => NumQueries = PoolSize
    <3>1. main = "done" => caller = "print"
      BY <2>1 DEF Control, Callers, SampleSteps, ResultSteps
    <3> QED BY <2>1, <3>1, ConstantFacts DEF Counters
  <2> QED BY <2>2, <2>3 DEF SlotsFitQueries
<1> QED BY <1>1, Inductive, PTL

\* Nobody changes what running kernels or a copy in flight read, but for the zenon
\* the warm-up left running.
THEOREM SourcesStableHolds == Spec => SourcesStable
<1>1. ASSUME IInv, Next, NEW z \in Zenons, ~JustWarmed(z)
      PROVE  /\ "input" \in copying[z] => input'[z] = input[z]
             /\ pending[z] > 0 => dev_input'[z] = dev_input[z]
             /\ "output" \in copying[z] => dev_result'[z] = dev_result[z]
  <2>0. /\ input \in [Zenons -> Bytes]
        /\ dev_input \in [Zenons -> Bytes \cup {None}]
        /\ dev_result \in [Zenons -> Bytes \cup {None}]
    BY <1>1 DEF IInv, TypeOK, ServerTypeOK, ZenonTypeOK
  <2>1. CASE Client
    <3>1. dev_input' = dev_input /\ dev_result' = dev_result
      BY <2>1 DEF Client, QuerySample, RunAll, GetResult, Pop, Fill, InputCopy, InputSync,
       ComputeWarmUp, ComputeInit, ComputeNext, InitLoop, PollFinished, PollPending,
       SetTimestamps, Requery, NextSlot, ResultSync, OutputCopy, OutputSync,
       ShowToClient, ShowToPrinter, PrintResults, get_zenon_atomic, fill_inputs,
       execute_copy, execute_compute, read_timestamps, reset_events, serverVars,
       zenonVars, hostVars, deviceVars
    <3>2. main # "fill" => input' = input
      BY <2>1 DEF Client, QuerySample, RunAll, GetResult, Pop, Fill, InputCopy, InputSync,
       ComputeWarmUp, ComputeInit, ComputeNext, InitLoop, PollFinished, PollPending,
       SetTimestamps, Requery, NextSlot, ResultSync, OutputCopy, OutputSync,
       ShowToClient, ShowToPrinter, PrintResults, get_zenon_atomic, fill_inputs,
       execute_copy, execute_compute, read_timestamps, reset_events, serverVars,
       zenonVars, hostVars, deviceVars, At
    <3>3. "input" \in copying[z] => main # "fill"
      BY <1>1 DEF IInv, MemoryInv, Copies
    <3> QED BY <3>1, <3>2, <3>3
  <2>2. ASSUME NEW y \in Zenons, Device(y) PROVE
               /\ input' = input
               /\ dev_input'[z] # dev_input[z] => "input" \in copying[z]
               /\ dev_result'[z] # dev_result[z] => pending[z] > 0
    BY <2>0, <2>2 DEF Device, DeviceInputCopy, DeviceKernel, DeviceRetire,
                      DeviceOutputCopy, hostVars
  <2>3. /\ "input" \in copying[z] => ~(pending[z] > 0)
        /\ "output" \in copying[z] => ~(pending[z] > 0)
    BY <1>1, RefilledIdle DEF IInv, MemoryInv, Copies, Refilling
  <2>4. CASE \E y \in Zenons : Gpu(y)
    BY <2>2, <2>3, <2>4 DEF Gpu
  <2>5. CASE Stopped
    BY <2>5 DEF Stopped, serverVars, zenonVars
  <2> QED BY <1>1, <2>1, <2>4, <2>5 DEF Next
<1>2. IInv /\ [Next]_vars =>
        [\A z \in Zenons : ~JustWarmed(z) =>
           /\ "input" \in copying[z] => input'[z] = input[z]
           /\ pending[z] > 0 => dev_input'[z] = dev_input[z]
           /\ "output" \in copying[z] => dev_result'[z] = dev_result[z]]_vars
  BY <1>1
<1> QED BY <1>2, Inductive, PTL DEF Spec, SourcesStable

-----------------------------------------------------------------------------
(* The loop implements the query service.                                  *)

\* What the two CHOOSEs of the mapping choose.
LEMMA TheZenon ==
  ASSUME NEW f, NEW z \in Zenons, \A y \in Zenons : f[y] = f[z] => y = z
  PROVE  (CHOOSE y \in Zenons : f[y] = f[z]) = z
  OBVIOUS

LEMMA TheAnswer ==
  ASSUME NEW f, NEW S, NEW n \in S, \A m \in S : f[m][1] = f[n][1] => m = n
  PROVE  (CHOOSE m \in S : f[m][1] = f[n][1]) = n
  OBVIOUS

ServiceInv == IInv /\ ~warm_up /\ ~DisableBlitter

\* Zenons without a question have None, the others different ones.
LEMMA AskedOnce ==
  ASSUME ServiceInv
  PROVE  \A y, z \in Zenons : asked[y] # None /\ asked[y] = asked[z] => y = z
<1> USE DEF ServiceInv, IInv, LoopInv, Control, QueryInv, Asked, AnsweredQuiet
<1>1. CASE caller = "init"
  <2>1. \A z \in Zenons : asked[z] = z \/ asked[z] = None
    BY <1>1 DEF InSlot, Zenons, TypeOK
  <2> QED BY <2>1
<1>2. CASE caller # "init"
  BY <1>2 DEF TypeOK, Callers
<1> QED BY <1>1, <1>2

\* Who has a zenon and an answer, without the CHOOSEs.
LEMMA LentIs ==
  ASSUME ServiceInv, NEW z \in Zenons, asked[z] # None,
         asked[z] \notin Answered, ~(At("fill") /\ q = asked[z])
  PROVE  Lent(asked[z]) = z
  BY AskedOnce, TheZenon DEF Lent

LEMMA GotIs ==
  ASSUME ServiceInv, NEW n \in 1 .. Len(answers)
  PROVE  /\ Got(answers[n][1]) = answers[n][2]
         /\ answers[n][1] \in Queries /\ answers[n][2] = Byte(answers[n][1])
         /\ answers[n][2] # None
<1>1. (CHOOSE m \in 1 .. Len(answers) : answers[m][1] = answers[n][1]) = n
  BY TheAnswer DEF ServiceInv, IInv, QueryInv, AnswersCounted
<1>2. answers[n][1] \in Answered /\ answers[n][1] \in Queries
  BY DEF Answered, ServiceInv, IInv, QueryInv, AnswersCounted
<1>3. answers[n][2] = Byte(answers[n][1])
  BY DEF ServiceInv, IInv, OwnAnswers, RunOnLeftovers
<1>4. answers[n][2] # None
  BY <1>2, <1>3, ByteType, ConstantFacts DEF Queries
<1> QED BY <1>1, <1>2, <1>3, <1>4 DEF Got

\* A step the service does not see.
LEMMA ServiceSame ==
  ASSUME ~warm_up, UNCHANGED warm_up,
         \A a \in Queries : /\ Lent(a)' = Lent(a) /\ Got(a)' = Got(a)
                            /\ Counted(a)' <=> Counted(a)
  PROVE  UNCHANGED Service!qsVars
  BY DEF Service!qsVars

LEMMA ServicePop ==
  ASSUME ServiceInv, Pop, UNCHANGED warm_up
  PROVE  [Service!Next]_(Service!qsVars)
<1>1. PICK z \in Zenons : zenek' = z /\ get_zenon_atomic(z)
  BY DEF Pop
<1>2. /\ main = "pop" /\ main' = "fill" /\ caller \in {"init", "poll"} /\ caller' = caller
      /\ q' = q /\ q \in Int /\ asked' = asked /\ answers' = answers /\ Answered' = Answered
  <2>1. UNCHANGED <<caller, q, asked, answers>> /\ main = "pop" /\ main' = "fill"
    BY DEF Pop, At, GoTo, loopVars
  <2>2. caller \in {"init", "poll"}
    BY <2>1 DEF ServiceInv, IInv, LoopInv, Control, TypeOK, Callers, ResultSteps
  <2> QED BY <2>1, <2>2, AnsweredSame DEF ServiceInv, IInv, TypeOK
<1>3. q \notin Answered
  <2>1. CASE caller = "init"
    BY <2>1 DEF ServiceInv, IInv, QueryInv, AnswersCounted, Answered
  <2>2. CASE caller = "poll"
    BY <1>2, <2>2 DEF ServiceInv, IInv, QueryInv, AnswersCounted
  <2> QED BY <1>2, <2>1, <2>2
<1>4. \A y \in Zenons : asked[y] # q
  <2>1. CASE caller = "init"
    BY <1>2, <2>1, ConstantFacts
    DEF ServiceInv, IInv, QueryInv, Asked, InSlot, Zenons, Refilling
  <2>2. CASE caller = "poll"
    BY <1>2, <2>2 DEF ServiceInv, IInv, QueryInv, Asked, Refilling
  <2> QED BY <1>2, <2>1, <2>2
<1>5. asked[z] = None \/ asked[z] \in Answered
  <2>0. Zenek'
    BY ControlStep DEF ServiceInv, IInv, Client, QuerySample
  <2>1. CASE caller = "init"
    <3>1. z = q /\ q \in 0 .. PoolSize - 1
      BY <1>1, <1>2, <2>0, <2>1, ConstantFacts
      DEF Zenek, Pop, ServiceInv, IInv, LoopInv, Counters, SampleSteps, InSlot
    <3> QED BY <1>2, <2>1, <3>1
        DEF ServiceInv, IInv, QueryInv, Asked, InSlot, Refilling
  <2>2. CASE caller = "poll"
    <3>1. z = zenek
      BY <1>1, <1>2, <2>2
      DEF get_zenon_atomic, ServiceInv, IInv, LoopInv, Pool, Counters, SampleSteps
    <3> QED BY <1>2, <2>2, <3>1 DEF ServiceInv, IInv, QueryInv, AnsweredQuiet
  <2> QED BY <1>2, <2>1, <2>2
<1>6. \A a \in Queries : /\ Lent(a) # z
                         /\ Lent(a)' = IF a = q THEN z ELSE Lent(a)
                         /\ Got(a)' = Got(a)
                         /\ Counted(a)' <=> Counted(a)
  <2> TAKE a \in Queries
  <2>1. Lent(a) # z
    <3>1. CASE a \notin Answered /\ \E y \in Zenons : asked[y] = a
      <4>1. PICK y \in Zenons : asked[y] = a
        BY <3>1
      <4>2. a # None
        BY ConstantFacts DEF Queries
      <4>3. Lent(a) = y
        BY <1>2, <3>1, <4>1, <4>2, LentIs DEF At
      <4> QED BY <1>5, <3>1, <4>1, <4>2, <4>3
    <3>2. CASE ~(a \notin Answered /\ \E y \in Zenons : asked[y] = a)
      BY <1>2, <3>2, ConstantFacts DEF Lent, At
    <3> QED BY <3>1, <3>2
  <2>2. Lent(a)' = IF a = q THEN z ELSE Lent(a)
    BY <1>1, <1>2 DEF Lent, At
  <2>3. Got(a)' = Got(a) /\ (Counted(a)' <=> Counted(a))
    BY <1>2 DEF Got, Counted, Showing, At
  <2> QED BY <2>1, <2>2, <2>3
<1>7. CASE q \in Queries
  <2>1. Lent(q) = None /\ Got(q) = None
    BY <1>2, <1>3, <1>4 DEF Lent, Got, Showing, At
  <2>2. Service!Borrow(q, z)
    BY <1>6, <1>7, <2>1 DEF Service!Borrow, Service!Idle, ServiceInv
  <2> QED BY <1>7, <2>2 DEF Service!Next
<1>8. CASE q \notin Queries
  BY <1>6, <1>8, ServiceSame DEF ServiceInv
<1> QED BY <1>7, <1>8

LEMMA ServiceFill ==
  ASSUME ServiceInv, Fill, UNCHANGED warm_up
  PROVE  UNCHANGED Service!qsVars
<1>1. /\ main = "fill" /\ main' \in Refilling /\ zenek' = zenek /\ zenek \in Zenons
      /\ caller \in {"init", "poll"} /\ q' = q /\ q \in Int
      /\ asked' = [asked EXCEPT ![zenek] = q] /\ asked \in [Zenons -> Int \cup {None}]
      /\ answers' = answers /\ Answered' = Answered
  <2>1. /\ UNCHANGED <<zenek, q, answers>> /\ main = "fill" /\ main' \in Refilling
        /\ asked' = [asked EXCEPT ![zenek] = SampleId]
    BY DEF Fill, At, GoTo, loopVars, Refilling
  <2>2. caller \in {"init", "poll"} /\ zenek \in Zenons
    BY <2>1 DEF ServiceInv, IInv, LoopInv, Control, TypeOK, Callers, ResultSteps,
                SampleSteps
  <2>3. SampleId = q /\ q \in Int /\ asked \in [Zenons -> Int \cup {None}]
    BY <2>2 DEF ServiceInv, IInv, TypeOK, SampleId
  <2> QED BY <2>1, <2>2, <2>3, AnsweredSame
<1>2. q \notin Answered
  <2>1. CASE caller = "init"
    BY <2>1 DEF ServiceInv, IInv, QueryInv, AnswersCounted, Answered
  <2>2. CASE caller = "poll"
    BY <1>1, <2>2 DEF ServiceInv, IInv, QueryInv, AnswersCounted
  <2> QED BY <1>1, <2>1, <2>2
<1>3. \A y \in Zenons : asked[y] # q
  <2>1. CASE caller = "init"
    BY <1>1, <2>1, ConstantFacts
    DEF ServiceInv, IInv, QueryInv, Asked, InSlot, Zenons, Refilling
  <2>2. CASE caller = "poll"
    BY <1>1, <2>2 DEF ServiceInv, IInv, QueryInv, Asked, Refilling
  <2> QED BY <1>1, <2>1, <2>2
<1>4. asked[zenek] = None \/ asked[zenek] \in Answered
  <2>1. CASE caller = "init"
    <3>1. zenek = q /\ q \in 0 .. PoolSize - 1
      BY <1>1, <2>1, ConstantFacts
      DEF ServiceInv, IInv, LoopInv, Zenek, Counters, SampleSteps, InSlot
    <3> QED BY <1>1, <2>1, <3>1
        DEF ServiceInv, IInv, QueryInv, Asked, InSlot, Refilling
  <2>2. CASE caller = "poll"
    BY <1>1, <2>2 DEF ServiceInv, IInv, QueryInv, AnsweredQuiet
  <2> QED BY <1>1, <2>1, <2>2
<1>5. ASSUME NEW a \in Queries PROVE Lent(a)' = Lent(a)
  <2>0. a # None /\ a \in Int
    BY ConstantFacts DEF Queries
  <2>1. CASE a = q
    <3>1. asked'[zenek] = q /\ \A y \in Zenons : asked'[y] = asked'[zenek] => y = zenek
      BY <1>1, <1>3
    <3>2. (CHOOSE y \in Zenons : asked'[y] = q) = zenek
      BY <1>1, <3>1, TheZenon
    <3>3. Lent(a)' = zenek
      BY <1>1, <1>2, <2>1, <3>1, <3>2 DEF Lent, At, Refilling
    <3> QED BY <1>1, <2>1, <3>3 DEF Lent, At
  <2>2. CASE a # q /\ a \notin Answered /\ \E y \in Zenons : asked[y] = a
    <3>1. PICK y \in Zenons : asked[y] = a
      BY <2>2
    <3>2. y # zenek /\ asked'[y] = a
      BY <1>1, <1>4, <2>0, <2>2, <3>1
    <3>3. \A x \in Zenons : asked'[x] = asked'[y] => x = y
      BY <1>1, <2>0, <2>2, <3>1, <3>2, AskedOnce
    <3>4. (CHOOSE x \in Zenons : asked'[x] = a) = y
      BY <3>2, <3>3, TheZenon
    <3>5. Lent(a)' = y
      BY <1>1, <2>2, <3>2, <3>4 DEF Lent, At, Refilling
    <3>6. Lent(a) = y
      BY <2>0, <2>2, <3>1, LentIs
    <3> QED BY <3>5, <3>6
  <2>3. CASE a # q /\ ~(a \notin Answered /\ \E y \in Zenons : asked[y] = a)
    <3>1. a \in Answered \/ ~ \E y \in Zenons : asked'[y] = a
      BY <1>1, <2>3
    <3> QED BY <1>1, <2>3, <3>1 DEF Lent, At, Refilling
  <2> QED BY <2>1, <2>2, <2>3
<1>6. \A a \in Queries : Got(a)' = Got(a) /\ (Counted(a)' <=> Counted(a))
  BY <1>1 DEF Got, Counted, Showing, At, Refilling
<1> QED BY <1>5, <1>6, ServiceSame DEF ServiceInv

\* The zenon being shown works for a query that has no answer yet.
LEMMA Working ==
  ASSUME ServiceInv, caller = "poll", main \in ResultSteps
  PROVE  /\ zenek \in Zenons /\ asked[zenek] \in Queries
         /\ asked[zenek] # None /\ asked[zenek] \notin Answered
         /\ Lent(asked[zenek]) = zenek
<1>1. zenek \in Zenons
  BY InSlotFacts
  DEF ServiceInv, IInv, LoopInv, Counters, Zenek, ResultSteps
<1>2. asked[zenek] \in Queries /\ asked[zenek] # None
  BY <1>1, ConstantFacts
  DEF ServiceInv, IInv, LoopInv, Counters, QueryInv, Asked, Refilling, ResultSteps, Queries
<1>3. asked[zenek] \notin Answered
  BY DEF ServiceInv, IInv, QueryInv, AnsweredQuiet
<1> QED BY <1>1, <1>2, <1>3, LentIs DEF At, ResultSteps

LEMMA ServiceOutputSync ==
  ASSUME ServiceInv, OutputSync, caller = "poll", UNCHANGED warm_up
  PROVE  Service!Next
<1>1. /\ main = "output_sync" /\ main' = "show" /\ "output" \notin copying[zenek]
      /\ UNCHANGED <<caller, zenek, q, asked, answers, output>> /\ Answered' = Answered
  BY AnsweredSame
  DEF OutputSync, At, GoTo, copy_idle, loopVars, serverVars, zenonVars
<1>2. PICK a \in Queries : a = asked[zenek]
  BY <1>1, Working DEF ResultSteps
<1>3. a # None /\ a \notin Answered /\ Lent(a) = zenek /\ zenek # None
  BY <1>1, <1>2, Working, ConstantFacts DEF ResultSteps
<1>4. output[zenek] = Byte(a)
  BY <1>1, <1>2, ShownAnswer DEF ServiceInv, IInv, RunOnLeftovers, shown_output
<1>5. Got(a) = None /\ Got(a)' = Byte(a)
  BY <1>1, <1>2, <1>3, <1>4 DEF Got, Showing, At, shown_output, ServiceInv
<1>6. \A b \in Queries : b # a => Got(b)' = Got(b)
  BY <1>1, <1>2 DEF Got, Showing, At
<1>7. \A b \in Queries : Lent(b)' = Lent(b) /\ (Counted(b)' <=> Counted(b))
  BY <1>1 DEF Lent, Counted, At
<1>8. Service!Answer(a)
  <2>1. Lent(a) # None /\ Got(a) = None
    BY <1>3, <1>5
  <2>2. \A b \in Queries : Got(b)' = IF b = a THEN Byte(a) ELSE Got(b)
    BY <1>5, <1>6
  <2> QED BY <1>7, <2>1, <2>2 DEF Service!Answer, ServiceInv
<1> QED BY <1>8 DEF Service!Next

LEMMA ServiceShow ==
  ASSUME ServiceInv, ShowToClient, UNCHANGED warm_up
  PROVE  Service!Next
<1>1. /\ main = "show" /\ main' = "requery" /\ caller = "poll" /\ caller' = "poll"
      /\ UNCHANGED <<zenek, q, asked, output>>
      /\ answers' = Append(answers, <<asked[zenek], shown_output(zenek)>>)
      /\ answers \in Seq(Int \X (Bytes \cup {None}))
  BY DEF ShowToClient, At, GoTo, loopVars, reset_events, hostVars, ServiceInv, IInv, TypeOK
<1>2. PICK a \in Queries : a = asked[zenek]
  BY <1>1, Working DEF ResultSteps
<1>3. a # None /\ a \notin Answered /\ Lent(a) = zenek /\ zenek # None
  BY <1>1, <1>2, Working, ConstantFacts DEF ResultSteps
<1>4. shown_output(zenek) = Byte(a) /\ Byte(a) # None
  BY <1>1, <1>2, ShownAnswer, ByteType, ConstantFacts
  DEF ServiceInv, IInv, RunOnLeftovers
<1>5. AnswersCounted' /\ Answered' = Answered \cup {a}
  BY <1>2, ShowCounted DEF ServiceInv, IInv
<1>6. /\ Len(answers') = Len(answers) + 1 /\ Len(answers) \in Nat
      /\ \A n \in 1 .. Len(answers) : answers'[n] = answers[n] /\ n \in 1 .. Len(answers')
      /\ answers'[Len(answers')] = <<a, Byte(a)>> /\ Len(answers') \in 1 .. Len(answers')
  BY <1>1, <1>2, <1>4
<1>7. ASSUME NEW b \in Queries, NEW n \in 1 .. Len(answers'), answers'[n][1] = b
      PROVE  Got(b)' = answers'[n][2]
  <2>1. (CHOOSE m \in 1 .. Len(answers') : answers'[m][1] = b) = n
    BY <1>5, <1>7, TheAnswer DEF AnswersCounted
  <2>2. b \in Answered'
    BY <1>7 DEF Answered
  <2> QED BY <2>1, <2>2 DEF Got
<1>8. Got(a) = Byte(a) /\ Got(a)' = Byte(a)
  BY <1>1, <1>2, <1>3, <1>4, <1>6, <1>7 DEF Got, Showing, At
<1>9. ASSUME NEW b \in Queries, b # a PROVE Got(b)' = Got(b)
  <2>1. CASE b \in Answered
    <3>1. PICK n \in 1 .. Len(answers) : b = answers[n][1]
      BY <2>1 DEF Answered
    <3>2. Got(b)' = answers[n][2]
      BY <1>6, <1>7, <3>1
    <3> QED BY <3>1, <3>2, GotIs
  <2>2. CASE b \notin Answered
    BY <1>1, <1>2, <1>5, <1>9, <2>2 DEF Got, Showing, At
  <2> QED BY <2>1, <2>2
<1>10. ASSUME NEW b \in Queries
       PROVE  /\ Lent(b)' = IF b = a THEN None ELSE Lent(b)
              /\ Counted(b)' <=> Counted(b)
  BY <1>1, <1>2, <1>3, <1>5 DEF Lent, Counted, At
<1>11. Service!GiveBack(a)
  <2>1. Lent(a) # None /\ Got(a) # None
    BY <1>3, <1>4, <1>8
  <2>2. \A b \in Queries : Got(b)' = Got(b)
    BY <1>8, <1>9
  <2> QED BY <1>10, <2>1, <2>2 DEF Service!GiveBack, ServiceInv
<1> QED BY <1>11 DEF Service!Next

LEMMA ServiceRequery ==
  ASSUME ServiceInv, Requery, UNCHANGED warm_up
  PROVE  Service!Next
<1>1. /\ main = "requery" /\ main' \in {"pop", "next"} /\ caller = "poll"
      /\ UNCHANGED <<caller, zenek, q, asked, answers>> /\ Answered' = Answered
  BY AnsweredSame
  DEF Requery, At, GoTo, ServiceInv, IInv, LoopInv, Control, TypeOK, Callers,
      SampleSteps, ResultSteps
<1>2. asked[zenek] \in Answered
  BY <1>1 DEF ServiceInv, IInv, QueryInv, AnsweredQuiet
<1>3. PICK n \in 1 .. Len(answers) : asked[zenek] = answers[n][1]
  BY <1>2 DEF Answered
<1>4. PICK a \in Queries : a = asked[zenek] /\ Got(a) # None
  BY <1>3, GotIs
<1>5. Lent(a) = None /\ ~Counted(a)
  BY <1>1, <1>2, <1>4 DEF Lent, Counted, At
<1>6. \A b \in Queries : Lent(b)' = Lent(b) /\ Got(b)' = Got(b)
  BY <1>1 DEF Lent, Got, Showing, At
<1>7. \A b \in Queries : Counted(b)' <=> Counted(b) \/ b = a
  BY <1>1, <1>2, <1>4 DEF Counted, At
<1>8. Service!Serve(a)
  BY <1>4, <1>5, <1>6, <1>7 DEF Service!Serve, ServiceInv
<1> QED BY <1>8 DEF Service!Next

\* The other steps of the thread.
LEMMA ServiceClient ==
  ASSUME ServiceInv, Client, UNCHANGED warm_up
  PROVE  [Service!Next]_(Service!qsVars)
<1>1. CASE Pop
  BY <1>1, ServicePop
<1>2. CASE Fill
  BY <1>2, ServiceFill
<1>3. CASE OutputSync /\ caller = "poll"
  BY <1>3, ServiceOutputSync
<1>4. CASE ShowToClient
  BY <1>4, ServiceShow
<1>5. CASE Requery
  BY <1>5, ServiceRequery
<1>6. CASE ~(Pop \/ Fill \/ (OutputSync /\ caller = "poll") \/ ShowToClient \/ Requery)
  <2>1. asked' = asked /\ answers' = answers /\ Answered' = Answered
    BY <1>6, AnsweredSame
    DEF Client, QuerySample, RunAll, GetResult, InputCopy, InputSync, ComputeWarmUp,
        ComputeInit, ComputeNext, InitLoop, PollFinished, PollPending, SetTimestamps,
        NextSlot, ResultSync, OutputCopy, OutputSync, ShowToPrinter, PrintResults
  <2>2. /\ main \notin {"fill", "requery"} /\ main' \notin {"fill", "requery"}
        /\ main = "show" => caller # "poll"
        /\ main' = "show" => caller' # "poll"
    BY <1>6
    DEF Client, QuerySample, RunAll, GetResult, InputCopy, InputSync, ComputeWarmUp,
        ComputeInit, ComputeNext, InitLoop, PollFinished, PollPending, SetTimestamps,
        NextSlot, ResultSync, OutputCopy, OutputSync, ShowToPrinter, PrintResults,
        At, GoTo, Calls, ServiceInv
  <2>3. \A a \in Queries : /\ Lent(a)' = Lent(a) /\ Got(a)' = Got(a)
                           /\ Counted(a)' <=> Counted(a)
    BY <2>1, <2>2 DEF Lent, Got, Showing, Counted, At
  <2> QED BY <2>3, ServiceSame DEF ServiceInv
<1> QED BY <1>1, <1>2, <1>3, <1>4, <1>5, <1>6

\* The devices' steps.
LEMMA ServiceGpu ==
  ASSUME ServiceInv, NEW z \in Zenons, Gpu(z), UNCHANGED warm_up
  PROVE  UNCHANGED Service!qsVars
<1>1. /\ UNCHANGED <<main, caller, zenek, q, asked, answers>> /\ Answered' = Answered
  BY AnsweredSame DEF Gpu, clientVars, loopVars
<1>2. main = "show" => output'[zenek] = output[zenek]
  BY DEF Gpu, Device, DeviceInputCopy, DeviceKernel, DeviceRetire, DeviceOutputCopy,
         hostVars, ServiceInv, IInv, MemoryInv, Copies, TypeOK, ServerTypeOK, ZenonTypeOK
<1>3. \A a \in Queries : /\ Lent(a)' = Lent(a) /\ Got(a)' = Got(a)
                         /\ Counted(a)' <=> Counted(a)
  BY <1>1, <1>2 DEF Lent, Got, Showing, Counted, At, shown_output, ServiceInv
<1> QED BY <1>3, ServiceSame DEF ServiceInv

\* With the blitter on, the polling loop is the plain query service: every query
\* borrows an idle zenon, gets its own answer while it has it, gives it back and is
\* counted once.  With the warm-up the mapping is constant and nothing is claimed.
THEOREM LoopImplementsService == ~DisableBlitter => (Spec => ImplementsService)
<1> SUFFICES ASSUME ~DisableBlitter PROVE Spec => Service!Spec
  BY DEF ImplementsService
<1>1. Init => Service!Init
  <2> SUFFICES ASSUME Init PROVE Service!Init
    OBVIOUS
  <2>1. Answered = {} /\ \A z \in Zenons : asked[z] = None
    BY DEF Init, Answered
  <2>2. \A a \in Queries :
          ~warm_up => Lent(a) = None /\ Got(a) = None /\ ~Counted(a)
    BY <2>1, ConstantFacts DEF Init, Lent, Got, Showing, Counted, At, Queries
  <2> QED BY <2>2 DEF Service!Init
<1>2. IInv /\ [Next]_vars => [Service!Next]_(Service!qsVars)
  <2> SUFFICES ASSUME IInv, [Next]_vars PROVE [Service!Next]_(Service!qsVars)
    OBVIOUS
  <2>1. CASE warm_up
    BY <2>1 DEF Next, vars, Service!qsVars
  <2>2. CASE ~warm_up
    <3>1. ServiceInv
      BY <2>2 DEF ServiceInv
    <3>2. CASE Client /\ UNCHANGED warm_up
      BY <3>1, <3>2, ServiceClient
    <3>3. CASE \E z \in Zenons : Gpu(z) /\ UNCHANGED warm_up
      BY <3>1, <3>3, ServiceGpu
    <3>4. CASE (Stopped /\ UNCHANGED warm_up) \/ UNCHANGED vars
      <4>1. UNCHANGED <<main, caller, zenek, q, asked, answers, warm_up, output, dev_result>>
            /\ Answered' = Answered
        BY <3>4, AnsweredSame
        DEF Stopped, vars, clientVars, loopVars, serverVars, zenonVars
      <4>2. \A a \in Queries : /\ Lent(a)' = Lent(a) /\ Got(a)' = Got(a)
                               /\ Counted(a)' <=> Counted(a)
        BY <4>1 DEF Lent, Got, Showing, Counted, At, shown_output
      <4> QED BY <2>2, <4>1, <4>2, ServiceSame
    <3> QED BY <3>2, <3>3, <3>4 DEF Next
  <2> QED BY <2>1, <2>2
<1> QED BY <1>1, <1>2, Inductive, PTL DEF Spec, Service!Spec
-----------------------------------------------------------------------------
(* What the thread waits for, and what it polls for.                       *)

\* Kernels of the execution in progress have their events set.
RanSignalled == \A z \in Zenons : ran[z] \subseteq events[z]

\* A zenon that works for a query with no answer has been given its kernels, and
\* once they have run its final event stays set until the answer is taken.
Submitted ==
  caller # "print" =>
    \A z \in Zenons :
      /\ asked[z] # None /\ asked[z] \notin Answered
      /\ ~(z = zenek /\ main \in Refilling)
      => pending[z] # 0 \/ Final \in events[z]

\* Every query the loop has taken is answered or some zenon works for it.
Covered ==
  caller = "poll" =>
    \A a \in 0 .. q - 1 : a \in Answered \/ \E z \in Zenons : asked[z] = a

\* One query is taken for each that is counted, until there are no more.
Refilled ==
  caller = "poll" =>
    IF main \in SampleSteps THEN q + 1 = PoolSize + finish_count
    ELSE q = PoolSize + finish_count \/ q = NumQueries

NotOver == main = "poll" => finish_count < NumQueries

WaitInv == RanSignalled /\ Submitted /\ Covered /\ Refilled /\ NotOver

\* What a step of the thread leaves alone.
LEMMA WaitFrame ==
  ASSUME Client
  PROVE  /\ ~ShowToClient /\ ~ShowToPrinter => events' = events
         /\ ~ShowToClient => answers' = answers
         /\ ~(ComputeWarmUp \/ ComputeInit \/ ComputeNext) => pending' = pending
         /\ ~Fill => asked' = asked
         /\ ran' = ran
  BY DEF Client, QuerySample, RunAll, GetResult, Pop, Fill, InputCopy, InputSync,
         ComputeWarmUp, ComputeInit, ComputeNext, InitLoop, PollFinished, PollPending,
         SetTimestamps, Requery, NextSlot, ResultSync, OutputCopy, OutputSync,
         ShowToClient, ShowToPrinter, PrintResults, get_zenon_atomic, fill_inputs,
         execute_copy, execute_compute, read_timestamps, reset_events, serverVars,
         zenonVars, hostVars, deviceVars, loopVars

LEMMA RanSignalledStep ==
  ASSUME IInv, RanSignalled, Client
  PROVE  RanSignalled'
<1>0. events \in [Zenons -> SUBSET Kernels] /\ ran' = ran
  BY WaitFrame DEF IInv, TypeOK, ServerTypeOK, ZenonTypeOK
<1>1. CASE ShowToClient \/ ShowToPrinter
  <2>1. main = "show" /\ events' = [events EXCEPT ![zenek] = {}]
    BY <1>1 DEF ShowToClient, ShowToPrinter, At, reset_events
  <2>2. zenek \in Zenons => ran[zenek] = {}
    BY <2>1 DEF IInv, MemoryInv, Copies
  <2> QED BY <1>0, <2>1, <2>2 DEF RanSignalled
<1>2. CASE ~ShowToClient /\ ~ShowToPrinter
  BY <1>0, <1>2, WaitFrame DEF RanSignalled
<1> QED BY <1>1, <1>2

LEMMA SubmittedStep ==
  ASSUME IInv, Submitted, Client, UNCHANGED warm_up
  PROVE  Submitted'
<1>0. /\ events \in [Zenons -> SUBSET Kernels] /\ pending \in [Zenons -> Nat]
      /\ asked \in [Zenons -> Int \cup {None}] /\ main \in Steps /\ caller \in Callers
  BY DEF IInv, TypeOK, ServerTypeOK, ZenonTypeOK
<1>c. caller' # "print" => caller # "print"
  BY <1>0
  DEF Client, QuerySample, RunAll, GetResult, Pop, Fill, InputCopy, InputSync,
      ComputeWarmUp, ComputeInit, ComputeNext, InitLoop, PollFinished, PollPending,
      SetTimestamps, Requery, NextSlot, ResultSync, OutputCopy, OutputSync, ShowToClient,
      ShowToPrinter, PrintResults, Calls, IInv, LoopInv, Control, At, SampleSteps,
      ResultSteps
<1> SUFFICES ASSUME caller' # "print", NEW z \in Zenons,
                    asked'[z] # None, asked'[z] \notin Answered',
                    ~(z = zenek' /\ main' \in Refilling)
             PROVE  pending'[z] # 0 \/ Final \in events'[z]
  BY DEF Submitted
<1>s. answers' = answers => Answered' = Answered
  BY AnsweredSame
<1>o. /\ asked[z] # None /\ asked[z] \notin Answered
      /\ ~(z = zenek /\ main \in Refilling)
      => pending[z] # 0 \/ Final \in events[z]
  BY <1>c DEF Submitted
<1>1. CASE Fill
  <2>1. /\ main = "fill" /\ main' \in Refilling /\ zenek' = zenek
        /\ asked' = [asked EXCEPT ![zenek] = SampleId]
    BY <1>1 DEF Fill, At, GoTo, Refilling
  <2>2. events' = events /\ pending' = pending /\ Answered' = Answered
    BY <1>s, <1>1, WaitFrame
    DEF Fill, ShowToClient, ShowToPrinter, ComputeWarmUp, ComputeInit, ComputeNext, At
  <2> QED BY <1>0, <1>o, <2>1, <2>2
<1>2. CASE ComputeWarmUp \/ ComputeInit \/ ComputeNext
  <2>1. /\ main = "compute" /\ zenek' = zenek
        /\ pending' = [pending EXCEPT ![zenek] = @ + 1]
    BY <1>2 DEF ComputeWarmUp, ComputeInit, ComputeNext, At, execute_compute
  <2>2. events' = events /\ asked' = asked /\ Answered' = Answered
    BY <1>s, <2>1, WaitFrame DEF Fill, ShowToClient, ShowToPrinter, At
  <2> QED BY <1>0, <1>o, <2>1, <2>2
<1>3. CASE ShowToClient
  <2>1. /\ main = "show" /\ zenek' = zenek /\ asked' = asked /\ pending' = pending
        /\ events' = [events EXCEPT ![zenek] = {}]
    BY <1>3, WaitFrame
    DEF ShowToClient, Fill, ComputeWarmUp, ComputeInit, ComputeNext, At, reset_events
  <2>2. Answered' = Answered \cup {asked[zenek]}
    BY <1>3, ShowCounted DEF IInv
  <2> QED BY <1>0, <1>o, <2>1, <2>2 DEF Refilling
<1>4. CASE ~(Fill \/ ComputeWarmUp \/ ComputeInit \/ ComputeNext \/ ShowToClient)
  <2>1. ~ShowToPrinter
    BY <1>c, <1>0 DEF ShowToPrinter
  <2>2. UNCHANGED <<asked, events, pending>> /\ Answered' = Answered
    BY <1>s, <1>4, <2>1, WaitFrame
  <2>3. z = zenek /\ main \in Refilling => z = zenek' /\ main' \in Refilling
    BY <1>4
    DEF Client, QuerySample, RunAll, GetResult, Pop, InputCopy, InputSync, InitLoop,
        PollFinished, PollPending, SetTimestamps, Requery, NextSlot, ResultSync,
        OutputCopy, OutputSync, ShowToPrinter, PrintResults, At, GoTo, Refilling
  <2> QED BY <1>o, <2>2, <2>3
<1> QED BY <1>1, <1>2, <1>3, <1>4

LEMMA CoveredStep ==
  ASSUME IInv, Covered, Client, UNCHANGED warm_up
  PROVE  Covered'
<1>0. /\ asked \in [Zenons -> Int \cup {None}] /\ main \in Steps /\ caller \in Callers
      /\ q \in Int
  BY DEF IInv, TypeOK
<1> SUFFICES ASSUME caller' = "poll", NEW a \in 0 .. q' - 1
             PROVE  a \in Answered' \/ \E z \in Zenons : asked'[z] = a
  BY DEF Covered
<1>s. answers' = answers => Answered' = Answered
  BY AnsweredSame
<1>1. CASE InitLoop
  <2>1. caller = "init" /\ q = PoolSize /\ q' = q /\ asked' = asked
    BY <1>0, <1>1, ConstantFacts
    DEF InitLoop, At, GoTo, Calls, IInv, LoopInv, Control, Counters, Callers,
        SampleSteps, ResultSteps, loopVars
  <2>2. InSlot(a) \in Zenons /\ asked[InSlot(a)] = a
    BY <2>1, InSlotFacts, ConstantFacts DEF IInv, QueryInv, Asked
  <2> QED BY <2>1, <2>2
<1>2. CASE ~InitLoop
  <2>1. caller = "poll"
    BY <1>0, <1>2
    DEF Client, QuerySample, RunAll, GetResult, Pop, Fill, InputCopy, InputSync,
        ComputeWarmUp, ComputeInit, ComputeNext, PollFinished, PollPending,
        SetTimestamps, Requery, NextSlot, ResultSync, OutputCopy, OutputSync,
        ShowToClient, ShowToPrinter, PrintResults, Calls, IInv, LoopInv, Control, At,
        SampleSteps, ResultSteps
  <2>2. CASE Fill
    <3>1. /\ main = "fill" /\ q' = q /\ answers' = answers
          /\ asked' = [asked EXCEPT ![zenek] = SampleId]
      BY <2>2 DEF Fill, At, loopVars
    <3>2. asked[zenek] \in Answered
      BY <2>1, <3>1 DEF IInv, QueryInv, AnsweredQuiet
    <3> QED BY <1>0, <1>s, <2>1, <3>1, <3>2 DEF Covered
  <2>3. CASE ComputeNext
    <3>1. main = "compute" /\ q' = q + 1 /\ answers' = answers /\ asked' = asked
      BY <2>3 DEF ComputeNext, At
    <3>2. zenek \in Zenons /\ asked[zenek] = q
      BY <2>1, <3>1 DEF IInv, LoopInv, Control, SampleSteps, QueryInv, Asked, Refilling
    <3> QED BY <1>0, <1>s, <2>1, <3>1, <3>2 DEF Covered
  <2>4. CASE ShowToClient
    <3>1. q' = q /\ asked' = asked /\ Answered \subseteq Answered'
      BY <2>4, ShowCounted DEF ShowToClient, loopVars, IInv
    <3> QED BY <2>1, <3>1 DEF Covered
  <2>5. CASE ~(Fill \/ ComputeNext \/ ShowToClient)
    <3>1. asked' = asked /\ answers' = answers
      BY <2>5, WaitFrame
    <3>2. q' = q
      BY <1>2, <2>1, <2>5
      DEF Client, QuerySample, RunAll, GetResult, Pop, InputCopy, InputSync,
          ComputeWarmUp, ComputeInit, PollFinished, PollPending, SetTimestamps, Requery,
          NextSlot, ResultSync, OutputCopy, OutputSync, ShowToPrinter, PrintResults,
          loopVars
    <3> QED BY <1>s, <2>1, <3>1, <3>2 DEF Covered
  <2> QED BY <2>2, <2>3, <2>4, <2>5
<1> QED BY <1>1, <1>2

LEMMA RefilledStep ==
  ASSUME IInv, Refilled, NotOver, Client, UNCHANGED warm_up
  PROVE  Refilled' /\ NotOver'
<1> USE ConstantFacts
    DEF IInv, LoopInv, Control, Counters, Refilled, NotOver, At, GoTo, Calls, Callers,
        SampleSteps, ResultSteps, loopVars
<1>0. /\ main \in Steps /\ caller \in Callers /\ q \in Int
      /\ finish_count \in 0 .. NumQueries
  BY DEF TypeOK
<1>1. CASE Pop \/ Fill \/ InputCopy \/ InputSync
  BY <1>0, <1>1 DEF Pop, Fill, InputCopy, InputSync
<1>2. CASE ComputeWarmUp \/ ComputeInit
  BY <1>0, <1>2 DEF ComputeWarmUp, ComputeInit
<1>3. CASE ComputeNext
  BY <1>0, <1>3 DEF ComputeNext
<1>4. CASE InitLoop
  BY <1>0, <1>4 DEF InitLoop
<1>5. CASE PollFinished \/ PollPending \/ SetTimestamps
  BY <1>0, <1>5 DEF PollFinished, PollPending, SetTimestamps
<1>6. CASE Requery
  <2>1. caller = "poll" /\ caller' = "poll" /\ finish_count' = finish_count + 1 /\ q' = q
    BY <1>0, <1>6 DEF Requery
  <2>2. q <= NumQueries
    BY <2>1
  <2> QED BY <1>0, <1>6, <2>1, <2>2 DEF Requery
<1>7. CASE NextSlot
  BY <1>0, <1>7 DEF NextSlot
<1>8. CASE GetResult \/ PrintResults
  BY <1>0, <1>8
  DEF GetResult, ResultSync, OutputCopy, OutputSync, ShowToClient, ShowToPrinter,
      PrintResults
<1> QED BY <1>1, <1>2, <1>3, <1>4, <1>5, <1>6, <1>7, <1>8 DEF Client, QuerySample, RunAll

\* The device sets the event of every kernel it runs, and retires an execution
\* when all have run.
LEMMA WaitGpu ==
  ASSUME IInv, WaitInv, NEW z \in Zenons, Gpu(z)
  PROVE  WaitInv'
<1>0. /\ events \in [Zenons -> SUBSET Kernels] /\ pending \in [Zenons -> Nat]
      /\ ran \in [Zenons -> SUBSET Kernels]
  BY DEF IInv, TypeOK, ServerTypeOK, ZenonTypeOK
<1>1. UNCHANGED <<main, caller, zenek, q, finish_count, asked, answers>>
      /\ Answered' = Answered /\ Device(z)
  BY AnsweredSame DEF Gpu, clientVars, loopVars
<1>2. \A y \in Zenons : /\ events[y] \subseteq events'[y]
                        /\ ran[y] \subseteq events[y] => ran'[y] \subseteq events'[y]
                        /\ pending[y] # 0 /\ ran[y] \subseteq events[y] =>
                             pending'[y] # 0 \/ Final \in events'[y]
  <2>1. CASE DeviceInputCopy(z) \/ DeviceOutputCopy(z)
    BY <1>0, <2>1 DEF DeviceInputCopy, DeviceOutputCopy
  <2>2. CASE \E k \in Kernels : DeviceKernel(z, k)
    BY <1>0, <2>2 DEF DeviceKernel
  <2>3. CASE DeviceRetire(z)
    <3>1. /\ ran' = [ran EXCEPT ![z] = {}] /\ events' = events /\ ran[z] = Kernels
          /\ pending' = [pending EXCEPT ![z] = @ - 1]
      BY <2>3 DEF DeviceRetire
    <3> QED BY <1>0, <3>1, ZenonAssumption
  <2> QED BY <1>1, <2>1, <2>2, <2>3 DEF Device
<1>3. RanSignalled'
  BY <1>2 DEF WaitInv, RanSignalled
<1>4. Submitted'
  BY <1>1, <1>2 DEF WaitInv, RanSignalled, Submitted
<1>5. Covered' /\ Refilled' /\ NotOver'
  BY <1>1 DEF WaitInv, Covered, Refilled, NotOver
<1> QED BY <1>3, <1>4, <1>5 DEF WaitInv

LEMMA WaitCorrect == Spec => [](IInv /\ WaitInv)
<1>1. Init => WaitInv
  <2> SUFFICES ASSUME Init PROVE WaitInv
    OBVIOUS
  <2>1. RanSignalled
    BY DEF Init, ServerInit, ZenonInit, RanSignalled
  <2>2. Submitted
    BY DEF Init, Submitted
  <2>3. Covered /\ Refilled /\ NotOver
    BY DEF Init, Covered, Refilled, NotOver
  <2> QED BY <2>1, <2>2, <2>3 DEF WaitInv
<1>2. IInv /\ WaitInv /\ [Next]_vars => WaitInv'
  <2> SUFFICES ASSUME IInv, WaitInv, [Next]_vars PROVE WaitInv'
    OBVIOUS
  <2>1. CASE Client /\ UNCHANGED warm_up
    BY <2>1, RanSignalledStep, SubmittedStep, CoveredStep, RefilledStep DEF WaitInv
  <2>2. CASE \E z \in Zenons : Gpu(z)
    BY <2>2, WaitGpu
  <2>3. CASE UNCHANGED vars
    <3>1. /\ UNCHANGED <<main, caller, zenek, q, finish_count, asked, answers, ran, events,
                         pending>>
          /\ Answered' = Answered
      BY <2>3, AnsweredSame DEF vars, clientVars, loopVars, serverVars, zenonVars
    <3> QED BY <3>1 DEF WaitInv, RanSignalled, Submitted, Covered, Refilled, NotOver
  <2> QED BY <2>1, <2>2, <2>3 DEF Next, Stopped, vars
<1> QED BY <1>1, <1>2, Inductive, PTL DEF Spec

\* While the loop polls, some query it has taken has no answer.
LEMMA Outstanding ==
  ASSUME IInv, WaitInv, main = "poll"
  PROVE  \E a \in 0 .. q - 1 : a \notin Answered
<1>1. caller = "poll" /\ q \in Nat /\ finish_count \in Nat /\ finish_count < q
  BY ConstantFacts
  DEF IInv, TypeOK, Callers, LoopInv, Control, Counters, WaitInv, Refilled, NotOver,
      SampleSteps, ResultSteps
<1>2. IsFiniteSet(Answered) /\ Cardinality(Answered) = finish_count
  BY DEF IInv, QueryInv, AnswersCounted
<1>3. Cardinality(0 .. q - 1) = q
  BY <1>1, FS_Interval
<1>4. ~(0 .. q - 1 \subseteq Answered)
  BY <1>1, <1>2, <1>3, FS_Subset
<1> QED BY <1>4

\* The host never waits for what cannot come: the loop polls while a zenon is
\* finished or its device can go on, also after a warm-up, and get_result waits
\* for kernels and copies that the device can carry out.
THEOREM NobodyWaitsInVainHolds == Spec => []NobodyWaitsInVain
<1>1. IInv /\ WaitInv /\ PopFindsZenon => NobodyWaitsInVain
  <2> SUFFICES ASSUME IInv, WaitInv, PopFindsZenon PROVE NobodyWaitsInVain
    OBVIOUS
  <2>0. ZenonTypeOK /\ pending \in [Zenons -> Nat]
    BY DEF IInv, TypeOK, ServerTypeOK, ZenonTypeOK
  <2>1. main = "input_sync" => copy_idle(zenek, "input") \/ DeviceReady(zenek)
    BY DEF copy_idle, DeviceReady
  <2>2. ASSUME main \in {"result_sync", "output_sync"} PROVE caller \in {"poll", "print"}
    BY <2>2 DEF IInv, TypeOK, Callers, LoopInv, Control, SampleSteps
  <2>3. ASSUME main \in {"result_sync", "output_sync"} PROVE zenek \in Zenons
    BY <2>2, <2>3, InSlotFacts DEF IInv, LoopInv, Counters, Zenek, ResultSteps
  <2>4. main = "result_sync" => compute_idle(zenek) \/ DeviceReady(zenek)
    BY <2>0, <2>3, ComputeReady DEF compute_idle, WaitInv, RanSignalled
  <2>5. main = "output_sync" /\ caller = "poll" =>
          copy_idle(zenek, "output") \/ DeviceReady(zenek)
    <3> SUFFICES ASSUME main = "output_sync", caller = "poll" PROVE Final \in events[zenek]
      BY DEF copy_idle, DeviceReady
    <3>1. zenek \in Zenons
      BY <2>3
    <3>2. asked[zenek] # None /\ asked[zenek] \notin Answered
      BY <3>1, ConstantFacts
      DEF IInv, QueryInv, Asked, AnsweredQuiet, Refilling, ResultSteps, TypeOK
    <3>3. pending[zenek] = 0
      BY <3>1 DEF IInv, MemoryInv, Copies
    <3> QED BY <3>1, <3>2, <3>3 DEF WaitInv, Submitted, Refilling
  <2>6. main = "poll" => \E s \in Zenons : is_finished(s) \/ DeviceReady(s)
    <3> SUFFICES ASSUME main = "poll"
                 PROVE  \E s \in Zenons : is_finished(s) \/ DeviceReady(s)
      OBVIOUS
    <3>1. PICK a \in 0 .. q - 1 : a \notin Answered
      BY Outstanding
    <3>2. caller = "poll"
      BY DEF IInv, TypeOK, Callers, LoopInv, Control, SampleSteps, ResultSteps
    <3>3. PICK s \in Zenons : asked[s] = a
      BY <3>1, <3>2 DEF WaitInv, Covered
    <3>4. pending[s] # 0 \/ Final \in events[s]
      BY <3>1, <3>2, <3>3, ConstantFacts DEF WaitInv, Submitted, Refilling
    <3> QED BY <2>0, <3>3, <3>4, ComputeReady DEF is_finished, WaitInv, RanSignalled
  <2> QED BY <2>1, <2>4, <2>5, <2>6 DEF NobodyWaitsInVain
<1> QED BY <1>1, WaitCorrect, PopFindsZenonHolds, PTL
-----------------------------------------------------------------------------
(* Every step but an empty poll leads forward.                             *)

\* The order of the client's steps.
LEMMA PositionFacts ==
  /\ Position["init"] = 0 /\ Position["print"] = 0
  /\ Position["poll"] = 1 /\ Position["next"] = 1
  /\ Position["pop"] = 2 /\ Position["fill"] = 3
  /\ Position["input_copy"] = 4 /\ Position["input_sync"] = 5
  /\ Position["compute"] = 6 /\ Position["set_timestamps"] = 2
  /\ Position["result_sync"] = 3 /\ Position["output_copy"] = 4
  /\ Position["output_sync"] = 5 /\ Position["show"] = 6
  /\ Position["requery"] = 7 /\ Position["done"] = 8
  /\ Position["terminated"] = 8 /\ Position["undefined"] = 8
  BY DEF Position

LEMMA PositionType == \A s \in Steps : Position[s] \in 0 .. 8
  BY PositionFacts DEF Steps, SampleSteps, ResultSteps, Ended

LEMMA RoundsType == TypeOK => Rounds \in Int
  BY DEF TypeOK, Rounds

LEMMA ClientForward ==
  ASSUME IInv, Client, UNCHANGED warm_up
  PROVE  Progress' >= Progress /\ (Progress' > Progress \/ EmptyPoll)
<1>0. /\ main \in Steps /\ main' \in Steps /\ caller \in Callers
      /\ q \in Int /\ cntr \in Int /\ finish_count \in Int
  BY ClientType DEF IInv, TypeOK
<1>1. Rounds \in Int
  BY RoundsType DEF IInv
<1>2. Position[main] \in 0 .. 8 /\ Position[main'] \in 0 .. 8
  BY <1>0, PositionType
<1> USE DEF At, GoTo, Calls, loopVars
\* Within a round the position rises.
<1>3. ASSUME Rounds' = Rounds, Position[main'] > Position[main]
      PROVE  Progress' >= Progress /\ Progress' > Progress
  BY <1>1, <1>2, <1>3 DEF Progress
\* A new round outweighs any position.
<1>4. ASSUME Rounds' = Rounds + 1, Position[main] < 8
      PROVE  Progress' >= Progress /\ Progress' > Progress
  BY <1>1, <1>2, <1>4 DEF Progress
<1>5. CASE Pop \/ Fill \/ InputCopy \/ InputSync
  <2>1. Rounds' = Rounds
    BY <1>5 DEF Pop, Fill, InputCopy, InputSync, Rounds
  <2>2. Position[main'] > Position[main]
    BY <1>5, PositionFacts DEF Pop, Fill, InputCopy, InputSync
  <2> QED BY <1>3, <2>1, <2>2
<1>6. CASE ComputeWarmUp \/ ComputeInit \/ ComputeNext
  <2>1. Rounds' = Rounds + 1
    BY <1>0, <1>6 DEF ComputeWarmUp, ComputeInit, ComputeNext, Rounds
  <2>2. main = "compute"
    BY <1>6 DEF ComputeWarmUp, ComputeInit, ComputeNext
  <2> QED BY <1>4, <2>1, <2>2, PositionFacts
<1>7. CASE InitLoop
  <2>1. caller = "init" /\ main = "init"
    BY <1>0, <1>7
    DEF InitLoop, IInv, LoopInv, Control, Callers, SampleSteps, ResultSteps
  <2>2. Rounds' = Rounds
    BY <1>7, <2>1 DEF InitLoop, Rounds
  <2>3. Position[main'] > Position[main]
    BY <1>7, PositionFacts DEF InitLoop
  <2> QED BY <1>3, <2>2, <2>3
<1>8. CASE PollFinished \/ SetTimestamps
  <2>1. Rounds' = Rounds
    BY <1>8 DEF PollFinished, SetTimestamps, Rounds
  <2>2. Position[main'] > Position[main]
    BY <1>8, PositionFacts DEF PollFinished, SetTimestamps
  <2> QED BY <1>3, <2>1, <2>2
<1>9. CASE PollPending
  <2>1. Rounds' = Rounds /\ main = "poll" /\ main' = "next" /\ ~is_finished(cntr)
    BY <1>9 DEF PollPending, Rounds
  <2> QED BY <1>1, <2>1, PositionFacts DEF Progress, EmptyPoll
<1>10. CASE Requery
  <2>1. caller = "poll" /\ main = "requery"
    BY <1>0, <1>10
    DEF Requery, IInv, LoopInv, Control, Callers, SampleSteps, ResultSteps
  <2>2. Rounds' = Rounds + 1
    BY <1>0, <1>10, <2>1 DEF Requery, Rounds
  <2> QED BY <1>4, <2>1, <2>2, PositionFacts
<1>11. CASE NextSlot
  <2>1. caller = "poll" /\ main = "next"
    BY <1>0, <1>11
    DEF NextSlot, IInv, LoopInv, Control, Callers, SampleSteps, ResultSteps
  <2>2. CASE finish_count = NumQueries
    <3>1. Rounds' = Rounds + 1
      BY <1>0, <1>11, <2>1, <2>2 DEF NextSlot, Rounds
    <3> QED BY <1>4, <2>1, <3>1, PositionFacts
  <2>3. CASE finish_count # NumQueries
    <3>1. Rounds' = Rounds /\ main' = "poll"
      BY <1>0, <1>11, <2>1, <2>3 DEF NextSlot, Rounds
    <3> QED BY <1>1, <2>1, <3>1, PositionFacts DEF Progress, EmptyPoll
  <2> QED BY <2>2, <2>3
<1>12. CASE ResultSync \/ OutputCopy \/ OutputSync \/ ShowToClient
  <2>1. Rounds' = Rounds
    BY <1>12 DEF ResultSync, OutputCopy, OutputSync, ShowToClient, Rounds
  <2>2. Position[main'] > Position[main]
    BY <1>12, PositionFacts DEF ResultSync, OutputCopy, OutputSync, ShowToClient
  <2> QED BY <1>3, <2>1, <2>2
<1>13. CASE ShowToPrinter
  <2>1. Rounds' = Rounds + 1 /\ main = "show"
    BY <1>0, <1>13 DEF ShowToPrinter, Rounds
  <2> QED BY <1>4, <2>1, PositionFacts
<1>14. CASE PrintResults
  <2>1. Rounds' = Rounds
    BY <1>14 DEF PrintResults, Rounds
  <2>2. Position[main'] > Position[main]
    BY <1>14, PositionFacts DEF PrintResults
  <2> QED BY <1>3, <2>1, <2>2
<1> QED BY <1>5, <1>6, <1>7, <1>8, <1>9, <1>10, <1>11, <1>12, <1>13, <1>14
        DEF Client, QuerySample, RunAll, GetResult

\* The client never goes back to a query it has submitted or counted, so that apart
\* from empty polls it and the devices have only so many steps to take, for any
\* number of queries and zenons.
THEOREM GoesForwardHolds == Spec => GoesForward
<1>1. IInv /\ [Next]_vars =>
        [Progress' >= Progress /\ (Progress' > Progress \/ WorkDone \/ EmptyPoll)]_vars
  <2> SUFFICES ASSUME IInv, Next
               PROVE  \/ /\ Progress' >= Progress
                         /\ Progress' > Progress \/ WorkDone \/ EmptyPoll
                      \/ UNCHANGED vars
    OBVIOUS
  <2>1. CASE Client /\ UNCHANGED warm_up
    BY <2>1, ClientForward
  <2>2. CASE \E z \in Zenons : Gpu(z)
    <3> PICK z \in Zenons : Gpu(z)
      BY <2>2
    <3>1. Progress' = Progress
      BY DEF Gpu, clientVars, loopVars, Progress, Rounds
    <3>2. Progress \in Int
      <4>1. Rounds \in Int
        BY RoundsType DEF IInv
      <4>2. Position[main] \in 0 .. 8
        BY PositionType DEF IInv, TypeOK
      <4> QED BY <4>1, <4>2 DEF Progress
    <3>3. ZenonTypeOK /\ Device(z) /\ (pending[z] = 0 => ran[z] = {})
      BY DEF Gpu, IInv, TypeOK, ServerTypeOK, MemoryInv, Copies
    <3>4. WorkDone
      BY <3>3, DeviceWorks
    <3> QED BY <3>1, <3>2, <3>4
  <2>3. CASE Stopped /\ UNCHANGED warm_up
    BY <2>3 DEF Stopped, vars
  <2> QED BY <2>1, <2>2, <2>3 DEF Next
<1> QED BY <1>1, Inductive, PTL DEF Spec, GoesForward
-----------------------------------------------------------------------------
(* The pauses.                                                             *)

\* Which entries of dist have been added up, at every step.
PausesInv ==
  /\ caller = "warmup" => waited = {}
  /\ caller = "init" => waited = {j \in 0 .. q - 1 : j + 1 < NumQueries}
  /\ caller = "poll" /\ q < NumQueries => waited = (0 .. q) \ {PoolSize}

LEMMA PausesInit == Init => PausesInv
<1> SUFFICES ASSUME Init PROVE PausesInv
  OBVIOUS
<1>1. q = 0 /\ waited = {} /\ caller \in {"warmup", "init"}
  BY DEF Init
<1> QED BY <1>1 DEF PausesInv

LEMMA PausesStep ==
  ASSUME IInv, PausesInv, Client
  PROVE  PausesInv'
<1>0. /\ PoolSize \in Nat \ {0} /\ NumQueries \in Nat \ {0}
      /\ Control /\ Counters
  BY ConstantFacts DEF IInv, LoopInv
<1>1. CASE ComputeWarmUp
  <2>1. q' = 0 /\ waited' = {} /\ caller' = "init"
    BY <1>0, <1>1 DEF ComputeWarmUp, Counters, PausesInv, Calls
  <2> QED BY <2>1 DEF PausesInv
<1>2. CASE ComputeInit
  <2>1. /\ caller = "init" /\ caller' = "init" /\ q' = q + 1 /\ q \in 0 .. PoolSize
        /\ waited' = IF q + 1 < NumQueries THEN waited \cup {q} ELSE waited
    BY <1>0, <1>2 DEF ComputeInit, Counters
  <2>2. waited = {j \in 0 .. q - 1 : j + 1 < NumQueries}
    BY <2>1 DEF PausesInv
  <2>3. waited' = {j \in 0 .. q + 1 - 1 : j + 1 < NumQueries}
    BY <1>0, <2>1, <2>2
  <2> QED BY <2>1, <2>3 DEF PausesInv
<1>3. CASE ComputeNext
  <2>1. /\ caller = "poll" /\ caller' = "poll" /\ q' = q + 1
        /\ q \in PoolSize .. NumQueries /\ q < NumQueries
        /\ waited' = IF q + 1 < NumQueries THEN waited \cup {q + 1} ELSE waited
    BY <1>0, <1>3 DEF ComputeNext, Counters, SampleSteps, At
  <2>2. waited = (0 .. q) \ {PoolSize}
    BY <2>1 DEF PausesInv
  <2>3. q + 1 < NumQueries => waited' = (0 .. q + 1) \ {PoolSize}
    BY <1>0, <2>1, <2>2
  <2> QED BY <2>1, <2>3 DEF PausesInv
<1>4. CASE InitLoop
  <2>0. caller = "init"
    <3>1. main = "init" /\ caller \in {"warmup", "init", "poll", "print"}
      BY <1>4 DEF InitLoop, At, IInv, TypeOK, Callers
    <3> QED BY <1>0, <3>1 DEF Control, SampleSteps, ResultSteps
  <2>1. /\ waited' = waited /\ q' = q /\ caller = "init" /\ q \in 0 .. PoolSize
        /\ caller' = IF q < PoolSize THEN caller ELSE "poll"
    BY <1>0, <1>4, <2>0 DEF InitLoop, loopVars, Counters, Calls
  <2>2. waited = {j \in 0 .. q - 1 : j + 1 < NumQueries}
    BY <2>1 DEF PausesInv
  <2>3. q = PoolSize /\ q < NumQueries => waited = (0 .. q) \ {PoolSize}
    BY <1>0, <2>1, <2>2
  <2>4. caller' = "poll" => q = PoolSize
    BY <1>0, <2>1
  <2> QED BY <2>1, <2>2, <2>3, <2>4 DEF PausesInv
<1>5. ASSUME waited' = waited, q' = q, caller' = caller \/ caller' = "print" PROVE PausesInv'
  BY <1>5 DEF PausesInv
<1>6. CASE NextSlot \/ PollFinished \/ PollPending \/ SetTimestamps \/ Requery
  BY <1>5, <1>6 DEF NextSlot, PollFinished, PollPending, SetTimestamps, Requery, Calls,
     loopVars
<1>7. CASE Pop \/ Fill \/ InputCopy \/ InputSync
  BY <1>5, <1>7 DEF Pop, Fill, InputCopy, InputSync, loopVars
<1>8. CASE GetResult \/ PrintResults
  BY <1>5, <1>8 DEF GetResult, ResultSync, OutputCopy, OutputSync, ShowToClient,
     ShowToPrinter, PrintResults, loopVars
<1> QED BY <1>1, <1>2, <1>3, <1>4, <1>6, <1>7, <1>8 DEF Client, QuerySample, RunAll

\* Every query has its pauses but for the shift by one behind the first round, for
\* any number of queries and zenons.
THEOREM PausesShiftHolds == Spec => []PausesShift
<1>1. IInv /\ PausesInv /\ [Next]_vars => PausesInv'
  <2> SUFFICES ASSUME IInv, PausesInv, [Next]_vars PROVE PausesInv'
    OBVIOUS
  <2>1. CASE Client
    BY <2>1, PausesStep
  <2>2. CASE UNCHANGED vars \/ Stopped \/ \E z \in Zenons : Gpu(z)
    <3>1. waited' = waited /\ q' = q /\ caller' = caller
      BY <2>2 DEF Stopped, Gpu, vars, clientVars, loopVars
    <3> QED BY <3>1 DEF PausesInv
  <2> QED BY <2>1, <2>2 DEF Next
<1>2. IInv /\ PausesInv => PausesShift
  <2> SUFFICES ASSUME IInv, PausesInv, main = "fill", q < NumQueries
               PROVE  /\ caller = "init" => waited = 0 .. q - 1
                      /\ caller = "poll" => waited = (0 .. q) \ {PoolSize}
    BY DEF PausesShift
  <2>1. NumQueries \in Nat /\ (caller = "init" => q \in Nat)
    BY ConstantFacts DEF IInv, LoopInv, Counters
  <2>2. caller = "init" => waited = 0 .. q - 1
    <3> SUFFICES ASSUME caller = "init" PROVE waited = 0 .. q - 1
      OBVIOUS
    <3>1. waited = {j \in 0 .. q - 1 : j + 1 < NumQueries}
      BY DEF PausesInv
    <3>2. \A j \in 0 .. q - 1 : j + 1 < NumQueries
      BY <2>1
    <3> QED BY <3>1, <3>2
  <2> QED BY <2>2 DEF PausesInv
<1> QED BY <1>1, <1>2, Inductive, PausesInit, PTL DEF Spec
=============================================================================
