---------------------------- MODULE StartupProofs ----------------------------
(***************************************************************************)
(* Theorems of Startup, for any arguments, devices, files, processes and   *)
(* kills: the bounds the options keep, the queues the zenons get, the      *)
(* elements the work items write, and what becomes of the files.           *)
(***************************************************************************)
EXTENDS Startup, WellFoundedInduction, TLAPS
-----------------------------------------------------------------------------
(* Largest and smallest numbers, which the choices of the code look for.   *)

\* A set of natural numbers that is not empty has a smallest one.
LEMMA SmallestExists ==
  ASSUME NEW S \in SUBSET Nat, S # {}
  PROVE  \E x \in S : \A y \in S : x <= y
<1>1. PICK x \in S : \A y \in S : ~ (<<y, x>> \in OpToRel(<, Nat))
  BY NatLessThanWellFounded, WFMin, S \subseteq Nat
<1>2. \A y \in S : ~ (y < x)
  BY <1>1 DEF OpToRel
<1> QED BY <1>2

\* A set of natural numbers with a bound has a largest one.
LEMMA LargestExists ==
  ASSUME NEW n \in Nat, NEW S \in SUBSET (0 .. n), S # {}
  PROVE  \E x \in S : \A y \in S : y <= x
<1> DEFINE T == {n - y : y \in S}
<1>1. T \subseteq Nat
  <2>1. \A y \in S : y \in Nat /\ n - y \in Nat
    OBVIOUS
  <2> QED BY <2>1
<1>2. T # {}
  OBVIOUS
<1>3. T \in SUBSET Nat
  BY <1>1
<1> HIDE DEF T
<1>4. PICK x \in T : \A y \in T : x <= y
  BY <1>2, <1>3, SmallestExists
<1>5. PICK y \in S : x = n - y
  BY DEF T
<1>6. \A w \in S : n - y <= n - w
  BY <1>4, <1>5 DEF T
<1>7. \A w \in S : w <= y
  BY <1>6
<1> QED BY <1>7

LEMMA MaxIn ==
  ASSUME NEW n \in Nat, NEW S \in SUBSET (0 .. n), S # {}
  PROVE  Max(S) \in S /\ \A y \in S : y <= Max(S)
  BY LargestExists DEF Max

LEMMA MinIn ==
  ASSUME NEW S \in SUBSET Nat, S # {}
  PROVE  Min(S) \in S /\ \A y \in S : Min(S) <= y
  BY SmallestExists DEF Min

\* What was written is read back in full.
LEMMA WrittenIsRead ==
  ASSUME NEW q \in Nat, NEW d \in [1 .. q -> Nat]
  PROVE  /\ d \in Contents /\ d # NoFile
         /\ ~too_long(d, q)
         /\ stored(d, q) = d
<1>1. d \in Seq(Int \cup {Junk}) /\ Len(d) = q
  OBVIOUS
<1>2. \A n \in 1 .. q : d[n] # Junk
  BY DistributionAssumption
<1>3. {n \in 0 .. Len(d) : \A k \in 1 .. n : d[k] # Junk} = 0 .. q
  BY <1>1, <1>2
<1>4. (CHOOSE n \in 0 .. q : \A k \in 0 .. q : k <= n) = q
  OBVIOUS
<1>5. numbers(d) = SubSeq(d, 1, q)
  BY <1>3, <1>4 DEF numbers
<1>6. Len(numbers(d)) = q /\ \A n \in 1 .. q : numbers(d)[n] = d[n]
  BY <1>1, <1>5
<1>7. ~too_long(d, q)
  BY <1>6 DEF too_long
<1>8. stored(d, q) = d
  BY <1>6 DEF stored
<1> QED BY <1>1, <1>7, <1>8, DistributionAssumption DEF Contents

-----------------------------------------------------------------------------
(* The inductive invariant.                                                *)

\* The file for q queries exists, is not too long and says d.
Says(q, d) == accepted(q) /\ stored(files[q], q) = d

WellTyped ==
  /\ options \in [queries: Lengths, consumers: Int, threads: Int, input_size: Int, mem: Int,
                  fixed_dist: BOOLEAN, multi_ccs: BOOLEAN]
  /\ stage \in {"open", "write"} => dist \in [1 .. options.queries -> Nat]
  /\ DOMAIN files = Lengths /\ DOMAIN used = Lengths

\* A file a run has used keeps what it says, ...
Kept == \A q \in Lengths : used[q] # NoFile => Says(q, used[q])

\* ... and is never among those a process rewrites.
Rewritten ==
  stage \in {"draw", "open", "write"} =>
    options.fixed_dist /\ used[options.queries] = NoFile

\* A process that is about to run has what its file says.
Created ==
  stage \in {"created", "run"} /\ options.fixed_dist => Says(options.queries, dist)

FileInv == WellTyped /\ Kept /\ Rewritten /\ Created

LEMMA LengthsNat == Lengths \subseteq Nat
  BY OptionsAssumption, StartupAssumption DEF Lengths

LEMMA DefaultTyped ==
  default_options \in [queries: Lengths, consumers: Int, threads: Int, input_size: Int,
                       mem: Int, fixed_dist: BOOLEAN, multi_ccs: BOOLEAN]
  BY OptionsAssumption DEF default_options, Lengths

LEMMA FileInit == Init => FileInv
<1> SUFFICES ASSUME Init PROVE FileInv
  OBVIOUS
<1>1. WellTyped
  BY DefaultTyped DEF Init, WellTyped
<1>2. Kept /\ Rewritten /\ Created
  BY DEF Init, Kept, Rewritten, Created
<1> QED BY <1>1, <1>2 DEF FileInv

\* Parsing keeps the options typed.
LEMMA ParseTyped ==
  ASSUME options \in [queries: Lengths, consumers: Int, threads: Int, input_size: Int,
                      mem: Int, fixed_dist: BOOLEAN, multi_ccs: BOOLEAN],
         NEW name \in DOMAIN Values \cup Flags, NEW v, name \in DOMAIN Values => v \in Values[name]
  PROVE  parsed(options, name, v) \in
           [queries: Lengths, consumers: Int, threads: Int, input_size: Int, mem: Int,
            fixed_dist: BOOLEAN, multi_ccs: BOOLEAN]
<1>1. name \in {"--q", "--s", "--t", "--input_size", "--mem", "--fixed_dist", "--single_ccs"}
  BY StartupAssumption DEF Flags
<1>2. name \in DOMAIN Values => v \in Int
  BY StartupAssumption
<1>3. name = "--q" => v \in Lengths
  BY StartupAssumption DEF Lengths
<1>4. v \in Int => to_short(v) \in Int /\ number_of_threads(v) \in Int
  BY DEF to_short, number_of_threads
<1>5. name \in DOMAIN Values \/ name = "--fixed_dist" \/ name = "--single_ccs"
  BY DEF Flags
<1> QED BY <1>1, <1>2, <1>3, <1>4, <1>5 DEF parsed

LEMMA ClampTyped ==
  ASSUME options \in [queries: Lengths, consumers: Int, threads: Int, input_size: Int,
                      mem: Int, fixed_dist: BOOLEAN, multi_ccs: BOOLEAN]
  PROVE  /\ clamped(options) \in
              [queries: Lengths, consumers: Int, threads: Int, input_size: Int, mem: Int,
               fixed_dist: BOOLEAN, multi_ccs: BOOLEAN]
  BY DEF clamped, to_short

LEMMA FileNext == FileInv /\ [Next]_vars => FileInv'
<1> SUFFICES ASSUME FileInv, [Next]_vars PROVE FileInv'
  OBVIOUS
<1> USE DEF FileInv
\* Neither the files nor their users change in the steps before "dist".
<1>1. ASSUME files' = files, used' = used, stage' \in {"parse", "server", "dist", "ended"},
             options' \in [queries: Lengths, consumers: Int, threads: Int, input_size: Int,
                           mem: Int, fixed_dist: BOOLEAN, multi_ccs: BOOLEAN]
      PROVE  FileInv'
  <2>1. WellTyped'
    BY <1>1 DEF WellTyped
  <2>2. Kept'
    BY <1>1 DEF Kept, Says, accepted
  <2>3. Rewritten' /\ Created'
    BY <1>1 DEF Rewritten, Created
  <2> QED BY <2>1, <2>2, <2>3
<1>2. ASSUME NEW name \in DOMAIN Values, NEW v \in Values[name], Parse(name, v) PROVE FileInv'
  BY <1>1, <1>2, ParseTyped DEF Parse, WellTyped
<1>3. ASSUME NEW name \in Flags, Parse(name, 0) PROVE FileInv'
  <2>1. name \notin DOMAIN Values
    BY StartupAssumption DEF Flags
  <2> QED BY <1>1, <1>3, <2>1, ParseTyped DEF Parse, WellTyped
<1>4. CASE Unknown
  BY <1>1, <1>4 DEF Unknown, WellTyped
<1>5. CASE Parsed
  BY <1>1, <1>5, ClampTyped DEF Parsed, WellTyped
<1>6. CASE ConstructZenon
  BY <1>1, <1>6 DEF ConstructZenon, WellTyped
<1>7. CASE ConstructionFails
  BY <1>1, <1>7 DEF ConstructionFails, WellTyped
<1>8. CASE ServerConstructed
  BY <1>1, <1>8 DEF ServerConstructed, WellTyped
<1>9. CASE NextProcess
  BY <1>1, <1>9, DefaultTyped DEF NextProcess
<1>10. CASE ReadDist
  <2>0. /\ options' = options /\ files' = files /\ used' = used
        /\ options.fixed_dist /\ options.queries \in Lengths
    BY <1>10 DEF ReadDist, WellTyped
  <2>1. CASE accepted(options.queries)
    <3>1. stage' = "created" /\ dist' = stored(files[options.queries], options.queries)
      BY <1>10, <2>1 DEF ReadDist, accepted, read_dist
    <3> QED BY <2>0, <2>1, <3>1 DEF WellTyped, Kept, Rewritten, Created, Says, accepted
  <2>2. CASE ~accepted(options.queries)
    <3>1. stage' = "draw"
      BY <1>10, <2>2 DEF ReadDist
    <3>2. used[options.queries] = NoFile
      BY <2>0, <2>2 DEF Kept, Says
    <3> QED BY <2>0, <3>1, <3>2 DEF WellTyped, Kept, Rewritten, Created, Says, accepted
  <2> QED BY <2>1, <2>2
<1>11. CASE DrawDist
  <2>1. /\ options' = options /\ files' = files /\ used' = used
        /\ stage' = IF options.fixed_dist THEN "open" ELSE "created"
        /\ dist' \in [1 .. options.queries -> Nat]
    BY <1>11, DistributionAssumption DEF DrawDist, draw
  <2>2. options.fixed_dist => used[options.queries] = NoFile
    BY <1>11 DEF DrawDist, Rewritten
  <2> QED BY <2>1, <2>2 DEF WellTyped, Kept, Rewritten, Created, Says, accepted
<1>12. CASE OpenFile
  <2>1. /\ options' = options /\ used' = used /\ dist' = dist /\ stage = "open"
        /\ stage' = "write" /\ files' = [files EXCEPT ![options.queries] = <<>>]
    BY <1>12 DEF OpenFile, open_file
  <2>2. options.fixed_dist /\ used[options.queries] = NoFile
    BY <2>1 DEF Rewritten
  <2> QED BY <2>1, <2>2 DEF WellTyped, Kept, Rewritten, Created, Says, accepted
<1>13. CASE WriteFile
  <2>1. /\ options' = options /\ used' = used /\ dist' = dist /\ stage = "write"
        /\ stage' = "created" /\ files' = [files EXCEPT ![options.queries] = dist]
    BY <1>13 DEF WriteFile, write_file
  <2>2. used[options.queries] = NoFile /\ options.queries \in Nat
    BY <2>1, LengthsNat DEF Rewritten, WellTyped
  <2>3. dist # NoFile /\ ~too_long(dist, options.queries)
        /\ stored(dist, options.queries) = dist
    BY <2>1, <2>2, WrittenIsRead DEF WellTyped
  <2> QED BY <2>1, <2>2, <2>3 DEF WellTyped, Kept, Rewritten, Created, Says, accepted
<1>14. CASE RunAll
  BY <1>14 DEF RunAll, WellTyped, Kept, Rewritten, Created, Says, accepted
<1>15. CASE KilledWriting
  <2>1. PICK f : /\ options' = options /\ used' = used /\ dist' = dist /\ stage = "write"
                 /\ stage' = "ended" /\ files' = [files EXCEPT ![options.queries] = f]
    BY <1>15 DEF KilledWriting
  <2>2. used[options.queries] = NoFile
    BY <2>1 DEF Rewritten
  <2> QED BY <2>1, <2>2 DEF WellTyped, Kept, Rewritten, Created, Says, accepted
<1>16. CASE UNCHANGED vars
  BY <1>16 DEF vars, WellTyped, Kept, Rewritten, Created, Says, accepted
<1> QED
  BY <1>2, <1>3, <1>4, <1>5, <1>6, <1>7, <1>8, <1>9, <1>10, <1>11, <1>12, <1>13, <1>14,
     <1>15, <1>16 DEF Next

LEMMA FileCorrect == Spec => []FileInv
  BY FileInit, FileNext, PTL DEF Spec
-----------------------------------------------------------------------------
\* With --fixed_dist the pauses a run uses are the ones its file holds.
THEOREM FileSaysDistHolds == Spec => []FileSaysDist
<1>1. FileInv => FileSaysDist
  BY DEF FileInv, Created, Says, accepted, FileSaysDist
<1> QED BY <1>1, FileCorrect, PTL

\* Two runs with --fixed_dist and as many queries use the same pauses, however
\* many runs and kills come between.
THEOREM FixedDistRepeatsHolds == Spec => FixedDistRepeats
<1>1. FileInv /\ [Next]_vars => [\A q \in Lengths : used[q] # NoFile => used'[q] = used[q]]_vars
  <2> SUFFICES ASSUME FileInv, Next, NEW q \in Lengths, used[q] # NoFile
               PROVE  used'[q] = used[q]
    OBVIOUS
  <2>1. CASE RunAll
    <3>1. used' = IF options.fixed_dist THEN [used EXCEPT ![options.queries] = dist] ELSE used
      BY <2>1 DEF RunAll
    <3>2. options.fixed_dist => Says(options.queries, dist)
      BY <2>1 DEF RunAll, FileInv, Created
    <3>3. Says(q, used[q])
      BY DEF FileInv, Kept
    <3> QED BY <3>1, <3>2, <3>3 DEF Says, FileInv, WellTyped
  <2>2. CASE ~RunAll
    BY <2>2 DEF Next, Parse, Unknown, Parsed, ConstructZenon, ConstructionFails,
       ServerConstructed, ReadDist, DrawDist, OpenFile, WriteFile, KilledWriting, NextProcess
  <2> QED BY <2>1, <2>2
<1> QED BY <1>1, FileCorrect, PTL DEF FixedDistRepeats, Spec
-----------------------------------------------------------------------------
(* What a file, a device and an option can be.                             *)

\* The numbers at the head of a file.
LEMMA NumbersTyped ==
  ASSUME NEW file \in Seq(Int \cup {Junk})
  PROVE  numbers(file) \in Seq(Int)
<1> DEFINE good == {n \in 0 .. Len(file) : \A k \in 1 .. n : file[k] # Junk}
<1> DEFINE last == CHOOSE n \in good : \A k \in good : k <= n
<1>1. 0 \in good /\ good \in SUBSET (0 .. Len(file)) /\ Len(file) \in Nat
  OBVIOUS
<1>2. \E n \in good : \A k \in good : k <= n
  <2> HIDE DEF good
  <2> QED BY <1>1, LargestExists
<1>3. last \in good
  BY <1>2
<1>4. last \in 0 .. Len(file) /\ \A k \in 1 .. last : file[k] # Junk
  BY <1>3
<1>5. numbers(file) = SubSeq(file, 1, last)
  BY DEF numbers
<1> HIDE DEF last
<1>6. \A k \in 1 .. last : file[k] \in Int
  BY <1>4
<1> QED BY <1>4, <1>5, <1>6

LEMMA StoredTyped ==
  ASSUME NEW q \in Nat, NEW file \in Contents \ {NoFile}
  PROVE  stored(file, q) \in [1 .. q -> Int]
<1>1. numbers(file) \in Seq(Int)
  BY NumbersTyped DEF Contents
<1>2. \A n \in 1 .. q : n <= Len(numbers(file)) => numbers(file)[n] \in Int
  BY <1>1
<1> QED BY <1>2 DEF stored

LEMMA TornTyped ==
  ASSUME NEW d \in Seq(Int), dist = d, NEW n \in 0 .. Len(d), NEW f \in torn(n)
  PROVE  f \in Contents
<1>1. SubSeq(d, 1, n) \in Seq(Int)
  OBVIOUS
<1>2. n < Len(d) => d[n + 1] \in Int
  OBVIOUS
<1>3. n < Len(d) => Append(SubSeq(d, 1, n), d[n + 1] \div 10) \in Seq(Int)
  BY <1>1, <1>2
<1>4. f \in Seq(Int)
  BY <1>1, <1>3 DEF torn
<1>5. Seq(Int) \subseteq Seq(Int \cup {Junk})
  OBVIOUS
<1> QED BY <1>4, <1>5 DEF Contents

\* The device picked is one of those reported, and discrete if one of them is.
LEMMA DeviceChosen ==
  ASSUME NEW ds \in Platforms
  PROVE  /\ chosen_device(ds).groups \in Seq(QueueGroup)
         /\ (\E n \in DOMAIN ds : discrete(ds[n])) => discrete(chosen_device(ds))
<1> DEFINE found == {n \in 1 .. Len(ds) : discrete(ds[n])}
<1>1. ds \in Seq(GpuDevice) /\ ds # <<>> /\ Len(ds) \in Nat /\ DOMAIN ds = 1 .. Len(ds)
  BY StartupAssumption
<1>2. chosen_device(ds) = ds[IF found = {} THEN 1 ELSE Min(found)]
  BY DEF chosen_device
<1>3. ASSUME found # {} PROVE Min(found) \in found
  <2>1. found \in SUBSET Nat
    OBVIOUS
  <2> QED BY <1>3, <2>1, MinIn
<1>4. (IF found = {} THEN 1 ELSE Min(found)) \in 1 .. Len(ds)
  BY <1>1, <1>3
<1>5. chosen_device(ds) \in GpuDevice
  BY <1>1, <1>2, <1>4
<1>6. (\E n \in DOMAIN ds : discrete(ds[n])) => discrete(chosen_device(ds))
  BY <1>1, <1>2, <1>3
<1> QED BY <1>5, <1>6 DEF GpuDevice

\* The ordinals name a group that computes, if the loop saw one, and one that only
\* copies, if there is one.
LEMMA OrdinalsFound ==
  ASSUME NEW gs \in Seq(QueueGroup)
  PROVE  /\ computeQueueGroupOrdinal(gs) \in Nat
         /\ computeQueueGroupOrdinal(gs) < Len(gs) =>
              /\ computeQueueGroupOrdinal(gs) + 1 \in looked_at(gs)
              /\ gs[computeQueueGroupOrdinal(gs) + 1].compute
              /\ \A i \in looked_at(gs) :
                   gs[i].compute => i <= computeQueueGroupOrdinal(gs) + 1
         /\ (\E i \in DOMAIN gs : copy_only(gs[i])) =>
              copy_only(gs[copyOnlyQueueGroupOrdinal(gs) + 1])
<1> DEFINE computing == {i \in looked_at(gs) : gs[i].compute}
           found == {i \in looked_at(gs) : copy_only(gs[i])}
<1>1. Len(gs) \in Nat /\ DOMAIN gs = 1 .. Len(gs) /\ looked_at(gs) \in SUBSET (1 .. Len(gs))
  BY DEF looked_at
<1>2. computing # {} => Max(computing) \in computing /\ \A i \in computing : i <= Max(computing)
  <2>1. computing \in SUBSET (0 .. Len(gs))
    BY <1>1
  <2> HIDE DEF computing
  <2> QED BY <1>1, <2>1, MaxIn
<1>3. found # {} => Max(found) \in found
  <2>1. found \in SUBSET (0 .. Len(gs))
    BY <1>1
  <2> HIDE DEF found
  <2> QED BY <1>1, <2>1, MaxIn
<1>4. computeQueueGroupOrdinal(gs) = IF computing = {} THEN Len(gs) ELSE Max(computing) - 1
  BY DEF computeQueueGroupOrdinal
<1>5. copyOnlyQueueGroupOrdinal(gs) = IF found = {} THEN 0 ELSE Max(found) - 1
  BY DEF copyOnlyQueueGroupOrdinal
<1>6. ASSUME NEW i \in DOMAIN gs, copy_only(gs[i]) PROVE found # {}
  <2> DEFINE only == {j \in 1 .. Len(gs) : copy_only(gs[j])}
  <2>1. only \in SUBSET Nat /\ i \in only
    BY <1>1, <1>6
  <2>2. Min(only) \in only /\ \A j \in only : Min(only) <= j
    <3> HIDE DEF only
    <3> QED BY <2>1, MinIn
  <2>3. PICK m \in only : \A j \in only : m <= j
    BY <2>2
  <2>4. \A j \in 1 .. m - 1 : ~copy_only(gs[j])
    <3>1. m \in 1 .. Len(gs)
      BY <2>3
    <3> SUFFICES ASSUME NEW j \in 1 .. m - 1, copy_only(gs[j]) PROVE FALSE
      OBVIOUS
    <3>2. j \in 1 .. Len(gs) /\ ~(m <= j)
      BY <1>1, <3>1
    <3> QED BY <2>3, <3>2
  <2>5. m \in looked_at(gs)
    BY <1>1, <2>3, <2>4 DEF looked_at
  <2> QED BY <2>3, <2>5
<1>7. computing # {} => Max(computing) \in 1 .. Len(gs)
  BY <1>1, <1>2
<1>8. found # {} => copy_only(gs[copyOnlyQueueGroupOrdinal(gs) + 1])
  <2>1. ASSUME found # {} PROVE Max(found) - 1 + 1 = Max(found)
    BY <1>1, <1>3, <2>1
  <2> QED BY <1>3, <1>5, <2>1
<1>9. computing # {} => computeQueueGroupOrdinal(gs) + 1 = Max(computing)
  BY <1>4, <1>7
<1>10. computing = {} => computeQueueGroupOrdinal(gs) = Len(gs)
  BY <1>4
<1> HIDE DEF found
<1>11. computeQueueGroupOrdinal(gs) \in Nat
  BY <1>1, <1>4, <1>7
<1> QED BY <1>1, <1>2, <1>6, <1>8, <1>9, <1>10, <1>11
-----------------------------------------------------------------------------
(* Options, queues and types, by an invariant of the whole construction.   *)

OptionType ==
  [queries: Lengths, consumers: Int, threads: Int, input_size: Int, mem: Int,
   fixed_dist: BOOLEAN, multi_ccs: BOOLEAN]

\* What --t alone leaves, and what the last clamp makes of it.
ThreadsSet ==
  /\ stage = "parse" => options.threads >= 2 /\ options.threads <= 4096
  /\ stage \notin {"parse", "ended"} /\ options.input_size > 0 =>
       /\ options.threads >= 1 /\ options.threads <= 4096
       /\ options.threads <= options.input_size
       /\ options.input_size >= 2 => options.threads >= 2

\* Zenons are constructed after parsing, and only on what can carry them.
ZenonsConstructed ==
  /\ stage = "parse" => ccs_ids = <<>>
  /\ ccs_ids # <<>> => constructible
  /\ \A n \in DOMAIN ccs_ids :
       ccs_ids[n] < groups[computeQueueGroupOrdinal(groups) + 1].numQueues

SetupInv == TypeOK /\ ThreadsSet /\ ZenonsConstructed

\* The steps that construct nothing and leave the options as they are.
OnlyFiles ==
  /\ UNCHANGED <<options, devices, ccs_ids>>
  /\ stage # "parse" /\ stage' # "parse"
  /\ stage = "ended" => stage' = "ended"

LEMMA QueueNumber ==
  ASSUME devices \in Platforms, constructible, NEW multi_ccs, NEW n \in Nat
  PROVE  /\ ccs_id(groups, multi_ccs, n) \in Nat
         /\ ccs_id(groups, multi_ccs, n)
              < groups[computeQueueGroupOrdinal(groups) + 1].numQueues
<1>1. groups \in Seq(QueueGroup)
  BY DeviceChosen DEF groups
<1>2. computeQueueGroupOrdinal(groups) \in Nat /\ computeQueueGroupOrdinal(groups) < Len(groups)
  BY <1>1, OrdinalsFound DEF constructible
<1>3. groups[computeQueueGroupOrdinal(groups) + 1] \in QueueGroup
  BY <1>1, <1>2
<1>4. groups[computeQueueGroupOrdinal(groups) + 1].numQueues \in Nat \ {0}
  BY <1>3 DEF QueueGroup
<1>5. \A k \in Nat \ {0} : n % k \in Nat /\ n % k < k
  OBVIOUS
<1> QED BY <1>4, <1>5 DEF ccs_id

LEMMA SetupInit == Init => SetupInv
<1> SUFFICES ASSUME Init PROVE SetupInv
  OBVIOUS
<1>1. TypeOK
  <2>1. Lengths # {} /\ UserFiles \subseteq Contents
    BY StartupAssumption DEF Lengths
  <2> QED BY <2>1, DefaultTyped, StartupAssumption DEF Init, TypeOK, Stages
<1>2. ThreadsSet
  BY OptionsAssumption DEF Init, ThreadsSet, default_options
<1>3. ZenonsConstructed
  BY DEF Init, ZenonsConstructed
<1> QED BY <1>1, <1>2, <1>3 DEF SetupInv

\* Such a step keeps what SetupInv says of options and zenons.
LEMMA OnlyFilesKeep ==
  ASSUME SetupInv, OnlyFiles
  PROVE  ThreadsSet' /\ ZenonsConstructed'
<1>1. options' = options /\ ccs_ids' = ccs_ids /\ groups' = groups
  BY DEF OnlyFiles, groups
<1>2. constructible' = constructible
  BY <1>1 DEF constructible
<1>3. stage \notin {"parse", "ended"} \/ stage' = "ended"
  BY DEF OnlyFiles
<1> QED BY <1>1, <1>2, <1>3 DEF SetupInv, ThreadsSet, ZenonsConstructed, OnlyFiles

LEMMA ThreadsParsed ==
  ASSUME NEW v \in Int
  PROVE  number_of_threads(v) >= 2 /\ number_of_threads(v) <= 4096
<1>1. to_short(v) \in Int
  BY DEF to_short
<1> QED BY <1>1 DEF number_of_threads

LEMMA ThreadsClamped ==
  ASSUME NEW o \in OptionType, o.threads >= 2 /\ o.threads <= 4096, NEW c, c = clamped(o),
         c.input_size > 0
  PROVE  /\ c.threads >= 1 /\ c.threads <= 4096
         /\ c.threads <= c.input_size
         /\ c.input_size >= 2 => c.threads >= 2
<1>1. o.input_size \in Int /\ o.threads \in Int /\ "threads" \in DOMAIN o
  BY DEF OptionType
<1>2. CASE o.threads > o.input_size
  <2>1. c = [o EXCEPT !.threads = to_short(o.input_size)]
    BY <1>2 DEF clamped
  <2>2. c.input_size = o.input_size /\ c.threads = to_short(o.input_size)
    BY <1>1, <2>1 DEF OptionType
  <2>3. \A n \in Int : 0 <= n /\ n <= 4096 => to_short(n) = n
    BY DEF to_short
  <2>4. o.input_size >= 1 /\ o.input_size <= 4096
    BY <1>1, <1>2, <2>2
  <2>5. c.threads = o.input_size
    BY <1>1, <2>2, <2>3, <2>4
  <2> QED BY <1>1, <2>2, <2>4, <2>5
<1>3. CASE ~(o.threads > o.input_size)
  <2>1. c = o
    BY <1>3 DEF clamped
  <2> QED BY <1>1, <1>3, <2>1
<1> QED BY <1>2, <1>3

LEMMA ThreadsKept ==
  ASSUME NEW o \in OptionType, o.threads >= 2 /\ o.threads <= 4096,
         NEW name \in {"--q", "--s", "--t", "--input_size", "--mem", "--fixed_dist",
                       "--single_ccs"},
         NEW v, name = "--t" => v \in Int
  PROVE  parsed(o, name, v).threads >= 2 /\ parsed(o, name, v).threads <= 4096
<1>1. CASE name = "--t"
  <2>1. parsed(o, name, v) = [o EXCEPT !.threads = number_of_threads(v)]
    BY <1>1 DEF parsed
  <2>2. parsed(o, name, v).threads = number_of_threads(v)
    BY <2>1 DEF OptionType
  <2> QED BY <1>1, <2>2, ThreadsParsed
<1>2. CASE name # "--t"
  <2>1. parsed(o, name, v).threads = o.threads
    BY <1>2 DEF parsed, OptionType
  <2> QED BY <2>1
<1> QED BY <1>1, <1>2

LEMMA PausesAreEntries ==
  ASSUME NEW n \in Nat, NEW d \in [1 .. n -> Int]
  PROVE  d \in Seq(Int \cup {Junk})
  OBVIOUS

LEMMA SetupNext == SetupInv /\ [Next]_vars => SetupInv'
<1> SUFFICES ASSUME SetupInv, [Next]_vars PROVE SetupInv'
  OBVIOUS
<1> USE DEF SetupInv
<1>0. /\ options \in OptionType
      /\ stage \in Stages
      /\ arguments \in 0 .. MaxArguments
      /\ devices \in Platforms
      /\ ccs_ids \in Seq(Nat)
      /\ processes \in 1 .. MaxProcesses
      /\ files \in [Lengths -> Contents]
      /\ options.queries \in Lengths /\ options.queries \in Nat
      /\ MaxArguments \in Nat /\ MaxProcesses \in Nat
  BY LengthsNat, StartupAssumption DEF TypeOK, OptionType
<1>1. ASSUME NEW name \in DOMAIN Values \cup Flags, NEW v, Parse(name, v),
             name \in DOMAIN Values => v \in Values[name]
      PROVE  SetupInv'
  <2>1. /\ stage = "parse" /\ stage' = "parse" /\ options' = parsed(options, name, v)
        /\ arguments < MaxArguments /\ arguments' = arguments + 1
        /\ devices' = devices /\ ccs_ids' = ccs_ids /\ processes' = processes
        /\ files' = files /\ dist' = dist
    BY <1>1 DEF Parse
  <2>2. options' \in OptionType
    BY <1>0, <1>1, <2>1, ParseTyped DEF OptionType
  <2>3. TypeOK'
    BY <1>0, <2>1, <2>2 DEF TypeOK, OptionType
  <2>4. options'.threads >= 2 /\ options'.threads <= 4096
    <3>1. name \in {"--q", "--s", "--t", "--input_size", "--mem", "--fixed_dist", "--single_ccs"}
      BY StartupAssumption DEF Flags
    <3>2. name = "--t" => v \in Int
      BY <1>1, StartupAssumption
    <3>3. options.threads >= 2 /\ options.threads <= 4096
      BY <2>1 DEF ThreadsSet
    <3> QED BY <1>0, <2>1, <3>1, <3>2, <3>3, ThreadsKept
  <2>5. ThreadsSet'
    BY <2>1, <2>4 DEF ThreadsSet
  <2>6. ZenonsConstructed'
    BY <2>1 DEF ZenonsConstructed
  <2> QED BY <2>3, <2>5, <2>6
<1>2. CASE Unknown
  <2>1. TypeOK'
    BY <1>0, <1>2 DEF Unknown, TypeOK, Stages, OptionType
  <2>2. ThreadsSet' /\ ZenonsConstructed'
    BY <1>2 DEF Unknown, ThreadsSet, ZenonsConstructed
  <2> QED BY <2>1, <2>2
<1>3. CASE Parsed
  <2>1. options' \in OptionType
    BY <1>0, <1>3, ClampTyped DEF Parsed, OptionType
  <2>2. TypeOK'
    BY <1>0, <1>3, <2>1 DEF Parsed, TypeOK, Stages, OptionType
  <2>3. ASSUME options'.input_size > 0
        PROVE  /\ options'.threads >= 1 /\ options'.threads <= 4096
               /\ options'.threads <= options'.input_size
               /\ options'.input_size >= 2 => options'.threads >= 2
    <3>1. options.threads >= 2 /\ options.threads <= 4096 /\ options' = clamped(options)
      BY <1>3 DEF Parsed, ThreadsSet
    <3> QED BY <1>0, <2>3, <3>1, ThreadsClamped
  <2>4. ThreadsSet'
    BY <1>3, <2>3 DEF Parsed, ThreadsSet
  <2>5. ZenonsConstructed'
    BY <1>3 DEF Parsed, ZenonsConstructed
  <2> QED BY <2>2, <2>4, <2>5
<1>4. CASE ConstructZenon
  <2>1. /\ stage = "server" /\ stage' = stage /\ constructible /\ options' = options
        /\ devices' = devices /\ arguments' = arguments /\ processes' = processes
        /\ files' = files
        /\ ccs_ids' = Append(ccs_ids, ccs_id(groups, options.multi_ccs, Len(ccs_ids)))
    BY <1>4 DEF ConstructZenon
  <2>2. /\ ccs_id(groups, options.multi_ccs, Len(ccs_ids)) \in Nat
        /\ ccs_id(groups, options.multi_ccs, Len(ccs_ids))
             < groups[computeQueueGroupOrdinal(groups) + 1].numQueues
    BY <1>0, <2>1, QueueNumber
  <2>3. TypeOK'
    BY <1>0, <2>1, <2>2 DEF TypeOK, OptionType
  <2>4. groups' = groups /\ constructible'
    BY <2>1 DEF groups, constructible
  <2>5. \A n \in DOMAIN ccs_ids' :
          ccs_ids'[n] < groups[computeQueueGroupOrdinal(groups) + 1].numQueues
    BY <1>0, <2>1, <2>2 DEF ZenonsConstructed
  <2>6. ZenonsConstructed'
    BY <2>1, <2>4, <2>5 DEF ZenonsConstructed
  <2>7. ThreadsSet'
    BY <2>1 DEF ThreadsSet
  <2> QED BY <2>3, <2>6, <2>7
<1>5. CASE ConstructionFails
  <2>1. TypeOK'
    BY <1>0, <1>5 DEF ConstructionFails, TypeOK, Stages, OptionType
  <2>2. OnlyFiles
    BY <1>5 DEF ConstructionFails, OnlyFiles
  <2> QED BY <2>1, <2>2, OnlyFilesKeep
<1>6. CASE ServerConstructed
  <2>1. TypeOK'
    BY <1>0, <1>6 DEF ServerConstructed, TypeOK, Stages, OptionType, zeros
  <2>2. OnlyFiles
    BY <1>6 DEF ServerConstructed, OnlyFiles
  <2> QED BY <2>1, <2>2, OnlyFilesKeep
<1>7. CASE ReadDist
  <2>1. dist' \in [1 .. options.queries -> Int]
    <3>1. CASE files[options.queries] = NoFile
      BY <1>7, <3>1 DEF ReadDist, read_dist, TypeOK
    <3>2. CASE files[options.queries] # NoFile
      BY <1>0, <1>7, <3>2, StoredTyped DEF ReadDist, read_dist
    <3> QED BY <3>1, <3>2
  <2>2. TypeOK'
    BY <1>0, <1>7, <2>1 DEF ReadDist, TypeOK, Stages, OptionType
  <2>3. OnlyFiles
    BY <1>7 DEF ReadDist, OnlyFiles
  <2> QED BY <2>2, <2>3, OnlyFilesKeep
<1>8. CASE DrawDist
  <2>1. dist' \in [1 .. options.queries -> Int]
    <3>1. dist' \in [1 .. options.queries -> Pauses]
      BY <1>8 DEF DrawDist, draw
    <3>2. Pauses \subseteq Int
      BY DistributionAssumption
    <3> QED BY <3>1, <3>2
  <2>2. TypeOK'
    BY <1>0, <1>8, <2>1 DEF DrawDist, TypeOK, Stages, OptionType
  <2>3. OnlyFiles
    BY <1>8 DEF DrawDist, OnlyFiles
  <2> QED BY <2>2, <2>3, OnlyFilesKeep
<1>9. CASE OpenFile
  <2>1. files' \in [Lengths -> Contents]
    BY <1>0, <1>9 DEF OpenFile, open_file, Contents
  <2>2. TypeOK'
    BY <1>0, <1>9, <2>1 DEF OpenFile, TypeOK, Stages, OptionType
  <2>3. OnlyFiles
    BY <1>9 DEF OpenFile, OnlyFiles
  <2> QED BY <2>2, <2>3, OnlyFilesKeep
<1>10. CASE WriteFile
  <2>1. dist \in [1 .. options.queries -> Int]
    BY <1>10 DEF WriteFile, TypeOK
  <2>2. dist \in Seq(Int \cup {Junk})
    BY <1>0, <2>1, PausesAreEntries
  <2>3. files' \in [Lengths -> Contents]
    BY <1>0, <1>10, <2>2 DEF WriteFile, write_file, Contents
  <2>4. TypeOK'
    BY <1>0, <1>10, <2>1, <2>3 DEF WriteFile, TypeOK, Stages, OptionType
  <2>5. OnlyFiles
    BY <1>10 DEF WriteFile, OnlyFiles
  <2> QED BY <2>4, <2>5, OnlyFilesKeep
<1>11. CASE RunAll
  <2>1. TypeOK'
    BY <1>0, <1>11 DEF RunAll, TypeOK, Stages, OptionType
  <2>2. OnlyFiles
    BY <1>11 DEF RunAll, OnlyFiles
  <2> QED BY <2>1, <2>2, OnlyFilesKeep
<1>12. CASE KilledWriting
  <2>1. dist \in [1 .. options.queries -> Int]
    BY <1>12 DEF KilledWriting, TypeOK
  <2>2. dist \in Seq(Int)
    BY <1>0, <2>1
  <2>3. PICK n \in 0 .. Len(dist) :
          \E f \in torn(n) : files' = [files EXCEPT ![options.queries] = f]
    BY <1>12 DEF KilledWriting
  <2>8. PICK f \in torn(n) : files' = [files EXCEPT ![options.queries] = f]
    BY <2>3
  <2>4. f \in Contents
    BY <2>2, <2>8, TornTyped
  <2>5. files' \in [Lengths -> Contents]
    BY <1>0, <2>8, <2>4
  <2>6. TypeOK'
    BY <1>0, <1>12, <2>5 DEF KilledWriting, TypeOK, Stages, OptionType
  <2>7. OnlyFiles
    BY <1>12 DEF KilledWriting, OnlyFiles
  <2> QED BY <2>6, <2>7, OnlyFilesKeep
<1>13. CASE NextProcess
  <2>1. TypeOK'
    BY <1>0, <1>13, DefaultTyped DEF NextProcess, TypeOK, Stages, OptionType
  <2>2. ThreadsSet'
    BY <1>13, OptionsAssumption DEF NextProcess, ThreadsSet, default_options
  <2>3. ZenonsConstructed'
    BY <1>13 DEF NextProcess, ZenonsConstructed
  <2> QED BY <2>1, <2>2, <2>3
<1>14. CASE UNCHANGED vars
  <2>1. groups' = groups
    BY <1>14 DEF vars, groups
  <2> QED BY <1>14, <2>1 DEF vars, TypeOK, ThreadsSet, ZenonsConstructed, constructible
<1>15. ASSUME NEW name \in Flags, Parse(name, 0) PROVE SetupInv'
  <2>1. name \notin DOMAIN Values
    BY StartupAssumption DEF Flags
  <2> QED BY <1>1, <1>15, <2>1
<1> QED
  BY <1>1, <1>2, <1>3, <1>4, <1>5, <1>6, <1>7, <1>8, <1>9, <1>10, <1>11, <1>12, <1>13,
     <1>14, <1>15 DEF Next

LEMMA SetupCorrect == Spec => []SetupInv
  BY SetupInit, SetupNext, PTL DEF Spec
-----------------------------------------------------------------------------
\* Every variable of the construction keeps its type, whatever files, arguments
\* and devices there are.
THEOREM TypeCorrect == Spec => []TypeOK
  BY SetupCorrect, PTL DEF SetupInv

\* Whatever arguments are given in whatever order, a run whose zenons could be
\* constructed has at least the two threads its kernels need, unless there is one
\* element, and not more than elements.
THEOREM ThreadsInRangeHolds == Spec => []ThreadsInRange
<1>1. SetupInv => ThreadsInRange
  <2>1. ASSUME SetupInv, stage = "run", ccs_ids # <<>>
        PROVE  /\ options.threads >= 1 /\ options.threads <= 4096
               /\ options.threads <= options.input_size
               /\ options.input_size >= 2 => options.threads >= 2
    <3>1. options.input_size > 0
      BY <2>1 DEF SetupInv, ZenonsConstructed, constructible
    <3> QED BY <2>1, <3>1 DEF SetupInv, ThreadsSet
  <2> QED BY <2>1 DEF ThreadsInRange
<1> QED BY <1>1, SetupCorrect, PTL

\* On every driver that reports a device, every zenon constructed has an existing
\* queue of a group that computes, and the copy queues one that only copies if
\* the device has one.
THEOREM QueuesExistHolds == Spec => []QueuesExist
<1>1. SetupInv => QueuesExist
  <2> SUFFICES ASSUME SetupInv, ccs_ids # <<>> PROVE
        LET compute == computeQueueGroupOrdinal(groups) + 1
            copy == copyOnlyQueueGroupOrdinal(groups) + 1
        IN  /\ compute \in DOMAIN groups /\ groups[compute].compute
            /\ \A n \in DOMAIN ccs_ids : ccs_ids[n] < groups[compute].numQueues
            /\ (\E i \in DOMAIN groups : copy_only(groups[i])) => copy_only(groups[copy])
            /\ (\E n \in DOMAIN devices : discrete(devices[n])) => discrete(chosen_device(devices))
    BY DEF QueuesExist
  <2>1. devices \in Platforms /\ constructible
    BY DEF SetupInv, TypeOK, ZenonsConstructed
  <2>2. groups \in Seq(QueueGroup)
    BY <2>1, DeviceChosen DEF groups
  <2>3. computeQueueGroupOrdinal(groups) < Len(groups)
    BY <2>1 DEF constructible
  <2>4. computeQueueGroupOrdinal(groups) + 1 \in DOMAIN groups
    BY <2>2, <2>3, OrdinalsFound
  <2>5. \A n \in DOMAIN ccs_ids :
          ccs_ids[n] < groups[computeQueueGroupOrdinal(groups) + 1].numQueues
    BY DEF SetupInv, ZenonsConstructed
  <2>6. groups[computeQueueGroupOrdinal(groups) + 1].compute
    BY <2>2, <2>3, OrdinalsFound
  <2>7. (\E i \in DOMAIN groups : copy_only(groups[i])) =>
          copy_only(groups[copyOnlyQueueGroupOrdinal(groups) + 1])
    BY <2>2, OrdinalsFound
  <2>8. (\E n \in DOMAIN devices : discrete(devices[n])) => discrete(chosen_device(devices))
    BY <2>1, DeviceChosen
  <2> QED BY <2>4, <2>5, <2>6, <2>7, <2>8
<1> QED BY <1>1, SetupCorrect, PTL
-----------------------------------------------------------------------------
(* Numbers in base b: the arithmetic behind the work items of the kernels. *)

LEMMA MulLe ==
  ASSUME NEW x \in Int, NEW y \in Int, NEW c \in Nat, x <= y
  PROVE  x * c <= y * c
  OBVIOUS

LEMMA DivMod ==
  ASSUME NEW a \in Nat, NEW b \in Nat \ {0}
  PROVE  /\ a \div b \in Nat /\ a % b \in 0 .. b - 1
         /\ a = (a \div b) * b + (a % b)
<1> DEFINE n == a \div b
<1>1. n \in Int
  OBVIOUS
<1>2. a % b \in 0 .. b - 1
  OBVIOUS
<1>3. a = n * b + (a % b)
  OBVIOUS
<1> HIDE DEF n
<1>4. ~(n <= -1)
  <2> SUFFICES ASSUME n <= -1 PROVE FALSE
    OBVIOUS
  <2>1. n * b <= (-1) * b
    BY <1>1, MulLe
  <2> QED BY <1>1, <1>2, <1>3, <2>1
<1>5. n \in Nat
  BY <1>1, <1>4
<1> QED BY <1>2, <1>3, <1>5 DEF n

\* A number has one last digit and one rest.
LEMMA DigitsUnique ==
  ASSUME NEW b \in Nat \ {0}, NEW i \in 0 .. b - 1, NEW j \in 0 .. b - 1,
         NEW m \in Int, NEW n \in Int, i + m * b = j + n * b
  PROVE  i = j /\ m = n
<1>1. m * b \in Int /\ n * b \in Int
  OBVIOUS
<1>2. ~(m + 1 <= n)
  <2> SUFFICES ASSUME m + 1 <= n PROVE FALSE
    OBVIOUS
  <2>1. (m + 1) * b <= n * b
    BY MulLe
  <2>2. (m + 1) * b = m * b + b
    OBVIOUS
  <2> QED BY <1>1, <2>1, <2>2
<1>3. ~(n + 1 <= m)
  <2> SUFFICES ASSUME n + 1 <= m PROVE FALSE
    OBVIOUS
  <2>1. (n + 1) * b <= m * b
    BY MulLe
  <2>2. (n + 1) * b = n * b + b
    OBVIOUS
  <2> QED BY <1>1, <2>1, <2>2
<1>4. m = n
  BY <1>2, <1>3
<1> QED BY <1>1, <1>4

LEMMA DigitsWithin ==
  ASSUME NEW n \in Nat, NEW b \in Nat \ {0}, NEW j \in 0 .. n - 1, NEW i \in 0 .. b - 1
  PROVE  i + j * b \in 0 .. n * b - 1
<1>1. j * b >= 0 /\ j * b \in Int /\ n * b \in Int
  OBVIOUS
<1>2. (j + 1) * b <= n * b
  BY MulLe
<1>3. (j + 1) * b = j * b + b
  OBVIOUS
<1> QED BY <1>1, <1>2, <1>3

LEMMA DigitsExist ==
  ASSUME NEW n \in Nat, NEW b \in Nat \ {0}, NEW x \in 0 .. n * b - 1
  PROVE  \E j \in 0 .. n - 1, i \in 0 .. b - 1 : x = i + j * b
<1>1. x \in Nat /\ n * b \in Int
  OBVIOUS
<1>2. x \div b \in Nat /\ x % b \in 0 .. b - 1 /\ x = (x \div b) * b + (x % b)
  BY <1>1, DivMod
<1>3. PICK j \in Nat, i \in 0 .. b - 1 : x = j * b + i
  BY <1>2
<1>4. ~(n <= j)
  <2> SUFFICES ASSUME n <= j PROVE FALSE
    OBVIOUS
  <2>1. n * b <= j * b /\ j * b \in Int
    BY MulLe
  <2> QED BY <1>1, <1>3, <2>1
<1>5. j \in 0 .. n - 1 /\ j * b \in Int
  BY <1>4
<1>6. x = i + j * b
  BY <1>3, <1>5
<1> QED BY <1>5, <1>6

\* The ids of the working items are the threads, all of them if they are even.
LEMMA IdsAreThreads ==
  ASSUME NEW t \in Nat
  PROVE  Ids(t) \subseteq 0 .. t - 1 /\ (t % 2 = 0 => Ids(t) = 0 .. t - 1)
<1>1. ASSUME NEW a \in Ids(t) PROVE a \in 0 .. t - 1
  <2>1. PICK g \in 0 .. (t \div 2) - 1, s \in {0, 1} : a = 2 * g + s
    BY <1>1 DEF Ids, group_count
  <2> QED BY <2>1
<1>2. ASSUME t % 2 = 0, NEW a \in 0 .. t - 1 PROVE a \in Ids(t)
  <2>1. a \div 2 \in 0 .. (t \div 2) - 1 /\ a % 2 \in {0, 1} /\ a = 2 * (a \div 2) + (a % 2)
    BY <1>2
  <2> QED BY <2>1 DEF Ids, group_count
<1> QED BY <1>1, <1>2

\* Work items a stride of t apart.
LEMMA StridedPartition ==
  ASSUME NEW t \in Nat \ {0}, NEW size \in Nat
  PROVE  /\ \A a, b \in 0 .. t - 1 :
              a < b => strided(a, t, size) \cap strided(b, t, size) = {}
         /\ \A a \in 0 .. t - 1 : strided(a, t, size) \subseteq 0 .. size - 1
         /\ size % t = 0 =>
              \A x \in 0 .. size - 1 : \E a \in 0 .. t - 1 : x \in strided(a, t, size)
<1> DEFINE n == size \div t
<1>0. n \in Nat /\ size % t \in 0 .. t - 1 /\ size = n * t + (size % t)
  BY DivMod
<1>2. \A a : strided(a, t, size) = {a + j * t : j \in 0 .. n - 1}
  BY DEF strided
<1> HIDE DEF n
<1>1. n \in Nat /\ size % t \in 0 .. t - 1 /\ size = n * t + (size % t) /\ n * t \in Int
  BY <1>0
<1>3. ASSUME NEW a \in 0 .. t - 1, NEW b \in 0 .. t - 1, a < b,
             NEW x \in strided(a, t, size), x \in strided(b, t, size)
      PROVE  FALSE
  <2>1. PICK j \in 0 .. n - 1 : x = a + j * t
    BY <1>2
  <2>2. PICK k \in 0 .. n - 1 : x = b + k * t
    BY <1>2, <1>3
  <2> QED BY <1>3, <2>1, <2>2, DigitsUnique
<1>4. ASSUME NEW a \in 0 .. t - 1, NEW x \in strided(a, t, size) PROVE x \in 0 .. size - 1
  <2>1. PICK j \in 0 .. n - 1 : x = a + j * t
    BY <1>2
  <2>2. x \in 0 .. n * t - 1
    BY <1>1, <2>1, DigitsWithin
  <2> QED BY <1>1, <2>2
<1>5. ASSUME size % t = 0, NEW x \in 0 .. size - 1
      PROVE  \E a \in 0 .. t - 1 : x \in strided(a, t, size)
  <2>1. x \in 0 .. n * t - 1
    BY <1>1, <1>5
  <2>2. PICK j \in 0 .. n - 1, a \in 0 .. t - 1 : x = a + j * t
    BY <1>1, <2>1, DigitsExist
  <2> QED BY <1>2, <2>2
<1> QED BY <1>3, <1>4, <1>5

\* Work items with a block each.
LEMMA BlockedPartition ==
  ASSUME NEW t \in Nat \ {0}, NEW size \in Nat, NEW counter \in Nat
  PROVE  /\ \A a, b \in 0 .. t - 1 :
              a < b => blocked(a, t, size, counter) \cap blocked(b, t, size, counter) = {}
         /\ \A a \in 0 .. t - 1 : blocked(a, t, size, counter) \subseteq 0 .. size * counter - 1
         /\ size % t = 0 =>
              \A x \in 0 .. size * counter - 1 :
                \E a \in 0 .. t - 1 : x \in blocked(a, t, size, counter)
<1> DEFINE total == size * counter
           n == total \div t
<1>0. total \in Nat
  OBVIOUS
<1>1. /\ n \in Nat /\ total % t \in 0 .. t - 1 /\ total = n * t + (total % t)
      /\ n * t \in Int /\ n * t = t * n
  <2> HIDE DEF total
  <2>1. n \in Nat /\ total % t \in 0 .. t - 1 /\ total = n * t + (total % t)
    BY <1>0, DivMod
  <2> HIDE DEF n
  <2> QED BY <2>1
<1>2. \A a : blocked(a, t, size, counter) = {i + a * n : i \in 0 .. n - 1}
  BY DEF blocked
<1>6. size % t = 0 => total = t * n
  <2> SUFFICES ASSUME size % t = 0 PROVE total = t * n
    OBVIOUS
  <2>1. PICK k \in Nat : size = k * t
    <3>1. size \div t \in Nat /\ size = (size \div t) * t + (size % t)
      BY DivMod
    <3>2. PICK k \in Nat : size = k * t + (size % t)
      BY <3>1
    <3>3. k * t \in Int
      OBVIOUS
    <3> QED BY <3>2, <3>3
  <2>2. total = 0 + (k * counter) * t /\ k * counter \in Nat
    BY <2>1
  <2>3. total = (total % t) + n * t
    BY <1>0, <1>1
  <2>4. total % t = 0
    <3>1. total % t \in 0 .. t - 1 /\ n \in Int /\ k * counter \in Int /\ 0 \in 0 .. t - 1
      BY <1>1, <2>2
    <3>2. 0 + (k * counter) * t = (total % t) + n * t
      BY <2>2, <2>3
    <3>3. PICK r \in 0 .. t - 1, m \in Int, p \in Int :
            r = total % t /\ 0 + m * t = r + p * t
      <4> HIDE DEF total, n
      <4> QED BY <3>1, <3>2
    <3> HIDE DEF total, n
    <3> QED BY <3>1, <3>3, DigitsUnique
  <2> QED BY <1>1, <2>4
<1> HIDE DEF n
<1>3. ASSUME NEW a \in 0 .. t - 1, NEW b \in 0 .. t - 1, a < b,
             NEW x \in blocked(a, t, size, counter), x \in blocked(b, t, size, counter)
      PROVE  FALSE
  <2>1. PICK i \in 0 .. n - 1 : x = i + a * n
    BY <1>2
  <2>2. PICK k \in 0 .. n - 1 : x = k + b * n
    BY <1>2, <1>3
  <2>3. n \in Nat \ {0}
    BY <1>1, <2>1
  <2> QED BY <1>3, <2>1, <2>2, <2>3, DigitsUnique
<1>4. ASSUME NEW a \in 0 .. t - 1, NEW x \in blocked(a, t, size, counter)
      PROVE  x \in 0 .. size * counter - 1
  <2>1. PICK i \in 0 .. n - 1 : x = i + a * n
    BY <1>2
  <2>2. n \in Nat \ {0}
    BY <1>1, <2>1
  <2>3. x \in 0 .. t * n - 1
    BY <2>1, <2>2, DigitsWithin
  <2> HIDE DEF total
  <2>4. x \in 0 .. total - 1
    BY <1>0, <1>1, <2>3
  <2> QED BY <2>4 DEF total
<1>5. ASSUME size % t = 0, NEW x \in 0 .. size * counter - 1
      PROVE  \E a \in 0 .. t - 1 : x \in blocked(a, t, size, counter)
  <2>1. x \in 0 .. t * n - 1
    BY <1>5, <1>6
  <2>2. n \in Nat \ {0}
    BY <1>1, <2>1
  <2>3. PICK a \in 0 .. t - 1, i \in 0 .. n - 1 : x = i + a * n
    BY <2>1, <2>2, DigitsExist
  <2> QED BY <1>2, <2>3
<1> QED BY <1>3, <1>4, <1>5

\* In a run whose zenons could be constructed no two work items of a partitioning
\* kernel write the same element, none of them writes behind its buffer, and they
\* leave nothing out where the threads are even and divide the size; copy_buffer
\* stays inside its buffer exactly where that has sixteen elements a thread.
THEOREM KernelsPartitionHolds == Spec => []KernelsPartition
<1>1. SetupInv => KernelsPartition
  <2> SUFFICES ASSUME SetupInv, stage = "run", ccs_ids # <<>> PROVE KernelsPartition
    BY DEF KernelsPartition
  <2>1. options \in OptionType
    BY DEF SetupInv, TypeOK, OptionType
  <2>2. options.input_size > 0 /\ options.mem > 0
    BY DEF SetupInv, ZenonsConstructed, constructible
  <2>3. PICK t, size, mem : t = options.threads /\ size = options.input_size /\ mem = options.mem
    OBVIOUS
  <2>4. t \in Nat \ {0} /\ size \in Nat /\ mem \in Nat
    BY <2>1, <2>2, <2>3 DEF SetupInv, ThreadsSet, OptionType
  <2>5. Ids(t) \subseteq 0 .. t - 1 /\ (t % 2 = 0 => Ids(t) = 0 .. t - 1)
    BY <2>4, IdsAreThreads
  <2>6. ASSUME NEW a \in Ids(t), NEW b \in Ids(t), a < b
        PROVE  /\ strided(a, t, size) \cap strided(b, t, size) = {}
               /\ blocked(a, t, size, mem) \cap blocked(b, t, size, mem) = {}
    BY <2>4, <2>5, <2>6, StridedPartition, BlockedPartition
  <2>7. /\ UNION {strided(a, t, size) : a \in Ids(t)} \subseteq 0 .. size - 1
        /\ UNION {blocked(a, t, size, mem) : a \in Ids(t)} \subseteq 0 .. size * mem - 1
    <3>1. \A a \in Ids(t) : strided(a, t, size) \subseteq 0 .. size - 1
      BY <2>4, <2>5, StridedPartition
    <3>2. \A a \in Ids(t) : blocked(a, t, size, mem) \subseteq 0 .. size * mem - 1
      BY <2>4, <2>5, BlockedPartition
    <3> QED BY <3>1, <3>2
  <2>8. ASSUME t % 2 = 0, size % t = 0
        PROVE  /\ UNION {strided(a, t, size) : a \in Ids(t)} = 0 .. size - 1
               /\ UNION {blocked(a, t, size, mem) : a \in Ids(t)} = 0 .. size * mem - 1
    <3>1. \A x \in 0 .. size - 1 : \E a \in Ids(t) : x \in strided(a, t, size)
      BY <2>4, <2>5, <2>8, StridedPartition
    <3>2. \A x \in 0 .. size * mem - 1 : \E a \in Ids(t) : x \in blocked(a, t, size, mem)
      BY ZenonT(30), <2>4, <2>5, <2>8, BlockedPartition
    <3> QED BY <2>7, <3>1, <3>2
  <2>9. ASSUME t % 2 = 0
        PROVE  /\ direct(t) \subseteq 0 .. size - 1 <=> 16 * t <= size
               /\ 0 .. size - 1 \subseteq direct(t) <=> size <= 16 * t
    <3>1. direct(t) = 0 .. 16 * t - 1
      BY <2>4, <2>9 DEF direct, group_count
    <3>2. 16 * t - 1 \in direct(t) /\ size - 1 \in 0 .. size - 1
      BY <2>2, <2>3, <2>4, <3>1
    <3> QED BY <2>4, <3>1, <3>2
  <2> QED BY <2>3, <2>6, <2>7, <2>8, <2>9 DEF KernelsPartition
<1> QED BY <1>1, SetupCorrect, PTL
=============================================================================
