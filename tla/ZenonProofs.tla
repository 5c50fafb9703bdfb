------------------------------ MODULE ZenonProofs ----------------------------
(***************************************************************************)
(* The steps of a zenon and its device keep the types of the zenons'       *)
(* state, whoever takes them: the lemmas both clients' proofs rest on.     *)
(***************************************************************************)
EXTENDS Zenon, FiniteSetTheorems, TLAPS

\* An id converted to uint8_t is a byte.
LEMMA ByteType == ASSUME NEW id \in Int PROVE Byte(id) \in Bytes
  BY DEF Byte, Bytes

\* Nothing changes, so no type does.
LEMMA ZenonStutterType == ASSUME ZenonTypeOK, UNCHANGED zenonVars PROVE ZenonTypeOK'
  BY DEF ZenonTypeOK, zenonVars

\* std::fill stores bytes.
LEMMA FillType ==
  ASSUME ZenonTypeOK, NEW z \in Zenons, NEW id \in Int, fill_inputs(z, id)
  PROVE  ZenonTypeOK'
<1>1. Byte(id) \in Bytes
  BY ByteType
<1>2. input' \in [Zenons -> Bytes]
  BY <1>1 DEF ZenonTypeOK, fill_inputs
<1> QED BY <1>2 DEF ZenonTypeOK, fill_inputs, deviceVars

\* Submitting a copy list.
LEMMA ExecuteCopyType ==
  ASSUME ZenonTypeOK, NEW z \in Zenons, NEW which \in {"input", "output"},
         execute_copy(z, which)
  PROVE  ZenonTypeOK'
  BY DEF ZenonTypeOK, execute_copy, hostVars

\* Submitting the kernels.
LEMMA ExecuteComputeType ==
  ASSUME ZenonTypeOK, NEW z \in Zenons, execute_compute(z)
  PROVE  ZenonTypeOK'
  BY DEF ZenonTypeOK, execute_compute, hostVars

\* Reading the timestamps.
LEMMA ReadTimestampsType ==
  ASSUME ZenonTypeOK, NEW z \in Zenons, read_timestamps(z)
  PROVE  ZenonTypeOK'
  BY DEF ZenonTypeOK, read_timestamps, deviceVars

\* Resetting the events.
LEMMA ResetType ==
  ASSUME ZenonTypeOK, NEW z \in Zenons, reset_events(z)
  PROVE  ZenonTypeOK'
  BY DEF ZenonTypeOK, reset_events, hostVars

\* The output shown is a byte or uninitialised memory.
LEMMA ShownType ==
  ASSUME ZenonTypeOK, NEW z \in Zenons
  PROVE  shown_output(z) \in Bytes \cup {None}
  BY DEF ZenonTypeOK, shown_output

\* Every step of the device.
LEMMA DeviceType ==
  ASSUME ZenonTypeOK, NEW z \in Zenons, Device(z)
  PROVE  ZenonTypeOK'
<1>1. CASE DeviceInputCopy(z)
  BY <1>1 DEF ZenonTypeOK, DeviceInputCopy, hostVars
<1>2. CASE \E k \in Kernels : DeviceKernel(z, k)
  <2> PICK k \in Kernels : DeviceKernel(z, k)
    BY <1>2
  <2>1. dev_result' \in [Zenons -> Bytes \cup {None}]
    BY DEF ZenonTypeOK, DeviceKernel
  <2> QED BY <2>1 DEF ZenonTypeOK, DeviceKernel, hostVars
<1>3. CASE DeviceRetire(z)
  <2>1. pending' \in [Zenons -> Nat]
    BY <1>3 DEF ZenonTypeOK, DeviceRetire
  <2> QED BY <1>3, <2>1 DEF ZenonTypeOK, DeviceRetire, hostVars
<1>4. CASE DeviceOutputCopy(z)
  BY <1>4 DEF ZenonTypeOK, DeviceOutputCopy
<1> QED BY <1>1, <1>2, <1>3, <1>4 DEF Device
-----------------------------------------------------------------------------
(* The device gets on with what it is given, and gets to the end of it.    *)

\* The device always has a kernel to launch until all have run.
LEMMA KernelReady ==
  ASSUME NEW z \in Zenons, ran[z] \subseteq events[z], ran[z] \subseteq Kernels,
         ran[z] # Kernels
  PROVE  \E k \in Kernels \ ran[z] : Waits[k] \subseteq events[z]
<1>1. Kernels \ ran[z] \in SUBSET Kernels /\ Kernels \ ran[z] # {}
  OBVIOUS
<1>2. PICK k \in Kernels \ ran[z] : Waits[k] \cap (Kernels \ ran[z]) = {}
  BY <1>1, LaunchAssumption DEF Launchable
<1>3. Waits[k] \subseteq Kernels
  BY ZenonAssumption
<1> QED BY <1>2, <1>3

\* Kernels submitted to a zenon are launched or retired.
LEMMA ComputeReady ==
  ASSUME ZenonTypeOK, NEW z \in Zenons, ran[z] \subseteq events[z], pending[z] # 0
  PROVE  DeviceReady(z)
<1>1. pending[z] > 0 /\ ran[z] \subseteq Kernels
  BY DEF ZenonTypeOK
<1> QED BY <1>1, KernelReady DEF DeviceReady

\* The number of kernels that have run.
LEMMA RanCard ==
  ASSUME NEW R, R \subseteq Kernels
  PROVE  /\ Cardinality(Kernels) \in Nat
         /\ Cardinality(R) \in 0 .. Cardinality(Kernels)
         /\ \A k \in Kernels \ R : Cardinality(R \cup {k}) = Cardinality(R) + 1
<1>1. IsFiniteSet(Kernels) /\ IsFiniteSet(R)
  BY LaunchAssumption, FS_Subset
<1>2. Cardinality(Kernels) \in Nat /\ Cardinality(R) \in Nat
  BY <1>1, FS_CardinalityType
<1>3. Cardinality(R) <= Cardinality(Kernels)
  BY <1>1, FS_Subset
<1>4. \A k \in Kernels \ R : Cardinality(R \cup {k}) = Cardinality(R) + 1
  BY <1>1, FS_AddElement
<1> QED BY <1>2, <1>3, <1>4

\* The number of copies in flight.
LEMMA CopyCard ==
  ASSUME NEW C, C \subseteq {"input", "output"}
  PROVE  /\ Cardinality(C) \in Nat
         /\ \A w \in C : Cardinality(C \ {w}) = Cardinality(C) - 1
<1>1. IsFiniteSet({"input", "output"})
  <2>1. IsFiniteSet({} \cup {"input"})
    BY FS_EmptySet, FS_AddElement
  <2>2. IsFiniteSet(({} \cup {"input"}) \cup {"output"})
    BY <2>1, FS_AddElement
  <2>3. ({} \cup {"input"}) \cup {"output"} = {"input", "output"}
    OBVIOUS
  <2> QED BY <2>2, <2>3
<1>2. IsFiniteSet(C)
  BY <1>1, FS_Subset
<1>3. Cardinality(C) \in Nat
  BY <1>2, FS_CardinalityType
<1>4. \A w \in C : Cardinality(C \ {w}) = Cardinality(C) - 1
  BY <1>2, FS_RemoveElement
<1> QED BY <1>3, <1>4

\* Multiplication, for provers that only add.
LEMMA OneLess ==
  ASSUME NEW p \in Nat, NEW m \in Nat
  PROVE  /\ p * m \in Nat
         /\ p > 0 => p * m >= m /\ (p - 1) * m = p * m - m
  OBVIOUS

\* Work is a number as long as kernels run only in an execution.
LEMMA WorkType ==
  ASSUME NEW C, C \subseteq {"input", "output"}, NEW p \in Nat,
         NEW R, R \subseteq Kernels, p = 0 => R = {}
  PROVE  Cardinality(C) + p * (Cardinality(Kernels) + 1) - Cardinality(R) \in Nat
<1> DEFINE m == Cardinality(Kernels) + 1
<1>1. Cardinality(C) \in Nat
  BY CopyCard
<1>2. m \in Nat /\ Cardinality(R) \in 0 .. m - 1
  BY RanCard
<1>3. p * m \in Nat /\ (p > 0 => p * m >= m)
  BY <1>2, OneLess
<1>4. p = 0 => Cardinality(R) = 0
  BY FS_EmptySet
<1> HIDE DEF m
<1>5. Cardinality(C) + p * m - Cardinality(R) \in Nat
  BY <1>1, <1>2, <1>3, <1>4
<1> QED BY <1>5 DEF m

\* Every step of the device lowers the work left on its zenon and no other's.
LEMMA DeviceWorks ==
  ASSUME ZenonTypeOK, NEW z \in Zenons, Device(z), pending[z] = 0 => ran[z] = {}
  PROVE  WorkDone
<1> DEFINE c == Cardinality(copying[z])
           m == Cardinality(Kernels) + 1
           r == Cardinality(ran[z])
<1>1. \A y \in Zenons \ {z} : /\ copying'[y] = copying[y] /\ pending'[y] = pending[y]
                              /\ ran'[y] = ran[y]
  BY DEF Device, DeviceInputCopy, DeviceKernel, DeviceRetire, DeviceOutputCopy, ZenonTypeOK
<1>2. \A y \in Zenons \ {z} : Work(y)' = Work(y)
  BY <1>1 DEF Work
<1>3. /\ copying[z] \subseteq {"input", "output"} /\ pending[z] \in Nat
      /\ ran[z] \subseteq Kernels
  BY DEF ZenonTypeOK
<1>4. Work(z) \in Nat
  BY <1>3, WorkType DEF Work
<1>5. c \in Nat /\ \A w \in copying[z] : Cardinality(copying[z] \ {w}) = c - 1
  BY <1>3, CopyCard
<1>6. /\ m \in Nat /\ r \in Nat
      /\ \A k \in Kernels \ ran[z] : Cardinality(ran[z] \cup {k}) = r + 1
  BY <1>3, RanCard
<1>7. pending[z] * m \in Nat
  BY <1>3, <1>6, OneLess
<1>8. Work(z) = c + pending[z] * m - r
  BY DEF Work
<1>9. /\ copying'[z] \subseteq {"input", "output"} /\ pending'[z] \in Nat
      /\ ran'[z] \subseteq Kernels
      /\ pending'[z] = 0 => ran'[z] = {}
      /\ Work(z)' = Work(z) - 1
  <2>1. ASSUME NEW w \in copying[z], copying' = [copying EXCEPT ![z] = @ \ {w}],
               UNCHANGED <<pending, ran>>
        PROVE  /\ copying'[z] \subseteq {"input", "output"}
               /\ pending' = pending /\ ran' = ran
               /\ Work(z)' = Work(z) - 1
    <3>1. Cardinality(copying'[z]) = c - 1 /\ copying'[z] \subseteq copying[z]
      BY <1>5, <2>1 DEF ZenonTypeOK
    <3>2. Work(z)' = (c - 1) + pending[z] * m - r
      BY <2>1, <3>1 DEF Work
    <3> HIDE DEF c, m, r
    <3>3. Work(z)' = Work(z) - 1
      BY <1>5, <1>6, <1>7, <1>8, <3>2
    <3> QED BY <1>3, <2>1, <3>1, <3>3
  <2>2. CASE DeviceInputCopy(z)
    BY <1>3, <2>1, <2>2 DEF DeviceInputCopy
  <2>3. CASE \E k \in Kernels : DeviceKernel(z, k)
    <3> PICK k \in Kernels : DeviceKernel(z, k)
      BY <2>3
    <3>1. /\ k \notin ran[z] /\ ran'[z] = ran[z] \cup {k}
          /\ copying' = copying /\ pending' = pending /\ pending[z] # 0
      BY <1>3 DEF DeviceKernel, ZenonTypeOK
    <3>2. Work(z)' = c + pending[z] * m - (r + 1)
      BY <1>6, <3>1 DEF Work
    <3> HIDE DEF c, m, r
    <3>3. Work(z)' = Work(z) - 1
      BY <1>5, <1>6, <1>7, <1>8, <3>2
    <3> QED BY <1>3, <3>1, <3>3
  <2>4. CASE DeviceRetire(z)
    <3>1. /\ ran[z] = Kernels /\ ran'[z] = {} /\ copying' = copying
          /\ pending'[z] = pending[z] - 1 /\ pending[z] > 0
      BY <2>4 DEF DeviceRetire, ZenonTypeOK
    <3>2. Work(z)' = c + (pending[z] - 1) * m - 0
      BY <3>1, FS_EmptySet DEF Work
    <3>3. (pending[z] - 1) * m = pending[z] * m - m
      BY <1>3, <1>6, <3>1, OneLess
    <3>4. r = m - 1
      BY <1>6, <3>1
    <3> HIDE DEF c, m, r
    <3>5. Work(z)' = Work(z) - 1
      BY <1>5, <1>6, <1>7, <1>8, <3>2, <3>3, <3>4
    <3> QED BY <1>3, <3>1, <3>5
  <2>5. CASE DeviceOutputCopy(z)
    BY <1>3, <2>1, <2>5 DEF DeviceOutputCopy
  <2> QED BY <2>2, <2>3, <2>4, <2>5 DEF Device
<1>10. Work(z)' \in Nat
  BY <1>9, WorkType DEF Work
<1>11. Work(z)' \in 0 .. Work(z) - 1
  BY <1>4, <1>9, <1>10
<1> QED BY <1>2, <1>11 DEF WorkDone
=============================================================================
