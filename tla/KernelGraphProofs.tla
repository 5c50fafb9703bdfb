-------------------------- MODULE KernelGraphProofs --------------------------
(***************************************************************************)
(* Theorems of KernelGraph.  Of the plain graph, for any number of         *)
(* kernels: two wait events per launch put all kernels but the first in    *)
(* order, and so give each the results of the two before it.  Of the       *)
(* resnet graph: which kernels may be late.  Of both: that the device can  *)
(* always carry them to their end, which module Zenon assumes of a graph.  *)
(***************************************************************************)
EXTENDS KernelGraph, WellFoundedInduction, FiniteSetTheorems, TLAPS

\* The plain graph: kernels only, each signalling its own event.
LEMMA PlainFacts ==
  ASSUME ~resnet
  PROVE  /\ Last \in Nat /\ Last >= 3
         /\ Commands = 0 .. Last
         /\ \A c \in Commands : Event(c) = c
  BY KernelGraphAssumption DEF Last, Commands, Kernels, Event

\* Whether kernel c may be launched.
LEMMA PlainWaits ==
  ASSUME ~resnet, NEW c \in Commands, ran \subseteq Commands, waited(c) \subseteq Signalled,
         c >= 3
  PROVE  {c - 2, c - 1} \subseteq ran
<1>1. listed(c) = <<c - 2, c - 1>>
  BY PlainFacts DEF listed, plain_listed
<1>2. waited(c) = c - 2 .. c - 1
  BY <1>1, PlainFacts DEF waited
<1>3. Signalled = ran
  BY PlainFacts DEF Signalled
<1> QED BY <1>2, <1>3, PlainFacts

OrderInv == TypeOK /\ PlainInOrder

LEMMA OrderInit == Init => OrderInv
<1> SUFFICES ASSUME Init PROVE OrderInv
  OBVIOUS
<1>1. TypeOK
  BY DEF Init, TypeOK
<1> QED BY <1>1 DEF Init, OrderInv, PlainInOrder

\* The buffer a command writes.
LEMMA WrittenType ==
  ASSUME resnet \in BOOLEAN, disable_blitter \in BOOLEAN, NEW c \in Commands
  PROVE  written(c) \in Buffers
<1>1. CASE resnet
  <2>1. c \in -2 .. 53
    BY <1>1 DEF Commands, Kernels, Last
  <2> QED BY <1>1, <2>1 DEF written, resnet_written, Buffers, Inputs, Intermediate
<1>2. CASE ~resnet
  BY <1>2 DEF written, plain_written, third, Buffers, Intermediate
<1> QED BY <1>1, <1>2

\* The buffers a command reads.
LEMMA ReadType ==
  ASSUME NEW c \in Commands
  PROVE  read(c) \subseteq Buffers
  BY DEF read, third, Buffers, Inputs, Intermediate

LEMMA LaunchType ==
  ASSUME TypeOK, NEW c \in Commands, Launch(c)
  PROVE  TypeOK' /\ Commands' = Commands
<1>1. Commands' = Commands
  BY DEF Launch, options, Commands, Kernels, Last
<1>2. ran' \in SUBSET Commands
  BY DEF Launch, TypeOK
<1>3. version' \in [Buffers -> Commands \cup {Untouched}]
  BY WrittenType DEF Launch, TypeOK
<1>4. seen' \in [Commands -> SUBSET (Commands \cup {Untouched})]
  <2>1. {version[b] : b \in read(c)} \subseteq Commands \cup {Untouched}
    BY ReadType DEF TypeOK
  <2> QED BY <2>1 DEF Launch, TypeOK
<1> QED BY <1>1, <1>2, <1>3, <1>4 DEF TypeOK, Launch, options

LEMMA OrderNext == OrderInv /\ [Next]_vars => OrderInv'
<1> SUFFICES ASSUME OrderInv, [Next]_vars PROVE OrderInv'
  OBVIOUS
<1>1. ASSUME NEW c \in Commands, Launch(c) PROVE OrderInv'
  <2>1. TypeOK'
    BY <1>1, LaunchType DEF OrderInv
  <2>2. ASSUME ~resnet PROVE PlainInOrder'
    <3>1. /\ ran \subseteq Commands /\ ran' = ran \cup {c}
          /\ waited(c) \subseteq Signalled
      BY <1>1 DEF OrderInv, TypeOK, Launch
    <3>2. \A k \in ran : k >= 3 => 1 .. k - 1 \subseteq ran
      BY <2>2 DEF OrderInv, PlainInOrder
    <3>3. c >= 3 => 1 .. c - 1 \subseteq ran
      <4> SUFFICES ASSUME c >= 3 PROVE 1 .. c - 1 \subseteq ran
        OBVIOUS
      <4>1. c - 2 \in ran /\ c - 1 \in ran /\ c \in Int
        BY <2>2, <3>1, PlainWaits, PlainFacts
      <4>2. c - 1 >= 3 => 1 .. c - 2 \subseteq ran
        BY <3>2, <4>1
      <4> QED BY <4>1, <4>2
    <3> QED BY <3>1, <3>2, <3>3 DEF PlainInOrder
  <2>3. resnet' = resnet
    BY <1>1 DEF Launch, options
  <2> QED BY <2>1, <2>2, <2>3 DEF OrderInv, PlainInOrder
<1>2. CASE UNCHANGED vars
  BY <1>2 DEF OrderInv, TypeOK, PlainInOrder, vars, options, Commands, Kernels, Last
<1> QED BY <1>1, <1>2 DEF Next, Retired

\* What has run, the versions of the buffers and what was read keep their types.
THEOREM TypeCorrect == Spec => []TypeOK
<1>1. OrderInv => TypeOK
  BY DEF OrderInv
<1> QED BY <1>1, OrderInit, OrderNext, PTL DEF Spec

\* When a plain kernel has run, so have all earlier ones but kernel 0, however
\* many kernels there are.
THEOREM PlainInOrderHolds == Spec => []PlainInOrder
<1>1. OrderInv => PlainInOrder
  BY DEF OrderInv
<1> QED BY <1>1, OrderInit, OrderNext, PTL DEF Spec

-----------------------------------------------------------------------------
(* Operands.                                                               *)

\* Of the plain kernels that have run, the latest to write a third of the
\* intermediate buffers is the one whose result is in it, unless kernel 0 came
\* after it.
LatestInv ==
  ~resnet =>
    \A j \in ran :
      1 <= j /\ j < Last =>
        LET v == version[third(j)]
        IN  v = 0 \/ (v \in ran /\ v >= j /\ v < Last /\ third(v) = third(j))

OperandInv == OrderInv /\ LatestInv /\ PlainOperands

LEMMA OperandInit == Init => OperandInv
<1> SUFFICES ASSUME Init PROVE OperandInv
  OBVIOUS
<1>1. LatestInv /\ PlainOperands
  BY DEF Init, LatestInv, PlainOperands
<1> QED BY <1>1, OrderInit DEF OperandInv

LEMMA ThirdBuffer == ASSUME NEW n \in Int PROVE third(n) \in Buffers \ {"output_buffer"}
  BY DEF third, Buffers, Intermediate, Inputs

\* Neighbours write different thirds.
LEMMA ThirdDiffers ==
  ASSUME NEW n \in Int
  PROVE  third(n) # third(n - 1)
  BY DEF third

LEMMA LaunchLatest ==
  ASSUME OperandInv, ~resnet, NEW c \in Commands, Launch(c)
  PROVE  LatestInv'
<1>0. /\ ran \subseteq Commands /\ ran' = ran \cup {c} /\ c \notin ran
      /\ version \in [Buffers -> Commands \cup {Untouched}]
      /\ version' = [version EXCEPT ![written(c)] = c]
      /\ resnet' = resnet /\ Last' = Last
      /\ \A k \in ran : k >= 3 => 1 .. k - 1 \subseteq ran
  BY DEF OperandInv, OrderInv, TypeOK, Launch, options, PlainInOrder, Last
<1>1. /\ Commands = 0 .. Last /\ Last \in Nat
      /\ written(c) = IF c = Last THEN "output_buffer" ELSE third(c)
  BY PlainFacts DEF written, plain_written
<1> SUFFICES ASSUME NEW j \in ran', 1 <= j, j < Last
             PROVE  \/ version'[third(j)] = 0
                    \/ /\ version'[third(j)] \in ran' /\ version'[third(j)] >= j
                       /\ version'[third(j)] < Last
                       /\ third(version'[third(j)]) = third(j)
  BY <1>0 DEF LatestInv
<1>2. third(j) \in Buffers \ {"output_buffer"} /\ j \in Int
  BY <1>0, <1>1, ThirdBuffer
<1>3. CASE written(c) = third(j)
  <2>1. version'[third(j)] = c /\ c < Last /\ third(c) = third(j)
    BY <1>0, <1>1, <1>2, <1>3
  <2>2. CASE c >= j
    BY <1>0, <2>1, <2>2
  <2>3. CASE c < j /\ c # 0
    <3>1. j \in ran /\ c \in 1 .. j - 1
      BY <1>0, <1>1, <2>3
    <3>2. j < 3
      BY <1>0, <3>1
    <3>3. c = 1 /\ j = 2
      BY <1>2, <3>1, <3>2
    <3> QED BY <2>1, <3>3 DEF third
  <2> QED BY <1>1, <1>2, <2>1, <2>2, <2>3
<1>4. CASE written(c) # third(j)
  <2>1. version'[third(j)] = version[third(j)]
    BY <1>0, <1>2, <1>4
  <2>2. j \in ran
    BY <1>0, <1>1, <1>4
  <2> QED BY <1>0, <2>1, <2>2 DEF OperandInv, LatestInv
<1> QED BY <1>3, <1>4

\* A kernel finds the results of its two predecessors, or that of kernel 0.
LEMMA LaunchOperands ==
  ASSUME OperandInv, ~resnet, NEW c \in Commands, Launch(c)
  PROVE  PlainOperands'
<1>0. /\ ran \subseteq Commands /\ ran' = ran \cup {c} /\ c \notin ran
      /\ seen \in [Commands -> SUBSET (Commands \cup {Untouched})]
      /\ seen' = [seen EXCEPT ![c] = {version[b] : b \in read(c)}]
      /\ waited(c) \subseteq Signalled
      /\ resnet' = resnet /\ Last' = Last
      /\ \A k \in ran : k >= 3 => 1 .. k - 1 \subseteq ran
  BY DEF OperandInv, OrderInv, TypeOK, Launch, options, PlainInOrder, Last
<1>1. Commands = 0 .. Last /\ Last \in Nat
  BY PlainFacts
<1>2. ASSUME c \in 3 .. Last - 1, 0 \notin seen'[c]
      PROVE  seen'[c] = {c - 2, c - 1}
  <2>1. c - 2 \in ran /\ c - 1 \in ran
    BY <1>0, <1>2, PlainWaits
  <2>2. seen'[c] = {version[third(c - 1)], version[third(c - 2)]}
    <3>1. read(c) = {third(c - 1), third(c - 2)}
      BY <1>2 DEF read, written, plain_written
    <3>2. seen'[c] = {version[b] : b \in {third(c - 1), third(c - 2)}}
      BY <1>0, <3>1
    <3> QED BY <3>2
  <2>3. ASSUME NEW v \in ran, v >= c - 2 PROVE v \in {c - 2, c - 1}
    <3>1. v # c /\ (v > c => c \in ran)
      BY <1>0, <1>1, <1>2, <2>3
    <3> QED BY <1>0, <1>1, <2>3, <3>1
  <2>4. c \in Int /\ c \in Nat /\ 3 <= c /\ c < Last
    BY <1>1, <1>2
  <2>5. version[third(c - 1)] # 0 /\ version[third(c - 2)] # 0
    BY <1>2, <2>2
  <2>6. ASSUME NEW j \in ran, 1 <= j, j < Last, version[third(j)] # 0
        PROVE  /\ version[third(j)] \in ran /\ version[third(j)] >= j
               /\ third(version[third(j)]) = third(j)
    BY <2>6 DEF OperandInv, LatestInv
  <2>7. version[third(c - 1)] = c - 1
    <3>0. c - 1 \in ran /\ 1 <= c - 1 /\ c - 1 < Last
      BY <1>1, <2>1, <2>4
    <3>1. version[third(c - 1)] \in ran /\ version[third(c - 1)] >= c - 1
      BY <2>5, <2>6, <3>0
    <3>2. version[third(c - 1)] \in Int
      <4>1. \A k \in ran : k \in Int
        BY <1>0, <1>1
      <4> QED BY <3>1, <4>1
    <3>3. version[third(c - 1)] >= c - 2
      BY <2>4, <3>1, <3>2
    <3>4. version[third(c - 1)] \in {c - 2, c - 1}
      BY <2>3, <3>1, <3>3
    <3> QED BY <2>4, <3>1, <3>4
  <2>8. version[third(c - 2)] = c - 2
    <3>0. c - 2 \in ran /\ 1 <= c - 2 /\ c - 2 < Last
      BY <1>1, <2>1, <2>4
    <3>1. /\ version[third(c - 2)] \in ran /\ version[third(c - 2)] >= c - 2
          /\ third(version[third(c - 2)]) = third(c - 2)
      BY <2>5, <2>6, <3>0
    <3>2. c - 1 \in Int /\ c - 1 - 1 = c - 2
      BY <2>4
    <3>3. third(c - 1) # third(c - 2)
      BY <3>2, ThirdDiffers
    <3> QED BY <2>3, <3>1, <3>3
  <2> QED BY <2>2, <2>7, <2>8
<1>3. \A k \in Commands : k # c => seen'[k] = seen[k]
  BY <1>0
<1> QED BY <1>0, <1>1, <1>2, <1>3 DEF OperandInv, PlainOperands

LEMMA OperandNext == OperandInv /\ [Next]_vars => OperandInv'
<1> SUFFICES ASSUME OperandInv, [Next]_vars PROVE OperandInv'
  OBVIOUS
<1>1. OrderInv'
  BY OrderNext DEF OperandInv
<1>2. ASSUME NEW c \in Commands, Launch(c) PROVE LatestInv' /\ PlainOperands'
  <2>1. CASE resnet
    <3>1. resnet' = resnet
      BY <1>2 DEF Launch, options
    <3> QED BY <2>1, <3>1 DEF LatestInv, PlainOperands
  <2>2. CASE ~resnet
    BY <1>2, <2>2, LaunchLatest, LaunchOperands
  <2> QED BY <2>1, <2>2
<1>3. ASSUME UNCHANGED vars PROVE LatestInv' /\ PlainOperands'
  <2>1. /\ ran' = ran /\ version' = version /\ seen' = seen /\ resnet' = resnet
        /\ Last' = Last
    BY <1>3 DEF vars, options, Last
  <2>2. LatestInv'
    BY <2>1 DEF OperandInv, LatestInv
  <2>3. PlainOperands'
    BY <2>1 DEF OperandInv, PlainOperands
  <2> QED BY <2>2, <2>3
<1> QED BY <1>1, <1>2, <1>3 DEF Next, Retired, OperandInv

\* Every plain kernel computes with the results of the two kernels before it, or
\* with that of a kernel 0 that came late.
THEOREM PlainOperandsHolds == Spec => []PlainOperands
<1>1. OperandInv => PlainOperands
  BY DEF OperandInv
<1> QED BY <1>1, OperandInit, OperandNext, PTL DEF Spec
-----------------------------------------------------------------------------
(* The resnet graph.                                                       *)

\* Whatever has run had its events signalled, and they stay so.
Waited == \A c \in ran : waited(c) \subseteq Signalled

SpineInv == TypeOK /\ Waited

LEMMA SpineInit == Init => SpineInv
  BY OrderInit DEF OrderInv, SpineInv, Waited, Init

LEMMA SpineNext == SpineInv /\ [Next]_vars => SpineInv'
<1> SUFFICES ASSUME SpineInv, [Next]_vars PROVE SpineInv'
  OBVIOUS
<1>1. ASSUME NEW c \in Commands, Launch(c) PROVE SpineInv'
  <2>1. TypeOK'
    BY <1>1, LaunchType DEF SpineInv
  <2>2. \A d : waited(d)' = waited(d)
    BY <1>1 DEF Launch, options, waited, listed
  <2>3. Signalled \subseteq Signalled'
    BY <1>1 DEF Launch, Signalled
  <2>4. \A d \in ran' : waited(d) \subseteq Signalled
    BY <1>1 DEF Launch, SpineInv, Waited
  <2> QED BY <2>1, <2>2, <2>3, <2>4 DEF SpineInv, Waited
<1>2. CASE UNCHANGED vars
  BY <1>2 DEF SpineInv, TypeOK, Waited, Signalled, waited, listed, vars, options, Commands,
     Kernels, Last
<1> QED BY <1>1, <1>2 DEF Next, Retired

\* What a resnet kernel that has run had waited for; the first events may have
\* been signalled by the extra commands.
LEMMA ResnetWaits ==
  ASSUME SpineInv, resnet, NEW c \in 1 .. 53, c \in ran
  PROVE  /\ c \in {3, 13, 26, 45} => c - 2 \in Signalled
         /\ c \in {6, 16, 29, 48} => c - 4 \in Signalled /\ c - 3 \in Signalled
         /\ c \notin {3, 13, 26, 45, 6, 16, 29, 48} => c - 1 \in Signalled
<1>1. waited(c) \subseteq Signalled
  BY DEF SpineInv, Waited
<1>2. listed(c) = resnet_listed(c)
  BY DEF listed
<1>3. CASE c \in {3, 13, 26, 45}
  <2>1. listed(c) = <<c - 2>>
    BY <1>2, <1>3 DEF resnet_listed
  <2>2. c - 2 \in waited(c)
    BY <2>1 DEF waited
  <2> QED BY <1>1, <1>3, <2>2
<1>4. CASE c \in {6, 16, 29, 48}
  <2>1. listed(c) = <<c - 4, c - 1>>
    BY <1>2, <1>4 DEF resnet_listed
  <2>2. c - 4 \in waited(c) /\ c - 3 \in waited(c)
    BY <2>1 DEF waited
  <2> QED BY <1>1, <1>4, <2>2
<1>5. CASE c \notin {3, 13, 26, 45, 6, 16, 29, 48}
  <2>1. listed(c) = <<c - 1>>
    <3>1. ~(c <= 0)
      OBVIOUS
    <3> QED BY <1>2, <1>5, <3>1 DEF resnet_listed
  <2>2. c - 1 \in waited(c)
    BY <2>1 DEF waited
  <2> QED BY <1>1, <1>5, <2>2
<1> QED BY <1>3, <1>4, <1>5

LEMMA ResnetSignals ==
  ASSUME SpineInv, resnet, NEW k \in 0 .. 53, k \in Signalled, k >= 2 \/ ~disable_blitter
  PROVE  k \in ran
<1>1. PICK c \in ran : k = Event(c)
  BY DEF Signalled
<1>2. c \in Commands
  BY <1>1 DEF SpineInv, TypeOK
<1>3. c < 0 => disable_blitter /\ c + 2 \in {0, 1}
  BY <1>2 DEF Commands, Kernels, Last
<1>4. c \in Int
  BY <1>2 DEF Commands, Kernels, Last
<1> QED BY <1>1, <1>3, <1>4 DEF Event

\* The joins keep every kernel but those of Late on the way to the final event.
LEMMA SpineRan == SpineInv => ResnetSpine
<1>1. SpineInv => ResnetSpine
  <2> SUFFICES ASSUME SpineInv, resnet, Last \in ran PROVE Kernels \ ran \subseteq Late
    BY DEF ResnetSpine
  <2>1. 53 \in ran /\ Kernels = 0 .. 53
    BY DEF Last, Kernels
  <2>2. \A c \in 1 .. 53 : c \in ran =>
          /\ c \in {3, 13, 26, 45} => c - 2 \in Signalled
          /\ c \in {6, 16, 29, 48} => c - 4 \in Signalled /\ c - 3 \in Signalled
          /\ c \notin {3, 13, 26, 45, 6, 16, 29, 48} => c - 1 \in Signalled
    BY ResnetWaits
  <2>3. \A k \in 0 .. 53 : k \in Signalled /\ (k >= 2 \/ ~disable_blitter) => k \in ran
    BY ResnetSignals
  <2>4. \A c \in Int : c >= 3 /\ c <= 53 /\ c \in ran =>
          (c \notin {3, 13, 26, 45, 6, 16, 29, 48} => c - 1 \in ran)
    BY <2>2, <2>3
  <2>5. /\ \A c \in {13, 26, 45} : c \in ran => c - 2 \in ran
        /\ \A c \in {6, 16, 29, 48} : c \in ran => c - 4 \in ran /\ c - 3 \in ran
    BY <2>2, <2>3
  <2>6. 52 \in ran /\ 51 \in ran /\ 50 \in ran /\ 49 \in ran /\ 48 \in ran
    BY <2>1, <2>4
  <2>7. 45 \in ran /\ 44 \in ran
    BY <2>5, <2>6
  <2>8. 43 \in ran /\ 42 \in ran /\ 41 \in ran
    BY <2>4, <2>7
  <2>9. 40 \in ran /\ 39 \in ran /\ 38 \in ran /\ 37 \in ran
    BY <2>4, <2>8
  <2>10. 36 \in ran /\ 35 \in ran /\ 34 \in ran /\ 33 \in ran
    BY <2>4, <2>9
  <2>11. 32 \in ran /\ 31 \in ran /\ 30 \in ran /\ 29 \in ran
    BY <2>4, <2>10
  <2>12. 26 \in ran /\ 25 \in ran
    BY <2>5, <2>11
  <2>13. 24 \in ran /\ 23 \in ran /\ 22 \in ran /\ 21 \in ran
    BY <2>4, <2>12
  <2>14. 20 \in ran /\ 19 \in ran /\ 18 \in ran /\ 17 \in ran /\ 16 \in ran
    BY <2>4, <2>13
  <2>15. 13 \in ran /\ 12 \in ran
    BY <2>5, <2>14
  <2>16. 11 \in ran /\ 10 \in ran /\ 9 \in ran
    BY <2>4, <2>15
  <2>17. 8 \in ran /\ 7 \in ran /\ 6 \in ran
    BY <2>4, <2>16
  <2>18. 3 \in ran /\ 2 \in ran
    BY <2>5, <2>17
  <2>19. ~disable_blitter => 1 \in ran /\ 0 \in ran
    BY <2>2, <2>3, <2>18
  <2>20. \A k \in 2 .. 53 : k \notin Tails => k \in ran
    BY <2>1, <2>6, <2>7, <2>8, <2>9, <2>10, <2>11, <2>12,
       <2>13, <2>14, <2>15, <2>16, <2>17, <2>18 DEF Tails
  <2> QED BY <2>1, <2>19, <2>20 DEF Late
<1> QED BY <1>1

\* When the final event of the resnet graph is set, only the tails of its four
\* branches can be unfinished, and without the blitter kernels 0 and 1.
THEOREM ResnetSpineHolds == Spec => []ResnetSpine
  BY SpineRan, SpineInit, SpineNext, PTL DEF Spec

\* When the final event lets the output copy go, the buffer it reads is settled in
\* the plain graph, however many kernels it has; in the resnet graph only kernels
\* 27 and 46 may still write it.
THEOREM CopySourceSettledHolds == Spec => []CopySourceSettled
<1>1. OrderInv /\ SpineInv => CopySourceSettled
  <2> SUFFICES ASSUME OrderInv, SpineInv, Last \in ran, NEW c \in Commands \ ran,
                      written(c) = copied
               PROVE  resnet /\ c \in {27, 46}
    BY DEF CopySourceSettled
  <2>1. CASE ~resnet
    <3>1. 1 .. Last - 1 \subseteq ran
      BY <2>1, PlainFacts DEF OrderInv, PlainInOrder
    <3>2. c = 0
      BY <2>1, <3>1, PlainFacts
    <3>3. written(c) = "im_buf1"
      BY <2>1, <3>2, PlainFacts DEF written, plain_written, third
    <3> QED BY <2>1, <3>3 DEF copied, plain_copied
  <2>2. CASE resnet
    <3>1. c \in {-2, -1} \/ c \in Late
      BY <2>2, SpineRan DEF ResnetSpine, Commands
    <3>2. c \in {-2, -1, 0, 1, 4, 5, 14, 15, 27, 28, 46, 47}
      BY <3>1 DEF Late, Tails
    <3>3. resnet_written(c) = "im_buf4"
      BY <2>2 DEF written, copied, resnet_copied
    <3> QED BY <2>2, <3>2, <3>3 DEF resnet_written
  <2> QED BY <2>1, <2>2
<1> QED BY <1>1, OrderInit, OrderNext, SpineInit, SpineNext, PTL DEF Spec
-----------------------------------------------------------------------------
(* Both graphs can be carried to their end.                                *)

\* A set of natural numbers that is not empty has a smallest one.
LEMMA SmallestExists ==
  ASSUME NEW S \in SUBSET Nat, S # {}
  PROVE  \E x \in S : \A y \in S : x <= y
<1>1. PICK x \in S : \A y \in S : ~ (<<y, x>> \in OpToRel(<, Nat))
  BY NatLessThanWellFounded, WFMin, S \subseteq Nat
<1>2. \A y \in S : ~ (y < x)
  BY <1>1 DEF OpToRel
<1> QED BY <1>2

LEMMA KernelNumbers ==
  ASSUME resnet \in BOOLEAN
  PROVE  Last \in Nat /\ Kernels = 0 .. Last /\ (resnet => Last = 53)
  BY KernelGraphAssumption DEF Last, Kernels

\* A kernel waits on events of earlier kernels only, whatever its append lists.
LEMMA WaitsAreEarlier ==
  ASSUME resnet \in BOOLEAN, NEW k \in Kernels
  PROVE  waited(k) \subseteq 0 .. k - 1
<1>0. k \in 0 .. Last /\ Last \in Nat /\ (resnet => k \in 0 .. 53)
  BY KernelNumbers
<1>1. CASE ~resnet
  <2>1. listed(k) = IF k < 3 THEN <<>> ELSE <<k - 2, k - 1>>
    BY <1>1 DEF listed, plain_listed
  <2> QED BY <1>0, <2>1 DEF waited
<1>2. CASE resnet
  <2>0. k \in 0 .. 53 /\ listed(k) = resnet_listed(k)
    BY <1>0, <1>2 DEF listed
  <2>1. CASE k = 0
    BY <2>0, <2>1 DEF waited, resnet_listed
  <2>2. CASE k \in {3, 13, 26, 45}
    <3>1. listed(k) = <<k - 2>>
      BY <2>0, <2>2 DEF resnet_listed
    <3> QED BY <2>2, <3>1 DEF waited
  <2>3. CASE k \in {6, 16, 29, 48}
    <3>1. listed(k) = <<k - 4, k - 1>>
      BY <2>0, <2>3 DEF resnet_listed
    <3> QED BY <2>3, <3>1 DEF waited
  <2>4. CASE k # 0 /\ k \notin {3, 13, 26, 45} /\ k \notin {6, 16, 29, 48}
    <3>1. ~(k <= 0)
      BY <2>0, <2>4
    <3>2. listed(k) = <<k - 1>>
      BY <2>0, <2>4, <3>1 DEF resnet_listed
    <3> QED BY <2>0, <3>1, <3>2 DEF waited
  <2> QED BY <2>1, <2>2, <2>3, <2>4
<1> QED BY <1>1, <1>2

\* Of the kernels left, the first waits on none of the others.
LEMMA FirstIsFree ==
  ASSUME resnet \in BOOLEAN, NEW S \in SUBSET Kernels, S # {}
  PROVE  \E k \in S : waited(k) \subseteq Kernels \ S
<1>1. Kernels = 0 .. Last /\ Last \in Nat
  BY KernelNumbers
<1>2. PICK k \in S : \A j \in S : k <= j
  <2>1. S \in SUBSET Nat
    BY <1>1
  <2> QED BY <2>1, SmallestExists
<1>3. waited(k) \subseteq 0 .. k - 1
  BY WaitsAreEarlier
<1>4. 0 .. k - 1 \subseteq Kernels \ S
  BY <1>1, <1>2
<1> QED BY <1>3, <1>4

\* The device never gets stuck in a command list of either graph: until all its
\* commands have run, one of them can start.
THEOREM SomethingCanLaunchHolds == Spec => []SomethingCanLaunch
<1>1. OrderInv => SomethingCanLaunch
  <2> SUFFICES ASSUME TypeOK, ran # Commands
               PROVE  \E c \in Commands \ ran : waited(c) \subseteq Signalled
    BY DEF OrderInv, SomethingCanLaunch
  <2>0. /\ resnet \in BOOLEAN /\ ran \subseteq Commands /\ Kernels = 0 .. Last
        /\ Last \in Nat
    BY KernelNumbers DEF TypeOK
  <2>1. CASE Kernels \subseteq ran
    <3>1. PICK c \in Commands \ ran : TRUE
      BY <2>0
    <3>2. c \in {-2, -1} /\ resnet
      BY <2>1, <3>1 DEF Commands
    <3>3. listed(c) = <<>>
      BY <3>2 DEF listed, resnet_listed
    <3> QED BY <3>1, <3>3 DEF waited
  <2>2. CASE ~(Kernels \subseteq ran)
    <3>1. PICK k \in Kernels \ ran : waited(k) \subseteq Kernels \ (Kernels \ ran)
      <4>1. Kernels \ ran \in SUBSET Kernels /\ Kernels \ ran # {}
        BY <2>2
      <4> QED BY <2>0, <4>1, FirstIsFree
    <3>2. \A j \in Kernels \cap ran : j \in Signalled
      BY <2>0 DEF Signalled, Event
    <3> QED BY <3>1, <3>2 DEF Commands
  <2> QED BY <2>1, <2>2
<1> QED BY <1>1, OrderInit, OrderNext, PTL DEF Spec

\* Either graph, for any number of kernels, is one of those that the theorems
\* about whole runs assume: finite, every event waited on a kernel's, and no
\* kernels left that wait for each other.  Of the resnet graph without the blitter
\* this is about the kernels with events of their own.
THEOREM GraphsFitZenon == Spec => []GraphFitsZenon
<1>1. OrderInv => GraphFitsZenon
  <2> SUFFICES ASSUME resnet \in BOOLEAN PROVE GraphFitsZenon
    BY DEF OrderInv, TypeOK
  <2>0. Kernels = 0 .. Last /\ Last \in Nat
    BY KernelNumbers
  <2>1. \A k \in Kernels : waited(k) \in SUBSET Kernels
    <3> SUFFICES ASSUME NEW k \in Kernels PROVE waited(k) \subseteq Kernels
      OBVIOUS
    <3>1. waited(k) \subseteq 0 .. k - 1
      BY WaitsAreEarlier
    <3>2. 0 .. k - 1 \subseteq Kernels
      BY <2>0
    <3> QED BY <3>1, <3>2
  <2>2. WaitsOf \in [Kernels -> SUBSET Kernels]
    BY <2>1 DEF WaitsOf
  <2>3. Last \in Kernels
    BY <2>0
  <2>4. IsFiniteSet(Kernels)
    BY <2>0, FS_Interval
  <2>5. Launchable(Kernels, WaitsOf)
    <3> SUFFICES ASSUME NEW S \in SUBSET Kernels, S # {}
                 PROVE  \E k \in S : WaitsOf[k] \cap S = {}
      BY DEF Launchable
    <3>1. PICK k \in S : waited(k) \subseteq Kernels \ S
      BY FirstIsFree
    <3>2. WaitsOf[k] = waited(k)
      BY <3>1 DEF WaitsOf
    <3> QED BY <3>1, <3>2
  <2> QED BY <2>2, <2>3, <2>4, <2>5 DEF GraphFitsZenon
<1> QED BY <1>1, OrderInit, OrderNext, PTL DEF Spec
=============================================================================
