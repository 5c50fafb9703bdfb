----------------------------- MODULE KernelGraph -----------------------------
(***************************************************************************)
(* The two kernel graphs zenon::create_cmd_list appends to a zenon's       *)
(* command list, and one execution of the list.  The list is not in order: *)
(* a command runs once the events it was appended with are signalled.  A   *)
(* kernel is numbered by its event kernel_ts_event[k]; the two extra       *)
(* commands of the resnet graph without the blitter are -2 and -1.         *)
(***************************************************************************)
EXTENDS Integers, Sequences, FiniteSets, LaunchOrder

CONSTANT number_of_kernels   \* 40 in the code

ASSUME KernelGraphAssumption == number_of_kernels \in Nat \ {0}

VARIABLES
  resnet,            \* --resnet
  disable_blitter,   \* --disable_blitter
  ran,               \* commands finished
  version,           \* the command that wrote a buffer last
  seen               \* the versions a finished command read

options == <<resnet, disable_blitter>>
vars == <<options, ran, version, seen>>

Last == IF resnet THEN 53 ELSE number_of_kernels + 2
Kernels == 0 .. Last
Commands == Kernels \cup (IF resnet /\ disable_blitter THEN {-2, -1} ELSE {})

\* The event a command signals: the extra commands use those of kernels 0 and 1.
Event(c) == IF c < 0 THEN c + 2 ELSE c

Inputs == {"input", "mem_input"}
Intermediate == {"im_buf1", "im_buf2", "im_buf3", "im_buf4", "im_buf5", "im_buf6"}
Buffers == Inputs \cup Intermediate
           \cup {"mem_output_buffer", "mem_output_buffer2", "output_buffer"}
-----------------------------------------------------------------------------
(* The events each call of submit_kernel_to_cmd_list lists.                *)

\* Mutant: a plain kernel lists one event only.
one_listed(k) == IF k < 3 THEN <<>> ELSE <<k - 2>>

\* Mutant: a plain kernel lists its own event.
self_listed(k) == IF k < 3 THEN <<>> ELSE <<k - 1, k>>

plain_listed(k) == IF k < 3 THEN <<>> ELSE <<k - 2, k - 1>>

resnet_listed(k) ==
  CASE k <= 0 -> <<>>
    [] k \in {3, 13, 26, 45} -> <<k - 2>>
    [] k \in {6, 16, 29, 48} -> <<k - 4, k - 1>>
    [] OTHER -> <<k - 1>>

listed(c) == IF resnet THEN resnet_listed(c) ELSE plain_listed(c)

\* zeCommandListAppendLaunchKernel gets input_events.at(0) as the address of the
\* first event handle and the count: it waits on the first event listed and on
\* those that follow it in kernel_ts_event, whatever else is listed.
\* Mutants: only the first, or only the last event listed is waited on.
first_waited(c) == IF listed(c) = <<>> THEN {} ELSE {listed(c)[1]}
last_waited(c) == IF listed(c) = <<>> THEN {} ELSE {listed(c)[Len(listed(c))]}

waited(c) == IF listed(c) = <<>> THEN {}
             ELSE listed(c)[1] .. listed(c)[1] + Len(listed(c)) - 1
-----------------------------------------------------------------------------
(* The buffer each command writes, and the buffers it reads.               *)

third(n) == IF n % 3 = 0 THEN "im_buf1" ELSE IF n % 3 = 1 THEN "im_buf2" ELSE "im_buf3"

plain_written(k) == IF k = Last THEN "output_buffer" ELSE third(k)

resnet_written(c) ==
  CASE c \in {0, 2, 8, 11, 12, 13, 16, 18, 21, 24, 25, 26} -> "mem_output_buffer"
    [] c \in {1, 3, 5, 6, 9, 15, 19, 22, 28} -> "mem_output_buffer2"
    [] c \in {-2, 30, 36, 42, 48} -> "im_buf1"
    [] c \in {-1, 7, 31, 37, 43, 49} -> "im_buf2"
    [] c \in {14, 20, 32, 38, 44, 50} -> "im_buf3"
    [] c \in {27, 33, 34, 39, 40, 45, 46, 51, 52} -> "im_buf4"
    [] c \in {4, 10} -> "im_buf5"
    [] c \in {17, 23, 29, 35, 41, 47} -> "im_buf6"
    [] c = 53 -> "output_buffer"

written(c) == IF resnet THEN resnet_written(c) ELSE plain_written(c)

read(c) ==
  CASE resnet /\ written(c) \in {"mem_output_buffer", "mem_output_buffer2"} -> {"mem_input"}
    [] ~resnet /\ c = Last -> {"im_buf3"}
    [] ~resnet /\ c \in 3 .. Last - 1 -> {third(c - 1), third(c - 2)}
    [] OTHER -> {"input"}

\* The buffer the output copy list of each graph copies to the host once kernel
\* Last is done.
resnet_copied == "im_buf4"

\* Mutant: the plain graph's output copy takes the first intermediate buffer.
copied_first == "im_buf1"

plain_copied == "im_buf2"

copied == IF resnet THEN resnet_copied ELSE plain_copied
-----------------------------------------------------------------------------
\* Version of a buffer before any command wrote it.
Untouched == -3

Init ==
  /\ resnet \in BOOLEAN
  /\ disable_blitter \in BOOLEAN
  /\ ran = {}
  /\ version = [b \in Buffers |-> Untouched]
  /\ seen = [c \in Commands |-> {}]

Signalled == {Event(c) : c \in ran}

Launch(c) ==
  /\ c \notin ran
  /\ waited(c) \subseteq Signalled
  /\ ran' = ran \cup {c}
  /\ version' = [version EXCEPT ![written(c)] = c]
  /\ seen' = [seen EXCEPT ![c] = {version[b] : b \in read(c)}]
  /\ UNCHANGED options

Retired == ran = Commands /\ UNCHANGED vars

Next == (\E c \in Commands : Launch(c)) \/ Retired

Spec == Init /\ [][Next]_vars
-----------------------------------------------------------------------------
(* Properties.                                                             *)

TypeOK ==
  /\ resnet \in BOOLEAN
  /\ disable_blitter \in BOOLEAN
  /\ ran \in SUBSET Commands
  /\ version \in [Buffers -> Commands \cup {Untouched}]
  /\ seen \in [Commands -> SUBSET (Commands \cup {Untouched})]

\* Two events per launch are enough to put the plain graph in order: when a
\* kernel has run, so has every earlier one but kernel 0, whose event nobody
\* waits on.
PlainInOrder == ~resnet => \A k \in ran : k >= 3 => 1 .. k - 1 \subseteq ran

\* When the final event lets the output copy go, no command still to run writes
\* the buffer it copies: none of the plain graph, and of the resnet graph none
\* but kernels 27 and 46, whose joins do not wait for them.
CopySourceSettled ==
  Last \in ran =>
    \A c \in Commands \ ran : written(c) = copied => resnet /\ c \in {27, 46}

\* A plain kernel computes with the results of the two kernels before it, or
\* with that of a kernel 0 that came late and overwrote im_buf1.
PlainOperands ==
  ~resnet => \A k \in ran \cap 3 .. Last - 1 :
               0 \notin seen[k] => seen[k] = {k - 2, k - 1}

\* In the resnet graph only the tails of the four branches, whose joins wait on
\* the wrong events, can be unfinished when the final event is set; without the
\* blitter also kernels 0 and 1, whose events the extra commands set.
Tails == {4, 5, 14, 15, 27, 28, 46, 47}
Late == IF disable_blitter THEN Tails \cup {0, 1} ELSE Tails
ResnetSpine == resnet /\ Last \in ran => Kernels \ ran \subseteq Late

\* Until the whole list has run, a command can start: every event somebody waits
\* on has a command that signals it, and the waits go round in no circle.
SomethingCanLaunch ==
  ran # Commands => \E c \in Commands \ ran : waited(c) \subseteq Signalled

\* What module Zenon assumes of a graph whose final event is Last and whose
\* events are signalled by the kernels alone.
WaitsOf == [k \in Kernels |-> waited(k)]
GraphFitsZenon ==
  /\ WaitsOf \in [Kernels -> SUBSET Kernels]
  /\ Last \in Kernels
  /\ IsFiniteSet(Kernels)
  /\ Launchable(Kernels, WaitsOf)

\* A kernel starts only after every kernel whose event its append lists.
ListedFirst ==
  [][\A c \in ran' \ ran : \A n \in 1 .. Len(listed(c)) : listed(c)[n] \in Signalled]_vars

=============================================================================
