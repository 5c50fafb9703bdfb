----------------------------- MODULE SingleThread ----------------------------
(***************************************************************************)
(* The client with --single_thread: client::run_all submits one query to   *)
(* every zenon, then polls the zenons in turn, takes the result of the one *)
(* whose final event is set and submits the next query on it.  zenon::run  *)
(* returns without waiting here, so the host runs beside every device.     *)
(*                                                                         *)
(* main is where the only thread is.  The steps of server::query_sample    *)
(* and zenon::run (pop ... compute) are shared by three callers, the steps *)
(* of zenon::get_result by two; caller tells which.                        *)
(***************************************************************************)
EXTENDS Server

CONSTANTS
  NumQueries,      \* --q
  WarmUps,         \* values of warm_up considered
  Profiling        \* --profiling

ASSUME SingleThreadAssumption ==
  /\ NumQueries \in Nat \ {0}
  /\ WarmUps \subseteq BOOLEAN
  /\ Profiling \in BOOLEAN
  /\ PoolSize > 0      \* with no zenon the loop has nothing to poll
  /\ Timed # {}

Queries == 0 .. NumQueries - 1

Callers == {"warmup", "init", "poll", "print"}
SampleSteps == {"pop", "fill", "input_copy", "input_sync", "compute"}
ResultSteps == {"result_sync", "output_copy", "output_sync", "show"}
Ended == {"done", "terminated", "undefined"}
Steps == {"init", "poll", "set_timestamps", "requery", "next", "print"}
         \cup SampleSteps \cup ResultSteps \cup Ended

VARIABLES
  warm_up,         \* FALSE with --disable_wu
  main,
  caller,          \* which loop called query_sample, run_single or get_result
  zenek,           \* the zenon the call is about
  q,               \* next query to submit
  cntr,            \* slot being polled; in print_profiling its index i
  finish_count,
  zenonki,         \* the zenon of each slot, None while the pointer is null
  waited,          \* indices of dist added to cumulative_dist so far
  results,         \* indices of results that have been written
  asked,           \* history: the query each zenon was last given
  answers          \* history: <<query, output it ended with>> in order

loopVars == <<q, cntr, finish_count, zenonki, waited, results>>
clientVars == <<main, caller, zenek, loopVars, asked, answers>>
vars == <<serverVars, clientVars, warm_up>>

Init ==
  /\ ServerInit
  /\ warm_up \in WarmUps
  /\ main = IF warm_up THEN "pop" ELSE "init"
  /\ caller = IF warm_up THEN "warmup" ELSE "init"
  /\ zenek = None
  /\ q = 0
  /\ cntr = 0
  /\ finish_count = 0
  /\ zenonki = [s \in Queries |-> None]
  /\ waited = {}
  /\ results = {}
  /\ asked = [z \in Zenons |-> None]
  /\ answers = <<>>

At(step) == main = step
GoTo(step) == main' = step
Calls(step, c) == main' = step /\ caller' = c
-----------------------------------------------------------------------------
(* server::query_sample(q) and the zenon::run it calls.  The warm-up takes *)
(* the same steps with id 0.                                               *)

SampleId == IF caller = "warmup" THEN 0 ELSE q

Pop ==
  /\ At("pop")
  /\ \E z \in Zenons : get_zenon_atomic(z) /\ zenek' = z
  /\ GoTo("fill")
  /\ UNCHANGED <<caller, loopVars, asked, answers>>

Fill ==
  /\ At("fill")
  /\ fill_inputs(zenek, SampleId)
  /\ asked' = [asked EXCEPT ![zenek] = SampleId]
  /\ GoTo(IF DisableBlitter THEN "compute" ELSE "input_copy")
  /\ UNCHANGED <<zenek_pool_boost, caller, zenek, loopVars, answers>>

InputCopy ==
  /\ At("input_copy")
  /\ execute_copy(zenek, "input")
  /\ GoTo("input_sync")
  /\ UNCHANGED <<zenek_pool_boost, caller, zenek, loopVars, asked, answers>>

InputSync ==
  /\ At("input_sync")
  /\ copy_idle(zenek, "input")
  /\ GoTo("compute")
  /\ UNCHANGED <<serverVars, caller, zenek, loopVars, asked, answers>>

\* The warm-up's query_sample_multiple_threads returns the zenon at once and
\* run_single records query 0.
ComputeWarmUp ==
  /\ At("compute") /\ caller = "warmup"
  /\ execute_compute(zenek)
  /\ zenek_pool_boost' = Append(zenek_pool_boost, zenek)
  /\ results' = results \cup {0}
  /\ Calls("init", "init")
  /\ UNCHANGED <<zenek, q, cntr, finish_count, zenonki, waited, asked, answers>>

\* zenonki[q] = query_sample(q): with more zenons than queries the store is
\* outside the vector.
ComputeInit ==
  /\ At("compute") /\ caller = "init"
  /\ execute_compute(zenek)
  /\ IF q < NumQueries
     THEN /\ zenonki' = [zenonki EXCEPT ![q] = zenek]
          /\ GoTo("init")
     ELSE /\ GoTo("undefined")
          /\ UNCHANGED zenonki
  /\ waited' = IF q + 1 < NumQueries THEN waited \cup {q} ELSE waited
  /\ q' = q + 1
  /\ UNCHANGED <<zenek_pool_boost, caller, zenek, cntr, finish_count, results,
                 asked, answers>>

\* Mutant: the wait is left out when a slot is used again.
NoWaitAfterNext ==
  /\ At("compute") /\ caller = "poll"
  /\ execute_compute(zenek)
  /\ zenonki' = [zenonki EXCEPT ![cntr] = zenek]
  /\ q' = q + 1
  /\ GoTo("next")
  /\ UNCHANGED <<zenek_pool_boost, caller, zenek, cntr, finish_count, waited,
                 results, asked, answers>>

\* zenonki[cntr] = query_sample(q++), then the wait for dist[q].
ComputeNext ==
  /\ At("compute") /\ caller = "poll"
  /\ execute_compute(zenek)
  /\ zenonki' = [zenonki EXCEPT ![cntr] = zenek]
  /\ q' = q + 1
  /\ waited' = IF q + 1 < NumQueries THEN waited \cup {q + 1} ELSE waited
  /\ GoTo("next")
  /\ UNCHANGED <<zenek_pool_boost, caller, zenek, cntr, finish_count, results,
                 asked, answers>>

QuerySample == \/ Pop \/ Fill \/ InputCopy \/ InputSync
               \/ ComputeWarmUp \/ ComputeInit \/ ComputeNext
-----------------------------------------------------------------------------
(* client::run_all, the branch of single_thread.                           *)

InitLoop ==
  /\ At("init")
  /\ IF q < PoolSize THEN GoTo("pop") /\ UNCHANGED caller ELSE Calls("poll", "poll")
  /\ UNCHANGED <<serverVars, zenek, loopVars, asked, answers>>

\* is_finished(cntr, zenonki[cntr]) looks at global_kernel_ts_event[cntr], the
\* final event of the zenon constructed with number cntr.
is_finished(c) == Final \in events[c]

PollFinished ==
  /\ At("poll")
  /\ is_finished(cntr)
  /\ results' = results \cup {cntr}
  /\ zenek' = zenonki[cntr]
  /\ GoTo("set_timestamps")
  /\ UNCHANGED <<serverVars, caller, q, cntr, finish_count, zenonki, waited, asked,
                 answers>>

PollPending ==
  /\ At("poll")
  /\ ~is_finished(cntr)
  /\ GoTo("next")
  /\ UNCHANGED <<serverVars, caller, zenek, loopVars, asked, answers>>

\* A timestamp that is not ready, and kernel_names.at(i) while kernel_names is
\* empty because profiling is off, both end the process.
SetTimestamps ==
  /\ At("set_timestamps")
  /\ IF timestamps_ready(zenek) /\ Profiling
     THEN read_timestamps(zenek) /\ GoTo("result_sync")
     ELSE GoTo("terminated") /\ UNCHANGED zenonVars
  /\ UNCHANGED <<zenek_pool_boost, caller, zenek, loopVars, asked, answers>>

\* Mutant: the answer is not counted.
CountForgotten ==
  /\ At("requery")
  /\ GoTo(IF q < NumQueries THEN "pop" ELSE "next")
  /\ UNCHANGED <<serverVars, caller, zenek, loopVars, asked, answers>>

\* After get_result: finish_count++, and another query if there is one.
Requery ==
  /\ At("requery")
  /\ finish_count' = finish_count + 1
  /\ GoTo(IF q < NumQueries THEN "pop" ELSE "next")
  /\ UNCHANGED <<serverVars, caller, zenek, q, cntr, zenonki, waited, results,
                 asked, answers>>

\* Mutant: the loop waits for one query more than there are.
OneTooMany ==
  /\ At("next")
  /\ IF finish_count = NumQueries + 1
     THEN Calls("print", "print") /\ cntr' = 0
     ELSE /\ GoTo("poll")
          /\ cntr' = (cntr + 1) % PoolSize
          /\ UNCHANGED caller
  /\ UNCHANGED <<serverVars, zenek, q, finish_count, zenonki, waited, results,
                 asked, answers>>

NextSlot ==
  /\ At("next")
  /\ IF finish_count = NumQueries
     THEN Calls("print", "print") /\ cntr' = 0
     ELSE /\ GoTo("poll")
          /\ cntr' = (cntr + 1) % PoolSize
          /\ UNCHANGED caller
  /\ UNCHANGED <<serverVars, zenek, q, finish_count, zenonki, waited, results,
                 asked, answers>>

RunAll == \/ InitLoop \/ PollFinished \/ PollPending \/ SetTimestamps
          \/ Requery \/ NextSlot
-----------------------------------------------------------------------------
(* zenon::get_result, called by server::get_result and print_profiling.    *)

\* Mutant: get_result waits for the final event, not for the queue.
EventAwaited ==
  /\ At("result_sync")
  /\ Final \in events[zenek]
  /\ GoTo(IF DisableBlitter THEN "show" ELSE "output_copy")
  /\ UNCHANGED <<serverVars, caller, zenek, loopVars, asked, answers>>

ResultSync ==
  /\ At("result_sync")
  /\ compute_idle(zenek)
  /\ GoTo(IF DisableBlitter THEN "show" ELSE "output_copy")
  /\ UNCHANGED <<serverVars, caller, zenek, loopVars, asked, answers>>

OutputCopy ==
  /\ At("output_copy")
  /\ execute_copy(zenek, "output")
  /\ GoTo("output_sync")
  /\ UNCHANGED <<zenek_pool_boost, caller, zenek, loopVars, asked, answers>>

OutputSync ==
  /\ At("output_sync")
  /\ copy_idle(zenek, "output")
  /\ GoTo("show")
  /\ UNCHANGED <<serverVars, caller, zenek, loopVars, asked, answers>>

\* Mutant: server::get_result keeps the zenon.
ShowAndKeep ==
  /\ At("show") /\ caller = "poll"
  /\ reset_events(zenek)
  /\ answers' = Append(answers, <<asked[zenek], shown_output(zenek)>>)
  /\ GoTo("requery")
  /\ UNCHANGED <<zenek_pool_boost, caller, zenek, loopVars, asked>>

\* Show the output, reset the events; server::get_result then returns the zenon.
ShowToClient ==
  /\ At("show") /\ caller = "poll"
  /\ reset_events(zenek)
  /\ answers' = Append(answers, <<asked[zenek], shown_output(zenek)>>)
  /\ zenek_pool_boost' = Append(zenek_pool_boost, zenek)
  /\ GoTo("requery")
  /\ UNCHANGED <<caller, zenek, loopVars, asked>>

ShowToPrinter ==
  /\ At("show") /\ caller = "print"
  /\ reset_events(zenek)
  /\ cntr' = cntr + 1
  /\ GoTo("print")
  /\ UNCHANGED <<zenek_pool_boost, caller, zenek, q, finish_count, zenonki, waited,
                 results, asked, answers>>

GetResult == ResultSync \/ OutputCopy \/ OutputSync \/ ShowToClient \/ ShowToPrinter

\* Mutant: only the slots that were filled are printed.
FilledSlotsOnly ==
  /\ At("print")
  /\ IF ~Profiling \/ cntr = NumQueries \/ zenonki[cntr] = None
     THEN GoTo("done") /\ UNCHANGED zenek
     ELSE GoTo("result_sync") /\ zenek' = zenonki[cntr]
  /\ UNCHANGED <<serverVars, caller, loopVars, asked, answers>>

\* print_results; print_profiling calls zenonki[i]->get_result for every i below
\* zenonki.size() = queries, for each kernel j again (one pass is modelled: the
\* calls of the others find the zenons as this one leaves them).
PrintResults ==
  /\ At("print")
  /\ IF ~Profiling \/ cntr = NumQueries
     THEN GoTo("done") /\ UNCHANGED zenek
     ELSE /\ GoTo(IF zenonki[cntr] = None THEN "undefined" ELSE "result_sync")
          /\ zenek' = zenonki[cntr]
  /\ UNCHANGED <<serverVars, caller, loopVars, asked, answers>>

Client == QuerySample \/ RunAll \/ GetResult \/ PrintResults

Gpu(z) ==
  /\ main \notin Ended
  /\ Device(z)
  /\ UNCHANGED <<zenek_pool_boost, clientVars>>

Stopped == main \in Ended /\ UNCHANGED <<serverVars, clientVars>>

Next ==
  /\ \/ Client
     \/ \E z \in Zenons : Gpu(z)
     \/ Stopped
  /\ UNCHANGED warm_up

\* The thread keeps running and the device completes what it is given.
Fairness ==
  /\ WF_vars(Client /\ UNCHANGED warm_up)
  /\ \A z \in Zenons : WF_vars(Gpu(z) /\ UNCHANGED warm_up)

Spec == Init /\ [][Next]_vars
FairSpec == Spec /\ Fairness
-----------------------------------------------------------------------------
(* Properties.                                                             *)

TypeOK ==
  /\ ServerTypeOK
  /\ warm_up \in WarmUps
  /\ main \in Steps
  /\ caller \in Callers
  /\ zenek \in Zenons \cup {None}
  /\ q \in 0 .. NumQueries + PoolSize
  /\ cntr \in 0 .. NumQueries + PoolSize
  /\ finish_count \in 0 .. NumQueries
  /\ zenonki \in [Queries -> Zenons \cup {None}]
  /\ waited \in SUBSET Queries
  /\ results \in SUBSET (Queries \cup Zenons)
  /\ asked \in [Zenons -> Int \cup {None}]
  /\ answers \in Seq(Int \X (Bytes \cup {None}))

\* Without the warm-up, the event the loop polls for a slot is the final event
\* of the zenon in that slot: is_finished takes it from a global vector by the
\* slot's number and never looks at the zenon it is called on.
SlotOwnsEvent ==
  ~warm_up => \A s \in Queries : zenonki[s] # None => zenonki[s] = s

\* The query run on events the warm-up has left: the first on the warm-up's zenon,
\* which has moved to the last slot.
RunOnLeftovers(a) == warm_up /\ a = PoolSize - 1

\* Every query is answered with the output computed from its own id, although
\* the loop refills a zenon's inputs while other zenons are running; the warm-up
\* spoils one answer and, its events once reset, no other.
OwnAnswers ==
  \A n \in 1 .. Len(answers) :
    ~DisableBlitter /\ ~RunOnLeftovers(answers[n][1])
      => answers[n][2] = Byte(answers[n][1])

\* Queries the client has got an answer to.
Answered == {answers[n][1] : n \in 1 .. Len(answers)}

\* No query is answered twice, and the loop ends only when all are answered.
AnsweredOnce ==
  /\ \A m, n \in 1 .. Len(answers) : answers[m][1] = answers[n][1] => m = n
  /\ main = "print" => Answered = Queries

\* No command list is executed while an earlier execution of it is in flight.
ExecutesIdleLists ==
  /\ main = "input_copy" => "input" \notin copying[zenek]
  /\ main = "compute" => pending[zenek] = 0
  /\ main = "output_copy" => "output" \notin copying[zenek]

\* The zenon the warm-up has run on, whose result nobody waits for, as long as the
\* first loop submits; the poll waits for its queue before it uses it again.
JustWarmed(z) == warm_up /\ z = 0 /\ caller \in {"warmup", "init"}

\* It is so but for that zenon: every other list is executed only when its last
\* execution is over, however fast the loop refills and whichever kernel is late.
ListsNotInFlight == ~JustWarmed(zenek) => ExecutesIdleLists

\* get_zenon_atomic spins until the pool has a zenon; nobody but this thread
\* could return one, so it is only called when there is one.
PopFindsZenon == main = "pop" => zenek_pool_boost # <<>>

\* Nobody changes what running kernels or a copy in flight read, although the
\* client never stops filling and submitting, but for the zenon the warm-up left
\* running.
SourcesStable ==
  [][\A z \in Zenons : ~JustWarmed(z) =>
       /\ "input" \in copying[z] => input'[z] = input[z]
       /\ pending[z] > 0 => dev_input'[z] = dev_input[z]
       /\ "output" \in copying[z] => dev_result'[z] = dev_result[z]]_vars

\* The pool is never empty when the host spins for a zenon.  It waits only for what
\* the device can still do, and polls only while a zenon is finished or its device
\* has something to do, whichever zenon the slot's event belongs to.  Left out is
\* the output copy print_profiling waits for, after get_result has reset the event
\* the copy waits on.
NobodyWaitsInVain ==
  /\ PopFindsZenon
  /\ main = "input_sync" => copy_idle(zenek, "input") \/ DeviceReady(zenek)
  /\ main = "result_sync" => compute_idle(zenek) \/ DeviceReady(zenek)
  /\ main = "output_sync" /\ caller = "poll" =>
       copy_idle(zenek, "output") \/ DeviceReady(zenek)
  /\ main = "poll" => \E s \in Zenons : is_finished(s) \/ DeviceReady(s)

\* How far the client has come: one round of submitting or of taking a result, ...
Position ==
  [init |-> 0, print |-> 0, poll |-> 1, next |-> 1, pop |-> 2, fill |-> 3,
   input_copy |-> 4, input_sync |-> 5, compute |-> 6, set_timestamps |-> 2,
   result_sync |-> 3, output_copy |-> 4, output_sync |-> 5, show |-> 6,
   requery |-> 7, done |-> 8, terminated |-> 8, undefined |-> 8]

\* ... and the rounds there are in the warm-up, the two loops and the printing.
Rounds ==
  q + finish_count + CASE caller = "warmup" -> 0
                       [] caller = "print" -> 2 + cntr
                       [] OTHER -> 1
Progress == 10 * Rounds + Position[main]

EmptyPoll ==
  \/ main = "poll" /\ ~is_finished(cntr) /\ main' = "next"
  \/ main = "next" /\ main' = "poll"

\* The client never goes back: every step but an empty poll brings it or a device
\* forward, and no query is submitted or counted again.
GoesForward ==
  [][Progress' >= Progress /\ (Progress' > Progress \/ WorkDone \/ EmptyPoll)]_vars

\* The polling loop does not poll forever.
LoopEnds == <>(main \in {"print", "terminated"})

\* run_all comes to its end.
Completes == <>(main = "done")

\* The process does not hang: without the output copy, whose event nobody sets
\* again, the printing also gets to an end, be it through terminate or a null pointer.
RunStops == DisableBlitter => <>(main \in Ended)

\* zenonki has an element for each query and is filled for each zenon.  The first
\* loop leaves it only with fewer queries than zenons; with more, the profile is
\* never printed to its end, for print_profiling meets a null pointer, if it is not
\* terminated before.
SlotsFitQueries ==
  /\ main = "undefined" => \/ caller = "init" /\ NumQueries < PoolSize
                           \/ caller = "print" /\ NumQueries > PoolSize
  /\ main = "done" /\ Profiling => NumQueries = PoolSize

\* The pause before query q should be the sum of dist[0], ..., dist[q - 1], as it is
\* for the thread of query q without --single_thread.  The polling loop looks one
\* entry ahead, so that every query has its pause, none is waited for twice and none
\* is read past the end, but dist[pool_size] is left out and the later ones come
\* one query early.
PausesShift ==
  main = "fill" /\ q < NumQueries =>
    /\ caller = "init" => waited = 0 .. q - 1
    /\ caller = "poll" => waited = (0 .. q) \ {PoolSize}
-----------------------------------------------------------------------------
(* The query service this loop provides when nothing was warmed up: the    *)
(* warm-up's zenon is lent a second time while its query is running.       *)

\* The zenon that works for query a: chosen for it at the pop, given its id by
\* the fill, and free again when the answer is taken.
Lent(a) ==
  IF At("fill") /\ q = a THEN zenek
  ELSE IF a \notin Answered /\ (\E z \in Zenons : asked[z] = a)
       THEN CHOOSE z \in Zenons : asked[z] = a
       ELSE None

\* The answer is there once get_result has the output on the host.
Showing(a) == At("show") /\ caller = "poll" /\ asked[zenek] = a

Got(a) ==
  IF a \in Answered
  THEN answers[CHOOSE n \in 1 .. Len(answers) : answers[n][1] = a][2]
  ELSE IF Showing(a) THEN shown_output(zenek) ELSE None

\* finish_count counts a query one step after its zenon is back.
Counted(a) == a \in Answered /\ ~(At("requery") /\ asked[zenek] = a)

Service == INSTANCE QueryService
  WITH Actors <- Queries, AnswerTo <- Byte, Nothing <- None,
       borrowed <- [a \in Queries |-> IF warm_up THEN None ELSE Lent(a)],
       given <- [a \in Queries |-> IF warm_up THEN None ELSE Got(a)],
       served <- {a \in Queries : ~warm_up /\ Counted(a)}

\* One thread that juggles all zenons, polls them by the number of their slot and
\* refills them one at a time, is the plain query service; after a warm-up, whose
\* zenon is still running when it is lent again, it is not, and nothing is claimed.
ImplementsService == Service!Spec
=============================================================================
