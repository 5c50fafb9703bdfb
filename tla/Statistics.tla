----------------------------- MODULE Statistics -----------------------------
(***************************************************************************)
(* What --profiling prints (src/include/ze_info/client.hpp): the kernel    *)
(* times zenon::run collects from the timestamps of an execution, and the  *)
(* minima, maxima and averages client::print_profiling makes of them.      *)
(* Averages are summed in an int and divided as a 64-bit number; both      *)
(* widths are parameters.  The branch of --single_thread computes the same *)
(* from the zenons' own results, one zenon for each query.                 *)
(***************************************************************************)
EXTENDS Integers, Sequences, FiniteSetsExt

CONSTANTS
  NumQueries,
  PoolSize,
  Timed,        \* kernels whose timestamps are read: all but the last two
  Executions,   \* timestamps an execution may leave: Timed pairs [start, end]
  Resolution,   \* timerResolution: nanoseconds of a tick
  Micro,        \* nanoseconds of a microsecond, 1000: the totals' unit
  IntMax,       \* the largest int, 2^31 - 1
  LongMax       \* the largest uint64_t, 2^64 - 1

Queries == 0 .. NumQueries - 1
Zenons == 0 .. PoolSize - 1
Kernels == 1 .. Timed

ASSUME StatisticsAssumption ==
  /\ NumQueries \in Nat \ {0}
  /\ PoolSize \in Nat \ {0}
  /\ Timed \in Nat \ {0}
  /\ Executions \subseteq [Kernels -> [start: Nat, end: Nat]]
  /\ Resolution \in Nat \ {0}
  /\ Micro \in Nat \ {0}
  /\ IntMax \in Nat
  /\ LongMax \in Nat /\ LongMax >= IntMax

VARIABLES
  warm_up,          \* the warm-up is still to come
  gpu_result,       \* of each zenon, kept from query to query
  gpu_results_vec,  \* the copy each query got
  ran,              \* queries that have run
  executed,         \* history: the timestamps of each query's execution
  row,              \* line being printed: a kernel, or one of the two totals
  i,                \* results accumulated into its average
  acc,              \* the int avg_u accumulates in
  exact,            \* history: the sum acc should be
  printed           \* the lines printed

vars ==
  <<warm_up, gpu_result, gpu_results_vec, ran, executed, row, i, acc, exact, printed>>

uint64(n) == n % (LongMax + 1)

\* What is left of n in an int.
int(n) == ((n + IntMax + 1) % (2 * (IntMax + 1))) - (IntMax + 1)

\* f[1] + ... + f[Timed].
Total(f) ==
  LET sum[k \in 0 .. Timed] == IF k = 0 THEN 0 ELSE sum[k - 1] + f[k] IN sum[Timed]

KernelRows == Kernels
ExecutionRow == Timed + 1
GpuTimeRow == Timed + 2
Rows == 1 .. GpuTimeRow
-----------------------------------------------------------------------------
(* zenon::run and zenon::set_timestamps.                                   *)

\* Before the first run; the last three are uninitialised and not read.
nothing ==
  [kernel_time |-> <<>>, execuction_time |-> 0, gpu_time |-> 0,
   kernels_start_time |-> 0, kernels_end_time |-> 0]

kernelDuration(e, k) == uint64((e[k].end - e[k].start) * Resolution)

\* Mutant: execuction_time still holds the zenon's previous query.
never_zeroed(g, e) ==
  LET time == [k \in Kernels |-> kernelDuration(e, k)]
  IN  [kernel_time |-> time,
       execuction_time |-> uint64(g.execuction_time + Total(time)),
       gpu_time |-> uint64((e[Timed].end - e[1].start) * Resolution),
       kernels_start_time |-> uint64(e[1].start * Resolution),
       kernels_end_time |-> uint64(e[Timed].start * Resolution)]

\* The zenon's result after execution e.  kernels_end_time is the start of the
\* last kernel, gpu_time goes to its end.
collected(g, e) ==
  LET time == [k \in Kernels |-> kernelDuration(e, k)]
  IN  [kernel_time |-> time,
       execuction_time |-> uint64(Total(time)),
       gpu_time |-> uint64((e[Timed].end - e[1].start) * Resolution),
       kernels_start_time |-> uint64(e[1].start * Resolution),
       kernels_end_time |-> uint64(e[Timed].start * Resolution)]

Init ==
  /\ warm_up \in BOOLEAN
  /\ gpu_result = [z \in Zenons |-> nothing]
  /\ gpu_results_vec = [q \in Queries |-> nothing]
  /\ ran = {}
  /\ executed = [q \in Queries |-> <<>>]
  /\ row = 1
  /\ i = 0
  /\ acc = 0
  /\ exact = 0
  /\ printed = <<>>

\* A query, or first the warm-up, which runs query 0.
Run(q, z, e) ==
  /\ q \notin ran
  /\ warm_up => q = 0
  /\ warm_up' = FALSE
  /\ gpu_result' = [gpu_result EXCEPT ![z] = collected(@, e)]
  /\ gpu_results_vec' = [gpu_results_vec EXCEPT ![q] = gpu_result'[z]]
  /\ ran' = IF warm_up THEN ran ELSE ran \cup {q}
  /\ executed' = [executed EXCEPT ![q] = e]
  /\ UNCHANGED <<row, i, acc, exact, printed>>
-----------------------------------------------------------------------------
(* client::print_profiling, once all queries are joined.                   *)

\* What a line is about, in the result of query q.
value(r, q) ==
  LET g == gpu_results_vec[q]
  IN  CASE r \in KernelRows -> g.kernel_time[r]
        [] r = ExecutionRow -> g.execuction_time
        [] r = GpuTimeRow -> g.gpu_time

values(r) == {value(r, q) : q \in Queries}

\* avg_u, one element: int plus uint64_t, stored in the int again.
Accumulate ==
  /\ ran = Queries
  /\ row \in Rows
  /\ i < NumQueries
  /\ acc' = int(uint64(acc + value(row, i)))
  /\ exact' = exact + value(row, i)
  /\ i' = i + 1
  /\ UNCHANGED <<warm_up, gpu_result, gpu_results_vec, ran, executed, row, printed>>

\* Nanoseconds of the unit a line is printed in.
unit(r) == IF r \in KernelRows THEN 1 ELSE Micro

\* One line: the extremes, cut to whole units, and the average of 64-bit division,
\* which is divided as a double and keeps its fraction: avg is in nanoseconds.
line == [min |-> Min(values(row)) \div unit(row), max |-> Max(values(row)) \div unit(row),
         avg |-> uint64(acc) \div NumQueries, exact |-> exact]

\* Mutant: the next average starts from this one's sum.
PrintKeepingSum ==
  /\ row \in Rows
  /\ i = NumQueries
  /\ printed' = Append(printed, line)
  /\ row' = row + 1
  /\ i' = 0
  /\ exact' = 0
  /\ UNCHANGED <<warm_up, gpu_result, gpu_results_vec, ran, executed, acc>>

PrintRow ==
  /\ row \in Rows
  /\ i = NumQueries
  /\ printed' = Append(printed, line)
  /\ row' = row + 1
  /\ i' = 0
  /\ acc' = 0
  /\ exact' = 0
  /\ UNCHANGED <<warm_up, gpu_result, gpu_results_vec, ran, executed>>

\* Mutant: only query 0's end is looked at.
first_end == gpu_results_vec[0].kernels_end_time

kernels_ends == Max({gpu_results_vec[q].kernels_end_time : q \in Queries})

\* "Time from 1st kernel start to last kernel end", from the start of query 0.
span == uint64(kernels_ends - gpu_results_vec[0].kernels_start_time) \div Micro

Printed == row \notin Rows /\ UNCHANGED vars

Next ==
  \/ \E q \in Queries, z \in Zenons, e \in Executions : Run(q, z, e)
  \/ Accumulate \/ PrintRow \/ Printed

Spec == Init /\ [][Next]_vars
-----------------------------------------------------------------------------
(* Properties.                                                             *)

\* The sum of a line's values is one an int can hold.
Fits(r) == printed[r].exact <= IntMax

\* No average of print_profiling is below the minimum beside it, and none is a whole
\* unit above the maximum, as long as the sum over all queries fits the int of avg_u.
\* An average of the totals may exceed the printed maximum by a fraction, which the
\* maximum has lost.
MeansInRange ==
  \A r \in DOMAIN printed :
    Fits(r) => /\ unit(r) * printed[r].min <= printed[r].avg
               /\ printed[r].avg < unit(r) * (printed[r].max + 1)

\* "Total kernels time" agrees with the kernels' own lines, whatever zenons
\* served the queries before and whatever order they ran in: their extremes
\* enclose its own but for the fraction these lose, and their averages add up to its
\* own but for what each rounds off.
TotalsAddUp ==
  /\ ExecutionRow \in DOMAIN printed
  /\ Fits(ExecutionRow)
  /\ \A q \in Queries : Total(gpu_results_vec[q].kernel_time) <= LongMax
  => LET total == printed[ExecutionRow]
         sum(field) == Total([k \in Kernels |-> printed[k][field]])
     IN  /\ sum("min") < Micro * (total.min + 1)
         /\ Micro * total.max <= sum("max")
         /\ sum("avg") <= total.avg
         /\ total.avg < sum("avg") + Timed

\* The kernels of an execution ran one after the other.
InOrder(e) ==
  /\ \A k \in Kernels : e[k].start <= e[k].end
  /\ \A k \in 2 .. Timed : e[k - 1].end <= e[k].start

\* Its times in nanoseconds fit 64 bits.
ClockFits(e) == \A k \in Kernels : e[k].end * Resolution <= LongMax

\* How long query q had begun when query 0 did, from where the span counts.
lead(q) ==
  LET first(p) == executed[p][1].start
  IN  IF first(q) < first(0) THEN (first(0) - first(q)) * Resolution ELSE 0

\* The printed "Time from 1st kernel start to last kernel end" covers what the
\* kernels of a query ran, if they ran in order, but for the last of them, whose end
\* the code does not look at, what they ran before query 0 began, and a fraction of a
\* microsecond: unless query 0's kernel 0 is so late that no query's last kernel
\* starts after it, when the difference wraps.
SpanCovers ==
  ran = Queries /\ executed[0][1].start * Resolution <= kernels_ends =>
    \A q \in Queries :
      LET before_last ==
            gpu_results_vec[q].execuction_time - gpu_results_vec[q].kernel_time[Timed]
      IN  InOrder(executed[q]) /\ ClockFits(executed[q])
            => before_last < Micro * (span + 1) + lead(q)
=============================================================================
