------------------------------- MODULE Options -------------------------------
(***************************************************************************)
(* The options main parses (src/src/main.cpp) that size what the program   *)
(* builds.  Arguments are handled one at a time in the order given; a      *)
(* repeated one overwrites.                                                *)
(***************************************************************************)
EXTENDS Integers

CONSTANTS
  DefaultQueries,      \* 100 in the code
  DefaultConsumers,    \* 8
  DefaultThreads       \* 32, also the default of --input_size

ASSUME OptionsAssumption ==
  /\ DefaultQueries \in Nat
  /\ DefaultConsumers \in Nat
  /\ DefaultThreads \in 2 .. 4096

\* The value of an int stored in a short.
to_short(n) == ((n + 32768) % 65536) - 32768

\* Mutant: the option is kept as an int, and bounded from above only.
clamped_int(n) == IF n > 4096 THEN 4096 ELSE n

\* number_of_threads as --t sets it.
number_of_threads(n) ==
  IF to_short(n) > 4096 THEN 4096 ELSE IF to_short(n) < 2 THEN 2 ELSE to_short(n)

default_options ==
  [queries |-> DefaultQueries, consumers |-> DefaultConsumers,
   threads |-> DefaultThreads, input_size |-> DefaultThreads, mem |-> 1,
   fixed_dist |-> FALSE, multi_ccs |-> TRUE]

\* The options after argument name, with value v if it takes one.
parsed(o, name, v) ==
  CASE name = "--q" -> [o EXCEPT !.queries = v]
    [] name = "--s" -> [o EXCEPT !.consumers = v]
    [] name = "--t" -> [o EXCEPT !.threads = number_of_threads(v)]
    [] name = "--input_size" -> [o EXCEPT !.input_size = v]
    [] name = "--mem" -> [o EXCEPT !.mem = to_short(v)]
    [] name = "--fixed_dist" -> [o EXCEPT !.fixed_dist = TRUE]
    [] name = "--single_ccs" -> [o EXCEPT !.multi_ccs = FALSE]

\* Mutant: the upper bound by input_size is not applied.
unclamped(o) == o

\* The last clamp, once all arguments are parsed.
clamped(o) ==
  IF o.threads > o.input_size THEN [o EXCEPT !.threads = to_short(o.input_size)] ELSE o
=============================================================================
