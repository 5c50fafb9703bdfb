---------------------------- MODULE Distribution -----------------------------
(***************************************************************************)
(* client::create_distribution (src/include/ze_info/client.hpp) and the    *)
(* files dist_<q>.txt it shares with earlier and later runs of the         *)
(* program.  A file is a sequence of entries, numbers or Junk; a pause is  *)
(* a number of microseconds.                                               *)
(***************************************************************************)
EXTENDS Integers, Sequences

CONSTANTS
  Pauses,     \* what the random distribution may yield
  Junk,       \* file text that is not a number
  NoFile      \* there is no such file

Contents == Seq(Int \cup {Junk}) \cup {NoFile}

ASSUME DistributionAssumption ==
  /\ Pauses \subseteq Nat
  /\ Junk \notin Int
  /\ NoFile \notin Seq(Int \cup {Junk})

VARIABLES
  files,      \* contents of dist_<q>.txt for each q, or NoFile
  dist

\* dist after resize.
zeros(q) == [n \in 1 .. q |-> 0]

\* The numbers inputFile >> value reads: those before the first junk.
numbers(file) ==
  LET good == {n \in 0 .. Len(file) : \A k \in 1 .. n : file[k] # Junk}
  IN  SubSeq(file, 1, CHOOSE n \in good : \A k \in good : k <= n)

\* The first q numbers of a file stored over dist.
stored(file, q) ==
  [n \in 1 .. q |-> IF n <= Len(numbers(file)) THEN numbers(file)[n] ELSE 0]

\* Mutant: a file of the right length is too long.
too_long_by_one(file, q) == Len(numbers(file)) >= q

too_long(file, q) == Len(numbers(file)) > q

accepted(q) == files[q] # NoFile /\ ~too_long(files[q], q)

\* What reading does to dist, also when the file is then refused.
read_dist(q) ==
  IF files[q] = NoFile THEN UNCHANGED dist ELSE dist' = stored(files[q], q)

draw(q) == dist' \in [1 .. q -> Pauses]

\* std::ofstream empties the file and then writes dist to it.
open_file(q) == files' = [files EXCEPT ![q] = <<>>]

\* Mutant: the last entry is left out.
write_short(q) == files' = [files EXCEPT ![q] = SubSeq(dist, 1, q - 1)]

write_file(q) == files' = [files EXCEPT ![q] = dist]

\* What is in the file when the process is killed while writing: the first n
\* entries, and maybe the leading digits of the next.
torn(n) ==
  {SubSeq(dist, 1, n)} \cup
  (IF n < Len(dist) /\ dist[n + 1] >= 10
     THEN {Append(SubSeq(dist, 1, n), dist[n + 1] \div 10)} ELSE {})
=============================================================================
