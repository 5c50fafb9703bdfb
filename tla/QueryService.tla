----------------------------- MODULE QueryService ----------------------------
(***************************************************************************)
(* What the client and the server promise together, without pool, devices, *)
(* command lists or events: every query borrows one idle zenon, gets the   *)
(* answer to its own id while nobody else has that zenon, gives it back    *)
(* and is recorded once.                                                   *)
(***************************************************************************)
EXTENDS Integers

CONSTANTS
  Zenons,        \* what is lent
  Actors,        \* who borrows
  AnswerTo(_),   \* the right answer for an actor
  Nothing        \* not borrowed, not answered

VARIABLES
  borrowed,      \* the zenon each actor has, or Nothing
  given,         \* the answer each actor has got, or Nothing
  served         \* actors that have finished

qsVars == <<borrowed, given, served>>

Init ==
  /\ borrowed = [a \in Actors |-> Nothing]
  /\ given = [a \in Actors |-> Nothing]
  /\ served = {}

Idle(z) == \A a \in Actors : borrowed[a] # z

Borrow(a, z) ==
  /\ borrowed[a] = Nothing
  /\ given[a] = Nothing
  /\ Idle(z)
  /\ borrowed' = [borrowed EXCEPT ![a] = z]
  /\ UNCHANGED <<given, served>>

Answer(a) ==
  /\ borrowed[a] # Nothing
  /\ given[a] = Nothing
  /\ given' = [given EXCEPT ![a] = AnswerTo(a)]
  /\ UNCHANGED <<borrowed, served>>

GiveBack(a) ==
  /\ borrowed[a] # Nothing
  /\ given[a] # Nothing
  /\ borrowed' = [borrowed EXCEPT ![a] = Nothing]
  /\ UNCHANGED <<given, served>>

Serve(a) ==
  /\ borrowed[a] = Nothing
  /\ given[a] # Nothing
  /\ a \notin served
  /\ served' = served \cup {a}
  /\ UNCHANGED <<borrowed, given>>

Next ==
  \E a \in Actors : \/ \E z \in Zenons : Borrow(a, z)
                    \/ Answer(a)
                    \/ GiveBack(a)
                    \/ Serve(a)

Spec == Init /\ [][Next]_qsVars
=============================================================================
