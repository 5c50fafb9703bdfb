------------------------------- MODULE LogLock -------------------------------
(***************************************************************************)
(* server::log guards std::cout with log_lock, ONE std::unique_lock object *)
(* that every thread uses.  A unique_lock is not itself protected: its     *)
(* flag says whether the lock object owns the mutex, whoever the caller    *)
(* is.  The steps are the loads, stores and mutex calls that               *)
(* std::unique_lock::lock and ::unlock make, in their order; the two       *)
(* checks may throw std::system_error.                                     *)
(***************************************************************************)
CONSTANT Free     \* mtx when nobody has locked it

VARIABLES
  mtx,            \* the std::mutex: the actor that holds it, or Free
  owns_lock       \* the ownership flag of log_lock

logLockVars == <<mtx, owns_lock>>

\* log_lock(mtx, std::defer_lock)
LogLockInit ==
  /\ mtx = Free
  /\ owns_lock = FALSE

LogLockTypeOK(Actors) ==
  /\ mtx \in Actors \cup {Free}
  /\ owns_lock \in BOOLEAN

\* lock(): throws if the object already owns the mutex, ...
lock_throws == owns_lock

\* Mutant: the mutex is entered while another actor holds it.
EnterHeld(a) == mtx' = a /\ UNCHANGED owns_lock

\* ... else locks the mutex, ...
mutex_lock(a) ==
  /\ mtx = Free
  /\ mtx' = a
  /\ UNCHANGED owns_lock

\* ... then records that it owns it.
set_owns(b) ==
  /\ owns_lock' = b
  /\ UNCHANGED mtx

\* unlock(): throws if the object owns nothing, else unlocks the mutex, then
\* clears the flag.
unlock_throws == ~owns_lock

mutex_unlock ==
  /\ mtx' = Free
  /\ UNCHANGED owns_lock
=============================================================================
