-------------------------------- MODULE Server -------------------------------
(***************************************************************************)
(* class server (src/include/ze_info/server.hpp): the zenons it builds and *)
(* the queue zenek_pool_boost of idle ones.  boost::lockfree::queue is a   *)
(* linearisable FIFO queue, so pop and push are one step each.             *)
(***************************************************************************)
EXTENDS Zenon, Sequences

VARIABLE zenek_pool_boost

serverVars == <<zenonVars, zenek_pool_boost>>

\* Mutant: the constructor pushes the zenons last first.
PushedBackwards ==
  /\ ZenonInit
  /\ zenek_pool_boost = [n \in 1 .. PoolSize |-> PoolSize - n]

\* server::server pushes the zenons in the order it constructs them.
ServerInit ==
  /\ ZenonInit
  /\ zenek_pool_boost = [n \in 1 .. PoolSize |-> n - 1]

ServerTypeOK ==
  /\ ZenonTypeOK
  /\ zenek_pool_boost \in Seq(Zenons)

\* Mutant: the front element is read and left in the queue.
Peek(z) ==
  /\ zenek_pool_boost # <<>>
  /\ z = Head(zenek_pool_boost)
  /\ UNCHANGED serverVars

\* while (!pop(zenek)); -- disabled while the pool is empty, which is spinning.
get_zenon_atomic(z) ==
  /\ zenek_pool_boost # <<>>
  /\ z = Head(zenek_pool_boost)
  /\ zenek_pool_boost' = Tail(zenek_pool_boost)
  /\ UNCHANGED zenonVars

\* Mutant: the zenon is not pushed back.
Forgotten(z) == UNCHANGED serverVars

return_zenon_atomic(z) ==
  /\ zenek_pool_boost' = Append(zenek_pool_boost, z)
  /\ UNCHANGED zenonVars

Pooled(z) == \E n \in 1 .. Len(zenek_pool_boost) : zenek_pool_boost[n] = z
=============================================================================
