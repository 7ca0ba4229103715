--------------------------- MODULE ExclusiveAccess ---------------------------
(***************************************************************************)
(* What the registry of user activity promises, with no counter in it: per *)
(* user, any number of jobs share the user's key and database, or one job  *)
(* has them for itself.                                                    *)
(***************************************************************************)
EXTENDS FiniteSets

CONSTANTS Users, Jobs

VARIABLES
  shared,      \* shared[u]: the jobs of u between a busy mark and its unmark
  exclusive    \* exclusive[u]: the jobs of u that are reconfiguring

accessVars == <<shared, exclusive>>

AccessInit ==
  /\ shared = [u \in Users |-> {}]
  /\ exclusive = [u \in Users |-> {}]

EnterShared(u, j) ==
  /\ exclusive[u] = {}
  /\ j \notin shared[u]
  /\ shared' = [shared EXCEPT ![u] = @ \cup {j}]
  /\ UNCHANGED exclusive

LeaveShared(u, j) ==
  /\ j \in shared[u]
  /\ shared' = [shared EXCEPT ![u] = @ \ {j}]
  /\ UNCHANGED exclusive

EnterExclusive(u, j) ==
  /\ shared[u] = {}
  /\ exclusive[u] = {}
  /\ exclusive' = [exclusive EXCEPT ![u] = {j}]
  /\ UNCHANGED shared

LeaveExclusive(u, j) ==
  /\ exclusive[u] = {j}
  /\ exclusive' = [exclusive EXCEPT ![u] = {}]
  /\ UNCHANGED shared

\* A restart ends every job at once.
EveryoneLeaves ==
  /\ shared' = [u \in Users |-> {}]
  /\ exclusive' = [u \in Users |-> {}]

AccessNext ==
  \/ \E u \in Users, j \in Jobs :
       \/ EnterShared(u, j)
       \/ LeaveShared(u, j)
       \/ EnterExclusive(u, j)
       \/ LeaveExclusive(u, j)
  \/ EveryoneLeaves

AccessSpec == AccessInit /\ [][AccessNext]_accessVars
=============================================================================
