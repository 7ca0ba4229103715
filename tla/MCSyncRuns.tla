----------------------------- MODULE MCSyncRuns -----------------------------
(* SyncRuns on small instances: the scheduler and one request, one user or two. *)
EXTENDS SyncRuns, TLC

CONSTANTS u1, u2

OnlyOneUser == {u1}
BothUsers == {u1, u2}

\* The bank identities are interchangeable.
TheIdentities == Permutations(Identities)
=============================================================================
