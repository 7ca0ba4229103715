---------------------------- MODULE UserActivity ----------------------------
(***************************************************************************)
(* The in-process registry of what each user has in flight                 *)
(* (packages/backend/src/db/user-activity.ts): a count of busy runs and a  *)
(* set of users who are reconfiguring.  The check and the mark of each     *)
(* operation happen in one synchronous turn of the event loop, so each is  *)
(* one conjunct of a caller's action.  A refused mark (UserBusyError)      *)
(* changes nothing: its caller's action is not enabled, and the caller's   *)
(* own failure action says what it does instead.                           *)
(***************************************************************************)
EXTENDS Naturals

CONSTANT Users        \* the usernames the authenticating proxy asserts

VARIABLES
  busyRuns,           \* Map username -> count; no entry is the count 0
  reconfiguring       \* Set of usernames

activityVars == <<busyRuns, reconfiguring>>

ActivityTypeOK ==
  /\ busyRuns \in [Users -> Nat]
  /\ reconfiguring \in SUBSET Users

ActivityInit ==
  /\ busyRuns = [u \in Users |-> 0]
  /\ reconfiguring = {}

IsUserBusy(u) == busyRuns[u] > 0

IsReconfiguring(u) == u \in reconfiguring

\* Mutant: the mark does not look at the reconfiguration.
MarkUserBusyAnyway(u) ==
  /\ busyRuns' = [busyRuns EXCEPT ![u] = @ + 1]
  /\ UNCHANGED reconfiguring

MarkUserBusy(u) ==
  /\ ~IsReconfiguring(u)
  /\ busyRuns' = [busyRuns EXCEPT ![u] = @ + 1]
  /\ UNCHANGED reconfiguring

\* An unbalanced unmark throws, which leaves its caller stuck here.
UnmarkUserBusy(u) ==
  /\ IsUserBusy(u)
  /\ busyRuns' = [busyRuns EXCEPT ![u] = @ - 1]
  /\ UNCHANGED reconfiguring

\* Mutant: only another reconfiguration is in the way.
BeginReconfiguringWhileBusy(u) ==
  /\ ~IsReconfiguring(u)
  /\ reconfiguring' = reconfiguring \cup {u}
  /\ UNCHANGED busyRuns

BeginReconfiguring(u) ==
  /\ ~IsUserBusy(u)
  /\ ~IsReconfiguring(u)
  /\ reconfiguring' = reconfiguring \cup {u}
  /\ UNCHANGED busyRuns

\* An unbalanced end throws, which leaves its caller stuck here.
EndReconfiguring(u) ==
  /\ IsReconfiguring(u)
  /\ reconfiguring' = reconfiguring \ {u}
  /\ UNCHANGED busyRuns

\* The process ends: the registry is in its memory only.
ForgetActivity ==
  /\ busyRuns' = [u \in Users |-> 0]
  /\ reconfiguring' = {}
=============================================================================
