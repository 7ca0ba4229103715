------------------------------- MODULE RunLog -------------------------------
(***************************************************************************)
(* What the run table promises, without sessions, TANs or queries: at most *)
(* one live run per bank connection; only a live run's row changes; a row  *)
(* goes only together with its connection, and no live run loses its row.  *)
(***************************************************************************)
CONSTANTS Users, Connections, RunIds, None

VARIABLES
  log,     \* log[u][id]: [connection, status], or None
  live     \* live[u]: ids of the runs in progress

logVars == <<log, live>>

Unfinished == {"running", "tan_required"}
Finished == {"success", "error", "tan_expired"}

LogInit ==
  /\ log = [u \in Users |-> [id \in RunIds |-> None]]
  /\ live = [u \in Users |-> {}]

NobodyOn(u, c) == \A id \in live[u] : log[u][id].connection # c

Begin(u, id, c) ==
  /\ log[u][id] = None
  /\ NobodyOn(u, c)
  /\ log' = [log EXCEPT ![u][id] = [connection |-> c, status |-> "running"]]
  /\ live' = [live EXCEPT ![u] = @ \cup {id}]

\* Waits for a TAN, goes on, or ends; an end may be corrected (a success into an error) but not
\* taken back.
Report(u, id, s) ==
  /\ id \in live[u]
  /\ log[u][id].status \in Finished => s \in Finished
  /\ log' = [log EXCEPT ![u][id].status = s]
  /\ UNCHANGED live

Leave(u, id) ==
  /\ id \in live[u]
  /\ live' = [live EXCEPT ![u] = @ \ {id}]
  /\ UNCHANGED log

RemoveConnection(u, c) ==
  /\ NobodyOn(u, c)
  /\ log' = [log EXCEPT ![u] = [id \in RunIds |->
                IF @[id] # None /\ @[id].connection = c THEN None ELSE @[id]]]
  /\ UNCHANGED live

Crash ==
  /\ live' = [u \in Users |-> {}]
  /\ UNCHANGED log

LogNext ==
  \/ \E u \in Users :
       \/ \E id \in RunIds :
            \/ Leave(u, id)
            \/ \E s \in Unfinished \cup Finished : Report(u, id, s)
            \/ \E c \in Connections : Begin(u, id, c)
       \/ \E c \in Connections : RemoveConnection(u, c)
  \/ Crash

LogSpec == LogInit /\ [][LogNext]_logVars
=============================================================================
