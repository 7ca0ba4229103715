--------------------------- MODULE PoolConnections ---------------------------
(***************************************************************************)
(* The connections of one user's pool (USER_POOL_CONNECTION_LIMIT in       *)
(* packages/backend/src/db/pool.ts) and the tasks that share them: a sync  *)
(* or discovery keeps one for its lock as long as it lasts, the wait for a *)
(* TAN included, and needs another one for each of its queries             *)
(* (sync-service.ts, sync-run.ts, bank-connection.ts); any other request   *)
(* needs one at a time.                                                    *)
(*                                                                         *)
(* The pool hands a connection that is given back to whoever has waited    *)
(* longest, and lets them wait without a limit (waitForConnections).       *)
(***************************************************************************)
EXTENDS Naturals, Sequences, FiniteSets, Functions

CONSTANTS
  Slots,      \* the pool's connections
  Runs,       \* runs of different bank connections in flight at once
  Requests,   \* other requests of the user
  None        \* null

PoolAssumptions ==
  /\ IsFiniteSet(Slots) /\ IsFiniteSet(Runs) /\ IsFiniteSet(Requests)
  /\ Slots # {}
  /\ Runs \cap Requests = {}
  /\ None \notin [task : Runs \cup Requests, role : {"lock", "query"}]

ASSUME PoolAssumption == PoolAssumptions

Tasks == Runs \cup Requests

VARIABLES
  owner,      \* owner[c]: who has connection c, and what for
  queue,      \* those who wait for a connection, first come first
  stage,      \* where each task is
  tanShown    \* the runs whose row says tan_required

vars == <<owner, queue, stage, tanShown>>

RunStages == {"idle", "locking", "reading", "creating", "marking", "waiting", "finishing",
              "unlocking"}

\* The stages of a task that need a connection besides the one of the lock.
Querying == {"reading", "creating", "marking", "finishing", "querying"}

Uses == [task : Runs, role : {"lock"}] \cup [task : Tasks, role : {"query"}]

TypeOK ==
  /\ owner \in [Slots -> Uses \cup {None}]
  /\ queue \in Seq(Tasks) /\ IsInjective(queue)
  /\ stage \in [Tasks -> RunStages \cup {"querying"}]
  /\ tanShown \subseteq Runs

Init ==
  /\ owner = [c \in Slots |-> None]
  /\ queue = <<>>
  /\ stage = [t \in Tasks |-> "idle"]
  /\ tanShown = {}

-----------------------------------------------------------------------------
(* The pool. *)

Holds(t, role) == \E c \in Slots : owner[c] = [task |-> t, role |-> role]

Needs(t) ==
  CASE stage[t] = "locking" -> "lock"
    [] stage[t] \in Querying -> "query"
    [] OTHER -> "nothing"

Wants(t) == Needs(t) # "nothing" /\ ~Holds(t, Needs(t))

Waits(t) == t \in Range(queue)

Use(t) == [task |-> t, role |-> Needs(t)]

\* A free connection, or a place in the queue.
TakeOrWait(t) ==
  \/ \E c \in Slots : /\ owner[c] = None
                      /\ owner' = [owner EXCEPT ![c] = Use(t)]
                      /\ UNCHANGED queue
  \/ /\ \A c \in Slots : owner[c] # None
     /\ queue' = Append(queue, t)
     /\ UNCHANGED owner

\* Mutant: a task that waits asks again.
AskAgain(t) == Wants(t) /\ TakeOrWait(t) /\ UNCHANGED <<stage, tanShown>>

\* A task asks once and then waits for its turn.
Ask(t) == Wants(t) /\ ~Waits(t) /\ TakeOrWait(t) /\ UNCHANGED <<stage, tanShown>>

\* Mutant: the connection goes back, the queue is looked at when the next one asks.
GiveBackOnly(c) ==
  /\ owner' = [owner EXCEPT ![c] = None]
  /\ UNCHANGED queue

\* Connection c is given back: to the pool, or straight to the one who has waited longest.
GiveBack(c) ==
  IF queue = <<>>
  THEN owner' = [owner EXCEPT ![c] = None] /\ UNCHANGED queue
  ELSE owner' = [owner EXCEPT ![c] = Use(Head(queue))] /\ queue' = Tail(queue)

Release(t, role) ==
  \E c \in Slots : owner[c] = [task |-> t, role |-> role] /\ GiveBack(c)

Move(t, s) == stage' = [stage EXCEPT ![t] = s]

-----------------------------------------------------------------------------
(* Other requests: one query, or one transaction. *)

Arrive(t) ==
  /\ stage[t] = "idle"
  /\ Move(t, IF t \in Runs THEN "locking" ELSE "querying")
  /\ UNCHANGED <<owner, queue, tanShown>>

Answer(t) ==
  /\ stage[t] = "querying"
  /\ Release(t, "query")
  /\ Move(t, "idle")
  /\ UNCHANGED tanShown

-----------------------------------------------------------------------------
(* Runs. *)

\* GET_LOCK answered 1; the connection is kept.
Lock(r) ==
  /\ stage[r] = "locking"
  /\ Holds(r, "lock")
  /\ Move(r, "reading")
  /\ UNCHANGED <<owner, queue, tanShown>>

\* GET_LOCK answered 0, or failed.
LockFails(r) ==
  /\ stage[r] = "locking"
  /\ Release(r, "lock")
  /\ Move(r, "idle")
  /\ UNCHANGED tanShown

\* getBankConnectionRecord; without the row, or with an error, the run is over.
Read(r) ==
  /\ stage[r] = "reading"
  /\ Release(r, "query")
  /\ Move(r, "creating") \/ Move(r, "unlocking")
  /\ UNCHANGED tanShown

\* createSyncRun; then the bank asks for a TAN, or does not.
Create(r) ==
  /\ stage[r] = "creating"
  /\ Release(r, "query")
  /\ Move(r, "marking") \/ Move(r, "finishing") \/ Move(r, "unlocking")
  /\ UNCHANGED tanShown

\* setSyncRunWaiting; an error ends the run.
Mark(r) ==
  /\ stage[r] = "marking"
  /\ Release(r, "query")
  /\ \/ Move(r, "waiting") /\ tanShown' = tanShown \cup {r}
     \/ Move(r, "finishing") /\ UNCHANGED tanShown

\* A TAN, an approval, or 15 minutes.
TanArrives(r) ==
  /\ stage[r] = "waiting"
  /\ Move(r, "finishing")
  /\ UNCHANGED <<owner, queue, tanShown>>

\* The queries of the end of a run, one after another (setSyncRunWaiting, the merges,
\* finishSyncRun, recordBankConnectionOutcome); one stands for them all.
FinishRun(r) ==
  /\ stage[r] = "finishing"
  /\ Release(r, "query")
  /\ Move(r, "unlocking")
  /\ tanShown' = tanShown \ {r}

\* Mutant: the connection of the lock is not given back.
UnlockKeeping(r) ==
  /\ stage[r] = "unlocking"
  /\ Move(r, "idle")
  /\ UNCHANGED <<owner, queue, tanShown>>

\* Mutant: the connection whose RELEASE_LOCK failed is neither given back nor destroyed.
UnlockLeaking(r) ==
  /\ stage[r] = "unlocking"
  /\ \E c \in Slots : /\ owner[c] = [task |-> r, role |-> "lock"]
                      /\ owner' = [owner EXCEPT ![c].role = "leaked"]
  /\ Move(r, "idle")
  /\ UNCHANGED <<queue, tanShown>>

\* RELEASE_LOCK; the connection is given back or destroyed and replaced.
Unlock(r) ==
  /\ stage[r] = "unlocking"
  /\ Release(r, "lock")
  /\ Move(r, "idle")
  /\ UNCHANGED tanShown

-----------------------------------------------------------------------------
RunStep(r) ==
  Lock(r) \/ LockFails(r) \/ Read(r) \/ Create(r) \/ Mark(r) \/ TanArrives(r) \/ FinishRun(r)
    \/ Unlock(r)

Next ==
  \/ \E t \in Tasks : Arrive(t) \/ Ask(t)
  \/ \E t \in Requests : Answer(t)
  \/ \E r \in Runs : RunStep(r)

Spec == Init /\ [][Next]_vars

\* Every query on a connection is answered, every TAN arrives or expires.
Fairness ==
  /\ \A t \in Tasks : WF_vars(Ask(t))
  /\ \A t \in Requests : WF_vars(Answer(t))
  /\ \A r \in Runs : WF_vars(RunStep(r))

FairSpec == Spec /\ Fairness

-----------------------------------------------------------------------------
(* Properties. *)

\* Nobody waits while a connection is free, and nobody waits who has what they wait for.
QueueFits ==
  /\ queue # <<>> => \A c \in Slots : owner[c] # None
  /\ \A t \in Tasks : Waits(t) => Wants(t)

\* Who needs nothing has nothing: an idle task holds no connection, a run that waits for a TAN
\* only the one of its lock.
NoneKept ==
  \A c \in Slots : owner[c] # None =>
    /\ stage[owner[c].task] # "idle"
    /\ owner[c].role = "query" => stage[owner[c].task] \in Querying

\* The pool is not used up by those who wait for it: while anyone waits, some connection is with
\* a task that can go on.
NeverStuck ==
  queue # <<>> => \E c \in Slots : owner[c] # None /\ ~Waits(owner[c].task)

\* Every task ends.
EveryTaskEnds == \A t \in Tasks : stage[t] # "idle" ~> stage[t] = "idle"

\* "A run that needs a TAN is tan_required for up to 15 minutes": not for ever.
TanRequiredEnds == \A r \in Runs : r \in tanShown ~> r \notin tanShown
=============================================================================
