------------------------------ MODULE SyncRuns ------------------------------
(***************************************************************************)
(* Bank syncs and discoveries (packages/backend/src/sync/sync-service.ts)  *)
(* with the TAN challenges they wait for, the scheduler that starts the    *)
(* due ones, and the requests that start, delete or edit a connection at   *)
(* the same time.                                                          *)
(*                                                                         *)
(* A runner is one request, or the scheduler; run[r] is what it has in     *)
(* hand.  One action is one stretch between two awaits.  Every user has a  *)
(* database of their own: connections, run rows, run ids and lock names    *)
(* are per user, while the registry of TAN challenges is per process.      *)
(* What an order fetches and how it is merged is not looked at here.       *)
(***************************************************************************)
EXTENDS UserActivity, PendingTans, FiniteSets

CONSTANTS
  Runners,        \* requests in flight, and the scheduler
  Scheduler,      \* the runner of the scheduled runs
  Connections,    \* ids of bank connections, in each user's database
  Identities,     \* bank identities: BLZ, URL, login and customer ID
  Orders,         \* orders of one run, at most
  Faults          \* what may happen beyond the errors the code handles

Triggers == {"manual", "scheduled", "discover"}
Unfinished == {"running", "tan_required"}
Failed == {"error", "tan_expired"}
RunStatus == Unfinished \cup {"success"} \cup Failed

\* Whether it is due (enabled, with a PIN, interval over) is left to the scheduler's choice.
ConnectionRow ==
  [paused   : BOOLEAN,
   last     : {"success"} \cup Failed \cup {None},
   identity : Identities,
   bankData : Identities \cup {None}]

RunRow == [connection : Connections, trigger : Triggers, status : RunStatus]

\* What RunLog keeps of a row.
LogRow == [connection : Connections, status : RunStatus]

SyncConstants ==
  /\ Callers = Runners
  /\ Scheduler \in Runners
  /\ IsFiniteSet(RunIds) /\ RunIds = 1 .. Cardinality(RunIds)
  /\ References \subseteq Nat
  /\ Orders \in Nat \ {0}
  /\ None \notin Users \cup Connections \cup Runners \cup Identities \cup References
  /\ None \notin ConnectionRow \cup RunRow \cup LogRow
  /\ Faults \subseteq {"restart", "recordFails"}

ASSUME SyncAssumption == SyncConstants

VARIABLES
  connection,     \* connection[u][c]: the row of hf_bank_connection
  row,            \* row[u][id]: the row of hf_sync_run
  lastId,         \* lastId[u]: its auto-increment counter
  lock,           \* lock[u][c]: who holds GET_LOCK for the connection
  run,            \* the local state of every runner
  scheduler       \* SyncScheduler and the locals of its tick

syncVars == <<connection, row, lastId, lock, run, scheduler>>
vars == <<activityVars, entries, syncVars>>

-----------------------------------------------------------------------------
Idle == [op |-> "none", at |-> "idle", user |-> None, on |-> None, id |-> 0, identity |-> None,
         orders |-> 0, reference |-> None, kind |-> "none", waiting |-> FALSE,
         answer |-> "none", outcome |-> "none"]

Places ==
  {"idle", "key", "locking", "reading", "unpausing", "creating",
   "order", "marking", "awaiting", "resuming", "settling", "saving", "finishing", "recording",
   "failing", "noting", "pausing", "closing", "deleting", "unlocking", "leaving"}

RunState ==
  [op : Triggers \cup {"none", "delete"},
   at : Places,
   user : Users \cup {None},
   on : Connections \cup {None},
   id : RunIds \cup {0},
   identity : Identities \cup {None},          \* of the connection as the run read it
   orders : 0 .. Orders,                       \* orders still to do
   reference : References \cup {None},         \* of the order's newest challenge
   kind : Kinds \cup {"none"},                 \* of the order's newest challenge
   waiting : BOOLEAN,                          \* the prompt's "waiting for a TAN" in the row
   answer : {"none", "pending", "tan", "poll", "expired"},   \* the request's promise
   outcome : {"none"} \cup Failed]

SchedulerState ==
  [at : {"idle", "users", "connections"},
   todo : SUBSET Users,
   user : Users \cup {None},
   due : SUBSET Connections,
   stopped : BOOLEAN]

TypeOK ==
  /\ ActivityTypeOK
  /\ TansTypeOK
  /\ connection \in [Users -> [Connections -> ConnectionRow \cup {None}]]
  /\ row \in [Users -> [RunIds -> RunRow \cup {None}]]
  /\ lastId \in [Users -> RunIds \cup {0}]
  /\ lock \in [Users -> [Connections -> Runners \cup {None}]]
  /\ run \in [Runners -> RunState]
  /\ scheduler \in SchedulerState

NewConnection(i) == [paused |-> FALSE, last |-> None, identity |-> i, bankData |-> None]

Resting == [at |-> "idle", todo |-> {}, user |-> None, due |-> {}, stopped |-> FALSE]

\* The connections exist, and none has been synced.
Init ==
  /\ ActivityInit
  /\ TansInit
  /\ connection \in [Users -> [Connections -> {NewConnection(i) : i \in Identities}]]
  /\ row = [u \in Users |-> [id \in RunIds |-> None]]
  /\ lastId = [u \in Users |-> 0]
  /\ lock = [u \in Users |-> [c \in Connections |-> None]]
  /\ run = [r \in Runners |-> Idle]
  /\ scheduler = Resting

-----------------------------------------------------------------------------
(* Moves of a runner. *)

At(r, p) == run[r].at = p

Go(r, p) == run' = [run EXCEPT ![r].at = p]

\* The run throws: recordFailures takes over, and what the order had in hand is gone.
Fail(r, outcome) ==
  run' = [run EXCEPT ![r].at = "failing", ![r].outcome = outcome, ![r].orders = 0,
                     ![r].reference = None, ![r].kind = "none", ![r].waiting = FALSE,
                     ![r].identity = None]

\* Nothing is left to do but to give back what the run holds.
GiveBack(r, p) ==
  run' = [run EXCEPT ![r] = [Idle EXCEPT !.op = run[r].op, !.at = p, !.user = run[r].user,
                                         !.on = run[r].on, !.id = run[r].id]]

\* UPDATE hf_bank_connection SET field = value WHERE id = the run's connection
SetConnection(r, changed(_)) ==
  LET u == run[r].user
      c == run[r].on
  IN connection' = IF connection[u][c] = None THEN connection
                   ELSE [connection EXCEPT ![u][c] = changed(@)]

\* UPDATE hf_sync_run SET status = s WHERE id = the run's
SetStatus(r, s) ==
  LET u == run[r].user
      id == run[r].id
  IN row' = IF row[u][id] = None THEN row ELSE [row EXCEPT ![u][id].status = s]

\* ... AND finished_at IS NULL
SetWaiting(r, s) ==
  IF row[run[r].user][run[r].id] # None /\ row[run[r].user][run[r].id].status \in Unfinished
  THEN SetStatus(r, s)
  ELSE UNCHANGED row

-----------------------------------------------------------------------------
(* begin: busy mark, key, lock, connection, pause, run row. *)

Start(r, op, u, c) ==
  /\ At(r, "idle")
  /\ MarkUserBusy(u)
  /\ run' = [run EXCEPT ![r] = [Idle EXCEPT !.op = op, !.at = "key", !.user = u, !.on = c]]
  /\ UNCHANGED <<entries, connection, row, lastId, lock>>

\* POST /:id/sync and POST /:id/discover; refused while the user is reconfiguring.
RequestRun(r) ==
  /\ r # Scheduler
  /\ \E op \in {"manual", "discover"}, u \in Users, c \in Connections : Start(r, op, u, c)
  /\ UNCHANGED scheduler

\* What the key source does is UserKeys' matter.
GetKey(r) ==
  /\ At(r, "key")
  /\ Go(r, "locking") \/ Go(r, "leaving")
  /\ UNCHANGED <<activityVars, entries, connection, row, lastId, lock, scheduler>>

\* Mutant: the answer 0 of GET_LOCK is not looked at.
TakeLockAnyway(r) ==
  /\ At(r, "locking")
  /\ lock' = [lock EXCEPT ![run[r].user][run[r].on] = r]
  /\ Go(r, IF run[r].op = "delete" THEN "deleting" ELSE "reading")
  /\ UNCHANGED <<activityVars, entries, connection, row, lastId, scheduler>>

TakeLock(r) ==
  /\ At(r, "locking")
  /\ lock[run[r].user][run[r].on] = None
  /\ lock' = [lock EXCEPT ![run[r].user][run[r].on] = r]
  /\ Go(r, IF run[r].op = "delete" THEN "deleting" ELSE "reading")
  /\ UNCHANGED <<activityVars, entries, connection, row, lastId, scheduler>>

\* ConflictError, or no connection from the pool.
LockFails(r) ==
  /\ At(r, "locking")
  /\ IF run[r].op = "delete" THEN run' = [run EXCEPT ![r] = Idle] ELSE Go(r, "leaving")
  /\ UNCHANGED <<activityVars, entries, connection, row, lastId, lock, scheduler>>

\* Mutant: a manual run leaves the pause alone.
ReadConnectionPaused(r) ==
  /\ At(r, "reading")
  /\ LET found == connection[run[r].user][run[r].on]
     IN IF found = None THEN GiveBack(r, "unlocking")
        ELSE run' = [run EXCEPT ![r].at = "creating", ![r].identity = found.identity]
  /\ UNCHANGED <<activityVars, entries, connection, row, lastId, lock, scheduler>>

ReadConnection(r) ==
  /\ At(r, "reading")
  /\ LET found == connection[run[r].user][run[r].on]
     IN IF found = None THEN GiveBack(r, "unlocking")
        ELSE run' = [run EXCEPT ![r].at = IF run[r].op = "manual" THEN "unpausing" ELSE "creating",
                                ![r].identity = found.identity]
  /\ UNCHANGED <<activityVars, entries, connection, row, lastId, lock, scheduler>>

ClearPause(r) ==
  /\ At(r, "unpausing")
  /\ SetConnection(r, LAMBDA x : [x EXCEPT !.paused = FALSE])
  /\ Go(r, "creating")
  /\ UNCHANGED <<activityVars, entries, row, lastId, lock, scheduler>>

CreateRow(r) ==
  LET u == run[r].user
      id == lastId[u] + 1
  IN /\ At(r, "creating")
     /\ id \in RunIds
     /\ lastId' = [lastId EXCEPT ![u] = id]
     /\ row' = [row EXCEPT ![u][id] =
                  [connection |-> run[r].on, trigger |-> run[r].op, status |-> "running"]]
     /\ run' = [run EXCEPT ![r].at = "order", ![r].id = id, ![r].orders = Orders]
     /\ UNCHANGED <<activityVars, entries, connection, lock, scheduler>>

\* A query of begin failed; past the bound of ids every insert does.
BeginFails(r) ==
  /\ run[r].at \in {"reading", "unpausing", "creating"}
  /\ GiveBack(r, "unlocking")
  /\ UNCHANGED <<activityVars, entries, connection, row, lastId, lock, scheduler>>

-----------------------------------------------------------------------------
(* An order: the bank answers, asks for a TAN, or refuses. *)

\* The challenge the bank sends: of the same order reference, or a new one.
Asks(r, challenge) ==
  IF run[r].reference = None THEN challenge.reference = 1
  ELSE challenge.reference \in {run[r].reference, run[r].reference + 1}

AfterRequest(r, challenge, answer) ==
  run' = [run EXCEPT ![r].at = IF run[r].waiting THEN "awaiting" ELSE "marking",
                     ![r].waiting = TRUE,
                     ![r].kind = challenge.kind,
                     ![r].reference = challenge.reference,
                     ![r].answer = answer]

\* The request is registered first; the row follows unless it says so already.  A run whose entry
\* has a waiter ("already waits for a TAN") fails: that happens only when ids collide.
BankAsks(r) ==
  /\ At(r, "order")
  /\ IF HasWaiter(run[r].id)
     THEN Fail(r, "error") /\ UNCHANGED entries
     ELSE \E challenge \in [kind : Kinds, reference : References] :
            /\ Asks(r, challenge)
            /\ \/ /\ Register(run[r].id, r, challenge)
                  /\ AfterRequest(r, challenge, "pending")
               \/ /\ RegisterTooLate(run[r].id, challenge)
                  /\ AfterRequest(r, challenge, "expired")
  /\ UNCHANGED <<activityVars, connection, row, lastId, lock, scheduler>>

MarkWaiting(r) ==
  /\ At(r, "marking")
  /\ SetWaiting(r, "tan_required")
  /\ Go(r, "awaiting")
  /\ UNCHANGED <<activityVars, entries, connection, lastId, lock, scheduler>>

\* The prompt goes on with the TAN, to poll the bank, or with the TanTimeoutError.
TakeAnswer(r) ==
  /\ At(r, "awaiting")
  /\ run[r].answer \in {"tan", "poll", "expired"}
  /\ \/ /\ run[r].answer = "expired"
        /\ Fail(r, "tan_expired")
     \/ /\ run[r].answer # "expired"
        /\ run[r].kind = "decoupled"
        /\ run' = [run EXCEPT ![r].at = "order", ![r].answer = "none"]
     \/ /\ run[r].answer # "expired"
        /\ run[r].kind # "decoupled"
        /\ run' = [run EXCEPT ![r].at = "resuming", ![r].answer = "none", ![r].waiting = FALSE]
  /\ UNCHANGED <<activityVars, entries, connection, row, lastId, lock, scheduler>>

Resume(r) ==
  /\ At(r, "resuming")
  /\ SetWaiting(r, "running")
  /\ Go(r, "order")
  /\ UNCHANGED <<activityVars, entries, connection, lastId, lock, scheduler>>

\* Mutant: the row keeps saying that a TAN is required.
SettleRegistryOnly(r) ==
  /\ At(r, "order")
  /\ Release(run[r].id)
  /\ run' = [run EXCEPT ![r].at = "saving", ![r].reference = None, ![r].kind = "none",
                        ![r].waiting = FALSE]
  /\ UNCHANGED <<activityVars, connection, row, lastId, lock, scheduler>>

\* The bank asks no more: settled.
Settle(r) ==
  /\ At(r, "order")
  /\ Release(run[r].id)
  /\ run' = [run EXCEPT ![r].at = IF run[r].waiting THEN "settling" ELSE "saving",
                        ![r].reference = None, ![r].kind = "none", ![r].waiting = FALSE]
  /\ UNCHANGED <<activityVars, connection, row, lastId, lock, scheduler>>

ShowSettled(r) ==
  /\ At(r, "settling")
  /\ SetWaiting(r, "running")
  /\ Go(r, "saving")
  /\ UNCHANGED <<activityVars, entries, connection, lastId, lock, scheduler>>

\* The order succeeded and the next one or the end follows, or the bank refused it.
SaveBankingInformation(r) ==
  /\ At(r, "saving")
  /\ SetConnection(r, LAMBDA x : [x EXCEPT !.bankData = run[r].identity])
  /\ \/ run' = [run EXCEPT ![r].at = IF run[r].orders = 1 THEN "finishing" ELSE "order",
                           ![r].orders = @ - 1]
     \/ Fail(r, "error")
  /\ UNCHANGED <<activityVars, entries, row, lastId, lock, scheduler>>

-----------------------------------------------------------------------------
(* The end of a run. *)

FinishRun(r) ==
  /\ At(r, "finishing")
  /\ SetStatus(r, "success")
  /\ Go(r, IF run[r].op = "discover" THEN "closing" ELSE "recording")
  /\ UNCHANGED <<activityVars, entries, connection, lastId, lock, scheduler>>

RecordSuccess(r) ==
  /\ At(r, "recording")
  /\ SetConnection(r, LAMBDA x : [x EXCEPT !.last = "success"])
  /\ Go(r, "closing")
  /\ UNCHANGED <<activityVars, entries, row, lastId, lock, scheduler>>

\* The PIN, the bank, a merge or a query: a success already in the row is no reason to stop.
RunFails(r) ==
  /\ run[r].at \in {"order", "marking", "resuming", "settling", "saving", "finishing", "recording"}
  /\ Fail(r, "error")
  /\ UNCHANGED <<activityVars, entries, connection, row, lastId, lock, scheduler>>

\* Mutant: only a sync's failure is recorded.
FinishFailedSync(r) ==
  /\ At(r, "failing")
  /\ IF run[r].op = "discover" THEN UNCHANGED row ELSE SetStatus(r, run[r].outcome)
  /\ Go(r, IF run[r].op = "discover" THEN "closing" ELSE "noting")
  /\ UNCHANGED <<activityVars, entries, connection, lastId, lock, scheduler>>

FinishFailed(r) ==
  /\ At(r, "failing")
  /\ SetStatus(r, run[r].outcome)
  /\ Go(r, IF run[r].op = "discover" THEN "closing" ELSE "noting")
  /\ UNCHANGED <<activityVars, entries, connection, lastId, lock, scheduler>>

\* Mutant: an expired TAN pauses the connection and nothing else.
RecordErrorOnly(r) ==
  /\ At(r, "noting")
  /\ IF run[r].outcome = "tan_expired" THEN UNCHANGED connection
     ELSE SetConnection(r, LAMBDA x : [x EXCEPT !.last = run[r].outcome])
  /\ Go(r, IF run[r].outcome = "tan_expired" /\ run[r].op = "scheduled" THEN "pausing" ELSE "closing")
  /\ UNCHANGED <<activityVars, entries, row, lastId, lock, scheduler>>

RecordFailure(r) ==
  /\ At(r, "noting")
  /\ SetConnection(r, LAMBDA x : [x EXCEPT !.last = run[r].outcome])
  /\ Go(r, IF run[r].outcome = "tan_expired" /\ run[r].op = "scheduled" THEN "pausing" ELSE "closing")
  /\ UNCHANGED <<activityVars, entries, row, lastId, lock, scheduler>>

Pause(r) ==
  /\ At(r, "pausing")
  /\ SetConnection(r, LAMBDA x : [x EXCEPT !.paused = TRUE])
  /\ Go(r, "closing")
  /\ UNCHANGED <<activityVars, entries, row, lastId, lock, scheduler>>

\* Recording the failure failed too.
RecordingFails(r) ==
  /\ "recordFails" \in Faults
  /\ run[r].at \in {"failing", "noting", "pausing"}
  /\ Go(r, "closing")
  /\ UNCHANGED <<activityVars, entries, connection, row, lastId, lock, scheduler>>

\* Mutant: the prompt is released only when the order is settled.
CloseWithoutRelease(r) ==
  /\ At(r, "closing")
  /\ GiveBack(r, "unlocking")
  /\ UNCHANGED <<activityVars, entries, connection, row, lastId, lock, scheduler>>

Close(r) ==
  /\ At(r, "closing")
  /\ Release(run[r].id)
  /\ GiveBack(r, "unlocking")
  /\ UNCHANGED <<activityVars, connection, row, lastId, lock, scheduler>>

\* RELEASE_LOCK, or the connection is destroyed: the lock is free either way.
Unlock(r) ==
  /\ At(r, "unlocking")
  /\ lock' = [lock EXCEPT ![run[r].user][run[r].on] = None]
  /\ IF run[r].op = "delete" THEN run' = [run EXCEPT ![r] = Idle] ELSE Go(r, "leaving")
  /\ UNCHANGED <<activityVars, entries, connection, row, lastId, scheduler>>

Leave(r) ==
  /\ At(r, "leaving")
  /\ UnmarkUserBusy(run[r].user)
  /\ run' = [run EXCEPT ![r] = Idle]
  /\ UNCHANGED <<entries, connection, row, lastId, lock, scheduler>>

-----------------------------------------------------------------------------
(* Other requests. *)

\* DELETE /:id is no busy run of its user.
RequestDelete(r) ==
  /\ r # Scheduler
  /\ At(r, "idle")
  /\ \E u \in Users, c \in Connections :
       run' = [run EXCEPT ![r] = [Idle EXCEPT !.op = "delete", !.at = "locking",
                                              !.user = u, !.on = c]]
  /\ UNCHANGED <<activityVars, entries, connection, row, lastId, lock, scheduler>>

\* With its rows, or the delete fails.
DeleteConnection(r) ==
  LET u == run[r].user
      c == run[r].on
  IN /\ At(r, "deleting")
     /\ \/ /\ connection' = [connection EXCEPT ![u][c] = None]
           /\ row' = [row EXCEPT ![u] = [id \in RunIds |->
                IF @[id] # None /\ @[id].connection = c THEN None ELSE @[id]]]
        \/ UNCHANGED <<connection, row>>
     /\ Go(r, "unlocking")
     /\ UNCHANGED <<activityVars, entries, lastId, lock, scheduler>>

\* PUT /:id in one transaction, at any time: another bank identity drops the stored data; any
\* other setting changes nothing that is looked at here.
UpdateConnection(u, c) ==
  LET old == connection[u][c]
  IN /\ old # None
     /\ \E i \in Identities \ {old.identity} :
          connection' = [connection EXCEPT ![u][c].identity = i, ![u][c].bankData = None]
     /\ UNCHANGED <<activityVars, entries, row, lastId, lock, run, scheduler>>

\* A change of the user's database or key (see UserKeys).
Reconfigure(u) ==
  /\ BeginReconfiguring(u) \/ EndReconfiguring(u)
  /\ UNCHANGED <<entries, syncVars>>

\* Whoever's request it was: the registry resolves its promise.
Resolve(id, answer) == run' = [run EXCEPT ![entries[id].waiter].answer = answer]

\* POST /runs/:id/tan: a typed TAN, or "I approved it".
AnswerTan(id) ==
  /\ Wake(id)
  /\ Resolve(id, IF entries[id].kind = "decoupled" THEN "poll" ELSE "tan")
  /\ UNCHANGED <<activityVars, connection, row, lastId, lock, scheduler>>

-----------------------------------------------------------------------------
(* Timers. *)

\* The poll delay of a decoupled challenge is over.
PollDue(id) ==
  /\ entries[id].kind = "decoupled"
  /\ ~entries[id].expired
  /\ Wake(id)
  /\ Resolve(id, "poll")
  /\ UNCHANGED <<activityVars, connection, row, lastId, lock, scheduler>>

TanExpires(id) ==
  /\ Expire(id)
  /\ Resolve(id, "expired")
  /\ UNCHANGED <<activityVars, connection, row, lastId, lock, scheduler>>

TimePasses(id) ==
  /\ DeadlinePasses(id)
  /\ UNCHANGED <<activityVars, syncVars>>

-----------------------------------------------------------------------------
(* The scheduler: one tick at a time, one user and one connection after the other. *)

Tick ==
  /\ scheduler.at = "idle"
  /\ ~scheduler.stopped
  /\ scheduler' = [scheduler EXCEPT !.at = "users", !.todo = Users]
  /\ UNCHANGED <<activityVars, entries, connection, row, lastId, lock, run>>

\* No key without the user, no usable database, or a failed query: the user is skipped.
SkipUser ==
  /\ scheduler.at = "users"
  /\ \E u \in scheduler.todo : scheduler' = [scheduler EXCEPT !.todo = @ \ {u}]
  /\ UNCHANGED <<activityVars, entries, connection, row, lastId, lock, run>>

\* Enabled, with a PIN, and the interval since the last sync over: any of those not paused.
MayBeDue(u) == {c \in Connections : connection[u][c] # None /\ ~connection[u][c].paused}

ListDue ==
  /\ scheduler.at = "users"
  /\ ~scheduler.stopped
  /\ \E u \in scheduler.todo : \E due \in SUBSET MayBeDue(u) :
       scheduler' = [scheduler EXCEPT !.at = "connections", !.todo = @ \ {u},
                                      !.user = u, !.due = due]
  /\ UNCHANGED <<activityVars, entries, connection, row, lastId, lock, run>>

StartDue ==
  /\ scheduler.at = "connections"
  /\ ~scheduler.stopped
  /\ \E c \in scheduler.due :
       /\ Start(Scheduler, "scheduled", scheduler.user, c)
       /\ scheduler' = [scheduler EXCEPT !.due = @ \ {c}]

\* Mutant: a refused mark is unmarked.
SkipBusyAndUnmark ==
  /\ scheduler.at = "connections"
  /\ At(Scheduler, "idle")
  /\ IsReconfiguring(scheduler.user)
  /\ \E c \in scheduler.due : scheduler' = [scheduler EXCEPT !.due = @ \ {c}]
  /\ busyRuns' = [busyRuns EXCEPT ![scheduler.user] = @ - 1]
  /\ UNCHANGED <<reconfiguring, entries, connection, row, lastId, lock, run>>

\* UserBusyError: the connection is skipped.
SkipBusy ==
  /\ scheduler.at = "connections"
  /\ At(Scheduler, "idle")
  /\ IsReconfiguring(scheduler.user)
  /\ \E c \in scheduler.due : scheduler' = [scheduler EXCEPT !.due = @ \ {c}]
  /\ UNCHANGED <<activityVars, entries, connection, row, lastId, lock, run>>

UserDone ==
  /\ scheduler.at = "connections"
  /\ At(Scheduler, "idle")
  /\ scheduler.due = {} \/ scheduler.stopped
  /\ scheduler' = [scheduler EXCEPT !.at = "users", !.user = None, !.due = {}]
  /\ UNCHANGED <<activityVars, entries, connection, row, lastId, lock, run>>

TickDone ==
  /\ scheduler.at = "users"
  /\ scheduler.todo = {} \/ scheduler.stopped
  /\ scheduler' = [scheduler EXCEPT !.at = "idle", !.todo = {}]
  /\ UNCHANGED <<activityVars, entries, connection, row, lastId, lock, run>>

-----------------------------------------------------------------------------
(* The process stops, gracefully or not, and starts again. *)

Stop ==
  /\ "restart" \in Faults
  /\ scheduler' = [scheduler EXCEPT !.stopped = TRUE]
  /\ UNCHANGED <<activityVars, entries, connection, row, lastId, lock, run>>

\* The rows stay as they are; the locks go with the database connections.
Restart ==
  /\ "restart" \in Faults
  /\ ForgetActivity
  /\ ForgetTans
  /\ lock' = [u \in Users |-> [c \in Connections |-> None]]
  /\ run' = [r \in Runners |-> Idle]
  /\ scheduler' = Resting
  /\ UNCHANGED <<connection, row, lastId>>

-----------------------------------------------------------------------------
BeginStep(r) ==
  GetKey(r) \/ TakeLock(r) \/ LockFails(r) \/ ReadConnection(r) \/ ClearPause(r) \/ CreateRow(r)
    \/ BeginFails(r)

OrderStep(r) ==
  BankAsks(r) \/ MarkWaiting(r) \/ TakeAnswer(r) \/ Resume(r) \/ Settle(r)
    \/ ShowSettled(r) \/ SaveBankingInformation(r)

EndStep(r) ==
  FinishRun(r) \/ RecordSuccess(r) \/ RunFails(r) \/ FinishFailed(r) \/ RecordFailure(r)
    \/ Pause(r) \/ Close(r) \/ Unlock(r) \/ Leave(r)

\* Everything a runner does once it has started.
RunStep(r) == BeginStep(r) \/ OrderStep(r) \/ EndStep(r) \/ DeleteConnection(r)

Timer(id) == PollDue(id) \/ TanExpires(id)

TickStep == SkipUser \/ ListDue \/ StartDue \/ SkipBusy \/ UserDone \/ TickDone

Next ==
  \/ \E r \in Runners : RequestRun(r) \/ RequestDelete(r) \/ RunStep(r) \/ RecordingFails(r)
  \/ \E u \in Users : Reconfigure(u) \/ \E c \in Connections : UpdateConnection(u, c)
  \/ \E id \in RunIds : AnswerTan(id) \/ Timer(id) \/ TimePasses(id)
  \/ Tick
  \/ TickStep
  \/ Stop
  \/ Restart

Spec == Init /\ [][Next]_vars

\* Every query and every order is answered or fails, timers fire and time passes.
Fairness ==
  /\ \A r \in Runners : WF_vars(RunStep(r))
  /\ \A id \in RunIds : WF_vars(Timer(id)) /\ WF_vars(TimePasses(id))
  /\ WF_vars(TickStep)

FairSpec == Spec /\ Fairness

-----------------------------------------------------------------------------
(* Properties. *)

\* The run has its row and holds its connection's lock.
Running(r) ==
  run[r].at \in {"order", "marking", "awaiting", "resuming", "settling", "saving", "finishing",
                 "recording", "failing", "noting", "pausing", "closing"}

\* A delete "never pulls the rows from under a running sync or discovery": its connection and its
\* own row stay until it has let go of the lock, and no other run is on the connection.
RunKeepsItsRows ==
  \A r \in Runners : Running(r) =>
    LET u == run[r].user
        c == run[r].on
    IN /\ lock[u][c] = r
       /\ connection[u][c] # None
       /\ row[u][run[r].id] # None
       /\ row[u][run[r].id].connection = c

\* Whoever answers run id's challenge reaches the run that waits, and the timer of the challenge
\* ends that run's wait: a pending request is the waiter of its run's entry, and no waiter is left
\* behind by a run that ended.
ChallengeReachesRun ==
  /\ \A r \in Runners : (Running(r) /\ run[r].answer = "pending")
       => entries[run[r].id].waiter = r
  /\ \A id \in RunIds : HasWaiter(id) =>
       LET r == entries[id].waiter IN Running(r) /\ run[r].id = id /\ run[r].answer = "pending"

\* The status a user sees: while a run is in progress its row says tan_required exactly while the
\* run waits for a TAN, polls of a decoupled one included.
RowShowsTheWait ==
  \A r \in Runners : run[r].at \in {"order", "awaiting", "saving", "finishing"} =>
    row[run[r].user][run[r].id].status = IF run[r].waiting THEN "tan_required" ELSE "running"

\* A run that ended has recorded how: an unfinished row belongs to a run in progress.
EndedRunsAreFinished ==
  \A u \in Users, id \in RunIds :
    (row[u][id] # None /\ row[u][id].status \in Unfinished)
      => \E r \in Runners : Running(r) /\ run[r].user = u /\ run[r].id = id

\* The rows of a connection's syncs, newest last.
Syncs(u, c) == {id \in RunIds : row[u][id] # None /\ row[u][id].connection = c
                                                  /\ row[u][id].trigger # "discover"}

Newest(ids) == CHOOSE id \in ids : \A other \in ids : other <= id

\* A connection shows the outcome of its newest sync, in a different table than the sync's row.
OutcomeShown ==
  \A u \in Users, c \in Connections :
    (lock[u][c] = None /\ connection[u][c] # None) =>
      connection[u][c].last =
        IF Syncs(u, c) = {} THEN None ELSE row[u][Newest(Syncs(u, c))].status

\* A connection is paused only as long as its newest sync is a scheduled one whose TAN expired:
\* a manual run clears the pause before its row exists.
PauseFits ==
  \A u \in Users, c \in Connections :
    (connection[u][c] # None /\ connection[u][c].paused) =>
      /\ Syncs(u, c) # {}
      /\ row[u][Newest(Syncs(u, c))].trigger = "scheduled"
      /\ row[u][Newest(Syncs(u, c))].status = "tan_expired"

\* The run table, seen as a log of live and ended runs.
Live(r) == run[r].id # 0 /\ (Running(r) \/ At(r, "unlocking"))

runLog ==
  [u \in Users |-> [id \in RunIds |->
     IF row[u][id] = None THEN None
     ELSE [connection |-> row[u][id].connection, status |-> row[u][id].status]]]

liveRuns == [u \in Users |-> {run[r].id : r \in {s \in Runners : run[s].user = u /\ Live(s)}}]

Log == INSTANCE RunLog WITH log <- runLog, live <- liveRuns

LogSpec == Log!LogSpec

\* A request for a TAN "rejects with a TanTimeoutError once the challenge has been open for the
\* timeout" (TanPrompt): nobody waits for a TAN forever.
TanWaitEnds == \A r \in Runners : run[r].answer = "pending" ~> run[r].answer # "pending"

\* Every run and every delete ends and gives back its lock and its busy mark; a tick ends, so the
\* next one can start.
EveryRunEnds ==
  /\ \A r \in Runners : run[r].at # "idle" ~> run[r].at = "idle"
  /\ scheduler.at # "idle" ~> scheduler.at = "idle"
=============================================================================
