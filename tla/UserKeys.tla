------------------------------ MODULE UserKeys ------------------------------
(***************************************************************************)
(* The users' keys for the bank PINs (packages/backend/src/sync/           *)
(* user-keys.ts) with everything that works on them at once: the key       *)
(* operations, each behind the earlier ones of its user; the requests and  *)
(* scheduled runs that encrypt or decrypt a PIN as a busy run; and the     *)
(* reconfigurations (change key, reset key, save the database).            *)
(*                                                                         *)
(* A job is one request or scheduled run of its owner.  One action is one  *)
(* stretch of a handler between two awaits, so jobs interleave wherever    *)
(* the code lets them.  The key record and the database settings live in   *)
(* the app database, the PINs in the user's own database, the unlocked key *)
(* and the queue in memory.                                                *)
(*                                                                         *)
(* A key stands for itself, for its check value and for its wrapped copy.  *)
(* A stored PIN is the key it is encrypted under.                          *)
(***************************************************************************)
EXTENDS UserActivity, Sequences, FiniteSets

CONSTANTS
  Jobs,         \* requests and scheduled runs that may be in flight at once
  Owner,        \* Owner[j]: the user job j belongs to
  Keys,         \* 32-byte user keys
  Connections,  \* ids of bank connections in a user's database
  Databases,    \* Hibiscus databases (host, port, name)
  Home,         \* Home[u]: the database user u works with
  None,         \* null
  Faults        \* what may happen beyond the errors the code handles

KeyConstants ==
  /\ IsFiniteSet(Jobs)
  /\ Owner \in [Jobs -> Users]
  /\ Home \in [Users -> Databases]
  /\ \A u, v \in Users : Home[u] = Home[v] => u = v
  /\ None \notin Keys \cup Databases
  /\ Faults \subseteq {"restart", "lostAck", "restoreFails", "switch", "setup"}

ASSUME KeyAssumption == KeyConstants

VARIABLES
  record,       \* record[u]: key_mode, key_check and key_wrapped_* of hf_app_user
  database,     \* database[u]: db_* of hf_app_user
  pins,         \* pins[d][c]: committed pin_* of hf_bank_connection
  unlocked,     \* UserKeyStore.keys
  queue,        \* UserKeys.queues: the operations on the user's key, oldest first
  job           \* the local state of every job

keyVars == <<record, database, pins, unlocked, queue, job>>
vars == <<activityVars, keyVars>>

\* A definition marked as a mutant is no part of the specification: it is a definition below it
\* with a plausible bug, and a run of the mutated specification must violate a property.

-----------------------------------------------------------------------------
Modes == {"manual", "memory", "stored"}

KeyRecord == [mode : Modes, check : Keys, wrapped : Keys \cup {None}]

NoRecord == [mode |-> "none", check |-> None, wrapped |-> None]

NewRecord(m, k) == [mode |-> m, check |-> k, wrapped |-> IF m = "stored" THEN k ELSE None]

Shared == {"write", "run"}            \* jobs that are busy runs of their user
Rekeying == {"change", "reset"}       \* key operations that reconfigure
Operations == {"create", "mode", "unlock", "lock"}

Idle == [op |-> "none", at |-> "idle", db |-> None, read |-> NoRecord,
         key |-> None, pin |-> None, rows |-> {}]

JobState ==
  [op   : {"none", "save"} \cup Shared \cup Rekeying \cup Operations,
   at   : {"idle", "acquired", "queued", "begun", "read", "resolved", "written", "running",
           "reencrypted", "keyWritten", "commitFailed", "failed", "rekeyed", "cleared",
           "deleted", "saved"},
   db   : Databases \cup {None},      \* the database of the job's user context
   read : KeyRecord \cup {NoRecord},  \* the key record the operation read
   key  : Keys \cup {None},           \* the key in hand: resolved, new, or to keep unlocked
   pin  : Keys \cup {None},           \* a run's copy of its connection's PIN
   rows : SUBSET Connections]         \* the rows an open PIN transaction has locked

TypeOK ==
  /\ ActivityTypeOK
  /\ record \in [Users -> KeyRecord \cup {NoRecord}]
  /\ database \in [Users -> Databases \cup {None}]
  /\ pins \in [Databases -> [Connections -> Keys \cup {None}]]
  /\ unlocked \in [Users -> Keys \cup {None}]
  /\ queue \in [Users -> Seq(Jobs)]
  /\ job \in [Jobs -> JobState]

Init ==
  /\ ActivityInit
  /\ record = [u \in Users |-> NoRecord]
  /\ database = [u \in Users |-> IF "setup" \in Faults THEN None ELSE Home[u]]
  /\ pins = [d \in Databases |-> [c \in Connections |-> None]]
  /\ unlocked = [u \in Users |-> None]
  /\ queue = [u \in Users |-> <<>>]
  /\ job = [j \in Jobs |-> Idle]

-----------------------------------------------------------------------------
(* The queue of one user's key operations. *)

AtHead(j) == queue[Owner[j]] # <<>> /\ Head(queue[Owner[j]]) = j

Enqueue(j) == queue' = [queue EXCEPT ![Owner[j]] = Append(@, j)]

LeaveQueue(j) == queue' = [queue EXCEPT ![Owner[j]] = Tail(@)]

Waiting(j) == job[j].at = "queued" /\ AtHead(j)

Finish(j) == job' = [job EXCEPT ![j] = Idle]

\* The pool of a user context: a save of another database has ended it (see UserPools).
PoolUsable(j) == job[j].db # None /\ database[Owner[j]] = job[j].db

\* No open PIN transaction holds the row.
RowFree(d, c) == \A k \in Jobs : ~(job[k].db = d /\ c \in job[k].rows)

\* update hf_app_user ... where key_check = expected
ReplaceRecord(u, expected, next) ==
  /\ record[u] # NoRecord
  /\ record[u].check = expected
  /\ record' = [record EXCEPT ![u] = next]

-----------------------------------------------------------------------------
(* Requests arrive. *)

\* The user's database is looked up before the handler proper starts.
Acquire(j) ==
  /\ job[j] = Idle
  /\ \E op \in Shared \cup Rekeying :
       /\ op \in Shared => database[Owner[j]] # None
       /\ job' = [job EXCEPT ![j].op = op, ![j].at = "acquired", ![j].db = database[Owner[j]]]
  /\ UNCHANGED <<activityVars, record, database, pins, unlocked, queue>>

\* Busy mark and the key operation's place in the queue, in one turn.
StartShared(j) ==
  /\ job[j].op \in Shared
  /\ job[j].at = "acquired"
  /\ MarkUserBusy(Owner[j])
  /\ Enqueue(j)
  /\ job' = [job EXCEPT ![j].at = "queued"]
  /\ UNCHANGED <<record, database, pins, unlocked>>

\* Mutant: the mark is inside the try whose finally unmarks.
RefuseSharedAndUnmark(j) ==
  /\ job[j].op \in Shared
  /\ job[j].at = "acquired"
  /\ IsReconfiguring(Owner[j])
  /\ busyRuns' = [busyRuns EXCEPT ![Owner[j]] = @ - 1]
  /\ Finish(j)
  /\ UNCHANGED <<reconfiguring, record, database, pins, unlocked, queue>>

RefuseShared(j) ==
  /\ job[j].op \in Shared
  /\ job[j].at = "acquired"
  /\ IsReconfiguring(Owner[j])
  /\ Finish(j)
  /\ UNCHANGED <<activityVars, record, database, pins, unlocked, queue>>

SubmitRekeying(j) ==
  /\ job[j].op \in Rekeying
  /\ job[j].at = "acquired"
  /\ Enqueue(j)
  /\ job' = [job EXCEPT ![j].at = "queued"]
  /\ UNCHANGED <<activityVars, record, database, pins, unlocked>>

\* POST /, PUT /mode, POST /unlock and POST /lock need no database.
SubmitOperation(j) ==
  /\ job[j] = Idle
  /\ Enqueue(j)
  /\ \E op \in Operations : job' = [job EXCEPT ![j].op = op, ![j].at = "queued"]
  /\ UNCHANGED <<activityVars, record, database, pins, unlocked>>

-----------------------------------------------------------------------------
(* resolve, and what its callers do with the key. *)

ReadRecord(j) ==
  /\ job[j].op \in Shared \cup {"mode", "unlock"}
  /\ Waiting(j)
  /\ record[Owner[j]] # NoRecord
  /\ job' = [job EXCEPT ![j].at = "read", ![j].read = record[Owner[j]]]
  /\ UNCHANGED <<activityVars, record, database, pins, unlocked, queue>>

\* The key of a stored record, the unlocked one, or the entered one once it was checked.
Resolve(j) ==
  LET u == Owner[j]
      r == job[j].read
      Take(k) == job' = [job EXCEPT ![j].at = "resolved", ![j].key = k]
  IN /\ job[j].op \in Shared
     /\ job[j].at = "read"
     /\ \/ /\ r.mode = "stored"
           /\ r.wrapped = r.check
           /\ Take(r.wrapped)
           /\ UNCHANGED unlocked
        \/ /\ r.mode = "memory"
           /\ unlocked[u] # None
           /\ Take(unlocked[u])
           /\ UNCHANGED unlocked
        \/ /\ \/ r.mode = "manual"
              \/ r.mode = "memory" /\ unlocked[u] = None
           /\ Take(r.check)
           /\ \/ UNCHANGED unlocked
              \/ /\ r.mode = "memory"          \* keepUnlocked
                 /\ unlocked' = [unlocked EXCEPT ![u] = r.check]
     /\ LeaveQueue(j)
     /\ UNCHANGED <<activityVars, record, database, pins>>

\* Mutant: a rejected operation keeps its place in the queue.
ResolveFailsInQueue(j) ==
  /\ job[j].op \in Shared
  /\ job[j].at = "read" \/ Waiting(j)
  /\ UnmarkUserBusy(Owner[j])
  /\ Finish(j)
  /\ UNCHANGED <<record, database, pins, unlocked, queue>>

\* No key, a wrong or missing entered key, or a failed query.
ResolveFails(j) ==
  /\ job[j].op \in Shared
  /\ job[j].at = "read" \/ Waiting(j)
  /\ LeaveQueue(j)
  /\ UnmarkUserBusy(Owner[j])
  /\ Finish(j)
  /\ UNCHANGED <<record, database, pins, unlocked>>

\* A connection is created, or its PIN replaced; the key is zeroed once the PIN is encrypted.
WritePin(j) ==
  /\ job[j].op = "write"
  /\ job[j].at = "resolved"
  /\ PoolUsable(j)
  /\ \E c \in Connections :
       /\ RowFree(job[j].db, c)
       /\ pins' = [pins EXCEPT ![job[j].db][c] = job[j].key]
  /\ job' = [job EXCEPT ![j].at = "written", ![j].key = None]
  /\ UNCHANGED <<activityVars, record, database, unlocked, queue>>

\* A run reads its connection under the lock and keeps the key until it ends.
ReadConnection(j) ==
  /\ job[j].op = "run"
  /\ job[j].at = "resolved"
  /\ PoolUsable(j)
  /\ \E c \in Connections :
       job' = [job EXCEPT ![j].at = "running", ![j].pin = pins[job[j].db][c]]
  /\ UNCHANGED <<activityVars, record, database, pins, unlocked, queue>>

\* The run ended, the write is done or failed (missing row, conflict, lock held).
FinishShared(j) ==
  /\ job[j].op \in Shared
  /\ job[j].at \in {"resolved", "written", "running"}
  /\ UnmarkUserBusy(Owner[j])
  /\ Finish(j)
  /\ UNCHANGED <<record, database, pins, unlocked, queue>>

-----------------------------------------------------------------------------
(* create, setMode, unlock, lock. *)

CreateKey(j) ==
  /\ job[j].op = "create"
  /\ Waiting(j)
  /\ record[Owner[j]] = NoRecord
  /\ \E m \in Modes, k \in Keys :
       /\ record' = [record EXCEPT ![Owner[j]] = NewRecord(m, k)]
       /\ job' = [job EXCEPT ![j].at = "saved", ![j].key = IF m = "memory" THEN k ELSE None]
  /\ UNCHANGED <<activityVars, database, pins, unlocked, queue>>

\* The key to keep unlocked when switching to memory mode.
KeyAtHand(u, r, entered) ==
  IF entered # None THEN entered
  ELSE CASE r.mode = "stored" -> r.wrapped
         [] r.mode = "memory" -> unlocked[u]
         [] OTHER -> None

SaveMode(j) ==
  LET u == Owner[j]
      r == job[j].read
  IN /\ job[j].op = "mode"
     /\ job[j].at = "read"
     /\ \E m \in Modes, entered \in {None, r.check} :
          /\ m = "stored" => entered # None
          /\ ReplaceRecord(u, r.check, NewRecord(m, r.check))
          /\ job' = [job EXCEPT ![j].at = "saved",
                       ![j].key = IF m = "memory" THEN KeyAtHand(u, r, entered) ELSE None]
     /\ UNCHANGED <<activityVars, database, pins, unlocked, queue>>

\* A new key is unlocked in memory mode only; a mode switch keeps or forgets the unlocked key.
FinishOperation(j) ==
  /\ job[j].op \in {"create", "mode"}
  /\ job[j].at = "saved"
  /\ IF job[j].op = "create" /\ job[j].key = None
     THEN UNCHANGED unlocked
     ELSE unlocked' = [unlocked EXCEPT ![Owner[j]] = job[j].key]
  /\ LeaveQueue(j)
  /\ Finish(j)
  /\ UNCHANGED <<activityVars, record, database, pins>>

Unlock(j) ==
  /\ job[j].op = "unlock"
  /\ job[j].at = "read"
  /\ job[j].read.mode = "memory"
  /\ unlocked' = [unlocked EXCEPT ![Owner[j]] = job[j].read.check]
  /\ LeaveQueue(j)
  /\ Finish(j)
  /\ UNCHANGED <<activityVars, record, database, pins>>

Lock(j) ==
  /\ job[j].op = "lock"
  /\ Waiting(j)
  /\ unlocked' = [unlocked EXCEPT ![Owner[j]] = None]
  /\ LeaveQueue(j)
  /\ Finish(j)
  /\ UNCHANGED <<activityVars, record, database, pins>>

\* No key or one already, a wrong or missing entered key, the wrong mode, or a failed query.
OperationFails(j) ==
  /\ job[j].op \in {"create", "mode", "unlock"}
  /\ job[j].at = "read" \/ Waiting(j)
  /\ LeaveQueue(j)
  /\ Finish(j)
  /\ UNCHANGED <<activityVars, record, database, pins, unlocked>>

-----------------------------------------------------------------------------
(* change and reset: the user's exclusive reconfiguration, inside the queue. *)

BeginRekeying(j) ==
  /\ job[j].op \in Rekeying
  /\ Waiting(j)
  /\ BeginReconfiguring(Owner[j])
  /\ job' = [job EXCEPT ![j].at = "begun"]
  /\ UNCHANGED <<record, database, pins, unlocked, queue>>

RefuseRekeying(j) ==
  /\ job[j].op \in Rekeying
  /\ Waiting(j)
  /\ IsUserBusy(Owner[j]) \/ IsReconfiguring(Owner[j])
  /\ LeaveQueue(j)
  /\ Finish(j)
  /\ UNCHANGED <<activityVars, record, database, pins, unlocked>>

\* The old key was entered right; the new one is generated or entered.
CheckOldKey(j) ==
  /\ job[j].op = "change"
  /\ job[j].at = "begun"
  /\ record[Owner[j]] # NoRecord
  /\ \E newKey \in Keys :
       job' = [job EXCEPT ![j].at = "read", ![j].read = record[Owner[j]], ![j].key = newKey]
  /\ UNCHANGED <<activityVars, record, database, pins, unlocked, queue>>

\* Mutant: the select misses some of the rows.
ReencryptSomePins(j) ==
  LET stored == {c \in Connections : pins[job[j].db][c] # None}
  IN /\ job[j].op = "change"
     /\ job[j].at = "read"
     /\ PoolUsable(j)
     /\ \A c \in stored : pins[job[j].db][c] = job[j].read.check
     /\ \E some \in SUBSET stored :
          job' = [job EXCEPT ![j].at = "reencrypted", ![j].rows = some]
     /\ UNCHANGED <<activityVars, record, database, pins, unlocked, queue>>

\* select ... for update, and every PIN decrypts with the old key.
ReencryptPins(j) ==
  LET stored == {c \in Connections : pins[job[j].db][c] # None}
  IN /\ job[j].op = "change"
     /\ job[j].at = "read"
     /\ PoolUsable(j)
     /\ \A c \in stored : pins[job[j].db][c] = job[j].read.check
     /\ job' = [job EXCEPT ![j].at = "reencrypted", ![j].rows = stored]
     /\ UNCHANGED <<activityVars, record, database, pins, unlocked, queue>>

\* In beforeCommit; without a database it is all there is to do.
WriteKey(j) ==
  LET next == NewRecord(job[j].read.mode, job[j].key)
  IN /\ job[j].op = "change"
     /\ ReplaceRecord(Owner[j], job[j].read.check, next)
     /\ \/ /\ job[j].at = "reencrypted"
           /\ job' = [job EXCEPT ![j].at = "keyWritten"]
        \/ /\ job[j].at = "read"
           /\ job[j].db = None
           /\ job' = [job EXCEPT ![j].at = "rekeyed"]
     /\ UNCHANGED <<activityVars, database, pins, unlocked, queue>>

CommitPins(j) ==
  pins' = [pins EXCEPT ![job[j].db] =
             [c \in Connections |-> IF c \in job[j].rows THEN job[j].key ELSE @[c]]]

Commit(j) ==
  /\ job[j].op = "change"
  /\ job[j].at = "keyWritten"
  /\ CommitPins(j)
  /\ job' = [job EXCEPT ![j].at = "rekeyed", ![j].rows = {}]
  /\ UNCHANGED <<activityVars, record, database, unlocked, queue>>

\* Mutant: the key record is not restored.
CommitFailsForGood(j) ==
  /\ job[j].op = "change"
  /\ job[j].at = "keyWritten"
  /\ job' = [job EXCEPT ![j].at = "failed", ![j].rows = {}]
  /\ UNCHANGED <<activityVars, record, database, pins, unlocked, queue>>

CommitFails(j) ==
  /\ job[j].op = "change"
  /\ job[j].at = "keyWritten"
  /\ job' = [job EXCEPT ![j].at = "commitFailed", ![j].rows = {}]
  /\ UNCHANGED <<activityVars, record, database, pins, unlocked, queue>>

RestoreKey(j) ==
  /\ job[j].op = "change"
  /\ job[j].at = "commitFailed"
  /\ ReplaceRecord(Owner[j], job[j].key, job[j].read)
  /\ job' = [job EXCEPT ![j].at = "failed"]
  /\ UNCHANGED <<activityVars, database, pins, unlocked, queue>>

\* Mutant: the unlocked key stays the old one.
FinishChangeInDatabasesOnly(j) ==
  /\ job[j].op = "change"
  /\ job[j].at = "rekeyed"
  /\ EndReconfiguring(Owner[j])
  /\ LeaveQueue(j)
  /\ Finish(j)
  /\ UNCHANGED <<record, database, pins, unlocked>>

\* rekeyPins is done: the unlocked key, if any, is replaced too.
FinishChange(j) ==
  /\ job[j].op = "change"
  /\ job[j].at = "rekeyed"
  /\ unlocked' = [unlocked EXCEPT ![Owner[j]] = IF @ = None THEN None ELSE job[j].key]
  /\ EndReconfiguring(Owner[j])
  /\ LeaveQueue(j)
  /\ Finish(j)
  /\ UNCHANGED <<record, database, pins>>

ClearPins(j) ==
  /\ job[j].op = "reset"
  /\ job[j].at = "begun"
  /\ \/ /\ PoolUsable(j)
        /\ pins' = [pins EXCEPT ![job[j].db] = [c \in Connections |-> None]]
     \/ /\ job[j].db = None
        /\ UNCHANGED pins
  /\ job' = [job EXCEPT ![j].at = "cleared"]
  /\ UNCHANGED <<activityVars, record, database, unlocked, queue>>

DeleteKey(j) ==
  /\ job[j].op = "reset"
  /\ job[j].at = "cleared"
  /\ record' = [record EXCEPT ![Owner[j]] = NoRecord]
  /\ job' = [job EXCEPT ![j].at = "deleted"]
  /\ UNCHANGED <<activityVars, database, pins, unlocked, queue>>

FinishReset(j) ==
  /\ job[j].op = "reset"
  /\ job[j].at = "deleted"
  /\ unlocked' = [unlocked EXCEPT ![Owner[j]] = None]
  /\ EndReconfiguring(Owner[j])
  /\ LeaveQueue(j)
  /\ Finish(j)
  /\ UNCHANGED <<record, database, pins>>

\* A wrong key, a PIN that does not decrypt, a failed query: the transaction is rolled back.
RekeyingFails(j) ==
  /\ job[j].op \in Rekeying
  /\ job[j].at \in {"begun", "read", "reencrypted", "failed", "cleared"}
  /\ EndReconfiguring(Owner[j])
  /\ LeaveQueue(j)
  /\ Finish(j)
  /\ UNCHANGED <<record, database, pins, unlocked>>

-----------------------------------------------------------------------------
(* PUT /api/user/database: an exclusive reconfiguration outside the queue. *)

SaveTargets(u) == IF "switch" \in Faults THEN Databases ELSE {Home[u]}

BeginSave(j) ==
  /\ job[j] = Idle
  /\ BeginReconfiguring(Owner[j])
  /\ job' = [job EXCEPT ![j].op = "save", ![j].at = "begun"]
  /\ UNCHANGED <<record, database, pins, unlocked, queue>>

SaveDatabase(j) ==
  /\ job[j].op = "save"
  /\ job[j].at = "begun"
  /\ \E d \in SaveTargets(Owner[j]) :
       /\ \A v \in Users \ {Owner[j]} : database[v] # d     \* the unique key
       /\ database' = [database EXCEPT ![Owner[j]] = d]
  /\ job' = [job EXCEPT ![j].at = "saved"]
  /\ UNCHANGED <<activityVars, record, pins, unlocked, queue>>

\* After the save, or when the test failed or another user has the database.
FinishSave(j) ==
  /\ job[j].op = "save"
  /\ job[j].at \in {"begun", "saved"}
  /\ EndReconfiguring(Owner[j])
  /\ Finish(j)
  /\ UNCHANGED <<record, database, pins, unlocked, queue>>

-----------------------------------------------------------------------------
(* What the code does not handle. *)

\* The server applied a write whose answer never came: the caller sees an error.
LoseAnswer(j) ==
  /\ "lostAck" \in Faults
  /\ job[j].op = "change"
  /\ \/ /\ job[j].at = "keyWritten"                        \* of the commit
        /\ CommitPins(j)
        /\ job' = [job EXCEPT ![j].at = "commitFailed", ![j].rows = {}]
        /\ UNCHANGED record
     \/ /\ job[j].at = "reencrypted"                       \* of the key record's update
        /\ ReplaceRecord(Owner[j], job[j].read.check, NewRecord(job[j].read.mode, job[j].key))
        /\ job' = [job EXCEPT ![j].at = "failed", ![j].rows = {}]
        /\ UNCHANGED pins
  /\ UNCHANGED <<activityVars, database, unlocked, queue>>

\* Restoring the key record failed too: an AggregateError.
RestoreFails(j) ==
  /\ "restoreFails" \in Faults
  /\ job[j].op = "change"
  /\ job[j].at = "commitFailed"
  /\ job' = [job EXCEPT ![j].at = "failed"]
  /\ UNCHANGED <<activityVars, record, database, pins, unlocked, queue>>

\* The process ends at any point and starts again: open transactions are rolled back.
Restart ==
  /\ "restart" \in Faults
  /\ ForgetActivity
  /\ unlocked' = [u \in Users |-> None]
  /\ queue' = [u \in Users |-> <<>>]
  /\ job' = [j \in Jobs |-> Idle]
  /\ UNCHANGED <<record, database, pins>>

-----------------------------------------------------------------------------
Arrive(j) == Acquire(j) \/ SubmitOperation(j) \/ BeginSave(j)

SharedStep(j) ==
  StartShared(j) \/ RefuseShared(j) \/ Resolve(j) \/ ResolveFails(j)
    \/ WritePin(j) \/ ReadConnection(j) \/ FinishShared(j)

OperationStep(j) ==
  CreateKey(j) \/ SaveMode(j) \/ FinishOperation(j) \/ Unlock(j) \/ Lock(j) \/ OperationFails(j)

RekeyingStep(j) ==
  SubmitRekeying(j) \/ BeginRekeying(j) \/ RefuseRekeying(j) \/ CheckOldKey(j)
    \/ ReencryptPins(j) \/ WriteKey(j) \/ Commit(j) \/ CommitFails(j) \/ RestoreKey(j)
    \/ FinishChange(j) \/ ClearPins(j) \/ DeleteKey(j) \/ FinishReset(j) \/ RekeyingFails(j)

SaveStep(j) == SaveDatabase(j) \/ FinishSave(j)

\* Everything a job does once it has arrived.
Step(j) == ReadRecord(j) \/ SharedStep(j) \/ OperationStep(j) \/ RekeyingStep(j) \/ SaveStep(j)

Next ==
  \/ \E j \in Jobs : Arrive(j) \/ Step(j) \/ LoseAnswer(j) \/ RestoreFails(j)
  \/ Restart

Spec == Init /\ [][Next]_vars

\* Every query is answered or fails, and every run ends: its TAN wait is bounded.
Fairness == \A j \in Jobs : WF_vars(Step(j))

FairSpec == Spec /\ Fairness

-----------------------------------------------------------------------------
(* Properties. *)

\* The key record is ahead of the PINs: written, and neither committed nor restored.
BetweenDatabases(u) ==
  \E j \in Jobs : Owner[j] = u /\ job[j].op = "change" /\ job[j].at \in {"keyWritten", "commitFailed"}

\* "The check value always matches the key the PINs are under" (rekeyPins): every PIN in the
\* user's database decrypts with the key the check value accepts.
PinsFitCheck ==
  \A u \in Users, c \in Connections :
    (database[u] # None /\ ~BetweenDatabases(u) /\ pins[database[u]][c] # None)
      => pins[database[u]][c] = record[u].check

\* "A change or reset cannot run between reading the key and using it": the key that a write or
\* a run has in hand is the user's key until it is put away.
KeyInHandIsCurrent ==
  \A j \in Jobs :
    (job[j].op \in Shared /\ job[j].key # None) => job[j].key = record[Owner[j]].check

\* A run decrypts the PIN it read: the one message the user could do nothing about ("cannot be
\* decrypted with the key; enter the PIN again") does not come from a run racing a key change.
RunsDecrypt ==
  \A j \in Jobs : (job[j].at = "running" /\ job[j].pin # None) => job[j].pin = job[j].key

\* resolve hands out the unlocked key unchecked.  Between two operations on the user's key it
\* is the key of a memory-mode record, and the wrapped copy is that of a stored-mode one.
KeptKeysFit ==
  \A u \in Users :
    (~ \E j \in Jobs : Owner[j] = u /\ AtHead(j) /\ job[j].at # "queued") =>
       /\ unlocked[u] # None => record[u].mode = "memory" /\ unlocked[u] = record[u].check
       /\ record[u].wrapped = IF record[u].mode = "stored" THEN record[u].check ELSE None

\* Per user, runs share and reconfigurations exclude: the registry's counter keeps what
\* ExclusiveAccess promises for sets of jobs.
InShared(j) ==
  job[j].op \in Shared /\ job[j].at \in {"queued", "read", "resolved", "written", "running"}

InExclusive(j) ==
  \/ job[j].op \in Rekeying /\ job[j].at \notin {"acquired", "queued"}
  \/ job[j].op = "save"

Access == INSTANCE ExclusiveAccess WITH
  shared <- [u \in Users |-> {j \in Jobs : Owner[j] = u /\ InShared(j)}],
  exclusive <- [u \in Users |-> {j \in Jobs : Owner[j] = u /\ InExclusive(j)}]

AccessSpec == Access!AccessSpec

\* A busy run waits for its place in the queue while a key change in front of it needs the user
\* not to be busy: nobody waits on the other, every request is answered.
EveryJobEnds == \A j \in Jobs : job[j].at # "idle" ~> job[j].at = "idle"
=============================================================================
