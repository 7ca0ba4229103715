--------------------------- MODULE SyncRunsProofs ---------------------------
(***************************************************************************)
(* Theorems about SyncRuns for any users, runners, connections and bounds  *)
(* and under every fault: types, that no row is pulled from under a run,   *)
(* that the run table implements RunLog, and what its rows say of the runs *)
(* in progress; without faults, that a run that ended has recorded how.    *)
(* On top of these, what relates the tables and registries: who answers a  *)
(* TAN challenge reaches the run that waits for it, a connection shows the *)
(* outcome of its newest sync, and a pause has the reason the code gives   *)
(* it.  For these the runner's steps are sorted once, by what they do to   *)
(* the run's row and its connection, and each invariant is kept sort by    *)
(* sort.                                                                   *)
(***************************************************************************)
EXTENDS SyncRuns, FiniteSetTheorems, TLAPS

-----------------------------------------------------------------------------
(* The invariant. *)

Starting == {"key", "locking", "reading", "unpausing", "creating"}

Ordering == {"order", "marking", "awaiting", "resuming", "settling", "saving"}

\* The places of a Running runner.
InProgress ==
  Ordering \cup {"finishing", "recording", "failing", "noting", "pausing", "closing"}

\* Between GET_LOCK and RELEASE_LOCK.
Holding == {"reading", "unpausing", "creating", "deleting", "unlocking"} \cup InProgress

\* What a runner has in hand at its place.
StateFits(s) ==
  /\ s.at # "idle" => s.user \in Users /\ s.on \in Connections /\ s.op # "none"
  /\ s.at \notin {"idle", "locking", "deleting", "unlocking"} => s.op \in Triggers
  /\ s.at \in Starting \cup {"deleting"} => s.id = 0
  /\ s.at \in InProgress => s.id # 0
  /\ s.at \in Ordering => s.orders # 0
  /\ s.at \in {"failing", "noting"} => s.outcome \in Failed

\* What a runner relies on in the database.
RowsFit(r) ==
  LET u == run[r].user
      c == run[r].on
  IN /\ run[r].at \in Holding => lock[u][c] = r
     /\ run[r].at \in {"unpausing", "creating"} \cup InProgress => connection[u][c] # None
     /\ Live(r) => row[u][run[r].id] # None /\ row[u][run[r].id].connection = c

\* Ids are given once.
NewIds == \A u \in Users, id \in RunIds : lastId[u] < id => row[u][id] = None

TickFits == scheduler.at = "connections" => scheduler.user \in Users

RunInv ==
  /\ TypeOK
  /\ \A r \in Runners : StateFits(run[r]) /\ RowsFit(r)
  /\ NewIds
  /\ TickFits

\* Everything a runner does.
Moves(r) ==
  \/ \E op \in Triggers, u \in Users, c \in Connections : Start(r, op, u, c)
  \/ RequestDelete(r)
  \/ RunStep(r)
  \/ RecordingFails(r)

-----------------------------------------------------------------------------
(* What a runner has in hand. *)

LEMMA IdsAreNumbers == RunIds \subseteq Nat \ {0}
  <1>1. Cardinality(RunIds) \in Nat BY SyncAssumption, FS_CardinalityType DEF SyncConstants
  <1> QED BY <1>1, SyncAssumption DEF SyncConstants

\* An update of one field with a value of the field's type is a state of a runner.
LEMMA FieldTyping ==
  ASSUME NEW s \in RunState
  PROVE  /\ \A a \in Triggers \cup {"none", "delete"} : [s EXCEPT !.op = a] \in RunState
         /\ \A a \in Places : [s EXCEPT !.at = a] \in RunState
         /\ \A a \in Users \cup {None} : [s EXCEPT !.user = a] \in RunState
         /\ \A a \in Connections \cup {None} : [s EXCEPT !.on = a] \in RunState
         /\ \A a \in RunIds \cup {0} : [s EXCEPT !.id = a] \in RunState
         /\ \A a \in Identities \cup {None} : [s EXCEPT !.identity = a] \in RunState
         /\ \A a \in 0 .. Orders : [s EXCEPT !.orders = a] \in RunState
         /\ \A a \in References \cup {None} : [s EXCEPT !.reference = a] \in RunState
         /\ \A a \in Kinds \cup {"none"} : [s EXCEPT !.kind = a] \in RunState
         /\ \A a \in BOOLEAN : [s EXCEPT !.waiting = a] \in RunState
         /\ \A a \in {"none", "pending", "tan", "poll", "expired"} :
              [s EXCEPT !.answer = a] \in RunState
         /\ \A a \in {"none"} \cup Failed : [s EXCEPT !.outcome = a] \in RunState
  <1>1. \A a \in Triggers \cup {"none", "delete"} : [s EXCEPT !.op = a] \in RunState
    BY DEF RunState
  <1>2. \A a \in Places : [s EXCEPT !.at = a] \in RunState BY DEF RunState
  <1>3. \A a \in Users \cup {None} : [s EXCEPT !.user = a] \in RunState BY DEF RunState
  <1>4. \A a \in Connections \cup {None} : [s EXCEPT !.on = a] \in RunState BY DEF RunState
  <1>5. \A a \in RunIds \cup {0} : [s EXCEPT !.id = a] \in RunState BY DEF RunState
  <1>6. \A a \in Identities \cup {None} : [s EXCEPT !.identity = a] \in RunState BY DEF RunState
  <1>7. \A a \in 0 .. Orders : [s EXCEPT !.orders = a] \in RunState BY DEF RunState
  <1>8. \A a \in References \cup {None} : [s EXCEPT !.reference = a] \in RunState BY DEF RunState
  <1>9. \A a \in Kinds \cup {"none"} : [s EXCEPT !.kind = a] \in RunState BY DEF RunState
  <1>10. \A a \in BOOLEAN : [s EXCEPT !.waiting = a] \in RunState BY DEF RunState
  <1>11. \A a \in {"none", "pending", "tan", "poll", "expired"} : [s EXCEPT !.answer = a] \in RunState
    BY DEF RunState
  <1>12. \A a \in {"none"} \cup Failed : [s EXCEPT !.outcome = a] \in RunState BY DEF RunState
  <1> QED
    BY <1>1, <1>2, <1>3, <1>4, <1>5, <1>6, <1>7, <1>8, <1>9, <1>10, <1>11, <1>12

\* A runner that has ended, or has not begun.
LEMMA IdleTyping == Idle \in RunState /\ StateFits(Idle)
  <1>1. 0 \in 0 .. Orders BY SyncAssumption DEF SyncConstants
  <1>2. Idle \in RunState BY <1>1 DEF RunState, Places, Idle
  <1>3. StateFits(Idle) BY DEF StateFits, Idle, Starting, InProgress, Ordering
  <1> QED BY <1>2, <1>3

\* The runner goes on in a state of the type that fits its place; nobody else's state changes.
Settled(r) ==
  /\ run' = [run EXCEPT ![r] = run'[r]]
  /\ run'[r] \in RunState
  /\ StateFits(run'[r])

LEMMA Becoming ==
  ASSUME RunInv, NEW r \in Runners, NEW s \in RunState, StateFits(s), run' = [run EXCEPT ![r] = s]
  PROVE  Settled(r) /\ run'[r] = s
  BY DEF RunInv, TypeOK, Settled

\* Most steps change the place only.
LEMMA Going ==
  ASSUME RunInv, NEW r \in Runners, NEW p \in Places, Go(r, p), ~At(r, "idle"),
         p # "idle",
         p \notin {"locking", "deleting", "unlocking"} => run[r].op \in Triggers,
         p \in Starting \cup {"deleting"} => run[r].id = 0,
         p \in InProgress => run[r].id # 0,
         p \in Ordering => run[r].orders # 0,
         p \in {"failing", "noting"} => run[r].outcome \in Failed
  PROVE  Settled(r) /\ run'[r] = [run[r] EXCEPT !.at = p]
  <1> DEFINE s == [run[r] EXCEPT !.at = p]
  <1>1. run[r] \in RunState /\ StateFits(run[r]) BY DEF RunInv, TypeOK
  <1>2. s \in RunState BY <1>1 DEF RunState
  <1>3. StateFits(s) BY <1>1 DEF RunState, StateFits, At
  <1>4. run' = [run EXCEPT ![r] = s] BY DEF Go, RunInv, TypeOK
  <1> QED BY <1>2, <1>3, <1>4, Becoming

LEMMA Failing ==
  ASSUME RunInv, NEW r \in Runners, run[r].at \in InProgress,
         NEW outcome \in Failed, Fail(r, outcome)
  PROVE  /\ Settled(r)
         /\ run'[r].at = "failing" /\ run'[r].outcome = outcome
         /\ \A f \in {"op", "user", "on", "id"} : run'[r][f] = run[r][f]
  <1> DEFINE s == [run[r] EXCEPT !.at = "failing", !.outcome = outcome, !.orders = 0,
                                 !.reference = None, !.kind = "none", !.waiting = FALSE,
                                 !.identity = None]
  <1>1. run[r] \in RunState /\ StateFits(run[r]) BY DEF RunInv, TypeOK
  <1>2. s \in RunState
    <2>1. 0 \in 0 .. Orders BY SyncAssumption DEF SyncConstants
    <2>2. [run[r] EXCEPT !.at = "failing", !.outcome = outcome, !.orders = 0] \in RunState
      BY <1>1, <2>1, FieldTyping DEF Places
    <2> QED BY <2>2, FieldTyping
  <1>3. /\ s.at = "failing" /\ s.outcome = outcome
        /\ \A f \in {"op", "user", "on", "id"} : s[f] = run[r][f]
    BY <1>1 DEF RunState
  <1>4. StateFits(s) BY <1>1, <1>3 DEF StateFits, InProgress, Ordering, Starting
  <1>5. run' = [run EXCEPT ![r] = s] BY DEF Fail, RunInv, TypeOK
  <1> HIDE DEF s
  <1> QED BY <1>2, <1>3, <1>4, <1>5, Becoming

LEMMA GivingBack ==
  ASSUME RunInv, NEW r \in Runners, ~At(r, "idle"), GiveBack(r, "unlocking")
  PROVE  /\ Settled(r)
         /\ run'[r].at = "unlocking"
         /\ \A f \in {"op", "user", "on", "id"} : run'[r][f] = run[r][f]
  <1> DEFINE s == [Idle EXCEPT !.op = run[r].op, !.at = "unlocking", !.user = run[r].user,
                               !.on = run[r].on, !.id = run[r].id]
  <1>1. run[r] \in RunState /\ StateFits(run[r]) BY DEF RunInv, TypeOK
  <1>2. s \in RunState
    <2>1. /\ run[r].op \in Triggers \cup {"none", "delete"} /\ run[r].user \in Users \cup {None}
          /\ run[r].on \in Connections \cup {None} /\ run[r].id \in RunIds \cup {0}
      BY <1>1 DEF RunState
    <2>2. [Idle EXCEPT !.op = run[r].op, !.at = "unlocking"] \in RunState
      BY <2>1, IdleTyping, FieldTyping DEF Places
    <2> QED BY <2>1, <2>2, FieldTyping
  <1>3. s.at = "unlocking" /\ \A f \in {"op", "user", "on", "id"} : s[f] = run[r][f]
    BY DEF Idle
  <1>4. StateFits(s) BY <1>1, <1>3 DEF StateFits, At, InProgress, Ordering, Starting
  <1>5. run' = [run EXCEPT ![r] = s] BY DEF GiveBack
  <1> HIDE DEF s
  <1> QED BY <1>2, <1>3, <1>4, <1>5, Becoming

LEMMA Ending ==
  ASSUME RunInv, NEW r \in Runners, run' = [run EXCEPT ![r] = Idle]
  PROVE  Settled(r) /\ run'[r] = Idle
  BY IdleTyping, Becoming

-----------------------------------------------------------------------------
(* What a runner does to the database. *)

KeepsConnections ==
  \A u \in Users, c \in Connections : connection[u][c] # None => connection'[u][c] # None

KeepsRows ==
  \A u \in Users, id \in RunIds : row[u][id] # None =>
    row'[u][id] # None /\ row'[u][id].connection = row[u][id].connection

DatabaseTyped ==
  /\ connection \in [Users -> [Connections -> ConnectionRow \cup {None}]]
  /\ row \in [Users -> [RunIds -> RunRow \cup {None}]]
  /\ lastId \in [Users -> RunIds \cup {0}]
  /\ lock \in [Users -> [Connections -> Runners \cup {None}]]
  /\ NewIds

\* The others' locks stay, and the connections and rows that no lock of the runner covers.
Spares(r) ==
  /\ \A u \in Users, c \in Connections :
       lock[u][c] \in Runners \ {r} => lock'[u][c] = lock[u][c]
  /\ \A u \in Users, c \in Connections :
       connection[u][c] # None /\ lock[u][c] # r => connection'[u][c] # None
  /\ \A u \in Users, id \in RunIds :
       row[u][id] # None /\ lock[u][row[u][id].connection] # r =>
         row'[u][id] # None /\ row'[u][id].connection = row[u][id].connection

LEMMA QuietSpares ==
  ASSUME RunInv, NEW r \in Runners, UNCHANGED <<connection, row, lastId, lock>>
  PROVE  DatabaseTyped' /\ Spares(r)
  BY DEF RunInv, TypeOK, DatabaseTyped, Spares, NewIds

LEMMA ConnectionSpares ==
  ASSUME RunInv, NEW r \in Runners, run[r].user \in Users, run[r].on \in Connections,
         NEW x \in ConnectionRow,
         connection[run[r].user][run[r].on] # None =>
           connection' = [connection EXCEPT ![run[r].user][run[r].on] = x],
         connection[run[r].user][run[r].on] = None => connection' = connection,
         UNCHANGED <<row, lastId, lock>>
  PROVE  DatabaseTyped' /\ Spares(r) /\ KeepsConnections
  <1>1. x # None BY SyncAssumption DEF SyncConstants
  <1>2. /\ connection' \in [Users -> [Connections -> ConnectionRow \cup {None}]]
        /\ KeepsConnections
    <2> DEFINE Row == ConnectionRow \cup {None}
    <2>1. connection \in [Users -> [Connections -> Row]] /\ x \in Row BY DEF RunInv, TypeOK
    <2> HIDE DEF Row
    <2>2. connection' \in [Users -> [Connections -> Row]] BY <2>1
    <2>3. KeepsConnections BY <1>1, <2>1 DEF KeepsConnections
    <2> QED BY <2>2, <2>3 DEF Row
  <1> QED BY <1>2 DEF RunInv, TypeOK, DatabaseTyped, Spares, NewIds, KeepsConnections

LEMMA StatusSpares ==
  ASSUME RunInv, NEW r \in Runners, run[r].at \in InProgress, NEW s \in RunStatus,
         SetStatus(r, s), UNCHANGED <<connection, lastId, lock>>
  PROVE  DatabaseTyped' /\ Spares(r) /\ KeepsRows
  <1> DEFINE u == run[r].user
             id == run[r].id
             x == [row[u][id] EXCEPT !.status = s]
  <1>1. u \in Users /\ id \in RunIds
    BY DEF RunInv, TypeOK, RunState, StateFits, InProgress, Ordering
  <1>2. CASE row[u][id] = None
    <2>1. row' = row BY <1>2 DEF SetStatus
    <2> QED BY <2>1, QuietSpares DEF KeepsRows
  <1>3. CASE row[u][id] # None
    <2>1. row[u][id] \in RunRow BY <1>1, <1>3 DEF RunInv, TypeOK
    <2>2. x \in RunRow /\ x # None /\ x.connection = row[u][id].connection
      BY <2>1, SyncAssumption DEF RunRow, SyncConstants
    <2>3. row' = [row EXCEPT ![u][id] = x] BY <1>3 DEF SetStatus
    <2> HIDE DEF x
    <2>4. row' \in [Users -> [RunIds -> RunRow \cup {None}]] /\ KeepsRows
      BY <1>1, <2>2, <2>3 DEF RunInv, TypeOK, KeepsRows
    <2>5. NewIds' BY <1>1, <1>3, <2>3 DEF RunInv, TypeOK, NewIds
    <2> QED BY <2>4, <2>5 DEF RunInv, TypeOK, DatabaseTyped, Spares, KeepsRows
  <1> QED BY <1>2, <1>3

LEMMA WaitingSpares ==
  ASSUME RunInv, NEW r \in Runners, run[r].at \in InProgress, NEW s \in RunStatus,
         SetWaiting(r, s), UNCHANGED <<connection, lastId, lock>>
  PROVE  DatabaseTyped' /\ Spares(r) /\ KeepsRows
  <1>1. CASE SetStatus(r, s) BY <1>1, StatusSpares
  <1>2. CASE UNCHANGED row BY <1>2, QuietSpares DEF KeepsRows
  <1> QED BY <1>1, <1>2 DEF SetWaiting

\* A run in progress that keeps its connection and its row goes on.
LEMMA GoesOn ==
  ASSUME RunInv, NEW r \in Runners, run[r].at \in InProgress, Settled(r),
         run'[r].at \in InProgress \cup {"unlocking"},
         \A f \in {"op", "user", "on", "id"} : run'[r][f] = run[r][f],
         UNCHANGED lock, KeepsConnections, KeepsRows
  PROVE  RowsFit(r)'
  <1> DEFINE u == run[r].user
             c == run[r].on
             id == run[r].id
  <1>1. u \in Users /\ c \in Connections /\ id \in RunIds
    BY DEF RunInv, TypeOK, RunState, StateFits, InProgress, Ordering
  <1>2. /\ lock[u][c] = r
        /\ connection[u][c] # None
        /\ row[u][id] # None /\ row[u][id].connection = c
    BY DEF RunInv, RowsFit, Holding, InProgress, Ordering, Live, Running, At, StateFits
  <1>3. run'[r].user = u /\ run'[r].on = c /\ run'[r].id = id OBVIOUS
  <1>4. /\ lock'[u][c] = r
        /\ connection'[u][c] # None
        /\ row'[u][id] # None /\ row'[u][id].connection = c
    BY <1>1, <1>2 DEF KeepsConnections, KeepsRows
  <1> HIDE DEF u, c, id
  <1> QED BY <1>3, <1>4 DEF RowsFit

-----------------------------------------------------------------------------
(* The steps of a runner. *)

StaysLive(r) ==
  /\ Live(r)' <=> Live(r)
  /\ Live(r) => run'[r].user = run[r].user /\ run'[r].id = run[r].id

\* What a step means for the log of RunLog.
LogEffect(r) ==
  \/ StaysLive(r) /\ row' = row
  \/ CreateRow(r)
  \/ /\ StaysLive(r) /\ Live(r)
     /\ \E s \in RunStatus :
          /\ SetStatus(r, s)
          /\ row[run[r].user][run[r].id] # None =>
               row[run[r].user][run[r].id].status \in Unfinished \/ s \notin Unfinished
  \/ Live(r) /\ ~Live(r)' /\ row' = row
  \/ StaysLive(r) /\ DeleteConnection(r)

Moved(r) == Settled(r) /\ RowsFit(r)' /\ DatabaseTyped' /\ Spares(r) /\ LogEffect(r)

\* A runner that is not live before and after leaves the log alone, or deletes.
LEMMA NotLive ==
  ASSUME NEW r \in Runners, run[r].id = 0, run'[r].id = 0
  PROVE  StaysLive(r)
  BY DEF StaysLive, Live

\* A step that needs no lock and no row.
LEMMA MovesOutside ==
  ASSUME RunInv, NEW r \in Runners, Settled(r), run'[r].at \notin Holding,
         run[r].at \notin InProgress \cup {"unlocking"},
         UNCHANGED <<connection, row, lastId, lock>>
  PROVE  Moved(r)
  <1>1. ~Live(r) /\ ~Live(r)' BY DEF Live, Running, At, Holding, InProgress, Ordering
  <1>2. RowsFit(r)' BY <1>1 DEF RowsFit, Holding
  <1> QED BY <1>1, <1>2, QuietSpares DEF Moved, LogEffect, StaysLive

\* A step of begin after GET_LOCK that leaves the rows alone.
LEMMA MovesInside ==
  ASSUME RunInv, NEW r \in Runners, Settled(r),
         run[r].at \in {"reading", "unpausing", "creating"},
         run'[r].at \in {"unpausing", "creating", "unlocking"},
         run'[r].user = run[r].user, run'[r].on = run[r].on, run'[r].id = run[r].id,
         run'[r].at # "unlocking" => connection'[run[r].user][run[r].on] # None,
         DatabaseTyped', Spares(r), UNCHANGED <<row, lock>>
  PROVE  Moved(r)
  <1>1. run[r].id = 0 BY DEF RunInv, StateFits, Starting
  <1>2. lock[run[r].user][run[r].on] = r BY DEF RunInv, RowsFit, Holding
  <1>3. StaysLive(r) BY <1>1, NotLive
  <1>4. RowsFit(r)' BY <1>1, <1>2 DEF RowsFit, Live, InProgress, Ordering
  <1> QED BY <1>3, <1>4 DEF Moved, LogEffect

LEMMA StartMoves ==
  ASSUME RunInv, NEW r \in Runners, NEW op \in Triggers, NEW u \in Users, NEW c \in Connections,
         Start(r, op, u, c)
  PROVE  Moved(r)
  <1> DEFINE s == [Idle EXCEPT !.op = op, !.at = "key", !.user = u, !.on = c]
  <1>1. s \in RunState BY IdleTyping, FieldTyping DEF Places
  <1>2. s.at = "key" /\ s.op = op /\ s.user = u /\ s.on = c /\ s.id = 0 BY DEF Idle
  <1>3. StateFits(s) BY <1>2 DEF StateFits, Triggers, InProgress, Ordering
  <1>4. run' = [run EXCEPT ![r] = s] BY DEF Start
  <1> HIDE DEF s
  <1>5. Settled(r) /\ run'[r] = s BY <1>1, <1>3, <1>4, Becoming
  <1> QED BY <1>2, <1>5, MovesOutside DEF Start, At, Holding, InProgress, Ordering

LEMMA RequestDeleteMoves ==
  ASSUME RunInv, NEW r \in Runners, RequestDelete(r)
  PROVE  Moved(r)
  <1>1. PICK u \in Users, c \in Connections :
          run' = [run EXCEPT ![r] = [Idle EXCEPT !.op = "delete", !.at = "locking",
                                                 !.user = u, !.on = c]]
    BY DEF RequestDelete
  <1> DEFINE s == [Idle EXCEPT !.op = "delete", !.at = "locking", !.user = u, !.on = c]
  <1>2. s \in RunState BY IdleTyping, FieldTyping DEF Places
  <1>3. s.at = "locking" /\ s.op = "delete" /\ s.user = u /\ s.on = c /\ s.id = 0 BY DEF Idle
  <1>4. StateFits(s) BY <1>3 DEF StateFits, InProgress, Ordering
  <1> HIDE DEF s
  <1>5. Settled(r) /\ run'[r] = s BY <1>1, <1>2, <1>4, Becoming DEF s
  <1> QED BY <1>3, <1>5, MovesOutside DEF RequestDelete, At, Holding, InProgress, Ordering

\* What a place says of a runner there.
LEMMA LocalsAre ==
  ASSUME RunInv, NEW r \in Runners
  PROVE  run[r] \in RunState /\ StateFits(run[r]) /\ RowsFit(r)
  BY DEF RunInv, TypeOK

LEMMA BeginMoves ==
  ASSUME RunInv, NEW r \in Runners, BeginStep(r)
  PROVE  Moved(r)
  <1> DEFINE u == run[r].user
             c == run[r].on
  <1>a. run[r] \in RunState /\ StateFits(run[r]) /\ RowsFit(r) BY LocalsAre
  <1>1. CASE GetKey(r)
    <2>1. At(r, "key") /\ run[r].op \in Triggers
      BY <1>1, <1>a DEF GetKey, At, StateFits
    <2>2. PICK p \in {"locking", "leaving"} : Go(r, p) BY <1>1 DEF GetKey
    <2>3. Settled(r) /\ run'[r] = [run[r] EXCEPT !.at = p]
      BY <1>a, <2>1, <2>2, Going DEF At, Places, StateFits, Starting, InProgress, Ordering
    <2> QED BY <1>1, <1>a, <2>1, <2>3, MovesOutside
         DEF GetKey, At, RunState, Holding, InProgress, Ordering
  <1>2. CASE TakeLock(r)
    <2>1. PICK p \in {"deleting", "reading"} :
            Go(r, p) /\ (p = "deleting" <=> run[r].op = "delete")
      BY <1>2 DEF TakeLock
    <2>2. At(r, "locking") /\ u \in Users /\ c \in Connections /\ run[r].id = 0
      BY <1>2, <1>a DEF TakeLock, At, StateFits, Starting
    <2>3. p = "reading" => run[r].op \in Triggers
      BY <1>a, <2>1, <2>2 DEF StateFits, At, RunState
    <2>4. Settled(r) /\ run'[r] = [run[r] EXCEPT !.at = p]
      BY <1>a, <2>1, <2>2, <2>3, Going DEF At, Places, Starting, InProgress, Ordering
    <2>5. /\ run'[r].at = p /\ run'[r].id = 0 /\ run'[r].user = u /\ run'[r].on = c
      BY <1>a, <2>2, <2>4 DEF RunState
    <2>6. lock' = [lock EXCEPT ![u][c] = r] /\ lock[u][c] = None BY <1>2 DEF TakeLock
    <2>7. RowsFit(r)'
      BY <2>2, <2>5, <2>6 DEF RowsFit, RunInv, TypeOK, Live, InProgress, Ordering
    <2>8. DatabaseTyped' /\ Spares(r)
      BY <1>2, <2>2, <2>6, SyncAssumption
      DEF TakeLock, RunInv, TypeOK, DatabaseTyped, Spares, NewIds, SyncConstants
    <2> QED BY <1>2, <2>2, <2>4, <2>5, <2>7, <2>8, NotLive DEF Moved, LogEffect, TakeLock
  <1>3. CASE LockFails(r)
    <2>1. CASE run' = [run EXCEPT ![r] = Idle]
      <3>1. Settled(r) /\ run'[r] = Idle BY <2>1, Ending
      <3>2. Idle.at = "idle" BY DEF Idle
      <3> QED BY <1>3, <3>1, <3>2, MovesOutside DEF LockFails, At, Holding, InProgress, Ordering
    <2>2. CASE Go(r, "leaving") /\ run[r].op # "delete"
      <3>1. At(r, "locking") /\ run[r].op \in Triggers
        BY <1>3, <1>a, <2>2 DEF LockFails, At, StateFits, RunState
      <3>2. Settled(r) /\ run'[r] = [run[r] EXCEPT !.at = "leaving"]
        BY <2>2, <3>1, Going DEF At, Places, Starting, InProgress, Ordering
      <3> QED BY <1>3, <1>a, <3>1, <3>2, MovesOutside
           DEF LockFails, At, RunState, Holding, InProgress, Ordering
    <2> QED BY <1>3, <2>1, <2>2 DEF LockFails
  <1>4. CASE ReadConnection(r)
    <2>1. At(r, "reading") /\ u \in Users /\ c \in Connections
      BY <1>4, <1>a DEF ReadConnection, At, StateFits
    <2>2. DatabaseTyped' /\ Spares(r) BY <1>4, QuietSpares DEF ReadConnection
    <2>3. CASE GiveBack(r, "unlocking")
      BY <1>4, <2>1, <2>2, <2>3, GivingBack, MovesInside DEF ReadConnection, At
    <2>4. CASE connection[u][c] # None
      <3> DEFINE p == IF run[r].op = "manual" THEN "unpausing" ELSE "creating"
                 s == [run[r] EXCEPT !.at = p, !.identity = connection[u][c].identity]
      <3>1. connection[u][c].identity \in Identities
        BY <2>1, <2>4 DEF RunInv, TypeOK, ConnectionRow
      <3>2. s \in RunState BY <1>a, <3>1, FieldTyping DEF Places
      <3>3. /\ s.at = p
            /\ \A f \in {"op", "user", "on", "id"} : s[f] = run[r][f]
        BY <1>a DEF RunState
      <3>4. StateFits(s) BY <1>a, <2>1, <3>3 DEF StateFits, At, Starting, InProgress, Ordering
      <3>5. run' = [run EXCEPT ![r] = s]
        BY <1>4, <2>4 DEF ReadConnection, RunInv, TypeOK
      <3> HIDE DEF s
      <3>6. Settled(r) /\ run'[r] = s BY <3>2, <3>4, <3>5, Becoming
      <3> QED BY <1>4, <2>1, <2>2, <2>4, <3>3, <3>6, MovesInside DEF ReadConnection, At
    <2> QED BY <1>4, <2>3, <2>4 DEF ReadConnection
  <1>5. CASE ClearPause(r)
    <2>1. /\ At(r, "unpausing") /\ u \in Users /\ c \in Connections
          /\ run[r].op \in Triggers /\ run[r].id = 0 /\ connection[u][c] # None
      BY <1>5, <1>a DEF ClearPause, At, StateFits, RowsFit, Starting
    <2>2. connection[u][c] \in ConnectionRow BY <2>1 DEF RunInv, TypeOK
    <2> DEFINE x == [connection[u][c] EXCEPT !.paused = FALSE]
    <2>3. x \in ConnectionRow BY <2>2 DEF ConnectionRow
    <2>4. connection' = [connection EXCEPT ![u][c] = x]
      BY <1>5, <2>1 DEF ClearPause, SetConnection
    <2> HIDE DEF x
    <2>5. DatabaseTyped' /\ Spares(r) /\ KeepsConnections
      BY <1>5, <2>1, <2>3, <2>4, ConnectionSpares DEF ClearPause
    <2>6. Settled(r) /\ run'[r] = [run[r] EXCEPT !.at = "creating"]
      BY <1>5, <2>1, Going DEF ClearPause, At, Places, Starting, InProgress, Ordering
    <2>7. run'[r].at = "creating" /\ \A f \in {"op", "user", "on", "id"} : run'[r][f] = run[r][f]
      BY <1>a, <2>6 DEF RunState
    <2> QED BY <1>5, <2>1, <2>5, <2>6, <2>7, MovesInside DEF ClearPause, At, KeepsConnections
  <1>6. CASE CreateRow(r)
    <2> DEFINE id == lastId[u] + 1
               x == [connection |-> c, trigger |-> run[r].op, status |-> "running"]
               s == [run[r] EXCEPT !.at = "order", !.id = id, !.orders = Orders]
    <2>1. /\ At(r, "creating") /\ u \in Users /\ c \in Connections
          /\ run[r].op \in Triggers /\ run[r].id = 0
          /\ lock[u][c] = r /\ connection[u][c] # None
      BY <1>6, <1>a DEF CreateRow, At, StateFits, RowsFit, Starting, Holding
    <2>2. id \in RunIds /\ lastId[u] < id /\ id \in Nat /\ lastId[u] \in Nat
      BY <1>6, <2>1, IdsAreNumbers DEF CreateRow, RunInv, TypeOK
    <2>3. row[u][id] = None BY <2>1, <2>2 DEF RunInv, NewIds
    <2>4. x \in RunRow /\ x # None /\ x.connection = c
      BY <2>1, SyncAssumption DEF RunRow, RunStatus, Unfinished, SyncConstants
    <2>5. s \in RunState
      <3>1. Orders \in 0 .. Orders BY SyncAssumption DEF SyncConstants
      <3> QED BY <1>a, <2>2, <3>1, FieldTyping DEF Places
    <2>6. /\ s.at = "order" /\ s.id = id /\ s.orders = Orders
          /\ \A f \in {"op", "user", "on"} : s[f] = run[r][f]
      BY <1>a DEF RunState
    <2>7. id # 0 /\ Orders # 0 BY <2>2, SyncAssumption, IdsAreNumbers DEF SyncConstants
    <2>8. StateFits(s) BY <2>1, <2>6, <2>7, <1>a
           DEF StateFits, At, Starting, InProgress, Ordering
    <2>9. /\ run' = [run EXCEPT ![r] = s]
          /\ row' = [row EXCEPT ![u][id] = x]
          /\ lastId' = [lastId EXCEPT ![u] = id]
          /\ UNCHANGED <<connection, lock>>
      BY <1>6 DEF CreateRow, RunInv, TypeOK
    <2> HIDE DEF s, x, id
    <2>10. Settled(r) /\ run'[r] = s BY <2>5, <2>8, <2>9, Becoming
    <2>11. row'[u][id] = x BY <2>1, <2>2, <2>9 DEF RunInv, TypeOK
    <2>12. RowsFit(r)' BY <2>1, <2>4, <2>6, <2>9, <2>10, <2>11 DEF RowsFit, Holding, InProgress, Ordering
    <2>13. DatabaseTyped'
      <3>1. row' \in [Users -> [RunIds -> RunRow \cup {None}]]
        BY <2>4, <2>9 DEF RunInv, TypeOK
      <3>2. lastId' \in [Users -> RunIds \cup {0}] BY <2>2, <2>9 DEF RunInv, TypeOK
      <3>3. NewIds'
        <4> SUFFICES ASSUME NEW v \in Users, NEW i \in RunIds, lastId'[v] < i
                     PROVE  row'[v][i] = None
          BY DEF NewIds
        <4>1. CASE v = u
          <5>1. lastId'[v] = id BY <4>1, <2>1, <2>9 DEF RunInv, TypeOK
          <5>2. i \in Nat BY IdsAreNumbers
          <5>3. i # id /\ lastId[u] < i BY <5>1, <5>2, <2>2
          <5>4. row[u][i] = None BY <2>1, <5>3 DEF RunInv, NewIds
          <5> QED BY <4>1, <5>3, <5>4, <2>9 DEF RunInv, TypeOK
        <4>2. CASE v # u
          <5>1. lastId'[v] = lastId[v] BY <4>2, <2>9 DEF RunInv, TypeOK
          <5>2. row[v][i] = None BY <5>1 DEF RunInv, NewIds
          <5> QED BY <4>2, <5>2, <2>9 DEF RunInv, TypeOK
        <4> QED BY <4>1, <4>2
      <3> QED BY <2>9, <3>1, <3>2, <3>3 DEF DatabaseTyped, RunInv, TypeOK
    <2>14. Spares(r) BY <2>3, <2>9 DEF Spares, RunInv, TypeOK
    <2> QED BY <1>6, <2>10, <2>12, <2>13, <2>14 DEF Moved, LogEffect
  <1>7. CASE BeginFails(r)
    <2>1. run[r].at \in {"reading", "unpausing", "creating"} /\ GiveBack(r, "unlocking")
      BY <1>7 DEF BeginFails
    <2>2. /\ Settled(r) /\ run'[r].at = "unlocking"
          /\ \A f \in {"op", "user", "on", "id"} : run'[r][f] = run[r][f]
      BY <2>1, GivingBack DEF At
    <2>3. DatabaseTyped' /\ Spares(r) BY <1>7, QuietSpares DEF BeginFails
    <2> QED BY <1>7, <2>1, <2>2, <2>3, MovesInside DEF BeginFails
  <1> QED BY <1>1, <1>2, <1>3, <1>4, <1>5, <1>6, <1>7 DEF BeginStep

\* A run in progress goes on with its lock, and with its connection and its row if it writes.
LEMMA GoesOnQuietly ==
  ASSUME RunInv, NEW r \in Runners, run[r].at \in InProgress, Settled(r),
         run'[r].at \in InProgress \cup {"unlocking"},
         \A f \in {"op", "user", "on", "id"} : run'[r][f] = run[r][f],
         UNCHANGED <<connection, row, lastId, lock>>
  PROVE  Moved(r)
  <1>1. KeepsConnections /\ KeepsRows BY DEF KeepsConnections, KeepsRows
  <1>2. Live(r) /\ Live(r)'
    BY LocalsAre DEF Live, Running, At, StateFits, InProgress, Ordering
  <1>3. RowsFit(r)' BY <1>1, GoesOn
  <1>4. StaysLive(r) BY <1>2 DEF StaysLive
  <1> QED BY <1>3, <1>4, QuietSpares DEF Moved, LogEffect

LEMMA GoesOnWithConnection ==
  ASSUME RunInv, NEW r \in Runners, run[r].at \in InProgress, Settled(r),
         run'[r].at \in InProgress,
         \A f \in {"op", "user", "on", "id"} : run'[r][f] = run[r][f],
         NEW x \in ConnectionRow,
         connection' = [connection EXCEPT ![run[r].user][run[r].on] = x],
         UNCHANGED <<row, lastId, lock>>
  PROVE  Moved(r)
  <1>1. /\ run[r].user \in Users /\ run[r].on \in Connections
        /\ connection[run[r].user][run[r].on] # None
    BY LocalsAre DEF StateFits, RowsFit, InProgress, Ordering
  <1>2. DatabaseTyped' /\ Spares(r) /\ KeepsConnections BY <1>1, ConnectionSpares
  <1>3. KeepsRows BY DEF KeepsRows
  <1>4. Live(r) /\ Live(r)'
    BY LocalsAre DEF Live, Running, At, StateFits, InProgress, Ordering
  <1>5. RowsFit(r)' BY <1>2, <1>3, GoesOn
  <1>6. StaysLive(r) BY <1>4 DEF StaysLive
  <1> QED BY <1>2, <1>5, <1>6 DEF Moved, LogEffect

LEMMA GoesOnWithStatus ==
  ASSUME RunInv, NEW r \in Runners, run[r].at \in InProgress, Settled(r),
         run'[r].at \in InProgress,
         \A f \in {"op", "user", "on", "id"} : run'[r][f] = run[r][f],
         NEW s \in RunStatus,
         SetWaiting(r, s) \/ (SetStatus(r, s) /\ s \notin Unfinished),
         UNCHANGED <<connection, lastId, lock>>
  PROVE  Moved(r)
  <1>1. DatabaseTyped' /\ Spares(r) /\ KeepsRows BY StatusSpares, WaitingSpares
  <1>2. KeepsConnections BY DEF KeepsConnections
  <1>3. Live(r) /\ Live(r)'
    BY LocalsAre DEF Live, Running, At, StateFits, InProgress, Ordering
  <1>4. RowsFit(r)' BY <1>1, <1>2, GoesOn
  <1>5. StaysLive(r) BY <1>3 DEF StaysLive
  <1>6. LogEffect(r) BY <1>3, <1>5 DEF LogEffect, SetWaiting
  <1> QED BY <1>1, <1>4, <1>6 DEF Moved

\* Going to another place with the same run.
LEMMA GoingInside ==
  ASSUME RunInv, NEW r \in Runners, run[r].at \in InProgress,
         NEW p \in InProgress, Go(r, p),
         p \in Ordering => run[r].orders # 0,
         p = "noting" => run[r].outcome \in Failed, p # "failing"
  PROVE  /\ Settled(r) /\ run'[r].at = p
         /\ \A f \in {"op", "user", "on", "id"} : run'[r][f] = run[r][f]
  <1>1. run[r] \in RunState /\ run[r].op \in Triggers /\ run[r].id # 0 /\ ~At(r, "idle")
    BY LocalsAre DEF StateFits, InProgress, Ordering, At
  <1>2. Settled(r) /\ run'[r] = [run[r] EXCEPT !.at = p]
    BY <1>1, Going DEF Places, InProgress, Ordering, Starting
  <1> QED BY <1>1, <1>2 DEF RunState

\* The fields that say which run it is stay when others change.
SameRun(r, s) == \A f \in {"op", "user", "on", "id"} : s[f] = run[r][f]

LEMMA BecomingInside ==
  ASSUME RunInv, NEW r \in Runners, run[r].at \in InProgress,
         NEW s \in RunState, s.at \in InProgress \ {"failing", "noting"}, SameRun(r, s),
         s.at \in Ordering => s.orders # 0,
         run' = [run EXCEPT ![r] = s]
  PROVE  /\ Settled(r) /\ run'[r].at = s.at
         /\ \A f \in {"op", "user", "on", "id"} : run'[r][f] = run[r][f]
  <1>1. /\ run[r].op \in Triggers /\ run[r].id # 0 /\ run[r].user \in Users
        /\ run[r].on \in Connections
    BY LocalsAre DEF StateFits, InProgress, Ordering, At
  <1>2. StateFits(s)
    BY <1>1 DEF StateFits, SameRun, InProgress, Ordering, Starting, Triggers
  <1> QED BY <1>2, Becoming DEF SameRun

LEMMA OrderMoves ==
  ASSUME RunInv, NEW r \in Runners, OrderStep(r)
  PROVE  Moved(r)
  <1>a. run[r] \in RunState /\ StateFits(run[r]) /\ RowsFit(r) BY LocalsAre
  <1>b. run[r].at \in Ordering
    BY DEF OrderStep, BankAsks, MarkWaiting, TakeAnswer, Resume, Settle, ShowSettled,
           SaveBankingInformation, At, Ordering
  <1>c. /\ run[r].at \in InProgress /\ run[r].orders \in 1 .. Orders
        /\ run[r].user \in Users /\ run[r].on \in Connections
    BY <1>a, <1>b, SyncAssumption
    DEF StateFits, RunState, InProgress, Ordering, SyncConstants
  <1>d. ASSUME NEW outcome \in Failed, Fail(r, outcome),
               UNCHANGED <<connection, row, lastId, lock>>
        PROVE  Moved(r)
    BY <1>c, <1>d, Failing, GoesOnQuietly DEF InProgress
  <1>e. ASSUME NEW s \in RunState, s.at \in InProgress \ {"failing", "noting"}, SameRun(r, s),
               s.orders = run[r].orders, run' = [run EXCEPT ![r] = s],
               UNCHANGED <<connection, row, lastId, lock>>
        PROVE  Moved(r)
    <2>1. s.at \in Ordering => s.orders # 0 BY <1>c, <1>e
    <2>2. /\ Settled(r) /\ run'[r].at = s.at
          /\ \A f \in {"op", "user", "on", "id"} : run'[r][f] = run[r][f]
      BY <1>c, <1>e, <2>1, BecomingInside
    <2> QED BY <1>c, <1>e, <2>2, GoesOnQuietly
  <1>f. ASSUME NEW p \in Ordering, Go(r, p), NEW s \in RunStatus, SetWaiting(r, s),
               UNCHANGED <<connection, lastId, lock>>
        PROVE  Moved(r)
    <2>1. /\ Settled(r) /\ run'[r].at = p
          /\ \A f \in {"op", "user", "on", "id"} : run'[r][f] = run[r][f]
      BY <1>c, <1>f, GoingInside DEF InProgress, Ordering
    <2> QED BY <1>c, <1>f, <2>1, GoesOnWithStatus DEF InProgress
  <1>1. CASE BankAsks(r)
    <2>1. CASE Fail(r, "error") BY <1>1, <1>d, <2>1 DEF BankAsks, Failed
    <2>2. CASE \E challenge \in [kind : Kinds, reference : References], a \in {"pending", "expired"} :
                 AfterRequest(r, challenge, a)
      <3>1. PICK challenge \in [kind : Kinds, reference : References], a \in {"pending", "expired"} :
              AfterRequest(r, challenge, a)
        BY <2>2
      <3> DEFINE p == IF run[r].waiting THEN "awaiting" ELSE "marking"
                 s == [run[r] EXCEPT !.at = p, !.waiting = TRUE, !.kind = challenge.kind,
                                     !.reference = challenge.reference, !.answer = a]
      <3>2. [run[r] EXCEPT !.at = p, !.waiting = TRUE, !.kind = challenge.kind] \in RunState
        BY <1>a, FieldTyping DEF Places
      <3>3. s \in RunState BY <3>2, FieldTyping
      <3>4. s.at = p /\ SameRun(r, s) /\ s.orders = run[r].orders BY <1>a DEF RunState, SameRun
      <3>5. run' = [run EXCEPT ![r] = s] BY <3>1 DEF AfterRequest, RunInv, TypeOK
      <3> HIDE DEF s
      <3> QED BY <1>1, <1>e, <3>3, <3>4, <3>5 DEF BankAsks, InProgress, Ordering
    <2> QED BY <1>1, <2>1, <2>2 DEF BankAsks
  <1>2. CASE MarkWaiting(r)
    BY <1>2, <1>f DEF MarkWaiting, Ordering, RunStatus, Unfinished
  <1>3. CASE TakeAnswer(r)
    <2>1. CASE Fail(r, "tan_expired") BY <1>3, <1>d, <2>1 DEF TakeAnswer, Failed
    <2>2. CASE run' = [run EXCEPT ![r].at = "order", ![r].answer = "none"]
      <3> DEFINE s == [run[r] EXCEPT !.at = "order", !.answer = "none"]
      <3>1. s \in RunState BY <1>a, FieldTyping DEF Places
      <3>2. s.at = "order" /\ SameRun(r, s) /\ s.orders = run[r].orders
        BY <1>a DEF RunState, SameRun
      <3>3. run' = [run EXCEPT ![r] = s] BY <2>2 DEF RunInv, TypeOK
      <3> HIDE DEF s
      <3> QED BY <1>3, <1>e, <3>1, <3>2, <3>3 DEF TakeAnswer, InProgress, Ordering
    <2>3. CASE run' = [run EXCEPT ![r].at = "resuming", ![r].answer = "none", ![r].waiting = FALSE]
      <3> DEFINE s == [run[r] EXCEPT !.at = "resuming", !.answer = "none", !.waiting = FALSE]
      <3>1. s \in RunState BY <1>a, FieldTyping DEF Places
      <3>2. s.at = "resuming" /\ SameRun(r, s) /\ s.orders = run[r].orders
        BY <1>a DEF RunState, SameRun
      <3>3. run' = [run EXCEPT ![r] = s] BY <2>3 DEF RunInv, TypeOK
      <3> HIDE DEF s
      <3> QED BY <1>3, <1>e, <3>1, <3>2, <3>3 DEF TakeAnswer, InProgress, Ordering
    <2> QED BY <1>3, <2>1, <2>2, <2>3 DEF TakeAnswer
  <1>4. CASE Resume(r)
    BY <1>4, <1>f DEF Resume, Ordering, RunStatus, Unfinished
  <1>5. CASE Settle(r)
    <2> DEFINE p == IF run[r].waiting THEN "settling" ELSE "saving"
               s == [run[r] EXCEPT !.at = p, !.reference = None, !.kind = "none", !.waiting = FALSE]
    <2>1. s \in RunState
      <3>1. [run[r] EXCEPT !.at = p, !.reference = None] \in RunState
        BY <1>a, FieldTyping DEF Places
      <3> QED BY <3>1, FieldTyping
    <2>2. s.at = p /\ SameRun(r, s) /\ s.orders = run[r].orders BY <1>a DEF RunState, SameRun
    <2>3. run' = [run EXCEPT ![r] = s] BY <1>5 DEF Settle, RunInv, TypeOK
    <2> HIDE DEF s
    <2> QED BY <1>5, <1>e, <2>1, <2>2, <2>3 DEF Settle, InProgress, Ordering
  <1>6. CASE ShowSettled(r)
    BY <1>6, <1>f DEF ShowSettled, Ordering, RunStatus, Unfinished
  <1>7. CASE SaveBankingInformation(r)
    <2> DEFINE old == connection[run[r].user][run[r].on]
               x == [old EXCEPT !.bankData = run[r].identity]
    <2>1. old # None /\ old \in ConnectionRow
      BY <1>a, <1>c DEF RowsFit, RunInv, TypeOK
    <2>2. x \in ConnectionRow BY <1>a, <2>1 DEF ConnectionRow, RunState
    <2>3. connection' = [connection EXCEPT ![run[r].user][run[r].on] = x]
      BY <1>7, <2>1 DEF SaveBankingInformation, SetConnection
    <2> HIDE DEF x
    <2>4. /\ Settled(r) /\ run'[r].at \in InProgress
          /\ \A f \in {"op", "user", "on", "id"} : run'[r][f] = run[r][f]
      <3>1. CASE Fail(r, "error") BY <1>c, <3>1, Failing DEF Failed, InProgress
      <3>2. CASE run' = [run EXCEPT ![r].at = IF run[r].orders = 1 THEN "finishing" ELSE "order",
                                    ![r].orders = @ - 1]
        <4> DEFINE p == IF run[r].orders = 1 THEN "finishing" ELSE "order"
                   s == [run[r] EXCEPT !.at = p, !.orders = run[r].orders - 1]
        <4>1. run[r].orders - 1 \in 0 .. Orders BY <1>c, SyncAssumption DEF SyncConstants
        <4>2. s \in RunState BY <1>a, <4>1, FieldTyping DEF Places
        <4>3. s.at = p /\ SameRun(r, s) /\ s.orders = run[r].orders - 1
          BY <1>a DEF RunState, SameRun
        <4>4. run' = [run EXCEPT ![r] = s] BY <3>2, <1>a DEF RunInv, TypeOK, RunState
        <4>5. s.at \in Ordering => s.orders # 0 BY <1>c, <4>3, SyncAssumption DEF Ordering, SyncConstants
        <4> HIDE DEF s
        <4> QED BY <1>c, <4>2, <4>3, <4>4, <4>5, BecomingInside DEF InProgress, Ordering
      <3> QED BY <1>7, <3>1, <3>2 DEF SaveBankingInformation
    <2> QED BY <1>7, <1>c, <2>2, <2>3, <2>4, GoesOnWithConnection DEF SaveBankingInformation
  <1> QED BY <1>1, <1>2, <1>3, <1>4, <1>5, <1>6, <1>7 DEF OrderStep

\* FinishRun to Close, and the failures in between.
LEMMA FinishMoves ==
  ASSUME RunInv, NEW r \in Runners,
         FinishRun(r) \/ RecordSuccess(r) \/ RunFails(r) \/ FinishFailed(r) \/ RecordFailure(r)
           \/ Pause(r) \/ Close(r) \/ RecordingFails(r)
  PROVE  Moved(r)
  <1>a. run[r] \in RunState /\ StateFits(run[r]) /\ RowsFit(r) BY LocalsAre
  <1>b. run[r].at \in InProgress
    BY DEF FinishRun, RecordSuccess, RunFails, FinishFailed, RecordFailure, Pause, Close,
           RecordingFails, At, InProgress, Ordering
  <1>c. /\ run[r].user \in Users /\ run[r].on \in Connections
        /\ connection[run[r].user][run[r].on] # None
        /\ connection[run[r].user][run[r].on] \in ConnectionRow
    BY <1>a, <1>b DEF StateFits, RowsFit, InProgress, Ordering, RunInv, TypeOK
  <1> DEFINE old == connection[run[r].user][run[r].on]
  <1>d. ASSUME NEW p \in {"recording", "noting", "pausing", "closing"}, Go(r, p),
               p = "noting" => run[r].outcome \in Failed
        PROVE  /\ Settled(r) /\ run'[r].at \in InProgress
               /\ \A f \in {"op", "user", "on", "id"} : run'[r][f] = run[r][f]
    BY <1>b, <1>d, GoingInside DEF InProgress, Ordering
  <1>1. CASE FinishRun(r)
    <2>1. SetStatus(r, "success") /\ "success" \in RunStatus /\ "success" \notin Unfinished
      BY <1>1 DEF FinishRun, RunStatus, Unfinished
    <2>2. PICK p \in {"recording", "closing"} : Go(r, p) BY <1>1 DEF FinishRun
    <2> QED BY <1>1, <1>b, <1>d, <2>1, <2>2, GoesOnWithStatus DEF FinishRun
  <1>2. CASE RecordSuccess(r)
    <2> DEFINE x == [old EXCEPT !.last = "success"]
    <2>1. x \in ConnectionRow BY <1>c DEF ConnectionRow
    <2>2. connection' = [connection EXCEPT ![run[r].user][run[r].on] = x]
      BY <1>2, <1>c DEF RecordSuccess, SetConnection
    <2> HIDE DEF x
    <2> QED BY <1>2, <1>b, <1>d, <2>1, <2>2, GoesOnWithConnection DEF RecordSuccess
  <1>3. CASE RunFails(r)
    <2>1. /\ Settled(r) /\ run'[r].at = "failing"
          /\ \A f \in {"op", "user", "on", "id"} : run'[r][f] = run[r][f]
      BY <1>3, <1>b, Failing DEF RunFails, Failed
    <2> QED BY <1>3, <1>b, <2>1, GoesOnQuietly DEF RunFails, InProgress
  <1>4. CASE FinishFailed(r)
    <2>1. run[r].outcome \in Failed BY <1>4, <1>a DEF FinishFailed, At, StateFits
    <2>2. /\ SetStatus(r, run[r].outcome) /\ run[r].outcome \in RunStatus
          /\ run[r].outcome \notin Unfinished
      BY <1>4, <2>1 DEF FinishFailed, RunStatus, Unfinished, Failed
    <2>3. PICK p \in {"noting", "closing"} : Go(r, p) BY <1>4 DEF FinishFailed
    <2> QED BY <1>4, <1>b, <1>d, <2>1, <2>2, <2>3, GoesOnWithStatus DEF FinishFailed
  <1>5. CASE RecordFailure(r)
    <2> DEFINE x == [old EXCEPT !.last = run[r].outcome]
    <2>1. run[r].outcome \in Failed BY <1>5, <1>a DEF RecordFailure, At, StateFits
    <2>2. x \in ConnectionRow BY <1>c, <2>1 DEF ConnectionRow
    <2>3. connection' = [connection EXCEPT ![run[r].user][run[r].on] = x]
      BY <1>5, <1>c DEF RecordFailure, SetConnection
    <2>4. PICK p \in {"pausing", "closing"} : Go(r, p) BY <1>5 DEF RecordFailure
    <2> HIDE DEF x
    <2> QED BY <1>5, <1>b, <1>d, <2>2, <2>3, <2>4, GoesOnWithConnection DEF RecordFailure
  <1>6. CASE Pause(r)
    <2> DEFINE x == [old EXCEPT !.paused = TRUE]
    <2>1. x \in ConnectionRow BY <1>c DEF ConnectionRow
    <2>2. connection' = [connection EXCEPT ![run[r].user][run[r].on] = x]
      BY <1>6, <1>c DEF Pause, SetConnection
    <2> HIDE DEF x
    <2> QED BY <1>6, <1>b, <1>d, <2>1, <2>2, GoesOnWithConnection DEF Pause
  <1>7. CASE Close(r)
    <2>1. /\ Settled(r) /\ run'[r].at = "unlocking"
          /\ \A f \in {"op", "user", "on", "id"} : run'[r][f] = run[r][f]
      BY <1>7, GivingBack DEF Close, At
    <2> QED BY <1>7, <1>b, <2>1, GoesOnQuietly DEF Close
  <1>8. CASE RecordingFails(r)
    BY <1>8, <1>b, <1>d, GoesOnQuietly DEF RecordingFails
  <1> QED BY <1>1, <1>2, <1>3, <1>4, <1>5, <1>6, <1>7, <1>8

\* RELEASE_LOCK, and the end.
LEMMA EndMoves ==
  ASSUME RunInv, NEW r \in Runners, Unlock(r) \/ Leave(r)
  PROVE  Moved(r)
  <1> DEFINE u == run[r].user
             c == run[r].on
  <1>a. run[r] \in RunState /\ StateFits(run[r]) /\ RowsFit(r) BY LocalsAre
  <1>b. Idle.at = "idle" /\ Idle.id = 0 BY DEF Idle
  <1>1. CASE Unlock(r)
    <2>1. /\ At(r, "unlocking") /\ u \in Users /\ c \in Connections /\ run[r].op # "none"
          /\ lock[u][c] = r
      BY <1>1, <1>a DEF Unlock, At, StateFits, RowsFit, Holding
    <2>2. lock' = [lock EXCEPT ![u][c] = None] /\ UNCHANGED <<connection, row, lastId>>
      BY <1>1 DEF Unlock
    <2>3. Settled(r) /\ run'[r].at \in {"idle", "leaving"}
      <3>1. CASE run' = [run EXCEPT ![r] = Idle] BY <3>1, <1>b, Ending
      <3>2. CASE Go(r, "leaving") /\ run[r].op # "delete"
        <4>1. run[r].op \in Triggers BY <1>a, <2>1, <3>2 DEF RunState
        <4>2. Settled(r) /\ run'[r] = [run[r] EXCEPT !.at = "leaving"]
          BY <2>1, <3>2, <4>1, Going DEF At, Places, Starting, InProgress, Ordering
        <4> QED BY <1>a, <4>2 DEF RunState
      <3> QED BY <1>1, <3>1, <3>2 DEF Unlock
    <2>4. ~Live(r)' BY <2>3 DEF Live, Running, At
    <2>5. RowsFit(r)' BY <2>3, <2>4 DEF RowsFit, Holding, InProgress, Ordering
    <2>6. lock' \in [Users -> [Connections -> Runners \cup {None}]]
      BY <2>2 DEF RunInv, TypeOK
    <2>7. DatabaseTyped' BY <2>2, <2>6 DEF RunInv, TypeOK, DatabaseTyped, NewIds
    <2>8. Spares(r) BY <2>1, <2>2 DEF Spares, RunInv, TypeOK
    <2>9. LogEffect(r) BY <2>2, <2>4 DEF LogEffect, StaysLive
    <2> QED BY <2>3, <2>5, <2>7, <2>8, <2>9 DEF Moved
  <1>2. CASE Leave(r)
    <2>1. Settled(r) /\ run'[r] = Idle BY <1>2, Ending DEF Leave
    <2> QED BY <1>2, <1>b, <2>1, MovesOutside DEF Leave, At, Holding, InProgress, Ordering
  <1> QED BY <1>1, <1>2

LEMMA DeleteMoves ==
  ASSUME RunInv, NEW r \in Runners, DeleteConnection(r)
  PROVE  Moved(r)
  <1> DEFINE u == run[r].user
             c == run[r].on
  <1>a. run[r] \in RunState /\ StateFits(run[r]) /\ RowsFit(r) BY LocalsAre
  <1>1. /\ At(r, "deleting") /\ u \in Users /\ c \in Connections
        /\ run[r].id = 0 /\ lock[u][c] = r
    BY <1>a DEF DeleteConnection, At, StateFits, RowsFit, Holding
  <1>2. Settled(r) /\ run'[r] = [run[r] EXCEPT !.at = "unlocking"]
    BY <1>1, Going DEF DeleteConnection, At, Places, Starting, InProgress, Ordering
  <1>3. /\ run'[r].at = "unlocking" /\ run'[r].user = u /\ run'[r].on = c /\ run'[r].id = 0
    BY <1>a, <1>1, <1>2 DEF RunState
  <1>4. StaysLive(r) BY <1>1, <1>3, NotLive
  <1>5. UNCHANGED <<lastId, lock>> BY DEF DeleteConnection
  <1>6. RowsFit(r)' BY <1>1, <1>3, <1>5 DEF RowsFit, Live, InProgress, Ordering
  <1>7. LogEffect(r) BY <1>4 DEF LogEffect
  <1>8. CASE UNCHANGED <<connection, row>>
    BY <1>2, <1>5, <1>6, <1>7, <1>8, QuietSpares DEF Moved
  <1>9. CASE /\ connection' = [connection EXCEPT ![u][c] = None]
             /\ row' = [row EXCEPT ![u] = [id \in RunIds |->
                  IF @[id] # None /\ @[id].connection = c THEN None ELSE @[id]]]
    <2> DEFINE left == [id \in RunIds |->
                 IF row[u][id] # None /\ row[u][id].connection = c THEN None ELSE row[u][id]]
    <2>1. left \in [RunIds -> RunRow \cup {None}] BY <1>1 DEF RunInv, TypeOK
    <2>2. row' = [row EXCEPT ![u] = left] BY <1>1, <1>9 DEF RunInv, TypeOK
    <2>3. \A id \in RunIds : row[u][id] = None => left[id] = None OBVIOUS
    <2>4. \A id \in RunIds :
            row[u][id] # None /\ row[u][id].connection # c => left[id] = row[u][id]
      OBVIOUS
    <2> HIDE DEF left
    <2>5. row' \in [Users -> [RunIds -> RunRow \cup {None}]] BY <2>1, <2>2 DEF RunInv, TypeOK
    <2>6. NewIds' BY <1>1, <1>5, <2>2, <2>3 DEF RunInv, TypeOK, NewIds
    <2>7. connection' \in [Users -> [Connections -> ConnectionRow \cup {None}]]
      <3> DEFINE Row == ConnectionRow \cup {None}
      <3>1. connection \in [Users -> [Connections -> Row]] /\ None \in Row
        BY DEF RunInv, TypeOK
      <3> HIDE DEF Row
      <3>2. connection' \in [Users -> [Connections -> Row]] BY <1>9, <3>1
      <3> QED BY <3>2 DEF Row
    <2>8. DatabaseTyped' BY <1>5, <2>5, <2>6, <2>7 DEF DatabaseTyped, RunInv, TypeOK
    <2>9. \A v \in Users, d \in Connections :
            connection[v][d] # None /\ lock[v][d] # r => connection'[v][d] # None
      BY <1>1, <1>9 DEF RunInv, TypeOK
    <2>10. \A v \in Users, id \in RunIds :
             row[v][id] # None /\ lock[v][row[v][id].connection] # r => row'[v][id] = row[v][id]
      BY <1>1, <2>2, <2>4 DEF RunInv, TypeOK
    <2>11. Spares(r) BY <1>5, <2>9, <2>10 DEF Spares
    <2> QED BY <1>2, <1>6, <1>7, <2>8, <2>11 DEF Moved
  <1> QED BY <1>8, <1>9 DEF DeleteConnection

\* Whatever a runner does.
LEMMA RunnerMoves ==
  ASSUME RunInv, NEW r \in Runners, Moves(r)
  PROVE  Moved(r)
  BY StartMoves, RequestDeleteMoves, BeginMoves, OrderMoves, FinishMoves, EndMoves, DeleteMoves
  DEF Moves, RunStep, EndStep

-----------------------------------------------------------------------------
(* Every step. *)

\* A runner's step leaves the others what they rely on.
LEMMA OthersKeep ==
  ASSUME RunInv, NEW r \in Runners, Moved(r), NEW s \in Runners, s # r
  PROVE  run'[s] = run[s] /\ RowsFit(s)'
  <1> DEFINE u == run[s].user
             c == run[s].on
             id == run[s].id
  <1>1. run'[s] = run[s] BY DEF Moved, Settled, RunInv, TypeOK
  <1>2. run[s] \in RunState /\ StateFits(run[s]) /\ RowsFit(s) BY LocalsAre
  <1>3. CASE run[s].at \in Holding
    <2>1. u \in Users /\ c \in Connections /\ lock[u][c] = s
      BY <1>2, <1>3 DEF StateFits, RowsFit, Holding, InProgress, Ordering
    <2>2. lock'[u][c] = s BY <2>1 DEF Moved, Spares
    <2>3. connection[u][c] # None => connection'[u][c] # None BY <2>1 DEF Moved, Spares
    <2>4. Live(s) => row'[u][id] # None /\ row'[u][id].connection = c
      <3> HAVE Live(s)
      <3>1. id \in RunIds BY <1>2 DEF Live, RunState
      <3>2. row[u][id] # None /\ row[u][id].connection = c BY <1>2 DEF RowsFit
      <3> QED BY <2>1, <3>1, <3>2 DEF Moved, Spares
    <2>5. Live(s)' <=> Live(s) BY <1>1 DEF Live, Running, At
    <2> HIDE DEF u, c, id
    <2>6. run[s].user = u /\ run[s].on = c /\ run[s].id = id BY DEF u, c, id
    <2> QED BY <1>1, <1>2, <2>2, <2>3, <2>4, <2>5, <2>6 DEF RowsFit
  <1>4. CASE run[s].at \notin Holding
    <2>1. ~Live(s)' BY <1>1, <1>4 DEF Live, Running, At, Holding, InProgress, Ordering
    <2> QED BY <1>1, <1>4, <2>1 DEF RowsFit, Holding
  <1> QED BY <1>1, <1>3, <1>4

LEMMA TansTyping ==
  ASSUME TansTypeOK, NEW id \in RunIds
  PROVE  /\ Wake(id) => TansTypeOK'
         /\ Expire(id) => TansTypeOK'
         /\ DeadlinePasses(id) => TansTypeOK'
         /\ Release(id) => TansTypeOK'
         /\ \A r \in Callers, challenge \in [kind : Kinds, reference : References] :
              /\ Register(id, r, challenge) => TansTypeOK'
              /\ RegisterTooLate(id, challenge) => TansTypeOK'
  <1> DEFINE Some == Entry \cup {NoEntry}
  <1>1. entries \in [RunIds -> Some] /\ NoEntry \in Some BY DEF TansTypeOK
  <1>2. NoEntry.waiter = None BY DEF NoEntry
  <1>3. Wake(id) => [entries[id] EXCEPT !.waiter = None] \in Some
    <2>1. HasWaiter(id) => entries[id] \in Entry BY <1>1, <1>2 DEF HasWaiter
    <2> QED BY <2>1 DEF Wake, Entry
  <1>4. DeadlinePasses(id) => [entries[id] EXCEPT !.expired = TRUE] \in Some
    <2>1. entries[id] # NoEntry => entries[id] \in Entry BY <1>1
    <2> QED BY <2>1 DEF DeadlinePasses, Entry
  <1>5. \A r \in Callers, challenge \in [kind : Kinds, reference : References] :
          [kind |-> challenge.kind, reference |-> challenge.reference,
           expired |-> FALSE, waiter |-> r] \in Some
    BY DEF Entry
  <1>6. TansTypeOK' <=> entries' \in [RunIds -> Some] BY DEF TansTypeOK
  <1> HIDE DEF Some
  <1>7. ASSUME NEW x \in Some, entries' = [entries EXCEPT ![id] = x] PROVE TansTypeOK'
    BY <1>1, <1>6, <1>7
  <1>8. Wake(id) => TansTypeOK' BY <1>3, <1>7 DEF Wake
  <1>9. Expire(id) => TansTypeOK' BY <1>1, <1>7 DEF Expire
  <1>10. DeadlinePasses(id) => TansTypeOK' BY <1>4, <1>7 DEF DeadlinePasses
  <1>11. Release(id) => TansTypeOK' BY <1>1, <1>7 DEF Release
  <1>12. ASSUME NEW r \in Callers, NEW challenge \in [kind : Kinds, reference : References]
         PROVE  /\ Register(id, r, challenge) => TansTypeOK'
                /\ RegisterTooLate(id, challenge) => TansTypeOK'
    BY <1>1, <1>5, <1>7 DEF Register, RegisterTooLate
  <1> QED BY <1>8, <1>9, <1>10, <1>11, <1>12

LEMMA ActivityTyping ==
  ASSUME ActivityTypeOK, NEW u \in Users,
         MarkUserBusy(u) \/ UnmarkUserBusy(u) \/ BeginReconfiguring(u) \/ EndReconfiguring(u)
           \/ UNCHANGED activityVars
  PROVE  ActivityTypeOK'
  <1>1. CASE MarkUserBusy(u) BY <1>1 DEF MarkUserBusy, ActivityTypeOK
  <1>2. CASE UnmarkUserBusy(u)
    <2>1. busyRuns[u] - 1 \in Nat BY <1>2 DEF UnmarkUserBusy, IsUserBusy, ActivityTypeOK
    <2> QED BY <1>2, <2>1 DEF UnmarkUserBusy, ActivityTypeOK
  <1>3. CASE BeginReconfiguring(u) BY <1>3 DEF BeginReconfiguring, ActivityTypeOK
  <1>4. CASE EndReconfiguring(u) BY <1>4 DEF EndReconfiguring, ActivityTypeOK
  <1>5. CASE UNCHANGED activityVars BY <1>5 DEF activityVars, ActivityTypeOK
  <1> QED BY <1>1, <1>2, <1>3, <1>4, <1>5

\* What a runner's step does to the registries in memory.
LEMMA MemoryTyped ==
  ASSUME RunInv, NEW r \in Runners, Moves(r)
  PROVE  ActivityTypeOK' /\ TansTypeOK'
  <1>a. run[r] \in RunState /\ StateFits(run[r]) /\ ActivityTypeOK /\ TansTypeOK
    BY LocalsAre DEF RunInv, TypeOK
  <1>1. ActivityTypeOK'
    <2>1. CASE \E op \in Triggers, u \in Users, c \in Connections : Start(r, op, u, c)
      BY <1>a, <2>1, ActivityTyping DEF Start
    <2>2. CASE Leave(r)
      <3>1. run[r].user \in Users BY <1>a, <2>2 DEF Leave, At, StateFits
      <3> QED BY <1>a, <2>2, <3>1, ActivityTyping DEF Leave
    <2>3. CASE UNCHANGED activityVars BY <1>a, <2>3 DEF activityVars, ActivityTypeOK
    <2> QED BY <2>1, <2>2, <2>3
        DEF Moves, RequestDelete, RunStep, RecordingFails, BeginStep, GetKey, TakeLock, LockFails,
            ReadConnection, ClearPause, CreateRow, BeginFails, OrderStep, BankAsks, MarkWaiting,
            TakeAnswer, Resume, Settle, ShowSettled, SaveBankingInformation, EndStep, FinishRun,
            RecordSuccess, RunFails, FinishFailed, RecordFailure, Pause, Close, Unlock,
            DeleteConnection
  <1>2. TansTypeOK'
    <2>1. CASE BankAsks(r) \/ Settle(r) \/ Close(r)
      <3>1. run[r].id \in RunIds /\ r \in Callers
        BY <1>a, <2>1, SyncAssumption
        DEF BankAsks, Settle, Close, At, StateFits, RunState, InProgress, Ordering, SyncConstants
      <3> QED BY <1>a, <2>1, <3>1, TansTyping DEF BankAsks, Settle, Close, TansTypeOK
    <2>2. CASE UNCHANGED entries BY <1>a, <2>2 DEF TansTypeOK
    <2> QED BY <2>1, <2>2
        DEF Moves, Start, RequestDelete, RunStep, RecordingFails, BeginStep, GetKey, TakeLock,
            LockFails, ReadConnection, ClearPause, CreateRow, BeginFails, OrderStep, MarkWaiting,
            TakeAnswer, Resume, ShowSettled, SaveBankingInformation, EndStep, FinishRun,
            RecordSuccess, RunFails, FinishFailed, RecordFailure, Pause, Unlock, Leave,
            DeleteConnection
  <1> QED BY <1>1, <1>2

\* A runner's step keeps the invariant, if the scheduler's state stays right.
LEMMA RunnerKeeps ==
  ASSUME RunInv, NEW r \in Runners, Moves(r), (scheduler \in SchedulerState)', TickFits'
  PROVE  RunInv'
  <1>1. Moved(r) BY RunnerMoves
  <1>2. run' \in [Runners -> RunState] BY <1>1 DEF Moved, Settled, RunInv, TypeOK
  <1>3. TypeOK' BY <1>1, <1>2, MemoryTyped DEF TypeOK, Moved, DatabaseTyped
  <1>4. \A s \in Runners : (StateFits(run[s]) /\ RowsFit(s))'
    BY <1>1, OthersKeep, LocalsAre DEF Moved, Settled
  <1>5. NewIds' BY <1>1 DEF Moved, DatabaseTyped
  <1> QED BY <1>3, <1>4, <1>5 DEF RunInv

\* An answer changes the promise of the run that waits, and nothing it relies on.
LEMMA AnswerKeeps ==
  ASSUME RunInv, NEW id \in RunIds, HasWaiter(id), TansTypeOK',
         NEW a \in {"tan", "poll", "expired"}, Resolve(id, a),
         UNCHANGED <<activityVars, connection, row, lastId, lock, scheduler>>
  PROVE  /\ RunInv'
         /\ \A s \in Runners : /\ Live(s)' <=> Live(s)
                               /\ run'[s].user = run[s].user /\ run'[s].id = run[s].id
  <1> DEFINE w == entries[id].waiter
             x == [run[w] EXCEPT !.answer = a]
  <1>1. w \in Runners
    BY SyncAssumption
    DEF RunInv, TypeOK, TansTypeOK, Entry, NoEntry, HasWaiter, SyncConstants
  <1>2. x \in RunState
    BY <1>1, LocalsAre, FieldTyping
  <1>3. \A f \in {"op", "at", "user", "on", "id", "orders", "outcome"} : x[f] = run[w][f]
    BY <1>1, LocalsAre DEF RunState
  <1>4. run' = [run EXCEPT ![w] = x] BY <1>1 DEF Resolve, RunInv, TypeOK
  <1> HIDE DEF w, x
  <1>5. run' \in [Runners -> RunState] BY <1>1, <1>2, <1>4 DEF RunInv, TypeOK
  <1>6. ASSUME NEW s \in Runners
        PROVE  \A f \in {"op", "at", "user", "on", "id", "orders", "outcome"} : run'[s][f] = run[s][f]
    BY <1>1, <1>3, <1>4 DEF RunInv, TypeOK
  <1>7. ASSUME NEW s \in Runners
        PROVE  /\ StateFits(run'[s])
               /\ Live(s)' <=> Live(s)
               /\ RowsFit(s)'
    <2>1. StateFits(run[s]) /\ RowsFit(s) BY LocalsAre
    <2>2. StateFits(run'[s]) BY <1>6, <2>1 DEF StateFits
    <2>3. Live(s)' <=> Live(s) BY <1>6 DEF Live, Running, At
    <2> QED BY <1>6, <2>1, <2>2, <2>3 DEF RowsFit
  <1>8. TypeOK' BY <1>5 DEF RunInv, TypeOK, activityVars, ActivityTypeOK
  <1>9. NewIds' /\ TickFits' BY DEF RunInv, NewIds, TickFits
  <1> QED BY <1>6, <1>7, <1>8, <1>9 DEF RunInv

\* A step that leaves the runs and the database alone.
LEMMA Elsewhere ==
  ASSUME RunInv, UNCHANGED <<connection, row, lastId, lock, run>>,
         ActivityTypeOK', TansTypeOK', (scheduler \in SchedulerState)', TickFits'
  PROVE  RunInv'
  <1>1. TypeOK' BY DEF RunInv, TypeOK
  <1>2. \A s \in Runners : (StateFits(run[s]) /\ RowsFit(s))'
    BY LocalsAre DEF RowsFit, Live, Running, At
  <1>3. NewIds' BY DEF RunInv, NewIds
  <1> QED BY <1>1, <1>2, <1>3 DEF RunInv

LEMMA UpdateKeeps ==
  ASSUME RunInv, NEW u \in Users, NEW c \in Connections, UpdateConnection(u, c)
  PROVE  RunInv'
  <1> DEFINE Row == ConnectionRow \cup {None}
  <1>1. PICK i \in Identities :
          connection' = [connection EXCEPT ![u][c].identity = i, ![u][c].bankData = None]
    BY DEF UpdateConnection
  <1> DEFINE x == [connection[u][c] EXCEPT !.identity = i, !.bankData = None]
  <1>2. x \in ConnectionRow /\ x # None
    <2>1. connection[u][c] \in ConnectionRow BY DEF UpdateConnection, RunInv, TypeOK
    <2>2. x \in ConnectionRow BY <2>1 DEF ConnectionRow
    <2> QED BY <2>2, SyncAssumption DEF SyncConstants
  <1>3. connection' = [connection EXCEPT ![u][c] = x] BY <1>1 DEF RunInv, TypeOK
  <1>4. connection \in [Users -> [Connections -> Row]] /\ x \in Row BY <1>2 DEF RunInv, TypeOK
  <1> HIDE DEF Row, x
  <1>5. connection' \in [Users -> [Connections -> Row]] BY <1>3, <1>4
  <1>6. KeepsConnections BY <1>2, <1>3, <1>4 DEF KeepsConnections
  <1>7. UNCHANGED <<activityVars, entries, row, lastId, lock, run, scheduler>>
    BY DEF UpdateConnection
  <1>8. TypeOK' BY <1>5, <1>7 DEF RunInv, TypeOK, activityVars, ActivityTypeOK, TansTypeOK, Row
  <1>9. ASSUME NEW s \in Runners PROVE (StateFits(run[s]) /\ RowsFit(s))'
    <2>1. StateFits(run[s]) /\ RowsFit(s) BY LocalsAre
    <2>2. /\ run[s].at \in {"unpausing", "creating"} \cup InProgress =>
               run[s].user \in Users /\ run[s].on \in Connections
          /\ Live(s)' <=> Live(s)
      BY <1>7, <2>1 DEF StateFits, Live, Running, At, InProgress, Ordering
    <2> QED BY <1>6, <1>7, <2>1, <2>2 DEF RowsFit, KeepsConnections
  <1>10. NewIds' /\ TickFits' BY <1>7 DEF RunInv, NewIds, TickFits
  <1> QED BY <1>8, <1>9, <1>10 DEF RunInv

\* The scheduler's own steps.
LEMMA TickKeeps ==
  ASSUME RunInv, Tick \/ SkipUser \/ ListDue \/ SkipBusy \/ UserDone \/ TickDone \/ Stop
  PROVE  RunInv'
  <1>1. UNCHANGED <<activityVars, entries, connection, row, lastId, lock, run>>
    BY DEF Tick, SkipUser, ListDue, SkipBusy, UserDone, TickDone, Stop
  <1>2. ActivityTypeOK' /\ TansTypeOK'
    BY <1>1 DEF RunInv, TypeOK, activityVars, ActivityTypeOK, TansTypeOK
  <1>3. (scheduler \in SchedulerState)' /\ TickFits'
    <2>a. scheduler \in SchedulerState /\ TickFits BY DEF RunInv, TypeOK
    <2> USE <2>a DEF SchedulerState, TickFits
    <2>1. CASE Tick BY <2>1 DEF Tick
    <2>2. CASE SkipUser
      <3>1. PICK u \in scheduler.todo : scheduler' = [scheduler EXCEPT !.todo = @ \ {u}]
        BY <2>2 DEF SkipUser
      <3>2. scheduler.todo \ {u} \in SUBSET Users OBVIOUS
      <3> QED BY <3>1, <3>2
    <2>3. CASE ListDue BY <2>3 DEF ListDue, MayBeDue
    <2>4. CASE SkipBusy BY <2>4 DEF SkipBusy
    <2>5. CASE UserDone BY <2>5 DEF UserDone
    <2>6. CASE TickDone BY <2>6 DEF TickDone
    <2>7. CASE Stop BY <2>7 DEF Stop
    <2> QED BY <2>1, <2>2, <2>3, <2>4, <2>5, <2>6, <2>7
  <1> QED BY <1>1, <1>2, <1>3, Elsewhere

LEMMA StartDueKeeps ==
  ASSUME RunInv, StartDue
  PROVE  Moves(Scheduler) /\ RunInv'
  <1>1. PICK c \in scheduler.due :
          /\ Start(Scheduler, "scheduled", scheduler.user, c)
          /\ scheduler' = [scheduler EXCEPT !.due = @ \ {c}]
    BY DEF StartDue
  <1>2. scheduler.user \in Users /\ c \in Connections /\ Scheduler \in Runners
    BY SyncAssumption
    DEF StartDue, RunInv, TickFits, TypeOK, SchedulerState, SyncConstants
  <1>3. Moves(Scheduler) BY <1>1, <1>2 DEF Moves, Triggers
  <1>4. (scheduler \in SchedulerState)' /\ TickFits'
    BY <1>1, <1>2 DEF RunInv, TypeOK, SchedulerState, TickFits
  <1> QED BY <1>2, <1>3, <1>4, RunnerKeeps

\* Nothing has begun: after Init and after a restart.
LEMMA NothingRuns ==
  ASSUME run = [r \in Runners |-> Idle], scheduler = Resting
  PROVE  /\ run \in [Runners -> RunState] /\ scheduler \in SchedulerState
         /\ \A r \in Runners : StateFits(run[r]) /\ RowsFit(r) /\ ~Live(r)
         /\ TickFits
  <1>1. Idle.at = "idle" /\ Idle.id = 0 BY DEF Idle
  <1>2. \A r \in Runners : ~Live(r) BY <1>1 DEF Live
  <1>3. \A r \in Runners : RowsFit(r)
    BY <1>1, <1>2 DEF RowsFit, Holding, InProgress, Ordering
  <1> QED BY <1>2, <1>3, IdleTyping DEF SchedulerState, Resting, TickFits

LEMMA InitRuns == Init => RunInv
  <1> SUFFICES ASSUME Init PROVE RunInv OBVIOUS
  <1>1. connection \in [Users -> [Connections -> ConnectionRow \cup {None}]]
    <2> DEFINE New == {NewConnection(i) : i \in Identities}
               Row == ConnectionRow \cup {None}
    <2>a. \A i \in Identities : NewConnection(i) \in ConnectionRow
      BY DEF NewConnection, ConnectionRow
    <2>1. New \subseteq Row BY <2>a
    <2>2. connection \in [Users -> [Connections -> New]] BY DEF Init
    <2> HIDE DEF New, Row
    <2>3. connection \in [Users -> [Connections -> Row]] BY <2>1, <2>2
    <2> QED BY <2>3 DEF Row
  <1>2. ActivityTypeOK /\ TansTypeOK
    BY DEF Init, ActivityInit, ActivityTypeOK, TansInit, TansTypeOK
  <1>3. TypeOK BY <1>1, <1>2, NothingRuns DEF Init, TypeOK
  <1>4. NewIds BY DEF Init, NewIds
  <1> QED BY <1>3, <1>4, NothingRuns DEF RunInv, Init

LEMMA RestartKeeps ==
  ASSUME RunInv, Restart
  PROVE  RunInv' /\ \A r \in Runners : ~Live(r)'
  <1>1. run' = [r \in Runners |-> Idle] /\ scheduler' = Resting BY DEF Restart
  <1>2. /\ run' \in [Runners -> RunState] /\ scheduler' \in SchedulerState
        /\ \A r \in Runners : (StateFits(run[r]) /\ RowsFit(r) /\ ~Live(r))'
        /\ TickFits'
    <2>1. Idle.at = "idle" /\ Idle.id = 0 BY DEF Idle
    <2>2. \A r \in Runners : ~Live(r)' BY <1>1, <2>1 DEF Live
    <2>3. \A r \in Runners : RowsFit(r)'
      BY <1>1, <2>1, <2>2 DEF RowsFit, Holding, InProgress, Ordering
    <2> QED BY <1>1, <2>2, <2>3, IdleTyping DEF SchedulerState, Resting, TickFits
  <1>3. ActivityTypeOK' /\ TansTypeOK'
    BY DEF Restart, ForgetActivity, ActivityTypeOK, ForgetTans, TansTypeOK
  <1>4. TypeOK' BY <1>2, <1>3 DEF Restart, RunInv, TypeOK
  <1>5. NewIds' BY DEF Restart, RunInv, NewIds
  <1> QED BY <1>2, <1>4, <1>5 DEF RunInv

\* Every step of Next, sorted by who takes it.
LEMMA NextKeeps ==
  ASSUME RunInv, [Next]_vars
  PROVE  RunInv'
  <1>1. ASSUME NEW r \in Runners,
               RequestRun(r) \/ RequestDelete(r) \/ RunStep(r) \/ RecordingFails(r)
        PROVE  RunInv'
    <2>1. scheduler' = scheduler /\ Moves(r)
      <3>1. scheduler' = scheduler
        BY <1>1
        DEF RequestRun, RequestDelete, RunStep, RecordingFails, BeginStep, GetKey, TakeLock,
            LockFails, ReadConnection, ClearPause, CreateRow, BeginFails, OrderStep, BankAsks,
            MarkWaiting, TakeAnswer, Resume, Settle, ShowSettled, SaveBankingInformation, EndStep,
            FinishRun, RecordSuccess, RunFails, FinishFailed, RecordFailure, Pause, Close, Unlock,
            Leave, DeleteConnection
      <3>2. Moves(r) BY <1>1 DEF Moves, RequestRun, Triggers
      <3> QED BY <3>1, <3>2
    <2>2. (scheduler \in SchedulerState)' /\ TickFits' BY <2>1 DEF RunInv, TypeOK, TickFits
    <2> QED BY <2>1, <2>2, RunnerKeeps
  <1>2. ASSUME NEW u \in Users, Reconfigure(u) PROVE RunInv'
    <2>1. ActivityTypeOK' BY <1>2, ActivityTyping DEF Reconfigure, RunInv, TypeOK
    <2>2. UNCHANGED <<entries, syncVars>> BY <1>2 DEF Reconfigure
    <2> QED BY <2>1, <2>2, Elsewhere DEF syncVars, RunInv, TypeOK, TansTypeOK, TickFits
  <1>3. ASSUME NEW u \in Users, NEW c \in Connections, UpdateConnection(u, c) PROVE RunInv'
    BY <1>3, UpdateKeeps
  <1>4. ASSUME NEW id \in RunIds, AnswerTan(id) \/ Timer(id) PROVE RunInv'
    <2>1. TansTypeOK' /\ HasWaiter(id)
      BY <1>4, TansTyping
      DEF AnswerTan, Timer, PollDue, TanExpires, RunInv, TypeOK, Wake, Expire
    <2>2. \E a \in {"tan", "poll", "expired"} : Resolve(id, a)
      BY <1>4 DEF AnswerTan, Timer, PollDue, TanExpires
    <2> QED BY <1>4, <2>1, <2>2, AnswerKeeps DEF AnswerTan, Timer, PollDue, TanExpires
  <1>5. ASSUME NEW id \in RunIds, TimePasses(id) PROVE RunInv'
    <2>1. TansTypeOK' /\ UNCHANGED <<activityVars, syncVars>>
      BY <1>5, TansTyping DEF TimePasses, RunInv, TypeOK
    <2> QED BY <2>1, Elsewhere DEF activityVars, syncVars, RunInv, TypeOK, ActivityTypeOK, TickFits
  <1>6. CASE Tick \/ SkipUser \/ ListDue \/ SkipBusy \/ UserDone \/ TickDone \/ Stop
    BY <1>6, TickKeeps
  <1>7. CASE StartDue BY <1>7, StartDueKeeps
  <1>8. CASE Restart BY <1>8, RestartKeeps
  <1>9. CASE UNCHANGED vars
    BY <1>9, Elsewhere
    DEF vars, syncVars, activityVars, RunInv, TypeOK, ActivityTypeOK, TansTypeOK, TickFits
  <1> QED BY <1>1, <1>2, <1>3, <1>4, <1>5, <1>6, <1>7, <1>8, <1>9 DEF Next, TickStep

LEMMA RunsKept == Spec => []RunInv
  BY InitRuns, NextKeeps, PTL DEF Spec

\* Type correctness of SyncRuns, for any users, runners, connections and bounds.
THEOREM RunTypesCorrect == Spec => []TypeOK
  <1>1. RunInv => TypeOK BY DEF RunInv
  <1> QED BY <1>1, RunsKept, PTL

\* Whatever starts, deletes, edits, fails or restarts meanwhile: a run in progress holds its
\* connection's lock alone, and its connection and its own row are there (sync-service.ts).
THEOREM RowsCorrect == Spec => []RunKeepsItsRows
  <1>1. RunInv => RunKeepsItsRows
    <2> SUFFICES ASSUME RunInv, NEW r \in Runners, Running(r)
                 PROVE  LET u == run[r].user
                            c == run[r].on
                        IN /\ lock[u][c] = r
                           /\ connection[u][c] # None
                           /\ row[u][run[r].id] # None
                           /\ row[u][run[r].id].connection = c
      BY DEF RunKeepsItsRows
    <2>1. run[r].at \in InProgress /\ StateFits(run[r]) /\ RowsFit(r)
      BY LocalsAre DEF Running, InProgress, Ordering
    <2> QED BY <2>1 DEF StateFits, RowsFit, Live, Holding
  <1> QED BY <1>1, RunsKept, PTL

-----------------------------------------------------------------------------
(* What the rows say of the runs in progress. *)

\* The run's prompt and its row: they differ only between an answer of the registry and the
\* write that follows.  A run that closes has recorded its end, unless that failed.
StatusFits(s, status) ==
  /\ s.at \in Starting => s.waiting = FALSE
  /\ s.at \in {"order", "awaiting", "saving", "finishing"} =>
       status = IF s.waiting THEN "tan_required" ELSE "running"
  /\ s.at = "marking" => status = "running" /\ s.waiting = TRUE
  /\ s.at = "awaiting" => s.waiting = TRUE
  /\ s.at \in {"resuming", "settling"} => status = "tan_required" /\ s.waiting = FALSE
  /\ Faults = {} /\ s.at \in {"recording", "noting", "pausing", "closing"} =>
       status \notin Unfinished

StatusInv == \A r \in Runners : StatusFits(run[r], row[run[r].user][run[r].id].status)

\* Nobody else writes a run's row.
LEMMA OthersStatus ==
  ASSUME RunInv, NEW r \in Runners, Moved(r), NEW s \in Runners, s # r, run[s].at \in InProgress
  PROVE  row'[run[s].user][run[s].id] = row[run[s].user][run[s].id]
  <1> DEFINE u == run[s].user
             c == run[s].on
             id == run[s].id
  <1>1. /\ run[s] \in RunState /\ u \in Users /\ c \in Connections /\ id \in RunIds
        /\ lock[u][c] = s /\ row[u][id] # None /\ row[u][id].connection = c
    BY LocalsAre
    DEF StateFits, RowsFit, Live, Running, At, Holding, InProgress, Ordering, RunState
  <1>2. CASE row' = row BY <1>2
  <1>3. CASE CreateRow(r)
    <2> DEFINE new == lastId[run[r].user] + 1
    <2>1. /\ run[r].user \in Users /\ new \in RunIds /\ lastId[run[r].user] \in RunIds \cup {0}
      BY <1>3, LocalsAre DEF CreateRow, At, StateFits, RunInv, TypeOK
    <2>2. RunIds \cup {0} \subseteq Nat BY IdsAreNumbers
    <2>3. lastId[run[r].user] < new BY <2>1, <2>2
    <2>4. row[run[r].user][new] = None BY <2>1, <2>3 DEF RunInv, NewIds
    <2>5. row' = [row EXCEPT ![run[r].user][new] =
                    [connection |-> run[r].on, trigger |-> run[r].op, status |-> "running"]]
      BY <1>3 DEF CreateRow
    <2> QED BY <1>1, <2>1, <2>4, <2>5 DEF RunInv, TypeOK
  <1>4. ASSUME Live(r), NEW x \in RunStatus, SetStatus(r, x)
        PROVE  row'[u][id] = row[u][id]
    <2>1. run[r] \in RunState /\ StateFits(run[r]) /\ RowsFit(r) /\ run[r].at \in Holding
      BY <1>4, LocalsAre DEF Live, Running, At, Holding, InProgress, Ordering
    <2>2. /\ run[r].user \in Users /\ run[r].id \in RunIds
          /\ lock[run[r].user][run[r].on] = r
          /\ row[run[r].user][run[r].id] # None
          /\ row[run[r].user][run[r].id].connection = run[r].on
      BY <1>4, <2>1 DEF Live, StateFits, RowsFit, Holding, InProgress, Ordering, RunState
    <2>3. <<u, id>> # <<run[r].user, run[r].id>> BY <1>1, <2>2
    <2>4. \E y : row' = [row EXCEPT ![run[r].user][run[r].id] = y]
      BY <1>4, <2>2 DEF SetStatus
    <2> HIDE DEF u, id, c
    <2> QED BY <1>1, <2>2, <2>3, <2>4 DEF RunInv, TypeOK
  <1>5. CASE DeleteConnection(r)
    <2>1. run[r].user \in Users /\ lock[run[r].user][run[r].on] = r
      BY <1>5, LocalsAre DEF DeleteConnection, At, StateFits, RowsFit, Holding
    <2>2. run[r].user # u \/ run[r].on # c BY <1>1, <2>1
    <2>3. CASE row' = row BY <2>3
    <2>4. CASE row' = [row EXCEPT ![run[r].user] = [i \in RunIds |->
                         IF @[i] # None /\ @[i].connection = run[r].on THEN None ELSE @[i]]]
      <3>1. CASE run[r].user # u BY <1>1, <2>1, <2>4, <3>1 DEF RunInv, TypeOK
      <3>2. CASE run[r].user = u
        <4>1. row'[u][id] = IF row[u][id] # None /\ row[u][id].connection = run[r].on THEN None
                            ELSE row[u][id]
          BY <1>1, <2>4, <3>2 DEF RunInv, TypeOK
        <4> QED BY <1>1, <2>2, <3>2, <4>1
      <3> QED BY <3>1, <3>2
    <2> QED BY <1>5, <2>3, <2>4 DEF DeleteConnection
  <1> QED BY <1>2, <1>3, <1>4, <1>5 DEF Moved, LogEffect

\* The status a run has written.
LEMMA WrittenStatus ==
  ASSUME RunInv, NEW r \in Runners, run[r].at \in InProgress, NEW s \in RunStatus
  PROVE  /\ SetStatus(r, s) => row'[run[r].user][run[r].id].status = s
         /\ /\ SetWaiting(r, s)
            /\ row[run[r].user][run[r].id].status \in Unfinished
            => row'[run[r].user][run[r].id].status = s
  <1> DEFINE u == run[r].user
             id == run[r].id
             x == [row[u][id] EXCEPT !.status = s]
  <1>1. /\ u \in Users /\ id \in RunIds /\ row[u][id] # None /\ row[u][id] \in RunRow
    BY LocalsAre
    DEF StateFits, RowsFit, Live, Running, At, InProgress, Ordering, RunState, RunInv, TypeOK
  <1>2. x.status = s BY <1>1 DEF RunRow
  <1>3. SetStatus(r, s) => row'[u][id].status = s
    <2>1. SetStatus(r, s) => row' = [row EXCEPT ![u][id] = x] BY <1>1 DEF SetStatus
    <2> HIDE DEF x
    <2>2. SetStatus(r, s) => row'[u][id] = x BY <1>1, <2>1 DEF RunInv, TypeOK
    <2> QED BY <1>2, <2>2
  <1>4. SetWaiting(r, s) /\ row[u][id].status \in Unfinished => SetStatus(r, s)
    BY <1>1 DEF SetWaiting
  <1> QED BY <1>3, <1>4

\* Going on says the same of the same run.
LEMMA GoneTo ==
  ASSUME RunInv, NEW r \in Runners, NEW p, Go(r, p)
  PROVE  /\ run'[r].at = p
         /\ \A f \in {"user", "id", "waiting", "op", "outcome"} : run'[r][f] = run[r][f]
  BY LocalsAre DEF Go, RunInv, TypeOK, RunState

\* The runner's own step, by where it goes.
LEMMA OwnStatus ==
  ASSUME RunInv, NEW r \in Runners, Moves(r), StatusInv
  PROVE  StatusFits(run'[r], row'[run'[r].user][run'[r].id].status)
  <1> DEFINE u == run[r].user
             id == run[r].id
             old == row[u][id].status
             new == row'[run'[r].user][run'[r].id].status
  <1>a. run[r] \in RunState /\ StateFits(run[r]) /\ StatusFits(run[r], old)
    BY LocalsAre DEF StatusInv
  <1>b. run \in [Runners -> RunState] BY DEF RunInv, TypeOK
  <1>c. ASSUME run'[r].at \in {"idle", "locking", "deleting", "unlocking", "leaving", "failing"},
               run'[r].at # "locking" \/ run'[r].waiting = FALSE
        PROVE  StatusFits(run'[r], new)
    BY <1>c DEF StatusFits, Starting
  <1>d. ASSUME run'[r].at \in Starting, run'[r].waiting = FALSE
        PROVE  StatusFits(run'[r], new)
    BY <1>d DEF StatusFits, Starting
  <1>e. ASSUME Fail(r, "error") \/ Fail(r, "tan_expired") PROVE StatusFits(run'[r], new)
    <2>1. run'[r].at = "failing" BY <1>a, <1>b, <1>e DEF Fail, RunState
    <2> QED BY <1>c, <2>1
  <1>f. ASSUME GiveBack(r, "unlocking") PROVE StatusFits(run'[r], new)
    <2>1. run'[r].at = "unlocking" BY <1>b, <1>f DEF GiveBack, Idle
    <2> QED BY <1>c, <2>1
  <1>g. ASSUME run' = [run EXCEPT ![r] = Idle] PROVE StatusFits(run'[r], new)
    <2>1. run'[r].at = "idle" BY <1>b, <1>g DEF Idle
    <2> QED BY <1>c, <2>1
  <1>h. \A s \in RunStatus : run[r].at \in InProgress /\ run'[r].user = u /\ run'[r].id = id =>
          /\ SetStatus(r, s) => new = s
          /\ SetWaiting(r, s) /\ old \in Unfinished => new = s
    BY WrittenStatus
  <1>1. CASE \E op \in Triggers, v \in Users, c \in Connections : Start(r, op, v, c)
    <2>1. run'[r].at = "key" /\ run'[r].waiting = FALSE BY <1>1, <1>b DEF Start, Idle
    <2> QED BY <1>d, <2>1 DEF Starting
  <1>2. CASE RequestDelete(r)
    <2>1. run'[r].at = "locking" /\ run'[r].waiting = FALSE BY <1>2, <1>b DEF RequestDelete, Idle
    <2> QED BY <1>c, <2>1
  <1>3. CASE BeginStep(r)
    <2>a. run[r].at \in Starting /\ run[r].waiting = FALSE
      BY <1>3, <1>a
      DEF BeginStep, GetKey, TakeLock, LockFails, ReadConnection, ClearPause, CreateRow, BeginFails,
          At, Starting, StatusFits
    <2>b. ASSUME NEW p \in Starting \cup {"deleting", "leaving"}, Go(r, p)
          PROVE  StatusFits(run'[r], new)
      <3>1. run'[r].at = p /\ run'[r].waiting = FALSE BY <2>a, <2>b, GoneTo
      <3> QED BY <1>c, <1>d, <3>1
    <2>1. CASE GetKey(r) BY <2>1, <2>b DEF GetKey, Starting
    <2>2. CASE TakeLock(r) BY <2>2, <2>b DEF TakeLock, Starting
    <2>3. CASE LockFails(r) BY <2>3, <2>b, <1>g DEF LockFails
    <2>4. CASE ReadConnection(r)
      <3>1. CASE GiveBack(r, "unlocking") BY <3>1, <1>f
      <3>2. CASE ~GiveBack(r, "unlocking")
        <4>1. run'[r].at \in {"unpausing", "creating"} /\ run'[r].waiting = FALSE
          BY <1>a, <1>b, <2>4, <2>a, <3>2 DEF ReadConnection, RunState
        <4> QED BY <1>d, <4>1 DEF Starting
      <3> QED BY <3>1, <3>2
    <2>5. CASE ClearPause(r) BY <2>5, <2>b DEF ClearPause, Starting
    <2>6. CASE CreateRow(r)
      <3> DEFINE next == lastId[u] + 1
      <3>1. u \in Users /\ next \in RunIds
        BY <1>a, <2>6 DEF CreateRow, At, StateFits
      <3>2. /\ run'[r].at = "order" /\ run'[r].waiting = FALSE
            /\ run'[r].user = u /\ run'[r].id = next
        BY <1>a, <1>b, <2>6, <2>a DEF CreateRow, RunState
      <3>3. row' = [row EXCEPT ![u][next] =
                      [connection |-> run[r].on, trigger |-> run[r].op, status |-> "running"]]
        BY <2>6 DEF CreateRow
      <3>4. row'[u][next] = [connection |-> run[r].on, trigger |-> run[r].op, status |-> "running"]
        BY <3>1, <3>3 DEF RunInv, TypeOK
      <3>5. new = "running" BY <3>2, <3>4
      <3> QED BY <3>2, <3>5 DEF StatusFits, Starting
    <2>7. CASE BeginFails(r) BY <2>7, <1>f DEF BeginFails
    <2> QED BY <1>3, <2>1, <2>2, <2>3, <2>4, <2>5, <2>6, <2>7 DEF BeginStep
  <1>4. CASE OrderStep(r)
    <2>a. run[r].at \in InProgress
      BY <1>4
      DEF OrderStep, BankAsks, MarkWaiting, TakeAnswer, Resume, Settle, ShowSettled,
          SaveBankingInformation, At, InProgress, Ordering
    <2>b. {"running", "tan_required"} \subseteq RunStatus BY DEF RunStatus, Unfinished
    <2> USE <1>a, <1>b
    <2>1. CASE BankAsks(r)
      <3>1. CASE Fail(r, "error") BY <3>1, <1>e
      <3>2. CASE \E challenge \in [kind : Kinds, reference : References], x \in {"pending", "expired"} :
                   AfterRequest(r, challenge, x)
        <4>1. /\ run'[r].at = (IF run[r].waiting THEN "awaiting" ELSE "marking")
              /\ run'[r].waiting = TRUE /\ run'[r].user = u /\ run'[r].id = id
          BY <3>2 DEF AfterRequest, RunState
        <4>2. new = old BY <2>1, <4>1 DEF BankAsks
        <4>3. At(r, "order") /\ run[r].waiting \in BOOLEAN BY <2>1 DEF BankAsks, RunState
        <4> QED BY <4>1, <4>2, <4>3 DEF StatusFits, Starting, At
      <3> QED BY <2>1, <3>1, <3>2 DEF BankAsks
    <2>2. CASE MarkWaiting(r)
      <3>1. /\ run'[r].at = "awaiting" /\ run'[r].waiting = run[r].waiting
            /\ run'[r].user = u /\ run'[r].id = id
        BY <2>2, GoneTo DEF MarkWaiting
      <3>2. run[r].waiting = TRUE /\ old = "running" BY <2>2 DEF MarkWaiting, At, StatusFits
      <3>3. new = "tan_required" BY <2>2, <2>a, <2>b, <3>1, <3>2, <1>h DEF MarkWaiting, Unfinished
      <3> QED BY <3>1, <3>2, <3>3 DEF StatusFits, Starting
    <2>3. CASE TakeAnswer(r)
      <3>1. CASE Fail(r, "tan_expired") BY <3>1, <1>e
      <3>2. CASE run' = [run EXCEPT ![r].at = "order", ![r].answer = "none"]
        <4>1. /\ run'[r].at = "order" /\ run'[r].waiting = run[r].waiting
              /\ run'[r].user = u /\ run'[r].id = id
          BY <3>2 DEF RunState
        <4>2. new = old BY <2>3, <4>1 DEF TakeAnswer
        <4> QED BY <2>3, <4>1, <4>2 DEF StatusFits, Starting, At, TakeAnswer
      <3>3. CASE run' = [run EXCEPT ![r].at = "resuming", ![r].answer = "none", ![r].waiting = FALSE]
        <4>1. /\ run'[r].at = "resuming" /\ run'[r].waiting = FALSE
              /\ run'[r].user = u /\ run'[r].id = id
          BY <3>3 DEF RunState
        <4>2. new = old BY <2>3, <4>1 DEF TakeAnswer
        <4>3. run[r].waiting = TRUE BY <2>3 DEF TakeAnswer, At, StatusFits
        <4> QED BY <2>3, <4>1, <4>2, <4>3 DEF StatusFits, Starting, At, TakeAnswer
      <3> QED BY <2>3, <3>1, <3>2, <3>3 DEF TakeAnswer
    <2>4. CASE Resume(r)
      <3>1. /\ run'[r].at = "order" /\ run'[r].waiting = run[r].waiting
            /\ run'[r].user = u /\ run'[r].id = id
        BY <2>4, GoneTo DEF Resume
      <3>2. run[r].waiting = FALSE /\ old = "tan_required" BY <2>4 DEF Resume, At, StatusFits
      <3>3. new = "running" BY <2>4, <2>a, <2>b, <3>1, <3>2, <1>h DEF Resume, Unfinished
      <3> QED BY <3>1, <3>2, <3>3 DEF StatusFits, Starting
    <2>5. CASE Settle(r)
      <3>1. /\ run'[r].at = (IF run[r].waiting THEN "settling" ELSE "saving")
            /\ run'[r].waiting = FALSE /\ run'[r].user = u /\ run'[r].id = id
        BY <2>5 DEF Settle, RunState
      <3>2. new = old BY <2>5, <3>1 DEF Settle
      <3> QED BY <2>5, <3>1, <3>2 DEF StatusFits, Starting, At, Settle
    <2>6. CASE ShowSettled(r)
      <3>1. /\ run'[r].at = "saving" /\ run'[r].waiting = run[r].waiting
            /\ run'[r].user = u /\ run'[r].id = id
        BY <2>6, GoneTo DEF ShowSettled
      <3>2. run[r].waiting = FALSE /\ old = "tan_required" BY <2>6 DEF ShowSettled, At, StatusFits
      <3>3. new = "running" BY <2>6, <2>a, <2>b, <3>1, <3>2, <1>h DEF ShowSettled, Unfinished
      <3> QED BY <3>1, <3>2, <3>3 DEF StatusFits, Starting
    <2>7. CASE SaveBankingInformation(r)
      <3>1. CASE Fail(r, "error") BY <3>1, <1>e
      <3>2. CASE ~Fail(r, "error")
        <4>1. /\ run'[r].at \in {"finishing", "order"} /\ run'[r].waiting = run[r].waiting
              /\ run'[r].user = u /\ run'[r].id = id
          BY <2>7, <3>2 DEF SaveBankingInformation, RunState
        <4>2. new = old BY <2>7, <4>1 DEF SaveBankingInformation
        <4> QED BY <2>7, <4>1, <4>2 DEF StatusFits, Starting, At, SaveBankingInformation
      <3> QED BY <3>1, <3>2
    <2> QED BY <1>4, <2>1, <2>2, <2>3, <2>4, <2>5, <2>6, <2>7 DEF OrderStep
  <1>5. CASE EndStep(r) \/ RecordingFails(r)
    <2>b. ASSUME NEW p \in {"recording", "noting", "pausing", "closing"}, Go(r, p),
                 Faults = {} => new \notin Unfinished
          PROVE  StatusFits(run'[r], new)
      <3>1. run'[r].at = p BY <2>b, GoneTo
      <3> QED BY <2>b, <3>1 DEF StatusFits, Starting
    <2>c. ASSUME NEW p, Go(r, p), row' = row PROVE new = old
      BY <2>c, GoneTo
    <2>1. CASE FinishRun(r)
      <3>1. PICK p \in {"recording", "closing"} : Go(r, p) BY <2>1 DEF FinishRun
      <3>2. run'[r].user = u /\ run'[r].id = id BY <3>1, GoneTo
      <3>3. new = "success"
        BY <2>1, <3>2, <1>h DEF FinishRun, At, InProgress, RunStatus
      <3> QED BY <2>b, <3>1, <3>3 DEF Unfinished
    <2>2. CASE RecordSuccess(r)
      BY <1>a, <2>2, <2>b, <2>c DEF RecordSuccess, At, StatusFits
    <2>3. CASE RunFails(r) BY <2>3, <1>e DEF RunFails
    <2>4. CASE FinishFailed(r)
      <3>1. PICK p \in {"noting", "closing"} : Go(r, p) BY <2>4 DEF FinishFailed
      <3>2. run'[r].user = u /\ run'[r].id = id BY <3>1, GoneTo
      <3>3. run[r].outcome \in Failed /\ run[r].at \in InProgress
        BY <1>a, <2>4 DEF FinishFailed, At, StateFits, InProgress
      <3>4. new = run[r].outcome
        BY <2>4, <3>2, <3>3, <1>h DEF FinishFailed, RunStatus
      <3> QED BY <2>b, <3>1, <3>3, <3>4 DEF Unfinished, Failed
    <2>5. CASE RecordFailure(r)
      BY <1>a, <2>5, <2>b, <2>c DEF RecordFailure, At, StatusFits
    <2>6. CASE Pause(r) BY <1>a, <2>6, <2>b, <2>c DEF Pause, At, StatusFits
    <2>7. CASE Close(r) BY <2>7, <1>f DEF Close
    <2>8. CASE Unlock(r)
      <3>1. run'[r].at \in {"idle", "leaving"}
        BY <1>b, <2>8, GoneTo DEF Unlock, Idle
      <3> QED BY <1>c, <3>1
    <2>9. CASE Leave(r) BY <2>9, <1>g DEF Leave
    <2>10. CASE RecordingFails(r)
      <3>1. Go(r, "closing") /\ Faults # {} BY <2>10 DEF RecordingFails
      <3> QED BY <2>b, <3>1
    <2> QED BY <1>5, <2>1, <2>2, <2>3, <2>4, <2>5, <2>6, <2>7, <2>8, <2>9, <2>10 DEF EndStep
  <1>6. CASE DeleteConnection(r)
    <2>1. run'[r].at = "unlocking" BY <1>6, GoneTo DEF DeleteConnection
    <2> QED BY <1>c, <2>1
  <1> QED BY <1>1, <1>2, <1>3, <1>4, <1>5, <1>6 DEF Moves, RunStep

\* A runner's step keeps what the rows say.
LEMMA RunnerShows ==
  ASSUME RunInv, StatusInv, NEW r \in Runners, Moves(r)
  PROVE  StatusInv'
  <1>1. Moved(r) BY RunnerMoves
  <1>2. ASSUME NEW s \in Runners, s # r
        PROVE  StatusFits(run'[s], row'[run'[s].user][run'[s].id].status)
    <2>1. run'[s] = run[s] BY <1>1, <1>2, OthersKeep
    <2>2. StatusFits(run[s], row[run[s].user][run[s].id].status) BY DEF StatusInv
    <2>3. CASE run[s].at \in InProgress
      <3>1. row'[run[s].user][run[s].id] = row[run[s].user][run[s].id]
        BY <1>1, <1>2, <2>3, OthersStatus
      <3> QED BY <2>1, <2>2, <3>1
    <2>4. CASE run[s].at \notin InProgress
      BY <2>1, <2>2, <2>4 DEF StatusFits, InProgress, Ordering
    <2> QED BY <2>3, <2>4
  <1>3. ASSUME NEW s \in Runners
        PROVE  StatusFits(run'[s], row'[run'[s].user][run'[s].id].status)
    BY <1>2, OwnStatus
  <1> QED BY <1>3 DEF StatusInv

\* A run leaves its row by closing only.
LEMMA LeavingTheRow ==
  ASSUME RunInv, NEW r \in Runners, Moves(r), Running(r)
  PROVE  \/ Running(r)' /\ run'[r].user = run[r].user /\ run'[r].id = run[r].id
         \/ run[r].at = "closing" /\ row' = row
  <1>a. run[r].at \in InProgress /\ run[r].id # 0 /\ run \in [Runners -> RunState]
    BY LocalsAre DEF Running, InProgress, Ordering, StateFits, RunInv, TypeOK
  <1>b. \A p \in InProgress : Go(r, p) =>
          Running(r)' /\ run'[r].user = run[r].user /\ run'[r].id = run[r].id
    BY GoneTo DEF Running, InProgress, Ordering
  <1>c. \A x : Fail(r, x) =>
          Running(r)' /\ run'[r].user = run[r].user /\ run'[r].id = run[r].id
    BY <1>a DEF Fail, Running, RunState
  <1>1. CASE OrderStep(r)
    <2>1. CASE BankAsks(r) \/ TakeAnswer(r) \/ Settle(r) \/ SaveBankingInformation(r)
      <3>1. CASE \E x : Fail(r, x) BY <3>1, <1>c
      <3>2. CASE BankAsks(r) /\ \E challenge, x : AfterRequest(r, challenge, x)
        BY <1>a, <3>2 DEF AfterRequest, Running, RunState
      <3>3. CASE TakeAnswer(r) /\ ~Fail(r, "tan_expired")
        BY <1>a, <3>3 DEF TakeAnswer, Running, RunState
      <3>4. CASE Settle(r)
        BY <1>a, <3>4 DEF Settle, Running, RunState
      <3>5. CASE SaveBankingInformation(r) /\ ~Fail(r, "error")
        BY <1>a, <3>5 DEF SaveBankingInformation, Running, RunState
      <3>6. BankAsks(r) => Fail(r, "error") \/ \E challenge, x : AfterRequest(r, challenge, x)
        BY DEF BankAsks
      <3> QED BY <2>1, <3>1, <3>2, <3>3, <3>4, <3>5, <3>6
    <2>2. CASE MarkWaiting(r) \/ Resume(r) \/ ShowSettled(r)
      BY <1>b, <2>2 DEF MarkWaiting, Resume, ShowSettled, InProgress, Ordering
    <2> QED BY <1>1, <2>1, <2>2 DEF OrderStep
  <1>2. CASE EndStep(r) \/ RecordingFails(r)
    <2>1. CASE RunFails(r) BY <2>1, <1>c DEF RunFails
    <2>2. CASE Close(r) BY <2>2 DEF Close, At
    <2>3. CASE Unlock(r) \/ Leave(r)
      BY <1>a, <2>3 DEF Unlock, Leave, At, InProgress, Ordering
    <2>4. CASE FinishRun(r) \/ RecordSuccess(r) \/ FinishFailed(r) \/ RecordFailure(r) \/ Pause(r)
               \/ RecordingFails(r)
      BY <1>b, <2>4
      DEF FinishRun, RecordSuccess, FinishFailed, RecordFailure, Pause, RecordingFails, InProgress
    <2> QED BY <1>2, <2>1, <2>2, <2>3, <2>4 DEF EndStep
  <1>3. /\ \A op, u, c : ~Start(r, op, u, c)
        /\ ~RequestDelete(r) /\ ~BeginStep(r) /\ ~DeleteConnection(r)
    BY <1>a
    DEF Start, RequestDelete, BeginStep, GetKey, TakeLock, LockFails, ReadConnection, ClearPause,
        CreateRow, BeginFails, DeleteConnection, At, InProgress, Ordering
  <1> QED BY <1>1, <1>2, <1>3 DEF Moves, RunStep

\* Without a restart and with every failure recorded, an unfinished row has its run.
OwnersInv == Faults = {} => EndedRunsAreFinished

\* A row after a runner's step: another one's as it was, or the runner's own.
LEMMA RowAfter ==
  ASSUME RunInv, NEW r \in Runners, Moves(r), NEW u \in Users, NEW id \in RunIds,
         row'[u][id] # None
  PROVE  \/ row'[u][id] = row[u][id]
         \/ Live(r)' /\ run'[r].user = u /\ run'[r].id = id
  <1>1. Moved(r) BY RunnerMoves
  <1>a. run[r] \in RunState /\ StateFits(run[r]) /\ row \in [Users -> [RunIds -> RunRow \cup {None}]]
    BY LocalsAre DEF RunInv, TypeOK
  <1>2. CASE row' = row BY <1>2
  <1>3. CASE CreateRow(r)
    <2> DEFINE new == lastId[run[r].user] + 1
    <2>1. run[r].user \in Users /\ new \in RunIds
      BY <1>3, <1>a DEF CreateRow, At, StateFits
    <2>2. \E y : row' = [row EXCEPT ![run[r].user][new] = y] BY <1>3 DEF CreateRow
    <2>3. new # 0 BY <2>1, IdsAreNumbers
    <2>4. run'[r].at = "order" /\ run'[r].user = run[r].user /\ run'[r].id = new
      BY <1>3, <1>a DEF CreateRow, RunInv, TypeOK, RunState
    <2> HIDE DEF new
    <2>5. Live(r)' BY <2>3, <2>4 DEF Live, Running
    <2> QED BY <1>a, <2>1, <2>2, <2>4, <2>5
  <1>4. ASSUME StaysLive(r), Live(r), NEW x \in RunStatus, SetStatus(r, x)
        PROVE  \/ row'[u][id] = row[u][id]
               \/ Live(r)' /\ run'[r].user = u /\ run'[r].id = id
    <2>1. run[r].user \in Users /\ run[r].id \in RunIds
      BY <1>a, <1>4 DEF Live, Running, At, StateFits, RunState
    <2>2. row' = row \/ \E y : row' = [row EXCEPT ![run[r].user][run[r].id] = y]
      BY <1>4 DEF SetStatus
    <2>3. Live(r)' /\ run'[r].user = run[r].user /\ run'[r].id = run[r].id
      BY <1>4 DEF StaysLive
    <2>4. <<u, id>> = <<run[r].user, run[r].id>> \/ row'[u][id] = row[u][id]
      BY <1>a, <2>1, <2>2
    <2> QED BY <2>3, <2>4
  <1>5. CASE DeleteConnection(r)
    <2>1. run[r].user \in Users BY <1>5, <1>a DEF DeleteConnection, At, StateFits
    <2>2. CASE row' = [row EXCEPT ![run[r].user] = [i \in RunIds |->
                         IF @[i] # None /\ @[i].connection = run[r].on THEN None ELSE @[i]]]
      BY <1>a, <2>1, <2>2
    <2> QED BY <1>5, <2>2 DEF DeleteConnection
  <1> QED BY <1>1, <1>2, <1>3, <1>4, <1>5 DEF Moved, LogEffect

\* Who writes rows outside a run in progress.
LEMMA RowWriters ==
  ASSUME RunInv, NEW r \in Runners, Moves(r), ~Running(r), row' # row
  PROVE  CreateRow(r) \/ DeleteConnection(r)
  BY DEF Moves, Start, RequestDelete, RunStep, RecordingFails, BeginStep, GetKey, TakeLock, LockFails,
         ReadConnection, ClearPause, BeginFails, OrderStep, BankAsks, MarkWaiting, TakeAnswer, Resume,
         Settle, ShowSettled, SaveBankingInformation, EndStep, FinishRun, RecordSuccess, RunFails,
         FinishFailed, RecordFailure, Pause, Close, Unlock, Leave, At, Running

LEMMA RunnerOwns ==
  ASSUME RunInv, StatusInv, OwnersInv, NEW r \in Runners, Moves(r), StatusInv'
  PROVE  OwnersInv'
  <1> SUFFICES ASSUME Faults = {}, NEW u \in Users, NEW id \in RunIds,
                      row'[u][id] # None, row'[u][id].status \in Unfinished
               PROVE  \E s \in Runners : Running(s)' /\ run'[s].user = u /\ run'[s].id = id
    BY DEF OwnersInv, EndedRunsAreFinished
  <1>1. Moved(r) BY RunnerMoves
  <1>2. CASE row'[u][id] = row[u][id]
    <2>1. PICK s \in Runners : Running(s) /\ run[s].user = u /\ run[s].id = id
      BY <1>2 DEF OwnersInv, EndedRunsAreFinished
    <2>2. CASE s # r
      <3>1. run'[s] = run[s] BY <1>1, <2>2, OthersKeep
      <3> QED BY <2>1, <3>1 DEF Running
    <2>3. CASE s = r
      <3>1. run[r].at # "closing" BY <1>2, <2>1, <2>3 DEF StatusInv, StatusFits
      <3> QED BY <2>1, <2>3, <3>1, LeavingTheRow
    <2> QED BY <2>2, <2>3
  <1>3. CASE Live(r)' /\ run'[r].user = u /\ run'[r].id = id /\ row'[u][id] # row[u][id]
    <2>1. Running(r)'
      <3>1. CASE Running(r)
        <4>1. row' # row BY <1>3
        <4> QED BY <3>1, <4>1, LeavingTheRow
      <3>2. CASE ~Running(r)
        <4>1. CreateRow(r) \/ DeleteConnection(r)
          BY <1>3, <3>2, RowWriters
        <4>2. CASE CreateRow(r)
          BY <4>2 DEF CreateRow, RunInv, TypeOK, RunState, Running
        <4>3. CASE DeleteConnection(r)
          <5>1. run'[r].id = run[r].id BY <4>3, GoneTo DEF DeleteConnection
          <5>2. run[r].id = 0
            BY <4>3, LocalsAre DEF DeleteConnection, At, StateFits
          <5> QED BY <1>3, <5>1, <5>2, IdsAreNumbers
        <4> QED BY <4>1, <4>2, <4>3
      <3> QED BY <3>1, <3>2
    <2> QED BY <1>3, <2>1
  <1> QED BY <1>2, <1>3, RowAfter

\* A step that leaves the rows alone, and of the runs what the rows are about.
LEMMA SameShows ==
  ASSUME StatusInv, OwnersInv, UNCHANGED row,
         \A s \in Runners, f \in {"at", "user", "id", "waiting"} : run'[s][f] = run[s][f]
  PROVE  StatusInv' /\ OwnersInv'
  <1>1. StatusInv' BY DEF StatusInv, StatusFits
  <1>2. \A s \in Runners : Running(s)' <=> Running(s) BY DEF Running
  <1>3. OwnersInv' BY <1>2 DEF OwnersInv, EndedRunsAreFinished
  <1> QED BY <1>1, <1>3

LEMMA NextShows ==
  ASSUME RunInv, StatusInv, OwnersInv, [Next]_vars
  PROVE  StatusInv' /\ OwnersInv'
  <1>1. ASSUME NEW r \in Runners, Moves(r) PROVE StatusInv' /\ OwnersInv'
    BY <1>1, RunnerShows, RunnerOwns
  <1>2. ASSUME NEW r \in Runners,
               RequestRun(r) \/ RequestDelete(r) \/ RunStep(r) \/ RecordingFails(r)
        PROVE  StatusInv' /\ OwnersInv'
    <2>1. Moves(r) BY <1>2 DEF Moves, RequestRun, Triggers
    <2> QED BY <1>1, <2>1
  <1>3. ASSUME NEW id \in RunIds, AnswerTan(id) \/ Timer(id) PROVE StatusInv' /\ OwnersInv'
    <2>1. PICK a : Resolve(id, a) /\ UNCHANGED row
      BY <1>3 DEF AnswerTan, Timer, PollDue, TanExpires
    <2>2. \A s \in Runners, f \in {"at", "user", "id", "waiting"} : run'[s][f] = run[s][f]
      BY <2>1, LocalsAre DEF Resolve, RunInv, TypeOK, RunState
    <2> QED BY <2>1, <2>2, SameShows
  <1>4. CASE UNCHANGED <<run, row>> BY <1>4, SameShows
  <1>5. CASE StartDue
    <2>1. Scheduler \in Runners BY SyncAssumption DEF SyncConstants
    <2> QED BY <1>1, <1>5, <2>1, StartDueKeeps
  <1>6. CASE Restart
    <2>1. \A s \in Runners : run'[s].at = "idle" BY <1>6 DEF Restart, Idle
    <2>2. StatusInv' BY <2>1 DEF StatusInv, StatusFits, Starting
    <2>3. OwnersInv' BY <1>6 DEF OwnersInv, Restart
    <2> QED BY <2>2, <2>3
  <1> QED
    BY <1>2, <1>3, <1>4, <1>5, <1>6
    DEF Next, Reconfigure, UpdateConnection, TimePasses, Tick, TickStep, SkipUser, ListDue, SkipBusy,
        UserDone, TickDone, Stop, vars, syncVars

LEMMA RowsShow == Spec => [](StatusInv /\ OwnersInv)
  <1>1. Init => StatusInv /\ OwnersInv
    <2> SUFFICES ASSUME Init PROVE StatusInv /\ OwnersInv OBVIOUS
    <2>1. \A s \in Runners : run[s].at = "idle" BY DEF Init, Idle
    <2>2. StatusInv BY <2>1 DEF StatusInv, StatusFits, Starting
    <2>3. OwnersInv BY DEF Init, OwnersInv, EndedRunsAreFinished
    <2> QED BY <2>2, <2>3
  <1>2. RunInv /\ StatusInv /\ OwnersInv /\ [Next]_vars => (StatusInv /\ OwnersInv)'
    BY NextShows
  <1> QED BY <1>1, <1>2, RunsKept, PTL DEF Spec

\* The status a user sees, under every fault: while a run is in progress its row says
\* tan_required exactly while the run waits for a TAN (TanPrompt, setRunTanRequired).
THEOREM WaitShown == Spec => []RowShowsTheWait
  <1>1. StatusInv => RowShowsTheWait BY DEF StatusInv, StatusFits, RowShowsTheWait
  <1> QED BY <1>1, RowsShow, PTL

\* A run that ended has recorded how, if the process goes on and its last writes do not fail:
\* no row stays running or waiting for a TAN without a run (finishSyncRun, recordFailures).
THEOREM RunsRecordTheirEnd ==
  ASSUME Faults = {}
  PROVE  Spec => []EndedRunsAreFinished
  <1>1. OwnersInv => EndedRunsAreFinished BY DEF OwnersInv
  <1> QED BY <1>1, RowsShow, PTL

-----------------------------------------------------------------------------
(* The run table implements RunLog. *)

\* The log of a row.
LEMMA LogIs ==
  ASSUME RunInv, NEW u \in Users, NEW id \in RunIds
  PROVE  /\ runLog[u][id] = None <=> row[u][id] = None
         /\ row[u][id] # None =>
              /\ runLog[u][id] = [connection |-> row[u][id].connection,
                                  status |-> row[u][id].status]
              /\ runLog[u][id].connection = row[u][id].connection
              /\ runLog[u][id].status = row[u][id].status
  <1>1. row[u][id] # None => row[u][id] \in RunRow BY DEF RunInv, TypeOK
  <1>2. \A x \in RunRow : [connection |-> x.connection, status |-> x.status] # None
    BY SyncAssumption DEF SyncConstants, RunRow, LogRow
  <1> QED BY <1>1, <1>2 DEF runLog

\* An update of one entry of a table.
LEMMA TableUpdate ==
  ASSUME NEW A, NEW B, NEW f, NEW g, NEW a \in A, NEW b \in B, NEW x,
         f = [v \in A |-> [i \in B |-> f[v][i]]],
         g = [v \in A |-> [i \in B |-> g[v][i]]],
         g[a][b] = x,
         \A v \in A, i \in B : <<v, i>> # <<a, b>> => g[v][i] = f[v][i]
  PROVE  g = [f EXCEPT ![a][b] = x]
  <1> DEFINE h == [f EXCEPT ![a][b] = x]
  <1>1. h = [v \in A |-> IF v = a THEN [f[a] EXCEPT ![b] = x] ELSE f[v]] OBVIOUS
  <1>2. \A v \in A : f[v] = [i \in B |-> f[v][i]] OBVIOUS
  <1>3. \A v \in A : g[v] = [i \in B |-> g[v][i]] OBVIOUS
  <1>4. [f[a] EXCEPT ![b] = x] = [i \in B |-> IF i = b THEN x ELSE f[a][i]] BY <1>2
  <1>5. g[a] = [f[a] EXCEPT ![b] = x] BY <1>3, <1>4
  <1>6. \A v \in A : v # a => g[v] = f[v] BY <1>2, <1>3
  <1>7. g = [v \in A |-> IF v = a THEN [f[a] EXCEPT ![b] = x] ELSE f[v]]
    <2>1. g = [v \in A |-> g[v]] OBVIOUS
    <2> QED BY <2>1, <1>5, <1>6
  <1> QED BY <1>1, <1>7

LEMMA LogTable ==
  /\ runLog = [u \in Users |-> [id \in RunIds |-> runLog[u][id]]]
  /\ runLog' = [u \in Users |-> [id \in RunIds |-> runLog'[u][id]]]
  BY DEF runLog

LEMMA LogUpdate ==
  ASSUME NEW u \in Users, NEW id \in RunIds, NEW x, runLog'[u][id] = x,
         \A v \in Users, i \in RunIds : <<v, i>> # <<u, id>> => runLog'[v][i] = runLog[v][i]
  PROVE  runLog' = [runLog EXCEPT ![u][id] = x]
  BY LogTable, TableUpdate

LEMMA LiveTable ==
  liveRuns = [u \in Users |-> liveRuns[u]] /\ liveRuns' = [u \in Users |-> liveRuns'[u]]
  BY DEF liveRuns

\* Whose ids are live.
LEMMA LiveIds ==
  ASSUME NEW u \in Users, NEW id
  PROVE  /\ id \in liveRuns[u] <=> \E s \in Runners : Live(s) /\ run[s].user = u /\ run[s].id = id
         /\ id \in liveRuns'[u] <=>
              \E s \in Runners : Live(s)' /\ run'[s].user = u /\ run'[s].id = id
  BY DEF liveRuns

LEMMA LiveIdTyping ==
  ASSUME RunInv, RunInv', NEW u \in Users
  PROVE  liveRuns[u] \subseteq RunIds \cup {0} /\ liveRuns'[u] \subseteq RunIds \cup {0}
  <1>1. \A s \in Runners : run[s].id \in RunIds \cup {0} /\ run'[s].id \in RunIds \cup {0}
    BY DEF RunInv, TypeOK, RunState
  <1> QED BY <1>1, LiveIds

\* Behind every live id there is a run with its row and its lock.
LEMMA LiveRunsFit ==
  ASSUME RunInv, NEW u \in Users, NEW id \in liveRuns[u]
  PROVE  \E s \in Runners :
           /\ Live(s) /\ run[s].user = u /\ run[s].id = id /\ id \in RunIds
           /\ run[s].on \in Connections
           /\ lock[u][run[s].on] = s
           /\ row[u][id] # None /\ row[u][id].connection = run[s].on
  <1>1. PICK s \in Runners : Live(s) /\ run[s].user = u /\ run[s].id = id BY DEF liveRuns
  <1>2. run[s] \in RunState /\ StateFits(run[s]) /\ RowsFit(s) BY LocalsAre
  <1>3. run[s].at \in Holding /\ run[s].id # 0
    BY <1>1 DEF Live, Running, At, Holding, InProgress, Ordering
  <1>4. run[s].on \in Connections BY <1>2, <1>3 DEF StateFits, Holding, InProgress, Ordering
  <1> QED BY <1>1, <1>2, <1>3, <1>4 DEF RowsFit, RunState

\* A runner that holds a connection's lock and is not live has it for itself.
LEMMA NobodyElse ==
  ASSUME RunInv, NEW r \in Runners, NEW u \in Users, NEW c \in Connections,
         lock[u][c] = r, ~Live(r)
  PROVE  Log!NobodyOn(u, c)
  <1> SUFFICES ASSUME NEW id \in liveRuns[u], runLog[u][id].connection = c PROVE FALSE
    BY DEF Log!NobodyOn
  <1>1. PICK s \in Runners :
          /\ Live(s) /\ id \in RunIds
          /\ lock[u][run[s].on] = s
          /\ row[u][id] # None /\ row[u][id].connection = run[s].on
    BY LiveRunsFit
  <1>2. runLog[u][id].connection = run[s].on BY <1>1, LogIs
  <1> QED BY <1>1, <1>2

\* If the same runs are live, the log's live ids are the same.
LEMMA SameLive ==
  ASSUME \A s \in Runners : /\ Live(s)' <=> Live(s)
                            /\ Live(s) => run'[s].user = run[s].user /\ run'[s].id = run[s].id
  PROVE  liveRuns' = liveRuns
  BY DEF liveRuns

\* The step of a runner in the log.
LEMMA RunnerLogs ==
  ASSUME RunInv, RunInv', NEW r \in Runners, Moves(r)
  PROVE  Log!LogNext \/ UNCHANGED Log!logVars
  <1> DEFINE u == run[r].user
             c == run[r].on
             id == run[r].id
  <1>1. Moved(r) BY RunnerMoves
  <1>2. run[r] \in RunState /\ StateFits(run[r]) /\ RowsFit(r) BY LocalsAre
  <1>3. ASSUME NEW s \in Runners, s # r
        PROVE  run'[s] = run[s] /\ (Live(s)' <=> Live(s))
    BY <1>1, <1>3, OthersKeep DEF Live, Running, At
  <1>4. StaysLive(r) => liveRuns' = liveRuns BY <1>3, SameLive DEF StaysLive
  <1>5. row' = row => runLog' = runLog BY DEF runLog
  <1>6. CASE StaysLive(r) /\ row' = row BY <1>4, <1>5, <1>6 DEF Log!logVars
  <1>7. CASE CreateRow(r)
    <2> DEFINE new == lastId[u] + 1
               x == [connection |-> c, status |-> "running"]
    <2>a. At(r, "creating") /\ new \in RunIds BY <1>7 DEF CreateRow
    <2>b. u \in Users /\ c \in Connections /\ lock[u][c] = r
      BY <1>2, <2>a DEF At, StateFits, RowsFit, Holding
    <2>c. lastId[u] \in Nat
      <3>1. lastId[u] \in RunIds \cup {0} BY <2>b DEF RunInv, TypeOK
      <3>2. RunIds \cup {0} \subseteq Nat BY IdsAreNumbers
      <3> QED BY <3>1, <3>2
    <2>1. /\ At(r, "creating") /\ u \in Users /\ c \in Connections /\ lock[u][c] = r
          /\ new \in RunIds /\ lastId[u] < new /\ new # 0
      BY <2>a, <2>b, <2>c
    <2>2. ~Live(r) BY <2>1 DEF Live, Running, At
    <2>3. row[u][new] = None BY <2>1 DEF RunInv, NewIds
    <2>4. runLog[u][new] = None /\ Log!NobodyOn(u, c) BY <2>1, <2>2, <2>3, LogIs, NobodyElse
    <2>5. row' = [row EXCEPT ![u][new] =
                    [connection |-> c, trigger |-> run[r].op, status |-> "running"]]
      BY <1>7 DEF CreateRow
    <2>6. run'[r].at = "order" /\ run'[r].user = u /\ run'[r].id = new
      BY <1>2, <1>7 DEF CreateRow, RunInv, TypeOK, RunState
    <2>7. Live(r)' BY <2>1, <2>6 DEF Live, Running
    <2>8. row'[u][new] = [connection |-> c, trigger |-> run[r].op, status |-> "running"]
      BY <2>1, <2>5 DEF RunInv, TypeOK
    <2>9. runLog'[u][new] = x
      <3>1. row'[u][new] # None
        BY <1>1, <2>6, <2>7 DEF Moved, RowsFit
      <3>2. runLog'[u][new] = [connection |-> row'[u][new].connection,
                               status |-> row'[u][new].status]
        BY <2>1, <3>1 DEF runLog
      <3> QED BY <2>8, <3>2
    <2>10. \A v \in Users, i \in RunIds : <<v, i>> # <<u, new>> => row'[v][i] = row[v][i]
      BY <2>1, <2>5 DEF RunInv, TypeOK
    <2>11. \A v \in Users, i \in RunIds : <<v, i>> # <<u, new>> => runLog'[v][i] = runLog[v][i]
      BY <2>10 DEF runLog
    <2> HIDE DEF new, x
    <2>12. runLog' = [runLog EXCEPT ![u][new] = x]
      <3> HIDE DEF u
      <3> QED BY <2>1, <2>9, <2>11, LogUpdate
    <2>13. liveRuns' = [liveRuns EXCEPT ![u] = @ \cup {new}]
      <3>1. \A v \in Users \ {u}, i \in RunIds \cup {0} : i \in liveRuns'[v] <=> i \in liveRuns[v]
        BY <1>3, <2>1, <2>2, <2>6, LiveIds
      <3>2. \A v \in Users \ {u} : liveRuns'[v] = liveRuns[v] BY <3>1, LiveIdTyping
      <3>3. \A i \in RunIds \cup {0} : i \in liveRuns'[u] <=> i \in liveRuns[u] \/ i = new
        BY <1>3, <2>1, <2>2, <2>6, <2>7, LiveIds
      <3>4. liveRuns'[u] = liveRuns[u] \cup {new} BY <2>1, <3>3, LiveIdTyping
      <3> QED BY <2>1, <3>2, <3>4, LiveTable
    <2>14. Log!Begin(u, new, c) BY <2>4, <2>12, <2>13 DEF Log!Begin, x
    <2> QED BY <2>1, <2>14 DEF Log!LogNext
  <1>8. CASE /\ StaysLive(r) /\ Live(r)
             /\ \E s \in RunStatus :
                  /\ SetStatus(r, s)
                  /\ row[u][id] # None => row[u][id].status \in Unfinished \/ s \notin Unfinished
    <2>1. PICK s \in RunStatus :
            /\ SetStatus(r, s)
            /\ row[u][id] # None => row[u][id].status \in Unfinished \/ s \notin Unfinished
      BY <1>8
    <2>2. /\ u \in Users /\ id \in RunIds /\ row[u][id] # None
          /\ row[u][id] \in RunRow
      BY <1>2, <1>8
      DEF StateFits, RowsFit, Live, Running, At, RunState, RunInv, TypeOK
    <2> DEFINE x == [row[u][id] EXCEPT !.status = s]
    <2>3. row' = [row EXCEPT ![u][id] = x] BY <2>1, <2>2 DEF SetStatus
    <2>4. x \in RunRow /\ x # None /\ x.connection = row[u][id].connection /\ x.status = s
      BY <2>2, SyncAssumption DEF RunRow, SyncConstants
    <2> HIDE DEF x
    <2>5. row'[u][id] = x BY <2>2, <2>3 DEF RunInv, TypeOK
    <2>6. runLog'[u][id] = [connection |-> row[u][id].connection, status |-> s]
      BY <2>2, <2>4, <2>5 DEF runLog
    <2>7. runLog[u][id] = [connection |-> row[u][id].connection, status |-> row[u][id].status]
      BY <2>2, LogIs
    <2>8. \A v \in Users, i \in RunIds : <<v, i>> # <<u, id>> => row'[v][i] = row[v][i]
      BY <2>2, <2>3 DEF RunInv, TypeOK
    <2>9. \A v \in Users, i \in RunIds : <<v, i>> # <<u, id>> => runLog'[v][i] = runLog[v][i]
      BY <2>8 DEF runLog
    <2>10. [runLog[u][id] EXCEPT !.status = s] = runLog'[u][id] BY <2>6, <2>7
    <2>11. runLog' = [runLog EXCEPT ![u][id].status = s]
      <3>1. runLog' = [runLog EXCEPT ![u][id] = runLog'[u][id]]
        <4> DEFINE y == runLog'[u][id]
        <4>1. runLog'[u][id] = y OBVIOUS
        <4> HIDE DEF y, u, id
        <4>2. runLog' = [runLog EXCEPT ![u][id] = y]
          BY <2>2, <2>9, <4>1, LogUpdate
        <4> QED BY <4>2 DEF y, u, id
      <3>2. [runLog EXCEPT ![u][id].status = s]
              = [runLog EXCEPT ![u][id] = [runLog[u][id] EXCEPT !.status = s]]
        BY <2>2, LogTable
      <3> QED BY <2>10, <3>1, <3>2
    <2>12. id \in liveRuns[u] BY <1>8, <2>2 DEF liveRuns
    <2>13. s \in Log!Unfinished \cup Log!Finished
      BY DEF RunStatus, Unfinished, Failed, Log!Unfinished, Log!Finished
    <2>14. runLog[u][id].status \in Log!Finished => s \in Log!Finished
      BY <2>1, <2>2, <2>7, <2>13 DEF Unfinished, Log!Unfinished, Log!Finished
    <2>15. Log!Report(u, id, s) BY <1>4, <1>8, <2>11, <2>12, <2>14 DEF Log!Report
    <2> QED BY <2>2, <2>13, <2>15 DEF Log!LogNext
  <1>9. CASE Live(r) /\ ~Live(r)' /\ row' = row
    <2>1. /\ u \in Users /\ id \in RunIds /\ lock[u][c] = r
          /\ row[u][id] # None /\ row[u][id].connection = c
      BY <1>2, <1>9
      DEF StateFits, RowsFit, Live, Running, At, RunState, Holding, InProgress, Ordering
    <2>2. id \in liveRuns[u] BY <1>9, <2>1 DEF liveRuns
    <2>3. ASSUME NEW s \in Runners, Live(s), run[s].user = u, run[s].id = id PROVE s = r
      <3>1. RowsFit(s) /\ run[s].at \in Holding
        BY <2>3, LocalsAre DEF Live, Running, At, Holding, InProgress, Ordering
      <3> QED BY <2>1, <2>3, <3>1 DEF RowsFit
    <2>4. liveRuns' = [liveRuns EXCEPT ![u] = @ \ {id}]
      <3>1. \A v \in Users \ {u}, i \in RunIds \cup {0} : i \in liveRuns'[v] <=> i \in liveRuns[v]
        BY <1>3, <1>9, <2>1, LiveIds
      <3>2. \A v \in Users \ {u} : liveRuns'[v] = liveRuns[v] BY <3>1, LiveIdTyping
      <3>3. \A i \in RunIds \cup {0} : i \in liveRuns'[u] <=> i \in liveRuns[u] /\ i # id
        BY <1>3, <1>9, <2>1, <2>3, LiveIds
      <3>4. liveRuns'[u] = liveRuns[u] \ {id} BY <2>1, <3>3, LiveIdTyping
      <3> QED BY <2>1, <3>2, <3>4, LiveTable
    <2>5. Log!Leave(u, id) BY <1>5, <1>9, <2>2, <2>4 DEF Log!Leave
    <2> QED BY <2>1, <2>5 DEF Log!LogNext
  <1>10. CASE StaysLive(r) /\ DeleteConnection(r)
    <2>1. /\ u \in Users /\ c \in Connections /\ lock[u][c] = r /\ ~Live(r)
      BY <1>2, <1>10
      DEF DeleteConnection, At, StateFits, RowsFit, Holding, Live, Running
    <2>2. Log!NobodyOn(u, c) BY <2>1, NobodyElse
    <2>3. CASE row' = row BY <1>4, <1>5, <1>10, <2>3 DEF Log!logVars
    <2>4. CASE row' = [row EXCEPT ![u] = [i \in RunIds |->
                         IF @[i] # None /\ @[i].connection = c THEN None ELSE @[i]]]
      <3> DEFINE left == [i \in RunIds |->
                   IF runLog[u][i] # None /\ runLog[u][i].connection = c THEN None
                   ELSE runLog[u][i]]
      <3>1. \A v \in Users \ {u} : row'[v] = row[v] BY <2>1, <2>4 DEF RunInv, TypeOK
      <3>2. \A i \in RunIds :
              row'[u][i] = IF row[u][i] # None /\ row[u][i].connection = c THEN None
                           ELSE row[u][i]
        BY <2>1, <2>4 DEF RunInv, TypeOK
      <3>3. \A v \in Users \ {u} : runLog'[v] = runLog[v] BY <3>1 DEF runLog
      <3>4. ASSUME NEW i \in RunIds PROVE runLog'[u][i] = left[i]
        <4>1. CASE row[u][i] = None
          BY <2>1, <3>2, <4>1, LogIs DEF runLog
        <4>2. CASE row[u][i] # None /\ row[u][i].connection = c
          BY <2>1, <3>2, <4>2, LogIs DEF runLog
        <4>3. CASE row[u][i] # None /\ row[u][i].connection # c
          BY <2>1, <3>2, <4>3, LogIs DEF runLog
        <4> QED BY <4>1, <4>2, <4>3
      <3>5. runLog'[u] = left
        <4>1. runLog'[u] = [i \in RunIds |-> runLog'[u][i]] BY <2>1 DEF runLog
        <4> QED BY <3>4, <4>1
      <3> HIDE DEF left
      <3>6. runLog' = [runLog EXCEPT ![u] = left]
        <4>1. runLog = [v \in Users |-> runLog[v]] /\ runLog' = [v \in Users |-> runLog'[v]]
          BY DEF runLog
        <4> QED BY <2>1, <3>3, <3>5, <4>1
      <3>7. Log!RemoveConnection(u, c)
        BY <1>4, <1>10, <2>1, <2>2, <3>6 DEF Log!RemoveConnection, left
      <3> QED BY <2>1, <3>7 DEF Log!LogNext
    <2> QED BY <1>10, <2>3, <2>4 DEF DeleteConnection
  <1> QED BY <1>1, <1>6, <1>7, <1>8, <1>9, <1>10 DEF Moved, LogEffect

\* RunLog's promise is kept by the sync service, its deletes and restarts: at most one live run
\* per bank connection, only a live run's row changes, a finished row stays finished, and a row
\* goes only with its connection (sync-service.ts, sync-run.ts).
THEOREM LogCorrect == Spec => LogSpec
  <1>1. Init => Log!LogInit
    <2> SUFFICES ASSUME Init PROVE Log!LogInit OBVIOUS
    <2>1. \A r \in Runners : ~Live(r) BY DEF Init, Idle, Live
    <2>2. liveRuns = [u \in Users |-> {}] BY <2>1 DEF liveRuns
    <2>3. runLog = [u \in Users |-> [id \in RunIds |-> None]] BY DEF Init, runLog
    <2> QED BY <2>2, <2>3 DEF Log!LogInit
  <1>2. RunInv /\ RunInv' /\ [Next]_vars => [Log!LogNext]_(Log!logVars)
    <2> SUFFICES ASSUME RunInv, RunInv', [Next]_vars
                 PROVE  Log!LogNext \/ UNCHANGED Log!logVars
      OBVIOUS
    <2>1. ASSUME NEW r \in Runners,
                 RequestRun(r) \/ RequestDelete(r) \/ RunStep(r) \/ RecordingFails(r)
          PROVE  Log!LogNext \/ UNCHANGED Log!logVars
      <3>1. Moves(r) BY <2>1 DEF Moves, RequestRun, Triggers
      <3> QED BY <3>1, RunnerLogs
    <2>2. CASE StartDue
      BY <2>2, StartDueKeeps, RunnerLogs, SyncAssumption DEF SyncConstants
    <2>3. ASSUME UNCHANGED <<row, run>> PROVE UNCHANGED Log!logVars
      <3>1. \A s \in Runners : Live(s)' <=> Live(s) BY <2>3 DEF Live, Running, At
      <3> QED BY <2>3, <3>1, SameLive DEF runLog, Log!logVars
    <2>4. ASSUME NEW id \in RunIds, AnswerTan(id) \/ Timer(id)
          PROVE  UNCHANGED Log!logVars
      <3>1. TansTypeOK' /\ HasWaiter(id)
        BY <2>4 DEF AnswerTan, Timer, PollDue, TanExpires, RunInv, TypeOK, Wake, Expire
      <3>2. \E a \in {"tan", "poll", "expired"} : Resolve(id, a)
        BY <2>4 DEF AnswerTan, Timer, PollDue, TanExpires
      <3>3. UNCHANGED <<activityVars, connection, row, lastId, lock, scheduler>>
        BY <2>4 DEF AnswerTan, Timer, PollDue, TanExpires
      <3>4. liveRuns' = liveRuns BY <3>1, <3>2, <3>3, AnswerKeeps, SameLive
      <3> QED BY <3>3, <3>4 DEF runLog, Log!logVars
    <2>5. CASE Restart
      <3>1. liveRuns' = [u \in Users |-> {}] BY <2>5, RestartKeeps DEF liveRuns
      <3>2. runLog' = runLog BY <2>5 DEF Restart, runLog
      <3> QED BY <3>1, <3>2 DEF Log!LogNext, Log!Crash
    <2>6. CASE UNCHANGED vars BY <2>3, <2>6 DEF vars, syncVars
    <2>7. ASSUME NEW u \in Users, Reconfigure(u) PROVE UNCHANGED Log!logVars
      BY <2>3, <2>7 DEF Reconfigure, syncVars
    <2>8. ASSUME NEW u \in Users, NEW c \in Connections, UpdateConnection(u, c)
          PROVE  UNCHANGED Log!logVars
      BY <2>3, <2>8 DEF UpdateConnection
    <2>9. ASSUME NEW id \in RunIds, TimePasses(id) PROVE UNCHANGED Log!logVars
      BY <2>3, <2>9 DEF TimePasses, syncVars
    <2>10. CASE Tick \/ SkipUser \/ ListDue \/ SkipBusy \/ UserDone \/ TickDone \/ Stop
      BY <2>3, <2>10 DEF Tick, SkipUser, ListDue, SkipBusy, UserDone, TickDone, Stop
    <2> QED BY <2>1, <2>2, <2>4, <2>5, <2>6, <2>7, <2>8, <2>9, <2>10 DEF Next, TickStep
  <1> QED BY <1>1, <1>2, RunsKept, PTL DEF Spec, LogSpec, Log!LogSpec

-----------------------------------------------------------------------------
(* Every step, sorted by what it can disturb. *)

\* The registry resolves the promise of the waiter of id.
Answers(id) ==
  /\ HasWaiter(id)
  /\ Wake(id) \/ Expire(id)
  /\ \E a \in {"tan", "poll", "expired"} : Resolve(id, a)
  /\ UNCHANGED <<activityVars, connection, row, lastId, lock, scheduler>>

\* The scheduler's own bookkeeping.
Ticks ==
  /\ Tick \/ SkipUser \/ ListDue \/ SkipBusy \/ UserDone \/ TickDone \/ Stop
  /\ UNCHANGED <<entries, connection, row, lastId, lock, run>>

\* Registries only.
Apart ==
  /\ UNCHANGED syncVars
  /\ entries' = entries \/ \E id \in RunIds : DeadlinePasses(id)

\* Requests: everything a runner does but a scheduled start.
Acts(r) == Moves(r) /\ (RequestRun(r) \/ RequestDelete(r) \/ RunStep(r) \/ RecordingFails(r))

LEMMA NextSorted ==
  ASSUME RunInv, [Next]_vars
  PROVE  \/ \E r \in Runners : Acts(r) /\ scheduler' = scheduler
         \/ StartDue
         \/ \E id \in RunIds : Answers(id)
         \/ \E u \in Users, c \in Connections : UpdateConnection(u, c)
         \/ Ticks
         \/ Apart
         \/ Restart
  <1>1. ASSUME NEW r \in Runners,
               RequestRun(r) \/ RequestDelete(r) \/ RunStep(r) \/ RecordingFails(r)
        PROVE  Acts(r) /\ scheduler' = scheduler
    <2>1. scheduler' = scheduler
      BY <1>1
      DEF RequestRun, RequestDelete, RunStep, RecordingFails, BeginStep, GetKey, TakeLock,
          LockFails, ReadConnection, ClearPause, CreateRow, BeginFails, OrderStep, BankAsks,
          MarkWaiting, TakeAnswer, Resume, Settle, ShowSettled, SaveBankingInformation, EndStep,
          FinishRun, RecordSuccess, RunFails, FinishFailed, RecordFailure, Pause, Close, Unlock,
          Leave, DeleteConnection
    <2>2. Moves(r) BY <1>1 DEF Moves, RequestRun, Triggers
    <2> QED BY <1>1, <2>1, <2>2 DEF Acts
  <1>2. ASSUME NEW id \in RunIds, AnswerTan(id) \/ Timer(id) PROVE Answers(id)
    <2>1. HasWaiter(id) /\ (Wake(id) \/ Expire(id))
      BY <1>2 DEF AnswerTan, Timer, PollDue, TanExpires, Wake, Expire
    <2>2. \E a \in {"tan", "poll", "expired"} : Resolve(id, a)
      BY <1>2 DEF AnswerTan, Timer, PollDue, TanExpires
    <2>3. UNCHANGED <<activityVars, connection, row, lastId, lock, scheduler>>
      BY <1>2 DEF AnswerTan, Timer, PollDue, TanExpires
    <2> QED BY <2>1, <2>2, <2>3 DEF Answers
  <1>3. ASSUME Tick \/ SkipUser \/ ListDue \/ SkipBusy \/ UserDone \/ TickDone \/ Stop PROVE Ticks
    BY <1>3 DEF Ticks, Tick, SkipUser, ListDue, SkipBusy, UserDone, TickDone, Stop
  <1>4. ASSUME NEW id \in RunIds, TimePasses(id) PROVE Apart
    BY <1>4 DEF TimePasses, Apart, syncVars
  <1>5. ASSUME NEW u \in Users, Reconfigure(u) PROVE Apart
    BY <1>5 DEF Reconfigure, Apart
  <1>6. CASE UNCHANGED vars BY <1>6 DEF vars, Apart
  <1> QED BY <1>1, <1>2, <1>3, <1>4, <1>5, <1>6 DEF Next, TickStep

-----------------------------------------------------------------------------
(* Who waits for a TAN, in the registry and at the run. *)

\* Where a run's request may be pending: until its answer is taken, or it closes.
PendingPlaces == {"marking", "awaiting", "failing", "noting", "pausing", "closing"}

\* The run that waits for id's answer.
HasRun(id) ==
  LET w == entries[id].waiter IN Running(w) /\ run[w].id = id /\ run[w].answer = "pending"

ChallengeInv ==
  /\ ChallengeReachesRun
  /\ \A r \in Runners : run[r].answer = "pending" => run[r].at \in PendingPlaces

\* What a runner's step does to its request and to its entry.
KeepsNoRequest(r) ==
  entries' = entries /\ run[r].answer # "pending" /\ run'[r].answer # "pending"

GoesOnWaiting(r) ==
  /\ entries' = entries
  /\ run[r].answer = "pending" /\ run'[r].answer = "pending"
  /\ Running(r) /\ Running(r)' /\ run'[r].id = run[r].id /\ run'[r].at \in PendingPlaces

DropsEntry(r) ==
  Release(run[r].id) /\ Running(r) /\ run'[r].answer # "pending"

BeginsWaiting(r) ==
  /\ ~HasWaiter(run[r].id)
  /\ \E e \in Entry : entries' = [entries EXCEPT ![run[r].id] = e] /\ e.waiter = r
  /\ run'[r].answer = "pending"
  /\ Running(r) /\ Running(r)' /\ run'[r].id = run[r].id /\ run'[r].at \in PendingPlaces

LEMMA GoneWith ==
  ASSUME RunInv, NEW r \in Runners
  PROVE  /\ \A p : Go(r, p) => /\ run'[r].at = p
                               /\ \A f \in {"op", "user", "on", "id", "answer"} : run'[r][f] = run[r][f]
         /\ \A x : Fail(r, x) =>
              /\ run'[r].at = "failing" /\ run'[r].outcome = x
              /\ \A f \in {"op", "user", "on", "id", "answer"} : run'[r][f] = run[r][f]
         /\ \A p : GiveBack(r, p) =>
              /\ run'[r].at = p /\ run'[r].answer = "none"
              /\ \A f \in {"op", "user", "on", "id"} : run'[r][f] = run[r][f]
         /\ run' = [run EXCEPT ![r] = Idle] => run'[r] = Idle
  <1>1. run[r] \in RunState /\ run \in [Runners -> RunState] BY LocalsAre DEF RunInv, TypeOK
  <1>2. \A p : Go(r, p) => /\ run'[r].at = p
                           /\ \A f \in {"op", "user", "on", "id", "answer"} : run'[r][f] = run[r][f]
    BY <1>1 DEF Go, RunState
  <1>3. \A x : Fail(r, x) =>
          /\ run'[r].at = "failing" /\ run'[r].outcome = x
          /\ \A f \in {"op", "user", "on", "id", "answer"} : run'[r][f] = run[r][f]
    BY <1>1 DEF Fail, RunState
  <1>4. \A p : GiveBack(r, p) =>
          /\ run'[r].at = p /\ run'[r].answer = "none"
          /\ \A f \in {"op", "user", "on", "id"} : run'[r][f] = run[r][f]
    BY <1>1 DEF GiveBack, Idle
  <1>5. run' = [run EXCEPT ![r] = Idle] => run'[r] = Idle BY <1>1
  <1> QED BY <1>2, <1>3, <1>4, <1>5

LEMMA OwnRequest ==
  ASSUME RunInv, NEW r \in Runners, Moves(r), run[r].answer = "pending" => run[r].at \in PendingPlaces
  PROVE  KeepsNoRequest(r) \/ GoesOnWaiting(r) \/ DropsEntry(r) \/ BeginsWaiting(r)
  <1>a. run[r] \in RunState /\ run \in [Runners -> RunState] /\ StateFits(run[r])
    BY LocalsAre DEF RunInv, TypeOK
  <1>b. Idle.answer = "none" BY DEF Idle
  <1>1. CASE \E op \in Triggers, u \in Users, c \in Connections : Start(r, op, u, c)
    <2>1. run'[r].answer = "none" BY <1>1, <1>a DEF Start, Idle
    <2> QED BY <1>1, <2>1 DEF Start, At, KeepsNoRequest, PendingPlaces
  <1>2. CASE RequestDelete(r)
    <2>1. run'[r].answer = "none" BY <1>2, <1>a DEF RequestDelete, Idle
    <2> QED BY <1>2, <2>1 DEF RequestDelete, At, KeepsNoRequest, PendingPlaces
  <1>3. CASE BeginStep(r) \/ DeleteConnection(r) \/ Unlock(r) \/ Leave(r)
    <2>1. run[r].at \notin PendingPlaces /\ entries' = entries
      BY <1>3
      DEF BeginStep, GetKey, TakeLock, LockFails, ReadConnection, ClearPause, CreateRow, BeginFails,
          DeleteConnection, Unlock, Leave, At, PendingPlaces
    <2>2. run'[r].answer \in {run[r].answer, "none"}
      <3>1. CASE ReadConnection(r) /\ ~GiveBack(r, "unlocking")
        BY <1>a, <3>1 DEF ReadConnection, RunState
      <3>2. CASE CreateRow(r) BY <1>a, <3>2 DEF CreateRow, RunState
      <3> QED
        BY <1>3, <1>b, <3>1, <3>2, GoneWith
        DEF BeginStep, GetKey, TakeLock, LockFails, ClearPause, BeginFails, DeleteConnection, Unlock,
            Leave
    <2> QED BY <2>1, <2>2 DEF KeepsNoRequest
  <1>c. ASSUME entries' = entries, Running(r), run'[r].answer = run[r].answer,
               Running(r)', run'[r].id = run[r].id, run'[r].at \in PendingPlaces
        PROVE  KeepsNoRequest(r) \/ GoesOnWaiting(r)
    BY <1>c DEF KeepsNoRequest, GoesOnWaiting
  <1>4. CASE BankAsks(r)
    <2>1. At(r, "order") /\ Running(r) BY <1>4 DEF BankAsks, At, Running
    <2>2. CASE HasWaiter(run[r].id)
      <3>1. Fail(r, "error") /\ entries' = entries BY <1>4, <2>2 DEF BankAsks
      <3> QED BY <2>1, <3>1, GoneWith DEF At, PendingPlaces, KeepsNoRequest
    <2>3. CASE ~HasWaiter(run[r].id)
      <3>1. PICK challenge \in [kind : Kinds, reference : References] :
               \/ /\ Register(run[r].id, r, challenge)
                  /\ AfterRequest(r, challenge, "pending")
               \/ /\ RegisterTooLate(run[r].id, challenge)
                  /\ AfterRequest(r, challenge, "expired")
        BY <1>4, <2>3 DEF BankAsks
      <3>2. ASSUME NEW a, AfterRequest(r, challenge, a)
            PROVE  /\ run'[r].at \in {"marking", "awaiting"} /\ run'[r].answer = a
                   /\ run'[r].id = run[r].id
        BY <1>a, <3>2 DEF AfterRequest, RunState
      <3>3. CASE Register(run[r].id, r, challenge) /\ AfterRequest(r, challenge, "pending")
        <4> DEFINE e == [kind |-> challenge.kind, reference |-> challenge.reference,
                         expired |-> FALSE, waiter |-> r]
        <4>1. e \in Entry BY SyncAssumption DEF Entry, SyncConstants
        <4>2. entries' = [entries EXCEPT ![run[r].id] = e] /\ e.waiter = r
          BY <3>3 DEF Register
        <4> QED BY <2>1, <2>3, <3>2, <3>3, <4>1, <4>2 DEF BeginsWaiting, Running, PendingPlaces
      <3>4. CASE RegisterTooLate(run[r].id, challenge) /\ AfterRequest(r, challenge, "expired")
        BY <2>1, <3>2, <3>4 DEF DropsEntry, RegisterTooLate, Release
      <3> QED BY <3>1, <3>3, <3>4
    <2> QED BY <2>2, <2>3
  <1>5. CASE Settle(r)
    <2>1. run'[r].answer = run[r].answer /\ Running(r) /\ run[r].at \notin PendingPlaces
      BY <1>5, <1>a DEF Settle, RunState, At, Running, PendingPlaces
    <2> QED BY <1>5, <2>1 DEF Settle, DropsEntry
  <1>6. CASE Close(r) BY <1>6, GoneWith DEF Close, DropsEntry, At, Running
  <1>7. CASE TakeAnswer(r)
    <2>1. run[r].answer # "pending" /\ entries' = entries BY <1>7 DEF TakeAnswer
    <2>2. run'[r].answer \in {run[r].answer, "none"}
      <3>1. CASE Fail(r, "tan_expired") BY <3>1, GoneWith
      <3>2. CASE ~Fail(r, "tan_expired") BY <1>7, <1>a, <3>2 DEF TakeAnswer, RunState
      <3> QED BY <3>1, <3>2
    <2> QED BY <2>1, <2>2 DEF KeepsNoRequest
  <1>8. CASE Resume(r) \/ ShowSettled(r) \/ FinishRun(r) \/ RecordSuccess(r)
    <2>1. run[r].at \notin PendingPlaces /\ entries' = entries /\ \E p : Go(r, p)
      BY <1>8 DEF Resume, ShowSettled, FinishRun, RecordSuccess, At, PendingPlaces
    <2> QED BY <2>1, GoneWith DEF KeepsNoRequest
  <1>9. CASE SaveBankingInformation(r)
    <2>1. run[r].at \notin PendingPlaces /\ entries' = entries
      BY <1>9 DEF SaveBankingInformation, At, PendingPlaces
    <2>2. run'[r].answer = run[r].answer
      <3>1. CASE Fail(r, "error") BY <3>1, GoneWith
      <3>2. CASE ~Fail(r, "error") BY <1>9, <1>a, <3>2 DEF SaveBankingInformation, RunState
      <3> QED BY <3>1, <3>2
    <2> QED BY <2>1, <2>2 DEF KeepsNoRequest
  <1>10. CASE MarkWaiting(r) \/ FinishFailed(r) \/ RecordFailure(r) \/ Pause(r) \/ RecordingFails(r)
    <2>1. /\ Running(r) /\ entries' = entries
          /\ \E p \in {"awaiting", "closing", "noting", "pausing"} : Go(r, p)
      BY <1>10
      DEF MarkWaiting, FinishFailed, RecordFailure, Pause, RecordingFails, At, Running
    <2>2. /\ run'[r].at \in PendingPlaces /\ Running(r)'
          /\ run'[r].answer = run[r].answer /\ run'[r].id = run[r].id
      BY <2>1, GoneWith DEF PendingPlaces, Running
    <2> QED BY <1>c, <2>1, <2>2
  <1>11. CASE RunFails(r)
    <2>1. Running(r) /\ entries' = entries /\ Fail(r, "error") BY <1>11 DEF RunFails, Running
    <2>2. /\ run'[r].at = "failing" /\ run'[r].answer = run[r].answer /\ run'[r].id = run[r].id
      BY <2>1, GoneWith
    <2> QED BY <1>c, <2>1, <2>2 DEF PendingPlaces, Running
  <1> QED BY <1>1, <1>2, <1>3, <1>4, <1>5, <1>6, <1>7, <1>8, <1>9, <1>10, <1>11
      DEF Moves, RunStep, OrderStep, EndStep

OneUser == \A u, v \in Users : u = v

\* Runs of one user's database have different ids.
LEMMA IdsDiffer ==
  ASSUME RunInv, OneUser, NEW r \in Runners, NEW s \in Runners, r # s, Running(r), Running(s)
  PROVE  run[r].id \in RunIds /\ run[s].id \in RunIds /\ run[r].id # run[s].id
  <1>1. \A q \in {r, s} :
          /\ run[q].user \in Users /\ run[q].on \in Connections /\ run[q].id \in RunIds
          /\ lock[run[q].user][run[q].on] = q
          /\ row[run[q].user][run[q].id].connection = run[q].on
    BY LocalsAre
    DEF Running, StateFits, RowsFit, Live, Holding, InProgress, Ordering, RunState
  <1> QED BY <1>1 DEF OneUser

LEMMA RunnerAnswers ==
  ASSUME RunInv, OneUser, ChallengeInv, NEW r \in Runners, Moves(r)
  PROVE  ChallengeInv'
  <1>1. Moved(r) BY RunnerMoves
  <1>2. \A s \in Runners : s # r => run'[s] = run[s] BY <1>1, OthersKeep
  <1>3. \A s \in Runners : s # r => (Running(s)' <=> Running(s)) BY <1>2 DEF Running
  <1>4. \A s \in Runners : Running(s) => run[s].id \in RunIds
    BY LocalsAre DEF Running, StateFits, InProgress, Ordering, RunState
  <1>5. \A i \in RunIds : HasWaiter(i) => entries[i].waiter \in Runners
    BY SyncAssumption
    DEF RunInv, TypeOK, TansTypeOK, Entry, NoEntry, HasWaiter, SyncConstants
  <1>6. KeepsNoRequest(r) \/ GoesOnWaiting(r) \/ DropsEntry(r) \/ BeginsWaiting(r)
    BY OwnRequest DEF ChallengeInv
  <1>7. run'[r].answer = "pending" => run'[r].at \in PendingPlaces
    BY <1>6 DEF KeepsNoRequest, GoesOnWaiting, DropsEntry, BeginsWaiting
  <1>8. \A s \in Runners : run'[s].answer = "pending" => run'[s].at \in PendingPlaces
    BY <1>2, <1>7 DEF ChallengeInv
  <1>9. CASE KeepsNoRequest(r)
    <2>1. entries' = entries /\ run[r].answer # "pending" /\ run'[r].answer # "pending"
      BY <1>9 DEF KeepsNoRequest
    <2>2. ASSUME NEW s \in Runners, Running(s)', run'[s].answer = "pending"
          PROVE  entries'[run'[s].id].waiter = s
      <3>1. s # r BY <2>1, <2>2
      <3> QED BY <1>2, <1>3, <2>1, <2>2, <3>1 DEF ChallengeInv, ChallengeReachesRun
    <2>3. ASSUME NEW i \in RunIds, HasWaiter(i)'
          PROVE  HasRun(i)'
      <3>1. PICK w \in Runners : HasWaiter(i) /\ w = entries[i].waiter
        BY <1>5, <2>1, <2>3 DEF HasWaiter
      <3>2. Running(w) /\ run[w].id = i /\ run[w].answer = "pending"
        BY <3>1 DEF ChallengeInv, ChallengeReachesRun
      <3>3. w # r BY <2>1, <3>2
      <3> QED BY <1>2, <2>1, <3>1, <3>2, <3>3 DEF HasRun, Running
    <2> QED BY <1>8, <2>2, <2>3 DEF ChallengeInv, ChallengeReachesRun, HasRun
  <1>10. CASE GoesOnWaiting(r)
    <2>1. /\ entries' = entries /\ run[r].answer = "pending" /\ run'[r].answer = "pending"
          /\ Running(r) /\ Running(r)' /\ run'[r].id = run[r].id
      BY <1>10 DEF GoesOnWaiting
    <2>2. \A s \in Runners : /\ Running(s)' <=> Running(s)
                             /\ run'[s].answer = run[s].answer /\ run'[s].id = run[s].id
      BY <1>2, <1>3, <2>1
    <2>3. \A i \in RunIds : HasWaiter(i)' <=> HasWaiter(i) BY <2>1 DEF HasWaiter
    <2> QED BY <1>5, <1>8, <2>1, <2>2, <2>3 DEF ChallengeInv, ChallengeReachesRun
  <1>b. CASE DropsEntry(r) \/ BeginsWaiting(r)
    <2> DEFINE id == run[r].id
    <2>1. Running(r) /\ id \in RunIds BY <1>4, <1>b DEF DropsEntry, BeginsWaiting
    <2>2. \A i \in RunIds : i # id => entries'[i] = entries[i]
      BY <1>b, <2>1 DEF DropsEntry, BeginsWaiting, Release, RunInv, TypeOK, TansTypeOK
    <2>3. entries'[id].waiter = IF run'[r].answer = "pending" THEN r ELSE None
      BY <1>b, <2>1
      DEF DropsEntry, BeginsWaiting, Release, RunInv, TypeOK, TansTypeOK, NoEntry
    <2>4. run'[r].answer = "pending" => Running(r)' /\ run'[r].id = id
      BY <1>b DEF DropsEntry, BeginsWaiting
    <2>5. ASSUME NEW s \in Runners, Running(s)', run'[s].answer = "pending"
          PROVE  entries'[run'[s].id].waiter = s
      <3>1. CASE s = r BY <2>3, <2>4, <2>5, <3>1
      <3>2. CASE s # r
        <4>1. run'[s] = run[s] /\ Running(s) BY <1>2, <1>3, <2>5, <3>2
        <4>2. entries[run[s].id].waiter = s
          BY <2>5, <4>1 DEF ChallengeInv, ChallengeReachesRun
        <4>3. run[s].id \in RunIds /\ run[s].id # id BY <2>1, <3>2, <4>1, IdsDiffer
        <4> QED BY <2>2, <4>1, <4>2, <4>3
      <3> QED BY <3>1, <3>2
    <2>6. ASSUME NEW i \in RunIds, HasWaiter(i)'
          PROVE  HasRun(i)'
      <3>1. CASE i = id
        <4>1. run'[r].answer = "pending" /\ entries'[i].waiter = r
          BY <2>3, <2>6, <3>1 DEF HasWaiter
        <4> QED BY <2>4, <3>1, <4>1 DEF HasRun, Running
      <3>2. CASE i # id
        <4>1. PICK w \in Runners : HasWaiter(i) /\ w = entries[i].waiter /\ entries'[i].waiter = w
          BY <1>5, <2>2, <2>6, <3>2 DEF HasWaiter
        <4>2. Running(w) /\ run[w].id = i /\ run[w].answer = "pending"
          BY <4>1 DEF ChallengeInv, ChallengeReachesRun
        <4>3. w # r BY <3>2, <4>2
        <4>4. run'[w] = run[w] BY <1>2, <4>3
        <4> QED BY <4>1, <4>2, <4>4 DEF HasRun, Running
      <3> QED BY <3>1, <3>2
    <2> QED BY <1>8, <2>5, <2>6 DEF ChallengeInv, ChallengeReachesRun, HasRun
  <1> QED BY <1>6, <1>9, <1>10, <1>b

\* An answer, a poll that is due, or the end of the wait.
LEMMA AnswersReach ==
  ASSUME RunInv, ChallengeInv, NEW id \in RunIds, Answers(id)
  PROVE  ChallengeInv'
  <1> DEFINE w == entries[id].waiter
  <1>1. w \in Runners /\ \A i \in RunIds : HasWaiter(i) => entries[i].waiter \in Runners
    BY SyncAssumption
    DEF RunInv, TypeOK, TansTypeOK, Entry, NoEntry, HasWaiter, SyncConstants, Answers
  <1>2. PICK a \in {"tan", "poll", "expired"} : Resolve(id, a) BY DEF Answers
  <1>3. /\ run'[w].answer = a
        /\ \A s \in Runners : /\ s # w => run'[s].answer = run[s].answer
                              /\ run'[s].at = run[s].at /\ run'[s].id = run[s].id
    BY <1>1, <1>2, LocalsAre DEF Resolve, RunInv, TypeOK, RunState
  <1>4. \A s \in Runners : Running(s)' <=> Running(s) BY <1>3 DEF Running
  <1>5. entries \in [RunIds -> Entry \cup {NoEntry}] BY DEF RunInv, TypeOK, TansTypeOK
  <1>6. /\ \A i \in RunIds : i # id => entries'[i] = entries[i]
        /\ entries'[id].waiter = None
    <2>1. entries[id] \in Entry BY <1>5 DEF Answers, HasWaiter, NoEntry
    <2>2. CASE Wake(id) BY <1>5, <2>1, <2>2 DEF Wake, Entry
    <2>3. CASE Expire(id) BY <1>5, <2>3 DEF Expire, NoEntry
    <2> QED BY <2>2, <2>3 DEF Answers
  <1>7. run[w].id = id BY DEF Answers, ChallengeInv, ChallengeReachesRun
  <1> HIDE DEF w
  <1>8. ASSUME NEW s \in Runners, run'[s].answer = "pending"
        PROVE  /\ run'[s].at \in PendingPlaces
               /\ Running(s)' => entries'[run'[s].id].waiter = s
    <2>1. s # w /\ run[s].answer = "pending" BY <1>3, <1>8
    <2>2. Running(s) => entries[run[s].id].waiter = s /\ run[s].id \in RunIds
      BY <2>1, LocalsAre
      DEF ChallengeInv, ChallengeReachesRun, Running, StateFits, InProgress, Ordering, RunState
    <2>3. Running(s) => run[s].id # id BY <2>1, <2>2 DEF w
    <2> QED BY <1>3, <1>4, <1>6, <2>1, <2>2, <2>3 DEF ChallengeInv
  <1>9. ASSUME NEW i \in RunIds, HasWaiter(i)'
        PROVE  HasRun(i)'
    <2>1. i # id /\ HasWaiter(i) /\ entries'[i] = entries[i] BY <1>6, <1>9 DEF HasWaiter
    <2>2. PICK v \in Runners : v = entries[i].waiter BY <1>1, <2>1
    <2>3. Running(v) /\ run[v].id = i /\ run[v].answer = "pending"
      BY <2>1, <2>2 DEF ChallengeInv, ChallengeReachesRun
    <2>4. v # w BY <1>7, <2>1, <2>3
    <2>5. Running(v)' /\ run'[v].id = i /\ run'[v].answer = "pending"
      BY <1>3, <1>4, <2>3, <2>4
    <2> QED BY <2>1, <2>2, <2>5 DEF HasRun, Running
  <1> QED BY <1>8, <1>9 DEF ChallengeInv, ChallengeReachesRun, HasRun

LEMMA NextAnswers ==
  ASSUME RunInv, OneUser, ChallengeInv, [Next]_vars
  PROVE  ChallengeInv'
  <1>1. CASE \E r \in Runners : Acts(r) BY <1>1, RunnerAnswers DEF Acts
  <1>2. CASE StartDue
    <2>1. Scheduler \in Runners BY SyncAssumption DEF SyncConstants
    <2> QED BY <1>2, <2>1, StartDueKeeps, RunnerAnswers
  <1>3. CASE \E id \in RunIds : Answers(id) BY <1>3, AnswersReach
  <1>4. ASSUME UNCHANGED run,
               \A i \in RunIds : entries'[i].waiter = entries[i].waiter
        PROVE  ChallengeInv'
    <2>1. \A s : Running(s)' <=> Running(s) BY <1>4 DEF Running
    <2>2. \A i \in RunIds : HasWaiter(i)' <=> HasWaiter(i) BY <1>4 DEF HasWaiter
    <2>3. \A s \in Runners : Running(s) => run[s].id \in RunIds
      BY LocalsAre DEF Running, StateFits, InProgress, Ordering, RunState
    <2> QED BY <1>4, <2>1, <2>2, <2>3 DEF ChallengeInv, ChallengeReachesRun
  <1>5. CASE \E u \in Users, c \in Connections : UpdateConnection(u, c)
    BY <1>4, <1>5 DEF UpdateConnection
  <1>6. CASE Ticks BY <1>4, <1>6 DEF Ticks
  <1>7. CASE Apart
    <2>1. ASSUME NEW id \in RunIds, DeadlinePasses(id), NEW i \in RunIds
          PROVE  entries'[i].waiter = entries[i].waiter
      <3>1. entries \in [RunIds -> Entry \cup {NoEntry}] BY DEF RunInv, TypeOK, TansTypeOK
      <3> QED BY <2>1, <3>1 DEF DeadlinePasses, Entry
    <2> QED BY <1>4, <1>7, <2>1 DEF Apart, syncVars
  <1>8. CASE Restart
    <2>1. \A s \in Runners : run'[s] = Idle BY <1>8 DEF Restart
    <2>2. \A i \in RunIds : ~HasWaiter(i)' BY <1>8 DEF Restart, ForgetTans, NoEntry, HasWaiter
    <2>3. \A s \in Runners : run'[s].answer = "none" BY <2>1 DEF Idle
    <2> QED BY <2>2, <2>3 DEF ChallengeInv, ChallengeReachesRun
  <1> QED BY <1>1, <1>2, <1>3, <1>5, <1>6, <1>7, <1>8, NextSorted

\* With one user, whoever answers a challenge, or whatever ends it, reaches the run that waits: a
\* pending request is the waiter of its run's entry, and no waiter outlives its run
\* (pending-tan-registry.ts, tan-prompt.ts, sync-service.ts), under every fault and for any runners,
\* connections, challenges and bounds.  Runs of several users may have the same id, and the
\* registry does not tell them apart.
THEOREM ChallengesReachTheirRuns ==
  ASSUME \A u, v \in Users : u = v
  PROVE  Spec => []ChallengeReachesRun
  <1>1. OneUser BY DEF OneUser
  <1>2. Init => ChallengeInv
    <2> SUFFICES ASSUME Init PROVE ChallengeInv OBVIOUS
    <2>1. \A s \in Runners : run[s].answer = "none" BY DEF Init, Idle
    <2>2. \A i \in RunIds : ~HasWaiter(i) BY DEF Init, TansInit, NoEntry, HasWaiter
    <2> QED BY <2>1, <2>2 DEF ChallengeInv, ChallengeReachesRun
  <1>3. ChallengeInv /\ RunInv /\ [Next]_vars => ChallengeInv' BY <1>1, NextAnswers
  <1>4. ChallengeInv => ChallengeReachesRun BY DEF ChallengeInv
  <1> QED BY <1>2, <1>3, <1>4, RunsKept, PTL DEF Spec

-----------------------------------------------------------------------------
(* The steps of a runner, sorted by what they do to its row and its connection. *)

SameTarget(r) == \A f \in {"op", "user", "on"} : run'[r][f] = run[r][f]

\* Still in progress, with the same row.
Continues(r) ==
  Running(r) /\ Running(r)' /\ SameTarget(r) /\ run'[r].id = run[r].id

\* The status of the run's own row is all that may change.
OwnRowOnly(r) ==
  /\ \A u \in Users, id \in RunIds :
       (u # run[r].user \/ id # run[r].id) => row'[u][id] = row[u][id]
  /\ LET old == row[run[r].user][run[r].id]
         new == row'[run[r].user][run[r].id]
     IN new # None /\ new.connection = old.connection /\ new.trigger = old.trigger

\* Before the row is created, and after it is left.
Past == {"unlocking", "leaving", "idle"}

Outside(r) ==
  /\ ~Running(r) /\ ~Running(r)'
  /\ SameTarget(r) \/ run'[r] = Idle
  /\ run[r].at # "idle"
  /\ run[r].at \in Past => run'[r].at \in Past
  /\ run'[r].at = "creating" => run[r].op # "manual"
  /\ UNCHANGED <<connection, row>>

\* The bank's orders, and a failure of the run.
Proceeds(r) ==
  /\ Continues(r)
  /\ run[r].at \notin {"pausing", "closing"}
  /\ run'[r].at \in Ordering \cup {"finishing", "failing"}
  /\ OwnRowOnly(r)
  /\ connection' = connection \/ SaveBankingInformation(r)

Begins(r) ==
  \/ \E op \in Triggers, u \in Users, c \in Connections : Start(r, op, u, c)
  \/ RequestDelete(r)

Ends(r) ==
  \/ FinishRun(r) \/ RecordSuccess(r) \/ FinishFailed(r) \/ RecordFailure(r) \/ Pause(r)
  \/ RecordingFails(r) \/ Close(r)

LEMMA RowWritten ==
  ASSUME RunInv, NEW r \in Runners, Running(r),
         row' = row \/ \E s \in RunStatus : SetStatus(r, s) \/ SetWaiting(r, s)
  PROVE  OwnRowOnly(r)
  <1> DEFINE u == run[r].user
             id == run[r].id
  <1>1. u \in Users /\ id \in RunIds /\ row[u][id] # None /\ row[u][id] \in RunRow
    BY LocalsAre
    DEF Running, StateFits, RowsFit, Live, InProgress, Ordering, RunState, RunInv, TypeOK
  <1>2. CASE row' = row BY <1>1, <1>2 DEF OwnRowOnly
  <1>3. ASSUME NEW s \in RunStatus, SetStatus(r, s) PROVE OwnRowOnly(r)
    <2> DEFINE x == [row[u][id] EXCEPT !.status = s]
    <2>1. /\ x \in RunRow /\ x # None
          /\ x.connection = row[u][id].connection /\ x.trigger = row[u][id].trigger
      BY <1>1, SyncAssumption DEF RunRow, SyncConstants
    <2>2. row' = [row EXCEPT ![u][id] = x] BY <1>1, <1>3 DEF SetStatus
    <2> HIDE DEF x
    <2>3. /\ row'[u][id] = x
          /\ \A v \in Users, i \in RunIds : v # u \/ i # id => row'[v][i] = row[v][i]
      BY <1>1, <2>2 DEF RunInv, TypeOK
    <2> QED BY <2>1, <2>3 DEF OwnRowOnly
  <1> QED BY <1>2, <1>3 DEF SetWaiting

LEMMA StepsSorted ==
  ASSUME RunInv, NEW r \in Runners, Moves(r)
  PROVE  \/ Begins(r) \/ Outside(r) \/ ClearPause(r) \/ CreateRow(r) \/ DeleteConnection(r)
         \/ Proceeds(r) \/ Ends(r)
  <1>a. run[r] \in RunState /\ run \in [Runners -> RunState] /\ StateFits(run[r])
    BY LocalsAre DEF RunInv, TypeOK
  <1>b. Idle.at = "idle" BY DEF Idle
  <1>1. CASE GetKey(r) \/ TakeLock(r) \/ LockFails(r) \/ ReadConnection(r) \/ BeginFails(r)
               \/ Unlock(r) \/ Leave(r)
    <2>1. /\ UNCHANGED <<connection, row>> /\ ~Running(r) /\ run[r].at # "idle"
      BY <1>1
      DEF GetKey, TakeLock, LockFails, ReadConnection, BeginFails, Unlock, Leave, At, Running
    <2>2. CASE run' = [run EXCEPT ![r] = Idle]
      <3>1. run'[r] = Idle BY <1>a, <2>2
      <3> QED BY <1>b, <2>1, <3>1 DEF Outside, Running, Past
    <2>3. ASSUME NEW p \in {"locking", "leaving", "deleting", "reading"}, Go(r, p),
                 At(r, "unlocking") => p = "leaving", run[r].at \notin {"leaving", "idle"}
          PROVE  Outside(r)
      BY <2>1, <2>3, GoneWith DEF Outside, SameTarget, Running, Past, At
    <2>4. CASE GetKey(r) BY <2>3, <2>4 DEF GetKey, At
    <2>5. CASE TakeLock(r) BY <2>3, <2>5 DEF TakeLock, At
    <2>6. CASE LockFails(r) BY <2>2, <2>3, <2>6 DEF LockFails, At
    <2>7. CASE GiveBack(r, "unlocking") /\ ~(Unlock(r) \/ Leave(r))
      <3>1. run[r].at \notin Past
        BY <1>1, <2>7 DEF GetKey, TakeLock, LockFails, ReadConnection, BeginFails, At, Past
      <3> QED BY <2>1, <2>7, <3>1, GoneWith DEF Outside, SameTarget, Running, Past
    <2>8. CASE ReadConnection(r) /\ ~GiveBack(r, "unlocking")
      <3>1. /\ run'[r].at = IF run[r].op = "manual" THEN "unpausing" ELSE "creating"
            /\ SameTarget(r) /\ At(r, "reading")
        BY <1>a, <2>8 DEF ReadConnection, RunState, SameTarget
      <3> QED BY <2>1, <3>1 DEF Outside, Running, Past, At
    <2>9. CASE BeginFails(r)
      <3>1. GiveBack(r, "unlocking") /\ ~(Unlock(r) \/ Leave(r))
        BY <2>9 DEF BeginFails, Unlock, Leave, At
      <3> QED BY <2>7, <3>1
    <2>10. CASE Unlock(r) BY <2>2, <2>3, <2>10 DEF Unlock, At
    <2>11. CASE Leave(r) BY <2>2, <2>11 DEF Leave
    <2>12. ReadConnection(r) => ~(Unlock(r) \/ Leave(r)) BY DEF ReadConnection, Unlock, Leave, At
    <2> QED BY <1>1, <2>4, <2>5, <2>6, <2>7, <2>8, <2>9, <2>10, <2>11, <2>12
  <1>c. ASSUME run[r].at \in Ordering \cup {"finishing", "recording"},
               run'[r].at \in Ordering \cup {"finishing", "failing"},
               SameTarget(r) /\ run'[r].id = run[r].id,
               row' = row \/ \E s \in RunStatus : SetStatus(r, s) \/ SetWaiting(r, s),
               connection' = connection \/ SaveBankingInformation(r)
        PROVE  Proceeds(r)
    <2>1. Running(r) /\ Running(r)' BY <1>c DEF Running, Ordering
    <2> QED BY <1>c, <2>1, RowWritten DEF Proceeds, Continues, Ordering
  <1>d. ASSUME NEW x, Fail(r, x) PROVE run'[r].at = "failing" /\ SameTarget(r) /\ run'[r].id = run[r].id
    BY <1>d, GoneWith DEF SameTarget
  <1>e. ASSUME NEW p, Go(r, p) PROVE run'[r].at = p /\ SameTarget(r) /\ run'[r].id = run[r].id
    BY <1>e, GoneWith DEF SameTarget
  <1>f. {"running", "tan_required"} \subseteq RunStatus BY DEF RunStatus, Unfinished
  <1>2. CASE OrderStep(r)
    <2>1. CASE BankAsks(r)
      <3>1. CASE Fail(r, "error") BY <1>c, <1>d, <2>1, <3>1 DEF BankAsks, At, Ordering
      <3>2. CASE \E challenge, x : AfterRequest(r, challenge, x)
        <4>1. /\ run'[r].at \in {"awaiting", "marking"} /\ SameTarget(r)
              /\ run'[r].id = run[r].id
          BY <1>a, <3>2 DEF AfterRequest, RunState, SameTarget
        <4> QED BY <1>c, <2>1, <4>1 DEF BankAsks, At, Ordering
      <3> QED BY <2>1, <3>1, <3>2 DEF BankAsks
    <2>2. CASE MarkWaiting(r) BY <1>c, <1>e, <1>f, <2>2 DEF MarkWaiting, At, Ordering
    <2>3. CASE TakeAnswer(r)
      <3>1. CASE Fail(r, "tan_expired") BY <1>c, <1>d, <2>3, <3>1 DEF TakeAnswer, At, Ordering
      <3>2. CASE ~Fail(r, "tan_expired")
        <4>1. /\ run'[r].at \in {"order", "resuming"} /\ SameTarget(r) /\ run'[r].id = run[r].id
          BY <1>a, <2>3, <3>2 DEF TakeAnswer, RunState, SameTarget
        <4> QED BY <1>c, <2>3, <4>1 DEF TakeAnswer, At, Ordering
      <3> QED BY <3>1, <3>2
    <2>4. CASE Resume(r) BY <1>c, <1>e, <1>f, <2>4 DEF Resume, At, Ordering
    <2>5. CASE Settle(r)
      <3>1. /\ run'[r].at \in {"settling", "saving"} /\ SameTarget(r) /\ run'[r].id = run[r].id
        BY <1>a, <2>5 DEF Settle, RunState, SameTarget
      <3> QED BY <1>c, <2>5, <3>1 DEF Settle, At, Ordering
    <2>6. CASE ShowSettled(r) BY <1>c, <1>e, <1>f, <2>6 DEF ShowSettled, At, Ordering
    <2>7. CASE SaveBankingInformation(r)
      <3>1. run'[r].at \in {"finishing", "order", "failing"} /\ SameTarget(r) /\ run'[r].id = run[r].id
        <4>1. CASE Fail(r, "error") BY <1>d, <4>1
        <4>2. CASE ~Fail(r, "error")
          BY <1>a, <2>7, <4>2 DEF SaveBankingInformation, RunState, SameTarget
        <4> QED BY <4>1, <4>2
      <3> QED BY <1>c, <2>7, <3>1 DEF SaveBankingInformation, At, Ordering
    <2> QED BY <1>2, <2>1, <2>2, <2>3, <2>4, <2>5, <2>6, <2>7 DEF OrderStep
  <1>3. CASE RunFails(r) BY <1>3, <1>c, <1>d DEF RunFails, Ordering
  <1> QED BY <1>1, <1>2, <1>3
      DEF Moves, RunStep, BeginStep, EndStep, Begins, Ends

\* What is written in the run's own connection, and in no other.
Writes(r, last, paused) ==
  LET c == run[r].on
      u == run[r].user
  IN /\ connection[u][c] # None /\ connection'[u][c] # None
     /\ connection'[u][c].last = last /\ connection'[u][c].paused = paused
     /\ \A v \in Users, d \in Connections :
          v # u \/ d # c => connection'[v][d] = connection[v][d]

LEMMA Writing ==
  ASSUME RunInv, NEW r \in Runners
  PROVE  LET old == connection[run[r].user][run[r].on]
         IN /\ ClearPause(r) => Writes(r, old.last, FALSE)
            /\ SaveBankingInformation(r) => Writes(r, old.last, old.paused)
            /\ RecordSuccess(r) => Writes(r, "success", old.paused)
            /\ RecordFailure(r) => Writes(r, run[r].outcome, old.paused)
            /\ Pause(r) => Writes(r, old.last, TRUE)
  <1> DEFINE u == run[r].user
             c == run[r].on
             old == connection[u][c]
  <1>1. \A p \in {"unpausing", "saving", "recording", "noting", "pausing"} :
          At(r, p) => /\ u \in Users /\ c \in Connections
                      /\ old # None /\ old \in ConnectionRow
    BY LocalsAre DEF At, StateFits, RowsFit, InProgress, Ordering, RunInv, TypeOK
  <1>2. ASSUME u \in Users, c \in Connections, old # None, NEW x \in ConnectionRow,
               connection' = [connection EXCEPT ![u][c] = x]
        PROVE  Writes(r, x.last, x.paused)
    <2>1. x # None BY SyncAssumption DEF SyncConstants
    <2>2. /\ connection'[u][c] = x
          /\ \A v \in Users, d \in Connections :
               v # u \/ d # c => connection'[v][d] = connection[v][d]
      BY <1>2 DEF RunInv, TypeOK
    <2> QED BY <1>2, <2>1, <2>2 DEF Writes
  <1>3. CASE old \in ConnectionRow
    <2>1. ASSUME ClearPause(r) PROVE Writes(r, old.last, FALSE)
      <3> DEFINE x == [old EXCEPT !.paused = FALSE]
      <3>1. x \in ConnectionRow /\ x.last = old.last /\ x.paused = FALSE BY <1>3 DEF ConnectionRow
      <3>2. connection' = [connection EXCEPT ![u][c] = x]
        BY <1>1, <2>1 DEF ClearPause, SetConnection
      <3> HIDE DEF x
      <3>3. Writes(r, x.last, x.paused) BY <1>1, <1>2, <2>1, <3>1, <3>2 DEF ClearPause
      <3> QED BY <3>1, <3>3
    <2>2. ASSUME SaveBankingInformation(r) PROVE Writes(r, old.last, old.paused)
      <3> DEFINE x == [old EXCEPT !.bankData = run[r].identity]
      <3>1. x \in ConnectionRow /\ x.last = old.last /\ x.paused = old.paused
        BY <1>3, LocalsAre DEF ConnectionRow, RunState
      <3>2. connection' = [connection EXCEPT ![u][c] = x]
        BY <1>1, <2>2 DEF SaveBankingInformation, SetConnection
      <3> HIDE DEF x
      <3>3. Writes(r, x.last, x.paused) BY <1>1, <1>2, <2>2, <3>1, <3>2 DEF SaveBankingInformation
      <3> QED BY <3>1, <3>3
    <2>3. ASSUME RecordSuccess(r) PROVE Writes(r, "success", old.paused)
      <3> DEFINE x == [old EXCEPT !.last = "success"]
      <3>1. x \in ConnectionRow /\ x.last = "success" /\ x.paused = old.paused
        BY <1>3 DEF ConnectionRow
      <3>2. connection' = [connection EXCEPT ![u][c] = x]
        BY <1>1, <2>3 DEF RecordSuccess, SetConnection
      <3> HIDE DEF x
      <3>3. Writes(r, x.last, x.paused) BY <1>1, <1>2, <2>3, <3>1, <3>2 DEF RecordSuccess
      <3> QED BY <3>1, <3>3
    <2>4. ASSUME RecordFailure(r) PROVE Writes(r, run[r].outcome, old.paused)
      <3> DEFINE x == [old EXCEPT !.last = run[r].outcome]
      <3>0. run[r].outcome \in Failed BY <2>4, LocalsAre DEF RecordFailure, At, StateFits
      <3>1. x \in ConnectionRow /\ x.last = run[r].outcome /\ x.paused = old.paused
        BY <1>3, <3>0 DEF ConnectionRow
      <3>2. connection' = [connection EXCEPT ![u][c] = x]
        BY <1>1, <2>4 DEF RecordFailure, SetConnection
      <3> HIDE DEF x
      <3>3. Writes(r, x.last, x.paused) BY <1>1, <1>2, <2>4, <3>1, <3>2 DEF RecordFailure
      <3> QED BY <3>1, <3>3
    <2>5. ASSUME Pause(r) PROVE Writes(r, old.last, TRUE)
      <3> DEFINE x == [old EXCEPT !.paused = TRUE]
      <3>1. x \in ConnectionRow /\ x.last = old.last /\ x.paused = TRUE BY <1>3 DEF ConnectionRow
      <3>2. connection' = [connection EXCEPT ![u][c] = x]
        BY <1>1, <2>5 DEF Pause, SetConnection
      <3> HIDE DEF x
      <3>3. Writes(r, x.last, x.paused) BY <1>1, <1>2, <2>5, <3>1, <3>2 DEF Pause
      <3> QED BY <3>1, <3>3
    <2> QED BY <2>1, <2>2, <2>3, <2>4, <2>5
  <1> QED BY <1>1, <1>3
      DEF ClearPause, SaveBankingInformation, RecordSuccess, RecordFailure, Pause

-----------------------------------------------------------------------------
(* The history of a connection's syncs. *)

NewestIs(u, c, id) == id \in Syncs(u, c) /\ \A other \in Syncs(u, c) : other <= id

\* The syncs of the connection and what their rows say stay.
HistorySame(u, c) ==
  /\ Syncs(u, c)' = Syncs(u, c)
  /\ \A id \in Syncs(u, c) : row'[u][id] = row[u][id]

\* A run is on the row it created, a sync on its connection's newest one.
OwnRow(r) ==
  Running(r) =>
    /\ row[run[r].user][run[r].id].trigger = run[r].op
    /\ run[r].op # "discover" => NewestIs(run[r].user, run[r].on, run[r].id)

HistoryInv ==
  /\ \A r \in Runners : OwnRow(r)
  /\ \A u \in Users, c \in Connections :
       Syncs(u, c) # {} => \E id \in RunIds : NewestIs(u, c, id)

IsTarget(r, u, c) == run[r].user = u /\ run[r].on = c

\* A run in progress, in the database.
LEMMA RunningHas ==
  ASSUME RunInv, NEW r \in Runners, Running(r)
  PROVE  LET u == run[r].user
             c == run[r].on
             id == run[r].id
         IN /\ u \in Users /\ c \in Connections /\ id \in RunIds /\ run[r].op \in Triggers
            /\ lock[u][c] = r /\ connection[u][c] # None
            /\ row[u][id] # None /\ row[u][id] \in RunRow /\ row[u][id].connection = c
  <1>1. run[r].at \in InProgress /\ StateFits(run[r]) /\ RowsFit(r) /\ run[r] \in RunState
    BY LocalsAre DEF Running, InProgress, Ordering
  <1> QED BY <1>1
      DEF Running, StateFits, RowsFit, Live, Holding, InProgress, Ordering, RunState, RunInv, TypeOK

\* Writing the own row's status changes no other history, and none at all in a discovery.
LEMMA OwnRowHistory ==
  ASSUME RunInv, HistoryInv, NEW r \in Runners, Running(r), OwnRowOnly(r),
         NEW u \in Users, NEW c \in Connections
  PROVE  /\ Syncs(u, c)' = Syncs(u, c)
         /\ ~IsTarget(r, u, c) \/ run[r].op = "discover" => HistorySame(u, c)
         /\ \A id \in Syncs(u, c) : row'[u][id].trigger = row[u][id].trigger
  <1> DEFINE own == run[r].id
  <1>1. /\ run[r].user \in Users /\ own \in RunIds
        /\ row[run[r].user][own] # None /\ row[run[r].user][own].connection = run[r].on
        /\ row[run[r].user][own].trigger = run[r].op
    BY RunningHas DEF HistoryInv, OwnRow
  <1>2. \A id \in RunIds :
          /\ row'[u][id] # None <=> row[u][id] # None
          /\ row'[u][id].connection = row[u][id].connection
          /\ row'[u][id].trigger = row[u][id].trigger
    BY <1>1 DEF OwnRowOnly
  <1>3. Syncs(u, c)' = Syncs(u, c) BY <1>2 DEF Syncs
  <1>4. ASSUME ~IsTarget(r, u, c) \/ run[r].op = "discover", NEW id \in Syncs(u, c)
        PROVE  row'[u][id] = row[u][id]
    <2>1. id \in RunIds /\ row[u][id].connection = c /\ row[u][id].trigger # "discover"
      BY DEF Syncs
    <2>2. u # run[r].user \/ id # own BY <1>1, <1>4, <2>1 DEF IsTarget
    <2> QED BY <2>1, <2>2 DEF OwnRowOnly
  <1>5. \A id \in Syncs(u, c) : id \in RunIds BY DEF Syncs
  <1> QED BY <1>2, <1>3, <1>4, <1>5 DEF HistorySame

LEMMA RowsHistory ==
  ASSUME row' = row, NEW u, NEW c
  PROVE  HistorySame(u, c)
  BY DEF HistorySame, Syncs

\* A new row of a sync becomes its connection's newest.
LEMMA CreatedHistory ==
  ASSUME RunInv, NEW r \in Runners, CreateRow(r), NEW u \in Users, NEW c \in Connections
  PROVE  \E new \in RunIds :
            /\ run'[r].id = new /\ run'[r].at = "order"
            /\ \A f \in {"op", "user", "on"} : run'[r][f] = run[r][f]
            /\ row'[run[r].user][new].trigger = run[r].op
            /\ ~IsTarget(r, u, c) \/ run[r].op = "discover" => HistorySame(u, c)
            /\ IsTarget(r, u, c) /\ run[r].op # "discover" => NewestIs(u, c, new)'
  <1> DEFINE v == run[r].user
             new == lastId[v] + 1
             x == [connection |-> run[r].on, trigger |-> run[r].op, status |-> "running"]
  <1>1. /\ At(r, "creating") /\ v \in Users /\ run[r].on \in Connections
        /\ run[r].op \in Triggers /\ new \in RunIds
    BY LocalsAre DEF CreateRow, At, StateFits
  <1>2. RunIds \subseteq Nat /\ lastId[v] \in Nat
    <2>1. lastId[v] \in RunIds \cup {0} BY <1>1 DEF RunInv, TypeOK
    <2>2. RunIds \cup {0} \subseteq Nat BY IdsAreNumbers
    <2> QED BY <2>1, <2>2
  <1>3. row[v][new] = None BY <1>1, <1>2 DEF RunInv, NewIds
  <1>4. x # None /\ x.connection = run[r].on /\ x.trigger = run[r].op
    <2>1. x \in RunRow BY <1>1 DEF RunRow, RunStatus, Unfinished
    <2> QED BY <2>1, SyncAssumption DEF SyncConstants
  <1>5. row' = [row EXCEPT ![v][new] = x] BY DEF CreateRow
  <1>6. /\ run'[r].id = new /\ run'[r].at = "order"
        /\ \A f \in {"op", "user", "on"} : run'[r][f] = run[r][f]
    BY LocalsAre DEF CreateRow, RunInv, TypeOK, RunState
  <1> HIDE DEF x
  <1>7. /\ row'[v][new] = x
        /\ \A w \in Users, i \in RunIds : w # v \/ i # new => row'[w][i] = row[w][i]
    BY <1>1, <1>5 DEF RunInv, TypeOK
  <1> HIDE DEF v
  <1>a. PICK id \in RunIds : id = new BY <1>1
  <1> HIDE DEF new
  <1>8. ASSUME ~IsTarget(r, u, c) \/ run[r].op = "discover" PROVE HistorySame(u, c)
    <2>1. ASSUME NEW i \in RunIds PROVE i \in Syncs(u, c)' <=> i \in Syncs(u, c)
      <3>1. CASE u = v /\ i = new
        BY <1>3, <1>4, <1>7, <1>8, <3>1 DEF Syncs, IsTarget, v
      <3>2. CASE u # v \/ i # new BY <1>7, <3>2 DEF Syncs
      <3> QED BY <3>1, <3>2
    <2>2. Syncs(u, c)' = Syncs(u, c) BY <2>1 DEF Syncs
    <2>3. \A i \in Syncs(u, c) : i \in RunIds /\ row[u][i] # None BY DEF Syncs
    <2> QED BY <1>3, <1>7, <2>2, <2>3 DEF HistorySame
  <1>9. ASSUME IsTarget(r, u, c), run[r].op # "discover" PROVE NewestIs(u, c, id)'
    <2>1. u = v /\ c = run[r].on BY <1>9 DEF IsTarget, v
    <2>2. id \in Syncs(u, c)' BY <1>1, <1>4, <1>7, <1>9, <1>a, <2>1 DEF Syncs
    <2>3. ASSUME NEW i \in Syncs(u, c)' PROVE i <= id
      <3>1. i \in RunIds /\ row'[u][i] # None BY DEF Syncs
      <3>2. i # new => row[u][i] # None BY <1>7, <3>1
      <3>3. i # new => ~(lastId[v] < i) BY <2>1, <1>1, <3>1, <3>2 DEF RunInv, NewIds
      <3> QED BY <1>2, <1>a, <3>1, <3>3 DEF new
    <2> QED BY <2>2, <2>3 DEF NewestIs
  <1> QED BY <1>4, <1>6, <1>7, <1>8, <1>9, <1>a DEF v

\* A deleted connection has no syncs left; the others' histories stay.
LEMMA DeletedHistory ==
  ASSUME RunInv, NEW r \in Runners, DeleteConnection(r), NEW u \in Users, NEW c \in Connections
  PROVE  \/ HistorySame(u, c) /\ connection'[u][c] = connection[u][c]
         \/ IsTarget(r, u, c) /\ Syncs(u, c)' = {} /\ connection'[u][c] = None
  <1> DEFINE v == run[r].user
             d == run[r].on
  <1>1. v \in Users /\ d \in Connections BY LocalsAre DEF DeleteConnection, At, StateFits
  <1>2. CASE UNCHANGED <<connection, row>> BY <1>2, RowsHistory
  <1>3. CASE /\ connection' = [connection EXCEPT ![v][d] = None]
             /\ row' = [row EXCEPT ![v] = [id \in RunIds |->
                  IF @[id] # None /\ @[id].connection = d THEN None ELSE @[id]]]
    <2>1. /\ connection'[v][d] = None
          /\ u # v \/ c # d => connection'[u][c] = connection[u][c]
      BY <1>1, <1>3 DEF RunInv, TypeOK
    <2>2. /\ \A i \in RunIds : row'[v][i] = IF row[v][i] # None /\ row[v][i].connection = d
                                             THEN None ELSE row[v][i]
          /\ u # v => row'[u] = row[u]
      BY <1>1, <1>3 DEF RunInv, TypeOK
    <2>3. CASE u = v /\ c = d
      <3>1. Syncs(u, c)' = {} BY <2>2, <2>3 DEF Syncs
      <3> QED BY <2>1, <2>3, <3>1 DEF IsTarget
    <2>4. CASE u # v BY <2>1, <2>2, <2>4 DEF HistorySame, Syncs
    <2>5. CASE u = v /\ c # d
      <3>1. \A i \in RunIds : /\ i \in Syncs(u, c)' <=> i \in Syncs(u, c)
                              /\ i \in Syncs(u, c) => row'[u][i] = row[u][i]
        BY <2>2, <2>5 DEF Syncs
      <3>2. Syncs(u, c) \subseteq RunIds /\ Syncs(u, c)' \subseteq RunIds BY DEF Syncs
      <3> QED BY <2>1, <2>5, <3>1, <3>2 DEF HistorySame
    <2> QED BY <2>3, <2>4, <2>5
  <1> QED BY <1>2, <1>3 DEF DeleteConnection

\* The steps that write the status of the run's own row.
LEMMA StatusSteps ==
  ASSUME RunInv, NEW r \in Runners, Proceeds(r) \/ FinishRun(r) \/ FinishFailed(r)
  PROVE  Running(r) /\ OwnRowOnly(r)
  <1>1. CASE Proceeds(r) BY <1>1 DEF Proceeds, Continues
  <1>2. CASE FinishRun(r)
    <2>1. Running(r) /\ SetStatus(r, "success") /\ "success" \in RunStatus
      BY <1>2 DEF FinishRun, At, Running, RunStatus
    <2> QED BY <2>1, RowWritten
  <1>3. CASE FinishFailed(r)
    <2>1. Running(r) /\ SetStatus(r, run[r].outcome) /\ run[r].outcome \in RunStatus
      BY <1>3, LocalsAre DEF FinishFailed, At, Running, RunStatus, StateFits
    <2> QED BY <2>1, RowWritten
  <1> QED BY <1>1, <1>2, <1>3

\* What a runner's step does to a connection's history.
LEMMA HistoryStep ==
  ASSUME RunInv, HistoryInv, NEW r \in Runners, Moves(r), NEW u \in Users, NEW c \in Connections
  PROVE  \/ HistorySame(u, c)
         \/ /\ CreateRow(r) /\ IsTarget(r, u, c) /\ run[r].op # "discover"
            /\ \E new \in RunIds : NewestIs(u, c, new)'
         \/ DeleteConnection(r) /\ Syncs(u, c)' = {} /\ connection'[u][c] = None
         \/ /\ Proceeds(r) \/ FinishRun(r) \/ FinishFailed(r)
            /\ IsTarget(r, u, c) /\ run[r].op # "discover" /\ Syncs(u, c)' = Syncs(u, c)
  <1>1. CASE Begins(r) \/ Outside(r) \/ ClearPause(r)
    <2>1. row' = row BY <1>1 DEF Begins, Start, RequestDelete, Outside, ClearPause
    <2> QED BY <2>1, RowsHistory
  <1>2. CASE CreateRow(r) BY <1>2, CreatedHistory
  <1>3. CASE DeleteConnection(r) BY <1>3, DeletedHistory
  <1>4. CASE Proceeds(r) \/ FinishRun(r) \/ FinishFailed(r)
    <2>1. Running(r) /\ OwnRowOnly(r) BY <1>4, StatusSteps
    <2> QED BY <1>4, <2>1, OwnRowHistory
  <1>5. CASE RecordSuccess(r) \/ RecordFailure(r) \/ Pause(r) \/ RecordingFails(r) \/ Close(r)
    <2>1. row' = row BY <1>5 DEF RecordSuccess, RecordFailure, Pause, RecordingFails, Close
    <2> QED BY <2>1, RowsHistory
  <1> QED BY <1>1, <1>2, <1>3, <1>4, <1>5, StepsSorted DEF Ends

\* Where a runner's step leads, and whose run it is then.
LEMMA StepTarget ==
  ASSUME RunInv, NEW r \in Runners, Moves(r)
  PROVE  \/ Begins(r) /\ run'[r].at \in {"key", "locking"} /\ ~Running(r)
         \/ run'[r] = Idle
         \/ SameTarget(r)
  <1>1. CASE Begins(r)
    <2>1. run'[r].at \in {"key", "locking"} /\ ~Running(r)
      BY <1>1 DEF Begins, Start, RequestDelete, RunInv, TypeOK, Idle, At, Running
    <2> QED BY <1>1, <2>1
  <1>2. CASE ClearPause(r) \/ DeleteConnection(r) BY <1>2, GoneWith DEF ClearPause, DeleteConnection, SameTarget
  <1>3. CASE CreateRow(r)
    <2>1. run[r] \in RunState /\ run \in [Runners -> RunState] BY DEF RunInv, TypeOK
    <2> QED BY <1>3, <2>1 DEF CreateRow, RunState, SameTarget
  <1>4. CASE Ends(r)
    BY <1>4, GoneWith
    DEF Ends, FinishRun, RecordSuccess, FinishFailed, RecordFailure, Pause, RecordingFails, Close, SameTarget
  <1> QED BY <1>1, <1>2, <1>3, <1>4, StepsSorted DEF Outside, Proceeds, Continues

\* A run in progress was so before, on the same row, or has just created it.
LEMMA InRow ==
  ASSUME RunInv, NEW r \in Runners, Moves(r), Running(r)'
  PROVE  CreateRow(r) \/ Continues(r)
  <1>1. ~Begins(r)
    <2>1. CASE Begins(r) /\ ~(run'[r].at \in {"key", "locking"})
      BY <2>1 DEF Begins, Start, RequestDelete, RunInv, TypeOK, Idle
    <2> QED BY <2>1 DEF Running
  <1>2. CASE ClearPause(r) \/ DeleteConnection(r) \/ Close(r)
    BY <1>2, GoneWith DEF ClearPause, DeleteConnection, Close, Running
  <1>3. CASE Ends(r)
    <2>1. Running(r)
      BY <1>3
      DEF Ends, FinishRun, RecordSuccess, FinishFailed, RecordFailure, Pause, RecordingFails, Close,
          At, Running
    <2> QED
      BY <1>2, <1>3, <2>1, GoneWith
      DEF Ends, FinishRun, RecordSuccess, FinishFailed, RecordFailure, Pause, RecordingFails,
          SameTarget, Continues
  <1> QED BY <1>1, <1>2, <1>3, StepsSorted DEF Outside, Proceeds

LEMMA RunnerHistory ==
  ASSUME RunInv, HistoryInv, NEW r \in Runners, Moves(r)
  PROVE  HistoryInv'
  <1>1. Moved(r) BY RunnerMoves
  <1>2. ASSUME NEW u \in Users, NEW c \in Connections, Syncs(u, c)' # {}
        PROVE  \E id \in RunIds : NewestIs(u, c, id)'
    <2>1. CASE Syncs(u, c)' = Syncs(u, c)
      <3>1. PICK id \in RunIds : NewestIs(u, c, id) BY <1>2, <2>1 DEF HistoryInv
      <3> QED BY <2>1, <3>1 DEF NewestIs
    <2> QED BY <1>2, <2>1, HistoryStep DEF HistorySame
  <1>3. ASSUME NEW s \in Runners, s # r, Running(s)' PROVE OwnRow(s)'
    <2>1. run'[s] = run[s] /\ Running(s) BY <1>1, <1>3, OthersKeep DEF Running
    <2>2. PICK u \in Users, c \in Connections, id \in RunIds :
            run[s].user = u /\ run[s].on = c /\ run[s].id = id /\ lock[u][c] = s
      BY <2>1, RunningHas
    <2>3. row'[u][id] = row[u][id] /\ OwnRow(s)
      BY <1>1, <1>3, <2>1, <2>2, OthersStatus DEF HistoryInv, Running, InProgress, Ordering
    <2>4. Syncs(u, c)' = Syncs(u, c)
      <3>1. CASE DeleteConnection(r) \/ CreateRow(r)
        <4>1. lock[run[r].user][run[r].on] = r
          BY <3>1, LocalsAre DEF DeleteConnection, CreateRow, At, RowsFit, Holding
        <4>2. ~IsTarget(r, u, c) BY <1>3, <2>2, <4>1 DEF IsTarget
        <4> QED BY <3>1, <4>2, CreatedHistory, DeletedHistory DEF HistorySame
      <3> QED BY <3>1, HistoryStep DEF HistorySame
    <2> QED BY <2>1, <2>2, <2>3, <2>4 DEF OwnRow, NewestIs
  <1>4. ASSUME Running(r)' PROVE OwnRow(r)'
    <2>1. CASE CreateRow(r)
      <3>1. PICK u \in Users, c \in Connections : IsTarget(r, u, c)
        BY <2>1, LocalsAre DEF CreateRow, At, StateFits, IsTarget
      <3> QED BY <2>1, <3>1, CreatedHistory DEF OwnRow, IsTarget
    <2>2. CASE Continues(r)
      <3>1. PICK u \in Users, c \in Connections, id \in RunIds :
              run[r].user = u /\ run[r].on = c /\ run[r].id = id
        BY <2>2, RunningHas DEF Continues
      <3>2. /\ Running(r) /\ run'[r].user = u /\ run'[r].on = c /\ run'[r].id = id
            /\ run'[r].op = run[r].op /\ OwnRow(r)
        BY <2>2, <3>1 DEF Continues, SameTarget, HistoryInv
      <3>3. row'[u][id].trigger = row[u][id].trigger
        <4>1. CASE row' = row BY <4>1
        <4>2. CASE Proceeds(r) \/ FinishRun(r) \/ FinishFailed(r)
          BY <3>1, <4>2, StatusSteps DEF OwnRowOnly
        <4>3. CASE Ends(r) /\ ~FinishRun(r) /\ ~FinishFailed(r)
          BY <4>1, <4>3 DEF Ends, RecordSuccess, RecordFailure, Pause, RecordingFails, Close
        <4>4. CASE Begins(r) \/ Outside(r) \/ ClearPause(r) \/ DeleteConnection(r) \/ CreateRow(r)
          BY <3>2, <4>4
          DEF Begins, Start, RequestDelete, Outside, ClearPause, DeleteConnection, CreateRow, At, Running
        <4> QED BY <4>2, <4>3, <4>4, StepsSorted
      <3>4. Syncs(u, c)' = Syncs(u, c)
        <4>1. ~DeleteConnection(r) /\ ~CreateRow(r) BY <3>2 DEF DeleteConnection, CreateRow, At, Running
        <4> QED BY <4>1, HistoryStep DEF HistorySame
      <3> QED BY <3>1, <3>2, <3>3, <3>4 DEF OwnRow, NewestIs
    <2> QED BY <1>4, <2>1, <2>2, InRow
  <1> QED BY <1>2, <1>3, <1>4 DEF HistoryInv, OwnRow

-----------------------------------------------------------------------------
(* Every step again: a runner's, or one that leaves the runs and what a connection shows alone. *)

Calm ==
  /\ \A r \in Runners : \A f \in {"op", "user", "on", "id", "at", "outcome"} : run'[r][f] = run[r][f]
  /\ row' = row
  /\ \A u \in Users, c \in Connections :
       /\ connection'[u][c] = None <=> connection[u][c] = None
       /\ connection[u][c] # None => /\ connection'[u][c].last = connection[u][c].last
                                     /\ connection'[u][c].paused = connection[u][c].paused

LEMMA SameIsCalm ==
  ASSUME UNCHANGED <<connection, row, run>>
  PROVE  Calm
  BY DEF Calm

LEMMA CalmSteps ==
  ASSUME RunInv, [Next]_vars
  PROVE  \/ \E r \in Runners : Acts(r) /\ scheduler' = scheduler
         \/ StartDue
         \/ Calm /\ scheduler' = scheduler
         \/ Calm /\ Ticks
         \/ Restart
  <1>1. ASSUME NEW id \in RunIds, Answers(id) PROVE Calm /\ scheduler' = scheduler
    <2>1. PICK a : Resolve(id, a) BY <1>1 DEF Answers
    <2>2. \A r \in Runners : \A f \in {"op", "user", "on", "id", "at", "outcome"} :
            run'[r][f] = run[r][f]
      BY <2>1 DEF Resolve, RunInv, TypeOK, RunState
    <2> QED BY <1>1, <2>2 DEF Calm, Answers
  <1>2. ASSUME NEW u \in Users, NEW c \in Connections, UpdateConnection(u, c)
        PROVE  Calm /\ scheduler' = scheduler
    <2>1. PICK i \in Identities :
            connection' = [connection EXCEPT ![u][c].identity = i, ![u][c].bankData = None]
      BY <1>2 DEF UpdateConnection
    <2> DEFINE x == [connection[u][c] EXCEPT !.identity = i, !.bankData = None]
    <2>2. connection[u][c] \in ConnectionRow BY <1>2 DEF UpdateConnection, RunInv, TypeOK
    <2>3. x \in ConnectionRow /\ x.last = connection[u][c].last /\ x.paused = connection[u][c].paused
      BY <2>2 DEF ConnectionRow
    <2>4. x # None BY <2>3, SyncAssumption DEF SyncConstants
    <2>5. connection' = [connection EXCEPT ![u][c] = x] BY <2>1 DEF RunInv, TypeOK
    <2> HIDE DEF x
    <2>6. /\ connection'[u][c] = x
          /\ \A v \in Users, d \in Connections :
               v # u \/ d # c => connection'[v][d] = connection[v][d]
      BY <2>5 DEF RunInv, TypeOK
    <2> QED BY <1>2, <2>3, <2>4, <2>6 DEF Calm, UpdateConnection
  <1>3. Ticks => Calm BY SameIsCalm DEF Ticks
  <1>4. Apart => Calm /\ scheduler' = scheduler BY SameIsCalm DEF Apart, syncVars
  <1> QED BY <1>1, <1>2, <1>3, <1>4, NextSorted

LEMMA CalmKeepsHistory ==
  ASSUME Calm
  PROVE  /\ \A u, c : HistorySame(u, c)
         /\ \A r \in Runners : Running(r)' <=> Running(r)
         /\ HistoryInv => HistoryInv'
  <1>1. \A u, c : HistorySame(u, c) BY RowsHistory DEF Calm
  <1>2. \A r \in Runners : Running(r)' <=> Running(r) BY DEF Calm, Running
  <1>3. ASSUME HistoryInv PROVE HistoryInv'
    <2>1. ASSUME NEW u \in Users, NEW c \in Connections, Syncs(u, c)' # {}
          PROVE  \E id \in RunIds : NewestIs(u, c, id)'
      <3>1. Syncs(u, c)' = Syncs(u, c) BY <1>1 DEF HistorySame
      <3>2. PICK id \in RunIds : NewestIs(u, c, id) BY <1>3, <2>1, <3>1 DEF HistoryInv
      <3> QED BY <3>1, <3>2 DEF NewestIs
    <2>2. ASSUME NEW r \in Runners, Running(r)' PROVE OwnRow(r)'
      <3> DEFINE u == run[r].user
                 c == run[r].on
                 id == run[r].id
      <3>1. PICK v, d, i : v = u /\ d = c /\ i = id OBVIOUS
      <3>2. run'[r].user = v /\ run'[r].on = d /\ run'[r].id = i /\ run'[r].op = run[r].op
        BY <3>1 DEF Calm
      <3>3. Syncs(v, d)' = Syncs(v, d) BY <1>1 DEF HistorySame
      <3>4. row[v][i].trigger = run[r].op /\ (run[r].op # "discover" => NewestIs(v, d, i))
        BY <1>2, <1>3, <2>2, <3>1 DEF HistoryInv, OwnRow
      <3> QED BY <3>2, <3>3, <3>4 DEF Calm, OwnRow, NewestIs
    <2> QED BY <2>1, <2>2 DEF HistoryInv, OwnRow
  <1> QED BY <1>1, <1>2, <1>3

LEMMA RestartKeepsRows ==
  ASSUME Restart
  PROVE  /\ \A r \in Runners : run'[r] = Idle /\ ~Running(r)'
         /\ \A u, c : HistorySame(u, c)
         /\ HistoryInv => HistoryInv'
  <1>1. \A r \in Runners : run'[r] = Idle /\ ~Running(r)' BY DEF Restart, Running, Idle
  <1>2. \A u, c : HistorySame(u, c) BY RowsHistory DEF Restart
  <1>3. HistoryInv => HistoryInv'
    <2>1. ASSUME HistoryInv, NEW u \in Users, NEW c \in Connections, Syncs(u, c)' # {}
          PROVE  \E id \in RunIds : NewestIs(u, c, id)'
      <3>1. Syncs(u, c)' = Syncs(u, c) BY <1>2 DEF HistorySame
      <3>2. PICK id \in RunIds : NewestIs(u, c, id) BY <2>1, <3>1 DEF HistoryInv
      <3> QED BY <3>1, <3>2 DEF NewestIs
    <2> QED BY <1>1, <2>1 DEF HistoryInv, OwnRow
  <1> QED BY <1>1, <1>2, <1>3

LEMMA StartDueMoves ==
  ASSUME RunInv, StartDue
  PROVE  /\ Scheduler \in Runners /\ Moves(Scheduler)
         /\ \E c \in Connections : Start(Scheduler, "scheduled", scheduler.user, c) /\ c \in scheduler.due
  <1>1. scheduler.user \in Users /\ scheduler.due \subseteq Connections
    BY DEF StartDue, RunInv, TickFits, TypeOK, SchedulerState
  <1> QED BY <1>1, SyncAssumption DEF StartDue, SyncConstants, Moves, Triggers

LEMMA InitHistory == Init => HistoryInv
  <1> SUFFICES ASSUME Init PROVE HistoryInv OBVIOUS
  <1>1. \A u \in Users, c \in Connections : Syncs(u, c) = {} BY DEF Init, Syncs
  <1>2. \A r \in Runners : ~Running(r) BY DEF Init, Running, Idle
  <1> QED BY <1>1, <1>2 DEF HistoryInv, OwnRow

LEMMA HistoryKept == Spec => []HistoryInv
  <1>1. RunInv /\ HistoryInv /\ [Next]_vars => HistoryInv'
    BY CalmSteps, RunnerHistory, StartDueMoves, CalmKeepsHistory, RestartKeepsRows DEF Acts
  <1> QED BY <1>1, InitHistory, RunsKept, PTL DEF Spec

-----------------------------------------------------------------------------
(* What a runner's step shows in a connection. *)

\* What a connection says of its syncs.
Shows(u, c, last, paused) ==
  /\ connection[u][c] # None /\ connection'[u][c] # None
  /\ connection'[u][c].last = last /\ connection'[u][c].paused = paused

LEMMA ConnectionStep ==
  ASSUME RunInv, HistoryInv, NEW r \in Runners, Moves(r), NEW u \in Users, NEW c \in Connections
  PROVE  LET last == connection[u][c].last
             paused == connection[u][c].paused
         IN \/ connection'[u][c] = connection[u][c]
            \/ /\ IsTarget(r, u, c)
               /\ \/ DeleteConnection(r) /\ connection'[u][c] = None
                  \/ ClearPause(r) /\ Shows(u, c, last, FALSE)
                  \/ Proceeds(r) /\ Shows(u, c, last, paused)
                  \/ RecordSuccess(r) /\ Shows(u, c, "success", paused)
                  \/ RecordFailure(r) /\ Shows(u, c, run[r].outcome, paused)
                  \/ Pause(r) /\ Shows(u, c, last, TRUE)
  <1>1. ASSUME NEW last, NEW paused, Writes(r, last, paused)
        PROVE  \/ connection'[u][c] = connection[u][c]
               \/ IsTarget(r, u, c) /\ Shows(u, c, last, paused)
    BY <1>1 DEF Writes, IsTarget, Shows
  <1>2. CASE ~IsTarget(r, u, c)
    <2>1. CASE ClearPause(r) \/ SaveBankingInformation(r) \/ RecordSuccess(r) \/ RecordFailure(r) \/ Pause(r)
      BY <1>2, <2>1, Writing DEF Writes, IsTarget
    <2>2. CASE DeleteConnection(r) BY <1>2, <2>2, DeletedHistory
    <2>3. connection' = connection \/ SaveBankingInformation(r) \/ ClearPause(r) \/ DeleteConnection(r)
            \/ RecordSuccess(r) \/ RecordFailure(r) \/ Pause(r)
      BY StepsSorted
      DEF Begins, Start, RequestDelete, Outside, CreateRow, Proceeds, Ends, FinishRun, FinishFailed,
          RecordingFails, Close
    <2> QED BY <2>1, <2>2, <2>3
  <1>3. CASE IsTarget(r, u, c)
    <2>1. CASE DeleteConnection(r) BY <2>1, DeletedHistory, <1>3
    <2>2. CASE ClearPause(r) BY <1>3, <2>2, Writing DEF Writes, IsTarget, Shows
    <2>3. CASE Proceeds(r) BY <1>3, <2>3, Writing DEF Writes, IsTarget, Shows, Proceeds
    <2>4. CASE RecordSuccess(r) BY <1>3, <2>4, Writing DEF Writes, IsTarget, Shows
    <2>5. CASE RecordFailure(r) BY <1>3, <2>5, Writing DEF Writes, IsTarget, Shows
    <2>6. CASE Pause(r) BY <1>3, <2>6, Writing DEF Writes, IsTarget, Shows
    <2>7. CASE Begins(r) \/ Outside(r) \/ CreateRow(r) \/ FinishRun(r) \/ FinishFailed(r)
                 \/ RecordingFails(r) \/ Close(r)
      BY <2>7
      DEF Begins, Start, RequestDelete, Outside, CreateRow, FinishRun, FinishFailed,
          RecordingFails, Close
    <2> QED BY <2>1, <2>2, <2>3, <2>4, <2>5, <2>6, <2>7, StepsSorted DEF Ends
  <1> QED BY <1>2, <1>3

-----------------------------------------------------------------------------
(* The end of a run, in its row. *)

\* Before the outcome is noted in the connection it is in the row.
EndFits(s, status) ==
  /\ s.at \in {"recording", "noting", "pausing"} => s.op # "discover"
  /\ s.at = "recording" => status = "success"
  /\ s.at = "noting" => status = s.outcome
  /\ s.at = "pausing" => status = "tan_expired" /\ s.op = "scheduled"

EndInv == \A r \in Runners : EndFits(run[r], row[run[r].user][run[r].id].status)

LEMMA EndsElsewhere ==
  ASSUME NEW s, NEW status, s.at \notin {"recording", "noting", "pausing"}
  PROVE  EndFits(s, status)
  BY DEF EndFits

LEMMA RunnerEnds ==
  ASSUME RunInv, EndInv, NEW r \in Runners, Moves(r)
  PROVE  EndInv'
  <1> DEFINE new == row'[run'[r].user][run'[r].id].status
             AtTheEnd == {"recording", "noting", "pausing"}
  <1>1. Moved(r) BY RunnerMoves
  <1>2. ASSUME NEW s \in Runners, s # r
        PROVE  EndFits(run'[s], row'[run'[s].user][run'[s].id].status)
    <2>1. run'[s] = run[s] BY <1>1, <1>2, OthersKeep
    <2>2. CASE run[s].at \in AtTheEnd
      <3>1. row'[run[s].user][run[s].id] = row[run[s].user][run[s].id]
        BY <1>1, <1>2, <2>2, OthersStatus DEF InProgress
      <3> QED BY <2>1, <3>1 DEF EndInv
    <2> QED BY <2>1, <2>2, EndsElsewhere
  <1>3. EndFits(run'[r], new)
    <2> DEFINE u == run[r].user
               id == run[r].id
    <2>a. EndFits(run[r], row[u][id].status) BY DEF EndInv
    <2>1. CASE run'[r].at \notin AtTheEnd BY <2>1, EndsElsewhere
    <2>2. CASE Begins(r)
      <3>1. run'[r].at \in {"key", "locking"}
        BY <2>2 DEF Begins, Start, RequestDelete, RunInv, TypeOK, Idle
      <3> QED BY <2>1, <3>1
    <2>3. CASE Outside(r) \/ CreateRow(r) \/ Proceeds(r)
      <3>1. Outside(r) \/ Proceeds(r) => run'[r].at \notin AtTheEnd
        BY DEF Outside, Running, Proceeds, Ordering
      <3>2. CreateRow(r) => run'[r].at = "order"
        BY LocalsAre DEF CreateRow, RunInv, TypeOK, RunState
      <3> QED BY <2>1, <2>3, <3>1, <3>2
    <2>4. CASE ClearPause(r) \/ DeleteConnection(r) \/ Close(r)
      BY <2>1, <2>4, GoneWith DEF ClearPause, DeleteConnection, Close
    <2>5. CASE FinishRun(r)
      <3>1. new = "success" /\ run'[r].op = run[r].op
        BY <2>5, GoneWith, WrittenStatus DEF FinishRun, At, InProgress, RunStatus
      <3>2. run'[r].at = IF run[r].op = "discover" THEN "closing" ELSE "recording"
        BY <2>5, GoneTo DEF FinishRun
      <3> QED BY <3>1, <3>2 DEF EndFits
    <2>6. CASE FinishFailed(r)
      <3>1. new = run[r].outcome /\ run'[r].op = run[r].op /\ run'[r].outcome = run[r].outcome
        <4>1. run[r].outcome \in RunStatus BY <2>6, LocalsAre DEF FinishFailed, At, StateFits, RunStatus
        <4> QED BY <2>6, <4>1, GoneTo, WrittenStatus DEF FinishFailed, At, InProgress
      <3>2. run'[r].at = IF run[r].op = "discover" THEN "closing" ELSE "noting"
        BY <2>6, GoneTo DEF FinishFailed
      <3> QED BY <3>1, <3>2 DEF EndFits
    <2>7. CASE RecordSuccess(r) \/ Pause(r) \/ RecordingFails(r)
      BY <2>1, <2>7, GoneTo DEF RecordSuccess, Pause, RecordingFails
    <2>8. CASE RecordFailure(r)
      <3>1. /\ new = row[u][id].status /\ run'[r].op = run[r].op
            /\ run'[r].at = IF run[r].outcome = "tan_expired" /\ run[r].op = "scheduled" THEN "pausing"
                            ELSE "closing"
        BY <2>8, GoneTo DEF RecordFailure
      <3> QED BY <2>8, <2>a, <3>1 DEF EndFits, RecordFailure, At
    <2> QED BY <2>2, <2>3, <2>4, <2>5, <2>6, <2>7, <2>8, StepsSorted DEF Ends
  <1> QED BY <1>2, <1>3 DEF EndInv

LEMMA EndsKept == Spec => []EndInv
  <1>1. Init => EndInv BY EndsElsewhere DEF Init, Idle, EndInv, EndFits
  <1>2. RunInv /\ EndInv /\ [Next]_vars => EndInv'
    <2> SUFFICES ASSUME RunInv, EndInv, [Next]_vars PROVE EndInv' OBVIOUS
    <2>1. CASE Calm BY <2>1 DEF Calm, EndInv, EndFits
    <2>2. CASE Restart BY <2>2, RestartKeepsRows DEF EndInv, EndFits, Idle
    <2> QED BY <2>1, <2>2, CalmSteps, RunnerEnds, StartDueMoves DEF Acts
  <1> QED BY <1>1, <1>2, RunsKept, PTL DEF Spec

-----------------------------------------------------------------------------
(* The outcome of a sync, in its connection. *)

\* A sync in progress whose outcome its connection does not show yet.
Noting(r) == Running(r) /\ run[r].op # "discover" /\ run[r].at \notin {"pausing", "closing"}

ShowsOutcome(u, c) ==
  /\ Syncs(u, c) = {} => connection[u][c].last = None
  /\ \A id \in RunIds : NewestIs(u, c, id) => connection[u][c].last = row[u][id].status

OutcomeInv ==
  \A u \in Users, c \in Connections :
    connection[u][c] # None /\ (\A r \in Runners : Noting(r) => ~IsTarget(r, u, c))
      => ShowsOutcome(u, c)

LEMMA StillShown ==
  ASSUME NEW u, NEW c, HistorySame(u, c), connection'[u][c].last = connection[u][c].last
  PROVE  ShowsOutcome(u, c) => ShowsOutcome(u, c)'
  BY DEF HistorySame, ShowsOutcome, NewestIs

\* There is one newest sync.
LEMMA OneNewest ==
  ASSUME NEW u, NEW c, NEW x, NEW y, NewestIs(u, c, x), NewestIs(u, c, y)
  PROVE  x = y
  <1>1. x \in RunIds /\ y \in RunIds /\ x <= y /\ y <= x BY DEF NewestIs, Syncs
  <1>2. x \in Nat /\ y \in Nat BY <1>1, IdsAreNumbers
  <1> QED BY <1>1, <1>2

LEMMA RunnerShowsOutcome ==
  ASSUME Faults = {}, RunInv, HistoryInv, EndInv, OutcomeInv, NEW r \in Runners, Moves(r)
  PROVE  OutcomeInv'
  <1> SUFFICES ASSUME NEW u \in Users, NEW c \in Connections, connection'[u][c] # None,
                      \A s \in Runners : Noting(s)' => ~IsTarget(s, u, c)'
               PROVE  ShowsOutcome(u, c)'
    BY DEF OutcomeInv
  <1>1. Moved(r) BY RunnerMoves
  <1>2. \A s \in Runners : s # r /\ Noting(s) => ~IsTarget(s, u, c)
    <2>1. \A s \in Runners : s # r => run'[s] = run[s] BY <1>1, OthersKeep
    <2> QED BY <2>1 DEF Noting, Running, IsTarget
  <1>3. ASSUME Noting(r) => ~IsTarget(r, u, c), connection[u][c] # None
        PROVE  ShowsOutcome(u, c)
    BY <1>2, <1>3 DEF OutcomeInv
  <1>4. ASSUME HistorySame(u, c), Noting(r) => ~IsTarget(r, u, c), connection[u][c] # None,
               connection'[u][c].last = connection[u][c].last
        PROVE  ShowsOutcome(u, c)'
    BY <1>3, <1>4, StillShown
  <1>5. CASE ~IsTarget(r, u, c)
    <2>1. HistorySame(u, c) BY <1>5, HistoryStep DEF DeleteConnection
    <2>2. connection'[u][c] = connection[u][c] BY <1>5, ConnectionStep
    <2> QED BY <1>4, <1>5, <2>1, <2>2
  <1>6. CASE IsTarget(r, u, c)
    <2>a. ~Noting(r)' \/ ~IsTarget(r, u, c)' OBVIOUS
    <2>b. SameTarget(r) => /\ IsTarget(r, u, c)' /\ run'[r].op = run[r].op
      BY <1>6 DEF SameTarget, IsTarget
    <2>1. CASE Begins(r) \/ Outside(r) \/ ClearPause(r)
      <3>1. row' = row BY <2>1 DEF Begins, Start, RequestDelete, Outside, ClearPause
      <3>2. ~Noting(r) BY <2>1 DEF Begins, Start, RequestDelete, Outside, ClearPause, At, Noting, Running
      <3>3. connection[u][c] # None /\ connection'[u][c].last = connection[u][c].last
        BY <2>1, ConnectionStep
        DEF Begins, Start, RequestDelete, Outside, Shows, Running, At,
            ClearPause, DeleteConnection, Proceeds, Continues, RecordSuccess, RecordFailure, Pause
      <3> QED BY <1>4, <3>1, <3>2, <3>3, RowsHistory
    <2>2. CASE CreateRow(r)
      <3>1. /\ run'[r].at = "order"
            /\ \A f \in {"op", "user", "on"} : run'[r][f] = run[r][f]
            /\ ~IsTarget(r, u, c) \/ run[r].op = "discover" => HistorySame(u, c)
        BY <2>2, CreatedHistory
      <3>2. run[r].op = "discover" BY <1>6, <2>a, <3>1 DEF Noting, Running, IsTarget
      <3>3. ~Noting(r) /\ connection'[u][c] = connection[u][c]
        BY <2>2 DEF CreateRow, Noting, Running, At
      <3> QED BY <1>4, <3>1, <3>2, <3>3
    <2>3. CASE DeleteConnection(r)
      <3>1. HistorySame(u, c) /\ connection'[u][c] = connection[u][c]
        BY <2>3, DeletedHistory
      <3>2. ~Noting(r) BY <2>3 DEF DeleteConnection, At, Noting, Running
      <3> QED BY <1>4, <3>1, <3>2
    <2>4. CASE Proceeds(r)
      <3>1. run'[r].at \notin {"pausing", "closing"} /\ Running(r)' /\ SameTarget(r) /\ Running(r)
        BY <2>4 DEF Proceeds, Ordering, Continues
      <3>2. run[r].op = "discover" BY <2>a, <2>b, <3>1 DEF Noting
      <3>3. ~Noting(r) BY <3>2 DEF Noting
      <3>4. HistorySame(u, c) BY <2>4, <3>2, StatusSteps, OwnRowHistory
      <3>5. connection[u][c] # None BY <1>6, <3>1, RunningHas DEF IsTarget
      <3>6. connection'[u][c].last = connection[u][c].last
        BY <1>6, <2>4, Writing DEF Proceeds, Writes, IsTarget
      <3> QED BY <1>4, <3>3, <3>4, <3>5, <3>6
    <2>5. CASE FinishRun(r) \/ FinishFailed(r)
      <3>1. Running(r) /\ SameTarget(r) /\ connection'[u][c] = connection[u][c]
        BY <2>5, GoneWith, StatusSteps DEF FinishRun, FinishFailed, SameTarget
      <3>2. run'[r].at = IF run[r].op = "discover" THEN "closing" ELSE run'[r].at
        BY <2>5, GoneWith DEF FinishRun, FinishFailed
      <3>3. run[r].op = "discover"
        <4>1. run[r].op # "discover" => run'[r].at \in {"recording", "noting"}
          BY <2>5, GoneTo DEF FinishRun, FinishFailed
        <4> QED BY <2>a, <2>b, <3>1, <4>1 DEF Noting, Running
      <3>4. HistorySame(u, c) BY <2>5, <3>3, StatusSteps, OwnRowHistory
      <3> QED BY <1>4, <3>1, <3>3, <3>4 DEF Noting
    <2>6. CASE RecordSuccess(r) \/ RecordFailure(r)
      <3>1. PICK id \in RunIds : id = run[r].id
        BY <2>6, RunningHas DEF RecordSuccess, RecordFailure, At, Running
      <3>2. Running(r) /\ run[r].op # "discover" /\ row' = row
        BY <2>6 DEF RecordSuccess, RecordFailure, At, Running, EndInv, EndFits
      <3>3. NewestIs(u, c, id) BY <1>6, <3>1, <3>2 DEF HistoryInv, OwnRow, IsTarget
      <3>4. connection'[u][c].last = row[u][id].status
        <4>1. EndFits(run[r], row[u][id].status) BY <1>6, <3>1 DEF EndInv, IsTarget
        <4>2. RecordSuccess(r) => connection'[u][c].last = "success"
          BY <1>6, Writing DEF Writes, IsTarget
        <4>3. RecordFailure(r) => connection'[u][c].last = run[r].outcome
          BY <1>6, Writing DEF Writes, IsTarget
        <4> QED BY <2>6, <4>1, <4>2, <4>3 DEF EndFits, RecordSuccess, RecordFailure, At
      <3>5. HistorySame(u, c) BY <3>2, RowsHistory
      <3>6. ASSUME NEW i \in RunIds, NewestIs(u, c, i)' PROVE connection'[u][c].last = row'[u][i].status
        <4>1. NewestIs(u, c, i) BY <3>5, <3>6 DEF HistorySame, NewestIs
        <4> QED BY <3>2, <3>3, <3>4, <4>1, OneNewest
      <3>7. Syncs(u, c)' # {} BY <3>3, <3>5 DEF NewestIs, HistorySame
      <3> QED BY <3>6, <3>7 DEF ShowsOutcome
    <2>7. CASE Pause(r) \/ Close(r)
      <3>1. row' = row /\ Running(r) BY <2>7 DEF Pause, Close, At, Running
      <3>2. ~Noting(r) BY <2>7 DEF Pause, Close, At, Noting
      <3>3. connection[u][c] # None BY <1>6, <3>1, RunningHas DEF IsTarget
      <3>4. connection'[u][c].last = connection[u][c].last
        BY <1>6, <2>7, Writing DEF Writes, IsTarget, Close
      <3> QED BY <1>4, <3>1, <3>2, <3>3, <3>4, RowsHistory
    <2>8. CASE RecordingFails(r) BY <2>8 DEF RecordingFails
    <2> QED BY <2>1, <2>2, <2>3, <2>4, <2>5, <2>6, <2>7, <2>8, StepsSorted DEF Ends
  <1> QED BY <1>5, <1>6

LEMMA OutcomesKept ==
  ASSUME Faults = {}
  PROVE  Spec => []OutcomeInv
  <1>1. Init => OutcomeInv
    <2> SUFFICES ASSUME Init, NEW u \in Users, NEW c \in Connections PROVE ShowsOutcome(u, c)
      BY DEF OutcomeInv
    <2>1. Syncs(u, c) = {} BY DEF Init, Syncs
    <2>2. connection[u][c].last = None BY DEF Init, NewConnection
    <2> QED BY <2>1, <2>2 DEF ShowsOutcome, NewestIs
  <1>2. RunInv /\ HistoryInv /\ EndInv /\ OutcomeInv /\ [Next]_vars => OutcomeInv'
    <2> SUFFICES ASSUME RunInv, HistoryInv, EndInv, OutcomeInv, [Next]_vars PROVE OutcomeInv' OBVIOUS
    <2>1. CASE Calm
      <3> SUFFICES ASSUME NEW u \in Users, NEW c \in Connections, connection'[u][c] # None,
                          \A s \in Runners : Noting(s)' => ~IsTarget(s, u, c)'
                   PROVE  ShowsOutcome(u, c)'
        BY DEF OutcomeInv
      <3>1. \A s \in Runners : Noting(s) => ~IsTarget(s, u, c)
        BY <2>1, CalmKeepsHistory DEF Noting, IsTarget, Calm
      <3>2. connection[u][c] # None /\ connection'[u][c].last = connection[u][c].last
        BY <2>1 DEF Calm
      <3> QED BY <2>1, <3>1, <3>2, CalmKeepsHistory, StillShown DEF OutcomeInv
    <2>2. ~Restart BY DEF Restart
    <2> QED BY <2>1, <2>2, CalmSteps, RunnerShowsOutcome, StartDueMoves DEF Acts
  <1> QED BY <1>1, <1>2, RunsKept, HistoryKept, EndsKept, PTL DEF Spec

\* A connection shows the outcome of its newest sync (sync-service.ts, bank-connection.ts and
\* sync-run.ts write it in two tables, in two statements): whenever no run or delete is on the
\* connection, its last outcome is the status of the row of its newest sync, and it has none before
\* its first one.  For any users, runners and connections, as long as the process goes on and
\* recording a failure does not fail itself.
THEOREM OutcomesShown ==
  ASSUME Faults = {}
  PROVE  Spec => []OutcomeShown
  <1>1. RunInv /\ HistoryInv /\ OutcomeInv => OutcomeShown
    <2> SUFFICES ASSUME RunInv, HistoryInv, OutcomeInv, NEW u \in Users, NEW c \in Connections,
                        lock[u][c] = None, connection[u][c] # None
                 PROVE  connection[u][c].last =
                          IF Syncs(u, c) = {} THEN None ELSE row[u][Newest(Syncs(u, c))].status
      BY DEF OutcomeShown
    <2>1. \A r \in Runners : Noting(r) => ~IsTarget(r, u, c)
      BY RunningHas, SyncAssumption DEF Noting, IsTarget, SyncConstants
    <2>2. ShowsOutcome(u, c) BY <2>1 DEF OutcomeInv
    <2>3. ASSUME Syncs(u, c) # {} PROVE NewestIs(u, c, Newest(Syncs(u, c)))
      <3>1. PICK id \in RunIds : NewestIs(u, c, id) BY <2>3 DEF HistoryInv
      <3> QED BY <3>1 DEF NewestIs, Newest
    <2> QED BY <2>2, <2>3 DEF ShowsOutcome, NewestIs, Syncs
  <1> QED BY <1>1, RunsKept, HistoryKept, OutcomesKept, PTL

-----------------------------------------------------------------------------
(* Who may be on a paused connection. *)

Paused(u, c) == connection[u][c] # None /\ connection[u][c].paused

\* A scheduled run from its start to its pause; a manual one from clearing the pause to its end.
MayNotBePaused(r) ==
  \/ run[r].op = "scheduled" /\ run[r].at \notin Past \cup {"closing"}
  \/ run[r].op = "manual" /\ run[r].at \in {"creating"} \cup InProgress

\* The newest sync is a scheduled one whose TAN expired.
Expired(u, c) ==
  \E id \in RunIds : NewestIs(u, c, id) /\ row[u][id].trigger = "scheduled"
                                        /\ row[u][id].status = "tan_expired"

PausesFit ==
  /\ \A u \in Users, c \in Connections : Paused(u, c) => Expired(u, c)
  /\ \A r \in Runners, u \in Users, c \in Connections :
       MayNotBePaused(r) /\ IsTarget(r, u, c) => ~Paused(u, c)
  /\ \A r \in Runners : run[r].op = "scheduled" => r = Scheduler

\* What a tick has still to do is not paused, and it is not what it does now.
DueFits ==
  /\ run[Scheduler].at # "idle" =>
       /\ scheduler.at = "connections"
       /\ run[Scheduler].user = scheduler.user
       /\ run[Scheduler].on \notin scheduler.due
  /\ scheduler.at = "connections" => \A c \in scheduler.due : ~Paused(scheduler.user, c)

LEMMA NewlyPaused ==
  ASSUME RunInv, HistoryInv, NEW r \in Runners, Moves(r), NEW u \in Users, NEW c \in Connections,
         Paused(u, c)', ~Paused(u, c)
  PROVE  Pause(r) /\ IsTarget(r, u, c)
  BY ConnectionStep DEF Paused, Shows

\* The pausing run is a scheduled one and holds the connection's lock.
LEMMA PausingRun ==
  ASSUME RunInv, HistoryInv, EndInv, NEW r \in Runners, Pause(r)
  PROVE  /\ Running(r) /\ run[r].op = "scheduled" /\ lock[run[r].user][run[r].on] = r
         /\ row' = row /\ run'[r].at = "closing"
         /\ \A u \in Users, c \in Connections : IsTarget(r, u, c) => Expired(u, c)'
  <1>1. Running(r) /\ row' = row /\ run[r].at = "pausing" BY DEF Pause, At, Running
  <1>2. run[r].op = "scheduled" /\ row[run[r].user][run[r].id].status = "tan_expired"
    BY <1>1 DEF EndInv, EndFits
  <1>3. run'[r].at = "closing" BY GoneWith DEF Pause
  <1>4. ASSUME NEW u \in Users, NEW c \in Connections, IsTarget(r, u, c) PROVE Expired(u, c)'
    <2>1. PICK id \in RunIds : id = run[r].id BY <1>1, RunningHas
    <2>2. NewestIs(u, c, id) /\ row[u][id].trigger = "scheduled" /\ row[u][id].status = "tan_expired"
      BY <1>1, <1>2, <1>4, <2>1 DEF HistoryInv, OwnRow, IsTarget
    <2>3. NewestIs(u, c, id)' BY <1>1, <2>2, RowsHistory DEF HistorySame, NewestIs
    <2> QED BY <1>1, <2>2, <2>3 DEF Expired
  <1> QED BY <1>1, <1>2, <1>3, <1>4, RunningHas

LEMMA StillExpired ==
  ASSUME NEW u, NEW c, HistorySame(u, c), Expired(u, c)
  PROVE  Expired(u, c)'
  <1>1. PICK id \in RunIds : NewestIs(u, c, id) /\ row[u][id].trigger = "scheduled"
                                                /\ row[u][id].status = "tan_expired"
    BY DEF Expired
  <1>2. NewestIs(u, c, id)' BY <1>1 DEF HistorySame, NewestIs
  <1> QED BY <1>1, <1>2 DEF HistorySame, NewestIs, Expired

\* A scheduled run is the scheduler's, on a connection that is not paused.
StartsFit(r) ==
  \A op \in Triggers, u \in Users, c \in Connections :
    Start(r, op, u, c) /\ op = "scheduled" => r = Scheduler /\ ~Paused(u, c)

LEMMA BeginsAt ==
  ASSUME RunInv, NEW r \in Runners, Begins(r)
  PROVE  run'[r].at \in {"key", "locking"}
  <1>1. CASE RequestDelete(r) BY <1>1 DEF RequestDelete, RunInv, TypeOK, Idle
  <1>2. ASSUME NEW op \in Triggers, NEW u \in Users, NEW c \in Connections, Start(r, op, u, c)
        PROVE  run'[r].at = "key"
    BY <1>2 DEF Start, RunInv, TypeOK, Idle
  <1> QED BY <1>1, <1>2 DEF Begins

LEMMA RunnerPauses ==
  ASSUME RunInv, HistoryInv, EndInv, PausesFit, NEW r \in Runners, Moves(r), StartsFit(r)
  PROVE  PausesFit'
  <1>1. Moved(r) /\ \A s \in Runners : s # r => run'[s] = run[s] BY RunnerMoves, OthersKeep
  <1>b. ASSUME Begins(r), NEW u \in Users, NEW c \in Connections, IsTarget(r, u, c)',
               run'[r].op = "scheduled"
        PROVE  r = Scheduler /\ ~Paused(u, c) /\ connection' = connection
    <2>1. CASE RequestDelete(r)
      <3>1. run'[r].op = "delete" BY <2>1 DEF RequestDelete, Idle, RunInv, TypeOK
      <3> QED BY <1>b, <3>1
    <2>2. ASSUME NEW op \in Triggers, NEW v \in Users, NEW d \in Connections, Start(r, op, v, d)
          PROVE  r = Scheduler /\ ~Paused(u, c) /\ connection' = connection
      <3>1. run'[r].op = op /\ run'[r].user = v /\ run'[r].on = d
        BY <2>2 DEF Start, Idle, RunInv, TypeOK
      <3>2. op = "scheduled" /\ u = v /\ c = d BY <1>b, <3>1 DEF IsTarget
      <3> QED BY <2>2, <3>2 DEF StartsFit, Start
    <2> QED BY <1>b, <2>1, <2>2 DEF Begins
  <1>2. ASSUME NEW u \in Users, NEW c \in Connections, Paused(u, c)' PROVE Expired(u, c)'
    <2>1. CASE Pause(r) /\ IsTarget(r, u, c) BY <2>1, PausingRun
    <2>2. CASE Paused(u, c)
      <3>1. CASE HistorySame(u, c) BY <2>2, <3>1, StillExpired DEF PausesFit
      <3>2. connection'[u][c] # None BY <1>2 DEF Paused
      <3>3. ~(CreateRow(r) /\ IsTarget(r, u, c) /\ run[r].op # "discover")
        <4>1. CreateRow(r) => run[r].op \in Triggers /\ run[r].at = "creating"
          BY LocalsAre DEF CreateRow, At, StateFits
        <4> QED BY <2>2, <4>1 DEF PausesFit, MayNotBePaused, Past, Triggers
      <3>4. ~(/\ Proceeds(r) \/ FinishRun(r) \/ FinishFailed(r)
              /\ IsTarget(r, u, c) /\ run[r].op # "discover")
        <4>1. Proceeds(r) \/ FinishRun(r) \/ FinishFailed(r) =>
                Running(r) /\ run[r].at # "closing" /\ run[r].op \in Triggers
          BY StatusSteps, RunningHas DEF Proceeds, FinishRun, FinishFailed, At
        <4> QED BY <2>2, <4>1 DEF PausesFit, MayNotBePaused, Past, Triggers, Running, InProgress, Ordering
      <3> QED BY <3>1, <3>2, <3>3, <3>4, HistoryStep
    <2> QED BY <1>2, <2>1, <2>2, NewlyPaused
  <1>3. ASSUME NEW s \in Runners, NEW u \in Users, NEW c \in Connections,
               MayNotBePaused(s)', IsTarget(s, u, c)', Paused(u, c)'
        PROVE  FALSE
    <2>1. CASE s # r
      <3>1. MayNotBePaused(s) /\ IsTarget(s, u, c) BY <1>1, <1>3, <2>1 DEF MayNotBePaused, IsTarget
      <3>2. Pause(r) /\ IsTarget(r, u, c) BY <1>3, <3>1, NewlyPaused DEF PausesFit
      <3>3. lock[u][c] = r /\ run[r].op = "scheduled" BY <3>2, PausingRun DEF IsTarget
      <3>4. run[s].op # "scheduled" BY <2>1, <3>3 DEF PausesFit
      <3>5. lock[u][c] = s
        BY <3>1, <3>4, LocalsAre DEF MayNotBePaused, IsTarget, RowsFit, Holding
      <3> QED BY <2>1, <3>3, <3>5
    <2>2. CASE s = r
      <3>1. CASE Begins(r)
        <4>1. run'[r].op # "scheduled" BY <1>3, <1>b, <2>2, <3>1 DEF Paused
        <4>2. run'[r].at \in {"key", "locking"} BY <3>1, BeginsAt
        <4> QED BY <1>3, <2>2, <4>1, <4>2 DEF MayNotBePaused, InProgress, Ordering
      <3>2. CASE ~Begins(r)
        <4>1. run'[r] # Idle BY <1>3, <2>2 DEF MayNotBePaused, Idle
        <4>2. SameTarget(r) BY <3>2, <4>1, StepTarget
        <4>3. IsTarget(r, u, c) /\ run'[r].op = run[r].op BY <1>3, <2>2, <4>2 DEF SameTarget, IsTarget
        <4>4. ~ClearPause(r)
          BY <1>3, <4>3, Writing DEF Writes, IsTarget, Paused
        <4>5. Paused(u, c)
          <5>1. Pause(r) => ~MayNotBePaused(r)'
            BY PausingRun, <4>3 DEF MayNotBePaused
          <5> QED BY <1>3, <2>2, <5>1, NewlyPaused
        <4>6. ~MayNotBePaused(r) BY <4>3, <4>5 DEF PausesFit
        <4>7. CASE run[r].op = "scheduled"
          <5>1. run[r].at \in Past \cup {"closing"} /\ run'[r].at \notin Past \cup {"closing"}
            BY <1>3, <2>2, <4>3, <4>6, <4>7 DEF MayNotBePaused
          <5> QED
            BY <3>2, <5>1, <4>4, StepsSorted, GoneWith
            DEF Past, Outside, CreateRow, DeleteConnection, Proceeds, Continues, Ends, FinishRun,
                RecordSuccess, FinishFailed, RecordFailure, Pause, RecordingFails, Close, At, Running
        <4>8. CASE run[r].op = "manual"
          <5>1. /\ run[r].at \notin {"creating"} \cup InProgress
                /\ run'[r].at \in {"creating"} \cup InProgress
            BY <1>3, <2>2, <4>3, <4>6, <4>8 DEF MayNotBePaused
          <5>2. ~Running(r) /\ ~CreateRow(r)
            BY <5>1 DEF Running, InProgress, Ordering, CreateRow, At
          <5>3. run'[r].at = "creating"
            BY <5>1, <5>2, InRow DEF Continues, Running, InProgress, Ordering
          <5>4. ~Proceeds(r) /\ ~Ends(r)
            BY <5>2
            DEF Proceeds, Continues, Ends, FinishRun, RecordSuccess, FinishFailed, RecordFailure,
                Pause, RecordingFails, Close, Running, At
          <5>5. ~DeleteConnection(r) BY <5>3, GoneWith DEF DeleteConnection
          <5> QED BY <3>2, <4>4, <4>8, <5>2, <5>3, <5>4, <5>5, StepsSorted DEF Outside
        <4> QED BY <1>3, <2>2, <4>3, <4>7, <4>8 DEF MayNotBePaused
      <3> QED BY <3>1, <3>2
    <2> QED BY <2>1, <2>2
  <1>4. ASSUME NEW s \in Runners, run'[s].op = "scheduled" PROVE s = Scheduler
    <2>1. CASE s # r BY <1>1, <1>4, <2>1 DEF PausesFit
    <2>2. CASE s = r /\ Begins(r)
      <3>1. Moved(r) /\ run'[r].at # "idle"
        BY <1>1, <2>2 DEF Begins, Start, RequestDelete, RunInv, TypeOK, Idle
      <3>2. run'[r].user \in Users /\ run'[r].on \in Connections
        BY <3>1 DEF Moved, Settled, StateFits
      <3>3. PICK u \in Users, c \in Connections : IsTarget(r, u, c)' BY <3>2 DEF IsTarget
      <3> QED BY <1>4, <1>b, <2>2, <3>3
    <2>3. CASE s = r /\ ~Begins(r)
      BY <1>4, <2>3, StepTarget DEF SameTarget, Idle, PausesFit
    <2> QED BY <2>1, <2>2, <2>3
  <1> QED BY <1>2, <1>3, <1>4 DEF PausesFit

LEMMA RequestsDue ==
  ASSUME RunInv, HistoryInv, EndInv, PausesFit, DueFits, NEW r \in Runners, Acts(r),
         scheduler' = scheduler
  PROVE  StartsFit(r) /\ DueFits'
  <1>1. Moved(r) /\ \A s \in Runners : s # r => run'[s] = run[s] BY RunnerMoves, OthersKeep DEF Acts
  <1>2. Begins(r) /\ (RunStep(r) \/ RecordingFails(r)) => FALSE
    <2>1. Begins(r) => run[r].at = "idle" BY DEF Begins, Start, RequestDelete, At
    <2>2. RunStep(r) \/ RecordingFails(r) => run[r].at # "idle"
      BY DEF RunStep, RecordingFails, BeginStep, GetKey, TakeLock, LockFails, ReadConnection,
          ClearPause, CreateRow, BeginFails, OrderStep, BankAsks, MarkWaiting, TakeAnswer, Resume,
          Settle, ShowSettled, SaveBankingInformation, EndStep, FinishRun, RecordSuccess, RunFails,
          FinishFailed, RecordFailure, Pause, Close, Unlock, Leave, DeleteConnection, At
    <2> QED BY <2>1, <2>2
  <1>3. StartsFit(r)
    <2> SUFFICES ASSUME NEW op \in Triggers, NEW u \in Users, NEW c \in Connections,
                        Start(r, op, u, c), op = "scheduled"
                 PROVE  FALSE
      BY DEF StartsFit
    <2>1. Begins(r) BY DEF Begins
    <2>2. run'[r].op = "scheduled" BY DEF Start, Idle, RunInv, TypeOK
    <2>3. CASE RequestRun(r)
      <3>1. PICK x \in {"manual", "discover"}, v \in Users, d \in Connections : Start(r, x, v, d)
        BY <2>3 DEF RequestRun
      <3>2. run'[r].op = x BY <3>1 DEF Start, Idle, RunInv, TypeOK
      <3> QED BY <2>2, <3>1, <3>2
    <2>4. CASE RequestDelete(r)
      <3>1. run'[r].op = "delete" BY <2>4 DEF RequestDelete, Idle, RunInv, TypeOK
      <3> QED BY <2>2, <3>1
    <2> QED BY <1>2, <2>1, <2>3, <2>4 DEF Acts
  <1>4. ASSUME run'[Scheduler].at # "idle"
        PROVE  /\ scheduler.at = "connections" /\ run'[Scheduler].user = scheduler.user
               /\ run'[Scheduler].on \notin scheduler.due
    <2>1. CASE Scheduler # r
      <3>1. Scheduler \in Runners BY SyncAssumption DEF SyncConstants
      <3> QED BY <1>1, <1>4, <2>1, <3>1 DEF DueFits
    <2>2. CASE Scheduler = r
      <3>1. ~Begins(r) BY <1>2, <2>2 DEF Acts, RequestRun, RequestDelete
      <3>2. run[r].at # "idle"
        BY <3>1, StepsSorted
        DEF Outside, ClearPause, CreateRow, DeleteConnection, Proceeds, Continues, Running, Ends,
            FinishRun, RecordSuccess, FinishFailed, RecordFailure, Pause, RecordingFails, Close, At, Acts
      <3>3. SameTarget(r) BY <1>4, <2>2, <3>1, StepTarget DEF Idle, Acts
      <3> QED BY <2>2, <3>2, <3>3 DEF DueFits, SameTarget
    <2> QED BY <2>1, <2>2
  <1>5. ASSUME scheduler.at = "connections", NEW c \in scheduler.due, Paused(scheduler.user, c)'
        PROVE  FALSE
    <2>1. PICK u \in Users, d \in Connections : u = scheduler.user /\ d = c
      BY <1>5 DEF RunInv, TickFits, TypeOK, SchedulerState
    <2>2. Paused(u, d)'
      BY <1>5, <2>1 DEF Paused
    <2>3. ~Paused(u, d) BY <1>5, <2>1 DEF DueFits
    <2>4. Pause(r) /\ IsTarget(r, u, d) BY <2>2, <2>3, NewlyPaused DEF Acts
    <2>5. run[r].op = "scheduled" /\ Running(r) BY <2>4, PausingRun
    <2>6. r = Scheduler /\ run[r].at # "idle" BY <2>5 DEF PausesFit, Running
    <2> QED BY <1>5, <2>1, <2>4, <2>6 DEF DueFits, IsTarget
  <1>6. \A c : scheduler.at = "connections" /\ c \in scheduler.due => ~Paused(scheduler.user, c)'
    BY <1>5
  <1> QED BY <1>3, <1>4, <1>6 DEF DueFits, Paused

LEMMA ScheduledDue ==
  ASSUME RunInv, PausesFit, DueFits, StartDue
  PROVE  StartsFit(Scheduler) /\ DueFits'
  <1>1. PICK c \in scheduler.due : /\ Start(Scheduler, "scheduled", scheduler.user, c)
                                   /\ scheduler' = [scheduler EXCEPT !.due = @ \ {c}]
    BY DEF StartDue
  <1>2. scheduler.at = "connections" /\ scheduler \in SchedulerState /\ Scheduler \in Runners
    BY SyncAssumption DEF StartDue, RunInv, TypeOK, SyncConstants
  <1>3. /\ scheduler'.at = "connections" /\ scheduler'.user = scheduler.user
        /\ scheduler'.due = scheduler.due \ {c}
    BY <1>1, <1>2 DEF SchedulerState
  <1>4. run'[Scheduler].user = scheduler.user /\ run'[Scheduler].on = c
    BY <1>1, <1>2 DEF Start, RunInv, TypeOK, Idle
  <1>5. connection' = connection BY <1>1 DEF Start
  <1>6. DueFits' BY <1>2, <1>3, <1>4, <1>5 DEF DueFits, Paused
  <1>7. StartsFit(Scheduler)
    <2> SUFFICES ASSUME NEW op \in Triggers, NEW u \in Users, NEW d \in Connections,
                        Start(Scheduler, op, u, d), op = "scheduled"
                 PROVE  ~Paused(u, d)
      BY DEF StartsFit
    <2>1. run'[Scheduler].user = u /\ run'[Scheduler].on = d
      BY <1>2 DEF Start, RunInv, TypeOK, Idle
    <2> QED BY <1>2, <1>4, <2>1 DEF DueFits
  <1> QED BY <1>6, <1>7

LEMMA CalmPauses ==
  ASSUME RunInv, PausesFit, DueFits, Calm, scheduler' = scheduler \/ Ticks
  PROVE  PausesFit' /\ DueFits'
  <1>1. \A u \in Users, c \in Connections : Paused(u, c)' <=> Paused(u, c) BY DEF Calm, Paused
  <1>2. \A u, c : HistorySame(u, c) BY CalmKeepsHistory
  <1>3. PausesFit'
    <2>1. \A u \in Users, c \in Connections : Paused(u, c)' => Expired(u, c)'
      BY <1>1, <1>2, StillExpired DEF PausesFit
    <2>2. \A r \in Runners : MayNotBePaused(r)' <=> MayNotBePaused(r) BY DEF Calm, MayNotBePaused
    <2>3. \A r \in Runners : \A u, c : IsTarget(r, u, c)' <=> IsTarget(r, u, c) BY DEF Calm, IsTarget
    <2>4. \A r \in Runners : run'[r].op = run[r].op BY DEF Calm
    <2> QED BY <1>1, <2>1, <2>2, <2>3, <2>4 DEF PausesFit
  <1>4. Scheduler \in Runners /\ scheduler \in SchedulerState
    BY SyncAssumption DEF SyncConstants, RunInv, TypeOK
  <1>5. /\ run'[Scheduler].at = run[Scheduler].at /\ run'[Scheduler].user = run[Scheduler].user
        /\ run'[Scheduler].on = run[Scheduler].on
    BY <1>4 DEF Calm
  <1>6. CASE scheduler' = scheduler \/ Stop
    <2>1. /\ scheduler'.at = scheduler.at /\ scheduler'.user = scheduler.user
          /\ scheduler'.due = scheduler.due
      BY <1>4, <1>6 DEF Stop, SchedulerState
    <2>2. \A c : scheduler.at = "connections" /\ c \in scheduler.due =>
            scheduler.user \in Users /\ c \in Connections
      BY <1>4 DEF RunInv, TickFits, SchedulerState
    <2>3. \A c : scheduler.at = "connections" /\ c \in scheduler.due =>
            ~connection'[scheduler.user][c].paused \/ connection'[scheduler.user][c] = None
      BY <1>1, <2>2 DEF DueFits, Paused
    <2>4. run'[Scheduler].at # "idle" =>
            /\ scheduler.at = "connections" /\ run'[Scheduler].user = scheduler.user
            /\ run'[Scheduler].on \notin scheduler.due
      BY <1>5 DEF DueFits
    <2> QED BY <1>3, <2>1, <2>3, <2>4 DEF DueFits, Paused
  <1>7. ASSUME Ticks, ~Stop PROVE DueFits'
    <2>a. connection' = connection /\ run' = run BY <1>7 DEF Ticks
    <2>1. CASE Tick \/ SkipUser \/ UserDone \/ TickDone
      <3>1. run[Scheduler].at = "idle"
        BY <2>1 DEF DueFits, Tick, SkipUser, UserDone, TickDone, At
      <3>2. scheduler'.at # "connections"
        BY <1>4, <2>1 DEF Tick, SkipUser, UserDone, TickDone, SchedulerState
      <3> QED BY <1>5, <3>1, <3>2 DEF DueFits
    <2>2. CASE ListDue
      <3>1. run[Scheduler].at = "idle" BY <2>2 DEF DueFits, ListDue
      <3>a. PICK u \in scheduler.todo : \E due \in SUBSET MayBeDue(u) :
              scheduler' = [scheduler EXCEPT !.at = "connections", !.todo = @ \ {u},
                                             !.user = u, !.due = due]
        BY <2>2 DEF ListDue
      <3>2. PICK due \in SUBSET MayBeDue(u) :
              scheduler' = [scheduler EXCEPT !.at = "connections", !.todo = @ \ {u},
                                             !.user = u, !.due = due]
        BY <3>a
      <3>3. scheduler'.user = u /\ scheduler'.due = due BY <1>4, <3>2 DEF SchedulerState
      <3>4. \A c \in due : ~Paused(u, c) BY DEF MayBeDue, Paused
      <3> QED BY <1>5, <2>a, <3>1, <3>3, <3>4 DEF DueFits, Paused
    <2>3. CASE SkipBusy
      <3>1. PICK c \in scheduler.due : scheduler' = [scheduler EXCEPT !.due = @ \ {c}]
        BY <2>3 DEF SkipBusy
      <3>2. /\ scheduler'.at = scheduler.at /\ scheduler'.user = scheduler.user
            /\ scheduler'.due \subseteq scheduler.due
        BY <1>4, <3>1 DEF SchedulerState
      <3> QED BY <1>5, <2>a, <3>2 DEF DueFits, Paused
    <2> QED BY <1>7, <2>1, <2>2, <2>3 DEF Ticks
  <1> QED BY <1>3, <1>6, <1>7

LEMMA PausesKept == Spec => [](PausesFit /\ DueFits)
  <1>1. Init => PausesFit /\ DueFits
    <2> SUFFICES ASSUME Init PROVE PausesFit /\ DueFits OBVIOUS
    <2>1. \A u \in Users, c \in Connections : ~Paused(u, c) BY DEF Init, NewConnection, Paused
    <2>2. \A r \in Runners : run[r] = Idle BY DEF Init
    <2>3. Scheduler \in Runners BY SyncAssumption DEF SyncConstants
    <2> QED BY <2>1, <2>2, <2>3 DEF PausesFit, DueFits, MayNotBePaused, Idle, Init, Resting
  <1>2. RunInv /\ HistoryInv /\ EndInv /\ PausesFit /\ DueFits /\ [Next]_vars => PausesFit' /\ DueFits'
    <2> SUFFICES ASSUME RunInv, HistoryInv, EndInv, PausesFit, DueFits, [Next]_vars
                 PROVE  PausesFit' /\ DueFits'
      OBVIOUS
    <2>1. ASSUME NEW r \in Runners, Acts(r), scheduler' = scheduler PROVE PausesFit' /\ DueFits'
      BY <2>1, RequestsDue, RunnerPauses DEF Acts
    <2>2. CASE StartDue BY <2>2, ScheduledDue, RunnerPauses, StartDueMoves
    <2>3. CASE Restart
      <3>1. Scheduler \in Runners BY SyncAssumption DEF SyncConstants
      <3>2. \A u \in Users, c \in Connections : Paused(u, c)' => Expired(u, c)'
        BY <2>3, RestartKeepsRows, StillExpired DEF Restart, Paused, PausesFit
      <3>3. PausesFit' BY <2>3, <3>2, RestartKeepsRows DEF PausesFit, MayNotBePaused, Idle
      <3>4. run'[Scheduler].at = "idle" /\ scheduler'.at = "idle"
        BY <2>3, <3>1, RestartKeepsRows DEF Restart, Resting, Idle
      <3>5. DueFits' BY <3>4 DEF DueFits
      <3> QED BY <3>3, <3>5
    <2> QED BY <2>1, <2>2, <2>3, CalmSteps, CalmPauses
  <1> QED BY <1>1, <1>2, RunsKept, HistoryKept, EndsKept, PTL DEF Spec

\* A pause means what it says (sync-service.ts: recordFailures pauses, begin clears the pause
\* before the row of a manual run exists, the scheduler passes over paused connections): a paused
\* connection's newest sync is a scheduled one whose TAN expired, under every fault and for any
\* users, runners, connections and bounds.
THEOREM PausesExplained == Spec => []PauseFits
  <1>1. PausesFit => PauseFits
    <2> SUFFICES ASSUME PausesFit, NEW u \in Users, NEW c \in Connections, Paused(u, c)
                 PROVE  LET newest == Newest(Syncs(u, c))
                        IN /\ Syncs(u, c) # {}
                           /\ row[u][newest].trigger = "scheduled"
                           /\ row[u][newest].status = "tan_expired"
      BY DEF PauseFits, Paused
    <2>1. PICK id \in RunIds : NewestIs(u, c, id) /\ row[u][id].trigger = "scheduled"
                                                  /\ row[u][id].status = "tan_expired"
      BY DEF PausesFit, Expired
    <2>2. NewestIs(u, c, Newest(Syncs(u, c))) BY <2>1 DEF NewestIs, Newest
    <2>3. Newest(Syncs(u, c)) = id BY <2>1, <2>2, OneNewest
    <2> QED BY <2>1, <2>3 DEF NewestIs
  <1> QED BY <1>1, PausesKept, PTL
=============================================================================
