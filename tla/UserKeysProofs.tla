--------------------------- MODULE UserKeysProofs ---------------------------
(***************************************************************************)
(* Theorems about UserKeys for any users, jobs, keys, connections and      *)
(* databases, in four layers of inductive invariants: types and the        *)
(* queue's front place (SlotInv) and what the registry's counter stands    *)
(* for (RegistryInv), under every fault, from which UserKeys implements    *)
(* ExclusiveAccess; which key is current (CurrentKeyInv), under every      *)
(* fault but a lost write; and which key the PINs are under (PinsInv),     *)
(* under every error the code handles.  The run UserKeysRestart shows that *)
(* the last assumption is needed.                                          *)
(***************************************************************************)
EXTENDS UserKeys, FiniteSetTheorems, SequenceTheorems, TLAPS

-----------------------------------------------------------------------------
(* Types, and the queue. *)

\* A job runs its key operation only as the oldest one of its user's queue.
InSlot(j) ==
  \/ job[j].op \in Shared \cup Operations /\ job[j].at \in {"read", "saved"}
  \/ job[j].op \in Rekeying /\ job[j].at \notin {"acquired", "queued"}

\* A change that checked the old key has a new one in hand.
NeedsNewKey(j) == job[j].op = "change" /\ job[j].at \in {"read", "reencrypted"}

SlotInv ==
  /\ \A j \in Jobs : InSlot(j) => AtHead(j)
  /\ \A j \in Jobs : NeedsNewKey(j) => job[j].key # None

\* What a job does, a restart aside.
JobStep(j) == Arrive(j) \/ Step(j) \/ LoseAnswer(j) \/ RestoreFails(j)

\* Every job has a user.
LEMMA OwnerIsUser == ASSUME NEW j \in Jobs PROVE Owner[j] \in Users
  BY KeyAssumption DEF KeyConstants

\* Where a job can be.
Places == {"idle", "acquired", "queued", "begun", "read", "resolved", "written", "running",
           "reencrypted", "keyWritten", "commitFailed", "failed", "rekeyed", "cleared",
           "deleted", "saved"}

\* An update of one field of a job's state with a value of the field's type is a job's state.
LEMMA FieldTyping ==
  ASSUME NEW s \in JobState
  PROVE  /\ \A a \in Places : [s EXCEPT !.at = a] \in JobState
         /\ \A a \in {"none", "save"} \cup Shared \cup Rekeying \cup Operations :
              [s EXCEPT !.op = a] \in JobState
         /\ \A a \in Databases \cup {None} : [s EXCEPT !.db = a] \in JobState
         /\ \A a \in KeyRecord \cup {NoRecord} : [s EXCEPT !.read = a] \in JobState
         /\ \A a \in Keys \cup {None} : [s EXCEPT !.key = a] \in JobState
         /\ \A a \in Keys \cup {None} : [s EXCEPT !.pin = a] \in JobState
         /\ \A a \in SUBSET Connections : [s EXCEPT !.rows = a] \in JobState
  <1>1. ASSUME NEW a \in Places PROVE [s EXCEPT !.at = a] \in JobState BY DEF JobState, Places
  <1>2. ASSUME NEW a \in {"none", "save"} \cup Shared \cup Rekeying \cup Operations
        PROVE  [s EXCEPT !.op = a] \in JobState
    BY DEF JobState
  <1>3. ASSUME NEW a \in Databases \cup {None} PROVE [s EXCEPT !.db = a] \in JobState
    BY DEF JobState
  <1>4. ASSUME NEW a \in KeyRecord \cup {NoRecord} PROVE [s EXCEPT !.read = a] \in JobState
    BY DEF JobState
  <1>5. ASSUME NEW a \in Keys \cup {None}
        PROVE  [s EXCEPT !.key = a] \in JobState /\ [s EXCEPT !.pin = a] \in JobState
    BY DEF JobState
  <1>6. ASSUME NEW a \in SUBSET Connections PROVE [s EXCEPT !.rows = a] \in JobState
    BY DEF JobState
  <1> QED BY <1>1, <1>2, <1>3, <1>4, <1>5, <1>6

\* A finished job's state is a job's state.
LEMMA IdleTyping == Idle \in JobState
  BY DEF JobState, Idle

\* Which actions write each variable: every other one leaves it alone.
LEMMA Writers ==
  ASSUME NEW j \in Jobs, JobStep(j)
  PROVE  /\ \/ UNCHANGED activityVars
            \/ MarkUserBusy(Owner[j]) \/ UnmarkUserBusy(Owner[j])
            \/ BeginReconfiguring(Owner[j]) \/ EndReconfiguring(Owner[j])
         /\ \/ record' = record
            \/ CreateKey(j) \/ SaveMode(j) \/ WriteKey(j) \/ RestoreKey(j) \/ DeleteKey(j)
            \/ LoseAnswer(j) /\ job[j].at = "reencrypted"
         /\ database' = database \/ SaveDatabase(j)
         /\ \/ unlocked' = unlocked
            \/ Resolve(j) \/ FinishOperation(j) \/ Unlock(j) \/ Lock(j) \/ FinishChange(j)
            \/ FinishReset(j)
         /\ \/ pins' = pins
            \/ WritePin(j) \/ Commit(j) \/ ClearPins(j)
            \/ LoseAnswer(j) /\ job[j].at = "keyWritten"
  <1> USE DEF JobStep, Arrive, Step, SharedStep, OperationStep, RekeyingStep, SaveStep
  <1>1. \/ UNCHANGED activityVars
        \/ MarkUserBusy(Owner[j]) \/ UnmarkUserBusy(Owner[j])
        \/ BeginReconfiguring(Owner[j]) \/ EndReconfiguring(Owner[j])
    BY DEF Acquire, SubmitOperation, BeginSave, ReadRecord, StartShared, RefuseShared, Resolve,
           ResolveFails, WritePin, ReadConnection, FinishShared, CreateKey, SaveMode,
           FinishOperation, Unlock, Lock, OperationFails, SubmitRekeying,
           BeginRekeying, RefuseRekeying, CheckOldKey, ReencryptPins, WriteKey,
           Commit, CommitFails, RestoreKey, FinishChange, ClearPins, DeleteKey,
           FinishReset, RekeyingFails, SaveDatabase, FinishSave, LoseAnswer,
           RestoreFails
  <1>2. \/ record' = record
        \/ CreateKey(j) \/ SaveMode(j) \/ WriteKey(j) \/ RestoreKey(j) \/ DeleteKey(j)
        \/ LoseAnswer(j) /\ job[j].at = "reencrypted"
    BY DEF Acquire, SubmitOperation, BeginSave, ReadRecord, StartShared, RefuseShared, Resolve,
           ResolveFails, WritePin, ReadConnection, FinishShared, FinishOperation,
           Unlock, Lock, OperationFails, SubmitRekeying, BeginRekeying,
           RefuseRekeying, CheckOldKey, ReencryptPins, Commit, CommitFails,
           FinishChange, ClearPins, FinishReset, RekeyingFails, SaveDatabase,
           FinishSave, LoseAnswer, RestoreFails
  <1>3. database' = database \/ SaveDatabase(j)
    BY DEF Acquire, SubmitOperation, BeginSave, ReadRecord, StartShared, RefuseShared, Resolve,
           ResolveFails, WritePin, ReadConnection, FinishShared, CreateKey, SaveMode,
           FinishOperation, Unlock, Lock, OperationFails, SubmitRekeying,
           BeginRekeying, RefuseRekeying, CheckOldKey, ReencryptPins, WriteKey,
           Commit, CommitFails, RestoreKey, FinishChange, ClearPins, DeleteKey,
           FinishReset, RekeyingFails, FinishSave, LoseAnswer, RestoreFails
  <1>4. \/ unlocked' = unlocked
        \/ Resolve(j) \/ FinishOperation(j) \/ Unlock(j) \/ Lock(j) \/ FinishChange(j)
        \/ FinishReset(j)
    BY DEF Acquire, SubmitOperation, BeginSave, ReadRecord, StartShared, RefuseShared,
           ResolveFails, WritePin, ReadConnection, FinishShared, CreateKey, SaveMode,
           OperationFails, SubmitRekeying, BeginRekeying, RefuseRekeying,
           CheckOldKey, ReencryptPins, WriteKey, Commit, CommitFails, RestoreKey,
           ClearPins, DeleteKey, RekeyingFails, SaveDatabase, FinishSave, LoseAnswer,
           RestoreFails
  <1>5. \/ pins' = pins
        \/ WritePin(j) \/ Commit(j) \/ ClearPins(j)
        \/ LoseAnswer(j) /\ job[j].at = "keyWritten"
    BY DEF Acquire, SubmitOperation, BeginSave, ReadRecord, StartShared, RefuseShared, Resolve,
           ResolveFails, ReadConnection, FinishShared, CreateKey, SaveMode,
           FinishOperation, Unlock, Lock, OperationFails, SubmitRekeying,
           BeginRekeying, RefuseRekeying, CheckOldKey, ReencryptPins, WriteKey,
           CommitFails, RestoreKey, FinishChange, DeleteKey, FinishReset,
           RekeyingFails, SaveDatabase, FinishSave, LoseAnswer, RestoreFails
  <1> QED BY <1>1, <1>2, <1>3, <1>4, <1>5

\* Every step leaves every job in a state of the type: one step of the proof per action.
LEMMA JobTyping ==
  ASSUME TypeOK, NEW j \in Jobs, JobStep(j)
  PROVE  job' \in [Jobs -> JobState]
  <1>a. job \in [Jobs -> JobState] /\ job[j] \in JobState /\ Owner[j] \in Users
    BY OwnerIsUser DEF TypeOK
  <1> USE <1>a DEF Places, Shared, Rekeying, Operations, Finish
  <1>1. CASE Acquire(j)
    <2>1. PICK op \in Shared \cup Rekeying :
            job' = [job EXCEPT ![j].op = op, ![j].at = "acquired", ![j].db = database[Owner[j]]]
      BY <1>1 DEF Acquire
    <2>2. [job[j] EXCEPT !.op = op] \in JobState BY FieldTyping
    <2>3. database[Owner[j]] \in Databases \cup {None} BY DEF TypeOK
    <2> QED BY <2>1, <2>2, <2>3, FieldTyping
  <1>2. CASE SubmitOperation(j)
    <2>1. PICK op \in Operations : job' = [job EXCEPT ![j].op = op, ![j].at = "queued"]
      BY <1>2 DEF SubmitOperation
    <2>2. [job[j] EXCEPT !.op = op] \in JobState BY FieldTyping
    <2> QED BY <2>1, <2>2, FieldTyping
  <1>3. CASE BeginSave(j) BY FieldTyping, IdleTyping, <1>3 DEF BeginSave
  <1>4. CASE ReadRecord(j)
    <2>1. record[Owner[j]] \in KeyRecord \cup {NoRecord} BY DEF TypeOK
    <2>2. [job[j] EXCEPT !.at = "read"] \in JobState BY FieldTyping
    <2> QED BY <1>4, <2>1, <2>2, FieldTyping DEF ReadRecord
  <1>5. CASE StartShared(j) BY FieldTyping, IdleTyping, <1>5 DEF StartShared
  <1>6. CASE RefuseShared(j) BY FieldTyping, IdleTyping, <1>6 DEF RefuseShared
  <1>7. CASE Resolve(j)
    <2>1. PICK k : job' = [job EXCEPT ![j].at = "resolved", ![j].key = k]
                   /\ k \in {job[j].read.wrapped, unlocked[Owner[j]], job[j].read.check}
      BY <1>7 DEF Resolve
    <2>2. job[j].read \in KeyRecord \cup {NoRecord} BY DEF JobState
    <2>3. k \in Keys \cup {None} BY <2>1, <2>2 DEF TypeOK, KeyRecord, NoRecord
    <2> QED BY <2>1, <2>3, FieldTyping
  <1>8. CASE ResolveFails(j) BY FieldTyping, IdleTyping, <1>8 DEF ResolveFails
  <1>9. CASE WritePin(j) BY FieldTyping, IdleTyping, <1>9 DEF WritePin
  <1>10. CASE ReadConnection(j)
    <2>1. PICK c \in Connections :
            job' = [job EXCEPT ![j].at = "running", ![j].pin = pins[job[j].db][c]]
      BY <1>10 DEF ReadConnection
    <2>2. job[j].db \in Databases BY <1>10 DEF ReadConnection, PoolUsable, JobState
    <2>3. pins[job[j].db][c] \in Keys \cup {None} BY <2>2 DEF TypeOK
    <2> QED BY <2>1, <2>3, FieldTyping
  <1>11. CASE FinishShared(j) BY FieldTyping, IdleTyping, <1>11 DEF FinishShared
  <1>12. CASE CreateKey(j)
    <2>1. PICK k \in Keys \cup {None} : job' = [job EXCEPT ![j].at = "saved", ![j].key = k]
      BY <1>12 DEF CreateKey
    <2> QED BY <2>1, FieldTyping
  <1>13. CASE SaveMode(j)
    <2>1. PICK k : job' = [job EXCEPT ![j].at = "saved", ![j].key = k]
                   /\ k \in {None, job[j].read.check, job[j].read.wrapped, unlocked[Owner[j]]}
      BY <1>13 DEF SaveMode, KeyAtHand
    <2>2. job[j].read \in KeyRecord \cup {NoRecord} BY DEF JobState
    <2>3. k \in Keys \cup {None} BY <2>1, <2>2 DEF TypeOK, KeyRecord, NoRecord
    <2> QED BY <2>1, <2>3, FieldTyping
  <1>14. CASE FinishOperation(j) BY FieldTyping, IdleTyping, <1>14 DEF FinishOperation
  <1>15. CASE Unlock(j) BY FieldTyping, IdleTyping, <1>15 DEF Unlock
  <1>16. CASE Lock(j) BY FieldTyping, IdleTyping, <1>16 DEF Lock
  <1>17. CASE OperationFails(j) BY FieldTyping, IdleTyping, <1>17 DEF OperationFails
  <1>18. CASE SubmitRekeying(j) BY FieldTyping, IdleTyping, <1>18 DEF SubmitRekeying
  <1>19. CASE BeginRekeying(j) BY FieldTyping, IdleTyping, <1>19 DEF BeginRekeying
  <1>20. CASE RefuseRekeying(j) BY FieldTyping, IdleTyping, <1>20 DEF RefuseRekeying
  <1>21. CASE CheckOldKey(j)
    <2>1. PICK k \in Keys :
            job' = [job EXCEPT ![j].at = "read", ![j].read = record[Owner[j]], ![j].key = k]
      BY <1>21 DEF CheckOldKey
    <2>2. record[Owner[j]] \in KeyRecord \cup {NoRecord} BY DEF TypeOK
    <2>3. [job[j] EXCEPT !.at = "read", !.read = record[Owner[j]]] \in JobState
      BY <2>2, FieldTyping
    <2> QED BY <2>1, <2>3, FieldTyping
  <1>22. CASE ReencryptPins(j) BY FieldTyping, IdleTyping, <1>22 DEF ReencryptPins
  <1>23. CASE WriteKey(j) BY FieldTyping, IdleTyping, <1>23 DEF WriteKey
  <1>24. CASE Commit(j) BY FieldTyping, IdleTyping, <1>24 DEF Commit
  <1>25. CASE CommitFails(j) BY FieldTyping, IdleTyping, <1>25 DEF CommitFails
  <1>26. CASE RestoreKey(j) BY FieldTyping, IdleTyping, <1>26 DEF RestoreKey
  <1>27. CASE FinishChange(j) BY FieldTyping, IdleTyping, <1>27 DEF FinishChange
  <1>28. CASE ClearPins(j) BY FieldTyping, IdleTyping, <1>28 DEF ClearPins
  <1>29. CASE DeleteKey(j) BY FieldTyping, IdleTyping, <1>29 DEF DeleteKey
  <1>30. CASE FinishReset(j) BY FieldTyping, IdleTyping, <1>30 DEF FinishReset
  <1>31. CASE RekeyingFails(j) BY FieldTyping, IdleTyping, <1>31 DEF RekeyingFails
  <1>32. CASE SaveDatabase(j) BY FieldTyping, IdleTyping, <1>32 DEF SaveDatabase
  <1>33. CASE FinishSave(j) BY FieldTyping, IdleTyping, <1>33 DEF FinishSave
  <1>34. CASE LoseAnswer(j)
    <2>1. PICK a \in Places : job' = [job EXCEPT ![j].at = a, ![j].rows = {}]
      BY <1>34 DEF LoseAnswer
    <2>2. [job[j] EXCEPT !.at = a] \in JobState BY FieldTyping
    <2> QED BY <2>1, <2>2, FieldTyping
  <1>35. CASE RestoreFails(j) BY FieldTyping, IdleTyping, <1>35 DEF RestoreFails
  <1> QED BY <1>1, <1>2, <1>3, <1>4, <1>5, <1>6, <1>7, <1>8, <1>9, <1>10, <1>11, <1>12, <1>13,
       <1>14, <1>15, <1>16, <1>17, <1>18, <1>19, <1>20, <1>21, <1>22, <1>23, <1>24, <1>25,
       <1>26, <1>27, <1>28, <1>29, <1>30, <1>31, <1>32, <1>33, <1>34, <1>35 DEF JobStep, Arrive,
       Step, SharedStep, OperationStep, RekeyingStep, SaveStep

\* What a job's step does to the queue of its user and to the other jobs.
QueueEffect(j) ==
  /\ \A i \in Jobs \ {j} : job'[i] = job[i]
  /\ NeedsNewKey(j)' => job'[j].key # None
  /\ \/ queue' = queue /\ (InSlot(j)' => AtHead(j))
     \/ Enqueue(j) /\ ~InSlot(j)'
     \/ AtHead(j) /\ LeaveQueue(j) /\ ~InSlot(j)'

\* Every step has one of the three effects on the queue: one step of the proof per action.
LEMMA QueueStep ==
  ASSUME TypeOK, SlotInv, NEW j \in Jobs, JobStep(j)
  PROVE  QueueEffect(j)
  <1>a. /\ job \in [Jobs -> JobState] /\ job' \in [Jobs -> JobState]
        /\ InSlot(j) => AtHead(j)
        /\ NeedsNewKey(j) => job[j].key # None
        /\ None \notin Keys
    BY JobTyping, KeyAssumption DEF TypeOK, SlotInv, KeyConstants
  <1> USE <1>a DEF QueueEffect, InSlot, NeedsNewKey, Waiting, Finish, Idle, JobState, Shared, Rekeying, Operations
  <1>1. CASE Acquire(j) BY <1>1 DEF Acquire
  <1>2. CASE SubmitOperation(j) BY <1>2 DEF SubmitOperation
  <1>3. CASE BeginSave(j) BY <1>3 DEF BeginSave
  <1>4. CASE ReadRecord(j) BY <1>4 DEF ReadRecord
  <1>5. CASE StartShared(j) BY <1>5 DEF StartShared
  <1>6. CASE RefuseShared(j) BY <1>6 DEF RefuseShared
  <1>7. CASE Resolve(j) BY <1>7 DEF Resolve
  <1>8. CASE ResolveFails(j) BY <1>8 DEF ResolveFails
  <1>9. CASE WritePin(j) BY <1>9 DEF WritePin
  <1>10. CASE ReadConnection(j) BY <1>10 DEF ReadConnection
  <1>11. CASE FinishShared(j) BY <1>11 DEF FinishShared
  <1>12. CASE CreateKey(j) BY <1>12 DEF CreateKey
  <1>13. CASE SaveMode(j) BY <1>13 DEF SaveMode
  <1>14. CASE FinishOperation(j) BY <1>14 DEF FinishOperation
  <1>15. CASE Unlock(j) BY <1>15 DEF Unlock
  <1>16. CASE Lock(j) BY <1>16 DEF Lock
  <1>17. CASE OperationFails(j) BY <1>17 DEF OperationFails
  <1>18. CASE SubmitRekeying(j) BY <1>18 DEF SubmitRekeying
  <1>19. CASE BeginRekeying(j) BY <1>19 DEF BeginRekeying
  <1>20. CASE RefuseRekeying(j) BY <1>20 DEF RefuseRekeying
  <1>21. CASE CheckOldKey(j) BY <1>21 DEF CheckOldKey
  <1>22. CASE ReencryptPins(j) BY <1>22 DEF ReencryptPins
  <1>23. CASE WriteKey(j) BY <1>23 DEF WriteKey
  <1>24. CASE Commit(j) BY <1>24 DEF Commit
  <1>25. CASE CommitFails(j) BY <1>25 DEF CommitFails
  <1>26. CASE RestoreKey(j) BY <1>26 DEF RestoreKey
  <1>27. CASE FinishChange(j) BY <1>27 DEF FinishChange
  <1>28. CASE ClearPins(j) BY <1>28 DEF ClearPins
  <1>29. CASE DeleteKey(j) BY <1>29 DEF DeleteKey
  <1>30. CASE FinishReset(j) BY <1>30 DEF FinishReset
  <1>31. CASE RekeyingFails(j) BY <1>31 DEF RekeyingFails
  <1>32. CASE SaveDatabase(j) BY <1>32 DEF SaveDatabase
  <1>33. CASE FinishSave(j) BY <1>33 DEF FinishSave
  <1>34. CASE LoseAnswer(j) BY <1>34 DEF LoseAnswer
  <1>35. CASE RestoreFails(j) BY <1>35 DEF RestoreFails
  <1> QED BY <1>1, <1>2, <1>3, <1>4, <1>5, <1>6, <1>7, <1>8, <1>9, <1>10, <1>11, <1>12, <1>13,
       <1>14, <1>15, <1>16, <1>17, <1>18, <1>19, <1>20, <1>21, <1>22, <1>23, <1>24, <1>25,
       <1>26, <1>27, <1>28, <1>29, <1>30, <1>31, <1>32, <1>33, <1>34, <1>35 DEF JobStep, Arrive,
       Step, SharedStep, OperationStep, RekeyingStep, SaveStep

\* Only the oldest operation of a queue takes itself out of it (serialized, user-keys.ts), so
\* every operation that runs keeps the front place until it is done.
LEMMA SlotStep ==
  ASSUME TypeOK, SlotInv, NEW j \in Jobs, JobStep(j)
  PROVE  /\ queue' \in [Users -> Seq(Jobs)]
         /\ SlotInv'
  <1>1. QueueEffect(j) /\ Owner[j] \in Users /\ queue \in [Users -> Seq(Jobs)]
    BY QueueStep, OwnerIsUser DEF TypeOK
  <1>2. \A i \in Jobs \ {j} : (InSlot(i)' <=> InSlot(i)) /\ (InSlot(i) => AtHead(i))
    BY <1>1 DEF QueueEffect, InSlot, SlotInv
  <1>n. \A i \in Jobs : NeedsNewKey(i)' => job'[i].key # None
    BY <1>1 DEF QueueEffect, NeedsNewKey, SlotInv
  <1> USE <1>n DEF SlotInv
  <1>3. CASE queue' = queue /\ (InSlot(j)' => AtHead(j))
    BY <1>1, <1>2, <1>3 DEF AtHead
  <1>4. CASE Enqueue(j) /\ ~InSlot(j)'
    <2>1. /\ Append(queue[Owner[j]], j) \in Seq(Jobs)
          /\ queue[Owner[j]] # <<>> =>
               Head(Append(queue[Owner[j]], j)) = Head(queue[Owner[j]])
          /\ Append(queue[Owner[j]], j) # <<>>
      BY <1>1, AppendProperties, HeadTailAppend
    <2>2. queue' \in [Users -> Seq(Jobs)] BY <1>1, <1>4, <2>1 DEF Enqueue
    <2>3. ASSUME NEW i \in Jobs \ {j}, AtHead(i) PROVE AtHead(i)'
      BY <1>1, <1>4, <2>1, <2>3, OwnerIsUser DEF Enqueue, AtHead
    <2> QED BY <1>2, <1>4, <2>2, <2>3
  <1>5. CASE AtHead(j) /\ LeaveQueue(j) /\ ~InSlot(j)'
    <2>1. Tail(queue[Owner[j]]) \in Seq(Jobs) BY <1>1, <1>5 DEF AtHead
    <2>2. queue' \in [Users -> Seq(Jobs)] BY <1>1, <1>5, <2>1 DEF LeaveQueue
    <2>3. ASSUME NEW i \in Jobs \ {j}, AtHead(i) PROVE AtHead(i)'
      BY <1>1, <1>5, <2>3, OwnerIsUser DEF LeaveQueue, AtHead
    <2> QED BY <1>2, <1>5, <2>2, <2>3
  <1> QED BY <1>1, <1>3, <1>4, <1>5 DEF QueueEffect

\* Every write of the key record writes a key record or none.
LEMMA RecordTyping ==
  ASSUME TypeOK, SlotInv, NEW j \in Jobs, JobStep(j)
  PROVE  record' \in [Users -> KeyRecord \cup {NoRecord}]
  <1>a. /\ record \in [Users -> KeyRecord \cup {NoRecord}]
        /\ job[j] \in JobState
        /\ Owner[j] \in Users
    BY OwnerIsUser DEF TypeOK
  <1>b. ASSUME NEW m \in Modes, NEW k \in Keys PROVE NewRecord(m, k) \in KeyRecord
    BY DEF NewRecord, KeyRecord
  <1>c. job[j].read \in KeyRecord \cup {NoRecord} /\ job[j].key \in Keys \cup {None} BY <1>a DEF JobState
  <1>d. None \notin Keys BY KeyAssumption DEF KeyConstants
  <1>e. ASSUME record[Owner[j]] # NoRecord, record[Owner[j]].check = job[j].read.check
        PROVE  job[j].read \in KeyRecord /\ job[j].read.check \in Keys /\ job[j].read.mode \in Modes
    BY <1>a, <1>c, <1>d, <1>e DEF KeyRecord, NoRecord
  <1>1. CASE CreateKey(j) BY <1>1, <1>a, <1>b DEF CreateKey
  <1>2. CASE SaveMode(j)
    <2>1. PICK m \in Modes : ReplaceRecord(Owner[j], job[j].read.check, NewRecord(m, job[j].read.check))
      BY <1>2 DEF SaveMode
    <2>2. NewRecord(m, job[j].read.check) \in KeyRecord BY <1>b, <1>e, <2>1 DEF ReplaceRecord
    <2> QED BY <1>a, <2>1, <2>2 DEF ReplaceRecord
  <1>3. CASE WriteKey(j) \/ (LoseAnswer(j) /\ job[j].at = "reencrypted")
    <2>1. /\ job[j].op = "change"
          /\ job[j].at \in {"read", "reencrypted"}
          /\ ReplaceRecord(Owner[j], job[j].read.check, NewRecord(job[j].read.mode, job[j].key))
      BY <1>3 DEF WriteKey, LoseAnswer
    <2>2. job[j].key \in Keys BY <1>c, <2>1 DEF SlotInv, NeedsNewKey
    <2>3. NewRecord(job[j].read.mode, job[j].key) \in KeyRecord
      BY <1>b, <1>e, <2>1, <2>2 DEF ReplaceRecord
    <2> QED BY <1>a, <2>1, <2>3 DEF ReplaceRecord
  <1>4. CASE RestoreKey(j) BY <1>4, <1>a, <1>c DEF RestoreKey, ReplaceRecord
  <1>5. CASE DeleteKey(j) BY <1>5, <1>a DEF DeleteKey
  <1>6. CASE record' = record BY <1>6, <1>a
  <1>7. \/ CreateKey(j) \/ SaveMode(j) \/ WriteKey(j) \/ RestoreKey(j) \/ DeleteKey(j)
        \/ LoseAnswer(j) /\ job[j].at = "reencrypted"
        \/ record' = record
    BY Writers
  <1> QED BY <1>1, <1>2, <1>3, <1>4, <1>5, <1>6, <1>7

\* The other variables: each action that writes one writes a value of its type.
LEMMA StateTyping ==
  ASSUME TypeOK, SlotInv, NEW j \in Jobs, JobStep(j)
  PROVE  /\ ActivityTypeOK'
         /\ database' \in [Users -> Databases \cup {None}]
         /\ unlocked' \in [Users -> Keys \cup {None}]
         /\ pins' \in [Databases -> [Connections -> Keys \cup {None}]]
  <1> USE OwnerIsUser DEF TypeOK, ActivityTypeOK
  <1>a. /\ job[j].read \in KeyRecord \cup {NoRecord}
        /\ job[j].key \in Keys \cup {None}
        /\ job[j].read.check \in Keys \cup {None}
        /\ job[j].read.wrapped \in Keys \cup {None}
    BY DEF JobState, KeyRecord, NoRecord
  <1>1. ActivityTypeOK'
    <2>1. \/ UNCHANGED activityVars
          \/ MarkUserBusy(Owner[j]) \/ UnmarkUserBusy(Owner[j])
          \/ BeginReconfiguring(Owner[j]) \/ EndReconfiguring(Owner[j])
      BY Writers
    <2>2. CASE UNCHANGED activityVars BY <2>2 DEF activityVars
    <2>3. CASE MarkUserBusy(Owner[j]) BY <2>3 DEF MarkUserBusy
    <2>4. CASE UnmarkUserBusy(Owner[j]) BY <2>4 DEF UnmarkUserBusy, IsUserBusy
    <2>5. CASE BeginReconfiguring(Owner[j]) BY <2>5 DEF BeginReconfiguring
    <2>6. CASE EndReconfiguring(Owner[j]) BY <2>6 DEF EndReconfiguring
    <2> QED BY <2>1, <2>2, <2>3, <2>4, <2>5, <2>6
  <1>2. database' \in [Users -> Databases \cup {None}]
    <2>1. CASE SaveDatabase(j)
      <3>1. SaveTargets(Owner[j]) \subseteq Databases
        BY KeyAssumption DEF KeyConstants, SaveTargets
      <3> QED BY <2>1, <3>1 DEF SaveDatabase
    <2>2. CASE database' = database BY <2>2
    <2>3. SaveDatabase(j) \/ database' = database
      BY Writers
    <2> QED BY <2>1, <2>2, <2>3
  <1>3. unlocked' \in [Users -> Keys \cup {None}]
    <2>1. \/ unlocked' = unlocked
          \/ \E k \in Keys \cup {None} : unlocked' = [unlocked EXCEPT ![Owner[j]] = k]
      <3> USE <1>a
      <3>1. CASE Resolve(j) BY <3>1 DEF Resolve
      <3>2. CASE FinishOperation(j) BY <3>2 DEF FinishOperation
      <3>3. CASE Unlock(j) BY <3>3 DEF Unlock
      <3>4. CASE Lock(j) \/ FinishReset(j) BY <3>4 DEF Lock, FinishReset
      <3>5. CASE FinishChange(j) BY <3>5 DEF FinishChange
      <3>6. \/ Resolve(j) \/ FinishOperation(j) \/ Unlock(j) \/ Lock(j) \/ FinishReset(j)
            \/ FinishChange(j) \/ unlocked' = unlocked
        BY Writers
      <3> QED BY <3>1, <3>2, <3>3, <3>4, <3>5, <3>6
    <2> QED BY <2>1
  <1>4. pins' \in [Databases -> [Connections -> Keys \cup {None}]]
    <2>1. \/ pins' = pins
          \/ \E c \in Connections : pins' = [pins EXCEPT ![job[j].db][c] = job[j].key]
          \/ CommitPins(j)
          \/ pins' = [pins EXCEPT ![job[j].db] = [c \in Connections |-> None]]
      BY Writers DEF WritePin, Commit, ClearPins, LoseAnswer
    <2>2. ASSUME NEW f \in [Connections -> Keys \cup {None}], pins' = [pins EXCEPT ![job[j].db] = f]
          PROVE  pins' \in [Databases -> [Connections -> Keys \cup {None}]]
      BY <2>2
    <2>3. CASE job[j].db \notin Databases
      BY <2>1, <2>3 DEF CommitPins
    <2>4. CASE job[j].db \in Databases
      <3>1. pins[job[j].db] \in [Connections -> Keys \cup {None}] BY <2>4
      <3>2. \A c \in Connections :
              [pins[job[j].db] EXCEPT ![c] = job[j].key] \in [Connections -> Keys \cup {None}]
        BY <1>a, <3>1
      <3>3. [c \in Connections |-> IF c \in job[j].rows THEN job[j].key ELSE pins[job[j].db][c]]
              \in [Connections -> Keys \cup {None}]
        BY <1>a, <3>1
      <3>4. CASE \E c \in Connections : pins' = [pins EXCEPT ![job[j].db][c] = job[j].key]
        BY <2>2, <3>2, <3>4
      <3>5. CASE CommitPins(j) BY <2>2, <3>3, <3>5 DEF CommitPins
      <3> QED BY <2>1, <2>2, <3>4, <3>5
    <2> QED BY <2>3, <2>4
  <1> QED BY <1>1, <1>2, <1>3, <1>4

\* The types and the discipline of the queue hold in every state.
THEOREM QueueCorrect == Spec => [](TypeOK /\ SlotInv)
  <1>1. Init => TypeOK /\ SlotInv
    <2> SUFFICES ASSUME Init PROVE TypeOK /\ SlotInv OBVIOUS
    <2>1. database \in [Users -> Databases \cup {None}]
      BY KeyAssumption DEF KeyConstants, Init
    <2>2. queue \in [Users -> Seq(Jobs)] BY EmptySeq DEF Init
    <2>3. job \in [Jobs -> JobState] BY IdleTyping DEF Init
    <2> QED BY <2>1, <2>2, <2>3
         DEF Init, TypeOK, ActivityInit, ActivityTypeOK, SlotInv, InSlot, NeedsNewKey, Idle, Shared,
             Operations, Rekeying
  <1>2. TypeOK /\ SlotInv /\ [Next]_vars => (TypeOK /\ SlotInv)'
    <2> SUFFICES ASSUME TypeOK, SlotInv, [Next]_vars PROVE TypeOK' /\ SlotInv' OBVIOUS
    <2>1. ASSUME NEW j \in Jobs, JobStep(j) PROVE TypeOK' /\ SlotInv'
      BY <2>1, JobTyping, SlotStep, RecordTyping, StateTyping DEF TypeOK, SlotInv
    <2>2. CASE Restart
      <3>1. queue' \in [Users -> Seq(Jobs)] BY <2>2, EmptySeq DEF Restart
      <3>2. job' \in [Jobs -> JobState] BY <2>2, IdleTyping DEF Restart
      <3> QED BY <2>2, <3>1, <3>2 DEF Restart, ForgetActivity, TypeOK, ActivityTypeOK, SlotInv,
                                      InSlot, NeedsNewKey, Idle, Shared, Operations, Rekeying
    <2>3. CASE UNCHANGED vars
      BY <2>3 DEF vars, activityVars, keyVars, TypeOK, ActivityTypeOK, SlotInv, InSlot, AtHead, NeedsNewKey
    <2> QED BY <2>1, <2>2, <2>3 DEF Next, JobStep
  <1> QED BY <1>1, <1>2, PTL DEF Spec

\* Every variable keeps its type, whatever happens: faults and restarts included.
THEOREM TypeCorrect == Spec => []TypeOK
  BY QueueCorrect, PTL

-----------------------------------------------------------------------------
(* The registry of user activity. *)

\* The jobs of a user that share, and those that exclude.
SharedJobs(u) == {j \in Jobs : Owner[j] = u /\ InShared(j)}
ExclusiveJobs(u) == {j \in Jobs : Owner[j] = u /\ InExclusive(j)}

\* The counter counts the busy jobs, and nobody shares with a reconfiguration.
RegistryInv ==
  /\ \A u \in Users : busyRuns[u] = Cardinality(SharedJobs(u))
  /\ \A u \in Users : IsReconfiguring(u) => busyRuns[u] = 0
  /\ \A j \in Jobs : InExclusive(j) => IsReconfiguring(Owner[j])
  /\ \A i, j \in Jobs : InExclusive(i) /\ InExclusive(j) /\ Owner[i] = Owner[j] => i = j

\* What a job's step does to the registry, and to the job's own part in it.
RegistryEffect(j) ==
  \/ /\ UNCHANGED activityVars
     /\ (InShared(j)' <=> InShared(j))
     /\ (InExclusive(j)' <=> InExclusive(j))
  \/ /\ MarkUserBusy(Owner[j])
     /\ ~InShared(j) /\ InShared(j)'
     /\ ~InExclusive(j) /\ ~InExclusive(j)'
  \/ /\ UnmarkUserBusy(Owner[j])
     /\ InShared(j) /\ ~InShared(j)'
     /\ ~InExclusive(j) /\ ~InExclusive(j)'
  \/ /\ BeginReconfiguring(Owner[j])
     /\ ~InShared(j) /\ ~InShared(j)'
     /\ ~InExclusive(j) /\ InExclusive(j)'
  \/ /\ EndReconfiguring(Owner[j])
     /\ ~InShared(j) /\ ~InShared(j)'
     /\ InExclusive(j) /\ ~InExclusive(j)'

\* Every step has one of the five effects on the registry: one step of the proof per action.
LEMMA RegistryStep ==
  ASSUME TypeOK, NEW j \in Jobs, JobStep(j)
  PROVE  RegistryEffect(j)
  <1>a. job \in [Jobs -> JobState] /\ job' \in [Jobs -> JobState]
    BY JobTyping DEF TypeOK
  <1> USE <1>a DEF RegistryEffect, InShared, InExclusive, Waiting, Finish, Idle, JobState, Shared,
                   Rekeying, Operations
  <1>1. CASE Acquire(j) BY <1>1 DEF Acquire
  <1>2. CASE SubmitOperation(j) BY <1>2 DEF SubmitOperation
  <1>3. CASE BeginSave(j) BY <1>3 DEF BeginSave
  <1>4. CASE ReadRecord(j) BY <1>4 DEF ReadRecord
  <1>5. CASE StartShared(j) BY <1>5 DEF StartShared
  <1>6. CASE RefuseShared(j) BY <1>6 DEF RefuseShared
  <1>7. CASE Resolve(j) BY <1>7 DEF Resolve
  <1>8. CASE ResolveFails(j) BY <1>8 DEF ResolveFails
  <1>9. CASE WritePin(j) BY <1>9 DEF WritePin
  <1>10. CASE ReadConnection(j) BY <1>10 DEF ReadConnection
  <1>11. CASE FinishShared(j) BY <1>11 DEF FinishShared
  <1>12. CASE CreateKey(j) BY <1>12 DEF CreateKey
  <1>13. CASE SaveMode(j) BY <1>13 DEF SaveMode
  <1>14. CASE FinishOperation(j) BY <1>14 DEF FinishOperation
  <1>15. CASE Unlock(j) BY <1>15 DEF Unlock
  <1>16. CASE Lock(j) BY <1>16 DEF Lock
  <1>17. CASE OperationFails(j) BY <1>17 DEF OperationFails
  <1>18. CASE SubmitRekeying(j) BY <1>18 DEF SubmitRekeying
  <1>19. CASE BeginRekeying(j) BY <1>19 DEF BeginRekeying
  <1>20. CASE RefuseRekeying(j)
    <2>1. ~InShared(j) /\ ~InExclusive(j) BY <1>20 DEF RefuseRekeying
    <2>2. ~InShared(j)' /\ ~InExclusive(j)' BY <1>20 DEF RefuseRekeying
    <2>3. UNCHANGED activityVars BY <1>20 DEF RefuseRekeying
    <2> QED BY ONLY <2>1, <2>2, <2>3 DEF RegistryEffect
  <1>21. CASE CheckOldKey(j) BY <1>21 DEF CheckOldKey
  <1>22. CASE ReencryptPins(j)
    <2>1. UNCHANGED activityVars /\ job[j].op = "change" /\ job[j].at = "read"
      BY <1>22 DEF ReencryptPins
    <2>2. PICK rows : job' = [job EXCEPT ![j].at = "reencrypted", ![j].rows = rows]
      BY <1>22 DEF ReencryptPins
    <2> QED BY <2>1, <2>2
  <1>23. CASE WriteKey(j) BY <1>23 DEF WriteKey
  <1>24. CASE Commit(j) BY <1>24 DEF Commit
  <1>25. CASE CommitFails(j) BY <1>25 DEF CommitFails
  <1>26. CASE RestoreKey(j) BY <1>26 DEF RestoreKey
  <1>27. CASE FinishChange(j) BY <1>27 DEF FinishChange
  <1>28. CASE ClearPins(j) BY <1>28 DEF ClearPins
  <1>29. CASE DeleteKey(j) BY <1>29 DEF DeleteKey
  <1>30. CASE FinishReset(j) BY <1>30 DEF FinishReset
  <1>31. CASE RekeyingFails(j) BY <1>31 DEF RekeyingFails
  <1>32. CASE SaveDatabase(j) BY <1>32 DEF SaveDatabase
  <1>33. CASE FinishSave(j) BY <1>33 DEF FinishSave
  <1>34. CASE LoseAnswer(j) BY <1>34 DEF LoseAnswer
  <1>35. CASE RestoreFails(j) BY <1>35 DEF RestoreFails
  <1> QED BY <1>1, <1>2, <1>3, <1>4, <1>5, <1>6, <1>7, <1>8, <1>9, <1>10, <1>11, <1>12, <1>13,
       <1>14, <1>15, <1>16, <1>17, <1>18, <1>19, <1>20, <1>21, <1>22, <1>23, <1>24, <1>25,
       <1>26, <1>27, <1>28, <1>29, <1>30, <1>31, <1>32, <1>33, <1>34, <1>35 DEF JobStep, Arrive,
       Step, SharedStep, OperationStep, RekeyingStep, SaveStep

\* Each effect keeps the count equal to the number of busy jobs.
LEMMA RegistryKept ==
  ASSUME TypeOK, SlotInv, RegistryInv, NEW j \in Jobs, JobStep(j)
  PROVE  RegistryInv'
  <1> DEFINE me == Owner[j]
  <1>1. /\ RegistryEffect(j)
        /\ me \in Users
        /\ \A i \in Jobs \ {j} : (InShared(i)' <=> InShared(i)) /\ (InExclusive(i)' <=> InExclusive(i))
    BY QueueStep, RegistryStep, OwnerIsUser DEF QueueEffect, InShared, InExclusive
  <1>2. \A u \in Users : IsFiniteSet(SharedJobs(u))
    BY KeyAssumption, FS_Subset DEF KeyConstants, SharedJobs
  <1>3. busyRuns \in [Users -> Nat] /\ reconfiguring \subseteq Users
    BY DEF TypeOK, ActivityTypeOK
  <1> USE <1>1, <1>2, <1>3 DEF RegistryInv, IsReconfiguring
  <1>4. CASE /\ UNCHANGED activityVars
             /\ (InShared(j)' <=> InShared(j))
             /\ (InExclusive(j)' <=> InExclusive(j))
    <2>1. \A u \in Users : SharedJobs(u)' = SharedJobs(u) BY <1>4 DEF SharedJobs
    <2> QED BY <1>4, <2>1 DEF activityVars
  <1>5. CASE /\ MarkUserBusy(me)
             /\ ~InShared(j) /\ InShared(j)'
             /\ ~InExclusive(j) /\ ~InExclusive(j)'
    <2>1. SharedJobs(me)' = SharedJobs(me) \cup {j} /\ j \notin SharedJobs(me)
      BY <1>5 DEF SharedJobs
    <2>2. \A u \in Users \ {me} : SharedJobs(u)' = SharedJobs(u) BY <1>5 DEF SharedJobs
    <2>3. Cardinality(SharedJobs(me)') = Cardinality(SharedJobs(me)) + 1
      BY <2>1, FS_AddElement
    <2> QED BY <1>5, <2>2, <2>3 DEF MarkUserBusy
  <1>6. CASE /\ UnmarkUserBusy(me)
             /\ InShared(j) /\ ~InShared(j)'
             /\ ~InExclusive(j) /\ ~InExclusive(j)'
    <2>1. SharedJobs(me)' = SharedJobs(me) \ {j} /\ j \in SharedJobs(me)
      BY <1>6 DEF SharedJobs
    <2>2. \A u \in Users \ {me} : SharedJobs(u)' = SharedJobs(u) BY <1>6 DEF SharedJobs
    <2>3. Cardinality(SharedJobs(me)') = Cardinality(SharedJobs(me)) - 1
      BY <2>1, FS_RemoveElement
    <2> QED BY <1>6, <2>2, <2>3 DEF UnmarkUserBusy, IsUserBusy
  <1>7. CASE /\ BeginReconfiguring(me)
             /\ ~InShared(j) /\ ~InShared(j)'
             /\ ~InExclusive(j) /\ InExclusive(j)'
    <2>1. \A u \in Users : SharedJobs(u)' = SharedJobs(u) BY <1>7 DEF SharedJobs
    <2> QED BY <1>7, <2>1 DEF BeginReconfiguring, IsUserBusy
  <1>8. CASE /\ EndReconfiguring(me)
             /\ ~InShared(j) /\ ~InShared(j)'
             /\ InExclusive(j) /\ ~InExclusive(j)'
    <2>1. \A u \in Users : SharedJobs(u)' = SharedJobs(u) BY <1>8 DEF SharedJobs
    <2> QED BY <1>8, <2>1, OwnerIsUser DEF EndReconfiguring
  <1> QED BY <1>4, <1>5, <1>6, <1>7, <1>8 DEF RegistryEffect

\* The counter of user-activity.ts stands for the set of busy jobs, in every state: no run is
\* counted twice, none is forgotten, and no unmark throws.
THEOREM RegistryCorrect == Spec => []RegistryInv
  <1>1. Init => RegistryInv
    <2> SUFFICES ASSUME Init PROVE RegistryInv OBVIOUS
    <2>1. \A j \in Jobs : ~InShared(j) /\ ~InExclusive(j)
      BY DEF Init, Idle, InShared, InExclusive, Shared, Rekeying
    <2>2. \A u \in Users : SharedJobs(u) = {} BY <2>1 DEF SharedJobs
    <2> QED BY <2>1, <2>2, FS_EmptySet DEF RegistryInv, Init, ActivityInit, IsReconfiguring
  <1>2. TypeOK /\ SlotInv /\ RegistryInv /\ [Next]_vars => RegistryInv'
    <2> SUFFICES ASSUME TypeOK, SlotInv, RegistryInv, [Next]_vars PROVE RegistryInv' OBVIOUS
    <2>1. ASSUME NEW j \in Jobs, JobStep(j) PROVE RegistryInv' BY <2>1, RegistryKept
    <2>2. CASE Restart
      <3>1. \A j \in Jobs : ~InShared(j)' /\ ~InExclusive(j)'
        BY <2>2 DEF Restart, Idle, InShared, InExclusive, Shared, Rekeying
      <3>2. \A u \in Users : SharedJobs(u)' = {} BY <3>1 DEF SharedJobs
      <3> QED BY <2>2, <3>1, <3>2, FS_EmptySet
           DEF RegistryInv, Restart, ForgetActivity, IsReconfiguring
    <2>3. CASE UNCHANGED vars
      BY <2>3 DEF vars, activityVars, keyVars, RegistryInv, SharedJobs, InShared, InExclusive,
                  IsReconfiguring
    <2> QED BY <2>1, <2>2, <2>3 DEF Next, JobStep
  <1> QED BY <1>1, <1>2, QueueCorrect, PTL DEF Spec

\* The registry keeps what ExclusiveAccess promises: any number of sharing jobs, or one that
\* excludes all others; each effect on the registry is a step of ExclusiveAccess.
THEOREM AccessCorrect == Spec => AccessSpec
  <1>1. Init => Access!AccessInit
    BY DEF Init, Idle, Access!AccessInit, InShared, InExclusive, Shared, Rekeying
  <1>2. TypeOK /\ SlotInv /\ RegistryInv /\ [Next]_vars => [Access!AccessNext]_(Access!accessVars)
    <2> SUFFICES ASSUME TypeOK, SlotInv, RegistryInv, [Next]_vars
                 PROVE  Access!AccessNext \/ UNCHANGED Access!accessVars
      OBVIOUS
    <2> DEFINE sh == [u \in Users |-> {j \in Jobs : Owner[j] = u /\ InShared(j)}]
               ex == [u \in Users |-> {j \in Jobs : Owner[j] = u /\ InExclusive(j)}]
    <2>1. ASSUME NEW j \in Jobs, JobStep(j)
          PROVE  Access!AccessNext \/ UNCHANGED Access!accessVars
      <3> DEFINE me == Owner[j]
      <3>1. /\ RegistryEffect(j)
            /\ me \in Users
            /\ \A i \in Jobs \ {j} : (InShared(i)' <=> InShared(i)) /\ (InExclusive(i)' <=> InExclusive(i))
        BY <2>1, QueueStep, RegistryStep, OwnerIsUser DEF QueueEffect, InShared, InExclusive
      <3>2. CASE /\ UNCHANGED activityVars
                 /\ (InShared(j)' <=> InShared(j))
                 /\ (InExclusive(j)' <=> InExclusive(j))
        <4>1. sh' = sh /\ ex' = ex BY <3>1, <3>2
        <4> QED BY <4>1 DEF Access!accessVars
      <3>3. CASE /\ MarkUserBusy(me)
                 /\ ~InShared(j) /\ InShared(j)'
                 /\ ~InExclusive(j) /\ ~InExclusive(j)'
        <4>1. ex' = ex /\ sh' = [sh EXCEPT ![me] = @ \cup {j}] /\ j \notin sh[me] BY <3>1, <3>3
        <4>2. ex[me] = {} BY <3>1, <3>3 DEF RegistryInv, MarkUserBusy
        <4>3. Access!EnterShared(me, j) BY <4>1, <4>2 DEF Access!EnterShared
        <4> QED BY <3>1, <4>3 DEF Access!AccessNext
      <3>4. CASE /\ UnmarkUserBusy(me)
                 /\ InShared(j) /\ ~InShared(j)'
                 /\ ~InExclusive(j) /\ ~InExclusive(j)'
        <4>1. ex' = ex /\ sh' = [sh EXCEPT ![me] = @ \ {j}] /\ j \in sh[me] BY <3>1, <3>4
        <4>2. Access!LeaveShared(me, j) BY <4>1 DEF Access!LeaveShared
        <4> QED BY <3>1, <4>2 DEF Access!AccessNext
      <3>5. CASE /\ BeginReconfiguring(me)
                 /\ ~InShared(j) /\ ~InShared(j)'
                 /\ ~InExclusive(j) /\ InExclusive(j)'
        <4>1. busyRuns[me] = 0
          BY <3>1, <3>5 DEF BeginReconfiguring, IsUserBusy, TypeOK, ActivityTypeOK
        <4>2. IsFiniteSet(SharedJobs(me))
          BY KeyAssumption, FS_Subset DEF KeyConstants, SharedJobs
        <4>3. SharedJobs(me) = {} BY <3>1, <4>1, <4>2, FS_EmptySet DEF RegistryInv
        <4>4. sh[me] = {} BY <3>1, <4>3 DEF SharedJobs
        <4>5. ex[me] = {} BY <3>1, <3>5 DEF RegistryInv, BeginReconfiguring
        <4>6. sh' = sh BY <3>1, <3>5
        <4>7. ex' = [ex EXCEPT ![me] = {j}]
          BY <3>1, <3>5, <4>5
        <4>8. Access!EnterExclusive(me, j) BY <4>4, <4>5, <4>6, <4>7 DEF Access!EnterExclusive
        <4> QED BY <3>1, <4>8 DEF Access!AccessNext
      <3>6. CASE /\ EndReconfiguring(me)
                 /\ ~InShared(j) /\ ~InShared(j)'
                 /\ InExclusive(j) /\ ~InExclusive(j)'
        <4>0. \A i \in Jobs : (Owner[i] = me /\ InExclusive(i)) <=> i = j
          BY <3>6 DEF RegistryInv
        <4>a. {i \in Jobs : Owner[i] = me /\ InExclusive(i)} = {j} BY ONLY <4>0, j \in Jobs
        <4>1. ex[me] = {j} BY <3>1, <4>a
        <4>2. sh' = sh BY <3>1, <3>6
        <4>b. \A i \in Jobs : (InExclusive(i)' <=> InExclusive(i) /\ i # j) BY <3>1, <3>6
        <4>c. {i \in Jobs : Owner[i] = me /\ InExclusive(i)'} = {} BY <4>0, <4>b
        <4>d. \A u \in Users \ {me} :
                {i \in Jobs : Owner[i] = u /\ InExclusive(i)'} =
                  {i \in Jobs : Owner[i] = u /\ InExclusive(i)}
          BY <4>b
        <4>3. ex' = [ex EXCEPT ![me] = {}] BY <3>1, <4>c, <4>d
        <4>4. Access!LeaveExclusive(me, j) BY <4>1, <4>2, <4>3 DEF Access!LeaveExclusive
        <4> QED BY <3>1, <4>4 DEF Access!AccessNext
      <3> QED BY <3>1, <3>2, <3>3, <3>4, <3>5, <3>6 DEF RegistryEffect
    <2>2. CASE Restart
      <3>1. \A j \in Jobs : ~InShared(j)' /\ ~InExclusive(j)'
        BY <2>2 DEF Restart, Idle, InShared, InExclusive, Shared, Rekeying
      <3>2. sh' = [u \in Users |-> {}] /\ ex' = [u \in Users |-> {}] BY <3>1
      <3>3. Access!EveryoneLeaves BY <3>2 DEF Access!EveryoneLeaves
      <3> QED BY <3>3 DEF Access!AccessNext
    <2>3. CASE UNCHANGED vars
      <3>1. sh' = sh /\ ex' = ex BY <2>3 DEF vars, keyVars, InShared, InExclusive
      <3> QED BY <3>1 DEF Access!accessVars
    <2> QED BY <2>1, <2>2, <2>3 DEF Next, JobStep
  <1> QED BY <1>1, <1>2, QueueCorrect, RegistryCorrect, PTL
       DEF Spec, AccessSpec, Access!AccessSpec

-----------------------------------------------------------------------------
(* The current key. *)

\* The wrapped copy is there in stored mode only, and is of the user's key.
RecordFits(r) == r.wrapped = IF r.mode = "stored" THEN r.check ELSE None

\* The unlocked key is the key of a memory-mode record.
KeptKeyFits(u) ==
  unlocked[u] # None => record[u].mode = "memory" /\ unlocked[u] = record[u].check

\* The record is written, and the unlocked key not yet set to match it.
Unsettled(j) ==
  \/ job[j].op \in {"create", "mode"} /\ job[j].at = "saved"
  \/ job[j].op = "change" /\ job[j].at \in {"keyWritten", "commitFailed", "rekeyed"}
  \/ job[j].op = "reset" /\ job[j].at = "deleted"

\* The record an operation read is the record it works on until it writes.
ReadIsCurrent(j) ==
  (\/ job[j].op \in Shared \cup {"mode", "unlock"} /\ job[j].at = "read"
   \/ job[j].op = "change" /\ job[j].at \in {"read", "reencrypted"})
    => job[j].read = record[Owner[j]] /\ job[j].read # NoRecord

\* What create or setMode is about to keep unlocked fits what it saved.
SavedKeyFits(j) ==
  (job[j].op \in {"create", "mode"} /\ job[j].at = "saved") =>
    /\ job[j].key # None => record[Owner[j]].mode = "memory" /\ job[j].key = record[Owner[j]].check
    /\ job[j].op = "create" => unlocked[Owner[j]] = None

\* A change that wrote the record can put the old one back, and the unlocked key is the old one.
WrittenKeyFits(j) ==
  (job[j].op = "change" /\ job[j].at \in {"keyWritten", "commitFailed", "rekeyed"}) =>
    /\ job[j].read # NoRecord
    /\ RecordFits(job[j].read)
    /\ job[j].key # None
    /\ record[Owner[j]].check = job[j].key
    /\ record[Owner[j]].mode = job[j].read.mode
    /\ unlocked[Owner[j]] # None =>
         unlocked[Owner[j]] = job[j].read.check /\ job[j].read.mode = "memory"

\* A write or run has a key exactly while it works, and it is the user's.
HeldKeyFits(j) ==
  /\ job[j].op \in Shared => (job[j].key # None <=> job[j].at \in {"resolved", "running"})
  /\ job[j].op \in Shared /\ job[j].key # None => job[j].key = record[Owner[j]].check
  /\ job[j].at \in {"resolved", "running", "written"} => job[j].op \in Shared

JobKeyInv(j) == ReadIsCurrent(j) /\ SavedKeyFits(j) /\ WrittenKeyFits(j) /\ HeldKeyFits(j)

CurrentKeyInv ==
  /\ \A u \in Users : RecordFits(record[u])
  /\ \A u \in Users : KeptKeyFits(u) \/ \E j \in Jobs : Owner[j] = u /\ Unsettled(j)
  /\ \A j \in Jobs : JobKeyInv(j)

\* An answer the server gave arrives, and a failed commit's key record can be put back.
NoWriteIsLost == "lostAck" \notin Faults /\ "restoreFails" \notin Faults

\* What a job's step does to the key record and the unlocked key of its user.
KeyEffect(j) ==
  /\ \A u \in Users \ {Owner[j]} : record'[u] = record[u] /\ unlocked'[u] = unlocked[u]
  /\ AtHead(j) \/ (record' = record /\ unlocked' = unlocked)
  /\ \/ record'[Owner[j]].check = record[Owner[j]].check
     \/ record[Owner[j]] = NoRecord
     \/ InExclusive(j)

\* Only the operation in front of the queue writes the record or the unlocked key, and only
\* create, change and reset write another check value.
LEMMA KeyStep ==
  ASSUME TypeOK, SlotInv, NEW j \in Jobs, JobStep(j), NoWriteIsLost
  PROVE  KeyEffect(j)
  <1>a. /\ job[j] \in JobState
        /\ InSlot(j) => AtHead(j)
        /\ record \in [Users -> KeyRecord \cup {NoRecord}]
        /\ unlocked \in [Users -> Keys \cup {None}]
        /\ Owner[j] \in Users
    BY OwnerIsUser DEF TypeOK, SlotInv
  <1> USE <1>a DEF KeyEffect, InSlot, InExclusive, Waiting, Shared, Rekeying, Operations,
                   ReplaceRecord, NoWriteIsLost
  <1>1. CASE Acquire(j) BY <1>1 DEF Acquire
  <1>2. CASE SubmitOperation(j) BY <1>2 DEF SubmitOperation
  <1>3. CASE BeginSave(j) BY <1>3 DEF BeginSave
  <1>4. CASE ReadRecord(j) BY <1>4 DEF ReadRecord
  <1>5. CASE StartShared(j) BY <1>5 DEF StartShared
  <1>6. CASE RefuseShared(j) BY <1>6 DEF RefuseShared
  <1>7. CASE Resolve(j) BY <1>7 DEF Resolve
  <1>8. CASE ResolveFails(j) BY <1>8 DEF ResolveFails
  <1>9. CASE WritePin(j) BY <1>9 DEF WritePin
  <1>10. CASE ReadConnection(j) BY <1>10 DEF ReadConnection
  <1>11. CASE FinishShared(j) BY <1>11 DEF FinishShared
  <1>12. CASE CreateKey(j) BY <1>12 DEF CreateKey
  <1>13. CASE SaveMode(j)
    <2>1. /\ job[j].op = "mode" /\ job[j].at = "read" /\ unlocked' = unlocked
          /\ \E m \in Modes : ReplaceRecord(Owner[j], job[j].read.check, NewRecord(m, job[j].read.check))
      BY <1>13 DEF SaveMode
    <2> QED BY <2>1 DEF NewRecord
  <1>14. CASE FinishOperation(j) BY <1>14 DEF FinishOperation
  <1>15. CASE Unlock(j) BY <1>15 DEF Unlock
  <1>16. CASE Lock(j) BY <1>16 DEF Lock
  <1>17. CASE OperationFails(j) BY <1>17 DEF OperationFails
  <1>18. CASE SubmitRekeying(j) BY <1>18 DEF SubmitRekeying
  <1>19. CASE BeginRekeying(j) BY <1>19 DEF BeginRekeying
  <1>20. CASE RefuseRekeying(j) BY <1>20 DEF RefuseRekeying
  <1>21. CASE CheckOldKey(j) BY <1>21 DEF CheckOldKey
  <1>22. CASE ReencryptPins(j) BY <1>22 DEF ReencryptPins
  <1>23. CASE WriteKey(j)
    <2>1. /\ job[j].op = "change" /\ job[j].at \in {"read", "reencrypted"} /\ unlocked' = unlocked
          /\ \E r : ReplaceRecord(Owner[j], job[j].read.check, r)
      BY <1>23 DEF WriteKey
    <2> QED BY <2>1
  <1>24. CASE Commit(j) BY <1>24 DEF Commit
  <1>25. CASE CommitFails(j) BY <1>25 DEF CommitFails
  <1>26. CASE RestoreKey(j) BY <1>26 DEF RestoreKey
  <1>27. CASE FinishChange(j) BY <1>27 DEF FinishChange
  <1>28. CASE ClearPins(j) BY <1>28 DEF ClearPins
  <1>29. CASE DeleteKey(j) BY <1>29 DEF DeleteKey
  <1>30. CASE FinishReset(j) BY <1>30 DEF FinishReset
  <1>31. CASE RekeyingFails(j) BY <1>31 DEF RekeyingFails
  <1>32. CASE SaveDatabase(j) BY <1>32 DEF SaveDatabase
  <1>33. CASE FinishSave(j) BY <1>33 DEF FinishSave
  <1>34. CASE LoseAnswer(j) BY <1>34 DEF LoseAnswer
  <1>35. CASE RestoreFails(j) BY <1>35 DEF RestoreFails
  <1> QED BY <1>1, <1>2, <1>3, <1>4, <1>5, <1>6, <1>7, <1>8, <1>9, <1>10, <1>11, <1>12, <1>13,
       <1>14, <1>15, <1>16, <1>17, <1>18, <1>19, <1>20, <1>21, <1>22, <1>23, <1>24, <1>25,
       <1>26, <1>27, <1>28, <1>29, <1>30, <1>31, <1>32, <1>33, <1>34, <1>35 DEF JobStep, Arrive,
       Step, SharedStep, OperationStep, RekeyingStep, SaveStep

\* Whoever is in front of its user's queue sees nobody else change the key, and a busy job sees
\* no change or reset.
LEMMA OtherJobKeys ==
  ASSUME TypeOK, SlotInv, RegistryInv, CurrentKeyInv, NoWriteIsLost,
         NEW j \in Jobs, JobStep(j), NEW i \in Jobs \ {j}
  PROVE  JobKeyInv(i)'
  <1>1. job'[i] = job[i] /\ KeyEffect(j) /\ JobKeyInv(i) /\ (InSlot(i) => AtHead(i))
    BY QueueStep, KeyStep DEF QueueEffect, CurrentKeyInv, SlotInv
  <1>2. Owner[i] \in Users /\ Owner[j] \in Users /\ job[i] \in JobState BY OwnerIsUser DEF TypeOK
  <1>3. InSlot(i) => record'[Owner[i]] = record[Owner[i]] /\ unlocked'[Owner[i]] = unlocked[Owner[i]]
    BY <1>1, <1>2 DEF KeyEffect, AtHead
  <1>4. ReadIsCurrent(i)' /\ SavedKeyFits(i)' /\ WrittenKeyFits(i)'
    <2>1. CASE InSlot(i)
      BY <1>1, <1>3, <2>1 DEF JobKeyInv, ReadIsCurrent, SavedKeyFits, WrittenKeyFits, RecordFits
    <2>2. CASE ~InSlot(i)
      BY <1>1, <2>2 DEF InSlot, ReadIsCurrent, SavedKeyFits, WrittenKeyFits, Shared, Rekeying,
                        Operations
    <2> QED BY <2>1, <2>2
  <1>5. HeldKeyFits(i)'
    <2>1. CASE job[i].op \in Shared /\ job[i].key # None
      <3>1. InShared(i) /\ job[i].key = record[Owner[i]].check
        BY <1>1, <2>1 DEF JobKeyInv, HeldKeyFits, InShared
      <3>2. SharedJobs(Owner[i]) # {} BY <3>1 DEF SharedJobs
      <3>3. IsFiniteSet(SharedJobs(Owner[i]))
        BY KeyAssumption, FS_Subset DEF KeyConstants, SharedJobs
      <3>4. busyRuns[Owner[i]] # 0 BY <1>2, <3>2, <3>3, FS_EmptySet DEF RegistryInv
      <3>5. ~(InExclusive(j) /\ Owner[j] = Owner[i]) BY <1>2, <3>4 DEF RegistryInv
      <3>6. record[Owner[i]] # NoRecord BY <2>1, <3>1 DEF NoRecord
      <3>7. record'[Owner[i]].check = record[Owner[i]].check
        BY <1>1, <1>2, <3>5, <3>6 DEF KeyEffect
      <3> QED BY <1>1, <3>1, <3>7 DEF JobKeyInv, HeldKeyFits
    <2>2. CASE ~(job[i].op \in Shared /\ job[i].key # None)
      BY <1>1, <2>2 DEF JobKeyInv, HeldKeyFits
    <2> QED BY <2>1, <2>2
  <1> QED BY <1>4, <1>5 DEF JobKeyInv

\* A step leaves its own job's keys fitting; the unlocked key fits, or is about to be set.
OwnKeyEffect(j) ==
  /\ JobKeyInv(j)'
  /\ RecordFits(record'[Owner[j]])
  /\ \/ KeptKeyFits(Owner[j])'
     \/ Unsettled(j)'
     \/ record' = record /\ unlocked' = unlocked /\ ~Unsettled(j)

\* The job's own keys, action by action.
LEMMA OwnJobKeys ==
  ASSUME TypeOK, SlotInv, CurrentKeyInv, NoWriteIsLost, NEW j \in Jobs, JobStep(j)
  PROVE  OwnKeyEffect(j)
  <1>a. /\ job \in [Jobs -> JobState] /\ job' \in [Jobs -> JobState]
        /\ record \in [Users -> KeyRecord \cup {NoRecord}]
        /\ unlocked \in [Users -> Keys \cup {None}]
        /\ Owner[j] \in Users
        /\ None \notin Keys
    BY OwnerIsUser, JobTyping, KeyAssumption DEF TypeOK, KeyConstants
  <1>b. JobKeyInv(j) /\ RecordFits(record[Owner[j]]) BY <1>a DEF CurrentKeyInv
  <1>c. AtHead(j) => KeptKeyFits(Owner[j]) \/ Unsettled(j)
    BY <1>a DEF CurrentKeyInv, SlotInv, AtHead, Unsettled, InSlot, Shared, Rekeying, Operations
  <1>d. InSlot(j) => AtHead(j) BY DEF SlotInv
  <1> USE <1>a, <1>b, <1>c, <1>d
      DEF OwnKeyEffect, JobKeyInv, ReadIsCurrent, SavedKeyFits, WrittenKeyFits, HeldKeyFits,
          RecordFits, KeptKeyFits, Unsettled, NoWriteIsLost,
          InSlot, Waiting, Finish, Idle, JobState, KeyRecord, NoRecord, NewRecord, ReplaceRecord,
          Shared, Rekeying, Operations
  <1>1. CASE Acquire(j) BY <1>1 DEF Acquire
  <1>2. CASE SubmitOperation(j) BY <1>2 DEF SubmitOperation
  <1>3. CASE BeginSave(j) BY <1>3 DEF BeginSave
  <1>4. CASE ReadRecord(j) BY <1>4 DEF ReadRecord
  <1>5. CASE StartShared(j) BY <1>5 DEF StartShared
  <1>6. CASE RefuseShared(j) BY <1>6 DEF RefuseShared
  <1>7. CASE Resolve(j) BY <1>7 DEF Resolve
  <1>8. CASE ResolveFails(j) BY <1>8 DEF ResolveFails
  <1>9. CASE WritePin(j) BY <1>9 DEF WritePin
  <1>10. CASE ReadConnection(j) BY <1>10 DEF ReadConnection
  <1>11. CASE FinishShared(j) BY <1>11 DEF FinishShared
  <1>12. CASE CreateKey(j) BY <1>12 DEF CreateKey
  <1>13. CASE SaveMode(j)
    <2>1. /\ job[j].op = "mode" /\ job[j].at = "read"
          /\ unlocked' = unlocked
          /\ job[j].read = record[Owner[j]] /\ record[Owner[j]] # NoRecord
      BY <1>13 DEF SaveMode
    <2>2. PICK m \in Modes, entered \in {None, job[j].read.check} :
            /\ record' = [record EXCEPT ![Owner[j]] = NewRecord(m, job[j].read.check)]
            /\ job' = [job EXCEPT ![j].at = "saved",
                 ![j].key = IF m = "memory" THEN KeyAtHand(Owner[j], job[j].read, entered) ELSE None]
      BY <1>13 DEF SaveMode
    <2>3. KeptKeyFits(Owner[j]) BY <2>1
    <2>4. KeyAtHand(Owner[j], job[j].read, entered) \in {None, record[Owner[j]].check}
      BY <2>1, <2>3 DEF KeyAtHand
    <2>5. job'[j].at = "saved" /\ job'[j].op = "mode"
          /\ job'[j].key = IF m = "memory" THEN KeyAtHand(Owner[j], job[j].read, entered) ELSE None
      BY <2>1, <2>2
    <2>6. record'[Owner[j]] = [mode |-> m, check |-> record[Owner[j]].check,
                               wrapped |-> IF m = "stored" THEN record[Owner[j]].check ELSE None]
      BY <2>1, <2>2
    <2> QED BY <2>4, <2>5, <2>6
  <1>14. CASE FinishOperation(j) BY <1>14 DEF FinishOperation
  <1>15. CASE Unlock(j) BY <1>15 DEF Unlock
  <1>16. CASE Lock(j) BY <1>16 DEF Lock
  <1>17. CASE OperationFails(j) BY <1>17 DEF OperationFails
  <1>18. CASE SubmitRekeying(j) BY <1>18 DEF SubmitRekeying
  <1>19. CASE BeginRekeying(j) BY <1>19 DEF BeginRekeying
  <1>20. CASE RefuseRekeying(j) BY <1>20 DEF RefuseRekeying
  <1>21. CASE CheckOldKey(j) BY <1>21 DEF CheckOldKey
  <1>22. CASE ReencryptPins(j)
    <2>1. /\ job[j].op = "change" /\ job[j].at = "read"
          /\ record' = record /\ unlocked' = unlocked
      BY <1>22 DEF ReencryptPins
    <2>2. PICK rows : job' = [job EXCEPT ![j].at = "reencrypted", ![j].rows = rows]
      BY <1>22 DEF ReencryptPins
    <2> QED BY <2>1, <2>2
  <1>23. CASE WriteKey(j)
    <2>1. /\ job[j].op = "change" /\ job[j].at \in {"read", "reencrypted"}
          /\ unlocked' = unlocked
          /\ job[j].read = record[Owner[j]] /\ record[Owner[j]] # NoRecord
          /\ job[j].key # None
          /\ record' = [record EXCEPT ![Owner[j]] = NewRecord(job[j].read.mode, job[j].key)]
      BY <1>23 DEF WriteKey, SlotInv, NeedsNewKey
    <2>2. PICK a \in {"keyWritten", "rekeyed"} : job' = [job EXCEPT ![j].at = a]
      BY <1>23 DEF WriteKey
    <2>3. KeptKeyFits(Owner[j]) BY <2>1
    <2>4. job'[j].at = a /\ job'[j].op = "change" /\ job'[j].key = job[j].key
          /\ job'[j].read = job[j].read
      BY <2>1, <2>2
    <2>5. record'[Owner[j]] = [mode |-> job[j].read.mode, check |-> job[j].key,
                    wrapped |-> IF job[j].read.mode = "stored" THEN job[j].key ELSE None]
      BY <2>1
    <2> QED BY <2>1, <2>3, <2>4, <2>5
  <1>24. CASE Commit(j) BY <1>24 DEF Commit
  <1>25. CASE CommitFails(j) BY <1>25 DEF CommitFails
  <1>26. CASE RestoreKey(j) BY <1>26 DEF RestoreKey
  <1>27. CASE FinishChange(j) BY <1>27 DEF FinishChange
  <1>28. CASE ClearPins(j) BY <1>28 DEF ClearPins
  <1>29. CASE DeleteKey(j) BY <1>29 DEF DeleteKey
  <1>30. CASE FinishReset(j) BY <1>30 DEF FinishReset
  <1>31. CASE RekeyingFails(j) BY <1>31 DEF RekeyingFails
  <1>32. CASE SaveDatabase(j) BY <1>32 DEF SaveDatabase
  <1>33. CASE FinishSave(j) BY <1>33 DEF FinishSave
  <1>34. CASE LoseAnswer(j) BY <1>34 DEF LoseAnswer
  <1>35. CASE RestoreFails(j) BY <1>35 DEF RestoreFails
  <1> QED BY <1>1, <1>2, <1>3, <1>4, <1>5, <1>6, <1>7, <1>8, <1>9, <1>10, <1>11, <1>12, <1>13,
       <1>14, <1>15, <1>16, <1>17, <1>18, <1>19, <1>20, <1>21, <1>22, <1>23, <1>24, <1>25,
       <1>26, <1>27, <1>28, <1>29, <1>30, <1>31, <1>32, <1>33, <1>34, <1>35 DEF JobStep, Arrive,
       Step, SharedStep, OperationStep, RekeyingStep, SaveStep

\* A job's step keeps the invariant: its own part, the others' parts, and every user's.
LEMMA CurrentKeyKept ==
  ASSUME TypeOK, SlotInv, RegistryInv, CurrentKeyInv, NoWriteIsLost, NEW j \in Jobs, JobStep(j)
  PROVE  CurrentKeyInv'
  <1>1. /\ \A i \in Jobs \ {j} : JobKeyInv(i)' /\ job'[i] = job[i]
        /\ OwnKeyEffect(j)
        /\ KeyEffect(j)
        /\ Owner[j] \in Users
        /\ CurrentKeyInv
    BY OtherJobKeys, OwnJobKeys, KeyStep, QueueStep, OwnerIsUser DEF QueueEffect
  <1>2. \A i \in Jobs : JobKeyInv(i)' BY <1>1 DEF OwnKeyEffect
  <1>3. \A u \in Users : RecordFits(record[u])'
    BY <1>1 DEF OwnKeyEffect, KeyEffect, CurrentKeyInv, RecordFits
  <1>4. ASSUME NEW u \in Users
        PROVE  KeptKeyFits(u)' \/ \E i \in Jobs : Owner[i] = u /\ Unsettled(i)'
    <2>1. KeptKeyFits(u) \/ \E i \in Jobs : Owner[i] = u /\ Unsettled(i) BY <1>1 DEF CurrentKeyInv
    <2>2. \A i \in Jobs \ {j} : Unsettled(i) => Unsettled(i)' BY <1>1 DEF Unsettled
    <2>3. CASE u # Owner[j] \/ (record' = record /\ unlocked' = unlocked /\ ~Unsettled(j))
      <3>1. KeptKeyFits(u) => KeptKeyFits(u)' BY <1>1, <2>3 DEF KeyEffect, KeptKeyFits
      <3> QED BY <2>1, <2>2, <2>3, <3>1
    <2>4. CASE u = Owner[j] /\ (KeptKeyFits(u)' \/ Unsettled(j)') BY <2>4
    <2> QED BY <1>1, <2>3, <2>4 DEF OwnKeyEffect
  <1> QED BY <1>2, <1>3, <1>4 DEF CurrentKeyInv

\* Which key is current is clear in every state, if no write is lost; restarts included.
THEOREM CurrentKeyCorrect == ASSUME NoWriteIsLost PROVE Spec => []CurrentKeyInv
  <1>1. Init => CurrentKeyInv
    BY OwnerIsUser DEF Init, CurrentKeyInv, RecordFits, KeptKeyFits, JobKeyInv, ReadIsCurrent, SavedKeyFits,
           WrittenKeyFits, HeldKeyFits, Idle, NoRecord, Shared
  <1>2. TypeOK /\ SlotInv /\ RegistryInv /\ CurrentKeyInv /\ [Next]_vars => CurrentKeyInv'
    <2> SUFFICES ASSUME TypeOK, SlotInv, RegistryInv, CurrentKeyInv, [Next]_vars
                 PROVE  CurrentKeyInv'
      OBVIOUS
    <2>1. ASSUME NEW j \in Jobs, JobStep(j) PROVE CurrentKeyInv' BY <2>1, CurrentKeyKept
    <2>2. CASE Restart
      BY <2>2 DEF Restart, CurrentKeyInv, RecordFits, KeptKeyFits, JobKeyInv, ReadIsCurrent,
                  SavedKeyFits, WrittenKeyFits, HeldKeyFits, Idle, NoRecord, Shared
    <2>3. CASE UNCHANGED vars
      BY <2>3 DEF vars, keyVars, CurrentKeyInv, RecordFits, KeptKeyFits, Unsettled, JobKeyInv,
                  ReadIsCurrent, SavedKeyFits, WrittenKeyFits, HeldKeyFits
    <2> QED BY <2>1, <2>2, <2>3 DEF Next, JobStep
  <1> QED BY <1>1, <1>2, QueueCorrect, RegistryCorrect, PTL DEF Spec

\* "A change or reset cannot run between reading the key and using it" (sync-service.ts, begin):
\* a key in hand is the user's key, for any number of jobs, and across restarts.
THEOREM KeyInHandCorrect == ASSUME NoWriteIsLost PROVE Spec => []KeyInHandIsCurrent
  <1>1. CurrentKeyInv => KeyInHandIsCurrent
    BY DEF CurrentKeyInv, JobKeyInv, HeldKeyFits, KeyInHandIsCurrent
  <1> QED BY <1>1, CurrentKeyCorrect, PTL

\* Between operations the unlocked key and the wrapped copy are those of the record, so resolve
\* may hand out an unlocked key without checking it.
THEOREM KeptKeysCorrect == ASSUME NoWriteIsLost PROVE Spec => []KeptKeysFit
  <1>1. SlotInv /\ CurrentKeyInv => KeptKeysFit
    BY DEF SlotInv, InSlot, CurrentKeyInv, RecordFits, KeptKeyFits, Unsettled, KeptKeysFit,
           Operations, Rekeying
  <1> QED BY <1>1, QueueCorrect, CurrentKeyCorrect, PTL

-----------------------------------------------------------------------------
(* The PINs. *)

\* The PINs a user's database holds.
PinsOf(u) == pins[Home[u]]
PinsFit(u) == \A c \in Connections : PinsOf(u)[c] # None => PinsOf(u)[c] = record[u].check
\* A change wrote the key record and its PINs are not committed.
RecordAhead(j) == job[j].op = "change" /\ job[j].at \in {"keyWritten", "commitFailed"}

\* Nobody sets up or switches databases.
AtHome ==
  /\ \A u \in Users : database[u] = Home[u]
  /\ \A j \in Jobs : job[j].op \in Shared \cup Rekeying => job[j].db = Home[Owner[j]]

\* What a change relies on to put the record back, what it re-encrypts, what a reset cleared, and
\* the PIN of a run.
JobPinsInv(j) ==
  /\ RecordAhead(j) =>
       \A c \in Connections : PinsOf(Owner[j])[c] # None => PinsOf(Owner[j])[c] = job[j].read.check
  /\ (job[j].op = "change" /\ job[j].at \in {"reencrypted", "keyWritten"}) =>
       job[j].rows = {c \in Connections : PinsOf(Owner[j])[c] # None}
  /\ (job[j].op = "reset" /\ job[j].at = "cleared") =>
       \A c \in Connections : PinsOf(Owner[j])[c] = None
  /\ (job[j].at = "running" /\ job[j].pin # None) => job[j].pin = job[j].key

PinsInv ==
  /\ AtHome
  /\ \A u \in Users : PinsFit(u) \/ \E j \in Jobs : Owner[j] = u /\ RecordAhead(j)
  /\ \A j \in Jobs : JobPinsInv(j)

\* A job keeps its operation and its database until it is done.
JobMoves(j) ==
  \/ Acquire(j)
  \/ job'[j].op = job[j].op /\ job'[j].db = job[j].db
  \/ job'[j].op \notin Shared \cup Rekeying

\* A job's operation and database change only when it arrives and when it is done.
LEMMA JobMove ==
  ASSUME TypeOK, NEW j \in Jobs, JobStep(j)
  PROVE  JobMoves(j)
  <1>a. job \in [Jobs -> JobState] BY DEF TypeOK
  <1> USE <1>a DEF JobMoves, Finish, Idle, JobState, Shared, Rekeying, Operations
  <1>1. CASE Acquire(j) BY <1>1 DEF Acquire
  <1>2. CASE SubmitOperation(j) BY <1>2 DEF SubmitOperation
  <1>3. CASE BeginSave(j) BY <1>3 DEF BeginSave
  <1>4. CASE ReadRecord(j) BY <1>4 DEF ReadRecord
  <1>5. CASE StartShared(j) BY <1>5 DEF StartShared
  <1>6. CASE RefuseShared(j) BY <1>6 DEF RefuseShared
  <1>7. CASE Resolve(j) BY <1>7 DEF Resolve
  <1>8. CASE ResolveFails(j) BY <1>8 DEF ResolveFails
  <1>9. CASE WritePin(j) BY <1>9 DEF WritePin
  <1>10. CASE ReadConnection(j) BY <1>10 DEF ReadConnection
  <1>11. CASE FinishShared(j) BY <1>11 DEF FinishShared
  <1>12. CASE CreateKey(j) BY <1>12 DEF CreateKey
  <1>13. CASE SaveMode(j) BY <1>13 DEF SaveMode
  <1>14. CASE FinishOperation(j) BY <1>14 DEF FinishOperation
  <1>15. CASE Unlock(j) BY <1>15 DEF Unlock
  <1>16. CASE Lock(j) BY <1>16 DEF Lock
  <1>17. CASE OperationFails(j) BY <1>17 DEF OperationFails
  <1>18. CASE SubmitRekeying(j) BY <1>18 DEF SubmitRekeying
  <1>19. CASE BeginRekeying(j) BY <1>19 DEF BeginRekeying
  <1>20. CASE RefuseRekeying(j) BY <1>20 DEF RefuseRekeying
  <1>21. CASE CheckOldKey(j) BY <1>21 DEF CheckOldKey
  <1>22. CASE ReencryptPins(j)
    <2>1. PICK rows : job' = [job EXCEPT ![j].at = "reencrypted", ![j].rows = rows]
      BY <1>22 DEF ReencryptPins
    <2> QED BY <2>1
  <1>23. CASE WriteKey(j) BY <1>23 DEF WriteKey
  <1>24. CASE Commit(j) BY <1>24 DEF Commit
  <1>25. CASE CommitFails(j) BY <1>25 DEF CommitFails
  <1>26. CASE RestoreKey(j) BY <1>26 DEF RestoreKey
  <1>27. CASE FinishChange(j) BY <1>27 DEF FinishChange
  <1>28. CASE ClearPins(j) BY <1>28 DEF ClearPins
  <1>29. CASE DeleteKey(j) BY <1>29 DEF DeleteKey
  <1>30. CASE FinishReset(j) BY <1>30 DEF FinishReset
  <1>31. CASE RekeyingFails(j) BY <1>31 DEF RekeyingFails
  <1>32. CASE SaveDatabase(j) BY <1>32 DEF SaveDatabase
  <1>33. CASE FinishSave(j) BY <1>33 DEF FinishSave
  <1>34. CASE LoseAnswer(j) BY <1>34 DEF LoseAnswer
  <1>35. CASE RestoreFails(j) BY <1>35 DEF RestoreFails
  <1> QED BY <1>1, <1>2, <1>3, <1>4, <1>5, <1>6, <1>7, <1>8, <1>9, <1>10, <1>11, <1>12, <1>13,
       <1>14, <1>15, <1>16, <1>17, <1>18, <1>19, <1>20, <1>21, <1>22, <1>23, <1>24, <1>25,
       <1>26, <1>27, <1>28, <1>29, <1>30, <1>31, <1>32, <1>33, <1>34, <1>35 DEF JobStep, Arrive,
       Step, SharedStep, OperationStep, RekeyingStep, SaveStep

\* Without setup and switch every save saves the same database.
LEMMA HomeKept ==
  ASSUME Faults = {}, TypeOK, SlotInv, AtHome, NEW j \in Jobs, JobStep(j)
  PROVE  AtHome'
  <1>1. \A u \in Users : database'[u] = Home[u]
    <2>1. CASE SaveDatabase(j) 
      BY <2>1 DEF SaveDatabase, SaveTargets, AtHome, TypeOK
    <2>2. CASE database' = database BY <2>2 DEF AtHome
    <2>3. SaveDatabase(j) \/ database' = database
      BY Writers
    <2> QED BY <2>1, <2>2, <2>3
  <1>2. ASSUME job'[j].op \in Shared \cup Rekeying PROVE job'[j].db = Home[Owner[j]]
    <2>1. CASE Acquire(j)
      BY <2>1, OwnerIsUser DEF Acquire, AtHome, TypeOK, JobState
    <2>2. CASE job'[j].op = job[j].op /\ job'[j].db = job[j].db BY <1>2, <2>2 DEF AtHome
    <2>3. JobMoves(j)
      BY JobMove
    <2> QED BY <1>2, <2>1, <2>2, <2>3 DEF JobMoves, Idle, Shared, Rekeying, Operations
  <1>3. \A i \in Jobs \ {j} : job'[i] = job[i] BY QueueStep DEF QueueEffect
  <1> QED BY <1>1, <1>2, <1>3 DEF AtHome

\* Only a job that shares or excludes writes PINs, and only in its user's own database.
PinsEffect(j) ==
  /\ \A u \in Users \ {Owner[j]} : PinsOf(u)' = PinsOf(u)
  /\ pins' = pins \/ InShared(j) \/ InExclusive(j)

\* Nobody writes PINs unregistered, or another user's PINs.
LEMMA PinsStep ==
  ASSUME Faults = {}, TypeOK, AtHome, NEW j \in Jobs, JobStep(j)
  PROVE  PinsEffect(j)
  <1>1. \/ pins' = pins
        \/ /\ InShared(j) \/ InExclusive(j)
           /\ job[j].op \in Shared \cup Rekeying
           /\ \E f : pins' = [pins EXCEPT ![job[j].db] = f]
    <2>1. CASE WritePin(j) BY <2>1 DEF WritePin, InShared, Shared
    <2>2. CASE Commit(j) BY <2>2 DEF Commit, CommitPins, InExclusive, Rekeying
    <2>3. CASE ClearPins(j) BY <2>3 DEF ClearPins, InExclusive, Rekeying
    <2>4. WritePin(j) \/ Commit(j) \/ ClearPins(j) \/ pins' = pins
      BY Writers DEF LoseAnswer
    <2> QED BY <2>1, <2>2, <2>3, <2>4
  <1>2. CASE pins' = pins BY <1>2 DEF PinsEffect, PinsOf
  <1>3. CASE /\ InShared(j) \/ InExclusive(j)
             /\ job[j].op \in Shared \cup Rekeying
             /\ \E f : pins' = [pins EXCEPT ![job[j].db] = f]
    <2>1. job[j].db = Home[Owner[j]] BY <1>3 DEF AtHome
    <2>2. \A u \in Users \ {Owner[j]} : Home[u] # Home[Owner[j]] /\ Home[u] \in Databases
      BY KeyAssumption, OwnerIsUser DEF KeyConstants
    <2> QED BY <1>3, <2>1, <2>2 DEF PinsEffect, PinsOf, TypeOK
  <1> QED BY <1>1, <1>2, <1>3

\* Nobody else of the user is rekeying while a job shares, excludes, or is in front of the queue.
LEMMA AloneInRekeying ==
  ASSUME SlotInv, RegistryInv, NEW j \in Jobs, InShared(j) \/ InExclusive(j) \/ AtHead(j),
         NEW i \in Jobs \ {j}, Owner[i] = Owner[j]
  PROVE  ~(job[i].op \in Rekeying /\ job[i].at \notin {"acquired", "queued"})
  <1> SUFFICES ASSUME job[i].op \in Rekeying, job[i].at \notin {"acquired", "queued"} PROVE FALSE
    OBVIOUS
  <1>1. InSlot(i) /\ InExclusive(i) /\ AtHead(i) BY DEF InSlot, InExclusive, SlotInv
  <1>2. CASE AtHead(j) BY <1>1, <1>2 DEF AtHead
  <1>3. CASE InExclusive(j) BY <1>1, <1>3 DEF RegistryInv
  <1>4. CASE InShared(j)
    <2>1. busyRuns[Owner[j]] = 0 BY <1>1, OwnerIsUser DEF RegistryInv
    <2>2. SharedJobs(Owner[j]) # {} BY <1>4 DEF SharedJobs
    <2>3. IsFiniteSet(SharedJobs(Owner[j]))
      BY KeyAssumption, FS_Subset DEF KeyConstants, SharedJobs
    <2> QED BY <2>1, <2>2, <2>3, FS_EmptySet, OwnerIsUser DEF RegistryInv
  <1> QED BY <1>2, <1>3, <1>4

\* A change or reset of another job of the user sees no PIN written: it has the user for itself.
LEMMA OtherJobPins ==
  ASSUME Faults = {}, TypeOK, SlotInv, RegistryInv, PinsInv, NEW j \in Jobs, JobStep(j),
         NEW i \in Jobs \ {j}
  PROVE  JobPinsInv(i)'
  <1>1. job'[i] = job[i] /\ PinsEffect(j) /\ JobPinsInv(i)
    BY QueueStep, PinsStep DEF QueueEffect, PinsInv
  <1>2. CASE job[i].op \in Rekeying /\ job[i].at \notin {"acquired", "queued"}
    <2>1. PinsOf(Owner[i])' = PinsOf(Owner[i])
      BY <1>1, <1>2, AloneInRekeying, OwnerIsUser DEF PinsEffect, PinsOf
    <2> QED BY <1>1, <2>1 DEF JobPinsInv, RecordAhead
  <1>3. CASE ~(job[i].op \in Rekeying /\ job[i].at \notin {"acquired", "queued"})
    BY <1>1, <1>3 DEF JobPinsInv, RecordAhead, Rekeying
  <1> QED BY <1>2, <1>3

\* A step leaves its own part fitting; the PINs fit, or the record is ahead of them.
OwnPinsEffect(j) ==
  /\ JobPinsInv(j)'
  /\ \/ PinsFit(Owner[j])'
     \/ RecordAhead(j)'
     \/ record'[Owner[j]] = record[Owner[j]] /\ PinsOf(Owner[j])' = PinsOf(Owner[j]) /\ ~RecordAhead(j)

\* The job's own part, action by action.
LEMMA OwnJobPins ==
  ASSUME Faults = {}, TypeOK, SlotInv, RegistryInv, CurrentKeyInv, PinsInv,
         NEW j \in Jobs, JobStep(j)
  PROVE  OwnPinsEffect(j)
  <1>a. /\ job \in [Jobs -> JobState] /\ job' \in [Jobs -> JobState]
        /\ record \in [Users -> KeyRecord \cup {NoRecord}]
        /\ pins \in [Databases -> [Connections -> Keys \cup {None}]]
        /\ Owner[j] \in Users
        /\ Home[Owner[j]] \in Databases
        /\ None \notin Keys
    BY OwnerIsUser, JobTyping, KeyAssumption DEF TypeOK, KeyConstants
  <1>b. JobPinsInv(j) /\ JobKeyInv(j) /\ (InSlot(j) => AtHead(j))
    BY DEF CurrentKeyInv, PinsInv, SlotInv
  <1>c. (InShared(j) \/ InExclusive(j) \/ AtHead(j)) => PinsFit(Owner[j]) \/ RecordAhead(j)
    BY <1>a, AloneInRekeying DEF PinsInv, RecordAhead, Rekeying
  <1>d. job[j].op \in Shared \cup Rekeying => job[j].db = Home[Owner[j]] BY DEF PinsInv, AtHome
  <1>e. "lostAck" \notin Faults /\ "restoreFails" \notin Faults OBVIOUS
  <1>f. ASSUME ReencryptPins(j)
        PROVE  /\ job'[j].at = "reencrypted" /\ job'[j].op = "change"
               /\ job'[j].rows = {c \in Connections : PinsOf(Owner[j])[c] # None}
    <2> DEFINE stored == {c \in Connections : PinsOf(Owner[j])[c] # None}
    <2>1. job[j].op = "change" /\ job[j].db = Home[Owner[j]]
      BY <1>d, <1>f DEF ReencryptPins, Rekeying
    <2>2. job' = [job EXCEPT ![j].at = "reencrypted", ![j].rows = stored]
      BY <1>f, <2>1 DEF ReencryptPins, PinsOf
    <2> HIDE DEF stored
    <2>3. job'[j].at = "reencrypted" /\ job'[j].op = "change" /\ job'[j].rows = stored
      BY <1>a, <2>1, <2>2 DEF JobState
    <2> QED BY <2>3 DEF stored
  <1>g. ASSUME ReadConnection(j)
        PROVE  /\ job'[j].at = "running" /\ job'[j].op = "run" /\ job'[j].key = job[j].key
               /\ \E c \in Connections : job'[j].pin = PinsOf(Owner[j])[c]
    <2>1. job[j].op = "run" /\ job[j].db = Home[Owner[j]] BY <1>d, <1>g DEF ReadConnection, Shared
    <2>2. PICK c \in Connections :
            job' = [job EXCEPT ![j].at = "running", ![j].pin = PinsOf(Owner[j])[c]]
      BY <1>g, <2>1 DEF ReadConnection, PinsOf
    <2>3. /\ job'[j].at = "running" /\ job'[j].op = "run" /\ job'[j].key = job[j].key
          /\ job'[j].pin = PinsOf(Owner[j])[c]
      BY <1>a, <2>1, <2>2 DEF JobState
    <2> QED BY <2>3
  <1> USE <1>a, <1>b, <1>c, <1>d, <1>e
      DEF OwnPinsEffect, JobPinsInv, PinsFit, PinsOf, RecordAhead, InShared, InExclusive,
          JobKeyInv, ReadIsCurrent, WrittenKeyFits, HeldKeyFits,
          InSlot, Waiting, Finish, Idle, JobState, KeyRecord, NoRecord, NewRecord, ReplaceRecord,
          CommitPins, Shared, Rekeying, Operations
  <1>1. CASE Acquire(j) BY <1>1 DEF Acquire
  <1>2. CASE SubmitOperation(j) BY <1>2 DEF SubmitOperation
  <1>3. CASE BeginSave(j) BY <1>3 DEF BeginSave
  <1>4. CASE ReadRecord(j) BY <1>4 DEF ReadRecord
  <1>5. CASE StartShared(j) BY <1>5 DEF StartShared
  <1>6. CASE RefuseShared(j) BY <1>6 DEF RefuseShared
  <1>7. CASE Resolve(j) BY <1>7 DEF Resolve
  <1>8. CASE ResolveFails(j) BY <1>8 DEF ResolveFails
  <1>9. CASE WritePin(j) BY <1>9 DEF WritePin
  <1>10. CASE ReadConnection(j)
    <2>1. /\ job[j].op = "run" /\ job[j].at = "resolved" /\ job[j].db = Home[Owner[j]]
          /\ record' = record /\ pins' = pins
      BY <1>10 DEF ReadConnection
    <2>3. PinsFit(Owner[j]) /\ job[j].key = record[Owner[j]].check BY <2>1
    <2>4. /\ job'[j].at = "running" /\ job'[j].op = "run" /\ job'[j].key = job[j].key
          /\ \E c \in Connections : job'[j].pin = PinsOf(Owner[j])[c]
      BY <1>10, <1>g
    <2> QED BY <2>1, <2>3, <2>4
  <1>11. CASE FinishShared(j) BY <1>11 DEF FinishShared
  <1>12. CASE CreateKey(j) BY <1>12 DEF CreateKey
  <1>13. CASE SaveMode(j) BY <1>13 DEF SaveMode
  <1>14. CASE FinishOperation(j) BY <1>14 DEF FinishOperation
  <1>15. CASE Unlock(j) BY <1>15 DEF Unlock
  <1>16. CASE Lock(j) BY <1>16 DEF Lock
  <1>17. CASE OperationFails(j) BY <1>17 DEF OperationFails
  <1>18. CASE SubmitRekeying(j) BY <1>18 DEF SubmitRekeying
  <1>19. CASE BeginRekeying(j) BY <1>19 DEF BeginRekeying
  <1>20. CASE RefuseRekeying(j) BY <1>20 DEF RefuseRekeying
  <1>21. CASE CheckOldKey(j) BY <1>21 DEF CheckOldKey
  <1>22. CASE ReencryptPins(j)
    <2>1. /\ job[j].op = "change" /\ job[j].at = "read" /\ job[j].db = Home[Owner[j]]
          /\ record' = record /\ pins' = pins
      BY <1>22 DEF ReencryptPins
    <2>3. /\ job'[j].at = "reencrypted" /\ job'[j].op = "change"
          /\ job'[j].rows = {c \in Connections : PinsOf(Owner[j])[c] # None}
      BY <1>22, <1>f
    <2> QED BY <2>1, <2>3
  <1>23. CASE WriteKey(j)
    <2>1. /\ job[j].op = "change" /\ job[j].at = "reencrypted" /\ pins' = pins
          /\ job' = [job EXCEPT ![j].at = "keyWritten"]
      BY <1>23, KeyAssumption DEF WriteKey, KeyConstants
    <2>2. PinsFit(Owner[j]) /\ job[j].read = record[Owner[j]] BY <2>1
    <2>3. /\ job'[j].at = "keyWritten" /\ job'[j].op = "change"
          /\ job'[j].read = job[j].read /\ job'[j].rows = job[j].rows
      BY <2>1
    <2> QED BY <2>1, <2>2, <2>3
  <1>24. CASE Commit(j) BY <1>24 DEF Commit
  <1>25. CASE CommitFails(j) BY <1>25 DEF CommitFails
  <1>26. CASE RestoreKey(j) BY <1>26 DEF RestoreKey
  <1>27. CASE FinishChange(j) BY <1>27 DEF FinishChange
  <1>28. CASE ClearPins(j)
    <2>1. job[j].op = "reset" /\ job[j].db = Home[Owner[j]] /\ record' = record
          /\ job'[j].op = "reset" /\ job'[j].at = "cleared"
      BY <1>28 DEF ClearPins
    <2>2. pins' = [pins EXCEPT ![Home[Owner[j]]] = [c \in Connections |-> None]]
      BY <1>28, <2>1, KeyAssumption DEF ClearPins, KeyConstants
    <2>3. \A c \in Connections : PinsOf(Owner[j])'[c] = None BY <2>2
    <2> QED BY <2>1, <2>3
  <1>29. CASE DeleteKey(j) BY <1>29 DEF DeleteKey
  <1>30. CASE FinishReset(j) BY <1>30 DEF FinishReset
  <1>31. CASE RekeyingFails(j) BY <1>31 DEF RekeyingFails
  <1>32. CASE SaveDatabase(j) BY <1>32 DEF SaveDatabase
  <1>33. CASE FinishSave(j) BY <1>33 DEF FinishSave
  <1>34. CASE LoseAnswer(j) BY <1>34 DEF LoseAnswer
  <1>35. CASE RestoreFails(j) BY <1>35 DEF RestoreFails
  <1> QED BY <1>1, <1>2, <1>3, <1>4, <1>5, <1>6, <1>7, <1>8, <1>9, <1>10, <1>11, <1>12, <1>13,
       <1>14, <1>15, <1>16, <1>17, <1>18, <1>19, <1>20, <1>21, <1>22, <1>23, <1>24, <1>25,
       <1>26, <1>27, <1>28, <1>29, <1>30, <1>31, <1>32, <1>33, <1>34, <1>35 DEF JobStep, Arrive,
       Step, SharedStep, OperationStep, RekeyingStep, SaveStep

\* A job's step keeps the invariant: its own part, the others' parts, and every user's PINs.
LEMMA PinsKept ==
  ASSUME Faults = {}, TypeOK, SlotInv, RegistryInv, CurrentKeyInv, PinsInv,
         NEW j \in Jobs, JobStep(j)
  PROVE  PinsInv'
  <1>1. /\ AtHome'
        /\ \A i \in Jobs \ {j} : JobPinsInv(i)' /\ job'[i] = job[i]
        /\ OwnPinsEffect(j)
        /\ PinsEffect(j)
        /\ KeyEffect(j)
        /\ Owner[j] \in Users
    BY HomeKept, OtherJobPins, OwnJobPins, PinsStep, KeyStep, QueueStep, OwnerIsUser
       DEF PinsInv, QueueEffect, NoWriteIsLost
  <1>2. \A i \in Jobs : JobPinsInv(i)' BY <1>1 DEF OwnPinsEffect
  <1>3. ASSUME NEW u \in Users
        PROVE  PinsFit(u)' \/ \E i \in Jobs : Owner[i] = u /\ RecordAhead(i)'
    <2>1. PinsFit(u) \/ \E i \in Jobs : Owner[i] = u /\ RecordAhead(i) BY DEF PinsInv
    <2>2. \A i \in Jobs \ {j} : RecordAhead(i) => RecordAhead(i)' BY <1>1 DEF RecordAhead
    <2>3. CASE \/ u # Owner[j]
               \/ /\ record'[Owner[j]] = record[Owner[j]]
                  /\ PinsOf(Owner[j])' = PinsOf(Owner[j])
                  /\ ~RecordAhead(j)
      <3>1. record'[u] = record[u] /\ PinsOf(u)' = PinsOf(u)
        BY <1>1, <2>3 DEF KeyEffect, PinsEffect, PinsOf
      <3>2. PinsFit(u) => PinsFit(u)' BY <3>1 DEF PinsFit
      <3> QED BY <2>1, <2>2, <2>3, <3>2
    <2>4. CASE u = Owner[j] /\ (PinsFit(u)' \/ RecordAhead(j)') BY <2>4
    <2> QED BY <1>1, <2>3, <2>4 DEF OwnPinsEffect
  <1> QED BY <1>1, <1>2, <1>3 DEF PinsInv

\* Which key the PINs are under is clear in every state, if every error is one the code handles.
THEOREM PinsInvariant == ASSUME Faults = {} PROVE Spec => []PinsInv
  <1>1. Init => PinsInv
    BY KeyAssumption DEF KeyConstants, Init, PinsInv, AtHome, PinsFit, PinsOf, JobPinsInv, RecordAhead, Idle,
                         Shared, Rekeying
  <1>2. TypeOK /\ SlotInv /\ RegistryInv /\ CurrentKeyInv /\ PinsInv /\ [Next]_vars => PinsInv'
    <2> SUFFICES ASSUME TypeOK, SlotInv, RegistryInv, CurrentKeyInv, PinsInv, [Next]_vars
                 PROVE  PinsInv'
      OBVIOUS
    <2>1. ASSUME NEW j \in Jobs, JobStep(j) PROVE PinsInv' BY <2>1, PinsKept
    <2>2. CASE UNCHANGED vars
      BY <2>2 DEF vars, keyVars, PinsInv, AtHome, PinsFit, PinsOf, JobPinsInv, RecordAhead
    <2> QED BY <2>1, <2>2 DEF Next, JobStep, Restart
  <1>3. NoWriteIsLost BY DEF NoWriteIsLost
  <1> QED BY <1>1, <1>2, <1>3, QueueCorrect, RegistryCorrect, CurrentKeyCorrect, PTL DEF Spec

\* "The check value always matches the key the PINs are under" (rekeyPins, user-keys.ts), if every
\* error is one the code handles: failed queries and commits, refused and wrong keys.
THEOREM PinsCorrect == ASSUME Faults = {} PROVE Spec => []PinsFitCheck
  <1>1. PinsInv => PinsFitCheck
    BY DEF PinsInv, AtHome, PinsFit, PinsOf, RecordAhead, BetweenDatabases, PinsFitCheck
  <1> QED BY <1>1, PinsInvariant, PTL

\* A run never meets a PIN under a key that is not in its hand, under the same assumption.
THEOREM RunsCorrect == ASSUME Faults = {} PROVE Spec => []RunsDecrypt
  <1>1. PinsInv => RunsDecrypt BY DEF PinsInv, JobPinsInv, RunsDecrypt
  <1> QED BY <1>1, PinsInvariant, PTL
=============================================================================
