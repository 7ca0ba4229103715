------------------------ MODULE PoolConnectionsProofs ------------------------
(***************************************************************************)
(* Theorems about PoolConnections for any connections, runs and requests:  *)
(* the pool's bookkeeping (PoolInv, inductive), and that with fewer runs   *)
(* in flight than the pool has connections they never all wait for one     *)
(* another.                                                                *)
(***************************************************************************)
EXTENDS PoolConnections, FiniteSetTheorems, SequenceTheorems, TLAPS

-----------------------------------------------------------------------------
(* The queue. *)

\* The queue without its first place.
LEMMA WithoutHead ==
  ASSUME NEW T, NEW s \in Seq(T), s # <<>>, IsInjective(s)
  PROVE  /\ Head(s) \in T /\ Head(s) \in Range(s)
         /\ Tail(s) \in Seq(T) /\ IsInjective(Tail(s))
         /\ Range(Tail(s)) \subseteq Range(s) \ {Head(s)}
  <1>1. /\ Head(s) \in T /\ Tail(s) \in Seq(T) /\ Len(Tail(s)) = Len(s) - 1
        /\ \A i \in 1 .. Len(Tail(s)) : Tail(s)[i] = s[i + 1]
    BY HeadTailProperties
  <1>2. Len(s) \in Nat /\ Len(s) # 0 /\ DOMAIN s = 1 .. Len(s) /\ DOMAIN Tail(s) = 1 .. Len(Tail(s))
    BY <1>1, LenProperties, EmptySeq
  <1>3. Head(s) = s[1] OBVIOUS
  <1>4. \A i \in DOMAIN Tail(s) : i + 1 \in DOMAIN s /\ i + 1 # 1 /\ Tail(s)[i] = s[i + 1]
    BY <1>1, <1>2
  <1>5. IsInjective(Tail(s))
    <2> SUFFICES ASSUME NEW i \in DOMAIN Tail(s), NEW j \in DOMAIN Tail(s), Tail(s)[i] = Tail(s)[j]
                 PROVE  i = j
      BY DEF IsInjective
    <2>1. i + 1 = j + 1 BY <1>4 DEF IsInjective
    <2> QED BY <2>1, <1>2, <1>1
  <1>6. Range(Tail(s)) \subseteq Range(s) \ {Head(s)}
    <2> SUFFICES ASSUME NEW i \in DOMAIN Tail(s) PROVE Tail(s)[i] \in Range(s) \ {s[1]}
      BY <1>3 DEF Range
    <2>1. 1 \in DOMAIN s BY <1>2
    <2> QED BY <1>4, <2>1 DEF IsInjective, Range
  <1>7. Head(s) \in Range(s)
    <2>1. 1 \in DOMAIN s BY <1>2
    <2> QED BY <2>1, <1>3 DEF Range
  <1> QED BY <1>1, <1>5, <1>6, <1>7

\* The queue with one more place.
LEMMA WithOneMore ==
  ASSUME NEW T, NEW s \in Seq(T), IsInjective(s), NEW t \in T, t \notin Range(s)
  PROVE  /\ Append(s, t) \in Seq(T) /\ IsInjective(Append(s, t))
         /\ Range(Append(s, t)) = Range(s) \cup {t}
  <1>1. /\ Append(s, t) \in Seq(T) /\ Len(Append(s, t)) = Len(s) + 1
        /\ \A i \in 1 .. Len(s) : Append(s, t)[i] = s[i]
        /\ Append(s, t)[Len(s) + 1] = t
    BY AppendProperties
  <1>2. /\ Len(s) \in Nat /\ DOMAIN s = 1 .. Len(s)
        /\ DOMAIN Append(s, t) = 1 .. Len(s) + 1
    BY <1>1, LenProperties
  <1>3. DOMAIN Append(s, t) = DOMAIN s \cup {Len(s) + 1} /\ Len(s) + 1 \notin DOMAIN s
    BY <1>2
  <1>4. \A i \in DOMAIN s : Append(s, t)[i] = s[i] /\ s[i] # t BY <1>1, <1>2 DEF Range
  <1>5. IsInjective(Append(s, t)) BY <1>1, <1>3, <1>4 DEF IsInjective
  <1>6. Range(Append(s, t)) = Range(s) \cup {t} BY <1>1, <1>3, <1>4 DEF Range
  <1> QED BY <1>1, <1>5, <1>6

-----------------------------------------------------------------------------
(* The inductive invariant. *)

\* Each task is where a task of its kind can be.
Stages ==
  /\ \A r \in Runs : stage[r] \in RunStages
  /\ \A q \in Requests : stage[q] \in {"idle", "querying"}

\* No task has two connections for the same thing.
Distinct == \A c, d \in Slots : owner[c] # None /\ owner[c] = owner[d] => c = d

PoolInv == TypeOK /\ QueueFits /\ NoneKept /\ Stages /\ Distinct

\* What a task needs, by its stage.
LEMMA NeedsByStage ==
  ASSUME NEW t
  PROVE  /\ Needs(t) \in {"lock", "query", "nothing"}
         /\ Needs(t) = "lock" <=> stage[t] = "locking"
         /\ Needs(t) = "query" <=> stage[t] \in Querying
  BY DEF Needs, Querying

\* What a connection is used for is a use, and not null.
LEMMA UseIsUse ==
  ASSUME PoolInv, NEW t \in Tasks, Wants(t)
  PROVE  Use(t) \in Uses /\ Use(t) # None
  <1>1. Needs(t) \in {"lock", "query"} BY NeedsByStage DEF Wants
  <1>2. Needs(t) = "lock" => t \in Runs
    BY NeedsByStage, "locking" \notin {"idle", "querying"} DEF PoolInv, Stages, Tasks
  <1> QED BY <1>1, <1>2, PoolAssumption DEF Use, Uses, PoolAssumptions, Tasks

-----------------------------------------------------------------------------
(* Each kind of step keeps it. *)

LEMMA InitPool == Init => PoolInv
  <1> SUFFICES ASSUME Init PROVE PoolInv OBVIOUS
  <1>1. TypeOK BY DEF Init, TypeOK, RunStages, IsInjective
  <1>2. QueueFits BY DEF Init, QueueFits, Waits, Range
  <1> QED BY <1>1, <1>2 DEF Init, PoolInv, NoneKept, Stages, RunStages, Distinct, Tasks

\* A task asks: nothing another task has or waits for changes.
LEMMA AskPool == ASSUME PoolInv, NEW t \in Tasks, Ask(t) PROVE PoolInv'
  <1>1. Wants(t) /\ ~Waits(t) /\ TakeOrWait(t) /\ stage' = stage /\ tanShown' = tanShown
    BY DEF Ask
  <1>2. Stages' BY <1>1 DEF PoolInv, Stages
  <1>3. Use(t) \in Uses /\ Use(t) # None BY <1>1, UseIsUse
  <1>4. stage[t] # "idle" /\ (Needs(t) = "query" <=> stage[t] \in Querying)
    BY <1>1, NeedsByStage DEF Wants, Querying
  <1>5. CASE \E c \in Slots : /\ owner[c] = None
                             /\ owner' = [owner EXCEPT ![c] = Use(t)]
                             /\ UNCHANGED queue
    <2>1. PICK c \in Slots : /\ owner[c] = None
                            /\ owner' = [owner EXCEPT ![c] = Use(t)]
                            /\ UNCHANGED queue
      BY <1>5
    <2>2. \A d \in Slots : owner'[d] = IF d = c THEN Use(t) ELSE owner[d]
      BY <2>1 DEF PoolInv, TypeOK
    <2>3. queue = <<>> /\ queue' = <<>> BY <2>1 DEF PoolInv, QueueFits
    <2>4. TypeOK' BY <1>1, <1>3, <2>1, <2>3 DEF PoolInv, TypeOK
    <2>5. QueueFits' BY <2>3 DEF QueueFits, Waits, Range
    <2>6. NoneKept' BY <1>1, <1>4, <2>2 DEF PoolInv, NoneKept, Use
    <2>7. \A d \in Slots : owner[d] # Use(t) BY <1>1 DEF Wants, Holds, Use
    <2>8. Distinct' BY <2>2, <2>7 DEF PoolInv, Distinct
    <2> QED BY <1>2, <2>4, <2>5, <2>6, <2>8 DEF PoolInv
  <1>6. CASE /\ \A c \in Slots : owner[c] # None
             /\ queue' = Append(queue, t)
             /\ UNCHANGED owner
    <2>1. queue' \in Seq(Tasks) /\ IsInjective(queue') /\ Range(queue') = Range(queue) \cup {t}
      BY <1>1, <1>6, WithOneMore DEF PoolInv, TypeOK, Waits
    <2>2. TypeOK' BY <1>1, <1>6, <2>1 DEF PoolInv, TypeOK
    <2>3. \A u : Wants(u)' <=> Wants(u) BY <1>1, <1>6 DEF Wants, Needs, Holds
    <2>4. QueueFits' BY <1>1, <1>6, <2>1, <2>3 DEF PoolInv, QueueFits, Waits
    <2>5. NoneKept' /\ Distinct' BY <1>1, <1>6 DEF PoolInv, NoneKept, Distinct
    <2> QED BY <1>2, <2>2, <2>4, <2>5 DEF PoolInv
  <1> QED BY <1>1, <1>5, <1>6 DEF TakeOrWait

\* A task that needs no connection changes its stage: from idle, where it has none, or to a stage
\* where it may keep the one of its lock.
LEMMA MovePool ==
  ASSUME PoolInv, NEW t \in Tasks, NEW s \in RunStages \cup {"querying"},
         Move(t, s), UNCHANGED <<owner, queue>>, tanShown' \subseteq Runs, Stages',
         s # "idle", ~Wants(t), \A c \in Slots : owner[c] # [task |-> t, role |-> "query"]
  PROVE  PoolInv'
  <1>1. \A u \in Tasks : stage'[u] = IF u = t THEN s ELSE stage[u]
    BY DEF Move, PoolInv, TypeOK
  <1>2. TypeOK' BY DEF PoolInv, TypeOK, Move
  <1>3. \A u \in Tasks : Waits(u)' => u # t /\ Waits(u) BY DEF PoolInv, QueueFits, Waits
  <1>4. \A u \in Tasks : u # t => (Wants(u)' <=> Wants(u)) BY <1>1 DEF Wants, Needs, Holds
  <1>5. QueueFits' BY <1>3, <1>4 DEF PoolInv, QueueFits
  <1>6. \A c \in Slots : owner[c] # None => owner[c].task \in Tasks /\ owner[c] \in Uses
    BY DEF PoolInv, TypeOK, Uses, Tasks
  <1>7. \A c \in Slots : owner[c] # None /\ owner[c].task = t => owner[c].role # "query"
    BY <1>6 DEF Uses
  <1>8. NoneKept' BY <1>1, <1>6, <1>7 DEF PoolInv, NoneKept
  <1>9. Distinct' BY DEF PoolInv, Distinct
  <1> QED BY <1>2, <1>5, <1>8, <1>9 DEF PoolInv

\* A task gives one connection back: it goes to the first of the queue, or back to the pool.
LEMMA ReleasePool ==
  ASSUME PoolInv, NEW t \in Tasks, NEW role \in {"lock", "query"},
         NEW s \in RunStages \cup {"querying"},
         Release(t, role), ~Waits(t), Move(t, s), tanShown' \subseteq Runs, Stages',
         \A c \in Slots : owner[c] = [task |-> t, role |-> "query"] => role = "query",
         s = "idle" => \A c \in Slots : owner[c] # None /\ owner[c].task = t => owner[c].role = role
  PROVE  PoolInv'
  <1> DEFINE mine == [task |-> t, role |-> role]
  <1>1. PICK c \in Slots : owner[c] = mine /\ GiveBack(c) BY DEF Release
  <1>2. mine # None BY PoolAssumption DEF PoolAssumptions, Tasks
  <1>3. \A u \in Tasks : stage'[u] = IF u = t THEN s ELSE stage[u]
    BY DEF Move, PoolInv, TypeOK
  <1>4. stage' \in [Tasks -> RunStages \cup {"querying"}] BY DEF PoolInv, TypeOK, Move
  <1>5. \A d \in Slots : owner[d] # None => owner[d].task \in Tasks /\ owner[d] \in Uses
    BY DEF PoolInv, TypeOK, Uses, Tasks
  <1>6. \A d \in Slots : d # c => owner[d] # mine BY <1>1, <1>2 DEF PoolInv, Distinct
  \* What the releasing task keeps fits its new stage.
  <1>7. ASSUME NEW d \in Slots, d # c, owner[d] # None
        PROVE  /\ stage'[owner[d].task] # "idle"
               /\ owner[d].role = "query" => stage'[owner[d].task] \in Querying
    <2>1. CASE owner[d].task # t BY <1>3, <1>5, <1>7, <2>1 DEF PoolInv, NoneKept
    <2>2. CASE owner[d].task = t
      <3>1. owner[d] = [task |-> t, role |-> owner[d].role] BY <1>5, <1>7, <2>2 DEF Uses
      <3>2. owner[d].role # role BY <1>6, <1>7, <3>1
      <3>3. s # "idle" BY <1>7, <2>2, <3>2
      <3>4. owner[d].role # "query" BY <3>1, <3>2
      <3> QED BY <1>3, <2>2, <3>3, <3>4
    <2> QED BY <2>1, <2>2
  <1>8. CASE queue = <<>>
    <2>1. owner' = [owner EXCEPT ![c] = None] /\ queue' = <<>> BY <1>1, <1>8 DEF GiveBack
    <2>2. \A d \in Slots : owner'[d] = IF d = c THEN None ELSE owner[d]
      BY <2>1 DEF PoolInv, TypeOK
    <2>3. TypeOK' BY <1>4, <1>8, <2>1 DEF PoolInv, TypeOK
    <2>4. QueueFits' BY <2>1 DEF QueueFits, Waits, Range
    <2>5. NoneKept' BY <1>7, <2>2 DEF NoneKept
    <2>6. Distinct' BY <2>2 DEF PoolInv, Distinct
    <2> QED BY <2>3, <2>4, <2>5, <2>6 DEF PoolInv
  <1>9. CASE queue # <<>>
    <2> DEFINE h == Head(queue)
    <2>1. owner' = [owner EXCEPT ![c] = Use(h)] /\ queue' = Tail(queue)
      BY <1>1, <1>9 DEF GiveBack
    <2>2. /\ h \in Tasks /\ Waits(h) /\ queue' \in Seq(Tasks) /\ IsInjective(queue')
          /\ Range(queue') \subseteq Range(queue) \ {h}
      BY <1>9, <2>1, WithoutHead DEF PoolInv, TypeOK, Waits
    <2>3. h # t /\ Wants(h) BY <2>2 DEF PoolInv, QueueFits
    <2>4. Use(h) \in Uses /\ Use(h) # None BY <2>2, <2>3, UseIsUse
    <2>5. \A d \in Slots : owner'[d] = IF d = c THEN Use(h) ELSE owner[d]
      BY <2>1 DEF PoolInv, TypeOK
    <2>6. TypeOK' BY <1>4, <2>1, <2>2, <2>4 DEF PoolInv, TypeOK
    <2>7. \A d \in Slots : owner'[d] # None BY <1>9, <2>4, <2>5 DEF PoolInv, QueueFits
    <2>8. ASSUME NEW u \in Tasks, Waits(u)' PROVE Wants(u)'
      <3>1. u # h /\ u # t /\ Waits(u) BY <2>2, <2>8 DEF Waits
      <3>2. Needs(u)' = Needs(u) BY <1>3, <3>1 DEF Needs
      <3>3. Wants(u) BY <3>1 DEF PoolInv, QueueFits
      <3>4. \A d \in Slots : owner'[d] # [task |-> u, role |-> Needs(u)]
        BY <2>5, <3>1, <3>3 DEF Use, Wants, Holds
      <3> QED BY <3>2, <3>3, <3>4 DEF Wants, Holds
    <2>9. QueueFits' BY <2>7, <2>8 DEF QueueFits
    <2>10. NoneKept'
      <3>1. stage'[h] = stage[h] /\ stage[h] # "idle"
            /\ (Needs(h) = "query" => stage[h] \in Querying)
        BY <1>3, <2>2, <2>3, NeedsByStage DEF Wants, Querying
      <3>2. Use(h).task = h /\ Use(h).role = Needs(h) BY DEF Use
      <3> QED BY <1>7, <2>5, <3>1, <3>2 DEF NoneKept
    <2>11. \A d \in Slots : owner[d] # Use(h) BY <2>3 DEF Wants, Holds, Use
    <2>12. Distinct' BY <2>5, <2>11 DEF PoolInv, Distinct
    <2> QED BY <2>6, <2>9, <2>10, <2>12 DEF PoolInv
  <1> QED BY <1>8, <1>9

\* Who has a connection for a query is at a query; who has one for its lock is a run.
LEMMA OwnersFit ==
  ASSUME PoolInv, NEW c \in Slots, NEW t \in Tasks
  PROVE  /\ owner[c] = [task |-> t, role |-> "query"] => stage[t] \in Querying
         /\ owner[c] # None /\ owner[c].task = t =>
              /\ owner[c] = [task |-> t, role |-> owner[c].role]
              /\ stage[t] # "idle"
              /\ owner[c].role \in {"lock", "query"}
              /\ owner[c].role = "lock" => t \in Runs
  <1>1. \A role : [task |-> t, role |-> role] # None \/ role \notin {"lock", "query"}
    BY PoolAssumption DEF PoolAssumptions, Tasks
  <1>2. owner[c] # None => owner[c] \in Uses BY DEF PoolInv, TypeOK
  <1> QED BY <1>1, <1>2 DEF PoolInv, NoneKept, Uses

LEMMA ArrivePool == ASSUME PoolInv, NEW t \in Tasks, Arrive(t) PROVE PoolInv'
  <1>1. ~Wants(t) BY NeedsByStage DEF Arrive, Wants, Querying
  <1>2. \A c \in Slots : owner[c] # [task |-> t, role |-> "query"]
    BY OwnersFit DEF Arrive, Querying
  <1>3. \A c \in Slots : owner[c] # None => owner[c].task # t BY OwnersFit DEF Arrive
  <1> DEFINE s == IF t \in Runs THEN "locking" ELSE "querying"
  <1>4. s \in RunStages \cup {"querying"} /\ s # "idle" BY DEF RunStages
  <1>5. Stages'
    BY PoolAssumption
    DEF Arrive, Move, PoolInv, Stages, TypeOK, RunStages, PoolAssumptions, Tasks
  <1>6. tanShown' \subseteq Runs BY DEF Arrive, PoolInv, TypeOK
  <1> QED BY <1>1, <1>2, <1>4, <1>5, <1>6, MovePool DEF Arrive

LEMMA AnswerPool == ASSUME PoolInv, NEW t \in Requests, Answer(t) PROVE PoolInv'
  <1>1. t \in Tasks /\ t \notin Runs BY PoolAssumption DEF Tasks, PoolAssumptions
  <1>2. Holds(t, "query") BY DEF Answer, Release, Holds
  <1>3. Needs(t) = "query" BY NeedsByStage DEF Answer, Querying
  <1>4. ~Waits(t) BY <1>1, <1>2, <1>3 DEF PoolInv, QueueFits, Wants
  <1>5. \A c \in Slots : owner[c] # None /\ owner[c].task = t => owner[c].role = "query"
    BY <1>1, OwnersFit
  <1>6. Stages' BY <1>1 DEF Answer, Move, PoolInv, Stages, TypeOK
  <1>7. tanShown' \subseteq Runs BY DEF Answer, PoolInv, TypeOK
  <1>8. "idle" \in RunStages BY DEF RunStages
  <1> QED BY <1>1, <1>4, <1>5, <1>6, <1>7, <1>8, ReleasePool DEF Answer

\* A run that gives back the connection of its query.
LEMMA QueryPool ==
  ASSUME PoolInv, NEW r \in Runs, NEW s \in RunStages, s # "idle", stage[r] \in Querying,
         Release(r, "query"), Move(r, s), tanShown' \subseteq Runs
  PROVE  PoolInv'
  <1>1. r \in Tasks BY DEF Tasks
  <1>2. Holds(r, "query") BY DEF Release, Holds
  <1>3. Needs(r) = "query" BY NeedsByStage
  <1>4. ~Waits(r) BY <1>1, <1>2, <1>3 DEF PoolInv, QueueFits, Wants
  <1>5. Stages' BY <1>1, PoolAssumption DEF Move, PoolInv, Stages, TypeOK, Tasks, PoolAssumptions
  <1> QED BY <1>1, <1>4, <1>5, ReleasePool

\* A run that gives back the connection of its lock, and is over.
LEMMA OverPool ==
  ASSUME PoolInv, NEW r \in Runs, stage[r] \in {"locking", "unlocking"},
         Release(r, "lock"), Move(r, "idle"), UNCHANGED tanShown
  PROVE  PoolInv'
  <1>1. r \in Tasks /\ stage[r] \notin Querying BY DEF Tasks, Querying
  <1>2. Holds(r, "lock") BY DEF Release, Holds
  <1>3. Needs(r) # "query" BY <1>1, NeedsByStage
  <1>4. ~Waits(r) BY <1>1, <1>2, <1>3, NeedsByStage DEF PoolInv, QueueFits, Wants
  <1>5. Stages'
    BY <1>1, PoolAssumption DEF Move, PoolInv, Stages, TypeOK, Tasks, PoolAssumptions, RunStages
  <1>6. \A c \in Slots : owner[c] # [task |-> r, role |-> "query"] BY <1>1, OwnersFit
  <1>7. \A c \in Slots : owner[c] # None /\ owner[c].task = r => owner[c].role = "lock"
    BY <1>1, <1>6, OwnersFit
  <1>8. tanShown' \subseteq Runs BY DEF PoolInv, TypeOK
  <1>9. "idle" \in RunStages BY DEF RunStages
  <1> QED BY <1>1, <1>4, <1>5, <1>6, <1>7, <1>8, <1>9, ReleasePool

\* A run that goes on without a query.
LEMMA GoOnPool ==
  ASSUME PoolInv, NEW r \in Runs, NEW s \in RunStages, s # "idle", stage[r] \notin Querying,
         ~Wants(r), Move(r, s), UNCHANGED <<owner, queue, tanShown>>
  PROVE  PoolInv'
  <1>1. r \in Tasks BY DEF Tasks
  <1>2. \A c \in Slots : owner[c] # [task |-> r, role |-> "query"] BY <1>1, OwnersFit
  <1>3. Stages' BY <1>1, PoolAssumption DEF Move, PoolInv, Stages, TypeOK, Tasks, PoolAssumptions
  <1>4. tanShown' \subseteq Runs BY DEF PoolInv, TypeOK
  <1> QED BY <1>1, <1>2, <1>3, <1>4, MovePool

LEMMA RunPool == ASSUME PoolInv, NEW r \in Runs, RunStep(r) PROVE PoolInv'
  <1> tanShown \subseteq Runs BY DEF PoolInv, TypeOK
  <1>1. CASE Lock(r)
    <2>1. ~Wants(r) /\ stage[r] \notin Querying
      BY <1>1, NeedsByStage DEF Lock, Wants, Querying
    <2> QED BY <1>1, <2>1, GoOnPool, "reading" # "idle" DEF Lock, RunStages
  <1>2. CASE LockFails(r) BY <1>2, OverPool DEF LockFails
  <1>3. CASE Read(r) BY <1>3, QueryPool DEF Read, Querying, RunStages
  <1>4. CASE Create(r) BY <1>4, QueryPool DEF Create, Querying, RunStages
  <1>5. CASE Mark(r) BY <1>5, QueryPool DEF Mark, Querying, RunStages
  <1>6. CASE TanArrives(r)
    <2>1. ~Wants(r) /\ stage[r] \notin Querying
      BY <1>6, NeedsByStage DEF TanArrives, Wants, Querying
    <2> QED BY <1>6, <2>1, GoOnPool, "finishing" # "idle" DEF TanArrives, RunStages
  <1>7. CASE FinishRun(r) BY <1>7, QueryPool DEF FinishRun, Querying, RunStages
  <1>8. CASE Unlock(r) BY <1>8, OverPool DEF Unlock
  <1> QED BY <1>1, <1>2, <1>3, <1>4, <1>5, <1>6, <1>7, <1>8 DEF RunStep

LEMMA NextPool == PoolInv /\ [Next]_vars => PoolInv'
  <1> SUFFICES ASSUME PoolInv, [Next]_vars PROVE PoolInv' OBVIOUS
  <1>1. CASE UNCHANGED vars
    BY <1>1 DEF vars, PoolInv, TypeOK, QueueFits, NoneKept, Stages, Distinct, Waits, Wants, Needs,
                Holds
  <1>2. CASE Next BY <1>2, ArrivePool, AskPool, AnswerPool, RunPool DEF Next
  <1> QED BY <1>1, <1>2

-----------------------------------------------------------------------------
(* The theorems. *)

LEMMA PoolKept == Spec => []PoolInv
  BY InitPool, NextPool, PTL DEF Spec

\* Type correctness of PoolConnections: no task is twice in the queue (createPool,
\* packages/backend/src/db/pool.ts), for any connections, runs and requests.
THEOREM TaskTypesCorrect == Spec => []TypeOK
  <1>1. PoolInv => TypeOK BY DEF PoolInv
  <1> QED BY <1>1, PoolKept, PTL

\* The pool's bookkeeping: nobody waits while a connection is free, nor for what they have
\* (createPool, packages/backend/src/db/pool.ts).
THEOREM PoolCorrect == Spec => []QueueFits
  <1>1. PoolInv => QueueFits BY DEF PoolInv
  <1> QED BY <1>1, PoolKept, PTL

\* Nobody keeps a connection: who is idle has none, and who has one for a query is at a query (lock,
\* unlock and the queries of sync-service.ts).
THEOREM NothingKept == Spec => []NoneKept
  <1>1. PoolInv => NoneKept BY DEF PoolInv
  <1> QED BY <1>1, PoolKept, PTL

\* If everyone with a connection waits, each of them has it for its lock: a task that has one for a
\* query waits for nothing.
LEMMA WaitersKeepLocks ==
  ASSUME PoolInv, NEW c \in Slots, owner[c] # None, Waits(owner[c].task)
  PROVE  owner[c].task \in Runs /\ owner[c] = [task |-> owner[c].task, role |-> "lock"]
  <1> DEFINE t == owner[c].task
  <1>1. t \in Tasks BY DEF PoolInv, TypeOK, Uses, Tasks
  <1>2. Wants(t) BY <1>1 DEF PoolInv, QueueFits
  <1>3. owner[c] # [task |-> t, role |-> "query"]
    <2> SUFFICES ASSUME owner[c] = [task |-> t, role |-> "query"] PROVE FALSE OBVIOUS
    <2>1. stage[t] \in Querying BY <1>1, OwnersFit
    <2>2. Needs(t) = "query" BY <2>1, NeedsByStage
    <2> QED BY <1>2, <2>2 DEF Wants, Holds
  <1> QED BY <1>1, <1>3, OwnersFit

\* With fewer runs in flight than the pool has connections, those who wait never have them all: the
\* connections of the locks, kept for a whole run (begin, lock and end of sync-service.ts), leave
\* one over for the queries.
THEOREM NeverAllWait ==
  ASSUME Cardinality(Runs) < Cardinality(Slots)
  PROVE  Spec => []NeverStuck
  <1>1. PoolInv => NeverStuck
    <2> SUFFICES ASSUME PoolInv, queue # <<>>,
                        \A c \in Slots : owner[c] # None => Waits(owner[c].task)
                 PROVE  FALSE
      BY DEF NeverStuck
    <2>1. \A c \in Slots : owner[c] # None BY DEF PoolInv, QueueFits
    <2>2. \A c \in Slots : /\ owner[c].task \in Runs
                           /\ owner[c] = [task |-> owner[c].task, role |-> "lock"]
      BY <2>1, WaitersKeepLocks
    <2> DEFINE runOf == [c \in Slots |-> owner[c].task]
    <2>3. runOf \in [Slots -> Runs] BY <2>2
    <2>4. IsFiniteSet(Slots) /\ IsFiniteSet(Runs) BY PoolAssumption DEF PoolAssumptions
    <2> HIDE DEF runOf
    <2>5. \E c, d \in Slots : c # d /\ runOf[c] = runOf[d] BY <2>3, <2>4, FS_PigeonHole
    <2>6. PICK c, d \in Slots : c # d /\ owner[c].task = owner[d].task
      BY <2>5 DEF runOf
    <2>7. owner[c] = owner[d] BY <2>2, <2>6
    <2> QED BY <2>1, <2>6, <2>7 DEF PoolInv, Distinct
  <1> QED BY <1>1, PoolKept, PTL
=============================================================================
