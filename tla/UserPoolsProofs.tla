--------------------------- MODULE UserPoolsProofs ---------------------------
(***************************************************************************)
(* Theorems about UserPools for any lookups, databases and numbers of      *)
(* pools: a lookup that succeeds has an open way to tables that are all    *)
(* there, on settings no older than those it read.                         *)
(***************************************************************************)
EXTENDS UserPools, FiniteSetTheorems, TLAPS

-----------------------------------------------------------------------------
(* The inductive invariant. *)

Records == [db : Databases, version : Nat]
Tables == [settings : BOOLEAN, columns : {"none", "old", "full"}, filled : BOOLEAN,
           excluded : BOOLEAN, tags : BOOLEAN, sync : BOOLEAN]
PoolRecords == [db : Databases, version : Nat, ended : BOOLEAN,
                ensured : {"null", "running", "done"}, step : Steps \cup {"done"}]
LookupRecords ==
  [phase : {"idle", "reading", "read", "waiting", "ready", "refused", "failed"},
   record : Records \cup {None}, pool : Nat \cup {None}]

\* The pools are numbered in the order of their creation.
Numbered == \E n \in Nat : pools \in [1..n -> PoolRecords]

Typed ==
  /\ row \in Records \cup {None}
  /\ row # None => row.version \in 1..saves + 1
  /\ saves \in 0..MaxSaves /\ faults \in 0..MaxFaults
  /\ tables \in [Databases -> Tables]
  /\ Numbered
  /\ cache \in DOMAIN pools \cup {None}
  /\ lookup \in [Lookups -> LookupRecords]

\* A version of the settings names one database.
Agree(r, s) == r.version = s.version => r.db = s.db

\* What anybody read of the settings is not newer than the row, and agrees with it.
Known(r) == row # None /\ r.version <= row.version /\ Agree(r, row)

VersionsFit ==
  /\ \A p \in DOMAIN pools : Known(pools[p])
  /\ \A l \in Lookups : lookup[l].record # None =>
       /\ Known(lookup[l].record)
       /\ \A p \in DOMAIN pools : Agree(lookup[l].record, pools[p])
       /\ \A m \in Lookups : lookup[m].record # None => Agree(lookup[l].record, lookup[m].record)

\* What the setup of a pool has done so far is done on its database, whoever else sets
\* that up at the same time.
Prepared(p, t) ==
  /\ p.step # "settings" => t.settings
  /\ p.step \in {"fill", "exclude", "tags", "sync", "done"} => t.columns = "full"
  /\ p.step \in {"tags", "sync", "done"} => t.excluded
  /\ p.step \in {"sync", "done"} => t.tags
  /\ p.step = "done" => t.sync
SetupFits ==
  \A p \in DOMAIN pools :
    /\ pools[p].ensured # "null" => Prepared(pools[p], tables[pools[p].db])
    /\ pools[p].ensured = "running" => pools[p].step # "done"
    /\ pools[p].ensured = "done" => pools[p].step = "done"

\* A lookup waits for its pool's setup, or has what that left.
LookupsFit ==
  \A l \in Lookups :
    /\ lookup[l].phase \in {"waiting", "ready"} =>
         /\ lookup[l].pool \in DOMAIN pools
         /\ lookup[l].record # None
         /\ pools[lookup[l].pool].version >= lookup[l].record.version
    /\ lookup[l].phase = "waiting" => pools[lookup[l].pool].ensured = "running"
    /\ lookup[l].phase = "ready" => pools[lookup[l].pool].ensured = "done"

PoolsInv == Typed /\ OldPoolsEnded /\ VersionsFit /\ SetupFits /\ LookupsFit

-----------------------------------------------------------------------------

\* The number of the next pool is not taken.
LEMMA NextNumber ==
  ASSUME Numbered
  PROVE  /\ Cardinality(DOMAIN pools) \in Nat
         /\ DOMAIN pools = 1..Cardinality(DOMAIN pools)
         /\ pools \in [DOMAIN pools -> PoolRecords]
  <1>1. PICK n \in Nat : pools \in [1..n -> PoolRecords] BY DEF Numbered
  <1>2. DOMAIN pools = 1..n BY <1>1
  <1>3. Cardinality(1..n) = n
    <2>1. Cardinality(1..n) = IF 1 > n THEN 0 ELSE n - 1 + 1 BY FS_Interval
    <2> QED BY <2>1
  <1> QED BY <1>1, <1>2, <1>3

\* Ending a pool changes nothing else about the pools.
LEMMA EndedPools ==
  ASSUME Numbered, NEW c \in DOMAIN pools
  PROVE  /\ Ended(c) \in [DOMAIN pools -> PoolRecords]
         /\ Ended(c)[c].ended
         /\ \A p \in DOMAIN pools :
              /\ Ended(c)[p].db = pools[p].db /\ Ended(c)[p].version = pools[p].version
              /\ Ended(c)[p].ensured = pools[p].ensured /\ Ended(c)[p].step = pools[p].step
              /\ pools[p].ended => Ended(c)[p].ended
  BY NextNumber DEF Ended, PoolRecords

LEMMA InitPools == ConstantsFit /\ Init => PoolsInv
  <1> SUFFICES ASSUME ConstantsFit, Init PROVE PoolsInv OBVIOUS
  <1>1. Numbered
    <2>1. pools \in [1..0 -> PoolRecords] BY DEF Init
    <2> QED BY <2>1 DEF Numbered
  <1>2. DOMAIN pools = {} BY DEF Init
  <1>3. row \in Records \cup {None} /\ (row # None => row.version \in 1..saves + 1)
    BY DEF Init, Records
  <1>4. tables \in [Databases -> Tables] BY DEF Init, Tables, OldTables, NoTables
  <1>5. lookup \in [Lookups -> LookupRecords] BY DEF Init, LookupRecords, Idle
  <1>6. Typed BY <1>1, <1>3, <1>4, <1>5 DEF Init, Typed, ConstantsFit
  <1>7. \A l \in Lookups : lookup[l].record = None /\ lookup[l].phase = "idle"
    BY DEF Init, Idle
  <1> QED BY <1>2, <1>6, <1>7 DEF PoolsInv, OldPoolsEnded, VersionsFit, SetupFits, LookupsFit

-----------------------------------------------------------------------------
(* Steps that leave the pools alone. *)

LEMMA AcquirePools == ASSUME PoolsInv, NEW l \in Lookups, acquire(l) PROVE PoolsInv'
  <1> USE DEF PoolsInv, acquire
  <1>1. \A m \in Lookups :
          /\ lookup'[m].record = lookup[m].record /\ lookup'[m].pool = lookup[m].pool
          /\ lookup'[m].phase # lookup[m].phase => lookup'[m].phase = "reading"
    BY DEF Typed, LookupRecords
  <1>2. Typed' BY DEF Typed, Numbered, LookupRecords
  <1>3. OldPoolsEnded' BY DEF OldPoolsEnded
  <1>4. VersionsFit' BY <1>1 DEF VersionsFit, Known, Agree
  <1>5. SetupFits' BY DEF SetupFits, Prepared
  <1>6. LookupsFit' BY <1>1 DEF LookupsFit
  <1> QED BY <1>2, <1>3, <1>4, <1>5, <1>6

LEMMA ReadRowPools == ASSUME PoolsInv, NEW l \in Lookups, ReadRow(l) PROVE PoolsInv'
  <1> USE DEF PoolsInv, ReadRow
  <1>1. /\ lookup'[l].record = row /\ lookup'[l].phase = "read"
        /\ \A m \in Lookups \ {l} : lookup'[m] = lookup[m]
    BY DEF Typed, LookupRecords
  <1>2. Typed' BY DEF Typed, Numbered, LookupRecords
  <1>3. OldPoolsEnded' BY DEF OldPoolsEnded
  <1>4. VersionsFit' BY <1>1 DEF VersionsFit, Known, Agree, Typed, Records
  <1>5. SetupFits' BY DEF SetupFits, Prepared
  <1>6. LookupsFit' BY <1>1 DEF LookupsFit
  <1> QED BY <1>2, <1>3, <1>4, <1>5, <1>6

LEMMA FinishPools == ASSUME PoolsInv, NEW l \in Lookups, Finish(l) PROVE PoolsInv'
  <1> USE DEF PoolsInv, Finish
  <1>1. /\ lookup'[l].record = None /\ lookup'[l].phase = "idle"
        /\ \A m \in Lookups \ {l} : lookup'[m] = lookup[m]
    BY DEF Typed, LookupRecords, Idle
  <1>2. Typed' BY DEF Typed, Numbered, LookupRecords, Idle
  <1>3. OldPoolsEnded' BY DEF OldPoolsEnded
  <1>4. VersionsFit' BY <1>1 DEF VersionsFit, Known, Agree
  <1>5. SetupFits' BY DEF SetupFits, Prepared
  <1>6. LookupsFit' BY <1>1 DEF LookupsFit
  <1> QED BY <1>2, <1>3, <1>4, <1>5, <1>6

\* Other settings are saved: their version is new.
LEMMA SavePools == ASSUME PoolsInv, ConstantsFit, NEW d \in Databases, saveAppUserDatabase(d) PROVE PoolsInv'
  <1> USE DEF PoolsInv, saveAppUserDatabase
  <1>1. row' \in Records /\ row'.version \in 1..saves' + 1 /\ row' # None
    BY DEF Typed, Records, ConstantsFit
  <1>2. row # None => row'.version = row.version + 1 /\ row.version \in Nat
    BY DEF Typed, Records
  <1>3. \A p \in DOMAIN pools : pools[p].version \in Nat
    BY NextNumber DEF Typed, PoolRecords
  <1>4. \A l \in Lookups : lookup[l].record # None => lookup[l].record.version \in Nat
    BY DEF Typed, LookupRecords, Records
  <1>5. Typed' BY <1>1 DEF Typed, Numbered, ConstantsFit
  <1>6. OldPoolsEnded' BY DEF OldPoolsEnded
  <1>7. VersionsFit'
    <2>1. \A p \in DOMAIN pools : Known(pools[p])'
      BY <1>1, <1>2, <1>3 DEF VersionsFit, Known, Agree
    <2>2. \A l \in Lookups : lookup[l].record # None => Known(lookup[l].record)'
      BY <1>1, <1>2, <1>4 DEF VersionsFit, Known, Agree
    <2> QED BY <2>1, <2>2 DEF VersionsFit, Known, Agree
  <1>8. SetupFits' BY DEF SetupFits, Prepared
  <1>9. LookupsFit' BY DEF LookupsFit
  <1> QED BY <1>5, <1>6, <1>7, <1>8, <1>9

LEMMA RestartPools == ASSUME PoolsInv, ConstantsFit, Restart PROVE PoolsInv'
  <1> USE DEF PoolsInv, Restart
  <1>1. DOMAIN pools' = {} OBVIOUS
  <1>2. \A l \in Lookups : lookup'[l].record = None /\ lookup'[l].phase = "idle"
    BY DEF Idle
  <1>3. Numbered'
    <2>1. pools' \in [1..0 -> PoolRecords] OBVIOUS
    <2> QED BY <2>1 DEF Numbered
  <1>4. Typed' BY <1>3 DEF Typed, LookupRecords, Idle, ConstantsFit
  <1> QED BY <1>1, <1>2, <1>4 DEF OldPoolsEnded, VersionsFit, SetupFits, LookupsFit

-----------------------------------------------------------------------------
(* Steps that end a pool. *)

LEMMA InvalidatePools ==
  ASSUME PoolsInv, ConstantsFit, invalidate
  PROVE  /\ Numbered' /\ DOMAIN pools' = DOMAIN pools /\ cache' = None
         /\ None \notin DOMAIN pools
         /\ \A p \in DOMAIN pools :
              /\ pools'[p].db = pools[p].db /\ pools'[p].version = pools[p].version
              /\ pools'[p].ensured = pools[p].ensured /\ pools'[p].step = pools[p].step
              /\ pools'[p].ended
  <1> USE DEF PoolsInv, Typed, invalidate
  <1>3. None \notin DOMAIN pools BY NextNumber DEF ConstantsFit
  <1>1. CASE cache = None
    <2>1. pools' = pools /\ Numbered' BY <1>1 DEF Numbered
    <2> QED BY <1>1, <1>3, <2>1 DEF OldPoolsEnded
  <1>2. CASE cache # None
    <2>1. pools' = Ended(cache) /\ cache \in DOMAIN pools BY <1>2
    <2>2. pools' \in [DOMAIN pools -> PoolRecords] BY <2>1, EndedPools
    <2>3. Numbered' BY <2>2, NextNumber DEF Numbered
    <2>4. \A p \in DOMAIN pools :
              /\ pools'[p].db = pools[p].db /\ pools'[p].version = pools[p].version
              /\ pools'[p].ensured = pools[p].ensured /\ pools'[p].step = pools[p].step
              /\ pools'[p].ended
      BY <2>1, EndedPools DEF OldPoolsEnded
    <2> QED BY <1>3, <2>2, <2>3, <2>4
  <1> QED BY <1>1, <1>2

\* Ending pools disturbs nothing but the cache, for lookups that stay as they are or end.
LEMMA InvalidatedFits ==
  ASSUME PoolsInv, ConstantsFit, invalidate, UNCHANGED <<row, tables, saves, faults>>,
         lookup' \in [Lookups -> LookupRecords],
         \A l \in Lookups : \/ lookup'[l] = lookup[l]
                            \/ lookup'[l].record = None /\ lookup'[l].phase = "refused"
  PROVE  PoolsInv'
  <1>1. Typed' BY InvalidatePools DEF PoolsInv, Typed
  <1>2. OldPoolsEnded' BY InvalidatePools DEF OldPoolsEnded
  <1>3. VersionsFit' BY InvalidatePools DEF PoolsInv, VersionsFit, Known, Agree
  <1>4. SetupFits' BY InvalidatePools DEF PoolsInv, SetupFits, Prepared
  <1>5. LookupsFit' BY InvalidatePools DEF PoolsInv, LookupsFit
  <1> QED BY <1>1, <1>2, <1>3, <1>4, <1>5 DEF PoolsInv

LEMMA RefusedPools == ASSUME PoolsInv, ConstantsFit, NEW l \in Lookups, Refused(l) PROVE PoolsInv'
  <1> USE DEF Refused
  <1>1. /\ lookup'[l].record = None /\ lookup'[l].phase = "refused"
        /\ \A m \in Lookups \ {l} : lookup'[m] = lookup[m]
        /\ lookup' \in [Lookups -> LookupRecords]
    BY DEF PoolsInv, Typed, LookupRecords, Idle
  <1>2. CASE lookup[l].record # None BY <1>1, <1>2, InvalidatedFits
  <1>3. CASE lookup[l].record = None
    <2> USE <1>3 DEF PoolsInv
    <2>1. Typed' BY <1>1 DEF Typed, Numbered
    <2>2. OldPoolsEnded' BY DEF OldPoolsEnded
    <2>3. VersionsFit' BY <1>1 DEF VersionsFit, Known, Agree
    <2>4. SetupFits' BY DEF SetupFits, Prepared
    <2>5. LookupsFit' BY <1>1 DEF LookupsFit
    <2> QED BY <2>1, <2>2, <2>3, <2>4, <2>5
  <1> QED BY <1>2, <1>3

LEMMA InvalidateAfterSavePools == ASSUME PoolsInv, ConstantsFit, InvalidateAfterSave PROVE PoolsInv'
  BY InvalidatedFits DEF InvalidateAfterSave, PoolsInv, Typed

-----------------------------------------------------------------------------
(* Lookups that get a pool. *)

\* The cached pool is as new as the settings the lookup read.
LEMMA TakeCachedPools == ASSUME PoolsInv, ConstantsFit, NEW l \in Lookups, TakeCached(l) PROVE PoolsInv'
  <1> USE DEF PoolsInv, TakeCached, ensure
  <1>1. /\ cache \in DOMAIN pools /\ cache \in Nat
        /\ pools \in [DOMAIN pools -> PoolRecords]
    BY NextNumber DEF Typed
  <1>2. /\ pools' \in [DOMAIN pools -> PoolRecords]
        /\ \A p \in DOMAIN pools :
             /\ pools'[p].db = pools[p].db /\ pools'[p].version = pools[p].version
             /\ pools'[p].ended = pools[p].ended
             /\ \/ pools'[p].ensured = pools[p].ensured /\ pools'[p].step = pools[p].step
                \/ /\ pools[p].ensured = "null" /\ pools'[p].ensured = "running"
                   /\ pools'[p].step = "settings"
        /\ pools'[cache].ensured # "null"
    BY <1>1 DEF PoolRecords, Steps
  <1>3. /\ lookup' \in [Lookups -> LookupRecords]
        /\ \A m \in Lookups \ {l} : lookup'[m] = lookup[m]
        /\ lookup'[l].record = lookup[l].record /\ lookup'[l].pool = cache
        /\ lookup'[l].phase = IF pools[cache].ensured = "done" THEN "ready" ELSE "waiting"
    BY <1>1 DEF Typed, LookupRecords
  <1>4. Typed'
    <2>1. Numbered' BY <1>2, NextNumber DEF Typed, Numbered
    <2> QED BY <1>1, <1>2, <1>3, <2>1 DEF Typed
  <1>5. OldPoolsEnded' BY <1>2 DEF OldPoolsEnded
  <1>6. VersionsFit' BY <1>2, <1>3 DEF VersionsFit, Known, Agree
  <1>7. SetupFits' BY <1>2 DEF SetupFits, Prepared
  <1>8. LookupsFit'
    <2>1. /\ pools[cache].ensured = "done" => pools'[cache].ensured = "done"
          /\ pools[cache].ensured # "done" => pools'[cache].ensured = "running"
      <3>1. pools[cache].ensured \in {"null", "running", "done"} BY <1>1 DEF PoolRecords
      <3> QED BY <1>1, <1>2, <3>1
    <2>2. pools'[cache].version >= lookup'[l].record.version /\ lookup'[l].record # None
      BY <1>1, <1>2, <1>3
    <2>3. ASSUME NEW m \in Lookups, m # l PROVE
            /\ lookup'[m].phase \in {"waiting", "ready"} =>
                 /\ lookup'[m].pool \in DOMAIN pools' /\ lookup'[m].record # None
                 /\ pools'[lookup'[m].pool].version >= lookup'[m].record.version
            /\ lookup'[m].phase = "waiting" => pools'[lookup'[m].pool].ensured = "running"
            /\ lookup'[m].phase = "ready" => pools'[lookup'[m].pool].ensured = "done"
      BY <1>2, <1>3, <2>3 DEF LookupsFit
    <2>4. DOMAIN pools' = DOMAIN pools BY <1>2
    <2> HIDE DEF TakeCached, ensure, PoolsInv
    <2> QED BY <1>1, <1>3, <2>1, <2>2, <2>3, <2>4 DEF LookupsFit
  <1> QED BY <1>4, <1>5, <1>6, <1>7, <1>8

\* A new pool is of the settings the lookup read; the one there was is ended.
LEMMA CreatePoolPools == ASSUME PoolsInv, ConstantsFit, NEW l \in Lookups, CreatePool(l) PROVE PoolsInv'
  <1> DEFINE record == lookup[l].record
             p == Cardinality(DOMAIN pools) + 1
             rest == IF cache = None THEN pools ELSE Ended(cache)
             new == [Pool(record) EXCEPT !.ensured = "running"]
  <1> USE DEF PoolsInv
  <1>1. /\ p \in Nat \ {0} /\ p \notin DOMAIN pools /\ DOMAIN pools \cup {p} = 1..p
        /\ DOMAIN pools = 1..p - 1 /\ pools \in [DOMAIN pools -> PoolRecords]
    BY NextNumber DEF Typed
  <1>2. /\ record \in Records /\ record # None
        /\ cache' = p /\ UNCHANGED <<row, tables, save, saves, faults>>
    BY DEF CreatePool, Typed, LookupRecords
  <1>3. /\ rest \in [DOMAIN pools -> PoolRecords]
        /\ \A q \in DOMAIN pools :
             /\ rest[q].db = pools[q].db /\ rest[q].version = pools[q].version
             /\ rest[q].ensured = pools[q].ensured /\ rest[q].step = pools[q].step
             /\ rest[q].ended
    <2>1. CASE cache = None
      <3>1. \A q \in DOMAIN pools : q # None BY <1>1 DEF ConstantsFit
      <3> QED BY <1>1, <2>1, <3>1 DEF OldPoolsEnded
    <2>2. CASE cache # None
      <3>1. cache \in DOMAIN pools BY <2>2 DEF Typed
      <3> QED BY <2>2, <3>1, EndedPools DEF OldPoolsEnded, Typed
    <2> QED BY <2>1, <2>2
  <1>4. /\ pools' \in [1..p -> PoolRecords]
        /\ \A q \in DOMAIN pools : pools'[q] = rest[q]
        /\ pools'[p].db = record.db /\ pools'[p].version = record.version
        /\ pools'[p].ensured = "running" /\ pools'[p].step = "settings"
        /\ ~pools'[p].ended
    <2> DEFINE known == [q \in DOMAIN pools \cup {p} |-> IF q = p THEN Pool(record) ELSE rest[q]]
    <2>1. Pool(record) \in PoolRecords /\ Pool(record).ensured = "null"
          /\ Pool(record).db = record.db /\ Pool(record).version = record.version
          /\ ~Pool(record).ended
      BY <1>2 DEF Pool, PoolRecords, Records, Steps
    <2>2. known \in [1..p -> PoolRecords] /\ known[p] = Pool(record)
          /\ \A q \in DOMAIN pools : known[q] = rest[q]
      BY <1>1, <1>3, <2>1
    <2>3. pools' = [known EXCEPT ![p].ensured = IF @ = "null" THEN "running" ELSE @,
                                 ![p].step = IF known[p].ensured = "null" THEN "settings" ELSE @]
      BY DEF CreatePool, ensure
    <2> HIDE DEF known
    <2> QED BY <1>1, <2>1, <2>2, <2>3 DEF PoolRecords, Steps
  <1>5. /\ lookup' \in [Lookups -> LookupRecords]
        /\ \A m \in Lookups \ {l} : lookup'[m] = lookup[m]
        /\ lookup'[l].record = record /\ lookup'[l].pool = p
        /\ lookup'[l].phase = "waiting"
    BY <1>1, <1>2 DEF CreatePool, ensure, Typed, LookupRecords, Pool
  <1> HIDE DEF p, rest, record
  <1>6. DOMAIN pools' = DOMAIN pools \cup {p} BY <1>1, <1>4
  <1>7. Typed'
    <2>1. Numbered' BY <1>1, <1>4 DEF Numbered
    <2> QED BY <1>2, <1>4, <1>5, <1>6, <2>1 DEF Typed
  <1>8. OldPoolsEnded' BY <1>1, <1>2, <1>3, <1>4, <1>6 DEF OldPoolsEnded
  <1>9. VersionsFit'
    <2>1. (\A q \in DOMAIN pools : Known(pools[q]))'
      BY <1>2, <1>3, <1>4, <1>6 DEF VersionsFit, Known, Agree, record
    <2>2. \A m \in Lookups : lookup'[m].record = lookup[m].record BY <1>5 DEF record
    <2>3. \A m \in Lookups : lookup[m].record # None =>
            \A q \in DOMAIN pools' : Agree(lookup[m].record, pools'[q])
      BY <1>2, <1>3, <1>4, <1>6 DEF VersionsFit, Agree, record
    <2> QED BY <1>2, <2>1, <2>2, <2>3 DEF VersionsFit, Known, Agree
  <1>10. SetupFits' BY <1>2, <1>3, <1>4, <1>6 DEF SetupFits, Prepared
  <1>11. LookupsFit'
    <2>1. pools'[p].version >= lookup'[l].record.version /\ lookup'[l].record # None
      BY <1>2, <1>4, <1>5 DEF Records
    <2>2. ASSUME NEW m \in Lookups, m # l PROVE
            /\ lookup'[m].phase \in {"waiting", "ready"} =>
                 /\ lookup'[m].pool \in DOMAIN pools' /\ lookup'[m].record # None
                 /\ pools'[lookup'[m].pool].version >= lookup'[m].record.version
            /\ lookup'[m].phase = "waiting" => pools'[lookup'[m].pool].ensured = "running"
            /\ lookup'[m].phase = "ready" => pools'[lookup'[m].pool].ensured = "done"
      BY <1>3, <1>4, <1>5, <1>6, <2>2 DEF LookupsFit
    <2> QED BY <1>4, <1>5, <1>6, <2>1, <2>2 DEF LookupsFit
  <1> QED BY <1>7, <1>8, <1>9, <1>10, <1>11

-----------------------------------------------------------------------------
(* The setup of a pool. *)

\* A setup only adds tables, so what another one has done stays done.
LEMMA SetupQueryPools == ASSUME PoolsInv, NEW p, SetupQuery(p) PROVE PoolsInv'
  <1> DEFINE d == pools[p].db
             t == tables[d]
             step == pools[p].step
             next == Following(step, t)
  <1> USE DEF PoolsInv
  <1>1. /\ p \in DOMAIN pools /\ pools[p].ensured = "running" /\ step # "done"
        /\ pools \in [DOMAIN pools -> PoolRecords]
        /\ step \in Steps /\ d \in Databases /\ t \in Tables
        /\ UNCHANGED <<row, cache, save, saves, faults>>
    BY NextNumber DEF SetupQuery, Running, SetupFits, Typed, PoolRecords
  <1>2. Prepared(pools[p], t) BY <1>1 DEF SetupFits
  <1>3. /\ next \in Steps \cup {"done"}
        /\ After(step, t) \in Tables
        /\ Prepared([pools[p] EXCEPT !.step = next], After(step, t))
    <2>1. step \in {"settings", "columns", "create", "alter", "fill", "exclude", "tags", "sync"}
      BY <1>1 DEF Steps
    <2>2. CASE step \in {"settings", "columns"}
      BY <1>1, <1>2, <2>2 DEF Following, After, Prepared, Steps, Tables, PoolRecords
    <2>3. CASE step \in {"create", "alter", "fill", "exclude"}
      BY <1>1, <1>2, <2>3 DEF Following, After, Prepared, Steps, Tables, PoolRecords
    <2>4. CASE step \in {"tags", "sync"}
      BY <1>1, <1>2, <2>4 DEF Following, After, Prepared, Steps, Tables, PoolRecords
    <2> QED BY <2>1, <2>2, <2>3, <2>4
  <1>4. \A q \in PoolRecords : Prepared(q, t) => Prepared(q, After(step, t))
    BY <1>1 DEF After, Prepared, Steps, Tables, PoolRecords
  <1>5. /\ pools' \in [DOMAIN pools -> PoolRecords]
        /\ \A q \in DOMAIN pools \ {p} : pools'[q] = pools[q]
        /\ pools'[p].db = d /\ pools'[p].version = pools[p].version
        /\ pools'[p].ended = pools[p].ended /\ pools'[p].step = next
        /\ pools'[p].ensured = IF next = "done" THEN "done" ELSE "running"
    BY <1>1, <1>3 DEF SetupQuery, PoolRecords
  <1>6. /\ tables' \in [Databases -> Tables] /\ tables'[d] = After(step, t)
        /\ \A e \in Databases \ {d} : tables'[e] = tables[e]
    BY <1>1, <1>3 DEF SetupQuery, Typed
  <1>7. /\ lookup' \in [Lookups -> LookupRecords]
        /\ \A l \in Lookups :
             /\ lookup'[l].record = lookup[l].record /\ lookup'[l].pool = lookup[l].pool
             /\ lookup'[l].phase = IF lookup[l].phase = "waiting" /\ lookup[l].pool = p /\ next = "done"
                                   THEN "ready" ELSE lookup[l].phase
    BY DEF SetupQuery, Settled, Waiting, Typed, LookupRecords
  <1> HIDE DEF next, d, t, step
  <1>8. Typed'
    <2>1. Numbered' BY <1>5, NextNumber DEF Typed, Numbered
    <2> QED BY <1>1, <1>5, <1>6, <1>7, <2>1 DEF Typed
  <1>9. OldPoolsEnded' BY <1>1, <1>5 DEF OldPoolsEnded
  <1>10. VersionsFit' BY <1>1, <1>5, <1>7 DEF VersionsFit, Known, Agree, d
  <1>11. SetupFits'
    <2> SUFFICES ASSUME NEW q \in DOMAIN pools
                 PROVE  (/\ pools[q].ensured # "null" => Prepared(pools[q], tables[pools[q].db])
                         /\ pools[q].ensured = "running" => pools[q].step # "done"
                         /\ pools[q].ensured = "done" => pools[q].step = "done")'
      BY <1>5 DEF SetupFits
    <2>1. CASE q = p BY <1>1, <1>3, <1>5, <1>6, <2>1 DEF Prepared, PoolRecords, d
    <2>2. CASE q # p
      <3>1. pools'[q] = pools[q] /\ pools[q] \in PoolRecords BY <1>1, <1>5, <2>2
      <3>2. pools[q].ensured # "null" => Prepared(pools[q], tables[pools[q].db]) BY DEF SetupFits
      <3>3. CASE pools[q].db = d BY <1>4, <1>6, <3>1, <3>2, <3>3 DEF SetupFits, t
      <3>4. CASE pools[q].db # d
        <4>1. pools[q].db \in Databases \ {d} BY <3>1, <3>4 DEF PoolRecords
        <4> QED BY <1>6, <3>1, <3>2, <4>1 DEF SetupFits
      <3> QED BY <3>3, <3>4
    <2> QED BY <2>1, <2>2
  <1>12. LookupsFit' BY <1>1, <1>5, <1>7 DEF LookupsFit
  <1> QED BY <1>8, <1>9, <1>10, <1>11, <1>12

\* A failed setup leaves nobody waiting for it.
LEMMA FailSetupPools ==
  ASSUME PoolsInv, NEW p, Running(p), FailSetup(p),
         UNCHANGED <<row, tables, cache, saves>>, faults' \in 0..MaxFaults
  PROVE  PoolsInv'
  <1> USE DEF PoolsInv
  <1>1. /\ p \in DOMAIN pools /\ pools[p].ensured = "running"
        /\ pools \in [DOMAIN pools -> PoolRecords]
    BY NextNumber DEF Running, Typed
  <1>2. /\ pools' \in [DOMAIN pools -> PoolRecords]
        /\ \A q \in DOMAIN pools \ {p} : pools'[q] = pools[q]
        /\ pools'[p].db = pools[p].db /\ pools'[p].version = pools[p].version
        /\ pools'[p].ended = pools[p].ended /\ pools'[p].ensured = "null"
    BY <1>1 DEF FailSetup, PoolRecords
  <1>3. /\ lookup' \in [Lookups -> LookupRecords]
        /\ \A l \in Lookups :
             /\ lookup'[l].record = lookup[l].record /\ lookup'[l].pool = lookup[l].pool
             /\ lookup'[l].phase = IF lookup[l].phase = "waiting" /\ lookup[l].pool = p
                                   THEN "failed" ELSE lookup[l].phase
    BY DEF FailSetup, Settled, Waiting, Typed, LookupRecords
  <1>4. Typed'
    <2>1. Numbered' BY <1>2, NextNumber DEF Typed, Numbered
    <2> QED BY <1>1, <1>2, <1>3, <2>1 DEF Typed
  <1>5. OldPoolsEnded' BY <1>1, <1>2 DEF OldPoolsEnded
  <1>6. VersionsFit' BY <1>1, <1>2, <1>3 DEF VersionsFit, Known, Agree
  <1>7. SetupFits' BY <1>1, <1>2 DEF SetupFits
  <1>8. LookupsFit' BY <1>1, <1>2, <1>3 DEF LookupsFit
  <1> QED BY <1>4, <1>5, <1>6, <1>7, <1>8

LEMMA SetupClashesPools == ASSUME PoolsInv, NEW p, SetupClashes(p) PROVE PoolsInv'
  BY FailSetupPools DEF SetupClashes, PoolsInv, Typed

LEMMA QueryFailsPools == ASSUME PoolsInv, ConstantsFit, NEW p, QueryFails(p) PROVE PoolsInv'
  <1>1. faults' \in 0..MaxFaults BY DEF QueryFails, PoolsInv, Typed, ConstantsFit
  <1> QED BY <1>1, FailSetupPools DEF QueryFails

-----------------------------------------------------------------------------
(* The theorem. *)

LEMMA NextPools == ConstantsFit /\ PoolsInv /\ [Next]_vars => PoolsInv'
  <1> SUFFICES ASSUME ConstantsFit, PoolsInv, [Next]_vars PROVE PoolsInv' OBVIOUS
  <1>1. CASE UNCHANGED vars
    BY <1>1 DEF vars, PoolsInv, Typed, Numbered, OldPoolsEnded, VersionsFit, Known, Agree,
                SetupFits, Prepared, LookupsFit
  <1>2. ASSUME NEW l \in Lookups,
               acquire(l) \/ ReadRow(l) \/ Refused(l) \/ TakeCached(l) \/ CreatePool(l) \/ Finish(l)
        PROVE  PoolsInv'
    BY <1>2, AcquirePools, ReadRowPools, RefusedPools, TakeCachedPools, CreatePoolPools, FinishPools
  <1>3. ASSUME NEW p \in 1..MaxPools, SetupQuery(p) \/ SetupClashes(p) \/ QueryFails(p)
        PROVE  PoolsInv'
    BY <1>3, SetupQueryPools, SetupClashesPools, QueryFailsPools
  <1>4. ASSUME NEW d \in Databases, saveAppUserDatabase(d) PROVE PoolsInv'
    BY <1>4, SavePools
  <1>5. CASE InvalidateAfterSave BY <1>5, InvalidateAfterSavePools
  <1>6. CASE Restart BY <1>6, RestartPools
  <1> QED BY <1>1, <1>2, <1>3, <1>4, <1>5, <1>6 DEF Next

\* What the invariant says of the properties of the model.
LEMMA PoolsInvSuffices ==
  ASSUME PoolsInv PROVE PoolReady /\ OldPoolsEnded /\ WaitsForSetup
  <1> USE DEF PoolsInv
  <1>1. PoolReady
    <2> SUFFICES ASSUME NEW l \in Lookups, lookup[l].phase = "ready"
                 PROVE  LET p == pools[lookup[l].pool]
                            t == tables[p.db]
                        IN  /\ p.version >= lookup[l].record.version
                            /\ p.version = lookup[l].record.version => p.db = lookup[l].record.db
                            /\ t.settings /\ t.columns = "full" /\ t.excluded /\ t.tags /\ t.sync
      BY DEF PoolReady
    <2> DEFINE p == lookup[l].pool
    <2>1. /\ p \in DOMAIN pools /\ lookup[l].record # None
          /\ pools[p].version >= lookup[l].record.version /\ pools[p].ensured = "done"
      BY DEF LookupsFit
    <2>2. Agree(lookup[l].record, pools[p]) BY <2>1 DEF VersionsFit
    <2>3. pools[p].step = "done" /\ Prepared(pools[p], tables[pools[p].db])
      BY <2>1 DEF SetupFits
    <2> QED BY <2>1, <2>2, <2>3 DEF Agree, Prepared
  <1>2. WaitsForSetup BY DEF LookupsFit, WaitsForSetup, Running
  <1> QED BY <1>1, <1>2

LEMMA PoolsTyped == ASSUME ConstantsFit, PoolsInv PROVE TypeOK
  <1> USE DEF PoolsInv, Typed
  <1>1. saves + 1 \in 1..MaxSaves + 1 BY DEF ConstantsFit
  <1>2. row = None \/ row \in [db : Databases, version : 1..MaxSaves + 1]
    BY <1>1 DEF Records, ConstantsFit
  <1>3. \A d \in Databases : tables[d].columns \in {"none", "old", "full"} BY DEF Tables
  <1>4. /\ DOMAIN pools = 1..Cardinality(DOMAIN pools)
        /\ pools \in [DOMAIN pools -> PoolRecords]
    BY NextNumber
  <1>5. \A p \in DOMAIN pools : pools[p] \in PoolRecords BY <1>4
  <1>6. \A l \in Lookups :
          /\ lookup[l].phase \in {"idle", "reading", "read", "waiting", "ready", "refused", "failed"}
          /\ lookup[l].phase \in {"waiting", "ready"} => lookup[l].pool \in DOMAIN pools
    BY DEF LookupRecords, LookupsFit
  <1> QED BY <1>2, <1>3, <1>4, <1>5, <1>6 DEF TypeOK, PoolRecords

\* Type correctness of UserPools.
THEOREM PoolTypesCorrect == ASSUME ConstantsFit PROVE Spec => []TypeOK
  <1>1. Init => PoolsInv BY InitPools
  <1>2. PoolsInv /\ [Next]_vars => PoolsInv' BY NextPools
  <1>3. PoolsInv => TypeOK BY PoolsTyped
  <1> QED BY <1>1, <1>2, <1>3, PTL DEF Spec

\* However lookups, saves of the settings, setups that fail or clash and restarts follow
\* each other: a lookup that succeeds has a pool no older than the settings it read, with
\* all tables on its database; only the cached pool of a user is open; and nobody waits for
\* a setup that nobody runs (db/user-pools.ts).
THEOREM PoolsCorrect ==
  ASSUME ConstantsFit PROVE Spec => [](PoolReady /\ OldPoolsEnded /\ WaitsForSetup)
  <1>1. Init => PoolsInv BY InitPools
  <1>2. PoolsInv /\ [Next]_vars => PoolsInv' BY NextPools
  <1>3. PoolsInv => PoolReady /\ OldPoolsEnded /\ WaitsForSetup BY PoolsInvSuffices
  <1> QED BY <1>1, <1>2, <1>3, PTL DEF Spec
=============================================================================
