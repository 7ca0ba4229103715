----------------------------- MODULE UserPools -------------------------------
(* One user's pool on the user's own database (db/user-pools.ts): a lookup    *)
(* reads the settings row, takes or replaces the cached pool and waits until  *)
(* the app's tables are there (repositories/user-setting.ts, tax-tag.ts,      *)
(* sync/sync-tables.ts). Saving other settings (routes/user-database.ts)      *)
(* raises the version and drops the pool. A lookup may hold an older row than *)
(* the one the next lookup reads.                                             *)
EXTENDS Integers, FiniteSets

CONSTANTS Lookups,      \* the requests that may look the database up at a time
          Databases,    \* the databases whose host may be saved
          Allowed,      \* those whose host is on ALLOWED_DB_HOSTS
          OldSchema,    \* those where an earlier version of the app made its table
          None,
          MaxPools,     \* bound: so many pools are created
          MaxSaves,     \* bound: so many times settings are saved
          MaxFaults     \* bound: so many queries fail or restarts happen

\* What the values of the constants must be.
ConstantsFit ==
    /\ Allowed \subseteq Databases
    /\ OldSchema \subseteq Databases
    /\ None \notin Nat \cup [db : Databases, version : Nat]
    /\ {MaxPools, MaxSaves, MaxFaults} \subseteq Nat

VARIABLES row,          \* the settings row: the database and its version, or None
          tables,       \* the app's tables on each database
          cache,        \* the number of the cached pool, or None
          pools,        \* the pools created since the start, by number
          lookup,       \* the requests
          save,         \* the saving of settings: idle, or saved and not yet invalidated
          saves, faults

vars == <<row, tables, cache, pools, lookup, save, saves, faults>>

\* columns: those of hf_tax_section; filled: the default sections have their texts;
\* excluded: the row "not relevant" is there.
NoTables == [settings |-> FALSE, columns |-> "none", filled |-> FALSE,
             excluded |-> FALSE, tags |-> FALSE, sync |-> FALSE]
OldTables == [NoTables EXCEPT !.settings = TRUE, !.columns = "old", !.tags = TRUE]

Steps == {"settings", "columns", "create", "alter", "fill", "exclude", "tags", "sync"}
Idle == [phase |-> "idle", record |-> None, pool |-> None]

TypeOK ==
    /\ row = None \/ row \in [db : Databases, version : 1..MaxSaves + 1]
    /\ \A d \in Databases : tables[d].columns \in {"none", "old", "full"}
    /\ DOMAIN pools = 1..Cardinality(DOMAIN pools)
    /\ cache \in DOMAIN pools \cup {None}
    /\ \A p \in DOMAIN pools :
        /\ pools[p].db \in Databases /\ pools[p].ended \in BOOLEAN
        /\ pools[p].ensured \in {"null", "running", "done"}
        /\ pools[p].step \in Steps \cup {"done"}
    /\ \A l \in Lookups :
        /\ lookup[l].phase \in {"idle", "reading", "read", "waiting", "ready", "refused", "failed"}
        /\ lookup[l].phase \in {"waiting", "ready"} => lookup[l].pool \in DOMAIN pools
    /\ saves \in 0..MaxSaves /\ faults \in 0..MaxFaults

Init ==
    /\ row \in {None} \cup [db : Databases, version : {1}]
    /\ tables = [d \in Databases |-> IF d \in OldSchema THEN OldTables ELSE NoTables]
    /\ cache = None
    /\ pools = << >>
    /\ lookup = [l \in Lookups |-> Idle]
    /\ save = "idle"
    /\ saves = 0 /\ faults = 0

-----------------------------------------------------------------------------
(* A lookup. *)

acquire(l) ==
    /\ lookup[l].phase = "idle"
    /\ lookup' = [lookup EXCEPT ![l].phase = "reading"]
    /\ UNCHANGED <<row, tables, cache, pools, save, saves, faults>>

\* getAppUserDatabase.
ReadRow(l) ==
    /\ lookup[l].phase = "reading"
    /\ lookup' = [lookup EXCEPT ![l].phase = "read", ![l].record = row]
    /\ UNCHANGED <<row, tables, cache, pools, save, saves, faults>>

\* end: the pool takes no more queries.
Ended(p) == [pools EXCEPT ![p].ended = TRUE]
invalidate ==
    /\ cache' = None
    /\ pools' = IF cache = None THEN pools ELSE Ended(cache)

\* No database, or one that is no longer allowed: a pool on it is dropped.
Refused(l) ==
    LET record == lookup[l].record IN
    /\ lookup[l].phase = "read"
    /\ record # None => record.db \notin Allowed
    /\ IF record = None THEN UNCHANGED <<cache, pools>> ELSE invalidate
    /\ lookup' = [lookup EXCEPT ![l] = [Idle EXCEPT !.phase = "refused"]]
    /\ UNCHANGED <<row, tables, save, saves, faults>>

\* ensure: the pool's table setup, started by the first lookup and shared by the others.
Pool(record) == [db |-> record.db, version |-> record.version, ended |-> FALSE,
                 ensured |-> "null", step |-> "settings"]
ensure(l, p, known) ==
    /\ pools' = [known EXCEPT ![p].ensured = IF @ = "null" THEN "running" ELSE @,
                             ![p].step = IF known[p].ensured = "null" THEN "settings" ELSE @]
    /\ lookup' = [lookup EXCEPT ![l].pool = p,
                               ![l].phase = IF known[p].ensured = "done" THEN "ready" ELSE "waiting"]

\* Mutant: the cached pool is taken whatever its version.
TakeAnyCached(l) ==
    LET record == lookup[l].record IN
    /\ lookup[l].phase = "read" /\ record # None /\ record.db \in Allowed
    /\ cache # None
    /\ ensure(l, cache, pools)
    /\ UNCHANGED <<row, tables, cache, save, saves, faults>>

\* entryFor: the cached pool unless the row is newer; then a new one.
TakeCached(l) ==
    LET record == lookup[l].record IN
    /\ lookup[l].phase = "read" /\ record # None /\ record.db \in Allowed
    /\ cache # None /\ pools[cache].version >= record.version
    /\ ensure(l, cache, pools)
    /\ UNCHANGED <<row, tables, cache, save, saves, faults>>

CreatePool(l) ==
    LET record == lookup[l].record
        p == Cardinality(DOMAIN pools) + 1
        rest == IF cache = None THEN pools ELSE Ended(cache)
    IN
    /\ lookup[l].phase = "read" /\ record # None /\ record.db \in Allowed
    /\ cache # None => pools[cache].version < record.version
    /\ p <= MaxPools
    /\ cache' = p
    /\ ensure(l, p, [q \in DOMAIN pools \cup {p} |-> IF q = p THEN Pool(record) ELSE rest[q]])
    /\ UNCHANGED <<row, tables, save, saves, faults>>

\* The request has used the pool, or sent its error.
Finish(l) ==
    /\ lookup[l].phase \in {"ready", "refused", "failed"}
    /\ lookup' = [lookup EXCEPT ![l] = Idle]
    /\ UNCHANGED <<row, tables, cache, pools, save, saves, faults>>

-----------------------------------------------------------------------------
(* The table setup of a pool, one query at a time. *)

Waiting(p) == {l \in Lookups : lookup[l].phase = "waiting" /\ lookup[l].pool = p}
Settled(p, phase) == [l \in Lookups |-> IF l \in Waiting(p) THEN [lookup[l] EXCEPT !.phase = phase]
                                       ELSE lookup[l]]

\* What a query leaves on the database and which one comes next (ensureUserSettingTable,
\* ensureTaxTagTables, ensureSyncTables). An existing table is only asked for its columns;
\* who finds none creates and fills it, who finds the old ones adds the new ones and fills
\* them, and everyone else only sees to the row "not relevant".
After(step, t) ==
    CASE step = "settings" -> [t EXCEPT !.settings = TRUE]
      [] step = "columns" -> t
      [] step \in {"create", "alter"} -> [t EXCEPT !.columns = "full"]
      [] step = "fill" -> [t EXCEPT !.filled = TRUE, !.excluded = TRUE]
      [] step = "exclude" -> [t EXCEPT !.excluded = TRUE]
      [] step = "tags" -> [t EXCEPT !.tags = TRUE]
      [] step = "sync" -> [t EXCEPT !.sync = TRUE]
Following(step, t) ==
    CASE step = "settings" -> "columns"
      [] step = "columns" -> CASE t.columns = "none" -> "create"
                               [] t.columns = "old" -> "alter"
                               [] OTHER -> "exclude"
      [] step \in {"create", "alter"} -> "fill"
      [] step \in {"fill", "exclude"} -> "tags"
      [] step = "tags" -> "sync"
      [] step = "sync" -> "done"

\* Creating a table that has come into being in the meantime is an error.
Clashes(step, t) ==
    \/ step = "create" /\ t.columns # "none"
    \/ step = "alter" /\ t.columns # "old"

Running(p) == p \in DOMAIN pools /\ pools[p].ensured = "running"

SetupQuery(p) ==
    LET t == tables[pools[p].db]
        step == pools[p].step
        next == Following(step, t)
    IN
    /\ Running(p) /\ ~pools[p].ended /\ ~Clashes(step, t)
    /\ tables' = [tables EXCEPT ![pools[p].db] = After(step, t)]
    /\ pools' = [pools EXCEPT ![p].step = next,
                             ![p].ensured = IF next = "done" THEN "done" ELSE "running"]
    /\ lookup' = IF next = "done" THEN Settled(p, "ready") ELSE lookup
    /\ UNCHANGED <<row, cache, save, saves, faults>>

\* The setup fails for everyone who waits for it; the next lookup tries again.
FailSetup(p) ==
    /\ pools' = [pools EXCEPT ![p].ensured = "null"]
    /\ lookup' = Settled(p, "failed")

SetupClashes(p) ==
    /\ Running(p)
    /\ pools[p].ended \/ Clashes(pools[p].step, tables[pools[p].db])
    /\ FailSetup(p)
    /\ UNCHANGED <<row, tables, cache, save, saves, faults>>

QueryFails(p) ==
    /\ Running(p)
    /\ faults < MaxFaults /\ faults' = faults + 1
    /\ FailSetup(p)
    /\ UNCHANGED <<row, tables, cache, save, saves>>

-----------------------------------------------------------------------------
(* Saving settings, and restarts. *)

saveAppUserDatabase(d) ==
    /\ save = "idle" /\ d \in Allowed
    /\ saves < MaxSaves /\ saves' = saves + 1
    /\ row' = [db |-> d, version |-> IF row = None THEN 1 ELSE row.version + 1]
    /\ save' = "saved"
    /\ UNCHANGED <<tables, cache, pools, lookup, faults>>

InvalidateAfterSave ==
    /\ save = "saved" /\ save' = "idle"
    /\ invalidate
    /\ UNCHANGED <<row, tables, lookup, saves, faults>>

Restart ==
    /\ faults < MaxFaults /\ faults' = faults + 1
    /\ cache' = None /\ pools' = << >> /\ save' = "idle"
    /\ lookup' = [l \in Lookups |-> Idle]
    /\ UNCHANGED <<row, tables, saves>>

Next ==
    \/ \E l \in Lookups :
        \/ acquire(l) \/ ReadRow(l) \/ Refused(l) \/ TakeCached(l) \/ CreatePool(l) \/ Finish(l)
    \/ \E p \in 1..MaxPools : SetupQuery(p) \/ SetupClashes(p) \/ QueryFails(p)
    \/ \E d \in Databases : saveAppUserDatabase(d)
    \/ InvalidateAfterSave
    \/ Restart

Spec == Init /\ [][Next]_vars

-----------------------------------------------------------------------------
(* Properties. *)

\* A lookup that succeeds has a pool on settings at least as new as the row it read, with
\* every table the app needs on that database, however its lookup met saves, other
\* lookups, setups that fail halfway and restarts (entryFor and ensure). Whether that pool is
\* still open is another matter: an invalidation or a newer lookup ends it under the lookup.
PoolReady ==
    \A l \in Lookups : lookup[l].phase = "ready" =>
        LET p == pools[lookup[l].pool]
            t == tables[p.db]
        IN  /\ p.version >= lookup[l].record.version
            /\ p.version = lookup[l].record.version => p.db = lookup[l].record.db
            /\ t.settings /\ t.columns = "full" /\ t.excluded /\ t.tags /\ t.sync

\* The cached pool of a user is open and it is the only one: every other one was ended, also
\* while a lookup that was given it goes on with it (entryFor, invalidate).
OldPoolsEnded == \A p \in DOMAIN pools : pools[p].ended <=> p # cache

\* A lookup only waits for a setup that is on its way; a setup that failed is forgotten.
WaitsForSetup ==
    \A l \in Lookups : lookup[l].phase = "waiting" => Running(lookup[l].pool)
=============================================================================
