----------------------------- MODULE UmsatzMerge -----------------------------
(***************************************************************************)
(* The bookings of one konto: what a sync fetches from the bank            *)
(* (syncAccount in packages/backend/src/sync/sync-service.ts) and how it   *)
(* is merged into the stored rows (umsatz-merge.ts).  Two connections may  *)
(* map to one konto, so syncs of it overlap; the merge runs in one         *)
(* transaction under a lock of the konto's row.                            *)
(*                                                                         *)
(* A booking stands for everything its checksum covers, its date included; *)
(* the bank may have several that are equal.  Rows are counted: with their *)
(* checksum (stored), with the one an older desktop client wrote (legacy)  *)
(* and those not booked yet (pending).  Balances and protocol entries are  *)
(* written and never read; they are left out.                              *)
(*                                                                         *)
(* The merge is modelled for every statement its parameters allow; the     *)
(* session of today delivers no pending bookings.                          *)
(***************************************************************************)
EXTENDS Integers, FiniteSets, Functions

CONSTANTS
  Texts,      \* what a booking says beside its date
  LastDay,    \* bound: the days are 1 .. LastDay
  Copies,     \* bound: equal bookings at the bank, at most
  Posts,      \* bound: bookings of the bank, at most
  PendingDays,  \* bound: dates of pending bookings
  Overlap,    \* OVERLAP_DAYS
  Initial,    \* INITIAL_DAYS
  Delay,      \* days a booking is posted after its date, at most
  Syncs,      \* syncs of the konto that may overlap
  None        \* null

MergeConstants ==
  /\ LastDay \in Nat \ {0}
  /\ {Copies, Posts, Overlap, Initial, Delay} \subseteq Nat
  /\ PendingDays \subseteq 1 .. LastDay
  /\ Delay <= Overlap
  /\ Overlap <= Initial
  /\ None \notin Syncs

ASSUME MergeAssumption == MergeConstants

Days == 1 .. LastDay

Bookings == [day : Days, text : Texts]

PendingBookings == {b \in Bookings : b.day \in PendingDays}

VARIABLES
  today,      \* the calendar
  bank,       \* bank[b]: how often the bank has booked b
  stored,     \* rows of umsatz with the booking's checksum
  legacy,     \* rows with its windows-1252 checksum
  pending,    \* rows with FLAG_NOTBOOKED
  konto,      \* the sync whose transaction locks the row of konto
  sync        \* the local state of every sync

vars == <<today, bank, stored, legacy, pending, konto, sync>>

Statement == [Bookings -> 0 .. Copies]

NoBookings == [b \in Bookings |-> 0]

Idle == [at |-> "idle", from |-> 0, to |-> 0, ledger |-> NoBookings, offered |-> {},
         inserts |-> NoBookings, pending |-> NoBookings]

SyncState ==
  [at : {"idle", "fetching", "fetched", "locked", "booked", "merged", "done"},
   from : Int,                      \* first day asked for
   to : 0 .. LastDay,               \* last day asked for, the day the sync started
   ledger : Statement,              \* the bank's bookings when it answered
   offered : SUBSET PendingBookings,     \* the pending bookings it delivered, each once
   inserts : Statement,             \* of the open transaction: new booked rows
   pending : [Bookings -> Nat]]     \* of the open transaction: the pending rows afterwards

TypeOK ==
  /\ today \in Days
  /\ bank \in Statement
  /\ stored \in Statement
  /\ legacy \in Statement
  /\ pending \in [Bookings -> Nat]
  /\ konto \in Syncs \cup {None}
  /\ sync \in [Syncs -> SyncState]

\* The desktop client has fetched everything so far, or nothing; it left some pending rows.
Init ==
  /\ today = 1
  /\ bank \in {b \in Statement : \A x \in Bookings : b[x] > 0 => x.day = 1}
  /\ stored = NoBookings
  /\ legacy \in {bank, NoBookings}
  /\ pending \in {p \in [Bookings -> {0, 1}] : \A b \in Bookings : p[b] = 1 => b \in PendingBookings}
  /\ konto = None
  /\ sync = [s \in Syncs |-> Idle]

-----------------------------------------------------------------------------
(* The bank and the calendar. *)

\* A booking is dated today or was delayed.
Post(b) ==
  /\ b.day \in today - Delay .. today
  /\ bank[b] < Copies
  /\ SumFunction(bank) < Posts
  /\ bank' = [bank EXCEPT ![b] = @ + 1]
  /\ UNCHANGED <<today, stored, legacy, pending, konto, sync>>

\* A run sees midnight once at most: it waits 15 minutes for a TAN.
NewDay ==
  /\ today < LastDay
  /\ \A s \in Syncs : sync[s] # Idle => sync[s].to = today
  /\ today' = today + 1
  /\ UNCHANGED <<bank, stored, legacy, pending, konto, sync>>

-----------------------------------------------------------------------------
(* Fetching. *)

\* Rows that count as the booking (isSame).
Matches(b) == stored[b] + legacy[b]

\* Mutant: the pending rows count too.
BookedOrPendingDays == {b.day : b \in {x \in Bookings : Matches(x) + pending[x] > 0}}

BookedDays == {b.day : b \in {x \in Bookings : Matches(x) > 0}}

FetchStart ==
  IF BookedDays = {} THEN today - Initial
  ELSE (CHOOSE d \in BookedDays : \A other \in BookedDays : other <= d) - Overlap

Start(s) ==
  /\ sync[s] = Idle
  /\ sync' = [sync EXCEPT ![s].at = "fetching", ![s].from = FetchStart, ![s].to = today]
  /\ UNCHANGED <<today, bank, stored, legacy, pending, konto>>

FetchStatements(s) ==
  /\ sync[s].at = "fetching"
  /\ \E offered \in SUBSET PendingBookings :
       sync' = [sync EXCEPT ![s].at = "fetched", ![s].ledger = bank, ![s].offered = offered]
  /\ UNCHANGED <<today, bank, stored, legacy, pending, konto>>

FetchFails(s) ==
  /\ sync[s].at = "fetching"
  /\ sync' = [sync EXCEPT ![s] = Idle]
  /\ UNCHANGED <<today, bank, stored, legacy, pending, konto>>

\* How often the statement has the booking.
Fetched(s, b) == IF b.day \in sync[s].from .. sync[s].to THEN sync[s].ledger[b] ELSE 0

-----------------------------------------------------------------------------
(* mergeStatement and its transaction. *)

\* Mutant: the konto is read without FOR UPDATE.
ReadKonto(s) ==
  /\ sync[s].at = "fetched"
  /\ konto' = s
  /\ sync' = [sync EXCEPT ![s].at = "locked"]
  /\ UNCHANGED <<today, bank, stored, legacy, pending>>

LockKonto(s) ==
  /\ sync[s].at = "fetched"
  /\ konto = None
  /\ konto' = s
  /\ sync' = [sync EXCEPT ![s].at = "locked"]
  /\ UNCHANGED <<today, bank, stored, legacy, pending>>

\* Mutant: one more.
SkippedOnceMore(n, k) == n > 0 /\ k <= n + 2

\* The k-th of equal fetched bookings is skipped while it was seen at most as often as it is
\* stored: it has been seen k - 1 times.
Skipped(n, k) == n > 0 /\ (k = 1 \/ k - 1 <= n)

\* Mutant: the difference of the two counts.
InsertedDifference(n, m) == IF n = 0 THEN m ELSE m - (n + 1)

\* mergeInto: of m equal bookings, with n rows that match them.
Inserted(n, m) == Cardinality({k \in 1 .. m : ~Skipped(n, k)})

MergeBooked(s) ==
  /\ sync[s].at = "locked"
  /\ sync' = [sync EXCEPT ![s].at = "booked",
                ![s].inserts = [b \in Bookings |-> Inserted(Matches(b), Fetched(s, b))]]
  /\ UNCHANGED <<today, bank, stored, legacy, pending, konto>>

\* Mutant: the rows not delivered again are kept until their day is over.
DropStaleOnly(s) ==
  [b \in Bookings |-> (IF b.day < today THEN 0 ELSE pending[b])
                        + (IF b \in sync[s].offered THEN Inserted(pending[b], 1) ELSE 0)]

\* Without pending bookings every pending row dated before today goes; with them every one that
\* was not delivered again.
PendingAfter(s) ==
  [b \in Bookings |->
     IF sync[s].offered = {} THEN IF b.day < today THEN 0 ELSE pending[b]
     ELSE IF b \in sync[s].offered THEN pending[b] + Inserted(pending[b], 1)
     ELSE 0]

MergePending(s) ==
  /\ sync[s].at = "booked"
  /\ sync' = [sync EXCEPT ![s].at = "merged", ![s].pending = PendingAfter(s)]
  /\ UNCHANGED <<today, bank, stored, legacy, pending, konto>>

Commit(s) ==
  /\ sync[s].at = "merged"
  /\ stored' = [b \in Bookings |-> stored[b] + sync[s].inserts[b]]
  /\ pending' = sync[s].pending
  /\ konto' = None
  /\ sync' = [sync EXCEPT ![s].at = "done", ![s].inserts = NoBookings,
                             ![s].pending = NoBookings]
  /\ UNCHANGED <<today, bank, legacy>>

\* A booking that cannot be stored, a failed query, or the end of the process.
Rollback(s) ==
  /\ sync[s].at \in {"locked", "booked", "merged"}
  /\ konto' = None
  /\ sync' = [sync EXCEPT ![s] = Idle]
  /\ UNCHANGED <<today, bank, stored, legacy, pending>>

Finish(s) ==
  /\ sync[s].at = "done"
  /\ sync' = [sync EXCEPT ![s] = Idle]
  /\ UNCHANGED <<today, bank, stored, legacy, pending, konto>>

-----------------------------------------------------------------------------
Next ==
  \/ \E b \in Bookings : Post(b)
  \/ NewDay
  \/ \E s \in Syncs :
       \/ Start(s) \/ FetchStatements(s) \/ FetchFails(s)
       \/ LockKonto(s) \/ MergeBooked(s) \/ MergePending(s) \/ Commit(s) \/ Rollback(s)
       \/ Finish(s)

Spec == Init /\ [][Next]_vars

-----------------------------------------------------------------------------
(* Properties. *)

\* Nothing is duplicated ("rows the desktop client already imported are recognised, not
\* duplicated"): whatever overlaps, is rolled back and fetched again, no booking is stored more
\* often than the bank booked it.
NeverMoreThanBank == \A b \in Bookings : Matches(b) <= bank[b]

\* The price of Hibiscus' duplicate counting is one equal booking at most: "with n identical rows
\* stored, n + 1 identical fetched bookings are all skipped".
OneMissingAtMost ==
  \A s \in Syncs : sync[s].at = "done" => \A b \in Bookings : Matches(b) >= Fetched(s, b) - 1

\* The overlap leaves no gap: after a sync, a booking the bank had and that is not stored at all
\* is older than every stored one, although it may have been posted after its date.
NoGaps ==
  \A s \in Syncs : sync[s].at = "done" =>
    \A b \in Bookings :
      (sync[s].ledger[b] > 0 /\ b.day <= sync[s].to /\ Matches(b) = 0)
        => \A d \in BookedDays : b.day < d

\* A commit leaves the pending rows the bank delivered, each at least once and none besides; when
\* it delivered none, none of an earlier day.
PendingFits ==
  [][\A s \in Syncs : (sync[s].at = "merged" /\ sync'[s].at = "done") =>
       IF sync[s].offered # {} THEN {b \in Bookings : pending'[b] > 0} = sync[s].offered
       ELSE \A b \in Bookings : pending'[b] > 0 => b.day >= sync[s].to]_vars
=============================================================================
