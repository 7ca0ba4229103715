----------------------------- MODULE PendingTans -----------------------------
(***************************************************************************)
(* The open TAN challenges in process memory (packages/backend/src/sync/   *)
(* pending-tan-registry.ts), keyed by run id.  An entry's waiter is the    *)
(* run whose request awaits an answer; its timer runs exactly while there  *)
(* is a waiter.  Each operation is one synchronous turn and so a conjunct  *)
(* of a caller's action; what the waiter's promise settles with is the     *)
(* caller's to keep.  A photoTAN is a typed TAN with an image.             *)
(***************************************************************************)
EXTENDS Naturals

CONSTANTS
  RunIds,       \* ids of hf_sync_run rows, 1 .. a bound
  Callers,      \* those who hold a prompt
  References,   \* the bank's order references
  None          \* null

VARIABLE entries     \* entries[id]: the challenge of run id

Kinds == {"tan", "decoupled"}

NoEntry == [kind |-> "none", reference |-> None, expired |-> FALSE, waiter |-> None]

Entry == [kind      : Kinds,
          reference : References,
          expired   : BOOLEAN,             \* the deadline has passed
          waiter    : Callers \cup {None}]

TansTypeOK == entries \in [RunIds -> Entry \cup {NoEntry}]

TansInit == entries = [id \in RunIds |-> NoEntry]

HasWaiter(id) == entries[id].waiter # None

\* Waiting for an answer, or a decoupled challenge that is still being polled.
IsOpen(id) == HasWaiter(id) \/ entries[id].kind = "decoupled"

\* A request with the reference of the entry keeps its deadline.
DeadlineOver(id, reference) == entries[id].reference = reference /\ entries[id].expired

\* Mutant: the deadline counts from the last poll.
RegisterAnew(id, caller, challenge) ==
  /\ ~HasWaiter(id)
  /\ entries' = [entries EXCEPT ![id] = [kind |-> challenge.kind, reference |-> challenge.reference,
                                         expired |-> FALSE, waiter |-> caller]]

Register(id, caller, challenge) ==
  /\ ~HasWaiter(id)
  /\ ~DeadlineOver(id, challenge.reference)
  /\ entries' = [entries EXCEPT ![id] = [kind |-> challenge.kind, reference |-> challenge.reference,
                                         expired |-> FALSE, waiter |-> caller]]

\* A request after the deadline is rejected at once.
RegisterTooLate(id, challenge) ==
  /\ ~HasWaiter(id)
  /\ DeadlineOver(id, challenge.reference)
  /\ entries' = [entries EXCEPT ![id] = NoEntry]

\* Answered, or time to ask the bank again.
Wake(id) ==
  /\ HasWaiter(id)
  /\ entries' = [entries EXCEPT ![id].waiter = None]

\* The timer fires after the deadline.
Expire(id) ==
  /\ HasWaiter(id)
  /\ entries[id].expired
  /\ entries' = [entries EXCEPT ![id] = NoEntry]

\* Fifteen minutes after the challenge first appeared.
DeadlinePasses(id) ==
  /\ entries[id] # NoEntry
  /\ ~entries[id].expired
  /\ entries' = [entries EXCEPT ![id].expired = TRUE]

\* A pending request, if any, is never resolved.
Release(id) == entries' = [entries EXCEPT ![id] = NoEntry]

ForgetTans == entries' = [id \in RunIds |-> NoEntry]
=============================================================================
