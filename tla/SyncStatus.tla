------------------------------ MODULE SyncStatus ------------------------------
(* What a browser tab knows of a bank connection's runs: SyncStatusStore polls *)
(* GET /api/sync/status, callers refresh it on top, a discovery waits for its  *)
(* run, and the TAN dialog follows the store (features/sync,                   *)
(* features/key/key-prompt). Answers may come late and in any order. The       *)
(* server is one connection whose runs follow each other.                      *)
EXTENDS Integers, Sequences, FiniteSets, SequencesExt

CONSTANTS None,
          MaxRuns,      \* bound: so many runs are started
          MaxChanges,   \* bound: so many changes of the status
          MaxInFlight,  \* bound: so many status requests on their way at a time
          MaxPollers    \* bound: so many components poll at a time

VARIABLES server,     \* the latest run and the challenge it waits with
          requests,   \* the status requests on their way, in the order they were sent
          shown,      \* state: the latest answer, or None
          polling,    \* how many components have started polling
          timer,      \* whether the next poll is scheduled
          awaited,    \* the run awaitRun waits for, or None
          dialog,     \* the TAN dialog, or None
          seen        \* ghost: of the answered requests, the latest time one was sent

vars == <<server, requests, shown, polling, timer, awaited, dialog, seen>>

\* time counts the changes; challenge is the time the open challenge came, or None.
Statuses == {"running", "tan_required", "success", "error"}
Status == [time : 0..MaxChanges, run : 0..MaxRuns, status : Statuses,
           challenge : 0..MaxChanges \cup {None}]
Kinds == {"tick", "refresh", "await", "open"}
Request == [kind : Kinds, sent : 0..MaxChanges, phase : {"sent", "answered", "failed"},
            answer : Status \cup {None}, stale : BOOLEAN,
            about : Status \cup {None}]  \* the status that made the caller open the dialog

Dialog == [run : 1..MaxRuns, challenge : 0..MaxChanges, asked : BOOLEAN,
           tan : {"none", "sent", "taken", "refused"}]

\* What the values of the constants must be.
ConstantsFit ==
    /\ {MaxRuns, MaxChanges, MaxInFlight, MaxPollers} \subseteq Nat
    /\ None \notin Nat /\ None \notin Status /\ None \notin Dialog

TypeOK ==
    /\ server \in Status
    /\ Len(requests) <= MaxInFlight /\ Range(requests) \subseteq Request
    /\ shown \in Status \cup {None}
    /\ polling \in 0..MaxPollers /\ timer \in BOOLEAN
    /\ awaited \in 0..MaxRuns \cup {None}
    /\ dialog \in Dialog \cup {None}
    /\ seen \in 0..MaxChanges

isActiveRun(status) == status.status \in {"running", "tan_required"}

Init ==
    /\ server = [time |-> 0, run |-> 0, status |-> "success", challenge |-> None]
    /\ requests = << >> /\ shown = None /\ polling = 0 /\ timer = FALSE
    /\ awaited = None /\ dialog = None /\ seen = 0

-----------------------------------------------------------------------------
(* The server's side. *)

Change(run, status) ==
    /\ server.time < MaxChanges
    /\ server' = [time |-> server.time + 1, run |-> run, status |-> status,
                  challenge |-> IF status = "tan_required" THEN server.time + 1 ELSE None]
Begin == ~isActiveRun(server) /\ server.run < MaxRuns /\ Change(server.run + 1, "running")

\* The scheduler, or another tab, starts a run; a run waits for a TAN; a run ends.
RunStarts ==
    /\ Begin
    /\ UNCHANGED <<requests, shown, polling, timer, awaited, dialog, seen>>
RunGoesOn ==
    /\ isActiveRun(server)
    /\ \E status \in Statuses \ {server.status} : Change(server.run, status)
    /\ UNCHANGED <<requests, shown, polling, timer, awaited, dialog, seen>>

Answer(i) ==
    /\ i \in DOMAIN requests /\ requests[i].phase = "sent"
    /\ requests' = [requests EXCEPT ![i].phase = "answered", ![i].answer = server]
    /\ UNCHANGED <<server, shown, polling, timer, awaited, dialog, seen>>
Fail(i) ==
    /\ i \in DOMAIN requests /\ requests[i].phase = "sent"
    /\ requests' = [requests EXCEPT ![i].phase = "failed"]
    /\ UNCHANGED <<server, shown, polling, timer, awaited, dialog, seen>>

-----------------------------------------------------------------------------
(* The store. *)

\* A request takes the next number. Its answer is too late once that of a later one came.
Asked(kind, time, about) == [kind |-> kind, sent |-> time, phase |-> "sent",
                             answer |-> None, stale |-> FALSE, about |-> about]
refresh(kind, known) == Append(known, Asked(kind, server.time, None))
Room(n) == Len(requests) + n <= MaxInFlight

startPolling ==
    /\ polling < MaxPollers /\ Room(1)
    /\ polling' = polling + 1
    /\ requests' = IF polling = 0 THEN refresh("tick", requests) ELSE requests
    /\ UNCHANGED <<server, shown, timer, awaited, dialog, seen>>

\* Mutant: a component may stop more often than it started.
stopPollingTwice ==
    /\ polling' = polling - 1
    /\ timer' = IF polling = 1 THEN FALSE ELSE timer
    /\ UNCHANGED <<server, requests, shown, awaited, dialog, seen>>

stopPolling ==
    /\ polling > 0
    /\ polling' = polling - 1
    /\ timer' = IF polling = 1 THEN FALSE ELSE timer
    /\ UNCHANGED <<server, requests, shown, awaited, dialog, seen>>

tick ==
    /\ timer /\ Room(1)
    /\ timer' = FALSE
    /\ requests' = refresh("tick", requests)
    /\ UNCHANGED <<server, shown, polling, awaited, dialog, seen>>

schedule == timer' = (timer \/ polling > 0)

\* A page that is opened, a dialog that closes.
OnDemand ==
    /\ Room(1)
    /\ requests' = refresh("refresh", requests)
    /\ UNCHANGED <<server, shown, polling, timer, awaited, dialog, seen>>

-----------------------------------------------------------------------------
(* The TAN dialog: it closes by itself once the store shows no challenge and no failure. *)

tanViewOf(statuses, run) ==
    IF statuses = None THEN "loading"
    ELSE IF statuses.run = run /\ statuses.challenge # None THEN "challenge"
    ELSE IF statuses.run = run /\ statuses.status = "error" THEN "failed"
    ELSE "done"
Settled(d, statuses) ==
    IF d # None /\ tanViewOf(statuses, d.run) = "done" THEN None ELSE d

\* TanDialogs.open: one dialog at a time. asked: the status was read after the challenge came.
open(run, challenge, asked) ==
    IF dialog # None /\ dialog.run = run THEN dialog
    ELSE [run |-> run, challenge |-> challenge, asked |-> asked, tan |-> "none"]

\* The banner's button, for a challenge the store shows.
AnswerBanner ==
    /\ shown # None /\ shown.challenge # None
    /\ dialog' = open(shown.run, shown.challenge, FALSE)
    /\ UNCHANGED <<server, requests, shown, polling, timer, awaited, seen>>

submit ==
    /\ dialog # None /\ tanViewOf(shown, dialog.run) = "challenge" /\ dialog.tan = "none"
    /\ dialog' = [dialog EXCEPT !.tan = "sent"]
    /\ UNCHANGED <<server, requests, shown, polling, timer, awaited, seen>>

\* The registry passes the TAN to the waiting run, or there is no challenge any more.
TakeTan ==
    /\ dialog # None /\ dialog.tan = "sent"
    /\ \/ /\ server.run = dialog.run /\ server.challenge # None
          /\ Change(server.run, "running")
          /\ dialog' = [dialog EXCEPT !.tan = "taken"]
       \/ /\ server.run # dialog.run \/ server.challenge = None
          /\ dialog' = [dialog EXCEPT !.tan = "refused"] /\ UNCHANGED server
       \/ \* the request fails
          dialog' = [dialog EXCEPT !.tan = "none"] /\ UNCHANGED server
    /\ UNCHANGED <<requests, shown, polling, timer, awaited, seen>>

TanAnswered ==
    /\ dialog # None /\ dialog.tan \in {"taken", "refused"} /\ Room(1)
    /\ requests' = refresh("refresh", requests)
    /\ dialog' = IF dialog.tan = "refused" THEN None ELSE [dialog EXCEPT !.tan = "none"]
    /\ UNCHANGED <<server, shown, polling, timer, awaited, seen>>

Close ==
    /\ dialog # None /\ dialog' = None
    /\ UNCHANGED <<server, requests, shown, polling, timer, awaited, seen>>

-----------------------------------------------------------------------------
(* syncNow: the tab starts a run and refreshes (a key prompt may come before). *)

syncNow ==
    /\ Begin /\ Room(1)
    /\ requests' = Append(requests, Asked("refresh", server'.time, None))
    /\ UNCHANGED <<shown, polling, timer, awaited, dialog, seen>>

-----------------------------------------------------------------------------
(* A discovery that needs a TAN: waitForTan. *)

waitForTan ==
    /\ awaited = None /\ server.challenge # None /\ Room(1)
    /\ awaited' = server.run
    /\ requests' = Append(requests, Asked("open", server.time, server))
    /\ UNCHANGED <<server, shown, polling, timer, dialog, seen>>

\* awaitRun: every 2 s a new refresh takes the place of the one before (switchMap).
Earlier == {i \in DOMAIN requests : requests[i].kind = "await"}
Others == IF Earlier = {} THEN requests ELSE RemoveAt(requests, CHOOSE i \in Earlier : TRUE)
awaitRun ==
    /\ awaited # None /\ Len(Others) < MaxInFlight
    /\ requests' = refresh("await", Others)
    /\ UNCHANGED <<server, shown, polling, timer, awaited, dialog, seen>>

finishedRun(statuses, run) == statuses # None /\ statuses.run = run /\ ~isActiveRun(statuses)

-----------------------------------------------------------------------------
(* An answer reaches the tab: the store, then whoever asked. *)

\* Mutant: an answer does not outdate the requests sent before.
OutdateNone(i) == requests

Outdate(i) == [j \in DOMAIN requests |-> IF j < i THEN [requests[j] EXCEPT !.stale = TRUE]
                                         ELSE requests[j]]

Whoever(r, statuses) ==
    /\ IF r.kind = "tick" THEN schedule ELSE UNCHANGED timer
    /\ awaited' = IF r.kind = "await" /\ (r.phase = "failed" \/ finishedRun(statuses, awaited))
                  THEN None ELSE awaited
    /\ dialog' = Settled(IF r.kind = "open"
                         THEN open(r.about.run, r.about.challenge, r.phase = "answered")
                         ELSE dialog, statuses)

Receive(i) ==
    LET r == requests[i] IN
    /\ i \in DOMAIN requests /\ r.phase = "answered"
    /\ shown' = IF r.stale THEN shown ELSE r.answer
    /\ requests' = RemoveAt(IF r.stale THEN requests ELSE Outdate(i), i)
    /\ seen' = IF r.sent > seen THEN r.sent ELSE seen
    /\ Whoever(r, shown')
    /\ UNCHANGED <<server, polling>>

ReceiveFailure(i) ==
    /\ i \in DOMAIN requests /\ requests[i].phase = "failed"
    /\ requests' = RemoveAt(requests, i)
    /\ Whoever(requests[i], shown)
    /\ UNCHANGED <<server, shown, polling, seen>>

Next ==
    \/ RunStarts \/ RunGoesOn
    \/ startPolling \/ stopPolling \/ tick \/ OnDemand
    \/ AnswerBanner \/ submit \/ TakeTan \/ TanAnswered \/ Close
    \/ syncNow \/ waitForTan \/ awaitRun
    \/ \E i \in 1..MaxInFlight : Answer(i) \/ Fail(i) \/ Receive(i) \/ ReceiveFailure(i)

Spec == Init /\ [][Next]_vars

-----------------------------------------------------------------------------
(* Properties. *)

\* An answer never takes the tab back behind what it asked for before: once a refresh
\* is answered, the store shows the server at least as it was when that one was sent,
\* whatever other answers come in whatever order (requestSeq and appliedSeq).
StatusFresh == shown # None => shown.time >= seen

\* While somebody polls, the next poll is scheduled or on its way, however polls fail and
\* components come and go; when nobody does, none is scheduled.
PollingGoesOn ==
    /\ polling > 0 => timer \/ \E i \in DOMAIN requests : requests[i].kind = "tick"
    /\ polling = 0 => ~timer

\* The dialog a discovery opens after it has read the status stays as long as the
\* challenge it was opened for is open: no answer, however late, closes it over the user's
\* head or puts another in its place, but that of a discovery of another run that opens
\* its own (TanDialogs.open). Nothing is said of a dialog that waitForTan opens although its
\* read of the status failed, nor of the banner's (asked is FALSE): an answer that was given
\* before the challenge came may still arrive, and closes it.
OpensAnother(i) ==
    /\ requests[i].kind = "open" /\ requests[i].about.run # dialog.run
    /\ Receive(i) \/ ReceiveFailure(i)
TanDialogStays ==
    [][dialog # None /\ dialog.asked
        /\ server.run = dialog.run /\ server.challenge = dialog.challenge
        /\ (dialog' = None \/ dialog'.run # dialog.run)
        => Close \/ \E i \in DOMAIN requests : OpensAnother(i)]_dialog
=============================================================================
