---------------------------- MODULE ScreensProofs ----------------------------
(* Proofs about what a tab keeps and shows (Screens): the state of the syncs,  *)
(* the user's settings, the export dialog, the tables, their trees and the     *)
(* report by category. The rows with their keys and parents, the filters, the  *)
(* transactions and the drafts are constants, of which PartsFit says all that  *)
(* is assumed. The invariant of each part is stated and proved on its own,     *)
(* then they are put together.                                                 *)
EXTENDS Screens, TableTrees, Sequences, FiniteSetTheorems, TLAPS

-----------------------------------------------------------------------------
(* The state of the syncs. *)

LEMMA SyncConstants ==
    /\ MaxRuns \in Nat /\ MaxChanges \in Nat /\ MaxInFlight \in Nat /\ MaxPollers \in Nat
    /\ None \notin Nat /\ None \notin S!Status /\ None \notin S!Dialog
BY PartsFit DEF S!ConstantsFit

\* A status that was read: the server is as it says, unless it has changed since.
ReadOf(q, now) ==
    /\ q \in S!Status
    /\ q.challenge # None => q.run >= 1 /\ q.challenge = q.time
    /\ q.time <= now.time
    /\ q.time = now.time => q = now

\* The server: an open challenge came with its last change.
ServerFit(now) ==
    /\ now \in S!Status
    /\ now.challenge # None => now.run >= 1 /\ now.challenge = now.time
    /\ S!isActiveRun(now) => now.run >= 1

\* A request: its answer is at least as new as itself, and unless it is outdated it is not
\* older than what was seen.
RequestFit(r, now, seenTime, anyShown) ==
    /\ r \in S!Request
    /\ r.sent <= now.time
    /\ r.phase = "answered" => ReadOf(r.answer, now) /\ r.answer.time >= r.sent
    /\ r.kind = "open" => /\ r.about \in S!Status /\ r.about.run >= 1
                          /\ r.about.challenge = r.sent
    /\ IF r.stale THEN r.sent <= seenTime /\ anyShown ELSE r.sent >= seenTime

RequestsFit(list, now, seenTime, anyShown) ==
    /\ list \in Seq(S!Request)
    /\ \A i \in 1..Len(list) : RequestFit(list[i], now, seenTime, anyShown)
    /\ \A i, j \in 1..Len(list) : i < j => list[i].sent <= list[j].sent

\* The dialog: one opened after the status was read is of a challenge that was seen.
DialogFit(d, now, seenTime, anyShown) ==
    d # None =>
        /\ d \in S!Dialog
        /\ d.challenge <= now.time
        /\ d.asked => anyShown /\ seenTime >= d.challenge
        /\ d.tan = "refused" => ~(now.run = d.run /\ now.challenge = d.challenge)

ShownFit(q, now, seenTime) == q # None => ReadOf(q, now) /\ q.time >= seenTime

\* The polls: the next one is scheduled or on its way, as long as there is a poller.
PollsFit(count, due, list) ==
    /\ count \in 0..MaxPollers /\ due \in BOOLEAN
    /\ count > 0 => due = TRUE \/ \E i \in 1..Len(list) : list[i].kind = "tick"
    /\ count = 0 => due = FALSE

SyncInv ==
    /\ ServerFit(server)
    /\ RequestsFit(requests, server, seen, status # None)
    /\ Len(requests) <= MaxInFlight
    /\ ShownFit(status, server, seen)
    /\ PollsFit(polling, timer, requests)
    /\ awaited \in 0..MaxRuns \cup {None}
    /\ DialogFit(tanDialog, server, seen, status # None)
    /\ seen \in 0..MaxChanges /\ seen <= server.time

LEMMA InitSync == S!Init => SyncInv
<1> USE SyncConstants DEF S!Init
<1> SUFFICES ASSUME S!Init PROVE SyncInv
    OBVIOUS
<1>1. ServerFit(server)
    BY DEF ServerFit, S!Status, S!Statuses, S!isActiveRun
<1>2. RequestsFit(requests, server, seen, status # None) /\ Len(requests) <= MaxInFlight
    BY DEF RequestsFit
<1>3. PollsFit(polling, timer, requests)
    <2>1. polling \in 0..MaxPollers /\ ~(polling > 0)
        OBVIOUS
    <2>2. timer \in BOOLEAN /\ timer = FALSE
        BY Zenon
    <2> QED
        BY <2>1, <2>2, Zenon DEF PollsFit
<1> QED
    BY <1>1, <1>2, <1>3 DEF SyncInv, ShownFit, DialogFit

\* A request that is sent joins the others.
LEMMA AppendedFits ==
    ASSUME NEW list, NEW now, NEW sn \in Int, NEW sh, NEW r,
           RequestsFit(list, now, sn, sh), RequestFit(r, now, sn, sh), r.sent = now.time,
           ServerFit(now)
    PROVE  /\ RequestsFit(Append(list, r), now, sn, sh)
           /\ Len(Append(list, r)) = Len(list) + 1
           /\ \A i \in 1..Len(list) : Append(list, r)[i] = list[i]
           /\ Append(list, r)[Len(list) + 1] = r
<1>0. list \in Seq(S!Request) /\ r \in S!Request /\ Len(list) \in Nat
    BY DEF RequestsFit, RequestFit
<1>1. /\ Append(list, r) \in Seq(S!Request)
      /\ Len(Append(list, r)) = Len(list) + 1
      /\ \A i \in 1..Len(list) : Append(list, r)[i] = list[i]
      /\ Append(list, r)[Len(list) + 1] = r
    BY <1>0
<1> DEFINE new == Append(list, r)
<1>2. \A i \in 1..Len(new) : i \in 1..Len(list) \/ i = Len(list) + 1
    BY <1>0, <1>1
<1>5. \A i \in 1..Len(list) : list[i].sent <= r.sent
    BY DEF RequestsFit, RequestFit
<1> HIDE DEF new
<1>6. new \in Seq(S!Request) /\ Len(new) = Len(list) + 1 /\ new[Len(list) + 1] = r
      /\ \A i \in 1..Len(list) : new[i] = list[i]
    BY <1>1 DEF new
<1>3. \A i \in 1..Len(new) : RequestFit(new[i], now, sn, sh)
    BY <1>6, <1>2 DEF RequestsFit
<1>4. \A i, j \in 1..Len(new) : i < j => new[i].sent <= new[j].sent
    <2> SUFFICES ASSUME NEW i \in 1..Len(new), NEW j \in 1..Len(new), i < j
                 PROVE  new[i].sent <= new[j].sent
        OBVIOUS
    <2>1. i \in 1..Len(list)
        BY <1>0, <1>6
    <2>2. CASE j \in 1..Len(list)
        BY <2>1, <2>2, <1>6 DEF RequestsFit
    <2>3. CASE j = Len(list) + 1
        BY <2>1, <2>3, <1>5, <1>6
    <2> QED
        BY <2>2, <2>3, <1>2
<1> QED
    BY <1>1, <1>3, <1>4, <1>6 DEF RequestsFit, new

\* What a sequence is without one of its elements.
LEMMA Removed ==
    ASSUME NEW Z, NEW list \in Seq(Z), NEW k \in 1..Len(list)
    PROVE  /\ S!RemoveAt(list, k) \in Seq(Z)
           /\ Len(S!RemoveAt(list, k)) = Len(list) - 1
           /\ \A i \in 1..(Len(list) - 1) :
                S!RemoveAt(list, k)[i] = IF i < k THEN list[i] ELSE list[i + 1]
<1> DEFINE a == SubSeq(list, 1, k - 1)
           b == SubSeq(list, k + 1, Len(list))
<1>1. /\ a \in Seq(Z) /\ Len(a) = k - 1
      /\ \A i \in 1..(k - 1) : a[i] = list[i]
    OBVIOUS
<1>2. /\ b \in Seq(Z) /\ Len(b) = Len(list) - k
      /\ \A i \in 1..(Len(list) - k) : b[i] = list[i + k]
    OBVIOUS
<1>3. S!RemoveAt(list, k) = a \o b
    BY DEF S!RemoveAt
<1> HIDE DEF a, b
<1>4. a \o b \in Seq(Z) /\ Len(a \o b) = Len(a) + Len(b)
    <2>1. a \in Seq(Z) /\ b \in Seq(Z)
        BY <1>1, <1>2
    <2> QED
        BY ONLY <2>1
<1>5. \A i \in 1..(Len(a) + Len(b)) :
        (a \o b)[i] = IF i <= Len(a) THEN a[i] ELSE b[i - Len(a)]
    BY <1>1, <1>2
<1>6. SUFFICES ASSUME NEW i \in 1..(Len(list) - 1)
               PROVE  (a \o b)[i] = IF i < k THEN list[i] ELSE list[i + 1]
    BY <1>1, <1>2, <1>3, <1>4
<1>7. CASE i < k
    BY <1>7, <1>1, <1>2, <1>5
<1>8. CASE ~(i < k)
    <2>1. i - (k - 1) \in 1..(Len(list) - k) /\ i - (k - 1) + k = i + 1
        BY <1>8
    <2> QED
        BY <2>1, <1>8, <1>1, <1>2, <1>5
<1> QED
    BY <1>7, <1>8

LEMMA WithoutFits ==
    ASSUME NEW list, NEW now, NEW sn \in Int, NEW sh,
           RequestsFit(list, now, sn, sh), NEW k \in 1..Len(list)
    PROVE  RequestsFit(S!RemoveAt(list, k), now, sn, sh)
<1> DEFINE new == S!RemoveAt(list, k)
<1>1. list \in Seq(S!Request) /\ Len(list) \in Nat
    BY DEF RequestsFit
<1>2. /\ new \in Seq(S!Request) /\ Len(new) = Len(list) - 1
      /\ \A i \in 1..(Len(list) - 1) : new[i] = IF i < k THEN list[i] ELSE list[i + 1]
    BY <1>1, Removed
<1> HIDE DEF new
<1>3. \A i \in 1..Len(new) : i \in 1..Len(list) /\ i + 1 \in 1..Len(list)
    BY <1>1, <1>2
<1>4. \A i \in 1..Len(new) : RequestFit(new[i], now, sn, sh)
    BY <1>1, <1>2, <1>3 DEF RequestsFit
<1>5. \A i, j \in 1..Len(new) : i < j => new[i].sent <= new[j].sent
    <2> SUFFICES ASSUME NEW i \in 1..Len(new), NEW j \in 1..Len(new), i < j
                 PROVE  new[i].sent <= new[j].sent
        OBVIOUS
    <2>1. PICK a \in 1..Len(list) : new[i] = list[a] /\ a = IF i < k THEN i ELSE i + 1
        BY <1>1, <1>2, <1>3
    <2>2. PICK b \in 1..Len(list) : new[j] = list[b] /\ b = IF j < k THEN j ELSE j + 1
        BY <1>1, <1>2, <1>3
    <2>3. a < b
        BY <2>1, <2>2, <1>1, <1>2
    <2> QED
        BY <2>1, <2>2, <2>3 DEF RequestsFit
<1> QED
    BY <1>2, <1>4, <1>5 DEF RequestsFit, new

-----------------------------------------------------------------------------
(* The server. *)

LEMMA ChangedServer ==
    ASSUME SyncInv, NEW run \in 1..MaxRuns, NEW st \in S!Statuses, S!Change(run, st)
    PROVE  /\ ServerFit(server')
           /\ RequestsFit(requests, server', seen, status # None)
           /\ ShownFit(status, server', seen)
           /\ \A d : DialogFit(d, server, seen, status # None)
                    => DialogFit(d, server', seen, status # None)
           /\ seen <= server'.time
<1> USE SyncConstants
<1>1. /\ server.time \in 0..MaxChanges /\ server.time < MaxChanges
      /\ server'.time = server.time + 1 /\ server'.run = run /\ server'.status = st
      /\ server'.challenge = IF st = "tan_required" THEN server.time + 1 ELSE None
    BY DEF SyncInv, ServerFit, S!Status, S!Change
<1>2. server' \in S!Status
    BY <1>1 DEF S!Change, S!Status, S!Statuses
<1>3. ServerFit(server')
    BY <1>1, <1>2 DEF ServerFit
<1>4. \A q : ReadOf(q, server) => ReadOf(q, server')
    BY <1>1 DEF ReadOf, S!Status
<1>5. RequestsFit(requests, server', seen, status # None)
    <2>1. \A r : RequestFit(r, server, seen, status # None)
                => RequestFit(r, server', seen, status # None)
        <3> SUFFICES ASSUME NEW r, RequestFit(r, server, seen, status # None)
                     PROVE  RequestFit(r, server', seen, status # None)
            OBVIOUS
        <3>1. r.sent \in 0..MaxChanges
            BY DEF RequestFit, S!Request
        <3> QED
            BY <3>1, <1>1, <1>4 DEF RequestFit
    <2> QED
        BY <2>1 DEF SyncInv, RequestsFit
<1>6. ShownFit(status, server', seen)
    BY <1>4 DEF SyncInv, ShownFit
<1>7. ASSUME NEW d, DialogFit(d, server, seen, status # None)
      PROVE  DialogFit(d, server', seen, status # None)
    BY <1>1, <1>7 DEF DialogFit, S!Dialog
<1>8. seen <= server'.time
    BY <1>1 DEF SyncInv
<1> QED
    BY <1>3, <1>5, <1>6, <1>7, <1>8

LEMMA BegunRun == ASSUME SyncInv, S!Begin
                  PROVE  server.run + 1 \in 1..MaxRuns /\ S!Change(server.run + 1, "running")
BY SyncConstants DEF S!Begin, SyncInv, ServerFit, S!Status

LEMMA RunStartsSync == SyncInv /\ S!RunStarts => SyncInv'
<1> SUFFICES ASSUME SyncInv, S!RunStarts PROVE SyncInv'
    OBVIOUS
<1>1. server.run + 1 \in 1..MaxRuns /\ S!Change(server.run + 1, "running")
    BY BegunRun DEF S!RunStarts
<1> QED
    BY <1>1, ChangedServer DEF S!RunStarts, SyncInv, S!Statuses

LEMMA RunGoesOnSync == SyncInv /\ S!RunGoesOn => SyncInv'
<1> SUFFICES ASSUME SyncInv, S!RunGoesOn PROVE SyncInv'
    OBVIOUS
<1>1. PICK st \in S!Statuses : S!Change(server.run, st)
    BY DEF S!RunGoesOn
<1>2. server.run \in 1..MaxRuns
    BY SyncConstants DEF S!RunGoesOn, SyncInv, ServerFit, S!Status
<1> QED
    BY <1>1, <1>2, ChangedServer DEF S!RunGoesOn, SyncInv

LEMMA AnsweredFits ==
    ASSUME SyncInv, NEW k \in 1..Len(requests), NEW r,
           RequestFit(r, server, seen, status # None),
           r.sent = requests[k].sent, r.kind = requests[k].kind,
           requests' = [requests EXCEPT ![k] = r],
           UNCHANGED <<server, status, polling, timer, awaited, tanDialog, seen>>
    PROVE  SyncInv'
<1>1. /\ requests \in Seq(S!Request) /\ r \in S!Request
      /\ \A i \in 1..Len(requests) : RequestFit(requests[i], server, seen, status # None)
      /\ \A i, j \in 1..Len(requests) : i < j => requests[i].sent <= requests[j].sent
    BY DEF SyncInv, RequestsFit, RequestFit
<1>2. /\ requests' \in Seq(S!Request) /\ Len(requests') = Len(requests)
      /\ \A i \in 1..Len(requests) : requests'[i] = IF i = k THEN r ELSE requests[i]
    BY <1>1
<1>3. \A i \in 1..Len(requests) : /\ requests'[i].sent = requests[i].sent
                                 /\ requests'[i].kind = requests[i].kind
    BY <1>2
<1>4. RequestsFit(requests', server, seen, status # None)
    BY <1>1, <1>2, <1>3 DEF RequestsFit
<1>5. PollsFit(polling, timer, requests')
    BY <1>2, <1>3 DEF SyncInv, PollsFit
<1> QED
    BY <1>2, <1>4, <1>5 DEF SyncInv

LEMMA AnswerSync == ASSUME NEW i \in 1..MaxInFlight, SyncInv, S!Answer(i)
                    PROVE  SyncInv'
<1> DEFINE r == [requests[i] EXCEPT !.phase = "answered", !.answer = server]
<1>1. i \in 1..Len(requests) /\ requests \in Seq(S!Request)
    BY DEF S!Answer, SyncInv, RequestsFit
<1>2. RequestFit(requests[i], server, seen, status # None) /\ requests[i] \in S!Request
    BY <1>1 DEF SyncInv, RequestsFit, RequestFit
<1>3. r \in S!Request /\ r.sent = requests[i].sent /\ r.kind = requests[i].kind
      /\ r.phase = "answered" /\ r.answer = server
      /\ r.about = requests[i].about /\ r.stale = requests[i].stale
    BY <1>2 DEF S!Request, SyncInv, ServerFit
<1>4. ReadOf(server, server) /\ server.time >= r.sent
    BY <1>2, <1>3, SyncConstants DEF ReadOf, RequestFit, SyncInv, ServerFit, S!Status, S!Request
<1>5. requests' = [requests EXCEPT ![i] = r]
    BY <1>1, <1>2 DEF S!Answer, S!Request
<1> HIDE DEF r
<1>6. RequestFit(r, server, seen, status # None)
    BY <1>2, <1>3, <1>4 DEF RequestFit
<1> QED
    BY <1>1, <1>3, <1>5, <1>6, AnsweredFits DEF S!Answer

LEMMA FailSync == ASSUME NEW i \in 1..MaxInFlight, SyncInv, S!Fail(i)
                  PROVE  SyncInv'
<1> DEFINE r == [requests[i] EXCEPT !.phase = "failed"]
<1>1. i \in 1..Len(requests) /\ requests \in Seq(S!Request)
    BY DEF S!Fail, SyncInv, RequestsFit
<1>2. RequestFit(requests[i], server, seen, status # None) /\ requests[i] \in S!Request
    BY <1>1 DEF SyncInv, RequestsFit, RequestFit
<1>3. r \in S!Request /\ r.sent = requests[i].sent /\ r.kind = requests[i].kind
      /\ r.phase = "failed" /\ r.about = requests[i].about /\ r.stale = requests[i].stale
    BY <1>2 DEF S!Request
<1>5. requests' = [requests EXCEPT ![i] = r]
    BY <1>1, <1>2 DEF S!Fail, S!Request
<1> HIDE DEF r
<1>6. RequestFit(r, server, seen, status # None)
    BY <1>2, <1>3 DEF RequestFit
<1> QED
    BY <1>1, <1>3, <1>5, <1>6, AnsweredFits DEF S!Fail

-----------------------------------------------------------------------------
(* The store, and the TAN dialog. *)

\* A request that the tab sends for the status as it is now.
LEMMA NewRequest ==
    ASSUME SyncInv, NEW kind \in S!Kinds, NEW about \in S!Status \cup {None},
           kind = "open" => about # None /\ about.run >= 1 /\ about.challenge = server.time
    PROVE  RequestFit(S!Asked(kind, server.time, about), server, seen, status # None)
<1>1. server.time \in 0..MaxChanges /\ seen <= server.time /\ server.time <= server.time
    BY SyncConstants DEF SyncInv, ServerFit, S!Status
<1>2. S!Asked(kind, server.time, about) \in S!Request
    BY <1>1 DEF S!Asked, S!Request
<1> QED
    BY <1>1, <1>2 DEF S!Asked, RequestFit

\* The same list with a request that was sent at its end.
LEMMA SentFits ==
    ASSUME SyncInv, NEW list, RequestsFit(list, server, seen, status # None),
           NEW kind \in S!Kinds, NEW about \in S!Status \cup {None},
           kind = "open" => about # None /\ about.run >= 1 /\ about.challenge = server.time
    PROVE  /\ RequestsFit(Append(list, S!Asked(kind, server.time, about)),
                          server, seen, status # None)
           /\ Len(Append(list, S!Asked(kind, server.time, about))) = Len(list) + 1
           /\ \A due : PollsFit(polling, due, list)
                        => PollsFit(polling, due, Append(list, S!Asked(kind, server.time, about)))
<1> DEFINE r == S!Asked(kind, server.time, about)
<1>1. RequestFit(r, server, seen, status # None) /\ r.sent = server.time
    BY NewRequest DEF S!Asked
<1>2. seen \in Int /\ ServerFit(server)
    BY DEF SyncInv
<1> HIDE DEF r
<1>3. /\ RequestsFit(Append(list, r), server, seen, status # None)
      /\ Len(Append(list, r)) = Len(list) + 1
      /\ \A i \in 1..Len(list) : Append(list, r)[i] = list[i]
    BY <1>1, <1>2, AppendedFits
<1>4. Len(list) \in Nat
    BY DEF RequestsFit
<1>5. ASSUME NEW due, PollsFit(polling, due, list)
      PROVE  PollsFit(polling, due, Append(list, r))
    BY <1>3, <1>4, <1>5 DEF PollsFit
<1> QED
    BY <1>3, <1>5 DEF r

LEMMA NoAbout == None \in S!Status \cup {None} /\ S!Kinds = {"tick", "refresh", "await", "open"}
BY DEF S!Kinds

LEMMA OnDemandSync == SyncInv /\ S!OnDemand => SyncInv'
<1> SUFFICES ASSUME SyncInv, S!OnDemand PROVE SyncInv'
    OBVIOUS
<1>1. /\ RequestsFit(requests', server, seen, status # None)
      /\ Len(requests') = Len(requests) + 1
      /\ \A due : PollsFit(polling, due, requests) => PollsFit(polling, due, requests')
    BY NoAbout, SentFits DEF S!OnDemand, S!refresh, SyncInv
<1> QED
    BY <1>1 DEF S!OnDemand, S!Room, SyncInv

LEMMA tickSync == SyncInv /\ S!tick => SyncInv'
<1> SUFFICES ASSUME SyncInv, S!tick PROVE SyncInv'
    OBVIOUS
<1> DEFINE r == S!Asked("tick", server.time, None)
<1>1. /\ RequestsFit(requests', server, seen, status # None)
      /\ Len(requests') = Len(requests) + 1
    BY NoAbout, SentFits DEF S!tick, S!refresh, SyncInv
<1>2. r.kind = "tick"
    BY DEF S!Asked
<1>3. requests \in Seq(S!Request) /\ requests' = Append(requests, r)
    BY DEF SyncInv, RequestsFit, S!tick, S!refresh
<1> HIDE DEF r
<1>4. Len(requests) + 1 \in 1..Len(requests') /\ requests'[Len(requests) + 1] = r
    BY <1>1, <1>3
<1>5. timer' = FALSE /\ timer' \in BOOLEAN
    BY Zenon DEF S!tick
<1>6. polling' \in 0..MaxPollers
    BY DEF S!tick, SyncInv, PollsFit
<1>7. PollsFit(polling', timer', requests')
    BY <1>2, <1>4, <1>5, <1>6 DEF PollsFit
<1> QED
    BY <1>1, <1>7 DEF S!tick, S!Room, SyncInv

LEMMA startPollingSync == SyncInv /\ S!startPolling => SyncInv'
<1> SUFFICES ASSUME SyncInv, S!startPolling PROVE SyncInv'
    OBVIOUS
<1>0. polling \in 0..MaxPollers /\ polling' = polling + 1 /\ polling < MaxPollers
      /\ timer' = timer /\ timer \in BOOLEAN
    BY DEF S!startPolling, SyncInv, PollsFit
<1>00. polling' \in 0..MaxPollers /\ polling' # 0
    BY <1>0, SyncConstants
<1>1. CASE polling = 0
    <2> DEFINE r == S!Asked("tick", server.time, None)
    <2>1. /\ RequestsFit(requests', server, seen, status # None)
          /\ Len(requests') = Len(requests) + 1
        BY <1>1, NoAbout, SentFits DEF S!startPolling, S!refresh, SyncInv
    <2>2. r.kind = "tick"
        BY DEF S!Asked
    <2>3. requests \in Seq(S!Request) /\ requests' = Append(requests, r)
        BY <1>1 DEF SyncInv, RequestsFit, S!startPolling, S!refresh
    <2> HIDE DEF r
    <2>4. Len(requests) + 1 \in 1..Len(requests') /\ requests'[Len(requests) + 1] = r
        BY <2>1, <2>3
    <2>5. PollsFit(polling', timer', requests')
        BY <2>2, <2>4, <1>0, <1>00 DEF PollsFit
    <2> QED
        BY <2>1, <2>5 DEF S!startPolling, S!Room, SyncInv
<1>2. CASE polling # 0
    <2>1. requests' = requests
        BY <1>2 DEF S!startPolling
    <2>2. PollsFit(polling', timer', requests')
        BY <2>1, <1>0, <1>00, <1>2 DEF PollsFit, SyncInv
    <2> QED
        BY <2>1, <2>2 DEF S!startPolling, SyncInv
<1> QED
    BY <1>1, <1>2

LEMMA stopPollingSync == SyncInv /\ S!stopPolling => SyncInv'
<1> SUFFICES ASSUME SyncInv, S!stopPolling PROVE SyncInv'
    OBVIOUS
<1>0. /\ polling \in 0..MaxPollers /\ polling' = polling - 1 /\ polling > 0
      /\ timer \in BOOLEAN /\ requests' = requests
      /\ timer' = IF polling = 1 THEN FALSE ELSE timer
    BY DEF S!stopPolling, SyncInv, PollsFit
<1>1. polling' \in 0..MaxPollers /\ (polling' > 0 => polling # 1) /\ (polling' = 0 => polling = 1)
    BY <1>0, SyncConstants
<1>2. timer' \in BOOLEAN
    BY <1>0, Zenon
<1>3. PollsFit(polling', timer', requests')
    BY <1>0, <1>1, <1>2 DEF PollsFit, SyncInv
<1> QED
    BY <1>0, <1>3 DEF S!stopPolling, SyncInv

LEMMA syncNowSync == SyncInv /\ S!syncNow => SyncInv'
<1> SUFFICES ASSUME SyncInv, S!syncNow PROVE SyncInv'
    OBVIOUS
<1>1. server.run + 1 \in 1..MaxRuns /\ S!Change(server.run + 1, "running")
    BY BegunRun DEF S!syncNow
<1>2. /\ ServerFit(server') /\ RequestsFit(requests, server', seen, status # None)
      /\ ShownFit(status, server', seen)
      /\ DialogFit(tanDialog, server', seen, status # None)
      /\ seen <= server'.time
    BY <1>1, ChangedServer DEF SyncInv, S!Statuses
<1> DEFINE r == S!Asked("refresh", server'.time, None)
<1>3. RequestFit(r, server', seen, status # None) /\ r.sent = server'.time
    <2>1. server'.time \in 0..MaxChanges /\ server'.time <= server'.time
        BY <1>2, SyncConstants DEF ServerFit, S!Status
    <2>2. r \in S!Request
        BY <2>1 DEF S!Asked, S!Request, S!Kinds
    <2> QED
        BY <2>1, <2>2, <1>2 DEF S!Asked, RequestFit
<1>4. requests' = Append(requests, r) /\ Len(requests) + 1 <= MaxInFlight
    BY DEF S!syncNow, S!Room
<1> HIDE DEF r
<1>5. seen \in Int /\ requests \in Seq(S!Request) /\ Len(requests) \in Nat
    BY DEF SyncInv, RequestsFit
<1>6. /\ RequestsFit(requests', server', seen, status # None)
      /\ Len(requests') = Len(requests) + 1
      /\ \A i \in 1..Len(requests) : requests'[i] = requests[i]
    BY <1>2, <1>3, <1>4, <1>5, AppendedFits
<1>7. PollsFit(polling, timer, requests')
    BY <1>5, <1>6 DEF PollsFit, SyncInv
<1> QED
    BY <1>2, <1>4, <1>6, <1>7 DEF S!syncNow, SyncInv

\* A dialog that is opened for a run, or the one that is open already.
LEMMA OpenedFits ==
    ASSUME NEW d, NEW run \in 1..MaxRuns, NEW challenge \in 0..MaxChanges, NEW asked \in BOOLEAN,
           d = S!open(run, challenge, asked),
           NEW now, NEW sn, NEW sh, DialogFit(tanDialog, now, sn, sh),
           challenge <= now.time, asked => sh /\ sn >= challenge
    PROVE  DialogFit(d, now, sn, sh)
<1>1. CASE tanDialog # None /\ tanDialog.run = run
    BY <1>1 DEF S!open
<1>2. CASE ~(tanDialog # None /\ tanDialog.run = run)
    <2>1. d = [run |-> run, challenge |-> challenge, asked |-> asked, tan |-> "none"]
        BY <1>2 DEF S!open
    <2>2. d \in S!Dialog /\ d.challenge = challenge /\ d.asked = asked /\ d.tan = "none"
        BY <2>1 DEF S!Dialog
    <2> QED
        BY <2>2 DEF DialogFit
<1> QED
    BY <1>1, <1>2

LEMMA AnswerBannerSync == SyncInv /\ S!AnswerBanner => SyncInv'
<1> SUFFICES ASSUME SyncInv, S!AnswerBanner PROVE SyncInv'
    OBVIOUS
<1>1. ReadOf(status, server) /\ status.challenge # None
    BY DEF SyncInv, ShownFit, S!AnswerBanner
<1>2. status.run \in 1..MaxRuns /\ status.challenge \in 0..MaxChanges
      /\ status.challenge <= server.time
    BY <1>1, SyncConstants DEF ReadOf, S!Status
<1>3. DialogFit(tanDialog', server, seen, status # None)
    BY <1>2, OpenedFits DEF S!AnswerBanner, SyncInv
<1> QED
    BY <1>3 DEF S!AnswerBanner, SyncInv

\* A dialog whose TAN goes another step.
LEMMA TanFits ==
    ASSUME SyncInv, tanDialog # None, NEW tan \in {"none", "sent", "taken", "refused"},
           NEW now, tanDialog.challenge <= now.time,
           tan = "refused" => now.run # tanDialog.run \/ now.challenge = None
    PROVE  /\ DialogFit([tanDialog EXCEPT !.tan = tan], now, seen, status # None)
           /\ [tanDialog EXCEPT !.tan = tan].run = tanDialog.run
           /\ [tanDialog EXCEPT !.tan = tan] # None
<1> DEFINE d == [tanDialog EXCEPT !.tan = tan]
<1>1. tanDialog \in S!Dialog
    BY DEF SyncInv, DialogFit
<1>2. /\ d \in S!Dialog /\ d.challenge = tanDialog.challenge /\ d.asked = tanDialog.asked
      /\ d.run = tanDialog.run /\ d.tan = tan
    BY <1>1 DEF S!Dialog
<1>3. d.challenge # None
    BY <1>2, SyncConstants DEF S!Dialog
<1> HIDE DEF d
<1>4. DialogFit(d, now, seen, status # None)
    BY <1>2, <1>3 DEF DialogFit, SyncInv
<1> QED
    BY <1>2, <1>4, SyncConstants DEF d

LEMMA submitSync == SyncInv /\ S!submit => SyncInv'
<1> SUFFICES ASSUME SyncInv, S!submit PROVE SyncInv'
    OBVIOUS
<1>1. tanDialog # None /\ tanDialog.challenge <= server.time
    BY DEF S!submit, SyncInv, DialogFit
<1>2. DialogFit(tanDialog', server, seen, status # None)
    BY <1>1, TanFits DEF S!submit
<1> QED
    BY <1>2 DEF S!submit, SyncInv

LEMMA TakeTanSync == SyncInv /\ S!TakeTan => SyncInv'
<1> SUFFICES ASSUME SyncInv, S!TakeTan PROVE SyncInv'
    OBVIOUS
<1>1. tanDialog # None /\ tanDialog.challenge <= server.time /\ tanDialog.run \in 1..MaxRuns
    BY DEF S!TakeTan, SyncInv, DialogFit, S!Dialog
<1>2. CASE /\ server.run = tanDialog.run /\ S!Change(server.run, "running")
           /\ tanDialog' = [tanDialog EXCEPT !.tan = "taken"]
    <2>1. /\ ServerFit(server') /\ RequestsFit(requests, server', seen, status # None)
          /\ ShownFit(status, server', seen) /\ seen <= server'.time
        BY <1>1, <1>2, ChangedServer DEF S!Statuses
    <2>2. tanDialog.challenge <= server'.time
        BY <1>1, <1>2, SyncConstants DEF S!Change, SyncInv, ServerFit, S!Status, DialogFit, S!Dialog
    <2>3. DialogFit(tanDialog', server', seen, status # None)
        BY <1>1, <1>2, <2>2, TanFits
    <2> QED
        BY <2>1, <2>3 DEF S!TakeTan, SyncInv
<1>3. CASE /\ server.run # tanDialog.run \/ server.challenge = None
           /\ tanDialog' = [tanDialog EXCEPT !.tan = "refused"] /\ UNCHANGED server
    <2>1. DialogFit(tanDialog', server, seen, status # None)
        BY <1>1, <1>3, TanFits
    <2> QED
        BY <1>3, <2>1 DEF S!TakeTan, SyncInv
<1>4. CASE tanDialog' = [tanDialog EXCEPT !.tan = "none"] /\ UNCHANGED server
    <2>1. DialogFit(tanDialog', server, seen, status # None)
        BY <1>1, <1>4, TanFits
    <2> QED
        BY <1>4, <2>1 DEF S!TakeTan, SyncInv
<1> QED
    BY <1>2, <1>3, <1>4 DEF S!TakeTan

LEMMA TanAnsweredSync == SyncInv /\ S!TanAnswered => SyncInv'
<1> SUFFICES ASSUME SyncInv, S!TanAnswered PROVE SyncInv'
    OBVIOUS
<1>1. /\ RequestsFit(requests', server, seen, status # None)
      /\ Len(requests') = Len(requests) + 1
      /\ \A due : PollsFit(polling, due, requests) => PollsFit(polling, due, requests')
    BY NoAbout, SentFits DEF S!TanAnswered, S!refresh, SyncInv
<1>2. tanDialog # None /\ tanDialog.challenge <= server.time
    BY DEF S!TanAnswered, SyncInv, DialogFit
<1>3. DialogFit(tanDialog', server, seen, status # None)
    <2>1. CASE tanDialog.tan = "refused"
        BY <2>1 DEF S!TanAnswered, DialogFit
    <2>2. CASE tanDialog.tan # "refused"
        BY <2>2, <1>2, TanFits DEF S!TanAnswered
    <2> QED
        BY <2>1, <2>2
<1> QED
    BY <1>1, <1>3 DEF S!TanAnswered, S!Room, SyncInv

LEMMA CloseSync == SyncInv /\ S!Close => SyncInv'
BY DEF S!Close, SyncInv, DialogFit

LEMMA waitForTanSync == SyncInv /\ S!waitForTan => SyncInv'
<1> SUFFICES ASSUME SyncInv, S!waitForTan PROVE SyncInv'
    OBVIOUS
<1>1. server \in S!Status /\ server # None /\ server.run >= 1
      /\ server.challenge = server.time /\ server.run \in 0..MaxRuns
    BY SyncConstants DEF SyncInv, ServerFit, S!waitForTan, S!Status
<1>2. /\ RequestsFit(requests', server, seen, status # None)
      /\ Len(requests') = Len(requests) + 1
      /\ \A due : PollsFit(polling, due, requests) => PollsFit(polling, due, requests')
    BY <1>1, NoAbout, SentFits DEF S!waitForTan, SyncInv
<1> QED
    BY <1>1, <1>2 DEF S!waitForTan, S!Room, SyncInv

LEMMA OthersFit ==
    ASSUME SyncInv
    PROVE  /\ RequestsFit(S!Others, server, seen, status # None)
           /\ PollsFit(polling, timer, S!Others)
<1>1. CASE S!Earlier = {}
    BY <1>1 DEF S!Others, SyncInv
<1>2. CASE S!Earlier # {}
    <2> DEFINE k == CHOOSE i \in S!Earlier : TRUE
               new == S!RemoveAt(requests, k)
    <2>1. requests \in Seq(S!Request) /\ Len(requests) \in Nat
        BY DEF SyncInv, RequestsFit
    <2>2. k \in 1..Len(requests) /\ requests[k].kind = "await"
        BY <1>2, <2>1 DEF S!Earlier
    <2>3. S!Others = new
        BY <1>2 DEF S!Others
    <2> HIDE DEF k
    <2>4. RequestsFit(new, server, seen, status # None)
        BY <2>2, WithoutFits DEF SyncInv
    <2>5. /\ Len(new) = Len(requests) - 1
          /\ \A i \in 1..(Len(requests) - 1) :
                new[i] = IF i < k THEN requests[i] ELSE requests[i + 1]
        BY <2>1, <2>2, Removed
    <2> HIDE DEF new
    <2>6. ASSUME NEW i \in 1..Len(requests), requests[i].kind = "tick"
          PROVE  \E j \in 1..Len(new) : new[j].kind = "tick"
        <3>1. i # k
            BY <2>2, <2>6
        <3>2. CASE i < k
            BY <3>2, <2>1, <2>2, <2>5, <2>6
        <3>3. CASE i > k
            <4>1. i - 1 \in 1..Len(new) /\ new[i - 1] = requests[i]
                BY <3>3, <2>1, <2>2, <2>5
            <4> QED
                BY <4>1, <2>6
        <3> QED
            BY <3>1, <3>2, <3>3, <2>1, <2>2
    <2>7. PollsFit(polling, timer, new)
        BY <2>6 DEF SyncInv, PollsFit
    <2> QED
        BY <2>3, <2>4, <2>7
<1> QED
    BY <1>1, <1>2

LEMMA awaitRunSync == SyncInv /\ S!awaitRun => SyncInv'
<1> SUFFICES ASSUME SyncInv, S!awaitRun PROVE SyncInv'
    OBVIOUS
<1>1. /\ RequestsFit(requests', server, seen, status # None)
      /\ Len(requests') = Len(S!Others) + 1
      /\ \A due : PollsFit(polling, due, S!Others) => PollsFit(polling, due, requests')
    BY OthersFit, NoAbout, SentFits DEF S!awaitRun, S!refresh
<1>2. Len(S!Others) \in Nat
    BY OthersFit DEF RequestsFit
<1>3. Len(requests') <= MaxInFlight
    BY <1>1, <1>2, SyncConstants DEF S!awaitRun
<1> QED
    BY <1>1, <1>3, OthersFit DEF S!awaitRun, SyncInv

-----------------------------------------------------------------------------
(* An answer, or a failure, reaches the tab. *)

\* The polls when a request is over.
LEMMA PollsGoOn ==
    ASSUME SyncInv, NEW k \in 1..Len(requests), NEW list, NEW due,
           list \in Seq(S!Request), Len(list) = Len(requests),
           \A i \in 1..Len(requests) : list[i].kind = requests[i].kind,
           due = IF requests[k].kind = "tick" THEN timer \/ polling > 0 ELSE timer
    PROVE  PollsFit(polling, due, S!RemoveAt(list, k))
<1> DEFINE new == S!RemoveAt(list, k)
<1>1. /\ polling \in 0..MaxPollers /\ timer \in BOOLEAN /\ Len(requests) \in Nat
      /\ polling > 0 => timer = TRUE \/ \E i \in 1..Len(requests) : requests[i].kind = "tick"
      /\ polling = 0 => timer = FALSE
    BY DEF SyncInv, PollsFit, RequestsFit
<1>2. /\ Len(new) = Len(list) - 1
      /\ \A i \in 1..(Len(list) - 1) : new[i] = IF i < k THEN list[i] ELSE list[i + 1]
    BY Removed
<1> HIDE DEF new
<1>3. ASSUME NEW i \in 1..Len(requests), requests[i].kind = "tick", i # k
      PROVE  \E j \in 1..Len(new) : new[j].kind = "tick"
    <2>2. CASE i < k
        BY <2>2, <1>1, <1>2, <1>3
    <2>3. CASE i > k
        <3>1. i - 1 \in 1..Len(new) /\ new[i - 1] = list[i]
            BY <2>3, <1>1, <1>2
        <3> QED
            BY <3>1, <1>3
    <2> QED
        BY <2>2, <2>3, <1>1, <1>3
<1>4. CASE requests[k].kind = "tick"
    <2>1. CASE polling > 0
        <3>1. due = TRUE /\ due \in BOOLEAN
            BY <1>4, <2>1, Zenon
        <3>2. polling # 0
            BY <2>1, <1>1
        <3> QED
            BY <1>1, <3>1, <3>2 DEF PollsFit, new
    <2>2. CASE ~(polling > 0)
        <3>1. polling = 0
            BY <2>2, <1>1
        <3>2. due = FALSE /\ due \in BOOLEAN
            BY <1>4, <2>2, <3>1, <1>1, Zenon
        <3> QED
            BY <1>1, <3>1, <3>2, <2>2 DEF PollsFit, new
    <2> QED
        BY <2>1, <2>2
<1>5. CASE requests[k].kind # "tick"
    <2>1. due = timer
        BY <1>5
    <2> QED
        BY <2>1, <1>1, <1>3, <1>5 DEF PollsFit, new
<1> QED
    BY <1>4, <1>5

\* An answer makes those sent before it too old.
LEMMA OutdatedFits ==
    ASSUME SyncInv, NEW k \in 1..Len(requests), ~requests[k].stale
    PROVE  /\ RequestsFit(S!Outdate(k), server, requests[k].sent, TRUE)
           /\ Len(S!Outdate(k)) = Len(requests)
           /\ \A i \in 1..Len(requests) : S!Outdate(k)[i].kind = requests[i].kind
<1> DEFINE new == S!Outdate(k)
<1>1. /\ requests \in Seq(S!Request) /\ Len(requests) \in Nat
      /\ \A i \in 1..Len(requests) : RequestFit(requests[i], server, seen, status # None)
      /\ \A i, j \in 1..Len(requests) : i < j => requests[i].sent <= requests[j].sent
    BY DEF SyncInv, RequestsFit
<1>2. \A i \in 1..Len(requests) : requests[i] \in S!Request /\ requests[i].sent \in 0..MaxChanges
    <2>1. \A r \in S!Request : r.sent \in 0..MaxChanges
        BY DEF S!Request
    <2>2. \A i \in 1..Len(requests) : requests[i] \in S!Request
        BY <1>1
    <2> QED
        BY <2>1, <2>2
<1>3. new = [j \in 1..Len(requests) |-> IF j < k THEN [requests[j] EXCEPT !.stale = TRUE]
                                      ELSE requests[j]]
    BY <1>1 DEF S!Outdate
<1>4. ASSUME NEW i \in 1..Len(requests)
      PROVE  /\ new[i] \in S!Request /\ new[i].sent = requests[i].sent
             /\ new[i].kind = requests[i].kind /\ new[i].phase = requests[i].phase
             /\ new[i].answer = requests[i].answer /\ new[i].about = requests[i].about
             /\ i < k => new[i].stale = TRUE
             /\ ~(i < k) => new[i] = requests[i]
    <2>1. CASE i < k
        <3>1. new[i] = [requests[i] EXCEPT !.stale = TRUE]
            BY <2>1, <1>3
        <3>2. requests[i] \in S!Request
            BY <1>2
        <3> HIDE DEF new
        <3>3. new[i] \in S!Request
            BY <3>1, <3>2 DEF S!Request
        <3> QED
            BY <2>1, <3>1, <3>2, <3>3 DEF S!Request
    <2>2. CASE ~(i < k)
        BY <2>2, <1>2, <1>3
    <2> QED
        BY <2>1, <2>2
<1>5. new \in Seq(S!Request) /\ Len(new) = Len(requests)
    <2>1. new \in [1..Len(requests) -> S!Request]
        BY <1>3, <1>4
    <2> QED
        BY <2>1, <1>1
<1> HIDE DEF new
<1>6. seen \in 0..MaxChanges /\ seen <= requests[k].sent
    BY <1>1 DEF SyncInv, RequestFit
<1>7. ASSUME NEW i \in 1..Len(requests)
      PROVE  RequestFit(new[i], server, requests[k].sent, TRUE)
    <2>1. RequestFit(requests[i], server, seen, status # None)
        BY <1>1
    <2>2. IF new[i].stale THEN new[i].sent <= requests[k].sent ELSE new[i].sent >= requests[k].sent
        <3>1. CASE i < k
            <4>1. new[i].stale = TRUE /\ new[i].sent <= requests[k].sent
                BY <3>1, <1>1, <1>4
            <4> QED
                BY <4>1
        <3>2. CASE i = k
            <4>0. ~(i < k)
                BY <3>2, <1>1
            <4>1. new[i] = requests[k] /\ ~(requests[k].stale)
                BY <4>0, <3>2, <1>4
            <4> QED
                BY <4>1, <1>2
        <3>3. CASE i > k /\ requests[i].stale
            <4>1. requests[i].sent <= seen
                BY <2>1, <3>3 DEF RequestFit
            <4>2. new[i] = requests[i] /\ requests[i].sent <= requests[k].sent
                <5>1. ~(i < k)
                    BY <3>3, <1>1
                <5>2. new[i] = requests[i]
                    BY <5>1, <1>4
                <5>3. requests[i].sent \in Int /\ requests[k].sent \in Int
                    BY <1>2
                <5> QED
                    BY <5>2, <5>3, <4>1, <1>6
            <4> QED
                BY <4>2, <3>3
        <3>4. CASE i > k /\ ~requests[i].stale
            <4>1. ~(i < k) /\ requests[i].sent >= requests[k].sent
                BY <3>4, <1>1, <1>2
            <4> QED
                BY <4>1, <3>4, <1>4
        <3> QED
            BY <3>1, <3>2, <3>3, <3>4, <1>1
    <2> QED
        BY <2>1, <2>2, <1>4 DEF RequestFit
<1>8. \A i, j \in 1..Len(requests) : i < j => new[i].sent <= new[j].sent
    BY <1>1, <1>4
<1> QED
    BY <1>4, <1>5, <1>7, <1>8 DEF RequestsFit, new

\* What an answer leaves: what is shown, what was seen, and that the answer is no older.
LEMMA ReceivedIs ==
    ASSUME SyncInv, NEW k, S!Receive(k)
    PROVE  /\ k \in 1..Len(requests) /\ requests[k] \in S!Request
           /\ status' # None /\ ReadOf(status', server) /\ status'.time >= seen'
           /\ seen' \in 0..MaxChanges /\ seen' <= server.time
           /\ seen' >= seen /\ seen' >= requests[k].sent
           /\ requests[k].stale => seen' = seen /\ status' = status
           /\ ~requests[k].stale => seen' = requests[k].sent
<1>1. k \in 1..Len(requests) /\ requests[k].phase = "answered"
    BY DEF S!Receive, SyncInv, RequestsFit
<1>2. RequestFit(requests[k], server, seen, status # None) /\ requests[k] \in S!Request
    BY <1>1 DEF SyncInv, RequestsFit, RequestFit
<1>3. /\ requests[k].sent \in 0..MaxChanges /\ requests[k].sent <= server.time
      /\ seen \in 0..MaxChanges /\ seen <= server.time /\ server.time \in 0..MaxChanges
    BY <1>2 DEF S!Request, RequestFit, SyncInv, ServerFit, S!Status
<1>4. /\ status' = IF requests[k].stale THEN status ELSE requests[k].answer
      /\ seen' = IF requests[k].sent > seen THEN requests[k].sent ELSE seen
    BY DEF S!Receive
<1>5. CASE requests[k].stale
    <2>1. requests[k].sent <= seen /\ status # None /\ status' = status /\ seen' = seen
        BY <1>2, <1>3, <1>4, <1>5 DEF RequestFit
    <2> QED
        BY <2>1, <1>1, <1>2, <1>3, <1>5 DEF SyncInv, ShownFit
<1>6. CASE ~requests[k].stale
    <2>1. requests[k].sent >= seen /\ status' = requests[k].answer
          /\ ReadOf(requests[k].answer, server) /\ requests[k].answer.time >= requests[k].sent
        BY <1>1, <1>2, <1>4, <1>6 DEF RequestFit
    <2>2. seen' = requests[k].sent
        BY <1>3, <1>4, <2>1
    <2>3. status' # None
        BY <2>1, SyncConstants DEF ReadOf
    <2> QED
        BY <2>1, <2>2, <2>3, <1>1, <1>2, <1>3, <1>6
<1> QED
    BY <1>5, <1>6

LEMMA ReceiveSync == ASSUME NEW k \in 1..MaxInFlight, SyncInv, S!Receive(k)
                     PROVE  SyncInv'
<1> DEFINE r == requests[k]
           list == IF r.stale THEN requests ELSE S!Outdate(k)
<1>1. /\ k \in 1..Len(requests) /\ r \in S!Request
      /\ status' # None /\ ReadOf(status', server) /\ status'.time >= seen'
      /\ seen' \in 0..MaxChanges /\ seen' <= server.time
      /\ seen' >= seen /\ seen' >= r.sent
    BY ReceivedIs
<1>2. /\ RequestsFit(list, server, seen', TRUE)
      /\ Len(list) = Len(requests)
      /\ \A i \in 1..Len(requests) : list[i].kind = requests[i].kind
    <2>1. CASE r.stale
        <3>1. list = requests /\ seen' = seen /\ status # None
            BY <2>1, ReceivedIs, <1>1
        <3>2. RequestsFit(requests, server, seen, status # None)
            BY DEF SyncInv
        <3>3. (status # None) = TRUE
            BY <3>1
        <3> QED
            BY <3>1, <3>2, <3>3
    <2>2. CASE ~r.stale
        <3>1. list = S!Outdate(k) /\ seen' = r.sent
            BY <2>2, ReceivedIs
        <3> QED
            BY <3>1, <2>2, <1>1, OutdatedFits
    <2> QED
        BY <2>1, <2>2
<1>3. requests' = S!RemoveAt(list, k) /\ list \in Seq(S!Request)
    BY <1>2 DEF S!Receive, RequestsFit
<1>4. /\ r.phase = "answered" /\ polling' = polling /\ server' = server
      /\ IF r.kind = "tick" THEN timer' = (timer \/ polling > 0) ELSE timer' = timer
      /\ awaited' = awaited \/ awaited' = None
      /\ tanDialog' = S!Settled(IF r.kind = "open"
                               THEN S!open(r.about.run, r.about.challenge, TRUE)
                               ELSE tanDialog, status')
    BY DEF S!Receive, S!Whoever, S!schedule
<1>5. RequestFit(r, server, seen, status # None)
    BY <1>1 DEF SyncInv, RequestsFit
<1> HIDE DEF r, list
<1>6. RequestsFit(requests', server', seen', status' # None)
    <2>1. RequestsFit(S!RemoveAt(list, k), server, seen', TRUE)
        <3>1. seen' \in Int /\ k \in 1..Len(list)
            BY <1>1, <1>2
        <3> QED
            BY <3>1, <1>2, WithoutFits
    <2>2. (status' # None) = TRUE
        BY <1>1
    <2> QED
        BY <2>1, <2>2, <1>3, <1>4
<1>7. Len(requests') <= MaxInFlight
    <2>1. Len(requests') = Len(list) - 1
        BY <1>1, <1>2, <1>3, Removed
    <2>2. Len(requests) <= MaxInFlight /\ Len(requests) \in Nat
        BY DEF SyncInv, RequestsFit
    <2> QED
        BY <2>1, <2>2, <1>2, SyncConstants
<1>8. PollsFit(polling', timer', requests')
    <2>1. timer' = IF r.kind = "tick" THEN timer \/ polling > 0 ELSE timer
        BY <1>4, Zenon
    <2> QED
        BY <2>1, <1>1, <1>2, <1>3, <1>4, PollsGoOn DEF r
<1>9. DialogFit(tanDialog', server', seen', status' # None)
    <2> DEFINE d == IF r.kind = "open" THEN S!open(r.about.run, r.about.challenge, TRUE)
                    ELSE tanDialog
    <2>1. DialogFit(tanDialog, server, seen', TRUE)
        <3>1. \A t \in S!Dialog : t.challenge \in 0..MaxChanges
            BY DEF S!Dialog
        <3> QED
            BY <1>1, <3>1, SyncConstants DEF SyncInv, DialogFit
    <2>2. DialogFit(d, server, seen', TRUE)
        <3>1. CASE r.kind = "open"
            <4>1. /\ r.about.run \in 1..MaxRuns /\ r.about.challenge \in 0..MaxChanges
                  /\ r.about.challenge <= server.time /\ seen' >= r.about.challenge
                BY <3>1, <1>1, <1>5, SyncConstants DEF RequestFit, S!Status, S!Request
            <4> QED
                BY <3>1, <4>1, <2>1, OpenedFits
        <3>2. CASE r.kind # "open"
            BY <3>2, <2>1
        <3> QED
            BY <3>1, <3>2
    <2>3. tanDialog' = None \/ tanDialog' = d
        BY <1>4 DEF S!Settled
    <2>4. (status' # None) = TRUE
        BY <1>1
    <2> HIDE DEF d
    <2>5. CASE tanDialog' = None
        BY <2>5 DEF DialogFit
    <2>6. CASE tanDialog' = d
        BY <2>6, <2>2, <2>4, <1>4
    <2> QED
        BY <2>3, <2>5, <2>6
<1> QED
    BY <1>1, <1>4, <1>6, <1>7, <1>8, <1>9 DEF SyncInv, ShownFit

LEMMA ReceiveFailureSync == ASSUME NEW k \in 1..MaxInFlight, SyncInv, S!ReceiveFailure(k)
                            PROVE  SyncInv'
<1> DEFINE r == requests[k]
<1>1. /\ requests \in Seq(S!Request) /\ k \in 1..Len(requests) /\ Len(requests) <= MaxInFlight
      /\ Len(requests) \in Nat /\ RequestsFit(requests, server, seen, status # None)
    BY DEF S!ReceiveFailure, SyncInv, RequestsFit
<1>2. RequestFit(r, server, seen, status # None) /\ r \in S!Request
    BY <1>1 DEF RequestsFit, RequestFit
<1>3. requests' = S!RemoveAt(requests, k)
    BY DEF S!ReceiveFailure
<1>4. /\ r.phase = "failed" /\ polling' = polling
      /\ UNCHANGED <<server, status, seen>>
      /\ IF r.kind = "tick" THEN timer' = (timer \/ polling > 0) ELSE timer' = timer
      /\ awaited' = awaited \/ awaited' = None
      /\ tanDialog' = S!Settled(IF r.kind = "open"
                               THEN S!open(r.about.run, r.about.challenge, FALSE)
                               ELSE tanDialog, status)
    BY DEF S!ReceiveFailure, S!Whoever, S!schedule
<1>5. seen \in Int /\ DialogFit(tanDialog, server, seen, status # None)
    BY DEF SyncInv
<1>6. RequestsFit(requests', server, seen, status # None) /\ Len(requests') <= MaxInFlight
    BY <1>1, <1>3, <1>5, Removed, WithoutFits, SyncConstants
<1>7. PollsFit(polling', timer', requests')
    <2>1. timer' = IF r.kind = "tick" THEN timer \/ polling > 0 ELSE timer
        BY <1>4, Zenon
    <2> QED
        BY <2>1, <1>1, <1>3, <1>4, PollsGoOn
<1>8. DialogFit(tanDialog', server, seen, status # None)
    <2> DEFINE d == IF r.kind = "open" THEN S!open(r.about.run, r.about.challenge, FALSE)
                    ELSE tanDialog
    <2>1. DialogFit(d, server, seen, status # None)
        <3>1. CASE r.kind = "open"
            <4>1. /\ r.about.run \in 1..MaxRuns /\ r.about.challenge \in 0..MaxChanges
                  /\ r.about.challenge <= server.time
                BY <3>1, <1>2, SyncConstants DEF RequestFit, S!Status, S!Request
            <4> QED
                BY <3>1, <4>1, <1>5, OpenedFits
        <3>2. CASE r.kind # "open"
            BY <3>2, <1>5
        <3> QED
            BY <3>1, <3>2
    <2>2. tanDialog' = None \/ tanDialog' = d
        BY <1>4 DEF S!Settled
    <2> HIDE DEF d
    <2> QED
        BY <2>1, <2>2 DEF DialogFit
<1> QED
    BY <1>4, <1>6, <1>7, <1>8 DEF SyncInv

LEMMA NextSync == SyncInv /\ [S!Next]_S!vars => SyncInv'
<1>1. CASE S!Next
    BY <1>1, RunStartsSync, RunGoesOnSync, startPollingSync, stopPollingSync, tickSync,
       OnDemandSync, AnswerBannerSync, submitSync, TakeTanSync, TanAnsweredSync, CloseSync,
       syncNowSync, waitForTanSync, awaitRunSync, AnswerSync, FailSync, ReceiveSync,
       ReceiveFailureSync DEF S!Next
<1>2. CASE UNCHANGED S!vars
    BY <1>2 DEF S!vars, SyncInv
<1> QED
    BY <1>1, <1>2

LEMMA SyncTypes == ASSUME SyncInv PROVE S!TypeOK
<1>1. server \in S!Status
    BY DEF SyncInv, ServerFit
<1>2. requests \in Seq(S!Request) /\ Len(requests) <= MaxInFlight
    BY DEF SyncInv, RequestsFit
<1>3. S!Range(requests) \subseteq S!Request
    BY <1>2 DEF S!Range
<1>4. status \in S!Status \cup {None}
    BY DEF SyncInv, ShownFit, ReadOf
<1>5. tanDialog \in S!Dialog \cup {None}
    BY DEF SyncInv, DialogFit
<1> QED
    BY <1>1, <1>2, <1>3, <1>4, <1>5 DEF S!TypeOK, SyncInv, PollsFit

LEMMA ShownIsFresh == ASSUME SyncInv PROVE S!StatusFresh
BY DEF SyncInv, ShownFit, S!StatusFresh

LEMMA PollingGoes == ASSUME SyncInv PROVE S!PollingGoesOn
<1>1. /\ polling > 0 => timer = TRUE \/ \E i \in 1..Len(requests) : requests[i].kind = "tick"
      /\ polling = 0 => timer = FALSE
    BY DEF SyncInv, PollsFit
<1>2. DOMAIN requests = 1..Len(requests)
    BY DEF SyncInv, RequestsFit
<1> QED
    BY <1>1, <1>2, Zenon DEF S!PollingGoesOn

\* What was read since an open challenge came is as the server is.
LEMMA SinceChallenge ==
    ASSUME SyncInv, tanDialog # None, server.challenge = tanDialog.challenge,
           NEW q, ReadOf(q, server), NEW sn \in Int, q.time >= sn, sn >= seen,
           seen >= tanDialog.challenge
    PROVE  q = server /\ server.challenge # None
<1>1. tanDialog.challenge \in 0..MaxChanges /\ server.time \in 0..MaxChanges
    BY DEF SyncInv, DialogFit, S!Dialog, ServerFit, S!Status
<1>2. server.challenge # None
    BY <1>1, SyncConstants
<1>3. server.challenge = server.time
    BY <1>2 DEF SyncInv, ServerFit
<1>4. q.time \in 0..MaxChanges /\ q.time <= server.time /\ seen \in 0..MaxChanges
    BY DEF ReadOf, S!Status, SyncInv
<1>5. q.time = server.time
    BY <1>1, <1>3, <1>4, SyncConstants
<1> QED
    BY <1>2, <1>5 DEF ReadOf

LEMMA DialogStays ==
    ASSUME SyncInv, S!Next, tanDialog # None, tanDialog.asked,
           server.run = tanDialog.run, server.challenge = tanDialog.challenge,
           tanDialog' = None \/ tanDialog'.run # tanDialog.run
    PROVE  S!Close \/ \E i \in DOMAIN requests : S!OpensAnother(i)
<1>1. /\ tanDialog \in S!Dialog /\ seen >= tanDialog.challenge /\ status # None
      /\ tanDialog.tan # "refused" /\ tanDialog.challenge <= server.time
    BY DEF SyncInv, DialogFit
<1>2. ReadOf(status, server) /\ status.time >= seen /\ seen \in Int
    BY <1>1 DEF SyncInv, ShownFit
<1>3. status = server /\ server.challenge # None
    BY <1>1, <1>2, SinceChallenge
<1>4. ASSUME tanDialog' = tanDialog PROVE FALSE
    BY <1>4
<1>5. ASSUME NEW tan \in {"none", "sent", "taken", "refused"},
             tanDialog' = [tanDialog EXCEPT !.tan = tan]
      PROVE  FALSE
    <2>1. [tanDialog EXCEPT !.tan = tan] \in S!Dialog
        BY <1>1 DEF S!Dialog
    <2>2. [tanDialog EXCEPT !.tan = tan].run = tanDialog.run
        BY <1>1 DEF S!Dialog
    <2> QED
        BY <2>1, <2>2, <1>5, SyncConstants
<1>6. ASSUME NEW q, q = server, tanDialog' = S!Settled(tanDialog, q)
      PROVE  FALSE
    BY <1>3, <1>4, <1>6 DEF S!Settled, S!tanViewOf
<1>7. CASE S!AnswerBanner
    BY <1>3, <1>4, <1>7 DEF S!AnswerBanner, S!open
<1>8. CASE S!submit
    BY <1>5, <1>8 DEF S!submit
<1>9. CASE S!TakeTan
    BY <1>5, <1>9 DEF S!TakeTan
<1>10. CASE S!TanAnswered
    BY <1>1, <1>5, <1>10 DEF S!TanAnswered
<1>11. CASE S!Close
    BY <1>11
<1>12. ASSUME NEW k \in 1..MaxInFlight, S!Receive(k)
       PROVE  \E i \in DOMAIN requests : S!OpensAnother(i)
    <2>1. k \in DOMAIN requests
        BY <1>12 DEF S!Receive
    <2>2. CASE requests[k].kind = "open" /\ requests[k].about.run # tanDialog.run
        BY <1>12, <2>1, <2>2 DEF S!OpensAnother
    <2>3. CASE ~(requests[k].kind = "open" /\ requests[k].about.run # tanDialog.run)
        <3>1. (IF requests[k].kind = "open"
               THEN S!open(requests[k].about.run, requests[k].about.challenge,
                           requests[k].phase = "answered")
               ELSE tanDialog) = tanDialog
            BY <2>3 DEF S!open
        <3>2. tanDialog' = S!Settled(tanDialog, status')
            BY <1>12, <3>1 DEF S!Receive, S!Whoever
        <3>3. ReadOf(status', server) /\ status'.time >= seen' /\ seen' \in Int /\ seen' >= seen
            BY <1>12, ReceivedIs
        <3>4. status' = server
            BY <3>3, <1>1, SinceChallenge
        <3> QED
            BY <3>2, <3>4, <1>6
    <2> QED
        BY <2>2, <2>3
<1>13. ASSUME NEW k \in 1..MaxInFlight, S!ReceiveFailure(k)
       PROVE  \E i \in DOMAIN requests : S!OpensAnother(i)
    <2>1. k \in DOMAIN requests
        BY <1>13 DEF S!ReceiveFailure
    <2>2. CASE requests[k].kind = "open" /\ requests[k].about.run # tanDialog.run
        BY <1>13, <2>1, <2>2 DEF S!OpensAnother
    <2>3. CASE ~(requests[k].kind = "open" /\ requests[k].about.run # tanDialog.run)
        <3>1. (IF requests[k].kind = "open"
               THEN S!open(requests[k].about.run, requests[k].about.challenge,
                           requests[k].phase = "answered")
               ELSE tanDialog) = tanDialog
            BY <2>3 DEF S!open
        <3>2. tanDialog' = S!Settled(tanDialog, status)
            BY <1>13, <3>1 DEF S!ReceiveFailure, S!Whoever
        <3> QED
            BY <3>2, <1>3, <1>6
    <2> QED
        BY <2>2, <2>3
<1>14. CASE \E i \in 1..MaxInFlight : S!Answer(i) \/ S!Fail(i)
    BY <1>4, <1>14 DEF S!Answer, S!Fail
<1>15. CASE S!RunStarts \/ S!RunGoesOn \/ S!startPolling \/ S!stopPolling \/ S!tick
            \/ S!OnDemand \/ S!syncNow \/ S!waitForTan \/ S!awaitRun
    BY <1>4, <1>15 DEF S!RunStarts, S!RunGoesOn, S!startPolling, S!stopPolling, S!tick,
       S!OnDemand, S!syncNow, S!waitForTan, S!awaitRun
<1> QED
    BY <1>7, <1>8, <1>9, <1>10, <1>11, <1>12, <1>13, <1>14, <1>15 DEF S!Next

-----------------------------------------------------------------------------
(* The user's settings. *)

LEMMA SettingConstants ==
    /\ Defaults \in Seq(U!Preset)
    /\ MaxPresets \in Nat /\ MaxWrites \in Nat /\ MaxFaults \in Nat
    /\ None \notin Seq(U!Preset) /\ None \notin U!DensityMaps
    /\ None \notin U!Preset /\ None \notin U!Editor
BY PartsFit DEF U!ConstantsFit

LEMMA NoDensities == << >> \in U!DensityMaps
<1>1. << >> \in [{} -> Densities]
    OBVIOUS
<1>2. {} \in SUBSET DensityViews
    OBVIOUS
<1> QED
    BY <1>1, <1>2 DEF U!DensityMaps

LEMMA NothingYet == << >> \in U!Values
BY NoDensities DEF U!Values

LEMMA WithDensityIs ==
    ASSUME NEW map \in U!DensityMaps, NEW v \in DensityViews, NEW d \in Densities
    PROVE  U!WithDensity(map, v, d) \in U!DensityMaps
<1>1. PICK vs \in SUBSET DensityViews : map \in [vs -> Densities]
    BY DEF U!DensityMaps
<1>2. U!WithDensity(map, v, d) \in [vs \cup {v} -> Densities]
    BY <1>1 DEF U!WithDensity
<1>3. vs \cup {v} \in SUBSET DensityViews
    OBVIOUS
<1> QED
    BY <1>2, <1>3 DEF U!DensityMaps

Phases == {"queued", "sent", "reading", "done", "failed"}

\* A write by its kind: of a whole value, of the default presets, of one density, which
\* becomes one of the whole map when its turn comes.
Writes ==
    [kind : {"put", "reset"}, value : U!Values, phase : Phases]
    \cup [kind : {"merge"}, value : DensityViews \X Densities, phase : {"queued", "failed"}]

QueueFit(list) ==
    /\ list \in Seq(Writes)
    /\ \A i \in 1..Len(list) :
        /\ i # 1 => list[i].phase = "queued"
        /\ list[i].kind = "put" => list[i].phase # "reading"
        /\ setting = "presets" => list[i].kind # "merge"
        /\ setting = "densities" =>
            list[i].kind # "reset" /\ (list[i].kind = "put" => list[i].phase # "queued")
    /\ setting = "presets" => Len(list) <= 1

Fits(e, list) ==
    IF e.isNew THEN ~U!Has(list, e.id) /\ Len(list) < MaxPresets ELSE U!Has(list, e.id)

Holds(list, preset) == \E i \in DOMAIN list : list[i] = preset

\* What is stored, what the channel shows, and what is on its way.
StoredFit ==
    /\ setting \in {"presets", "densities"}
    /\ stored = None \/ stored \in U!Values
    /\ value \in U!Values /\ loaded \in BOOLEAN /\ saveError \in BOOLEAN
    /\ loading.phase \in {"sent", "answered", "over"}
    /\ loading.phase = "answered" => loading.answer \in U!Values /\ loading.answer \in past
    /\ U!Current \in past
    /\ loaded = TRUE => value \in past
    /\ used \in 0..MaxWrites /\ faults \in 0..MaxFaults

\* A write that was performed brings what is stored; while no request has failed, the
\* channel differs from what is stored only between the performance of a write and its answer.
WritesFit ==
    /\ QueueFit(writes)
    /\ U!At("done") => writes[1].value = U!Current
    /\ faults = 0 /\ ~U!At("reading") /\ ~U!At("done") =>
        /\ loaded = TRUE => value = U!Current
        /\ loaded = FALSE /\ loading.phase = "answered" => loading.answer = U!Current
    /\ setting = "densities" /\ faults = 0 /\ U!At("sent") =>
        \E v \in DensityViews, d \in Densities : writes[1].value = U!WithDensity(U!Current, v, d)

\* The editor fits the list that is shown, and the one that will be.
EditorFit ==
    /\ editor # None => /\ editor \in U!Editor /\ loaded = TRUE /\ setting = "presets"
                        /\ Fits(editor, value)
    /\ submitted # None =>
        /\ submitted \in U!Preset /\ setting = "presets"
        /\ writes # << >> /\ writes[1].kind = "put" /\ Holds(writes[1].value, submitted)
    /\ editor # None /\ submitted = None /\ writes # << >> =>
        writes[1].kind = "put" /\ Fits(editor, writes[1].value)

SettingInv == StoredFit /\ WritesFit /\ EditorFit

LEMMA DefaultsAre == Defaults \in Seq(U!Preset)
BY SettingConstants

LEMMA CurrentIs ==
    ASSUME setting \in {"presets", "densities"}, stored = None \/ stored \in U!Values
    PROVE  U!Current \in U!Values
BY SettingConstants, NoDensities DEF U!Current, U!AsRead, U!Values

LEMMA InitSetting == U!Init => SettingInv
<1> SUFFICES ASSUME U!Init PROVE SettingInv
    OBVIOUS
<1>1. setting \in {"presets", "densities"} /\ (stored = None \/ stored \in U!Values)
    <2>1. [DensityViews -> Densities] \subseteq U!DensityMaps
        BY DEF U!DensityMaps
    <2> QED
        BY <2>1 DEF U!Init, U!Values
<1>2. value \in U!Values /\ writes = << >> /\ editor = None /\ submitted = None
    BY NothingYet DEF U!Init
<1>3. loaded = FALSE /\ loaded \in BOOLEAN /\ saveError \in BOOLEAN
    BY Zenon DEF U!Init
<1>4. loading.phase = "sent" /\ U!Current \in past /\ used = 0 /\ faults = 0
    BY DEF U!Init, U!Loading
<1>5. StoredFit
    BY <1>1, <1>2, <1>3, <1>4, SettingConstants DEF StoredFit
<1>6. QueueFit(writes)
    BY <1>2 DEF QueueFit
<1>7. ~U!At("done") /\ ~U!At("reading") /\ ~U!At("sent")
    BY <1>2 DEF U!At
<1>8. WritesFit
    BY <1>3, <1>4, <1>6, <1>7 DEF WritesFit
<1> QED
    BY <1>2, <1>5, <1>8 DEF EditorFit, SettingInv

\* What does not change with the setting and its row.
LEMMA StoredStands ==
    ASSUME UNCHANGED <<setting, stored>>
    PROVE  U!Values' = U!Values /\ U!Current' = U!Current /\ Writes' = Writes
BY DEF U!Values, U!Current, U!AsRead, Writes

LEMMA AnswerLoadSetting == SettingInv /\ U!AnswerLoad => SettingInv'
<1> SUFFICES ASSUME SettingInv, U!AnswerLoad PROVE SettingInv'
    OBVIOUS
<1>1. /\ UNCHANGED <<setting, stored, past, value, loaded, writes, saveError, editor, submitted,
                     used, faults>>
      /\ loading'.phase = "answered" /\ loading'.answer = U!Current
    BY DEF U!AnswerLoad, U!Loading
<1>2. U!Values' = U!Values /\ U!Current' = U!Current /\ Writes' = Writes
    BY <1>1, StoredStands
<1>3. StoredFit'
    BY <1>1, <1>2, CurrentIs DEF SettingInv, StoredFit
<1>4. WritesFit'
    BY <1>1, <1>2 DEF SettingInv, WritesFit, QueueFit, U!At, U!First
<1>5. EditorFit'
    BY <1>1 DEF SettingInv, EditorFit
<1> QED
    BY <1>3, <1>4, <1>5 DEF SettingInv

LEMMA FailLoadSetting == SettingInv /\ U!FailLoad => SettingInv'
<1> SUFFICES ASSUME SettingInv, U!FailLoad PROVE SettingInv'
    OBVIOUS
<1>1. /\ UNCHANGED <<setting, stored, past, value, loaded, writes, saveError, editor, submitted,
                     used>>
      /\ faults' \in 0..MaxFaults /\ faults' # 0 /\ loading'.phase = "over"
    BY SettingConstants DEF U!FailLoad, U!Loading, SettingInv, StoredFit
<1>2. U!Values' = U!Values /\ U!Current' = U!Current /\ Writes' = Writes
    BY <1>1, StoredStands
<1>3. StoredFit'
    BY <1>1, <1>2 DEF SettingInv, StoredFit
<1>4. WritesFit'
    BY <1>1, <1>2 DEF SettingInv, WritesFit, QueueFit, U!At, U!First
<1>5. EditorFit'
    BY <1>1 DEF SettingInv, EditorFit
<1> QED
    BY <1>3, <1>4, <1>5 DEF SettingInv

LEMMA ReceiveLoadSetting == SettingInv /\ U!ReceiveLoad => SettingInv'
<1> SUFFICES ASSUME SettingInv, U!ReceiveLoad PROVE SettingInv'
    OBVIOUS
<1>1. /\ UNCHANGED <<setting, stored, past, writes, saveError, editor, submitted, used, faults>>
      /\ loading.phase = "answered" /\ loading'.phase = "over"
    BY DEF U!ReceiveLoad, U!Loading
<1>2. U!Values' = U!Values /\ U!Current' = U!Current /\ Writes' = Writes
    BY <1>1, StoredStands
<1>3. loaded \in BOOLEAN /\ loaded' = TRUE /\ loaded' \in BOOLEAN
    BY Zenon DEF U!ReceiveLoad, SettingInv, StoredFit
<1>4. (loaded = TRUE => value' = value) /\ (loaded = FALSE => value' = loading.answer)
    BY Zenon DEF U!ReceiveLoad
<1>5. StoredFit'
    BY <1>1, <1>2, <1>3, <1>4 DEF SettingInv, StoredFit
<1>6. WritesFit'
    BY <1>1, <1>2, <1>3, <1>4 DEF SettingInv, WritesFit, QueueFit, U!At, U!First
<1>7. EditorFit'
    BY <1>1, <1>3, <1>4 DEF SettingInv, EditorFit
<1> QED
    BY <1>5, <1>6, <1>7 DEF SettingInv

\* The queue whose first write goes a step further.
LEMMA FirstFits ==
    ASSUME QueueFit(writes), writes # << >>, NEW w \in Writes,
           w.kind = "put" => w.phase # "reading",
           setting = "presets" => w.kind # "merge",
           setting = "densities" =>
               w.kind # "reset" /\ (w.kind = "put" => w.phase # "queued"),
           NEW list, list = [writes EXCEPT ![1] = w]
    PROVE  QueueFit(list) /\ list # << >> /\ list[1] = w
<1>1. writes \in Seq(Writes) /\ Len(writes) \in Nat /\ 1 \in 1..Len(writes)
    BY DEF QueueFit
<1>2. /\ list \in Seq(Writes) /\ Len(list) = Len(writes) /\ list[1] = w
      /\ \A i \in 1..Len(list) : i # 1 => list[i] = writes[i]
    BY <1>1
<1> QED
    BY <1>1, <1>2 DEF QueueFit

LEMMA FirstIs ==
    ASSUME QueueFit(writes), writes # << >>
    PROVE  1 \in 1..Len(writes) /\ writes[1] \in Writes
<1>1. writes \in Seq(Writes)
    BY DEF QueueFit
<1> QED
    BY <1>1

LEMMA WritesAre ==
    ASSUME NEW w \in Writes
    PROVE  /\ w.kind \in {"put", "reset", "merge"} /\ w.phase \in Phases
           /\ w.kind # "merge" => w.value \in U!Values
           /\ w.kind = "merge" => /\ w.value[1] \in DensityViews /\ w.value[2] \in Densities
                                  /\ w.phase \in {"queued", "failed"}
           /\ \A phase \in Phases :
                /\ w.kind # "merge" => [w EXCEPT !.phase = phase] \in Writes
                /\ [w EXCEPT !.phase = phase].kind = w.kind
                /\ [w EXCEPT !.phase = phase].value = w.value
                /\ [w EXCEPT !.phase = phase].phase = phase
           /\ w.kind = "merge" => [w EXCEPT !.phase = "failed"] \in Writes
<1>1. CASE w \in [kind : {"put", "reset"}, value : U!Values, phase : Phases]
    BY <1>1 DEF Writes
<1>2. CASE w \in [kind : {"merge"}, value : DensityViews \X Densities, phase : {"queued", "failed"}]
    BY <1>2 DEF Writes, Phases
<1> QED
    BY <1>1, <1>2 DEF Writes

LEMMA StartWriteSetting == SettingInv /\ U!StartWrite => SettingInv'
<1> SUFFICES ASSUME SettingInv, U!StartWrite PROVE SettingInv'
    OBVIOUS
<1> DEFINE old == writes[1]
           w == IF old.kind # "merge" THEN [old EXCEPT !.phase = "sent"]
                ELSE IF ~loaded THEN [old EXCEPT !.phase = "failed"]
                ELSE [kind |-> "put", value |-> U!WithDensity(value, old.value[1], old.value[2]),
                      phase |-> "sent"]
<1>1. /\ UNCHANGED <<setting, stored, past, value, loaded, loading, saveError, editor, submitted,
                     used, faults>>
      /\ writes # << >> /\ old.phase = "queued" /\ writes' = [writes EXCEPT ![1] = w]
    BY DEF U!StartWrite, U!At, U!First
<1>2. U!Values' = U!Values /\ U!Current' = U!Current /\ Writes' = Writes
    BY <1>1, StoredStands
<1>3. QueueFit(writes) /\ old \in Writes /\ 1 \in 1..Len(writes) /\ loaded \in BOOLEAN
      /\ setting \in {"presets", "densities"} /\ value \in U!Values
    BY <1>1, FirstIs DEF SettingInv, WritesFit, StoredFit
<1>4. /\ w \in Writes /\ w.phase \in {"sent", "failed"}
      /\ setting = "presets" => w.kind = old.kind /\ w.value = old.value /\ w.kind # "merge"
      /\ setting = "densities" => w.kind # "reset" /\ (w.kind = "put" => w.phase = "sent")
      /\ setting = "densities" /\ w.phase = "sent" =>
            loaded = TRUE /\ \E v \in DensityViews, d \in Densities : w.value = U!WithDensity(value, v, d)
    <2>1. CASE old.kind # "merge"
        <3>1. w = [old EXCEPT !.phase = "sent"] /\ "sent" \in Phases
            BY <2>1 DEF Phases
        <3>2. setting = "presets"
            BY <1>1, <1>3, <2>1, WritesAre DEF QueueFit
        <3> HIDE DEF w, old
        <3> QED
            BY <1>3, <2>1, <3>1, <3>2, WritesAre
    <2>2. CASE old.kind = "merge" /\ loaded = FALSE
        <3>1. w = [old EXCEPT !.phase = "failed"] /\ "failed" \in Phases
            BY <2>2 DEF Phases
        <3>2. setting # "presets"
            BY <1>3, <2>2 DEF QueueFit
        <3> HIDE DEF w, old
        <3> QED
            BY <1>3, <2>2, <3>1, <3>2, WritesAre
    <2>3. CASE old.kind = "merge" /\ loaded = TRUE
        <3>2. setting # "presets"
            BY <1>3, <2>3 DEF QueueFit
        <3>1. w = [kind |-> "put", value |-> U!WithDensity(value, old.value[1], old.value[2]),
                   phase |-> "sent"]
            BY <2>3
        <3>3. old.value[1] \in DensityViews /\ old.value[2] \in Densities
            BY <1>3, <2>3, WritesAre
        <3>4. U!WithDensity(value, old.value[1], old.value[2]) \in U!Values
            BY <1>3, <3>2, <3>3, WithDensityIs DEF U!Values
        <3> HIDE DEF w, old
        <3>5. w \in Writes /\ w.kind = "put" /\ w.phase = "sent"
              /\ w.value = U!WithDensity(value, old.value[1], old.value[2])
            BY <3>1, <3>4 DEF Writes, Phases
        <3> QED
            BY <2>3, <3>2, <3>3, <3>5
    <2> QED
        BY <1>3, <2>1, <2>2, <2>3
<1> HIDE DEF w
<1>5. QueueFit(writes') /\ writes' # << >> /\ writes'[1] = w
    BY <1>1, <1>3, <1>4, FirstFits
<1>6. StoredFit'
    BY <1>1, <1>2 DEF SettingInv, StoredFit
<1>7. WritesFit'
    <2>1. QueueFit(writes)'
        BY <1>1, <1>2, <1>5 DEF QueueFit
    <2>2. ~U!At("done") /\ ~U!At("reading") /\ ~U!At("done")' /\ ~U!At("reading")'
        BY <1>1, <1>4, <1>5 DEF U!At, U!First
    <2>3. U!At("sent")' => w.phase = "sent"
        BY <1>5 DEF U!At, U!First
    <2> QED
        BY <1>1, <1>2, <1>4, <1>5, <2>1, <2>2, <2>3 DEF SettingInv, WritesFit
<1>8. EditorFit'
    BY <1>1, <1>4, <1>5 DEF SettingInv, EditorFit
<1> QED
    BY <1>6, <1>7, <1>8 DEF SettingInv

LEMMA PerformSetting == SettingInv /\ U!Perform => SettingInv'
<1> SUFFICES ASSUME SettingInv, U!Perform PROVE SettingInv'
    OBVIOUS
<1> DEFINE old == writes[1]
           phase == IF old.kind = "put" THEN "done" ELSE "reading"
           w == [old EXCEPT !.phase = phase]
<1>1. /\ UNCHANGED <<setting, value, loaded, loading, saveError, editor, submitted, used, faults>>
      /\ writes # << >> /\ old.phase = "sent"
      /\ stored' = IF old.kind = "put" THEN old.value ELSE None
      /\ past' = past \cup {U!AsRead(stored')}
    BY DEF U!Perform, U!At, U!First
<1>2. QueueFit(writes) /\ old \in Writes /\ 1 \in 1..Len(writes)
      /\ setting \in {"presets", "densities"} /\ writes \in Seq(Writes)
    BY <1>1, FirstIs DEF SettingInv, WritesFit, StoredFit, QueueFit
<1>3. old.kind \in {"put", "reset"} /\ old.value \in U!Values
    BY <1>1, <1>2, WritesAre
<1>4. w \in Writes /\ w.kind = old.kind /\ w.value = old.value
      /\ w.phase = IF old.kind = "put" THEN "done" ELSE "reading"
    <2>1. phase \in Phases
        BY DEF Phases
    <2> HIDE DEF phase
    <2>2. w \in Writes /\ w.kind = old.kind /\ w.value = old.value /\ w.phase = phase
        BY <2>1, <1>2, <1>3, WritesAre
    <2> QED
        BY <2>2 DEF phase
<1>5. writes' = [writes EXCEPT ![1] = w]
    BY <1>2 DEF U!Perform, U!First
<1> HIDE DEF w
<1>6. U!Values' = U!Values /\ Writes' = Writes
    BY <1>1 DEF U!Values, Writes
<1>7. U!Current' = U!AsRead(stored')
    BY <1>1 DEF U!Current, U!AsRead
<1>8. QueueFit(writes') /\ writes' # << >> /\ writes'[1] = w
    BY <1>1, <1>2, <1>3, <1>4, <1>5, FirstFits DEF QueueFit
<1>9. old.kind = "put" => U!Current' = old.value
    BY <1>1, <1>3, <1>7, SettingConstants DEF U!AsRead, U!Values
<1>10. StoredFit'
    BY <1>1, <1>3, <1>6, <1>7 DEF SettingInv, StoredFit
<1>11. WritesFit'
    <2>1. QueueFit(writes)'
        BY <1>1, <1>6, <1>8 DEF QueueFit
    <2>2. ~U!At("sent")' /\ (U!At("done")' \/ U!At("reading")') /\ (U!At("done")' => old.kind = "put")
        BY <1>3, <1>4, <1>8 DEF U!At, U!First
    <2> QED
        BY <1>4, <1>8, <1>9, <2>1, <2>2 DEF WritesFit
<1>12. EditorFit'
    BY <1>1, <1>4, <1>8 DEF SettingInv, EditorFit
<1> QED
    BY <1>10, <1>11, <1>12 DEF SettingInv

LEMMA ReadDefaultsSetting == SettingInv /\ U!ReadDefaults => SettingInv'
<1> SUFFICES ASSUME SettingInv, U!ReadDefaults PROVE SettingInv'
    OBVIOUS
<1> DEFINE old == writes[1]
           w == [old EXCEPT !.phase = "done", !.value = U!Current]
<1>1. /\ UNCHANGED <<setting, stored, past, value, loaded, loading, saveError, editor, submitted,
                     used, faults>>
      /\ writes # << >> /\ old.phase = "reading"
    BY DEF U!ReadDefaults, U!At, U!First
<1>2. QueueFit(writes) /\ old \in Writes /\ 1 \in 1..Len(writes)
      /\ setting \in {"presets", "densities"} /\ writes \in Seq(Writes)
    BY <1>1, FirstIs DEF SettingInv, WritesFit, StoredFit, QueueFit
<1>3. old.kind = "reset" /\ setting = "presets"
    BY <1>1, <1>2, WritesAre DEF QueueFit
<1>4. U!Current \in U!Values
    BY CurrentIs DEF SettingInv, StoredFit
<1>5. old \in [kind : {"put", "reset"}, value : U!Values, phase : Phases]
    BY <1>2, <1>3 DEF Writes
<1>6. w \in Writes /\ w.kind = "reset" /\ w.value = U!Current /\ w.phase = "done"
    BY <1>3, <1>4, <1>5 DEF Writes, Phases
<1>7. writes' = [writes EXCEPT ![1] = w]
    BY <1>2, <1>5 DEF U!ReadDefaults
<1> HIDE DEF w
<1>8. U!Values' = U!Values /\ U!Current' = U!Current /\ Writes' = Writes
    BY <1>1, StoredStands
<1>9. QueueFit(writes') /\ writes' # << >> /\ writes'[1] = w
    BY <1>1, <1>2, <1>3, <1>6, <1>7, FirstFits
<1>10. StoredFit'
    BY <1>1, <1>8 DEF SettingInv, StoredFit
<1>11. WritesFit'
    <2>1. QueueFit(writes)'
        BY <1>1, <1>8, <1>9 DEF QueueFit
    <2>2. ~U!At("sent")' /\ U!At("done")'
        BY <1>6, <1>9 DEF U!At, U!First
    <2> QED
        BY <1>6, <1>8, <1>9, <2>1, <2>2 DEF WritesFit
<1>12. EditorFit'
    BY <1>1, <1>3 DEF SettingInv, EditorFit
<1> QED
    BY <1>10, <1>11, <1>12 DEF SettingInv

LEMMA FailWriteSetting == SettingInv /\ U!FailWrite => SettingInv'
<1> SUFFICES ASSUME SettingInv, U!FailWrite PROVE SettingInv'
    OBVIOUS
<1> DEFINE old == writes[1]
           w == [old EXCEPT !.phase = "failed"]
<1>1. /\ UNCHANGED <<setting, stored, past, value, loaded, loading, saveError, editor, submitted,
                     used>>
      /\ writes # << >> /\ old.phase \in {"sent", "reading", "done"}
      /\ faults' \in 0..MaxFaults /\ faults' # 0
    BY SettingConstants DEF U!FailWrite, U!First, SettingInv, StoredFit
<1>2. QueueFit(writes) /\ old \in Writes /\ 1 \in 1..Len(writes)
      /\ setting \in {"presets", "densities"} /\ writes \in Seq(Writes)
    BY <1>1, FirstIs DEF SettingInv, WritesFit, StoredFit, QueueFit
<1>3. old.kind \in {"put", "reset"} /\ (setting = "densities" => old.kind = "put")
    BY <1>1, <1>2, WritesAre DEF QueueFit
<1>4. w \in Writes /\ w.kind = old.kind /\ w.value = old.value /\ w.phase = "failed"
    BY <1>2, <1>3, WritesAre DEF Phases
<1>5. writes' = [writes EXCEPT ![1] = w]
    BY <1>2 DEF U!FailWrite
<1> HIDE DEF w
<1>6. U!Values' = U!Values /\ U!Current' = U!Current /\ Writes' = Writes
    BY <1>1, StoredStands
<1>7. QueueFit(writes') /\ writes' # << >> /\ writes'[1] = w
    BY <1>1, <1>2, <1>3, <1>4, <1>5, FirstFits
<1>8. StoredFit'
    BY <1>1, <1>6 DEF SettingInv, StoredFit
<1>9. WritesFit'
    <2>1. QueueFit(writes)'
        BY <1>1, <1>6, <1>7 DEF QueueFit
    <2>2. ~U!At("sent")' /\ ~U!At("done")'
        BY <1>4, <1>7 DEF U!At, U!First
    <2> QED
        BY <1>1, <2>1, <2>2 DEF WritesFit
<1>10. EditorFit'
    BY <1>1, <1>4, <1>7 DEF SettingInv, EditorFit
<1> QED
    BY <1>8, <1>9, <1>10 DEF SettingInv

LEMMA TailFits ==
    ASSUME QueueFit(writes), writes # << >>
    PROVE  /\ QueueFit(Tail(writes))
           /\ Tail(writes) # << >> => Tail(writes)[1].phase = "queued"
           /\ setting = "presets" => Len(writes) = 1 /\ Tail(writes) = << >>
<1>1. writes \in Seq(Writes) /\ Len(writes) \in Nat /\ Len(writes) >= 1
    BY DEF QueueFit
<1>2. /\ Tail(writes) \in Seq(Writes) /\ Len(Tail(writes)) = Len(writes) - 1
      /\ \A i \in 1..(Len(writes) - 1) : Tail(writes)[i] = writes[i + 1]
    BY <1>1
<1>3. \A i \in 1..(Len(writes) - 1) : i + 1 \in 1..Len(writes) /\ i + 1 # 1
    BY <1>1
<1>4. QueueFit(Tail(writes))
    BY <1>1, <1>2, <1>3 DEF QueueFit
<1>5. Tail(writes) # << >> => Tail(writes)[1].phase = "queued"
    <2> SUFFICES ASSUME Tail(writes) # << >> PROVE Tail(writes)[1].phase = "queued"
        OBVIOUS
    <2>1. 1 \in 1..(Len(writes) - 1)
        BY <1>1, <1>2
    <2> QED
        BY <2>1, <1>2, <1>3 DEF QueueFit
<1>6. setting = "presets" => Len(writes) = 1 /\ Tail(writes) = << >>
    BY <1>1, <1>2 DEF QueueFit
<1> QED
    BY <1>4, <1>5, <1>6

LEMMA ConfirmedSetting == SettingInv /\ U!Confirmed => SettingInv'
<1> SUFFICES ASSUME SettingInv, U!Confirmed PROVE SettingInv'
    OBVIOUS
<1> DEFINE old == writes[1]
<1>1. /\ UNCHANGED <<setting, stored, past, loading, used, faults>>
      /\ writes # << >> /\ old.phase = "done" /\ value' = old.value /\ writes' = Tail(writes)
    BY DEF U!Confirmed, U!At, U!First
<1>2. loaded' = TRUE /\ loaded' \in BOOLEAN /\ saveError' \in BOOLEAN
    BY Zenon DEF U!Confirmed
<1>3. /\ submitted' = IF Len(writes) = 1 THEN None ELSE submitted
      /\ editor' = IF Len(writes) = 1 /\ submitted # None THEN None ELSE editor
    BY DEF U!Confirmed, U!closeAfterSave
<1>4. QueueFit(writes) /\ old \in Writes /\ 1 \in 1..Len(writes)
      /\ setting \in {"presets", "densities"} /\ writes \in Seq(Writes)
    BY <1>1, FirstIs DEF SettingInv, WritesFit, StoredFit, QueueFit
<1>5. old.value \in U!Values /\ old.value = U!Current
    BY <1>1, <1>4, WritesAre DEF SettingInv, WritesFit, U!At, U!First
<1>6. U!Values' = U!Values /\ U!Current' = U!Current /\ Writes' = Writes
    BY <1>1, StoredStands
<1>7. StoredFit'
    BY <1>1, <1>2, <1>5, <1>6 DEF SettingInv, StoredFit
<1>8. WritesFit'
    <2>1. QueueFit(writes)'
        BY <1>1, <1>4, <1>6, TailFits DEF QueueFit
    <2>2. ~U!At("sent")' /\ ~U!At("done")'
        BY <1>1, <1>4, TailFits DEF U!At, U!First
    <2> QED
        BY <1>1, <1>2, <1>5, <1>6, <2>1, <2>2 DEF WritesFit
<1>9. EditorFit'
    <2>1. CASE setting = "presets"
        <3>1. Len(writes) = 1 /\ writes' = << >>
            BY <1>1, <1>4, <2>1, TailFits
        <3>2. submitted' = None /\ (submitted # None => editor' = None)
              /\ (submitted = None => editor' = editor)
            BY <1>3, <3>1
        <3> HIDE DEF old
        <3> QED
            BY <1>1, <1>2, <2>1, <3>1, <3>2 DEF SettingInv, EditorFit, old
    <2>2. CASE setting # "presets"
        BY <1>3, <2>2 DEF SettingInv, EditorFit
    <2> QED
        BY <2>1, <2>2
<1> QED
    BY <1>7, <1>8, <1>9 DEF SettingInv

LEMMA NotConfirmedSetting == SettingInv /\ U!NotConfirmed => SettingInv'
<1> SUFFICES ASSUME SettingInv, U!NotConfirmed PROVE SettingInv'
    OBVIOUS
<1>1. /\ UNCHANGED <<setting, stored, past, value, loaded, loading, used, faults>>
      /\ writes # << >> /\ writes[1].phase = "failed" /\ writes' = Tail(writes)
    BY DEF U!NotConfirmed, U!At, U!First
<1>2. saveError' \in BOOLEAN
    BY Zenon DEF U!NotConfirmed
<1>3. /\ submitted' = IF Len(writes) = 1 THEN None ELSE submitted
      /\ editor' = editor
    BY DEF U!NotConfirmed, U!closeAfterSave
<1>4. QueueFit(writes) /\ setting \in {"presets", "densities"}
    BY DEF SettingInv, WritesFit, StoredFit
<1>6. U!Values' = U!Values /\ U!Current' = U!Current /\ Writes' = Writes
    BY <1>1, StoredStands
<1>7. StoredFit'
    BY <1>1, <1>2, <1>6 DEF SettingInv, StoredFit
<1>8. WritesFit'
    <2>1. QueueFit(writes)'
        BY <1>1, <1>4, <1>6, TailFits DEF QueueFit
    <2>2. ~U!At("sent")' /\ ~U!At("done")' /\ ~U!At("done") /\ ~U!At("reading")
        BY <1>1, <1>4, TailFits DEF U!At, U!First
    <2> QED
        BY <1>1, <1>6, <2>1, <2>2 DEF SettingInv, WritesFit
<1>9. EditorFit'
    <2>1. CASE setting = "presets"
        <3>1. Len(writes) = 1 /\ writes' = << >>
            BY <1>1, <1>4, <2>1, TailFits
        <3> QED
            BY <1>1, <1>3, <3>1 DEF SettingInv, EditorFit
    <2>2. CASE setting # "presets"
        BY <1>3, <2>2 DEF SettingInv, EditorFit
    <2> QED
        BY <2>1, <2>2
<1> QED
    BY <1>7, <1>8, <1>9 DEF SettingInv

-----------------------------------------------------------------------------
(* The pages. *)

\* A write that joins the queue.
LEMMA QueuedFits ==
    ASSUME QueueFit(writes), NEW w \in Writes, w.phase = "queued",
           setting = "presets" => writes = << >> /\ w.kind # "merge",
           setting = "densities" => w.kind = "merge"
    PROVE  /\ QueueFit(Append(writes, w)) /\ Append(writes, w) # << >>
           /\ Append(writes, w)[1] = IF writes = << >> THEN w ELSE writes[1]
<1> DEFINE new == Append(writes, w)
<1>1. writes \in Seq(Writes) /\ Len(writes) \in Nat /\ (writes = << >> <=> Len(writes) = 0)
    BY DEF QueueFit
<1>2. /\ new \in Seq(Writes) /\ Len(new) = Len(writes) + 1
      /\ \A i \in 1..Len(writes) : new[i] = writes[i]
      /\ new[Len(writes) + 1] = w
    BY <1>1
<1> HIDE DEF new
<1>3. \A i \in 1..Len(new) : i \in 1..Len(writes) \/ i = Len(writes) + 1
    BY <1>1, <1>2
<1>4. setting = "presets" => Len(new) <= 1
    BY <1>1, <1>2
<1>5. QueueFit(new)
    BY <1>2, <1>3, <1>4 DEF QueueFit
<1>6. new # << >> /\ new[1] = IF writes = << >> THEN w ELSE writes[1]
    BY <1>1, <1>2
<1> QED
    BY <1>5, <1>6 DEF new

LEMMA PageFits ==
    ASSUME SettingInv, NEW w \in Writes, w.phase = "queued", U!Page(w),
           setting = "presets" => writes = << >> /\ w.kind # "merge",
           setting = "densities" => w.kind = "merge"
    PROVE  /\ StoredFit' /\ WritesFit'
           /\ UNCHANGED <<setting, value, loaded>>
           /\ writes' # << >> /\ writes'[1] = IF writes = << >> THEN w ELSE writes[1]
<1>1. UNCHANGED <<setting, stored, past, value, loaded, loading, saveError, faults>>
    BY DEF U!Page
<1>2. [w EXCEPT !.phase = "queued"] = w
    BY DEF Writes
<1>3. writes' = Append(writes, w) /\ used' \in 0..MaxWrites
    BY <1>2, SettingConstants DEF U!Page, U!enqueue, SettingInv, StoredFit
<1>4. QueueFit(writes)
    BY DEF SettingInv, WritesFit
<1>5. /\ QueueFit(writes') /\ writes' # << >>
      /\ writes'[1] = IF writes = << >> THEN w ELSE writes[1]
    BY <1>3, <1>4, QueuedFits
<1>6. U!Values' = U!Values /\ U!Current' = U!Current /\ Writes' = Writes
    BY <1>1, StoredStands
<1>7. StoredFit'
    BY <1>1, <1>3, <1>6 DEF SettingInv, StoredFit
<1>8. WritesFit'
    <2>1. QueueFit(writes)'
        BY <1>1, <1>5, <1>6 DEF QueueFit
    <2>2. CASE writes = << >>
        <3>1. ~U!At("sent")' /\ ~U!At("done")' /\ ~U!At("done") /\ ~U!At("reading")
            BY <1>5, <2>2 DEF U!At, U!First
        <3> QED
            BY <1>1, <1>6, <2>1, <3>1 DEF SettingInv, WritesFit
    <2>3. CASE writes # << >>
        <3>1. \A phase : U!At(phase)' <=> U!At(phase)
            BY <1>5, <2>3 DEF U!At, U!First
        <3>2. writes'[1] = writes[1]
            BY <1>5, <2>3
        <3> QED
            BY <1>1, <1>6, <2>1, <3>1, <3>2 DEF SettingInv, WritesFit
    <2> QED
        BY <2>2, <2>3
<1> QED
    BY <1>1, <1>5, <1>7, <1>8

\* The buttons of the page are there when the list is loaded and nothing is being saved.
LEMMA ButtonsAre ==
    ASSUME SettingInv, U!Buttons
    PROVE  setting = "presets" /\ loaded = TRUE /\ writes = << >> /\ value \in Seq(U!Preset)
           /\ submitted = None /\ Len(value) \in Nat
           /\ \A i \in DOMAIN value : value[i] \in U!Preset /\ value[i].id \in PresetIds
<1>1. setting = "presets" /\ writes = << >>
    BY DEF U!Buttons, U!saving
<1>2. loaded = TRUE
    BY Zenon DEF U!Buttons, SettingInv, StoredFit
<1>3. value \in Seq(U!Preset)
    BY <1>1 DEF SettingInv, StoredFit, U!Values
<1>4. submitted = None
    BY <1>1 DEF SettingInv, EditorFit
<1>5. \A i \in DOMAIN value : value[i] \in U!Preset
    BY <1>3
<1>6. \A p \in U!Preset : p.id \in PresetIds
    BY DEF U!Preset
<1> QED
    BY <1>1, <1>2, <1>3, <1>4, <1>5, <1>6

LEMMA PutIs ==
    ASSUME setting = "presets", NEW list \in Seq(U!Preset)
    PROVE  /\ U!Put(list) \in Writes /\ U!Put(list).phase = "queued"
           /\ U!Put(list).kind = "put" /\ U!Put(list).value = list
BY DEF U!Put, Writes, Phases, U!Values

LEMMA startAddSetting == ASSUME NEW id \in PresetIds, SettingInv, U!startAdd(id)
                         PROVE  SettingInv'
<1>1. /\ UNCHANGED <<setting, stored, past, value, loaded, loading, writes, saveError, submitted,
                     used, faults>>
      /\ editor' = [id |-> id, isNew |-> TRUE] /\ ~U!Has(value, id)
      /\ ~(Len(value) >= MaxPresets)
    BY DEF U!startAdd, U!channel, U!atLimit
<1>2. setting = "presets" /\ loaded = TRUE /\ writes = << >> /\ Len(value) \in Nat
    BY ButtonsAre DEF U!startAdd
<1>3. editor' \in U!Editor /\ Fits(editor', value)
    BY <1>1, <1>2, SettingConstants DEF U!Editor, Fits
<1>4. U!Values' = U!Values /\ U!Current' = U!Current /\ Writes' = Writes
    BY <1>1, StoredStands
<1>5. StoredFit' /\ WritesFit'
    BY <1>1, <1>4 DEF SettingInv, StoredFit, WritesFit, QueueFit, U!At, U!First
<1> QED
    BY <1>1, <1>2, <1>3, <1>5 DEF SettingInv, EditorFit

LEMMA startEditSetting == ASSUME NEW i, SettingInv, U!startEdit(i)
                          PROVE  SettingInv'
<1>1. /\ UNCHANGED <<setting, stored, past, value, loaded, loading, writes, saveError, submitted,
                     used, faults>>
      /\ editor' = [id |-> value[i].id, isNew |-> FALSE] /\ i \in DOMAIN value
    BY DEF U!startEdit, U!channel
<1>2. setting = "presets" /\ loaded = TRUE /\ writes = << >> /\ value[i].id \in PresetIds
    BY <1>1, ButtonsAre DEF U!startEdit
<1>3. editor' \in U!Editor /\ Fits(editor', value)
    BY <1>1, <1>2 DEF U!Editor, Fits, U!Has
<1>4. U!Values' = U!Values /\ U!Current' = U!Current /\ Writes' = Writes
    BY <1>1, StoredStands
<1>5. StoredFit' /\ WritesFit'
    BY <1>1, <1>4 DEF SettingInv, StoredFit, WritesFit, QueueFit, U!At, U!First
<1> QED
    BY <1>1, <1>2, <1>3, <1>5 DEF SettingInv, EditorFit

LEMMA closeEditorSetting == SettingInv /\ U!closeEditor => SettingInv'
<1> SUFFICES ASSUME SettingInv, U!closeEditor PROVE SettingInv'
    OBVIOUS
<1>1. /\ UNCHANGED <<setting, stored, past, value, loaded, loading, writes, saveError, submitted,
                     used, faults>>
      /\ editor' = None
    BY DEF U!closeEditor, U!channel
<1>2. U!Values' = U!Values /\ U!Current' = U!Current /\ Writes' = Writes
    BY <1>1, StoredStands
<1>3. StoredFit' /\ WritesFit'
    BY <1>1, <1>2 DEF SettingInv, StoredFit, WritesFit, QueueFit, U!At, U!First
<1> QED
    BY <1>1, <1>3 DEF SettingInv, EditorFit

LEMMA saveSetting == ASSUME NEW definition \in Definitions, SettingInv, U!save(definition)
                     PROVE  SettingInv' /\ submitted' # None
<1> DEFINE draft == [id |-> editor.id, is |-> definition]
           list == IF editor.isNew THEN Append(value, draft)
                   ELSE [i \in DOMAIN value |-> IF value[i].id = draft.id THEN draft ELSE value[i]]
<1>1. U!Buttons /\ editor # None /\ U!Page(U!Put(list)) /\ submitted' = draft /\ editor' = editor
    BY DEF U!save
<1>2. /\ setting = "presets" /\ loaded = TRUE /\ writes = << >> /\ value \in Seq(U!Preset)
      /\ editor \in U!Editor /\ Fits(editor, value) /\ Len(value) \in Nat
    BY <1>1, ButtonsAre DEF SettingInv, EditorFit
<1>3. draft \in U!Preset /\ draft.id = editor.id
    BY <1>2 DEF U!Preset, U!Editor
<1>4. list \in Seq(U!Preset) /\ Holds(list, draft)
    <2> HIDE DEF draft
    <2>1. CASE editor.isNew
        <3>1. list = Append(value, draft)
            BY <2>1
        <3>2. list \in Seq(U!Preset) /\ Len(value) + 1 \in DOMAIN list /\ list[Len(value) + 1] = draft
            BY <3>1, <1>2, <1>3
        <3> QED
            BY <3>2 DEF Holds
    <2>2. CASE ~editor.isNew
        <3>1. list = [i \in 1..Len(value) |-> IF value[i].id = draft.id THEN draft ELSE value[i]]
            BY <2>2, <1>2
        <3>2. \A i \in 1..Len(value) : value[i] \in U!Preset
            BY <1>2
        <3>3. list \in [1..Len(value) -> U!Preset]
            BY <3>1, <3>2, <1>3
        <3>4. list \in Seq(U!Preset)
            BY <3>3, <1>2
        <3>5. PICK i \in 1..Len(value) : value[i].id = draft.id
            BY <2>2, <1>2, <1>3 DEF Fits, U!Has
        <3>6. list[i] = draft /\ i \in DOMAIN list
            BY <3>1, <3>5
        <3> QED
            BY <3>4, <3>6 DEF Holds
    <2> QED
        BY <2>1, <2>2
<1> HIDE DEF draft, list
<1>5. /\ U!Put(list) \in Writes /\ U!Put(list).phase = "queued"
      /\ U!Put(list).kind = "put" /\ U!Put(list).value = list
    BY <1>2, <1>4, PutIs
<1>6. /\ StoredFit' /\ WritesFit' /\ UNCHANGED <<setting, value, loaded>>
      /\ writes' # << >> /\ writes'[1] = U!Put(list)
    BY <1>1, <1>2, <1>5, PageFits
<1>7. draft # None
    BY <1>3, SettingConstants
<1>8. EditorFit'
    BY <1>1, <1>2, <1>3, <1>4, <1>5, <1>6, <1>7 DEF EditorFit
<1> QED
    BY <1>1, <1>6, <1>7, <1>8 DEF SettingInv

\* A put of the page that saves no draft.
LEMMA PutSetting ==
    ASSUME SettingInv, U!Buttons, NEW list \in Seq(U!Preset), U!Page(U!Put(list)),
           submitted' = submitted, editor' = None \/ editor' = editor,
           editor' # None => Fits(editor, list)
    PROVE  SettingInv'
<1>1. /\ setting = "presets" /\ loaded = TRUE /\ writes = << >> /\ submitted = None
    BY ButtonsAre
<1>2. /\ U!Put(list) \in Writes /\ U!Put(list).phase = "queued"
      /\ U!Put(list).kind = "put" /\ U!Put(list).value = list
    BY <1>1, PutIs
<1>3. /\ StoredFit' /\ WritesFit' /\ UNCHANGED <<setting, value, loaded>>
      /\ writes' # << >> /\ writes'[1] = U!Put(list)
    BY <1>1, <1>2, PageFits
<1>4. EditorFit'
    BY <1>1, <1>2, <1>3 DEF SettingInv, EditorFit
<1> QED
    BY <1>3, <1>4 DEF SettingInv

LEMMA moveSetting == ASSUME NEW i, NEW j, SettingInv, U!move(i, j)
                     PROVE  SettingInv'
<1> DEFINE list == [value EXCEPT ![i] = value[j], ![j] = value[i]]
<1>1. /\ U!Buttons /\ i \in DOMAIN value /\ j \in DOMAIN value /\ i # j
      /\ U!Page(U!Put(list)) /\ UNCHANGED <<editor, submitted>>
    <2>1. value \in Seq(U!Preset)
        BY ButtonsAre DEF U!move
    <2> QED
        BY <2>1 DEF U!move
<1>2. value \in Seq(U!Preset) /\ Len(value) \in Nat
    BY <1>1, ButtonsAre
<1>3. /\ list \in Seq(U!Preset) /\ DOMAIN list = DOMAIN value /\ Len(list) = Len(value)
      /\ list[i] = value[j] /\ list[j] = value[i]
      /\ \A k \in DOMAIN value : k # i /\ k # j => list[k] = value[k]
    BY <1>1, <1>2
<1> HIDE DEF list
<1>4. \A id : U!Has(list, id) <=> U!Has(value, id)
    BY <1>1, <1>3 DEF U!Has
<1>5. editor # None => Fits(editor, value)
    BY DEF SettingInv, EditorFit
<1>6. editor # None => Fits(editor, list)
    BY <1>3, <1>4, <1>5 DEF Fits
<1> QED
    BY <1>1, <1>3, <1>6, PutSetting

LEMMA removeSetting == ASSUME NEW i, SettingInv, U!remove(i)
                       PROVE  SettingInv'
<1> DEFINE list == U!RemoveAt(value, i)
<1>1. /\ U!Buttons /\ i \in DOMAIN value /\ U!Page(U!Put(list)) /\ UNCHANGED submitted
      /\ editor' = IF editor # None /\ editor.id = value[i].id THEN None ELSE editor
    BY DEF U!remove
<1>2. value \in Seq(U!Preset) /\ Len(value) \in Nat /\ i \in 1..Len(value)
    BY <1>1, ButtonsAre
<1>3. list = S!RemoveAt(value, i)
    BY DEF S!RemoveAt, U!RemoveAt
<1>4. /\ list \in Seq(U!Preset) /\ Len(list) = Len(value) - 1
      /\ \A k \in 1..(Len(value) - 1) : list[k] = IF k < i THEN value[k] ELSE value[k + 1]
    BY <1>2, <1>3, Removed
<1> HIDE DEF list
<1>5. ASSUME editor # None, editor.id # value[i].id
      PROVE  Fits(editor, list)
    <2>1. Fits(editor, value)
        BY <1>5 DEF SettingInv, EditorFit
    <2>2. CASE editor.isNew
        <3>1. ~U!Has(value, editor.id) /\ Len(value) < MaxPresets
            BY <2>1, <2>2 DEF Fits
        <3>2. \A k \in 1..Len(list) : list[k] \in {value[m] : m \in 1..Len(value)}
            BY <1>2, <1>4
        <3>3. ~U!Has(list, editor.id)
            BY <3>1, <3>2, <1>2, <1>4 DEF U!Has
        <3>4. Len(list) < MaxPresets
            BY <3>1, <1>2, <1>4, SettingConstants
        <3> QED
            BY <2>2, <3>3, <3>4 DEF Fits
    <2>3. CASE ~editor.isNew
        <3>1. PICK k \in 1..Len(value) : value[k].id = editor.id
            BY <2>1, <2>3, <1>2 DEF Fits, U!Has
        <3>2. k # i
            BY <3>1, <1>5
        <3>3. CASE k < i
            <4>1. k \in 1..Len(list) /\ list[k] = value[k]
                BY <3>3, <1>2, <1>4
            <4> QED
                BY <4>1, <3>1, <2>3, <1>4 DEF Fits, U!Has
        <3>4. CASE k > i
            <4>1. k - 1 \in 1..Len(list) /\ list[k - 1] = value[k]
                BY <3>4, <1>2, <1>4
            <4> QED
                BY <4>1, <3>1, <2>3, <1>4 DEF Fits, U!Has
        <3> QED
            BY <3>2, <3>3, <3>4, <1>2
    <2> QED
        BY <2>2, <2>3
<1>6. (editor' = None \/ editor' = editor) /\ (editor' # None => Fits(editor, list))
    BY <1>1, <1>5
<1> QED
    BY <1>1, <1>4, <1>6, PutSetting

LEMMA restoreDefaultsSetting == SettingInv /\ U!restoreDefaults => SettingInv'
<1> SUFFICES ASSUME SettingInv, U!restoreDefaults PROVE SettingInv'
    OBVIOUS
<1>1. /\ setting = "presets" /\ loaded = TRUE /\ writes = << >> /\ submitted = None
    BY ButtonsAre DEF U!restoreDefaults
<1>2. U!Reset \in Writes /\ U!Reset.phase = "queued" /\ U!Reset.kind = "reset"
    BY <1>1, NothingYet DEF U!Reset, Writes, Phases
<1>3. U!Page(U!Reset) /\ editor' = None /\ submitted' = submitted
    BY DEF U!restoreDefaults
<1>4. StoredFit' /\ WritesFit'
    BY <1>1, <1>2, <1>3, PageFits
<1> QED
    BY <1>1, <1>3, <1>4 DEF SettingInv, EditorFit

LEMMA saveDensitySetting ==
    ASSUME NEW v \in DensityViews, NEW d \in Densities, SettingInv, U!saveDensity(v, d)
    PROVE  SettingInv'
<1>1. setting = "densities" /\ U!Page(U!Merge(v, d)) /\ UNCHANGED <<editor, submitted>>
    BY DEF U!saveDensity
<1>2. U!Merge(v, d) \in Writes /\ U!Merge(v, d).phase = "queued" /\ U!Merge(v, d).kind = "merge"
    BY DEF U!Merge, Writes, Phases
<1>3. StoredFit' /\ WritesFit'
    BY <1>1, <1>2, PageFits
<1>4. editor = None /\ submitted = None
    BY <1>1 DEF SettingInv, EditorFit
<1> QED
    BY <1>1, <1>3, <1>4 DEF SettingInv, EditorFit

LEMMA NextSetting == SettingInv /\ [U!Next]_U!vars => SettingInv'
<1>1. CASE U!Next
    BY <1>1, AnswerLoadSetting, FailLoadSetting, ReceiveLoadSetting, StartWriteSetting,
       PerformSetting, ReadDefaultsSetting, FailWriteSetting, ConfirmedSetting,
       NotConfirmedSetting, startAddSetting, startEditSetting, removeSetting, moveSetting,
       saveSetting, closeEditorSetting, restoreDefaultsSetting, saveDensitySetting DEF U!Next
<1>2. CASE SettingInv /\ UNCHANGED U!vars
    <2>1. UNCHANGED <<setting, stored, past, value, loaded, loading, writes, saveError, editor,
                      submitted, used, faults>>
        BY <1>2 DEF U!vars, U!channel
    <2>2. U!Values' = U!Values /\ U!Current' = U!Current /\ Writes' = Writes
        BY <2>1, StoredStands
    <2>3. StoredFit' /\ WritesFit'
        BY <1>2, <2>1, <2>2 DEF SettingInv, StoredFit, WritesFit, QueueFit, U!At, U!First
    <2>4. EditorFit'
        BY <1>2, <2>1 DEF SettingInv, EditorFit
    <2> QED
        BY <2>3, <2>4 DEF SettingInv
<1> QED
    BY <1>1, <1>2

LEMMA SettingTypes == ASSUME SettingInv PROVE U!TypeOK
<1>1. \A i \in DOMAIN writes : writes[i].phase \in Phases
    <2>1. writes \in Seq(Writes)
        BY DEF SettingInv, WritesFit, QueueFit
    <2>2. \A i \in DOMAIN writes : writes[i] \in Writes
        BY <2>1
    <2> QED
        BY <2>2, WritesAre
<1>2. editor \in U!Editor \cup {None} /\ submitted \in U!Preset \cup {None}
    BY DEF SettingInv, EditorFit
<1> QED
    BY <1>1, <1>2 DEF SettingInv, StoredFit, U!TypeOK, Phases

LEMMA ShownIsStored == ASSUME SettingInv PROVE U!OnlyStoredShown
<1> SUFFICES ASSUME loaded
             PROVE  value \in past /\ (faults = 0 /\ ~U!saving => value = U!Current)
    BY DEF U!OnlyStoredShown
<1>1. loaded = TRUE
    BY Zenon DEF SettingInv, StoredFit
<1>2. ~U!saving => ~U!At("reading") /\ ~U!At("done")
    BY DEF U!saving, U!At
<1> QED
    BY <1>1, <1>2 DEF SettingInv, StoredFit, WritesFit

LEMMA EditorStaysFit == ASSUME SettingInv PROVE U!EditorFits
<1> SUFFICES ASSUME editor # None
             PROVE  IF editor.isNew THEN ~U!Has(value, editor.id) /\ ~U!atLimit
                    ELSE U!Has(value, editor.id)
    BY DEF U!EditorFits
<1>1. Fits(editor, value) /\ setting = "presets"
    BY DEF SettingInv, EditorFit
<1>2. Len(value) \in Nat
    BY <1>1 DEF SettingInv, StoredFit, U!Values
<1> QED
    BY <1>1, <1>2, SettingConstants DEF Fits, U!atLimit

LEMMA DraftStays ==
    ASSUME SettingInv, U!Next, submitted # None, submitted' = None, editor # None, editor' = None
    PROVE  \E i \in DOMAIN U!Current : U!Current[i] = submitted
<1>1. CASE U!Confirmed
    <2>1. U!At("done") /\ writes[1].value = U!Current
        BY <1>1 DEF U!Confirmed, SettingInv, WritesFit
    <2> QED
        BY <2>1 DEF SettingInv, EditorFit, Holds
<1>2. CASE U!NotConfirmed
    BY <1>2 DEF U!NotConfirmed, U!closeAfterSave
<1>3. ASSUME NEW definition \in Definitions, U!save(definition) PROVE FALSE
    BY <1>3, saveSetting
<1>4. ASSUME submitted' = submitted PROVE FALSE
    BY <1>4
<1>5. CASE U!AnswerLoad \/ U!FailLoad \/ U!ReceiveLoad \/ U!StartWrite \/ U!Perform
           \/ U!ReadDefaults \/ U!FailWrite \/ U!closeEditor \/ U!restoreDefaults
    BY <1>4, <1>5 DEF U!AnswerLoad, U!FailLoad, U!ReceiveLoad, U!StartWrite, U!Perform,
       U!ReadDefaults, U!FailWrite, U!closeEditor, U!restoreDefaults
<1>6. CASE \/ \E id \in PresetIds : U!startAdd(id)
           \/ \E i \in 1..MaxPresets : U!startEdit(i) \/ U!remove(i) \/ \E j \in 1..MaxPresets : U!move(i, j)
           \/ \E v \in DensityViews, d \in Densities : U!saveDensity(v, d)
    BY <1>4, <1>6 DEF U!startAdd, U!startEdit, U!remove, U!move, U!saveDensity
<1> QED
    BY <1>1, <1>2, <1>3, <1>5, <1>6 DEF U!Next

LEMMA DensitiesStay ==
    ASSUME SettingInv, U!Next, setting = "densities", faults = 0, stored' # stored
    PROVE  \E v \in DensityViews, d \in Densities : stored' = U!WithDensity(U!Current, v, d)
<1>1. CASE U!Perform
    <2>1. U!At("sent") /\ writes # << >> /\ writes[1].phase = "sent"
        BY <1>1 DEF U!Perform, U!At, U!First
    <2>2. writes[1].kind = "put"
        <3>1. writes[1] \in Writes /\ QueueFit(writes) /\ 1 \in 1..Len(writes)
            BY <2>1, FirstIs DEF SettingInv, WritesFit
        <3> QED
            BY <2>1, <3>1, WritesAre DEF QueueFit
    <2>3. stored' = writes[1].value
        BY <1>1, <2>2 DEF U!Perform, U!First
    <2> QED
        BY <2>1, <2>3 DEF SettingInv, WritesFit
<1>2. ASSUME stored' = stored PROVE FALSE
    BY <1>2
<1>3. CASE U!AnswerLoad \/ U!FailLoad \/ U!ReceiveLoad \/ U!StartWrite
           \/ U!ReadDefaults \/ U!FailWrite \/ U!closeEditor \/ U!restoreDefaults
           \/ U!Confirmed \/ U!NotConfirmed
    BY <1>2, <1>3 DEF U!AnswerLoad, U!FailLoad, U!ReceiveLoad, U!StartWrite,
       U!ReadDefaults, U!FailWrite, U!closeEditor, U!restoreDefaults, U!Page,
       U!Confirmed, U!NotConfirmed
<1>4. CASE \/ \E id \in PresetIds : U!startAdd(id)
           \/ \E i \in 1..MaxPresets : U!startEdit(i) \/ U!remove(i) \/ \E j \in 1..MaxPresets : U!move(i, j)
           \/ \E d \in Definitions : U!save(d)
           \/ \E v \in DensityViews, d \in Densities : U!saveDensity(v, d)
    BY <1>2, <1>4 DEF U!startAdd, U!startEdit, U!remove, U!move, U!saveDensity, U!save, U!Page
<1> QED
    BY <1>1, <1>3, <1>4 DEF U!Next

-----------------------------------------------------------------------------
(* The export dialog. *)

LEMMA ExportConstants ==
    /\ "pdf" \in Formats /\ MaxLevels \in Nat /\ MaxLevels >= 1 /\ MaxUses \in Nat
    /\ None \notin Nat /\ None \notin SUBSET Codes /\ None \notin X!Dialog
BY PartsFit DEF X!ConstantsFit

Inputs == [options : X!Options, report : Nat] \cup {None}
Streams == [phase : {"idle", "waiting", "rendering", "dead"}, input : Inputs, of : Inputs,
            pending : BOOLEAN]

\* The page: a limit to tax sections is only there with the sections.
PageFit ==
    /\ view \in X!Views /\ levels \in 1..MaxLevels /\ sections \in X!Limits
    /\ report \in Nat
    /\ remembered \in [X!Views -> X!Options \cup {None}]
    /\ \A v \in X!Views : remembered[v] # None /\ remembered[v].taxSections # None =>
        v # "list" /\ sections # None

\* The dialog, which is that of the tab that is shown.
DialogIs(d) ==
    d # None =>
        /\ d \in X!Dialog /\ d.view = view
        /\ d.taxSections # None => view # "list" /\ sections # None

\* The preview: one that is not pending is of the stream's last input.
StreamFit ==
    /\ stream \in Streams
    /\ dialog = None => stream = X!Idle /\ preview = None
    /\ stream.phase = "rendering" => stream.of = stream.input
    /\ stream.phase # "idle" => stream.pending = TRUE
    /\ stream.pending = FALSE => preview = stream.input
    /\ urls = X!Live(preview)

\* The file of an open dialog is the one it was asked for.
JobFit ==
    /\ job.phase \in {"none", "writing"}
    /\ job.phase = "none" => job = X!NoJob
    /\ job.phase = "writing" =>
        /\ job = [phase |-> "writing", input |-> job.input, destroyed |-> job.destroyed]
        /\ job.destroyed \in BOOLEAN
        /\ job.destroyed = FALSE =>
            dialog # None /\ dialog.busy = TRUE /\ job.input.options.taxSections # {}

ExportInv == PageFit /\ DialogIs(dialog) /\ StreamFit /\ JobFit

LEMMA ClampIs ==
    ASSUME NEW depth \in X!Depths, NEW max, max = None \/ max \in 1..MaxLevels
    PROVE  /\ X!clampDepth(depth, max) \in X!Depths
           /\ max # None => X!clampDepth(depth, max) \in 1..max \cup {0}
BY ExportConstants DEF X!clampDepth, X!Depths, X!All

\* The options of a dialog, within what there is by now.
LEMMA OptionsAre ==
    ASSUME PageFit, DialogIs(dialog), dialog # None
    PROVE  /\ X!options \in X!Options
           /\ view # "list" => X!options.depth \in X!depthSteps
           /\ X!options.taxSections # None =>
                view # "list" /\ sections # None /\ X!options.taxSections \subseteq sections
           /\ X!previewInput \in Inputs
<1>1. /\ dialog.view = view /\ dialog.format \in Formats /\ dialog.depth \in X!Depths
      /\ dialog.taxSections \in X!Limits
      /\ dialog.taxSections # None => view # "list" /\ sections # None
    BY DEF DialogIs, X!Dialog
<1> DEFINE max == X!maxDepth(view)
<1>2. max = IF view = "list" THEN None ELSE levels
    BY DEF X!maxDepth
<1>3. max = None \/ max \in 1..MaxLevels
    BY <1>2 DEF PageFit
<1>4. view # "list" => max = levels /\ max # None
    BY <1>2, ExportConstants DEF PageFit
<1> HIDE DEF max
<1>5. /\ X!clampDepth(dialog.depth, max) \in X!Depths
      /\ max # None => X!clampDepth(dialog.depth, max) \in 1..max \cup {0}
    BY <1>1, <1>3, ClampIs
<1>6. /\ X!options.format = dialog.format
      /\ X!options.depth = X!clampDepth(dialog.depth, max)
      /\ X!options.taxSections =
            IF dialog.taxSections = None \/ X!choices(view) = None THEN dialog.taxSections
            ELSE dialog.taxSections \cap X!choices(view)
      /\ X!options = [format |-> X!options.format, depth |-> X!options.depth,
                      taxSections |-> X!options.taxSections]
    BY <1>1 DEF X!options, max
<1>7. X!options.taxSections \in X!Limits
      /\ (X!options.taxSections # None =>
            view # "list" /\ sections # None /\ X!options.taxSections \subseteq sections)
    <2>1. CASE dialog.taxSections = None
        BY <2>1, <1>6 DEF X!Limits
    <2>2. CASE dialog.taxSections # None
        <3>1. X!choices(view) = sections /\ sections # None /\ view # "list"
            BY <2>2, <1>1 DEF X!choices
        <3>2. X!options.taxSections = dialog.taxSections \cap sections
            BY <2>2, <3>1, <1>6
        <3>3. dialog.taxSections \in SUBSET Codes
            BY <2>2, <1>1 DEF X!Limits
        <3> QED
            BY <3>1, <3>2, <3>3 DEF X!Limits
    <2> QED
        BY <2>1, <2>2
<1>8. X!options \in X!Options
    BY <1>1, <1>5, <1>6, <1>7 DEF X!Options
<1>9. view # "list" => X!options.depth \in X!depthSteps
    BY <1>4, <1>5, <1>6 DEF X!depthSteps, X!All
<1>10. X!previewInput \in Inputs
    BY <1>8 DEF X!previewInput, Inputs, PageFit
<1> QED
    BY <1>7, <1>8, <1>9, <1>10

LEMMA IdleIs == X!Idle \in Streams /\ X!Idle.phase = "idle" /\ X!Idle.pending = TRUE
BY DEF X!Idle, Streams, Inputs

LEMMA InitExport == X!Init => ExportInv
<1> SUFFICES ASSUME X!Init PROVE ExportInv
    OBVIOUS
<1>1. PageFit
    BY ExportConstants DEF X!Init, PageFit, X!Limits
<1>2. DialogIs(dialog)
    BY DEF X!Init, DialogIs
<1>3. StreamFit
    BY IdleIs DEF X!Init, StreamFit, X!Live, X!IsPdf
<1>4. JobFit
    BY DEF X!Init, JobFit, X!NoJob
<1> QED
    BY <1>1, <1>2, <1>3, <1>4 DEF ExportInv

\* What stays when the dialog closes or there is none.
LEMMA LiveIs == \A shown : X!Live(shown) \in {0, 1}
BY DEF X!Live

LEMMA ShowIs ==
    ASSUME NEW next, urls = X!Live(preview), X!showPreview(next)
    PROVE  preview' = next /\ urls' = X!Live(next)
<1>1. X!Live(preview) \in {0, 1} /\ X!Live(next) \in {0, 1}
    BY LiveIs
<1> QED
    BY <1>1 DEF X!showPreview

LEMMA openExport == ExportInv /\ X!open => ExportInv'
<1> SUFFICES ASSUME ExportInv, X!open PROVE ExportInv'
    OBVIOUS
<1> DEFINE initial == IF remembered[view] # None THEN remembered[view] ELSE X!defaultOptions(view)
           max == X!maxDepth(view)
<1>1. /\ dialog = None /\ view \in X!Views
      /\ UNCHANGED <<view, levels, sections, report, stream, preview, urls, job, remembered, uses>>
      /\ dialog' = [view |-> view, format |-> initial.format, taxSections |-> initial.taxSections,
                     depth |-> X!clampDepth(initial.depth, max), busy |-> FALSE]
    BY DEF X!open, ExportInv, PageFit
<1>2. max = None \/ max \in 1..MaxLevels
    BY DEF X!maxDepth, ExportInv, PageFit
<1>3. /\ initial.format \in Formats /\ initial.depth \in X!Depths
      /\ initial.taxSections \in X!Limits
      /\ initial.taxSections # None => view # "list" /\ sections # None
    <2>1. CASE remembered[view] # None
        <3>1. initial = remembered[view] /\ initial \in X!Options
            BY <1>1, <2>1 DEF ExportInv, PageFit
        <3> HIDE DEF initial
        <3> QED
            BY <1>1, <2>1, <3>1 DEF ExportInv, PageFit, X!Options
    <2>2. CASE remembered[view] = None
        <3>1. initial = X!defaultOptions(view)
            BY <2>2
        <3>2. X!clampDepth(max, max) \in X!Depths \/ max = None
            BY <1>2, ClampIs DEF X!Depths
        <3>3. 0 \in X!Depths
            BY ExportConstants DEF X!Depths
        <3> HIDE DEF initial, max
        <3> QED
            BY <3>1, <3>2, <3>3, ExportConstants DEF X!defaultOptions, max, X!Limits, X!All
    <2> QED
        BY <2>1, <2>2
<1> HIDE DEF initial, max
<1>4. X!clampDepth(initial.depth, max) \in X!Depths
    BY <1>2, <1>3, ClampIs
<1>5. DialogIs(dialog)'
    BY <1>1, <1>3, <1>4 DEF DialogIs, X!Dialog
<1>6. PageFit' /\ StreamFit' /\ JobFit'
    BY <1>1 DEF ExportInv, PageFit, StreamFit, JobFit
<1> QED
    BY <1>5, <1>6 DEF ExportInv

LEMMA FlushExport == ExportInv /\ X!Flush => ExportInv'
<1> SUFFICES ASSUME ExportInv, X!Flush PROVE ExportInv'
    OBVIOUS
<1>1. /\ dialog # None
      /\ remembered' = [remembered EXCEPT ![view] = X!options]
      /\ stream' = IF stream.phase = "dead" THEN [stream EXCEPT !.input = X!previewInput]
                    ELSE [phase |-> "waiting", input |-> X!previewInput, of |-> None, pending |-> TRUE]
      /\ UNCHANGED <<view, levels, sections, report, dialog, preview, urls, job, uses>>
    BY DEF X!Flush
<1>2. /\ X!options \in X!Options /\ X!previewInput \in Inputs
      /\ X!options.taxSections # None => view # "list" /\ sections # None
    BY <1>1, OptionsAre DEF ExportInv
<1>3. PageFit'
    BY <1>1, <1>2 DEF ExportInv, PageFit
<1>4. StreamFit'
    <2>1. CASE stream.phase = "dead"
        <3>1. stream' = [stream EXCEPT !.input = X!previewInput] /\ stream \in Streams
              /\ stream.pending = TRUE
            BY <1>1, <2>1 DEF ExportInv, StreamFit
        <3>2. stream' \in Streams /\ stream'.phase = "dead" /\ stream'.pending = TRUE
            BY <3>1, <1>2, <2>1 DEF Streams
        <3> QED
            BY <1>1, <3>2 DEF ExportInv, StreamFit
    <2>2. CASE stream.phase # "dead"
        <3>1. stream' \in Streams /\ stream'.phase = "waiting" /\ stream'.pending = TRUE
            BY <1>1, <1>2, <2>2 DEF Streams, Inputs
        <3> QED
            BY <1>1, <3>1 DEF ExportInv, StreamFit
    <2> QED
        BY <2>1, <2>2
<1>5. DialogIs(dialog)' /\ JobFit'
    BY <1>1 DEF ExportInv, DialogIs, JobFit
<1> QED
    BY <1>3, <1>4, <1>5 DEF ExportInv

LEMMA renderPreviewExport == ExportInv /\ X!renderPreview => ExportInv'
<1> SUFFICES ASSUME ExportInv, X!renderPreview PROVE ExportInv'
    OBVIOUS
<1>1. /\ stream.phase = "waiting" /\ stream \in Streams /\ dialog # None /\ stream.pending = TRUE
      /\ stream' = [stream EXCEPT !.phase = "rendering", !.of = stream.input]
      /\ UNCHANGED <<view, levels, sections, report, dialog, preview, urls, job, remembered, uses>>
    BY IdleIs DEF X!renderPreview, ExportInv, StreamFit
<1>2. /\ stream' \in Streams /\ stream'.phase = "rendering" /\ stream'.of = stream'.input
      /\ stream'.pending = TRUE
    BY <1>1 DEF Streams
<1>3. StreamFit'
    BY <1>1, <1>2 DEF ExportInv, StreamFit
<1>4. PageFit' /\ DialogIs(dialog)' /\ JobFit'
    BY <1>1 DEF ExportInv, PageFit, DialogIs, JobFit
<1> QED
    BY <1>3, <1>4 DEF ExportInv

LEMMA RenderedExport == ExportInv /\ X!Rendered => ExportInv'
<1> SUFFICES ASSUME ExportInv, X!Rendered PROVE ExportInv'
    OBVIOUS
<1>1. /\ stream.phase = "rendering" /\ stream \in Streams /\ dialog # None
      /\ stream.of = stream.input
      /\ stream' = [stream EXCEPT !.phase = "idle", !.of = None, !.pending = FALSE]
      /\ UNCHANGED <<view, levels, sections, report, dialog, job, remembered, uses>>
    BY IdleIs DEF X!Rendered, ExportInv, StreamFit
<1>2. preview' = stream.of /\ urls' = X!Live(preview')
    BY ShowIs DEF X!Rendered, ExportInv, StreamFit
<1>3. /\ stream' \in Streams /\ stream'.phase = "idle" /\ stream'.input = stream.input
    BY <1>1 DEF Streams, Inputs
<1>4. StreamFit'
    BY <1>1, <1>2, <1>3 DEF StreamFit, X!Live, X!IsPdf
<1>5. PageFit' /\ DialogIs(dialog)' /\ JobFit'
    BY <1>1 DEF ExportInv, PageFit, DialogIs, JobFit
<1> QED
    BY <1>4, <1>5 DEF ExportInv

LEMMA RenderFailsExport == ExportInv /\ X!RenderFails => ExportInv'
<1> SUFFICES ASSUME ExportInv, X!RenderFails PROVE ExportInv'
    OBVIOUS
<1>1. /\ stream.phase = "rendering" /\ stream \in Streams /\ dialog # None /\ stream.pending = TRUE
      /\ stream' = [stream EXCEPT !.phase = "dead", !.of = None]
      /\ UNCHANGED <<view, levels, sections, report, dialog, preview, urls, job, remembered, uses>>
    BY IdleIs DEF X!RenderFails, ExportInv, StreamFit
<1>2. /\ stream' \in Streams /\ stream'.phase = "dead" /\ stream'.pending = TRUE
    BY <1>1 DEF Streams, Inputs
<1>3. StreamFit'
    BY <1>1, <1>2 DEF ExportInv, StreamFit
<1>4. PageFit' /\ DialogIs(dialog)' /\ JobFit'
    BY <1>1 DEF ExportInv, PageFit, DialogIs, JobFit
<1> QED
    BY <1>3, <1>4 DEF ExportInv

LEMMA ChosenExport ==
    ASSUME ExportInv, dialog # None, NEW next \in X!Dialog, X!Choose(next),
           next.view = view, next.busy = dialog.busy,
           next.taxSections # None => view # "list" /\ sections # None
    PROVE  ExportInv'
<1>1. /\ dialog' = next /\ next # None
      /\ UNCHANGED <<view, levels, sections, report, stream, preview, urls, job, remembered>>
    BY ExportConstants DEF X!Choose
<1>2. PageFit' /\ DialogIs(dialog)' /\ StreamFit' /\ JobFit'
    BY <1>1 DEF ExportInv, PageFit, DialogIs, StreamFit, JobFit
<1> QED
    BY <1>2 DEF ExportInv

LEMMA DialogHas ==
    ASSUME ExportInv, dialog # None
    PROVE  /\ dialog \in X!Dialog /\ dialog.view = view
           /\ dialog.taxSections # None => view # "list" /\ sections # None
BY DEF ExportInv, DialogIs

LEMMA SetFormatExport == ASSUME NEW format \in Formats, ExportInv, X!SetFormat(format)
                         PROVE  ExportInv'
<1> DEFINE next == [dialog EXCEPT !.format = format]
<1>1. dialog # None /\ X!Choose(next)
    BY DEF X!SetFormat
<1>2. /\ next \in X!Dialog /\ next.view = dialog.view /\ next.busy = dialog.busy
      /\ next.taxSections = dialog.taxSections
    BY <1>1, DialogHas DEF X!Dialog
<1> HIDE DEF next
<1> QED
    BY <1>1, <1>2, DialogHas, ChosenExport

LEMMA onDepthInputExport == ASSUME NEW step \in X!Depths, ExportInv, X!onDepthInput(step)
                            PROVE  ExportInv'
<1> DEFINE next == [dialog EXCEPT !.depth = step]
<1>1. dialog # None /\ X!Choose(next)
    BY DEF X!onDepthInput
<1>2. /\ next \in X!Dialog /\ next.view = dialog.view /\ next.busy = dialog.busy
      /\ next.taxSections = dialog.taxSections
    BY <1>1, DialogHas DEF X!Dialog
<1> HIDE DEF next
<1> QED
    BY <1>1, <1>2, DialogHas, ChosenExport

\* A limit to tax sections that the dialog gets while the sections are there.
LEMMA LimitExport ==
    ASSUME ExportInv, dialog # None, NEW limit \in X!Limits, X!choices(dialog.view) # None,
           X!Choose([dialog EXCEPT !.taxSections = limit])
    PROVE  ExportInv'
<1> DEFINE next == [dialog EXCEPT !.taxSections = limit]
<1>1. view # "list" /\ sections # None
    BY DialogHas DEF X!choices
<1>2. /\ next \in X!Dialog /\ next.view = dialog.view /\ next.busy = dialog.busy
    BY DialogHas DEF X!Dialog
<1> HIDE DEF next
<1> QED
    BY <1>1, <1>2, DialogHas, ChosenExport DEF next

LEMMA onTaxOnlyChangeExport ==
    ASSUME NEW checked \in BOOLEAN, ExportInv, X!onTaxOnlyChange(checked)
    PROVE  ExportInv'
<1> DEFINE limit == IF checked THEN X!choices(dialog.view) ELSE None
<1>1. limit \in X!Limits
    BY DEF X!choices, ExportInv, PageFit, X!Limits
<1> HIDE DEF limit
<1> QED
    BY <1>1, LimitExport DEF X!onTaxOnlyChange, limit

LEMMA onTaxSectionChangeExport ==
    ASSUME NEW code \in Codes, ExportInv, X!onTaxSectionChange(code)
    PROVE  ExportInv'
<1> DEFINE limit == IF code \in X!options.taxSections THEN X!options.taxSections \ {code}
                    ELSE X!options.taxSections \cup {code}
<1>1. dialog # None /\ X!options.taxSections # None /\ X!choices(dialog.view) # None
      /\ X!Choose([dialog EXCEPT !.taxSections = limit])
    BY DEF X!onTaxSectionChange
<1>2. X!options.taxSections \in SUBSET Codes
    BY <1>1, OptionsAre DEF ExportInv, X!Options, X!Limits
<1>3. limit \in X!Limits
    BY <1>2 DEF X!Limits
<1> HIDE DEF limit
<1> QED
    BY <1>1, <1>3, LimitExport

\* A dialog that closes takes its preview with it, and its file if it is being written.
LEMMA ClosedFits ==
    ASSUME ExportInv, dialog' = None, stream' = X!Idle, X!showPreview(None),
           job' = X!NoJob \/ (job.phase = "none" /\ job' = job)
           \/ (job.phase # "none" /\ job' = [job EXCEPT !.destroyed = TRUE])
    PROVE  DialogIs(dialog)' /\ StreamFit' /\ JobFit'
<1>1. preview' = None /\ urls' = X!Live(preview')
    BY ShowIs DEF ExportInv, StreamFit
<1>2. StreamFit'
    BY <1>1, IdleIs DEF StreamFit
<1>3. JobFit'
    <2>1. CASE job' = X!NoJob
        BY <2>1 DEF JobFit, X!NoJob
    <2>2. CASE job.phase = "none" /\ job' = job
        BY <2>2 DEF JobFit, ExportInv
    <2>3. CASE job.phase # "none" /\ job' = [job EXCEPT !.destroyed = TRUE]
        <3>1. job = [phase |-> "writing", input |-> job.input, destroyed |-> job.destroyed]
            BY <2>3 DEF JobFit, ExportInv
        <3>2. job \in [phase : {"writing"}, input : {job.input}, destroyed : BOOLEAN]
            BY <2>3, <3>1 DEF JobFit, ExportInv
        <3>3. job' \in [phase : {"writing"}, input : {job.input}, destroyed : BOOLEAN]
              /\ job'.destroyed = TRUE
            BY <2>3, <3>2
        <3>4. /\ job' = [phase |-> "writing", input |-> job'.input, destroyed |-> job'.destroyed]
              /\ job'.input = job.input
            BY <3>3
        <3> QED
            BY <3>3, <3>4 DEF JobFit
    <2> QED
        BY <2>1, <2>2, <2>3
<1>4. DialogIs(dialog)'
    BY DEF DialogIs
<1> QED
    BY <1>2, <1>3, <1>4

LEMMA cancelExport == ExportInv /\ X!cancel => ExportInv'
<1> SUFFICES ASSUME ExportInv, X!cancel PROVE ExportInv'
    OBVIOUS
<1>1. DialogIs(dialog)' /\ StreamFit' /\ JobFit'
    BY ClosedFits DEF X!cancel, X!Close
<1>2. PageFit'
    BY DEF X!cancel, ExportInv, PageFit
<1> QED
    BY <1>1, <1>2 DEF ExportInv

LEMMA downloadExport == ExportInv /\ X!download => ExportInv'
<1> SUFFICES ASSUME ExportInv, X!download PROVE ExportInv'
    OBVIOUS
<1>1. /\ dialog # None /\ ~X!exportBlocked
      /\ dialog' = [dialog EXCEPT !.busy = TRUE]
      /\ job' = [phase |-> "writing", input |-> X!previewInput, destroyed |-> FALSE]
      /\ UNCHANGED <<view, levels, sections, report, stream, preview, urls, remembered, uses>>
    BY DEF X!download
<1>2. /\ dialog' \in X!Dialog /\ dialog'.view = dialog.view /\ dialog'.busy = TRUE
      /\ dialog'.taxSections = dialog.taxSections
    BY <1>1, DialogHas DEF X!Dialog
<1>3. dialog' # None
    BY <1>2, ExportConstants
<1>4. job'.input.options.taxSections # {}
    BY <1>1 DEF X!exportBlocked, X!previewInput
<1>5. DialogIs(dialog)'
    BY <1>1, <1>2, DialogHas DEF DialogIs
<1>6. JobFit'
    BY <1>1, <1>2, <1>3, <1>4 DEF JobFit
<1>7. StreamFit' /\ PageFit'
    BY <1>1, <1>3 DEF ExportInv, StreamFit, PageFit
<1> QED
    BY <1>5, <1>6, <1>7 DEF ExportInv

LEMMA WrittenExport == ExportInv /\ X!Written => ExportInv'
<1> SUFFICES ASSUME ExportInv, X!Written PROVE ExportInv'
    OBVIOUS
<1>1. /\ job.phase = "writing" /\ job' = X!NoJob
      /\ UNCHANGED <<view, levels, sections, report, remembered, uses>>
    BY DEF X!Written
<1>2. PageFit'
    BY <1>1 DEF ExportInv, PageFit
<1>3. CASE job.destroyed
    <2>1. UNCHANGED <<dialog, stream, preview, urls>>
        BY <1>3 DEF X!Written
    <2> QED
        BY <1>1, <1>2, <2>1 DEF ExportInv, DialogIs, StreamFit, JobFit, X!NoJob
<1>4. CASE ~job.destroyed
    <2>1. dialog' = None /\ stream' = X!Idle /\ X!showPreview(None)
        BY <1>4 DEF X!Written
    <2> QED
        BY <1>1, <1>2, <2>1, ClosedFits DEF ExportInv
<1> QED
    BY <1>3, <1>4

LEMMA WriteFailsExport == ExportInv /\ X!WriteFails => ExportInv'
<1> SUFFICES ASSUME ExportInv, X!WriteFails PROVE ExportInv'
    OBVIOUS
<1>1. /\ job.phase = "writing" /\ job' = X!NoJob
      /\ dialog' = IF job.destroyed THEN dialog ELSE [dialog EXCEPT !.busy = FALSE]
      /\ UNCHANGED <<view, levels, sections, report, stream, preview, urls, remembered, uses>>
    BY DEF X!WriteFails
<1>2. JobFit' /\ PageFit'
    BY <1>1 DEF ExportInv, PageFit, JobFit, X!NoJob
<1>3. CASE dialog' = dialog
    BY <1>1, <1>2, <1>3 DEF ExportInv, DialogIs, StreamFit
<1>4. CASE dialog # None /\ dialog' = [dialog EXCEPT !.busy = FALSE]
    <2>1. /\ dialog' \in X!Dialog /\ dialog'.view = dialog.view
          /\ dialog'.taxSections = dialog.taxSections
        BY <1>4, DialogHas DEF X!Dialog
    <2>2. dialog' # None
        BY <2>1, ExportConstants
    <2>3. DialogIs(dialog)'
        BY <1>1, <1>4, <2>1, DialogHas DEF DialogIs
    <2>4. StreamFit'
        BY <1>1, <2>2 DEF ExportInv, StreamFit
    <2> QED
        BY <1>2, <2>3, <2>4 DEF ExportInv
<1>5. job.destroyed \in BOOLEAN /\ (job.destroyed = FALSE => dialog # None)
    BY <1>1 DEF ExportInv, JobFit
<1> QED
    BY <1>1, <1>3, <1>4, <1>5

LEMMA SwitchTabExport == ExportInv /\ X!SwitchTab => ExportInv'
<1> SUFFICES ASSUME ExportInv, X!SwitchTab PROVE ExportInv'
    OBVIOUS
<1>1. DialogIs(dialog)' /\ StreamFit' /\ JobFit'
    BY ClosedFits DEF X!SwitchTab, X!Close
<1>2. PageFit'
    BY DEF X!SwitchTab, ExportInv, PageFit
<1> QED
    BY <1>1, <1>2 DEF ExportInv

LEMMA ChangeReportExport == ASSUME NEW depth \in 1..MaxLevels, ExportInv, X!ChangeReport(depth)
                            PROVE  ExportInv'
<1>1. /\ report' = report + 1 /\ levels' = depth
      /\ UNCHANGED <<view, sections, dialog, stream, preview, urls, job, remembered>>
    BY DEF X!ChangeReport
<1>2. PageFit' /\ DialogIs(dialog)' /\ StreamFit' /\ JobFit'
    BY <1>1 DEF ExportInv, PageFit, DialogIs, StreamFit, JobFit
<1> QED
    BY <1>2 DEF ExportInv

LEMMA SectionsExport ==
    ASSUME NEW codes \in SUBSET Codes, ExportInv, X!LoadSections(codes) \/ X!EditSections(codes)
    PROVE  ExportInv'
<1>1. /\ sections' = codes /\ codes # None
      /\ UNCHANGED <<view, levels, report, dialog, stream, preview, urls, job, remembered>>
    BY ExportConstants DEF X!LoadSections, X!EditSections
<1>2. PageFit' /\ DialogIs(dialog)' /\ StreamFit' /\ JobFit'
    BY <1>1 DEF ExportInv, PageFit, DialogIs, StreamFit, JobFit, X!Limits
<1> QED
    BY <1>2 DEF ExportInv

LEMMA NextExport == ExportInv /\ [X!Next]_X!vars => ExportInv'
<1>1. CASE X!Next
    BY <1>1, openExport, FlushExport, renderPreviewExport, RenderedExport, RenderFailsExport,
       SetFormatExport, onDepthInputExport, onTaxOnlyChangeExport, onTaxSectionChangeExport,
       cancelExport, downloadExport, WrittenExport, WriteFailsExport, SwitchTabExport,
       ChangeReportExport, SectionsExport DEF X!Next
<1>2. CASE ExportInv /\ UNCHANGED X!vars
    BY <1>2 DEF X!vars, ExportInv, PageFit, DialogIs, StreamFit, JobFit
<1> QED
    BY <1>1, <1>2

LEMMA ExportTypes == ASSUME ExportInv PROVE X!TypeOK
<1>1. dialog # None => dialog \in X!Dialog /\ dialog.view = view /\ X!options \in X!Options
    BY DialogHas, OptionsAre DEF ExportInv
<1>2. stream.phase \in {"idle", "waiting", "rendering", "dead"}
    BY DEF ExportInv, StreamFit, Streams
<1>3. urls \in Nat
    <2>1. urls = X!Live(preview) /\ X!Live(preview) \in {0, 1}
        BY LiveIs DEF ExportInv, StreamFit
    <2> QED
        BY <2>1
<1> QED
    BY <1>1, <1>2, <1>3 DEF ExportInv, PageFit, JobFit, X!TypeOK

LEMMA PreviewIsOfChoices == ASSUME ExportInv PROVE X!PreviewOfChoices
<1>1. stream.pending \in BOOLEAN
    BY DEF ExportInv, StreamFit, Streams
<1> QED
    BY <1>1 DEF ExportInv, StreamFit, X!PreviewOfChoices

LEMMA UrlsAreRevoked == ASSUME ExportInv PROVE X!UrlsRevoked
BY DEF ExportInv, StreamFit, X!UrlsRevoked, X!Live, X!IsPdf

LEMMA ChoicesAreOnOffer == ASSUME ExportInv PROVE X!ChoicesOnOffer
BY OptionsAre, DialogHas DEF ExportInv, X!ChoicesOnOffer

LEMMA FileStays ==
    ASSUME ExportInv, X!HandsOver
    PROVE  dialog # None /\ dialog.busy /\ job.input.options.taxSections # {}
<1>1. job.phase = "writing" /\ job.destroyed \in BOOLEAN /\ ~job.destroyed
    BY DEF ExportInv, JobFit, X!HandsOver
<1>2. job.destroyed = FALSE
    BY <1>1
<1> QED
    BY <1>1, <1>2 DEF ExportInv, JobFit

-----------------------------------------------------------------------------
(* The tables. *)

LEMMA FiniteRows == \A rs : D!IsFiniteSet(rs) <=> IsFiniteSet(rs)
BY Zenon DEF IsFiniteSet, D!IsFiniteSet

LEMMA SizeOfRows == \A rs : D!Cardinality(rs) = Cardinality(rs)
BY Zenon DEF Cardinality, D!Cardinality, IsFiniteSet, D!IsFiniteSet

LEMMA TableConstants ==
    /\ RowIds \subseteq Nat /\ IsFiniteSet(RowIds) /\ Selectable \subseteq RowIds
    /\ \A r \in RowIds : Key[r] = None \/ Key[r] \in Nat
    /\ \A r \in RowIds : Parent[r] \in RowIds \cup {None}
    /\ \A rs \in SUBSET RowIds : rs # {} => \E r \in rs : Parent[r] \notin rs
    /\ Filters \subseteq SUBSET RowIds
    /\ None \notin RowIds
BY PartsFit, FiniteRows DEF D!ConstantsFit

\* A rendered table shows the rows that are bound.
RowsFit ==
    /\ tree \in BOOLEAN /\ dirty \in BOOLEAN /\ order \in {1, -1}
    /\ bound \subseteq RowIds /\ rendered \subseteq RowIds
    /\ typed \in Filters \cup {None} /\ filtered \in {None} \cup SUBSET RowIds
    /\ anchor \in RowIds \cup {None}
    /\ dirty = FALSE => bound = rendered

SelectionFit == selected \subseteq kept /\ kept \subseteq RowIds

MenuFit ==
    menu # None =>
        /\ menu \in [row : RowIds, selectedRows : SUBSET Selectable]
        /\ dirty = FALSE => menu.selectedRows \subseteq selected

TableInv == RowsFit /\ SelectionFit /\ MenuFit

LEMMA InitTable == D!Init => TableInv
BY TableConstants DEF D!Init, TableInv, RowsFit, SelectionFit, MenuFit

LEMMA BindTable == ASSUME NEW rs \in SUBSET RowIds, TableInv, D!Bind(rs) PROVE TableInv'
BY DEF D!Bind, TableInv, RowsFit, SelectionFit, MenuFit

LEMMA ClearTable == TableInv /\ D!ClearSelection => TableInv'
BY DEF D!ClearSelection, D!view, TableInv, RowsFit, SelectionFit, MenuFit

LEMMA QuickFilterTable ==
    ASSUME NEW filter \in Filters \cup {None}, TableInv, D!applyQuickFilter(filter)
    PROVE  TableInv'
BY DEF D!applyQuickFilter, TableInv, RowsFit, SelectionFit, MenuFit

LEMMA PassingIs ==
    ASSUME NEW rs \in SUBSET RowIds
    PROVE  D!Passing(rs) \in {None} \cup SUBSET RowIds
BY DEF D!Passing

LEMMA FilterTable == TableInv /\ D!Filter => TableInv'
<1> SUFFICES ASSUME TableInv, D!Filter PROVE TableInv'
    OBVIOUS
<1>1. filtered' \in {None} \cup SUBSET RowIds
    BY PassingIs DEF D!Filter, TableInv, RowsFit
<1> QED
    BY <1>1 DEF D!Filter, TableInv, RowsFit, SelectionFit, MenuFit

LEMMA SortTable == TableInv /\ D!onSortFunction => TableInv'
BY DEF D!onSortFunction, TableInv, RowsFit, SelectionFit, MenuFit

LEMMA RenderTable == TableInv /\ D!Render => TableInv'
<1> SUFFICES ASSUME TableInv, D!Render PROVE TableInv'
    OBVIOUS
<1>1. filtered' \in {None} \cup SUBSET RowIds
    BY PassingIs DEF D!Render, TableInv, RowsFit
<1>2. RowsFit'
    BY <1>1 DEF D!Render, TableInv, RowsFit
<1>3. /\ selected' = selected \cap D!selectableIds'
      /\ kept' = kept \cap D!Displayed'
      /\ D!selectableIds' = D!Displayed' \cap Selectable
    BY DEF D!Render, D!Prune, D!selectableIds
<1>4. SelectionFit'
    BY <1>3 DEF TableInv, SelectionFit
<1>5. D!selectedRows' = D!selectableIds' \cap selected'
    BY DEF D!selectedRows
<1>6. D!selectedRows' \subseteq selected' /\ D!selectedRows' \in SUBSET Selectable
    BY <1>3, <1>5
<1>7. menu' = IF menu = None THEN None ELSE [menu EXCEPT !.selectedRows = D!selectedRows']
    BY DEF D!Render
<1>8. MenuFit'
    <2> DEFINE now == D!selectedRows'
    <2>1. now \subseteq selected' /\ now \in SUBSET Selectable
        BY <1>6
    <2>2. menu' = IF menu = None THEN None ELSE [menu EXCEPT !.selectedRows = now]
        BY <1>7
    <2> HIDE DEF now
    <2> QED
        BY <2>1, <2>2 DEF TableInv, MenuFit
<1> QED
    BY <1>2, <1>4, <1>8 DEF TableInv

LEMMA ChooseTable ==
    ASSUME NEW rs \in SUBSET RowIds, SelectionFit, D!Choose(rs) PROVE SelectionFit'
BY DEF D!Choose, SelectionFit

LEMMA HeaderTable == TableInv /\ D!onHeaderCheckboxClick => TableInv'
<1> SUFFICES ASSUME TableInv, D!onHeaderCheckboxClick PROVE TableInv'
    OBVIOUS
<1> DEFINE rs == IF D!headerChecked THEN selected \ D!selectableIds ELSE selected \cup D!selectableIds
<1>1. rs \in SUBSET RowIds
    BY TableConstants DEF D!selectableIds, TableInv, SelectionFit
<1>2. D!Choose(rs) /\ UNCHANGED <<tree, D!view, anchor, menu>>
    BY DEF D!onHeaderCheckboxClick
<1> HIDE DEF rs
<1>3. SelectionFit'
    BY <1>1, <1>2, ChooseTable DEF TableInv
<1> QED
    BY <1>2, <1>3 DEF D!Choose, D!view, TableInv, RowsFit, MenuFit

LEMMA ToggleTable ==
    ASSUME NEW r \in RowIds, NEW range \in BOOLEAN, TableInv, D!toggleRow(r, range)
    PROVE  TableInv'
<1> DEFINE rs == IF D!UsesRange(range) THEN selected \cup (D!Between(anchor, r) \cap Selectable)
                 ELSE D!SymDiff(selected, {r})
<1>1. rs \in SUBSET RowIds
    BY TableConstants DEF D!SymDiff, TableInv, SelectionFit
<1>2. D!Choose(rs) /\ UNCHANGED <<tree, D!view, menu>> /\ anchor' = r
    BY DEF D!toggleRow
<1> HIDE DEF rs
<1>3. SelectionFit'
    BY <1>1, <1>2, ChooseTable DEF TableInv
<1> QED
    BY <1>2, <1>3 DEF D!Choose, D!view, TableInv, RowsFit, MenuFit

LEMMA MenuTable == ASSUME NEW r \in RowIds, TableInv, D!onCellContextMenu(r) PROVE TableInv'
<1>1. /\ menu' = [row |-> r, selectedRows |-> D!selectedRows]
      /\ UNCHANGED <<tree, D!view, selected, anchor, dirty, kept>>
    BY DEF D!onCellContextMenu
<1>2. D!selectedRows \subseteq selected /\ D!selectedRows \in SUBSET Selectable
    BY DEF D!selectedRows, D!selectableIds
<1> QED
    BY <1>1, <1>2 DEF D!view, TableInv, RowsFit, SelectionFit, MenuFit

LEMMA AssignTable == TableInv /\ D!openAssign => TableInv'
BY DEF D!openAssign, D!view, TableInv, RowsFit, SelectionFit, MenuFit

LEMMA NextTable == TableInv /\ [D!Next]_D!vars => TableInv'
<1>1. CASE D!Next
    BY <1>1, BindTable, ClearTable, QuickFilterTable, FilterTable, SortTable, RenderTable,
       HeaderTable, ToggleTable, MenuTable, AssignTable DEF D!Next
<1>2. CASE TableInv /\ UNCHANGED D!vars
    BY <1>2 DEF D!vars, D!view, TableInv, RowsFit, SelectionFit, MenuFit
<1> QED
    BY <1>1, <1>2

LEMMA TableTypes == ASSUME TableInv PROVE D!TypeOK
<1>1. menu = None \/ (menu.row \in RowIds /\ menu.selectedRows \in SUBSET RowIds)
    BY TableConstants DEF TableInv, MenuFit
<1> QED
    BY <1>1 DEF TableInv, RowsFit, SelectionFit, D!TypeOK

LEMMA NothingHidden == ASSUME TableInv PROVE D!NothingHiddenStaysSelected
BY DEF TableInv, SelectionFit, D!NothingHiddenStaysSelected

LEMMA BulkIsSelected == ASSUME TableInv PROVE D!BulkActsOnSelection
<1>1. dirty \in BOOLEAN
    BY DEF TableInv, RowsFit
<1>2. menu # None => menu.selectedRows \subseteq Selectable
                     /\ (dirty = FALSE => menu.selectedRows \subseteq selected)
    BY DEF TableInv, MenuFit
<1> QED
    BY <1>1, <1>2 DEF D!BulkActsOnSelection, D!ActsOn

-----------------------------------------------------------------------------
(* Recursion and search. *)

LEMMA LeastNatural ==
    ASSUME NEW nats \in SUBSET Nat, nats # {}
    PROVE  \E low \in nats : \A k \in nats : low <= k
<1> DEFINE below == {ss \in Nat \X Nat : ss[1] < ss[2]}
<1>1. IsWellFoundedOn(below, Nat)
    BY NatLessThanWellFounded DEF OpToRel
<1>2. PICK low \in nats : \A k \in nats : ~(<<k, low>> \in below)
    <2> HIDE DEF below
    <2> QED
        BY <1>1, WFMin
<1>3. ASSUME NEW k \in nats PROVE low <= k
    <2>1. k \in Nat /\ low \in Nat
        OBVIOUS
    <2>2. <<k, low>> \in below <=> k < low
        BY <2>1
    <2> QED
        BY <1>2, <2>1, <2>2
<1> QED
    BY <1>3

\* A set of naturals that holds 0, and n + 1 with n, holds all.
LEMMA AllNaturals ==
    ASSUME NEW good \in SUBSET Nat, 0 \in good, \A n \in good : n + 1 \in good
    PROVE  \A n \in Nat : n \in good
<1> SUFFICES ASSUME Nat \ good # {} PROVE FALSE
    OBVIOUS
<1>1. PICK low \in Nat \ good : \A k \in Nat \ good : low <= k
    BY LeastNatural
<1>2. low - 1 \in Nat
    BY <1>1
<1>3. low - 1 \in good
    BY <1>1, <1>2
<1> QED
    BY <1>1, <1>3

\* A recursion that looks only at what ranks lower: step[x][f] is the value at x if f has the
\* values there are below.
IsRecursion(dom, val, rank, limit, step) ==
    /\ rank \in [dom -> Nat] /\ limit \in Nat /\ val # {}
    /\ step \in [dom -> [[dom -> val] -> val]]
    /\ \A x \in dom : rank[x] < limit
    /\ \A x \in dom : \A f, g \in [dom -> val] :
          (\A y \in dom : rank[y] < rank[x] => f[y] = g[y]) => step[x][f] = step[x][g]

LEMMA Recursion ==
    ASSUME NEW dom, NEW val, NEW rank, NEW limit, NEW step, IsRecursion(dom, val, rank, limit, step)
    PROVE  \E f \in [dom -> val] : \A x \in dom : f[x] = step[x][f]
<1> USE DEF IsRecursion
<1> DEFINE Solves(f, n) == \A x \in dom : rank[x] < n => f[x] = step[x][f]
           good == {n \in Nat : \E f \in [dom -> val] : Solves(f, n)}
<1>1. 0 \in good
    <2>1. PICK v \in val : TRUE
        OBVIOUS
    <2>2. [x \in dom |-> v] \in [dom -> val]
        OBVIOUS
    <2>3. \A x \in dom : ~(rank[x] < 0)
        OBVIOUS
    <2> QED
        BY <2>2, <2>3
<1>2. ASSUME NEW n \in good PROVE n + 1 \in good
    <2>1. PICK f \in [dom -> val] : Solves(f, n)
        OBVIOUS
    <2> DEFINE g == [x \in dom |-> step[x][f]]
    <2>2. g \in [dom -> val]
        OBVIOUS
    <2>3. ASSUME NEW x \in dom, rank[x] < n + 1 PROVE g[x] = step[x][g]
        <3>1. \A y \in dom : rank[y] < rank[x] => rank[y] < n
            BY <2>3
        <3>2. \A y \in dom : rank[y] < rank[x] => f[y] = g[y]
            BY <2>1, <3>1
        <3> HIDE DEF g
        <3>3. step[x][f] = step[x][g]
            BY <2>2, <3>2
        <3> QED
            BY <3>3 DEF g
    <2> HIDE DEF g
    <2>4. Solves(g, n + 1)
        BY <2>3
    <2> QED
        BY <2>2, <2>4
<1>3. limit \in good
    <2> HIDE DEF good
    <2>1. good \in SUBSET Nat
        BY DEF good
    <2> QED
        BY <1>1, <1>2, <2>1, AllNaturals
<1>4. PICK f \in [dom -> val] : Solves(f, limit)
    BY <1>3
<1> QED
    BY <1>4

\* A search that grows from a start among the elements of a set.
IsSearch(dom, start, grow) ==
    /\ start \in SUBSET dom /\ grow \in [SUBSET dom -> SUBSET dom]
    /\ grow[{}] = {} /\ \A s \in SUBSET dom : s \subseteq grow[s]

\* The rounds of a search that grows from a start, as often as there are elements.
IsRounds(f, dom, start, grow, n) ==
    /\ DOMAIN f = 0..n
    /\ f[0] = start
    /\ \A k \in 1..n : f[k - 1] \in SUBSET dom => f[k] = grow[f[k - 1]]

LEMMA RoundsExist ==
    ASSUME NEW dom, NEW start, NEW grow, IsSearch(dom, start, grow), NEW n \in Nat
    PROVE  \E f \in [0..n -> SUBSET dom] : f[0] = start /\ \A k \in 1..n : f[k] = grow[f[k - 1]]
<1> USE DEF IsSearch
<1> DEFINE val == SUBSET dom
           rank == [k \in 0..n |-> k]
           step == [k \in 0..n |-> [f \in [0..n -> val] |-> IF k = 0 THEN start ELSE grow[f[k - 1]]]]
<1>1. rank \in [0..n -> Nat] /\ \A x \in 0..n : rank[x] < n + 1
    OBVIOUS
<1>2. \A k \in 0..n : k # 0 => k - 1 \in 0..n
    OBVIOUS
<1>3. step \in [0..n -> [[0..n -> val] -> val]]
    BY <1>2
<1>4. ASSUME NEW x \in 0..n, NEW f \in [0..n -> val], NEW g \in [0..n -> val],
             \A y \in 0..n : rank[y] < rank[x] => f[y] = g[y]
      PROVE  step[x][f] = step[x][g]
    <2>1. x # 0 => f[x - 1] = g[x - 1]
        BY <1>2, <1>4
    <2> QED
        BY <2>1
<1>5. val # {} /\ n + 1 \in Nat
    OBVIOUS
<1>6. \E f \in [0..n -> val] : \A x \in 0..n : f[x] = step[x][f]
    <2> DEFINE keys == 0..n
    <2>1. /\ rank \in [keys -> Nat] /\ step \in [keys -> [[keys -> val] -> val]]
          /\ \A x \in keys : rank[x] < n + 1
        BY <1>1, <1>3
    <2>2. \A x \in keys : \A f, g \in [keys -> val] :
             (\A y \in keys : rank[y] < rank[x] => f[y] = g[y]) => step[x][f] = step[x][g]
        BY <1>4
    <2>4. IsRecursion(keys, val, rank, n + 1, step)
        <3> HIDE DEF keys, val, rank, step
        <3> QED
            BY <1>5, <2>1, <2>2 DEF IsRecursion
    <2> HIDE DEF keys, val, rank, step
    <2>3. \E f \in [keys -> val] : \A x \in keys : f[x] = step[x][f]
        BY <2>4, Recursion
    <2> QED
        BY <2>3 DEF keys
<1>7. PICK f \in [0..n -> val] : \A x \in 0..n : f[x] = step[x][f]
    BY <1>6
<1>8. \A k \in 0..n : f[k] = IF k = 0 THEN start ELSE grow[f[k - 1]]
    BY <1>7
<1>9. f[0] = start /\ \A k \in 1..n : f[k] = grow[f[k - 1]]
    BY <1>8
<1> QED
    BY <1>7, <1>9

\* With as many rounds as there are elements, what is reached is the least set that holds the
\* start and does not grow any more.
LEMMA RoundsEnd ==
    ASSUME NEW dom, IsFiniteSet(dom), NEW start, NEW grow, IsSearch(dom, start, grow),
           NEW n \in Nat, Cardinality(dom) <= n, NEW f, IsRounds(f, dom, start, grow, n)
    PROVE  /\ f[n] \in SUBSET dom /\ start \subseteq f[n] /\ grow[f[n]] = f[n]
           /\ \A c \in SUBSET dom : start \subseteq c /\ (\A s \in SUBSET c : grow[s] \subseteq c)
                => f[n] \subseteq c
<1> USE DEF IsSearch
<1>1. \A k \in Nat : k <= n => f[k] \in SUBSET dom /\ start \subseteq f[k]
    <2> DEFINE good == {k \in Nat : k <= n => f[k] \in SUBSET dom /\ start \subseteq f[k]}
    <2>1. 0 \in good
        BY DEF IsRounds
    <2>2. ASSUME NEW k \in good PROVE k + 1 \in good
        <3>1. CASE k + 1 <= n
            <4>1. k + 1 \in 1..n /\ (k + 1) - 1 = k
                BY <3>1
            <4>2. f[k] \in SUBSET dom /\ start \subseteq f[k]
                BY <3>1
            <4>3. f[k + 1] = grow[f[k]]
                BY <4>1, <4>2 DEF IsRounds
            <4> QED
                BY <4>2, <4>3
        <3> QED
            BY <3>1
    <2>3. \A k \in Nat : k \in good
        <3> HIDE DEF good
        <3>1. good \in SUBSET Nat
            BY DEF good
        <3> QED
            BY <2>1, <2>2, <3>1, AllNaturals
    <2> QED
        BY <2>3
<1>2. ASSUME NEW k \in Nat, k + 1 <= n PROVE f[k + 1] = grow[f[k]]
    <2>1. k + 1 \in 1..n /\ (k + 1) - 1 = k
        BY <1>2
    <2> QED
        BY <1>1, <1>2, <2>1 DEF IsRounds
<1>3. \A k \in Nat : k <= n => grow[f[k]] = f[k] \/ Cardinality(f[k]) >= k + 1
    <2> DEFINE good == {k \in Nat : k <= n => grow[f[k]] = f[k] \/ Cardinality(f[k]) >= k + 1}
    <2>1. 0 \in good
        <3>1. f[0] = start
            BY DEF IsRounds
        <3>2. CASE start = {}
            BY <3>1, <3>2
        <3>3. CASE start # {}
            <4>1. IsFiniteSet(start) /\ Cardinality(start) \in Nat /\ Cardinality(start) # 0
                BY <3>3, FS_Subset, FS_EmptySet, FS_CardinalityType
            <4> QED
                BY <3>1, <4>1
        <3> QED
            BY <3>2, <3>3
    <2>2. ASSUME NEW k \in good PROVE k + 1 \in good
        <3>1. CASE k + 1 <= n
            <4>1. k <= n /\ f[k + 1] = grow[f[k]]
                BY <1>2, <3>1
            <4>2. f[k] \in SUBSET dom /\ f[k + 1] \in SUBSET dom
                BY <1>1, <3>1, <4>1
            <4>3. CASE grow[f[k]] = f[k]
                BY <4>1, <4>3
            <4>4. CASE grow[f[k]] # f[k]
                <5>1. Cardinality(f[k]) >= k + 1
                    BY <4>1, <4>4
                <5>2. f[k] \subseteq f[k + 1] /\ f[k] # f[k + 1]
                    BY <4>1, <4>2, <4>4
                <5>3. IsFiniteSet(f[k + 1])
                    BY <4>2, FS_Subset
                <5>4. Cardinality(f[k]) < Cardinality(f[k + 1])
                    BY <5>2, <5>3, FS_Subset, FS_CardinalityType
                <5>5. Cardinality(f[k]) \in Nat /\ Cardinality(f[k + 1]) \in Nat
                    BY <5>2, <5>3, FS_Subset, FS_CardinalityType
                <5> QED
                    BY <5>1, <5>4, <5>5
            <4> QED
                BY <4>3, <4>4
        <3> QED
            BY <3>1
    <2>3. \A k \in Nat : k \in good
        <3> HIDE DEF good
        <3>1. good \in SUBSET Nat
            BY DEF good
        <3> QED
            BY <2>1, <2>2, <3>1, AllNaturals
    <2> QED
        BY <2>3
<1>4. grow[f[n]] = f[n]
    <2>1. Cardinality(f[n]) <= Cardinality(dom) /\ Cardinality(f[n]) \in Nat /\ Cardinality(dom) \in Nat
        BY <1>1, FS_Subset, FS_CardinalityType
    <2> QED
        BY <1>3, <2>1
<1>5. ASSUME NEW c \in SUBSET dom, start \subseteq c, \A s \in SUBSET c : grow[s] \subseteq c
      PROVE  f[n] \subseteq c
    <2> DEFINE good == {k \in Nat : k <= n => f[k] \subseteq c}
    <2>1. 0 \in good
        BY <1>5 DEF IsRounds
    <2>2. ASSUME NEW k \in good PROVE k + 1 \in good
        BY <1>2, <1>5
    <2>3. \A k \in Nat : k \in good
        <3> HIDE DEF good
        <3>1. good \in SUBSET Nat
            BY DEF good
        <3> QED
            BY <2>1, <2>2, <3>1, AllNaturals
    <2> QED
        BY <2>3
<1> QED
    BY <1>1, <1>4, <1>5

-----------------------------------------------------------------------------
(* What is above a row, and what is reached from the roots. *)

\* The rows that a start and the rows above it make up, in so many rounds.
Climb(parent, start, n) ==
    LET round[k \in 0..n] ==
            IF k = 0 THEN start
            ELSE LET below == round[k - 1] IN below \cup {Up(parent, c, c) : c \in below}
    IN  round[n]

\* A set with what is above its members.
ClosedUp(parent, s) == \A c \in s : Up(parent, c, c) \in s

LEMMA ClimbIs ==
    ASSUME NEW parent, IsFiniteSet(DOMAIN parent), NEW start \in SUBSET DOMAIN parent,
           NEW n \in Nat, Cardinality(DOMAIN parent) <= n
    PROVE  /\ Climb(parent, start, n) \in SUBSET DOMAIN parent
           /\ start \subseteq Climb(parent, start, n)
           /\ ClosedUp(parent, Climb(parent, start, n))
           /\ \A s \in SUBSET DOMAIN parent :
                start \subseteq s /\ ClosedUp(parent, s) => Climb(parent, start, n) \subseteq s
<1> DEFINE dom == DOMAIN parent
           grow == [s \in SUBSET dom |-> s \cup {Up(parent, c, c) : c \in s}]
           Round(f) == f = [k \in 0..n |-> IF k = 0 THEN start
                              ELSE f[k - 1] \cup {Up(parent, c, c) : c \in f[k - 1]}]
           round == CHOOSE f : Round(f)
<1>1. Climb(parent, start, n) = round[n]
    BY DEF Climb
<1>2. \A c \in dom : Up(parent, c, c) \in dom
    BY DEF Up
<1>3. IsSearch(dom, start, grow)
    BY <1>2 DEF IsSearch
<1>4. \E f : Round(f)
    <2>1. PICK f \in [0..n -> SUBSET dom] : f[0] = start /\ \A k \in 1..n : f[k] = grow[f[k - 1]]
        <3> HIDE DEF grow, dom
        <3> QED
            BY <1>3, RoundsExist
    <2>2. \A k \in 0..n : k # 0 => grow[f[k - 1]] = f[k - 1] \cup {Up(parent, c, c) : c \in f[k - 1]}
        <3>1. \A k \in 0..n : k # 0 => f[k - 1] \in SUBSET dom
            OBVIOUS
        <3> QED
            BY <3>1
    <2> HIDE DEF grow, dom
    <2>3. \A k \in 0..n : k # 0 => k \in 1..n
        BY <1>2
    <2>5. \A k \in 0..n : f[k] = IF k = 0 THEN start
                              ELSE f[k - 1] \cup {Up(parent, c, c) : c \in f[k - 1]}
        BY <2>1, <2>2, <2>3
    <2>4. Round(f)
        BY <2>1, <2>5
    <2> QED
        BY <2>4
<1>5. Round(round)
    BY <1>4
<1>6. IsRounds(round, dom, start, grow, n)
    <2>1. round = [k \in 0..n |-> IF k = 0 THEN start
                              ELSE round[k - 1] \cup {Up(parent, c, c) : c \in round[k - 1]}]
        BY <1>5
    <2> HIDE DEF round
    <2>2. DOMAIN round = 0..n /\ round[0] = start
        BY <2>1
    <2>3. \A k \in 1..n : round[k] = round[k - 1] \cup {Up(parent, c, c) : c \in round[k - 1]}
        BY <2>1
    <2>4. \A k \in 1..n : round[k - 1] \in SUBSET dom => round[k] = grow[round[k - 1]]
        BY <2>3
    <2> QED
        BY <2>2, <2>4 DEF IsRounds
<1>7. IsFiniteSet(dom) /\ start \in SUBSET dom /\ Cardinality(dom) <= n
    OBVIOUS
<1> HIDE DEF round, grow, dom
<1>8. /\ round[n] \in SUBSET dom /\ start \subseteq round[n] /\ grow[round[n]] = round[n]
      /\ \A c \in SUBSET dom : start \subseteq c /\ (\A s \in SUBSET c : grow[s] \subseteq c)
           => round[n] \subseteq c
    BY <1>3, <1>6, <1>7, RoundsEnd
<1>9. ClosedUp(parent, round[n])
    BY <1>8 DEF grow, ClosedUp
<1>10. ASSUME NEW s \in SUBSET dom, start \subseteq s, ClosedUp(parent, s) PROVE round[n] \subseteq s
    <2>1. \A q \in SUBSET s : grow[q] \subseteq s
        BY <1>10 DEF grow, ClosedUp
    <2> QED
        BY <1>8, <1>10, <2>1
<1> QED
    BY <1>1, <1>8, <1>9, <1>10 DEF dom

\* The rows that a start and the rows below it make up, in so many levels.
Descend(parent, start, n) ==
    LET level[k \in 0..n] ==
            IF k = 0 THEN start
            ELSE LET above == level[k - 1] IN above \cup {c \in DOMAIN parent : parent[c] \in above}
    IN  level[n]

\* A set with what is below its members.
ClosedDown(parent, s) == \A c \in DOMAIN parent : parent[c] \in s => c \in s

LEMMA DescendIs ==
    ASSUME NEW parent, IsFiniteSet(DOMAIN parent), NEW start \in SUBSET DOMAIN parent,
           NEW n \in Nat, Cardinality(DOMAIN parent) <= n
    PROVE  /\ Descend(parent, start, n) \in SUBSET DOMAIN parent
           /\ start \subseteq Descend(parent, start, n)
           /\ ClosedDown(parent, Descend(parent, start, n))
           /\ \A s \in SUBSET DOMAIN parent :
                start \subseteq s /\ ClosedDown(parent, s) => Descend(parent, start, n) \subseteq s
<1> DEFINE dom == DOMAIN parent
           grow == [s \in SUBSET dom |-> s \cup {c \in DOMAIN parent : parent[c] \in s}]
           Round(f) == f = [k \in 0..n |-> IF k = 0 THEN start
                              ELSE f[k - 1] \cup {c \in DOMAIN parent : parent[c] \in f[k - 1]}]
           round == CHOOSE f : Round(f)
<1>1. Descend(parent, start, n) = round[n]
    BY DEF Descend
<1>3. IsSearch(dom, start, grow)
    BY DEF IsSearch
<1>4. \E f : Round(f)
    <2>1. PICK f \in [0..n -> SUBSET dom] : f[0] = start /\ \A k \in 1..n : f[k] = grow[f[k - 1]]
        <3> HIDE DEF grow, dom
        <3> QED
            BY <1>3, RoundsExist
    <2>2. \A k \in 0..n : k # 0 => grow[f[k - 1]] = f[k - 1] \cup {c \in DOMAIN parent : parent[c] \in f[k - 1]}
        <3>1. \A k \in 0..n : k # 0 => f[k - 1] \in SUBSET dom
            OBVIOUS
        <3> QED
            BY <3>1
    <2> HIDE DEF grow, dom
    <2>3. \A k \in 0..n : k # 0 => k \in 1..n
        OBVIOUS
    <2>5. \A k \in 0..n : f[k] = IF k = 0 THEN start
                              ELSE f[k - 1] \cup {c \in DOMAIN parent : parent[c] \in f[k - 1]}
        BY <2>1, <2>2, <2>3
    <2>4. Round(f)
        BY <2>1, <2>5
    <2> QED
        BY <2>4
<1>5. Round(round)
    BY <1>4
<1>6. IsRounds(round, dom, start, grow, n)
    <2>1. round = [k \in 0..n |-> IF k = 0 THEN start
                              ELSE round[k - 1] \cup {c \in DOMAIN parent : parent[c] \in round[k - 1]}]
        BY <1>5
    <2> HIDE DEF round
    <2>2. DOMAIN round = 0..n /\ round[0] = start
        BY <2>1
    <2>3. \A k \in 1..n : round[k] = round[k - 1] \cup {c \in DOMAIN parent : parent[c] \in round[k - 1]}
        BY <2>1
    <2>4. \A k \in 1..n : round[k - 1] \in SUBSET dom => round[k] = grow[round[k - 1]]
        BY <2>3
    <2> QED
        BY <2>2, <2>4 DEF IsRounds
<1>7. IsFiniteSet(dom) /\ start \in SUBSET dom /\ Cardinality(dom) <= n
    OBVIOUS
<1> HIDE DEF round, grow, dom
<1>8. /\ round[n] \in SUBSET dom /\ start \subseteq round[n] /\ grow[round[n]] = round[n]
      /\ \A c \in SUBSET dom : start \subseteq c /\ (\A s \in SUBSET c : grow[s] \subseteq c)
           => round[n] \subseteq c
    BY <1>3, <1>6, <1>7, RoundsEnd
<1>9. ClosedDown(parent, round[n])
    BY <1>8 DEF grow, ClosedDown, dom
<1>10. ASSUME NEW s \in SUBSET dom, start \subseteq s, ClosedDown(parent, s) PROVE round[n] \subseteq s
    <2>1. \A q \in SUBSET s : grow[q] \subseteq s
        BY <1>10 DEF grow, ClosedDown, dom
    <2> QED
        BY <1>8, <1>10, <2>1
<1> QED
    BY <1>1, <1>8, <1>9, <1>10 DEF dom

\* What is reached from the roots: the least set with the roots and what is below its members.
LEMMA ReachableIs ==
    ASSUME NEW parent, IsFiniteSet(DOMAIN parent)
    PROVE  /\ reachableIds(parent) \in SUBSET DOMAIN parent
           /\ rootsOf(parent) \subseteq reachableIds(parent)
           /\ ClosedDown(parent, reachableIds(parent))
           /\ \A s \in SUBSET DOMAIN parent :
                rootsOf(parent) \subseteq s /\ ClosedDown(parent, s) => reachableIds(parent) \subseteq s
<1>1. reachableIds(parent) = Descend(parent, rootsOf(parent), Cardinality(DOMAIN parent))
    BY DEF reachableIds, Descend
<1>2. rootsOf(parent) \in SUBSET DOMAIN parent
    BY DEF rootsOf
<1>3. Cardinality(DOMAIN parent) \in Nat /\ Cardinality(DOMAIN parent) <= Cardinality(DOMAIN parent)
    BY FS_CardinalityType
<1> QED
    BY <1>1, <1>2, <1>3, DescendIs

-----------------------------------------------------------------------------
(* The rows above a row. *)

\* A row with all that are above it.
Chain(parent, id) ==
    {a \in DOMAIN parent : \A s \in SUBSET DOMAIN parent : id \in s /\ ClosedUp(parent, s) => a \in s}

LEMMA UpIs ==
    ASSUME NEW parent, NEW id \in DOMAIN parent
    PROVE  /\ Up(parent, id, id) \in DOMAIN parent
           /\ Up(parent, id, id) = IF id \in rootsOf(parent) THEN id ELSE parent[id]
           /\ id \notin rootsOf(parent) => parent[id] \in DOMAIN parent
BY DEF Up, rootsOf

LEMMA ChainHas ==
    ASSUME NEW parent, NEW id \in DOMAIN parent
    PROVE  /\ id \in Chain(parent, id) /\ Chain(parent, id) \in SUBSET DOMAIN parent
           /\ ClosedUp(parent, Chain(parent, id))
           /\ \A s \in SUBSET DOMAIN parent :
                id \in s /\ ClosedUp(parent, s) => Chain(parent, id) \subseteq s
<1>1. id \in Chain(parent, id) /\ Chain(parent, id) \in SUBSET DOMAIN parent
    BY DEF Chain
<1>2. ClosedUp(parent, Chain(parent, id))
    <2>1. ASSUME NEW c \in Chain(parent, id), NEW s \in SUBSET DOMAIN parent, id \in s, ClosedUp(parent, s)
          PROVE  Up(parent, c, c) \in s
        BY <2>1 DEF Chain, ClosedUp
    <2>2. ASSUME NEW c \in Chain(parent, id) PROVE Up(parent, c, c) \in DOMAIN parent
        BY UpIs DEF Chain
    <2> QED
        BY <2>1, <2>2 DEF Chain, ClosedUp
<1>3. \A s \in SUBSET DOMAIN parent : id \in s /\ ClosedUp(parent, s) => Chain(parent, id) \subseteq s
    BY DEF Chain
<1> QED
    BY <1>1, <1>2, <1>3

LEMMA ClimbIsChain ==
    ASSUME NEW parent, IsFiniteSet(DOMAIN parent), NEW id \in DOMAIN parent,
           NEW n \in Nat, Cardinality(DOMAIN parent) <= n
    PROVE  Climb(parent, {id}, n) = Chain(parent, id)
<1> DEFINE climbed == Climb(parent, {id}, n)
<1>1. {id} \in SUBSET DOMAIN parent
    OBVIOUS
<1>2. /\ climbed \in SUBSET DOMAIN parent /\ {id} \subseteq climbed /\ ClosedUp(parent, climbed)
      /\ \A s \in SUBSET DOMAIN parent : {id} \subseteq s /\ ClosedUp(parent, s) => climbed \subseteq s
    BY <1>1, ClimbIs
<1> HIDE DEF climbed
<1>3. climbed \subseteq Chain(parent, id)
    BY <1>2, ChainHas
<1>4. Chain(parent, id) \subseteq climbed
    BY <1>2, ChainHas
<1> QED
    BY <1>3, <1>4 DEF climbed

\* What is above something above is above.
LEMMA ChainWithin ==
    ASSUME NEW parent, NEW id \in DOMAIN parent, NEW a \in Chain(parent, id)
    PROVE  a \in DOMAIN parent /\ Chain(parent, a) \subseteq Chain(parent, id)
BY ChainHas

\* A chain is its first row and the chain of the row above.
LEMMA ChainSteps ==
    ASSUME NEW parent, NEW id \in DOMAIN parent
    PROVE  Chain(parent, id) = {id} \cup Chain(parent, Up(parent, id, id))
<1> DEFINE p == Up(parent, id, id)
<1>1. p \in DOMAIN parent
    BY UpIs
<1>2. p \in Chain(parent, id)
    BY ChainHas DEF ClosedUp
<1> HIDE DEF p
<1>3. Chain(parent, p) \subseteq Chain(parent, id)
    BY <1>2, ChainWithin
<1>4. {id} \cup Chain(parent, p) \in SUBSET DOMAIN parent
    BY <1>1, ChainHas
<1>5. ClosedUp(parent, {id} \cup Chain(parent, p))
    BY <1>1, ChainHas DEF ClosedUp, p
<1>6. Chain(parent, id) \subseteq {id} \cup Chain(parent, p)
    BY <1>4, <1>5, ChainHas
<1> QED
    BY <1>3, <1>6, ChainHas DEF p

LEMMA RootIsAlone ==
    ASSUME NEW parent, NEW id \in rootsOf(parent)
    PROVE  Chain(parent, id) = {id}
<1>1. id \in DOMAIN parent /\ Up(parent, id, id) = id
    BY UpIs DEF rootsOf
<1>2. {id} \in SUBSET DOMAIN parent /\ ClosedUp(parent, {id})
    BY <1>1 DEF ClosedUp
<1> QED
    BY <1>1, <1>2, ChainHas

\* Of two rows above a third one is above the other.
LEMMA ChainIsLinear ==
    ASSUME NEW parent, NEW id \in DOMAIN parent, NEW a \in Chain(parent, id), NEW b \in Chain(parent, id)
    PROVE  a \in Chain(parent, b) \/ b \in Chain(parent, a)
<1> DEFINE s == {c \in Chain(parent, id) : c \in Chain(parent, b) \/ b \in Chain(parent, c)}
<1>1. s \in SUBSET DOMAIN parent /\ id \in s
    BY ChainHas
<1>2. ASSUME NEW c \in s PROVE Up(parent, c, c) \in s
    <2>1. c \in DOMAIN parent /\ b \in DOMAIN parent /\ Up(parent, c, c) \in Chain(parent, id)
        BY ChainHas DEF ClosedUp
    <2>2. CASE c \in Chain(parent, b)
        BY <2>1, <2>2, ChainHas DEF ClosedUp
    <2>3. CASE c # b /\ b \in Chain(parent, c)
        BY <2>1, <2>3, ChainSteps
    <2>4. CASE c = b
        BY <2>1, <2>2, <2>4, ChainHas
    <2> QED
        BY <2>2, <2>3, <2>4
<1>3. ClosedUp(parent, s)
    BY <1>2 DEF ClosedUp
<1> HIDE DEF s
<1>4. Chain(parent, id) \subseteq s
    BY <1>1, <1>3, ChainHas
<1> QED
    BY <1>4 DEF s

\* A row lies above itself.
Cyclic(parent) == \E id \in DOMAIN parent : \E a \in Chain(parent, id) : parent[a] = id

\* Two rows above each other are one, unless there is a cycle.
LEMMA NoReturn ==
    ASSUME NEW parent, ~Cyclic(parent), NEW a \in DOMAIN parent, NEW b \in Chain(parent, a),
           a \in Chain(parent, b)
    PROVE  a = b
<1> SUFFICES ASSUME a # b PROVE FALSE
    OBVIOUS
<1>1. b \in DOMAIN parent
    BY ChainHas
\* Else the chain of b could do without a.
<1>2. \A c \in Chain(parent, b) : parent[c] # a
    <2>1. Chain(parent, b) \subseteq Chain(parent, a)
        BY ChainWithin
    <2> QED
        BY <2>1 DEF Cyclic
<1>3. ClosedUp(parent, Chain(parent, b) \ {a})
    <2>1. ASSUME NEW c \in Chain(parent, b) \ {a} PROVE Up(parent, c, c) \in Chain(parent, b) \ {a}
        <3>1. Up(parent, c, c) \in Chain(parent, b)
            BY <1>1, ChainHas DEF ClosedUp
        <3>2. c \in DOMAIN parent
            BY <1>1, ChainHas
        <3>3. Up(parent, c, c) # a
            BY <1>2, <3>2, UpIs
        <3> QED
            BY <3>1, <3>3
    <2> QED
        BY <2>1 DEF ClosedUp
<1>4. Chain(parent, b) \ {a} \in SUBSET DOMAIN parent /\ b \in Chain(parent, b) \ {a}
    BY <1>1, ChainHas
<1>5. Chain(parent, b) \subseteq Chain(parent, b) \ {a}
    BY <1>1, <1>3, <1>4, ChainHas
<1> QED
    BY <1>5

\* Rows are left over exactly if there is a cycle.
LEMMA CyclesAreLeft ==
    ASSUME NEW parent, IsFiniteSet(DOMAIN parent)
    PROVE  buildTreeFails(parent) <=> Cyclic(parent)
<1>1. ASSUME buildTreeFails(parent), ~Cyclic(parent) PROVE FALSE
    <2> DEFINE left == DOMAIN parent \ reachableIds(parent)
               size(u) == Cardinality(Chain(parent, u))
               sizes == {size(u) : u \in left}
    <2>1. left # {} /\ left \in SUBSET DOMAIN parent
        BY <1>1, ReachableIs DEF buildTreeFails
    <2>2. ASSUME NEW u \in left PROVE u \notin rootsOf(parent) /\ parent[u] \in left
        BY ReachableIs, UpIs DEF ClosedDown
    <2>3. ASSUME NEW u \in DOMAIN parent PROVE IsFiniteSet(Chain(parent, u)) /\ size(u) \in Nat
        BY ChainHas, FS_Subset, FS_CardinalityType
    <2>4. sizes \in SUBSET Nat /\ sizes # {}
        BY <2>1, <2>3
    <2>5. PICK low \in sizes : \A k \in sizes : low <= k
        BY <2>4, LeastNatural
    <2>6. PICK u \in left : size(u) = low
        OBVIOUS
    <2> DEFINE p == parent[u]
    <2>7. p \in left /\ u \in DOMAIN parent /\ p \in DOMAIN parent /\ Up(parent, u, u) = p
        BY <2>2, UpIs
    <2>8. Chain(parent, u) = {u} \cup Chain(parent, p)
        BY <2>7, ChainSteps
    <2>9. u \notin Chain(parent, p)
        <3>1. SUFFICES ASSUME u \in Chain(parent, p) PROVE FALSE
            OBVIOUS
        <3>2. p \in Chain(parent, u)
            BY <2>7, <2>8, ChainHas
        <3>3. u = p
            BY <1>1, <2>7, <3>1, <3>2, NoReturn
        <3> QED
            BY <1>1, <2>7, <3>2, <3>3 DEF Cyclic
    <2>10. size(p) < size(u)
        <3>1. Chain(parent, p) \subseteq Chain(parent, u) /\ Chain(parent, p) # Chain(parent, u)
            BY <2>8, <2>9
        <3> QED
            BY <2>3, <2>7, <3>1, FS_Subset
    <2>11. size(p) \in sizes /\ size(p) \in Nat /\ size(u) \in Nat
        BY <2>3, <2>7
    <2> QED
        BY <2>5, <2>6, <2>10, <2>11
<1>2. ASSUME Cyclic(parent), ~buildTreeFails(parent) PROVE FALSE
    <2>1. PICK id \in DOMAIN parent : \E a \in Chain(parent, id) : parent[a] = id
        BY <1>2 DEF Cyclic
    <2>2. PICK a \in Chain(parent, id) : parent[a] = id
        BY <2>1
    <2> DEFINE ring == Chain(parent, id)
               back == {q \in ring : id \in Chain(parent, q)}
    <2>3. a \in DOMAIN parent /\ Up(parent, a, a) = id /\ ring \in SUBSET DOMAIN parent
        BY <2>2, ChainHas DEF Up
    <2>4. ASSUME NEW q \in back PROVE Up(parent, q, q) \in back
        <3> DEFINE p == Up(parent, q, q)
        <3>1. p \in ring /\ q \in DOMAIN parent /\ p \in DOMAIN parent
            BY ChainHas, UpIs DEF ClosedUp
        <3>2. CASE q # id
            BY <3>1, <3>2, ChainSteps
        <3>3. CASE q = id /\ a = id
            BY <2>3, <3>1, <3>3, ChainHas
        <3>4. CASE q = id /\ a # id
            <4>1. a \in Chain(parent, p)
                BY <2>2, <3>1, <3>4, ChainSteps
            <4> QED
                BY <2>3, <3>1, <4>1, ChainHas DEF ClosedUp
        <3> QED
            BY <3>2, <3>3, <3>4
    <2>5. ring \subseteq back
        <3>1. ClosedUp(parent, back)
            BY <2>4 DEF ClosedUp
        <3>2. back \in SUBSET DOMAIN parent /\ id \in back
            BY <2>3, ChainHas
        <3> HIDE DEF back
        <3> QED
            BY <3>1, <3>2, ChainHas
    <2>6. ring \cap rootsOf(parent) = {}
        <3>1. SUFFICES ASSUME NEW r \in ring, r \in rootsOf(parent) PROVE FALSE
            OBVIOUS
        <3>2. Chain(parent, r) = {r}
            BY <3>1, RootIsAlone
        <3>3. r = id
            BY <2>5, <3>2
        <3>4. a = id
            BY <2>2, <3>2, <3>3
        <3> QED
            BY <2>2, <3>1, <3>3, <3>4 DEF rootsOf
    <2>7. ClosedDown(parent, DOMAIN parent \ ring)
        <3>1. ASSUME NEW c \in DOMAIN parent, c \in ring PROVE parent[c] \in ring
            <4>1. Up(parent, c, c) \in ring
                BY <3>1, ChainHas DEF ClosedUp
            <4> QED
                BY <2>6, <3>1, <4>1, UpIs
        <3> QED
            BY <3>1 DEF ClosedDown
    <2>8. rootsOf(parent) \subseteq DOMAIN parent \ ring
        BY <2>6 DEF rootsOf
    <2>9. reachableIds(parent) \subseteq DOMAIN parent \ ring
        BY <2>7, <2>8, ReachableIs
    <2>10. id \in ring
        BY ChainHas
    <2> QED
        BY <1>2, <2>9, <2>10 DEF buildTreeFails
<1> QED
    BY <1>1, <1>2

-----------------------------------------------------------------------------
(* The rows of a table in the order in which they are visited. *)

\* Before is the order of the values in the direction of the sort, then of the ids; rows
\* without a value come last.
LEMMA BeforeIs ==
    ASSUME order \in {1, -1}, NEW a \in RowIds, NEW b \in RowIds
    PROVE  D!Before(a, b) <=>
             \/ Key[a] # None /\ Key[b] = None
             \/ /\ Key[a] # None /\ Key[b] # None
                /\ IF order = 1 THEN Key[a] < Key[b] ELSE Key[b] < Key[a]
             \/ Key[a] = Key[b] /\ a < b
<1>1. (Key[a] = None \/ Key[a] \in Nat) /\ (Key[b] = None \/ Key[b] \in Nat) /\ a \in Nat /\ b \in Nat
    BY TableConstants
<1> DEFINE c == D!defaultComparator(Key[a], Key[b], order = -1)
<1>2. c \in {-1, 0, 1}
    BY DEF D!defaultComparator
<1>3. D!compareRows(a, b) = c * order
    BY DEF D!compareRows
<1>4. CASE order = 1
    <2>1. D!compareRows(a, b) = c
        BY <1>2, <1>3, <1>4
    <2>2. c < 0 <=> (\/ Key[a] # None /\ Key[b] = None
                     \/ Key[a] # None /\ Key[b] # None /\ Key[a] < Key[b])
        BY <1>1, <1>4 DEF D!defaultComparator
    <2>3. c = 0 <=> Key[a] = Key[b]
        BY <1>1, <1>4 DEF D!defaultComparator
    <2> HIDE DEF c
    <2> QED
        BY <1>4, <2>1, <2>2, <2>3 DEF D!Before
<1>5. CASE order = -1
    <2>1. (D!compareRows(a, b) < 0 <=> c = 1) /\ (D!compareRows(a, b) = 0 <=> c = 0)
        BY <1>2, <1>3, <1>5
    <2>2. c = 1 <=> (\/ Key[a] # None /\ Key[b] = None
                     \/ Key[a] # None /\ Key[b] # None /\ Key[b] < Key[a])
        BY <1>1, <1>5 DEF D!defaultComparator
    <2>3. c = 0 <=> Key[a] = Key[b]
        BY <1>1, <1>5 DEF D!defaultComparator
    <2> HIDE DEF c
    <2> QED
        BY <1>5, <2>1, <2>2, <2>3 DEF D!Before
<1> QED
    BY <1>4, <1>5

LEMMA BeforeOrders ==
    ASSUME order \in {1, -1}
    PROVE  /\ \A a \in RowIds : ~D!Before(a, a)
           /\ \A a, b \in RowIds : a # b => D!Before(a, b) \/ D!Before(b, a)
           /\ \A a, b, c \in RowIds : D!Before(a, b) /\ D!Before(b, c) => D!Before(a, c)
<1>1. \A a \in RowIds : a \in Nat /\ (Key[a] = None \/ Key[a] \in Nat)
    BY TableConstants
<1>2. \A a \in RowIds : ~D!Before(a, a)
    BY <1>1, BeforeIs
<1>3. ASSUME NEW a \in RowIds, NEW b \in RowIds, a # b PROVE D!Before(a, b) \/ D!Before(b, a)
    BY <1>1, <1>3, BeforeIs
<1>4. ASSUME NEW a \in RowIds, NEW b \in RowIds, NEW c \in RowIds, D!Before(a, b), D!Before(b, c)
      PROVE  D!Before(a, c)
    BY <1>1, <1>4, BeforeIs
<1> QED
    BY <1>2, <1>3, <1>4

LEMMA TableUp ==
    /\ \A parent, id, none : D!Up(parent, id, none) = Up(parent, id, none)
    /\ \A parent, a, b : D!Siblings(parent, a, b) <=> Up(parent, a, None) = Up(parent, b, None)
BY Zenon DEF D!Siblings, D!Up, Up

\* buildTree never refuses the rows of a table: their parents have no cycle.
LEMMA NestingIsForest ==
    ASSUME NEW rs \in SUBSET RowIds
    PROVE  /\ DOMAIN D!Nesting(rs) = rs /\ IsFiniteSet(rs)
           /\ ~Cyclic(D!Nesting(rs))
<1> DEFINE nest == D!Nesting(rs)
           left == rs \ reachableIds(nest)
<1>1. DOMAIN nest = rs /\ \A r \in rs : nest[r] = IF tree THEN Parent[r] ELSE None
    BY DEF D!Nesting
<1>2. IsFiniteSet(rs) /\ None \notin rs
    BY TableConstants, FS_Subset
<1> HIDE DEF nest
<1>3. SUFFICES ASSUME buildTreeFails(nest) PROVE FALSE
    BY <1>1, <1>2, CyclesAreLeft DEF nest
<1>4. /\ reachableIds(nest) \in SUBSET rs /\ rootsOf(nest) \subseteq reachableIds(nest)
      /\ ClosedDown(nest, reachableIds(nest))
    BY <1>1, <1>2, ReachableIs
<1>5. left # {} /\ left \in SUBSET RowIds
    BY <1>1, <1>3, <1>4 DEF buildTreeFails
<1>6. PICK r \in left : Parent[r] \notin left
    BY <1>5, TableConstants
<1>7. nest[r] \in rs
    BY <1>1, <1>4, <1>6 DEF rootsOf
<1>8. nest[r] = Parent[r] /\ nest[r] \in left
    BY <1>1, <1>2, <1>4, <1>6, <1>7 DEF ClosedDown
<1> QED
    BY <1>6, <1>8

LEMMA WalkAbove ==
    ASSUME NEW rs \in SUBSET RowIds, NEW r \in rs
    PROVE  D!Above(D!Nesting(rs), r) = Chain(D!Nesting(rs), r)
<1> DEFINE nest == D!Nesting(rs)
           n == Cardinality(DOMAIN nest)
<1>1. DOMAIN nest = rs /\ IsFiniteSet(DOMAIN nest)
    BY NestingIsForest
<1>2. n \in Nat /\ n <= n
    BY <1>1, FS_CardinalityType
<1>3. \A parent : D!Above(parent, r) = Climb(parent, {r}, Cardinality(DOMAIN parent))
    BY Zenon DEF D!Above, Climb, D!Up, Up, D!Cardinality, Cardinality, D!IsFiniteSet, IsFiniteSet
<1>4. D!Above(nest, r) = Climb(nest, {r}, n)
    BY <1>3
<1> HIDE DEF n, nest
<1>5. Climb(nest, {r}, n) = Chain(nest, r)
    BY <1>1, <1>2, ClimbIsChain DEF n
<1> QED
    BY <1>4, <1>5 DEF nest

\* Two rows of one parent are not both above a row.
LEMMA OneOfSiblings ==
    ASSUME NEW parent, ~Cyclic(parent), None \notin DOMAIN parent, NEW r \in DOMAIN parent,
           NEW a \in Chain(parent, r), NEW b \in Chain(parent, r),
           Up(parent, a, None) = Up(parent, b, None)
    PROVE  a = b
<1>1. ASSUME NEW c \in DOMAIN parent, NEW d \in Chain(parent, c), d # c,
             Up(parent, c, None) = Up(parent, d, None)
      PROVE  FALSE
    <2>1. c \notin rootsOf(parent)
        BY <1>1, RootIsAlone
    <2> DEFINE p == parent[c]
    <2>2. p \in DOMAIN parent /\ Up(parent, c, c) = p /\ Up(parent, c, None) = p
        BY <2>1, UpIs DEF Up
    <2>3. d \in DOMAIN parent /\ d \in Chain(parent, p)
        BY <1>1, <2>2, ChainHas, ChainSteps
    <2>4. parent[d] = p /\ Up(parent, d, d) = p
        BY <1>1, <2>2, <2>3 DEF Up
    <2>5. p \in Chain(parent, d) /\ d \in Chain(parent, d)
        BY <2>3, <2>4, ChainHas DEF ClosedUp
    <2>6. d = p
        BY <2>2, <2>3, <2>5, NoReturn
    <2> QED
        BY <2>3, <2>4, <2>5, <2>6 DEF Cyclic
<1>2. a \in DOMAIN parent /\ b \in DOMAIN parent
    BY ChainHas
<1>3. a \in Chain(parent, b) \/ b \in Chain(parent, a)
    BY ChainIsLinear
<1> QED
    BY <1>1, <1>2, <1>3

\* What is above a row of two different siblings is above both.
LEMMA AboveSiblings ==
    ASSUME NEW parent, None \notin DOMAIN parent, NEW a \in DOMAIN parent, NEW b \in DOMAIN parent,
           Up(parent, a, None) = Up(parent, b, None), NEW c \in Chain(parent, a), c # a
    PROVE  c \in Chain(parent, b)
<1>1. a \notin rootsOf(parent)
    BY RootIsAlone
<1> DEFINE p == parent[a]
<1>2. p \in DOMAIN parent /\ Up(parent, a, a) = p /\ Up(parent, a, None) = p
    BY <1>1, UpIs DEF Up
<1>3. c \in Chain(parent, p)
    BY <1>2, ChainSteps
<1>4. Up(parent, b, b) = p
    BY <1>2 DEF Up
<1> QED
    BY <1>3, <1>4, ChainSteps

\* The branch of one row that leaves the rows above another one.
LEMMA BranchOf ==
    ASSUME NEW parent, \A s \in SUBSET DOMAIN parent : s # {} => \E r \in s : parent[r] \notin s,
           NEW q \in DOMAIN parent, NEW r \in DOMAIN parent, q \notin Chain(parent, r)
    PROVE  \E a \in Chain(parent, q) \ Chain(parent, r) :
             Up(parent, a, None) = None \/ Up(parent, a, None) \in Chain(parent, q) \cap Chain(parent, r)
<1> DEFINE s == Chain(parent, q) \ Chain(parent, r)
<1>1. s \in SUBSET DOMAIN parent /\ q \in s
    BY ChainHas
<1>2. PICK a \in s : parent[a] \notin s
    <2> HIDE DEF s
    <2> QED
        BY <1>1
<1>3. a \in DOMAIN parent /\ a \in Chain(parent, q) /\ Up(parent, a, a) \in Chain(parent, q)
    BY <1>1, <1>2, ChainHas DEF ClosedUp
<1>4. CASE parent[a] \in DOMAIN parent
    <2>1. Up(parent, a, None) = parent[a] /\ parent[a] \in Chain(parent, q)
        BY <1>3, <1>4 DEF Up
    <2> QED
        BY <1>2, <2>1
<1>5. CASE parent[a] \notin DOMAIN parent
    BY <1>2, <1>5 DEF Up
<1> QED
    BY <1>4, <1>5

\* Rows neither of which is above the other have branches of one parent above them.
LEMMA BranchesMeet ==
    ASSUME NEW parent, ~Cyclic(parent), None \notin DOMAIN parent,
           \A s \in SUBSET DOMAIN parent : s # {} => \E r \in s : parent[r] \notin s,
           NEW q \in DOMAIN parent, NEW r \in DOMAIN parent,
           q \notin Chain(parent, r), r \notin Chain(parent, q)
    PROVE  \E a \in Chain(parent, q) \ Chain(parent, r), b \in Chain(parent, r) \ Chain(parent, q) :
             Up(parent, a, None) = Up(parent, b, None)
<1>1. PICK a \in Chain(parent, q) \ Chain(parent, r) :
             Up(parent, a, None) = None \/ Up(parent, a, None) \in Chain(parent, q) \cap Chain(parent, r)
    BY BranchOf
<1>2. PICK b \in Chain(parent, r) \ Chain(parent, q) :
             Up(parent, b, None) = None \/ Up(parent, b, None) \in Chain(parent, r) \cap Chain(parent, q)
    BY BranchOf
<1>3. a \in DOMAIN parent /\ b \in DOMAIN parent
    BY ChainHas
\* A row above both is above each branch, so above what that branch hangs on.
<1>4. ASSUME NEW x \in DOMAIN parent, NEW y \in DOMAIN parent,
             NEW c \in Chain(parent, x) \ Chain(parent, y),
             NEW p \in Chain(parent, x) \cap Chain(parent, y)
      PROVE  Up(parent, c, None) \in DOMAIN parent /\ p \in Chain(parent, Up(parent, c, None))
    <2>1. c \in DOMAIN parent /\ p \in DOMAIN parent
        BY ChainHas
    <2>2. p \in Chain(parent, c) \/ c \in Chain(parent, p)
        BY ChainIsLinear
    <2>3. c \notin Chain(parent, p)
        BY ChainWithin
    <2>4. p \in Chain(parent, c) /\ p # c
        BY <2>2, <2>3
    <2>5. c \notin rootsOf(parent)
        BY <2>4, RootIsAlone
    <2>6. parent[c] \in DOMAIN parent /\ Up(parent, c, c) = parent[c] /\ Up(parent, c, None) = parent[c]
        BY <2>1, <2>5, UpIs DEF Up
    <2> QED
        BY <2>1, <2>4, <2>6, ChainSteps
<1>5. CASE Up(parent, a, None) \in Chain(parent, q) \cap Chain(parent, r)
    <2> DEFINE p == Up(parent, a, None)
               o == Up(parent, b, None)
    <2>1. o \in DOMAIN parent /\ p \in Chain(parent, o)
        BY <1>4, <1>5
    <2>2. o \in Chain(parent, q) \cap Chain(parent, r)
        BY <1>2, <2>1
    <2>3. p \in DOMAIN parent /\ o \in Chain(parent, p)
        BY <1>4, <2>2
    <2> HIDE DEF p, o
    <2>4. p = o
        BY <2>1, <2>3, NoReturn
    <2> QED
        BY <2>4 DEF p, o
<1>6. CASE Up(parent, a, None) = None
    <2>1. Up(parent, b, None) \notin Chain(parent, q) \cap Chain(parent, r)
        BY <1>4, <1>6
    <2> QED
        BY <1>2, <1>6, <2>1
<1> QED
    BY <1>1, <1>5, <1>6

\* Whether one row is visited before another, where the rows of one parent are sorted.
Visited(parent, q, r) ==
    /\ q # r
    /\ \/ q \in Chain(parent, r)
       \/ \E a \in Chain(parent, q) \ Chain(parent, r), b \in Chain(parent, r) \ Chain(parent, q) :
            Up(parent, a, None) = Up(parent, b, None) /\ D!Before(a, b)

\* What a walk visits before what, with all that is above each row.
Precedes(rs, q, r) ==
    D!Precedes(D!Nesting(rs), [s \in rs |-> D!Above(D!Nesting(rs), s)], q, r, TRUE)

LEMMA VisitedIs ==
    ASSUME NEW rs \in SUBSET RowIds, NEW q \in rs, NEW r \in rs
    PROVE  Precedes(rs, q, r) <=> Visited(D!Nesting(rs), q, r)
<1> DEFINE nest == D!Nesting(rs)
           above == [s \in rs |-> D!Above(nest, s)]
<1>1. above[q] = Chain(nest, q) /\ above[r] = Chain(nest, r)
    BY WalkAbove
<1> HIDE DEF nest, above
<1>2. D!Precedes(nest, above, q, r, TRUE) <=> Visited(nest, q, r)
    BY <1>1, TableUp DEF D!Precedes, Visited
<1> QED
    BY <1>2 DEF nest, above, Precedes

LEMMA VisitedTransitive ==
    ASSUME order \in {1, -1}, NEW parent, DOMAIN parent \subseteq RowIds, ~Cyclic(parent),
           NEW x \in DOMAIN parent, NEW y \in DOMAIN parent, NEW z \in DOMAIN parent,
           Visited(parent, x, y), Visited(parent, y, z)
    PROVE  Visited(parent, x, z)
<1> DEFINE up(c) == Chain(parent, c)
           over(c) == Up(parent, c, None)
<1>1. None \notin DOMAIN parent
    BY TableConstants
<1>2. \A c \in DOMAIN parent : c \in up(c) /\ up(c) \in SUBSET DOMAIN parent
    BY ChainHas
<1>3. \A c \in DOMAIN parent : \A d \in up(c) : up(d) \subseteq up(c)
    BY ChainWithin
<1>4. \A c \in DOMAIN parent : \A a, b \in up(c) : a \in up(b) \/ b \in up(a)
    BY ChainIsLinear
<1>5. \A c \in DOMAIN parent : \A a, b \in up(c) : over(a) = over(b) => a = b
    BY <1>1, OneOfSiblings
<1>6. \A a, b \in DOMAIN parent : over(a) = over(b) => \A c \in up(a) : c # a => c \in up(b)
    BY <1>1, AboveSiblings
<1>7. \A a \in DOMAIN parent : \A b \in up(a) : a \in up(b) => a = b
    BY NoReturn
<1>8. /\ \A a \in DOMAIN parent : ~D!Before(a, a)
      /\ \A a, b, c \in DOMAIN parent : D!Before(a, b) /\ D!Before(b, c) => D!Before(a, c)
    BY BeforeOrders
<1>9. /\ x # y /\ y # z
      /\ \/ x \in up(y)
         \/ \E a \in up(x) \ up(y), b \in up(y) \ up(x) : over(a) = over(b) /\ D!Before(a, b)
      /\ \/ y \in up(z)
         \/ \E c \in up(y) \ up(z), d \in up(z) \ up(y) : over(c) = over(d) /\ D!Before(c, d)
    BY DEF Visited
<1>10. \A a \in up(x) \ up(z), b \in up(z) \ up(x) :
          over(a) = over(b) /\ D!Before(a, b) => Visited(parent, x, z)
    BY DEF Visited
<1>11. x \in up(z) /\ x # z => Visited(parent, x, z)
    BY DEF Visited
<1> HIDE DEF up, over
<1>12. CASE x \in up(y) /\ y \in up(z)
    <2>1. x \in up(z) /\ x # z
        BY <1>3, <1>7, <1>9, <1>12
    <2> QED
        BY <1>11, <2>1
<1>13. ASSUME x \in up(y), NEW c \in up(y) \ up(z), NEW d \in up(z) \ up(y),
              over(c) = over(d), D!Before(c, d)
       PROVE  Visited(parent, x, z)
    <2>1. c \in DOMAIN parent /\ d \in DOMAIN parent
        BY <1>2
    <2>2. CASE c \in up(x)
        <3>1. d \notin up(x)
            BY <1>3, <1>13
        <3> QED
            BY <1>10, <1>13, <2>2, <3>1
    <2>3. CASE c \notin up(x)
        <3>1. x \in up(c) /\ x # c
            BY <1>2, <1>4, <1>13, <2>3
        <3>2. x \in up(d)
            BY <1>6, <1>13, <2>1, <3>1
        <3>3. x \in up(z)
            BY <1>3, <3>2
        <3>4. x # z
            BY <1>3, <1>13
        <3> QED
            BY <1>11, <3>3, <3>4
    <2> QED
        BY <2>2, <2>3
<1>14. ASSUME y \in up(z), NEW a \in up(x) \ up(y), NEW b \in up(y) \ up(x),
              over(a) = over(b), D!Before(a, b)
       PROVE  Visited(parent, x, z)
    <2>1. b \in up(z)
        BY <1>3, <1>14
    <2>2. a \notin up(z)
        <3>1. SUFFICES ASSUME a \in up(z) PROVE FALSE
            OBVIOUS
        <3>2. a = b
            BY <1>5, <1>14, <2>1, <3>1
        <3> QED
            BY <1>14, <3>2
    <2> QED
        BY <1>10, <1>14, <2>1, <2>2
<1>15. ASSUME NEW a \in up(x) \ up(y), NEW b \in up(y) \ up(x), over(a) = over(b), D!Before(a, b),
              NEW c \in up(y) \ up(z), NEW d \in up(z) \ up(y), over(c) = over(d), D!Before(c, d)
       PROVE  Visited(parent, x, z)
    <2>1. a \in DOMAIN parent /\ b \in DOMAIN parent /\ c \in DOMAIN parent /\ d \in DOMAIN parent
        BY <1>2
    <2>2. CASE b = c
        <3>1. over(a) = over(d) /\ D!Before(a, d)
            BY <1>8, <1>15, <2>1, <2>2
        <3>2. a # d
            BY <1>8, <2>1, <3>1
        <3>3. a \notin up(z) /\ d \notin up(x)
            BY <1>5, <3>1, <3>2
        <3> QED
            BY <1>10, <3>1, <3>3
    <2>3. CASE b # c /\ b \in up(c)
        <3>1. b \in up(d)
            BY <1>6, <1>15, <2>1, <2>3
        <3>2. b \in up(z)
            BY <1>3, <3>1
        <3>3. a \notin up(z)
            <4>1. SUFFICES ASSUME a \in up(z) PROVE FALSE
                OBVIOUS
            <4>2. a = b
                BY <1>5, <1>15, <3>2, <4>1
            <4> QED
                BY <1>15, <4>2
        <3> QED
            BY <1>10, <1>15, <3>2, <3>3
    <2>4. CASE b # c /\ c \in up(b)
        <3>1. c \in up(a)
            BY <1>6, <1>15, <2>1, <2>4
        <3>2. c \in up(x)
            BY <1>3, <3>1
        <3>3. d \notin up(x)
            <4>1. SUFFICES ASSUME d \in up(x) PROVE FALSE
                OBVIOUS
            <4>2. c = d
                BY <1>5, <1>15, <3>2, <4>1
            <4> QED
                BY <1>15, <4>2
        <3> QED
            BY <1>10, <1>15, <3>2, <3>3
    <2>5. b \in up(c) \/ c \in up(b)
        BY <1>4
    <2> QED
        BY <2>2, <2>3, <2>4, <2>5
<1> QED
    BY <1>9, <1>12, <1>13, <1>14, <1>15

LEMMA VisitsOrder ==
    ASSUME order \in {1, -1}, NEW rs \in SUBSET RowIds
    PROVE  /\ \A q \in rs : ~Precedes(rs, q, q)
           /\ \A q, r \in rs : q # r => Precedes(rs, q, r) \/ Precedes(rs, r, q)
           /\ \A q, r, s \in rs : Precedes(rs, q, r) /\ Precedes(rs, r, s) => Precedes(rs, q, s)
<1> DEFINE nest == D!Nesting(rs)
<1>1. DOMAIN nest = rs /\ ~Cyclic(nest) /\ None \notin rs /\ rs \subseteq RowIds
    BY NestingIsForest, TableConstants
<1>2. \A q, r \in rs : Precedes(rs, q, r) <=> Visited(nest, q, r)
    BY VisitedIs
<1>3. \A s \in SUBSET rs : s # {} => \E r \in s : nest[r] \notin s
    BY TableConstants DEF D!Nesting
<1> HIDE DEF nest
<1>4. \A q \in rs : ~Visited(nest, q, q)
    BY DEF Visited
<1>5. ASSUME NEW q \in rs, NEW r \in rs, q # r PROVE Visited(nest, q, r) \/ Visited(nest, r, q)
    <2>1. CASE q \in Chain(nest, r) \/ r \in Chain(nest, q)
        BY <1>5, <2>1 DEF Visited
    <2>2. CASE q \notin Chain(nest, r) /\ r \notin Chain(nest, q)
        <3>1. PICK a \in Chain(nest, q) \ Chain(nest, r), b \in Chain(nest, r) \ Chain(nest, q) :
                     Up(nest, a, None) = Up(nest, b, None)
            BY <1>1, <1>3, <2>2, BranchesMeet
        <3>2. a \in RowIds /\ b \in RowIds /\ a # b
            BY <1>1, ChainHas
        <3>3. D!Before(a, b) \/ D!Before(b, a)
            BY <3>2, BeforeOrders
        <3> QED
            BY <1>5, <3>1, <3>3 DEF Visited
    <2> QED
        BY <2>1, <2>2
<1>6. \A q, r, s \in rs : Visited(nest, q, r) /\ Visited(nest, r, s) => Visited(nest, q, s)
    BY <1>1, VisitedTransitive
<1> QED
    BY <1>2, <1>4, <1>5, <1>6 DEF nest

\* Every row has a place of its own, so the rows in order hold each of them once.
LEMMA WalkIs ==
    ASSUME order \in {1, -1}, NEW rs \in SUBSET RowIds
    PROVE  /\ \A r \in rs : \E i \in 1..Cardinality(rs) : D!Walk(rs, TRUE)[i] = r
           /\ DOMAIN D!Walk(rs, TRUE) = 1..Cardinality(rs) /\ Cardinality(rs) \in Nat
           /\ \A i \in 1..Cardinality(rs) : D!Walk(rs, TRUE)[i] \in rs
           /\ \A i, j \in 1..Cardinality(rs) :
                i < j => Precedes(rs, D!Walk(rs, TRUE)[i], D!Walk(rs, TRUE)[j])
<1> DEFINE n == Cardinality(rs)
           before(q, r) == Precedes(rs, q, r)
           above(r) == {q \in rs : before(q, r)}
           place(r) == Cardinality(above(r)) + 1
           sorted == D!Walk(rs, TRUE)
<1>o. /\ \A q \in rs : ~before(q, q)
      /\ \A q, r \in rs : q # r => before(q, r) \/ before(r, q)
      /\ \A q, r, s \in rs : before(q, r) /\ before(r, s) => before(q, s)
    BY VisitsOrder
<1> HIDE DEF before
<1>1. IsFiniteSet(rs) /\ n \in Nat /\ \A r : IsFiniteSet(above(r)) /\ Cardinality(above(r)) \in Nat
    BY TableConstants, FS_Subset, FS_CardinalityType
<1>0. \A r : place(r) \in Nat
    BY <1>1
<1>2. ASSUME NEW r \in rs PROVE place(r) \in 1..n
    <2>1. above(r) \subseteq rs /\ r \notin above(r)
        BY <1>o
    <2>2. Cardinality(above(r)) <= n /\ (Cardinality(above(r)) = n => above(r) = rs)
        BY <1>1, <2>1, FS_Subset
    <2>3. Cardinality(above(r)) # n
        BY <2>1, <2>2
    <2>4. Cardinality(above(r)) \in Nat /\ n \in Nat
        BY <1>1
    <2> HIDE DEF above, n
    <2> QED
        BY <2>2, <2>3, <2>4
<1>3. ASSUME NEW r \in rs, NEW q \in rs, before(r, q) PROVE place(r) < place(q)
    <2>1. above(r) \subseteq above(q)
        BY <1>3, <1>o
    <2>2. r \in above(q) /\ r \notin above(r)
        BY <1>3, <1>o
    <2>3. /\ Cardinality(above(r)) <= Cardinality(above(q))
          /\ Cardinality(above(r)) = Cardinality(above(q)) => above(r) = above(q)
        BY <1>1, <2>1, FS_Subset
    <2>4. Cardinality(above(r)) # Cardinality(above(q))
        BY <2>2, <2>3
    <2>5. Cardinality(above(r)) \in Nat /\ Cardinality(above(q)) \in Nat
        BY <1>1
    <2> HIDE DEF above
    <2> QED
        BY <2>3, <2>4, <2>5
<1>4. ASSUME NEW r \in rs, NEW q \in rs, r # q PROVE place(r) # place(q)
    <2>1. before(r, q) \/ before(q, r)
        BY <1>4, <1>o
    <2>2. place(r) \in Nat /\ place(q) \in Nat
        BY <1>0
    <2>3. place(r) < place(q) \/ place(q) < place(r)
        BY <2>1, <1>3
    <2> HIDE DEF place
    <2> QED
        BY <2>2, <2>3
<1>5. \A i \in 1..n : \E r \in rs : place(r) = i
    <2> DEFINE at == [r \in rs |-> place(r)]
    <2>1. at \in Injection(rs, 1..n)
        <3>1. at \in [rs -> 1..n]
            BY <1>2
        <3>2. \A r, q \in rs : at[r] = at[q] => r = q
            BY <1>4
        <3> HIDE DEF at
        <3> QED
            BY <3>1, <3>2 DEF Injection, IsInjective
    <2>2. IsFiniteSet(1..n) /\ Cardinality(1..n) = n
        BY <1>1, FS_Interval
    <2>3. at \in Surjection(rs, 1..n)
        BY <1>1, <2>1, <2>2, FS_Injection, Zenon
    <2>4. \A i \in 1..n : \E r \in rs : at[r] = i
        BY <2>3 DEF Surjection
    <2> QED
        BY <2>4
<1>6. sorted = [i \in 1..n |-> CHOOSE r \in rs : place(r) = i]
    <2> DEFINE earlier == [r \in rs |-> above(r)]
    <2> DEFINE atPlace(i) == CHOOSE r \in rs : D!Cardinality(earlier[r]) + 1 = i
               counted(i) == CHOOSE r \in rs : place(r) = i
    <2>1. D!Cardinality(rs) = n
        BY SizeOfRows
    <2>2. sorted = [i \in 1..D!Cardinality(rs) |-> atPlace(i)]
        BY DEF D!Walk, D!InOrder, before, Precedes
    <2>3. \A r \in rs : D!Cardinality(earlier[r]) + 1 = place(r)
        BY SizeOfRows
    <2>4. \A i : atPlace(i) = counted(i)
        <3> HIDE DEF earlier, place
        <3> QED
            BY <2>3
    <2>5. sorted = [i \in 1..n |-> atPlace(i)]
        <3> HIDE DEF atPlace, sorted, n
        <3> QED
            BY <2>1, <2>2
    <2>6. sorted = [i \in 1..n |-> counted(i)]
        <3> HIDE DEF atPlace, counted, sorted, n
        <3> QED
            BY <2>4, <2>5
    <2> QED
        BY <2>6
<1>7. \A i \in 1..n : sorted[i] \in rs /\ place(sorted[i]) = i
    BY <1>5, <1>6
<1>8. ASSUME NEW i \in 1..n, NEW j \in 1..n, i < j PROVE before(sorted[i], sorted[j])
    <2>1. sorted[i] \in rs /\ sorted[j] \in rs /\ place(sorted[i]) < place(sorted[j])
        BY <1>7, <1>8
    <2>2. place(sorted[i]) \in Nat /\ place(sorted[j]) \in Nat
        BY <1>0, Zenon
    <2>3. sorted[i] # sorted[j]
        <3> HIDE DEF place, sorted
        <3> QED
            BY <2>1, <2>2
    <2>4. ~before(sorted[j], sorted[i])
        <3>1. ASSUME before(sorted[j], sorted[i]) PROVE place(sorted[j]) < place(sorted[i])
            BY <2>1, <3>1, <1>3
        <3> HIDE DEF place, sorted
        <3> QED
            BY <2>1, <2>2, <3>1
    <2> QED
        BY <2>1, <2>3, <2>4, <1>o
<1>9. DOMAIN sorted = 1..n
    BY <1>6
<1>10. ASSUME NEW r \in rs PROVE \E i \in 1..n : sorted[i] = r
    <2>1. place(r) \in 1..n
        BY <1>2
    <2>2. sorted[place(r)] \in rs /\ place(sorted[place(r)]) = place(r)
        BY <1>7, <2>1
    <2> HIDE DEF place, sorted
    <2>3. sorted[place(r)] = r
        BY <1>4, <2>2
    <2> QED
        BY <2>1, <2>3
<1> QED
    BY <1>1, <1>7, <1>8, <1>9, <1>10 DEF before

\* Of two rows of one parent the one that is visited first has the smaller value, or both
\* have none.
LEMMA SiblingsSorted ==
    ASSUME order \in {1, -1}, NEW rs \in SUBSET RowIds, NEW q \in rs, NEW r \in rs,
           Visited(D!Nesting(rs), q, r), Up(D!Nesting(rs), q, None) = Up(D!Nesting(rs), r, None)
    PROVE  D!Before(q, r)
<1> DEFINE nest == D!Nesting(rs)
<1>1. DOMAIN nest = rs /\ ~Cyclic(nest) /\ None \notin rs /\ rs \subseteq RowIds
    BY NestingIsForest, TableConstants
<1>2. Visited(nest, q, r) /\ Up(nest, q, None) = Up(nest, r, None)
    OBVIOUS
<1> HIDE DEF nest
<1>3. q # r /\ q \in Chain(nest, q) /\ r \in Chain(nest, r)
    BY <1>1, <1>2, ChainHas DEF Visited
<1>4. q \notin Chain(nest, r) /\ r \notin Chain(nest, q)
    BY <1>1, <1>2, <1>3, OneOfSiblings
<1>5. PICK a \in Chain(nest, q) \ Chain(nest, r), b \in Chain(nest, r) \ Chain(nest, q) :
             Up(nest, a, None) = Up(nest, b, None) /\ D!Before(a, b)
    BY <1>2, <1>4 DEF Visited
<1>6. a = q
    BY <1>1, <1>2, <1>5, AboveSiblings
<1>7. b = r
    BY <1>1, <1>2, <1>5, AboveSiblings
<1> QED
    BY <1>5, <1>6, <1>7

LEMMA EmptiesAreLast == ASSUME TableInv PROVE D!EmptiesLast
<1> DEFINE rs == D!Displayed
<1> SUFFICES ASSUME dirty = FALSE, NEW i \in DOMAIN D!displayRows, NEW j \in DOMAIN D!displayRows,
                    i < j, Key[D!displayRows[i]] = None,
                    D!Siblings(D!Nesting(rs), D!displayRows[i], D!displayRows[j])
             PROVE  Key[D!displayRows[j]] = None
    BY Zenon DEF D!EmptiesLast, TableInv, RowsFit
<1>1. rs \in SUBSET RowIds /\ D!displayRows = D!Walk(rs, TRUE)
    <2>1. bound = rendered /\ bound \in SUBSET RowIds /\ filtered \in {None} \cup SUBSET RowIds
        BY DEF TableInv, RowsFit
    <2>2. (filtered # None \/ bound = rendered) = TRUE
        BY <2>1
    <2> QED
        BY <2>1, <2>2 DEF D!displayRows, D!Displayed
<1>2. order \in {1, -1}
    BY DEF TableInv, RowsFit
<1> DEFINE q == D!Walk(rs, TRUE)[i]
           r == D!Walk(rs, TRUE)[j]
<1>3. q \in rs /\ r \in rs /\ Precedes(rs, q, r)
    <2> DEFINE walk == D!Walk(rs, TRUE)
    <2>1. /\ DOMAIN walk = 1..Cardinality(rs)
          /\ \A k \in 1..Cardinality(rs) : walk[k] \in rs
          /\ \A k, l \in 1..Cardinality(rs) : k < l => Precedes(rs, walk[k], walk[l])
        BY <1>1, <1>2, WalkIs
    <2>2. i \in DOMAIN walk /\ j \in DOMAIN walk
        BY <1>1
    <2> HIDE DEF walk, rs
    <2> QED
        BY <2>1, <2>2 DEF walk
<1>4. Visited(D!Nesting(rs), q, r)
    BY <1>1, <1>3, VisitedIs
<1>5. Up(D!Nesting(rs), q, None) = Up(D!Nesting(rs), r, None)
    <2>1. D!Siblings(D!Nesting(rs), q, r)
        BY <1>1
    <2> HIDE DEF q, r
    <2> QED
        BY <2>1, TableUp
<1>6. D!Before(q, r) /\ q \in RowIds /\ r \in RowIds /\ Key[q] = None
    BY <1>1, <1>2, <1>3, <1>4, <1>5, SiblingsSorted
<1> HIDE DEF q, r
<1>7. Key[r] = None
    BY <1>2, <1>6, BeforeIs
<1> QED
    BY <1>1, <1>7 DEF r

-----------------------------------------------------------------------------
(* Sums. *)

\* MapThenSumSet, of the values a function has on a set.
SumOver(f, s) ==
    LET iter[t \in SUBSET s] ==
            IF t = {} THEN 0 ELSE LET x == CHOOSE x \in t : TRUE IN f[x] + iter[t \ {x}]
    IN  iter[s]

AnyOf(t) == CHOOSE x \in t : TRUE

\* A function of the subsets of a set that sums up values as SumOver does.
IsSum(g, f, s) ==
    /\ DOMAIN g = SUBSET s
    /\ \A t \in SUBSET s : g[t] = IF t = {} THEN 0 ELSE f[AnyOf(t)] + g[t \ {AnyOf(t)}]

LEMMA AnyIsOne == \A t : t # {} => AnyOf(t) \in t
BY DEF AnyOf

LEMMA Smaller ==
    ASSUME NEW t, IsFiniteSet(t), NEW x \in t
    PROVE  /\ IsFiniteSet(t \ {x}) /\ Cardinality(t) \in Nat /\ Cardinality(t \ {x}) \in Nat
           /\ Cardinality(t) = Cardinality(t \ {x}) + 1
<1>1. IsFiniteSet(t \ {x}) /\ Cardinality(t \ {x}) = Cardinality(t) - 1
    BY FS_RemoveElement
<1> QED
    BY <1>1, FS_CardinalityType

\* For a family of finite sets: what holds of {} and of a set if of all its sets with one
\* element less, holds of all.
LEMMA AllFinite ==
    ASSUME NEW s, IsFiniteSet(s), NEW good \in SUBSET SUBSET s, {} \in good,
           \A t \in SUBSET s : t # {} /\ (\A x \in t : t \ {x} \in good) => t \in good
    PROVE  \A t \in SUBSET s : t \in good
<1> DEFINE sized == {n \in Nat : \A t \in SUBSET s : Cardinality(t) = n => t \in good}
<1>1. \A t \in SUBSET s : IsFiniteSet(t) /\ Cardinality(t) \in Nat
    BY FS_Subset, FS_CardinalityType
<1>2. 0 \in sized
    BY <1>1, FS_EmptySet
<1>3. ASSUME NEW n \in sized PROVE n + 1 \in sized
    <2>1. ASSUME NEW t \in SUBSET s, Cardinality(t) = n + 1 PROVE t \in good
        <3>1. t # {}
            BY <2>1, FS_EmptySet
        <3>2. ASSUME NEW x \in t PROVE t \ {x} \in good
            <4>1. Cardinality(t \ {x}) = n
                BY <1>1, <2>1, Smaller
            <4> QED
                BY <4>1
        <3> QED
            BY <3>1, <3>2
    <2> QED
        BY <2>1
<1>4. \A n \in Nat : n \in sized
    <2> HIDE DEF sized
    <2>1. sized \in SUBSET Nat
        BY DEF sized
    <2> QED
        BY <1>2, <1>3, <2>1, AllNaturals
<1> QED
    BY <1>1, <1>4

LEMMA SumExists ==
    ASSUME NEW s, IsFiniteSet(s), NEW f, \A x \in s : f[x] \in Int
    PROVE  \E g \in [SUBSET s -> Int] : IsSum(g, f, s)
<1> DEFINE dom == SUBSET s
           rank == [t \in dom |-> Cardinality(t)]
           step == [t \in dom |-> [g \in [dom -> Int] |->
                      IF t = {} THEN 0 ELSE f[AnyOf(t)] + g[t \ {AnyOf(t)}]]]
           limit == Cardinality(s) + 1
<1>1. \A t \in dom : IsFiniteSet(t) /\ Cardinality(t) \in Nat /\ Cardinality(t) <= Cardinality(s)
    BY FS_Subset, FS_CardinalityType
<1>2. limit \in Nat /\ \A t \in dom : rank[t] < limit
    <2>1. Cardinality(s) \in Nat
        BY FS_CardinalityType
    <2> QED
        BY <1>1, <2>1
<1>3. rank \in [dom -> Nat]
    BY <1>1
<1>4. ASSUME NEW t \in dom, t # {}
      PROVE  f[AnyOf(t)] \in Int /\ t \ {AnyOf(t)} \in dom /\ rank[t \ {AnyOf(t)}] < rank[t]
    <2>1. AnyOf(t) \in t
        BY <1>4, AnyIsOne
    <2>2. Cardinality(t) = Cardinality(t \ {AnyOf(t)}) + 1 /\ Cardinality(t \ {AnyOf(t)}) \in Nat
        BY <1>1, <2>1, Smaller
    <2> QED
        BY <2>1, <2>2
<1>5. step \in [dom -> [[dom -> Int] -> Int]]
    <2>1. ASSUME NEW t \in dom, NEW g \in [dom -> Int]
          PROVE  (IF t = {} THEN 0 ELSE f[AnyOf(t)] + g[t \ {AnyOf(t)}]) \in Int
        <3>1. t # {} => f[AnyOf(t)] \in Int /\ g[t \ {AnyOf(t)}] \in Int
            BY <1>4
        <3> QED
            BY <3>1
    <2> QED
        BY <2>1
<1>6. ASSUME NEW t \in dom, NEW g \in [dom -> Int], NEW h \in [dom -> Int],
             \A u \in dom : rank[u] < rank[t] => g[u] = h[u]
      PROVE  step[t][g] = step[t][h]
    <2>1. t # {} => g[t \ {AnyOf(t)}] = h[t \ {AnyOf(t)}]
        BY <1>4, <1>6
    <2> QED
        BY <2>1
<1>7. IsRecursion(dom, Int, rank, limit, step)
    <2> HIDE DEF dom, rank, step, limit
    <2>1. Int # {}
        <3>1. 0 \in Int
            OBVIOUS
        <3> QED
            BY <3>1
    <2>2. \A t \in dom : \A g, h \in [dom -> Int] :
             (\A u \in dom : rank[u] < rank[t] => g[u] = h[u]) => step[t][g] = step[t][h]
        BY <1>6
    <2> QED
        BY <1>2, <1>3, <1>5, <2>1, <2>2, Zenon DEF IsRecursion
<1>8. PICK g \in [dom -> Int] : \A t \in dom : g[t] = step[t][g]
    <2> HIDE DEF dom, rank, step, limit
    <2> QED
        BY <1>7, Recursion
<1>9. IsSum(g, f, s)
    BY <1>8 DEF IsSum
<1> QED
    BY <1>9

\* What the sums over the subsets of a set are.
SumsUp(g, f, s) ==
    /\ g \in [SUBSET s -> Int] /\ IsSum(g, f, s)
    /\ \A t \in SUBSET s : SumOver(f, t) = g[t]

Summable(f, s) == IsFiniteSet(s) /\ \A x \in s : f[x] \in Int

\* Two such functions agree where both are defined.
LEMMA SumsAgree ==
    ASSUME NEW s, NEW f, NEW g, IsSum(g, f, s), NEW t \in SUBSET s, IsFiniteSet(t), NEW h, IsSum(h, f, t)
    PROVE  \A u \in SUBSET t : g[u] = h[u]
<1> DEFINE good == {u \in SUBSET t : g[u] = h[u]}
<1>1. {} \in good
    BY DEF IsSum
<1>2. ASSUME NEW u \in SUBSET t, u # {}, \A x \in u : u \ {x} \in good PROVE u \in good
    <2>1. AnyOf(u) \in u
        BY <1>2, AnyIsOne
    <2>2. g[u \ {AnyOf(u)}] = h[u \ {AnyOf(u)}]
        BY <1>2, <2>1
    <2>3. g[u] = f[AnyOf(u)] + g[u \ {AnyOf(u)}]
        BY <1>2 DEF IsSum
    <2>4. h[u] = f[AnyOf(u)] + h[u \ {AnyOf(u)}]
        BY <1>2 DEF IsSum
    <2> QED
        BY <2>2, <2>3, <2>4
<1>3. good \in SUBSET SUBSET t
    OBVIOUS
<1> HIDE DEF good
<1>4. \A u \in SUBSET t : u \in good
    BY <1>1, <1>2, <1>3, AllFinite
<1> QED
    BY <1>4 DEF good

LEMMA SumIs ==
    ASSUME NEW s, NEW f, Summable(f, s)
    PROVE  \E g : SumsUp(g, f, s)
<1>0. IsFiniteSet(s) /\ \A x \in s : f[x] \in Int
    BY DEF Summable
<1>1. PICK g \in [SUBSET s -> Int] : IsSum(g, f, s)
    BY <1>0, SumExists
<1>2. ASSUME NEW t \in SUBSET s PROVE SumOver(f, t) = g[t]
    <2> DEFINE Iter(h) == h = [u \in SUBSET t |->
                    IF u = {} THEN 0 ELSE f[AnyOf(u)] + h[u \ {AnyOf(u)}]]
               iter == CHOOSE h : Iter(h)
    <2>1. SumOver(f, t) = iter[t]
        BY DEF SumOver, AnyOf
    <2>2. IsFiniteSet(t) /\ \A x \in t : f[x] \in Int
        BY <1>0, FS_Subset
    <2>3. PICK h \in [SUBSET t -> Int] : IsSum(h, f, t)
        BY <2>2, SumExists
    <2>4. Iter(h)
        BY <2>3 DEF IsSum
    <2>5. Iter(iter)
        BY <2>4
    <2> HIDE DEF iter
    <2>6. IsSum(iter, f, t)
        <3>1. DOMAIN iter = SUBSET t
            BY <2>5
        <3>2. \A u \in SUBSET t : iter[u] = IF u = {} THEN 0 ELSE f[AnyOf(u)] + iter[u \ {AnyOf(u)}]
            BY <2>5
        <3> QED
            BY <3>1, <3>2 DEF IsSum
    <2>7. g[t] = iter[t]
        BY <1>1, <2>2, <2>6, SumsAgree
    <2> QED
        BY <2>1, <2>7
<1> QED
    BY <1>1, <1>2 DEF SumsUp

LEMMA SumType ==
    ASSUME NEW s, IsFiniteSet(s), NEW f, \A x \in s : f[x] \in Int
    PROVE  SumOver(f, s) \in Int
<1>0. Summable(f, s)
    BY DEF Summable
<1>9. PICK g : SumsUp(g, f, s)
    BY <1>0, SumIs
<1>1. g \in [SUBSET s -> Int] /\ IsSum(g, f, s) /\ \A t \in SUBSET s : SumOver(f, t) = g[t]
    BY <1>9 DEF SumsUp
<1>2. s \in SUBSET s
    OBVIOUS
<1> QED
    BY <1>1, <1>2

LEMMA SumEmpty == ASSUME NEW f PROVE SumOver(f, {}) = 0
<1>0. Summable(f, {})
    BY FS_EmptySet DEF Summable
<1>9. PICK g : SumsUp(g, f, {})
    BY <1>0, SumIs
<1>1. g \in [SUBSET {} -> Int] /\ IsSum(g, f, {}) /\ \A t \in SUBSET {} : SumOver(f, t) = g[t]
    BY <1>9 DEF SumsUp
<1> QED
    BY <1>1 DEF IsSum

\* Whichever element is taken out first.
LEMMA SumTakes ==
    ASSUME NEW s, IsFiniteSet(s), NEW f, \A x \in s : f[x] \in Int, NEW x \in s
    PROVE  SumOver(f, s) = f[x] + SumOver(f, s \ {x})
<1>0. Summable(f, s)
    BY DEF Summable
<1>9. PICK g : SumsUp(g, f, s)
    BY <1>0, SumIs
<1>1. g \in [SUBSET s -> Int] /\ IsSum(g, f, s) /\ \A t \in SUBSET s : SumOver(f, t) = g[t]
    BY <1>9 DEF SumsUp
<1> DEFINE good == {t \in SUBSET s : \A y \in t : g[t] = f[y] + g[t \ {y}]}
<1>2. {} \in good
    OBVIOUS
<1>3. ASSUME NEW t \in SUBSET s, t # {}, \A y \in t : t \ {y} \in good PROVE t \in good
    <2> DEFINE c == AnyOf(t)
    <2>1. c \in t /\ g[t] = f[c] + g[t \ {c}]
        BY <1>1, <1>3, AnyIsOne DEF IsSum
    <2> HIDE DEF c
    <2>2. ASSUME NEW y \in t, y # c PROVE g[t] = f[y] + g[t \ {y}]
        <3>1. g[t \ {c}] = f[y] + g[(t \ {c}) \ {y}]
            BY <1>3, <2>1, <2>2
        <3>2. g[t \ {y}] = f[c] + g[(t \ {y}) \ {c}]
            BY <1>3, <2>1, <2>2
        <3>3. (t \ {c}) \ {y} = (t \ {y}) \ {c} /\ (t \ {y}) \ {c} \in SUBSET s
            OBVIOUS
        <3>4. f[y] \in Int /\ f[c] \in Int /\ g[(t \ {y}) \ {c}] \in Int
            BY <1>1, <2>1, <3>3
        <3> DEFINE fy == f[y]
                   fc == f[c]
                   rest == g[(t \ {y}) \ {c}]
        <3>5. g[t] = fc + (fy + rest) /\ g[t \ {y}] = fc + rest
            BY <2>1, <3>1, <3>2, <3>3
        <3>6. fy \in Int /\ fc \in Int /\ rest \in Int
            BY <3>4
        <3> HIDE DEF fy, fc, rest
        <3>7. fc + (fy + rest) = fy + (fc + rest)
            BY <3>6
        <3>8. g[t] = fy + g[t \ {y}]
            BY <3>5, <3>7
        <3> QED
            BY <3>8 DEF fy
    <2> QED
        BY <2>1, <2>2
<1>4. good \in SUBSET SUBSET s
    OBVIOUS
<1> HIDE DEF good
<1>5. s \in good
    BY <1>2, <1>3, <1>4, AllFinite
<1>6. g[s] = f[x] + g[s \ {x}]
    BY <1>5 DEF good
<1> QED
    BY <1>1, <1>6

LEMMA SumSame ==
    ASSUME NEW s, IsFiniteSet(s), NEW f, NEW g, \A x \in s : f[x] \in Int /\ g[x] = f[x]
    PROVE  SumOver(g, s) = SumOver(f, s)
<1> DEFINE good == {t \in SUBSET s : SumOver(g, t) = SumOver(f, t)}
<1>1. {} \in good
    BY SumEmpty
<1>2. ASSUME NEW t \in SUBSET s, t # {}, \A x \in t : t \ {x} \in good PROVE t \in good
    <2>1. PICK x \in t : TRUE
        BY <1>2
    <2>2. IsFiniteSet(t)
        BY FS_Subset
    <2>3. SumOver(f, t) = f[x] + SumOver(f, t \ {x})
        BY <2>2, SumTakes
    <2>4. SumOver(g, t) = g[x] + SumOver(g, t \ {x})
        BY <2>2, SumTakes
    <2> QED
        BY <1>2, <2>3, <2>4
<1>3. good \in SUBSET SUBSET s
    OBVIOUS
<1> HIDE DEF good
<1>4. s \in good
    BY <1>1, <1>2, <1>3, AllFinite
<1> QED
    BY <1>4 DEF good

\* The sum over two sets without a common element.
LEMMA SumOfBoth ==
    ASSUME NEW s, NEW t, IsFiniteSet(s), IsFiniteSet(t), s \cap t = {},
           NEW f, \A x \in s \cup t : f[x] \in Int
    PROVE  SumOver(f, s \cup t) = SumOver(f, s) + SumOver(f, t)
<1> DEFINE good == {u \in SUBSET s : SumOver(f, u \cup t) = SumOver(f, u) + SumOver(f, t)}
<1>1. {} \in good
    <2>1. {} \cup t = t /\ SumOver(f, t) \in Int
        BY SumType
    <2> QED
        BY <2>1, SumEmpty
<1>2. ASSUME NEW u \in SUBSET s, u # {}, \A x \in u : u \ {x} \in good PROVE u \in good
    <2>1. PICK x \in u : TRUE
        BY <1>2
    <2>2. IsFiniteSet(u) /\ IsFiniteSet(u \cup t) /\ IsFiniteSet(u \ {x})
        BY FS_Subset, FS_Union
    <2>3. SumOver(f, u) = f[x] + SumOver(f, u \ {x})
        BY <2>2, SumTakes
    <2>4. SumOver(f, u \cup t) = f[x] + SumOver(f, (u \cup t) \ {x})
        BY <2>2, SumTakes
    <2>5. (u \cup t) \ {x} = (u \ {x}) \cup t
        OBVIOUS
    <2>6. SumOver(f, (u \ {x}) \cup t) = SumOver(f, u \ {x}) + SumOver(f, t)
        BY <1>2
    <2>7. SumOver(f, u \ {x}) \in Int /\ SumOver(f, t) \in Int /\ f[x] \in Int
        BY <2>2, SumType
    <2> DEFINE fx == f[x]
               less == SumOver(f, u \ {x})
               more == SumOver(f, t)
    <2>8. SumOver(f, u) = fx + less /\ SumOver(f, u \cup t) = fx + (less + more)
        BY <2>3, <2>4, <2>5, <2>6
    <2>9. fx \in Int /\ less \in Int /\ more \in Int
        BY <2>7
    <2>10. fx + (less + more) = (fx + less) + more
        <3> HIDE DEF fx, less, more
        <3> QED
            BY <2>9
    <2>11. SumOver(f, u \cup t) = SumOver(f, u) + SumOver(f, t)
        BY <2>8, <2>10
    <2> QED
        BY <2>11
<1>3. good \in SUBSET SUBSET s
    OBVIOUS
<1> HIDE DEF good
<1>4. s \in good
    BY <1>1, <1>2, <1>3, AllFinite
<1> QED
    BY <1>4 DEF good

\* Disjoint finite sets, the values at their elements, and the sum over each.
IsSplit(g, s, parts, f) ==
    /\ IsFiniteSet(s) /\ \A c \in s : IsFiniteSet(parts[c])
    /\ \A c, e \in s : c # e => parts[c] \cap parts[e] = {}
    /\ \A c \in s : \A x \in parts[c] : f[x] \in Int
    /\ \A c \in s : g[c] = SumOver(f, parts[c])

\* The sum of sums over disjoint sets is the sum over them all.
LEMMA SumOfSums ==
    ASSUME NEW s, NEW parts, NEW f, NEW g, IsSplit(g, s, parts, f)
    PROVE  SumOver(g, s) = SumOver(f, UNION {parts[c] : c \in s})
<1> USE DEF IsSplit
<1> DEFINE All(t) == UNION {parts[c] : c \in t}
           good == {t \in SUBSET s : IsFiniteSet(All(t)) /\ SumOver(g, t) = SumOver(f, All(t))}
<1>1. {} \in good
    <2>1. All({}) = {}
        OBVIOUS
    <2> HIDE DEF All
    <2> QED
        BY <2>1, SumEmpty, FS_EmptySet
<1>2. \A c \in s : g[c] \in Int
    BY SumType
<1>3. ASSUME NEW t \in SUBSET s, t # {}, \A c \in t : t \ {c} \in good PROVE t \in good
    <2>1. PICK c \in t : TRUE
        BY <1>3
    <2>2. IsFiniteSet(t) /\ IsFiniteSet(t \ {c})
        BY FS_Subset
    <2>3. SumOver(g, t) = g[c] + SumOver(g, t \ {c})
        BY <1>2, <2>2, SumTakes
    <2>4. All(t) = parts[c] \cup All(t \ {c}) /\ parts[c] \cap All(t \ {c}) = {}
        OBVIOUS
    <2>5. IsFiniteSet(All(t \ {c})) /\ SumOver(g, t \ {c}) = SumOver(f, All(t \ {c}))
        BY <1>3
    <2>6. IsFiniteSet(parts[c]) /\ g[c] = SumOver(f, parts[c])
        OBVIOUS
    <2>7. \A x \in parts[c] \cup All(t \ {c}) : f[x] \in Int
        OBVIOUS
    <2> DEFINE this == parts[c]
               rest == All(t \ {c})
               whole == All(t)
    <2>8. /\ whole = this \cup rest /\ this \cap rest = {}
          /\ IsFiniteSet(this) /\ IsFiniteSet(rest) /\ \A x \in this \cup rest : f[x] \in Int
        BY <2>4, <2>5, <2>6, <2>7
    <2>9. SumOver(g, t) = SumOver(f, this) + SumOver(f, rest)
        BY <2>3, <2>5, <2>6
    <2> HIDE DEF this, rest, whole, All
    <2>10. IsFiniteSet(whole)
        BY <2>8, FS_Union
    <2>11. SumOver(f, this \cup rest) = SumOver(f, this) + SumOver(f, rest)
        BY <2>8, SumOfBoth
    <2>12. IsFiniteSet(whole) /\ SumOver(g, t) = SumOver(f, whole)
        BY <2>8, <2>9, <2>10, <2>11
    <2> QED
        BY <2>12 DEF whole
<1>4. good \in SUBSET SUBSET s
    OBVIOUS
<1> HIDE DEF good
<1>5. s \in good
    BY <1>1, <1>3, <1>4, AllFinite
<1> QED
    BY <1>5 DEF good

-----------------------------------------------------------------------------
(* The rows below a row, and the sums over them. *)

\* The rows below a row, itself among them, and those of them that have none below.
Below(parent, id) == {r \in DOMAIN parent : id \in Chain(parent, r)}
LeavesBelow(parent, id) == {l \in Below(parent, id) : childrenOf(parent, l) = {}}

\* A finite forest.
IsForest(parent) == IsFiniteSet(DOMAIN parent) /\ ~Cyclic(parent)

LEMMA ChildIsBelow ==
    ASSUME NEW parent, NEW id \in DOMAIN parent, NEW c \in childrenOf(parent, id)
    PROVE  /\ c \in DOMAIN parent /\ Up(parent, c, c) = id
           /\ Chain(parent, c) = {c} \cup Chain(parent, id)
<1>1. c \in DOMAIN parent /\ parent[c] = id
    BY DEF childrenOf
<1>2. Up(parent, c, c) = id
    BY <1>1 DEF Up
<1> QED
    BY <1>1, <1>2, ChainSteps

\* What is below a row and not itself is below one of its children.
LEMMA BelowAChild ==
    ASSUME NEW parent, NEW id \in DOMAIN parent, NEW r \in DOMAIN parent, r # id, id \in Chain(parent, r)
    PROVE  \E c \in childrenOf(parent, id) : c \in Chain(parent, r)
<1> SUFFICES ASSUME \A c \in childrenOf(parent, id) : c \notin Chain(parent, r) PROVE FALSE
    OBVIOUS
<1> DEFINE rest == Chain(parent, r) \ {id}
<1>1. rest \in SUBSET DOMAIN parent /\ r \in rest
    BY ChainHas
<1>2. ASSUME NEW c \in rest PROVE Up(parent, c, c) \in rest
    <2>1. c \in DOMAIN parent /\ Up(parent, c, c) \in Chain(parent, r)
        BY ChainHas DEF ClosedUp
    <2>2. parent[c] # id
        BY <2>1 DEF childrenOf
    <2>3. Up(parent, c, c) # id
        BY <2>1, <2>2, UpIs
    <2> QED
        BY <2>1, <2>3
<1>3. Chain(parent, r) \subseteq rest
    <2>1. ClosedUp(parent, rest)
        BY <1>2 DEF ClosedUp
    <2> HIDE DEF rest
    <2> QED
        BY <1>1, <2>1, ChainHas
<1> QED
    BY <1>3

\* What is below two children of a row closes a cycle.
LEMMA ChildrenApart ==
    ASSUME NEW parent, ~Cyclic(parent), NEW id \in DOMAIN parent,
           NEW c \in childrenOf(parent, id), NEW e \in childrenOf(parent, id), c # e
    PROVE  Below(parent, c) \cap Below(parent, e) = {}
<1> SUFFICES ASSUME NEW r \in DOMAIN parent, c \in Chain(parent, r), e \in Chain(parent, r) PROVE FALSE
    BY DEF Below
<1>1. c \in DOMAIN parent /\ e \in DOMAIN parent /\ parent[c] = id /\ parent[e] = id
    BY DEF childrenOf
<1>2. c \in Chain(parent, e) \/ e \in Chain(parent, c)
    BY ChainIsLinear
<1>3. c \in Chain(parent, id) \/ e \in Chain(parent, id)
    BY <1>2, ChildIsBelow
<1> QED
    BY <1>1, <1>3 DEF Cyclic

LEMMA BelowShrinks ==
    ASSUME NEW parent, IsForest(parent), NEW id \in DOMAIN parent, NEW c \in childrenOf(parent, id)
    PROVE  /\ IsFiniteSet(Below(parent, id)) /\ Cardinality(Below(parent, id)) \in Nat
           /\ Cardinality(Below(parent, c)) \in Nat
           /\ Cardinality(Below(parent, c)) < Cardinality(Below(parent, id))
<1> DEFINE less == Below(parent, c)
           more == Below(parent, id)
<1>1. c \in DOMAIN parent /\ parent[c] = id /\ id \in Chain(parent, c)
    <2>1. id \in Chain(parent, id)
        BY ChainHas
    <2> QED
        BY <2>1, ChildIsBelow DEF childrenOf
<1>2. less \subseteq more
    <2>1. ASSUME NEW r \in DOMAIN parent, c \in Chain(parent, r) PROVE id \in Chain(parent, r)
        BY <1>1, <2>1, ChainWithin
    <2> QED
        BY <2>1 DEF Below
<1>3. id \in more /\ id \notin less
    <2>1. id \in more
        BY ChainHas DEF Below
    <2>2. c \notin Chain(parent, id)
        BY <1>1 DEF IsForest, Cyclic
    <2> QED
        BY <2>1, <2>2 DEF Below
<1>4. IsFiniteSet(more) /\ IsFiniteSet(less)
    <2>1. less \subseteq DOMAIN parent /\ more \subseteq DOMAIN parent
        BY DEF Below
    <2> QED
        BY <2>1, FS_Subset DEF IsForest
<1> HIDE DEF less, more
<1>5. Cardinality(less) \in Nat /\ Cardinality(more) \in Nat /\ Cardinality(less) < Cardinality(more)
    BY <1>2, <1>3, <1>4, FS_Subset, FS_CardinalityType
<1> QED
    BY <1>4, <1>5 DEF less, more

\* What holds of a row if it holds of its children holds of all.
LEMMA ChildrenFirst ==
    ASSUME NEW parent, IsForest(parent), NEW good \in SUBSET DOMAIN parent,
           \A id \in DOMAIN parent : childrenOf(parent, id) \subseteq good => id \in good
    PROVE  \A id \in DOMAIN parent : id \in good
<1> SUFFICES ASSUME DOMAIN parent \ good # {} PROVE FALSE
    OBVIOUS
<1> DEFINE bad == DOMAIN parent \ good
           size(u) == Cardinality(Below(parent, u))
           sizes == {size(u) : u \in bad}
<1>1. \A u \in DOMAIN parent : size(u) \in Nat
    <2>1. \A u \in DOMAIN parent : Below(parent, u) \subseteq DOMAIN parent
        BY DEF Below
    <2> QED
        BY <2>1, FS_Subset, FS_CardinalityType DEF IsForest
<1>2. PICK low \in sizes : \A k \in sizes : low <= k
    <2>1. sizes \in SUBSET Nat /\ sizes # {}
        BY <1>1
    <2> HIDE DEF sizes
    <2> QED
        BY <2>1, LeastNatural
<1>3. PICK u \in bad : size(u) = low
    OBVIOUS
<1>4. PICK c \in childrenOf(parent, u) : c \notin good
    OBVIOUS
<1>5. c \in bad
    BY <1>4 DEF childrenOf
<1>6. size(c) \in Nat /\ size(u) \in Nat /\ size(c) < size(u)
    BY BelowShrinks
<1> QED
    BY <1>2, <1>3, <1>5, <1>6

\* What holds of the roots and of a row if of its parent holds of all.
LEMMA ParentsFirst ==
    ASSUME NEW parent, IsForest(parent), NEW good \in SUBSET DOMAIN parent,
           \A id \in rootsOf(parent) : id \in good,
           \A id \in DOMAIN parent \ rootsOf(parent) : parent[id] \in good => id \in good
    PROVE  \A id \in DOMAIN parent : id \in good
<1>1. reachableIds(parent) = DOMAIN parent
    BY CyclesAreLeft DEF IsForest, buildTreeFails
<1>2. rootsOf(parent) \subseteq good
    OBVIOUS
<1>3. ClosedDown(parent, good)
    BY DEF ClosedDown, rootsOf
<1>4. reachableIds(parent) \subseteq good
    BY <1>2, <1>3, ReachableIs DEF IsForest
<1> QED
    BY <1>1, <1>4

LEMMA LeavesOf ==
    ASSUME NEW parent, NEW id \in DOMAIN parent
    PROVE  LeavesBelow(parent, id) =
              IF childrenOf(parent, id) = {} THEN {id}
              ELSE UNION {LeavesBelow(parent, c) : c \in childrenOf(parent, id)}
<1>1. id \in Below(parent, id)
    BY ChainHas DEF Below
<1>2. ASSUME NEW r \in Below(parent, id), r # id
      PROVE  \E c \in childrenOf(parent, id) : r \in Below(parent, c)
    BY <1>2, BelowAChild DEF Below
<1>3. ASSUME NEW c \in childrenOf(parent, id), NEW r \in Below(parent, c) PROVE r \in Below(parent, id)
    <2>1. id \in Chain(parent, c)
        BY ChildIsBelow, ChainHas
    <2>2. r \in DOMAIN parent /\ c \in Chain(parent, r)
        BY DEF Below
    <2> QED
        BY <2>1, <2>2, ChainWithin DEF Below
<1>4. CASE childrenOf(parent, id) = {}
    BY <1>1, <1>2, <1>4 DEF LeavesBelow
<1>5. CASE childrenOf(parent, id) # {}
    <2>1. ASSUME NEW l \in LeavesBelow(parent, id)
          PROVE  \E c \in childrenOf(parent, id) : l \in LeavesBelow(parent, c)
        BY <1>2, <1>5 DEF LeavesBelow
    <2>2. ASSUME NEW c \in childrenOf(parent, id), NEW l \in LeavesBelow(parent, c)
          PROVE  l \in LeavesBelow(parent, id)
        BY <1>3 DEF LeavesBelow
    <2> QED
        BY <1>5, <2>1, <2>2
<1> QED
    BY <1>4, <1>5

LEMMA SumOfOne ==
    ASSUME NEW f, NEW x, f[x] \in Int
    PROVE  SumOver(f, {x}) = f[x]
<1>1. IsFiniteSet({x}) /\ {x} \ {x} = {}
    BY FS_Singleton
<1>2. SumOver(f, {x}) = f[x] + SumOver(f, {x} \ {x})
    BY <1>1, SumTakes
<1> QED
    BY <1>1, <1>2, SumEmpty

\* The sum over the leaves below a row is that of its children.
LEMMA LeafSums ==
    ASSUME NEW parent, IsForest(parent), NEW amounts, \A r \in DOMAIN parent : amounts[r] \in Int,
           NEW id \in DOMAIN parent,
           NEW sums, \A c \in childrenOf(parent, id) : sums[c] = SumOver(amounts, LeavesBelow(parent, c))
    PROVE  SumOver(amounts, LeavesBelow(parent, id)) =
              IF childrenOf(parent, id) = {} THEN amounts[id] ELSE SumOver(sums, childrenOf(parent, id))
<1> DEFINE children == childrenOf(parent, id)
           leaves == [c \in children |-> LeavesBelow(parent, c)]
<1>1. CASE children = {}
    BY <1>1, LeavesOf, SumOfOne
<1>2. CASE children # {}
    <2>1. LeavesBelow(parent, id) = UNION {leaves[c] : c \in children}
        BY <1>2, LeavesOf
    <2>2. children \subseteq DOMAIN parent /\ IsFiniteSet(children)
        <3>1. children \subseteq DOMAIN parent
            BY DEF childrenOf
        <3> QED
            BY <3>1, FS_Subset DEF IsForest
    <2>3. \A c \in children : leaves[c] \subseteq DOMAIN parent /\ IsFiniteSet(leaves[c])
        <3>1. \A c \in children : leaves[c] \subseteq DOMAIN parent
            BY DEF LeavesBelow, Below
        <3> QED
            BY <3>1, FS_Subset DEF IsForest
    <2>4. \A c, e \in children : c # e => leaves[c] \cap leaves[e] = {}
        <3>1. SUFFICES ASSUME NEW c \in children, NEW e \in children, c # e
                       PROVE  leaves[c] \cap leaves[e] = {}
            OBVIOUS
        <3>2. Below(parent, c) \cap Below(parent, e) = {}
            BY <3>1, ChildrenApart DEF IsForest
        <3> QED
            BY <3>2 DEF LeavesBelow
    <2>5. \A c \in children : \A x \in leaves[c] : amounts[x] \in Int
        BY <2>3
    <2>6. \A c \in children : sums[c] = SumOver(amounts, leaves[c])
        OBVIOUS
    <2> HIDE DEF children, leaves
    <2>7. IsSplit(sums, children, leaves, amounts)
        BY <2>2, <2>3, <2>4, <2>5, <2>6 DEF IsSplit
    <2>8. SumOver(sums, children) = SumOver(amounts, UNION {leaves[c] : c \in children})
        BY <2>7, SumOfSums
    <2> QED
        BY <1>2, <2>1, <2>8 DEF children
<1> QED
    BY <1>1, <1>2

\* How computeTreeAggregates sums up.
IsAggregate(sums, parent, amounts) ==
    sums = [id \in DOMAIN parent |->
                IF childrenOf(parent, id) = {} THEN amounts[id]
                ELSE SumOver(sums, childrenOf(parent, id))]

\* The sum of a row is that of the leaves below it.
LEMMA AggregatesAre ==
    ASSUME NEW parent, IsForest(parent), NEW amounts, \A r \in DOMAIN parent : amounts[r] \in Int
    PROVE  \A id \in DOMAIN parent :
              computeTreeAggregates(parent, amounts)[id] = SumOver(amounts, LeavesBelow(parent, id))
<1> DEFINE sums == CHOOSE f : IsAggregate(f, parent, amounts)
           exact == [id \in DOMAIN parent |-> SumOver(amounts, LeavesBelow(parent, id))]
<1>1. computeTreeAggregates(parent, amounts) = sums
    BY DEF computeTreeAggregates, IsAggregate, SumOver, MapThenSumSet, MapThenFoldSet
<1>2. IsAggregate(exact, parent, amounts)
    <2>1. ASSUME NEW id \in DOMAIN parent
          PROVE  exact[id] = IF childrenOf(parent, id) = {} THEN amounts[id]
                             ELSE SumOver(exact, childrenOf(parent, id))
        <3>1. \A c \in childrenOf(parent, id) : exact[c] = SumOver(amounts, LeavesBelow(parent, c))
            BY DEF childrenOf
        <3>2. exact[id] = SumOver(amounts, LeavesBelow(parent, id))
            OBVIOUS
        <3> HIDE DEF exact
        <3> QED
            BY <3>1, <3>2, LeafSums
    <2>2. exact = [id \in DOMAIN parent |-> exact[id]]
        OBVIOUS
    <2> HIDE DEF exact
    <2> QED
        BY <2>1, <2>2 DEF IsAggregate
<1>3. IsAggregate(sums, parent, amounts)
    BY <1>2
<1> HIDE DEF sums
<1>4. ASSUME NEW id \in DOMAIN parent
      PROVE  sums[id] = IF childrenOf(parent, id) = {} THEN amounts[id]
                        ELSE SumOver(sums, childrenOf(parent, id))
    BY <1>3 DEF IsAggregate
<1> DEFINE good == {id \in DOMAIN parent : sums[id] = SumOver(amounts, LeavesBelow(parent, id))}
<1>5. ASSUME NEW id \in DOMAIN parent, childrenOf(parent, id) \subseteq good PROVE id \in good
    <2>1. \A c \in childrenOf(parent, id) : sums[c] = SumOver(amounts, LeavesBelow(parent, c))
        BY <1>5
    <2>2. SumOver(amounts, LeavesBelow(parent, id)) =
              IF childrenOf(parent, id) = {} THEN amounts[id] ELSE SumOver(sums, childrenOf(parent, id))
        BY <2>1, LeafSums
    <2> QED
        BY <1>4, <2>2
<1>6. good \in SUBSET DOMAIN parent
    OBVIOUS
<1> HIDE DEF good
<1>7. \A id \in DOMAIN parent : id \in good
    BY <1>5, <1>6, ChildrenFirst
<1> QED
    BY <1>1, <1>7 DEF good

-----------------------------------------------------------------------------
(* Changes of a forest, its roots and its depths. *)

\* Two forests that agree from a row upwards.
LEMMA SameUp ==
    ASSUME NEW parent, NEW other, NEW id \in DOMAIN parent, Chain(parent, id) \subseteq DOMAIN other,
           \A a \in Chain(parent, id) : Up(other, a, a) = Up(parent, a, a)
    PROVE  Chain(other, id) = Chain(parent, id)
<1>1. id \in Chain(parent, id) /\ id \in DOMAIN other /\ ClosedUp(parent, Chain(parent, id))
      /\ Chain(parent, id) \in SUBSET DOMAIN parent
    BY ChainHas
<1>2. ClosedUp(other, Chain(parent, id))
    BY <1>1 DEF ClosedUp
<1>3. Chain(other, id) \subseteq Chain(parent, id)
    BY <1>1, <1>2, ChainHas
<1>4. ClosedUp(parent, Chain(other, id)) /\ id \in Chain(other, id)
    BY <1>1, <1>3, ChainHas DEF ClosedUp
<1>5. Chain(parent, id) \subseteq Chain(other, id)
    BY <1>1, <1>3, <1>4, ChainHas
<1> QED
    BY <1>3, <1>5

\* A row that is new or gets another parent closes no cycle, unless it lies above that parent.
LEMMA Reparented ==
    ASSUME NEW parent, ~Cyclic(parent), NEW id, NEW after, DOMAIN after = DOMAIN parent \cup {id},
           \A c \in DOMAIN parent \ {id} : after[c] = parent[c],
           \A c \in DOMAIN parent \ {id} : parent[c] \in DOMAIN after => parent[c] \in DOMAIN parent,
           after[id] # id, after[id] \in DOMAIN parent => id \notin Chain(parent, after[id])
    PROVE  ~Cyclic(after)
<1> DEFINE p == after[id]
           over(x) == IF x \in DOMAIN parent THEN Chain(parent, x) ELSE {}
<1>1. ASSUME NEW c \in DOMAIN parent \ {id} PROVE Up(after, c, c) = Up(parent, c, c)
    BY DEF Up
<1>2. ASSUME NEW y \in DOMAIN parent, id \notin Chain(parent, y) PROVE Chain(after, y) = Chain(parent, y)
    <2>1. Chain(parent, y) \subseteq DOMAIN parent \ {id}
        BY <1>2, ChainHas
    <2> QED
        BY <1>1, <2>1, SameUp
<1>3. \A x : over(x) \subseteq DOMAIN parent /\ \A c \in over(x) : Up(parent, c, c) \in over(x)
    BY ChainHas DEF ClosedUp
<1>4. id \notin over(p)
    OBVIOUS
<1>5. p \in DOMAIN parent => p \in over(p)
    BY ChainHas
<1>6. Up(after, id, id) = IF p \in DOMAIN parent THEN p ELSE id
    BY DEF Up
<1>7. ASSUME NEW x \in DOMAIN after PROVE Chain(after, x) \subseteq over(x) \cup {id} \cup over(p)
    <2> DEFINE w == over(x) \cup {id} \cup over(p)
    <2>1. x \in w
        BY ChainHas
    <2>2. w \in SUBSET DOMAIN after
        BY <1>3
    <2>3. ASSUME NEW c \in w PROVE Up(after, c, c) \in w
        <3> HIDE DEF over
        <3>1. CASE c = id
            BY <1>5, <1>6, <3>1
        <3>2. CASE c # id
            BY <1>1, <1>3, <3>2
        <3> QED
            BY <3>1, <3>2
    <2> HIDE DEF w
    <2>4. ClosedUp(after, w)
        BY <2>3 DEF ClosedUp
    <2>5. Chain(after, x) \subseteq w
        BY <2>1, <2>2, <2>4, ChainHas
    <2> QED
        BY <2>5 DEF w
<1> SUFFICES ASSUME NEW x \in DOMAIN after, NEW a \in Chain(after, x), after[a] = x PROVE FALSE
    BY DEF Cyclic
<1>8. a \in over(x) \cup {id} \cup over(p)
    BY <1>7
<1>9. CASE a = id
    <2>1. p = x /\ p \in DOMAIN parent
        BY <1>9
    <2>2. id \in Chain(parent, p)
        BY <1>2, <1>9, <2>1
    <2> QED
        BY <2>1, <2>2
<1>10. CASE a # id
    <2>1. a \in DOMAIN parent /\ parent[a] = x /\ x \in DOMAIN parent /\ Up(parent, a, a) = x
        BY <1>3, <1>8, <1>10 DEF Up
    <2>2. CASE a \in Chain(parent, x)
        BY <2>1, <2>2 DEF Cyclic
    <2>3. CASE a \in over(p)
        <3>1. p \in DOMAIN parent /\ x \in Chain(parent, p)
            BY <1>3, <2>1, <2>3
        <3>2. id \notin Chain(parent, x)
            BY <3>1, ChainWithin
        <3>3. a \in Chain(parent, x)
            BY <1>2, <2>1, <3>2
        <3> QED
            BY <2>1, <3>3 DEF Cyclic
    <2> QED
        BY <1>8, <1>10, <2>1, <2>2, <2>3
<1> QED
    BY <1>9, <1>10

\* Every row is below a root, and below one only.
LEMMA BelowARoot ==
    ASSUME NEW parent, IsForest(parent), NEW id \in DOMAIN parent
    PROVE  \E r \in rootsOf(parent) : r \in Chain(parent, id)
<1> DEFINE good == {c \in DOMAIN parent : \E r \in rootsOf(parent) : r \in Chain(parent, c)}
<1>1. \A c \in rootsOf(parent) : c \in good
    BY ChainHas DEF rootsOf
<1>2. ASSUME NEW c \in DOMAIN parent \ rootsOf(parent), parent[c] \in good PROVE c \in good
    <2>1. Chain(parent, c) = {c} \cup Chain(parent, parent[c])
        BY ChainSteps, UpIs
    <2> QED
        BY <1>2, <2>1
<1>3. good \in SUBSET DOMAIN parent
    OBVIOUS
<1> HIDE DEF good
<1>4. id \in good
    BY <1>1, <1>2, <1>3, ParentsFirst
<1> QED
    BY <1>4 DEF good

LEMMA RootsApart ==
    ASSUME NEW parent, NEW q \in rootsOf(parent), NEW r \in rootsOf(parent), q # r
    PROVE  LeavesBelow(parent, q) \cap LeavesBelow(parent, r) = {}
<1> SUFFICES ASSUME NEW l \in DOMAIN parent, q \in Chain(parent, l), r \in Chain(parent, l) PROVE FALSE
    BY DEF LeavesBelow, Below
<1>1. q \in Chain(parent, r) \/ r \in Chain(parent, q)
    BY ChainIsLinear
<1> QED
    BY <1>1, RootIsAlone

LEMMA SumOfNothing ==
    ASSUME NEW s, IsFiniteSet(s), NEW f, \A x \in s : f[x] = 0
    PROVE  SumOver(f, s) = 0
<1> DEFINE good == {t \in SUBSET s : SumOver(f, t) = 0}
<1>1. {} \in good
    BY SumEmpty
<1>2. ASSUME NEW t \in SUBSET s, t # {}, \A x \in t : t \ {x} \in good PROVE t \in good
    <2>1. PICK x \in t : TRUE
        BY <1>2
    <2>2. IsFiniteSet(t) /\ \A y \in t : f[y] \in Int
        BY FS_Subset
    <2>3. SumOver(f, t) = f[x] + SumOver(f, t \ {x})
        BY <2>2, SumTakes
    <2> QED
        BY <1>2, <2>3
<1>3. good \in SUBSET SUBSET s
    OBVIOUS
<1> HIDE DEF good
<1>4. s \in good
    BY <1>1, <1>2, <1>3, AllFinite
<1> QED
    BY <1>4 DEF good

\* What has no amount does not count.
LEMMA SumOfThose ==
    ASSUME NEW s, IsFiniteSet(s), NEW f, \A x \in s : f[x] \in Int,
           NEW u, \A x \in s \ u : f[x] = 0
    PROVE  SumOver(f, s) = SumOver(f, s \cap u)
<1>1. IsFiniteSet(s \cap u) /\ IsFiniteSet(s \ u)
    BY FS_Subset
<1>2. SumOver(f, s \ u) = 0
    BY <1>1, SumOfNothing
<1>3. (s \cap u) \cup (s \ u) = s /\ (s \cap u) \cap (s \ u) = {}
    OBVIOUS
<1>4. SumOver(f, (s \cap u) \cup (s \ u)) = SumOver(f, s \cap u) + SumOver(f, s \ u)
    <2> DEFINE these == s \cap u
               others == s \ u
    <2>1. these \cap others = {} /\ \A x \in these \cup others : f[x] \in Int
        OBVIOUS
    <2>2. IsFiniteSet(these) /\ IsFiniteSet(others)
        BY <1>1
    <2> HIDE DEF these, others
    <2>3. SumOver(f, these \cup others) = SumOver(f, these) + SumOver(f, others)
        BY <2>1, <2>2, SumOfBoth
    <2> QED
        BY <2>3 DEF these, others
<1>5. SumOver(f, s \cap u) \in Int
    BY <1>1, SumType
<1> DEFINE sum == SumOver(f, s \cap u)
<1>6. SumOver(f, s) = sum + 0
    BY <1>2, <1>3, <1>4
<1>7. sum \in Int
    BY <1>5
<1> HIDE DEF sum
<1>8. SumOver(f, s) = sum
    BY <1>6, <1>7
<1> QED
    BY <1>8 DEF sum

\* The roots' sums add up to all the leaves.
LEMMA TotalsAre ==
    ASSUME NEW parent, IsForest(parent), NEW amounts, \A r \in DOMAIN parent : amounts[r] \in Int,
           NEW sums, \A r \in rootsOf(parent) : sums[r] = SumOver(amounts, LeavesBelow(parent, r))
    PROVE  SumOver(sums, rootsOf(parent)) =
              SumOver(amounts, {l \in DOMAIN parent : childrenOf(parent, l) = {}})
<1> DEFINE roots == rootsOf(parent)
           leaves == [r \in roots |-> LeavesBelow(parent, r)]
<1>1. {l \in DOMAIN parent : childrenOf(parent, l) = {}} = UNION {leaves[r] : r \in roots}
    BY BelowARoot DEF LeavesBelow, Below, rootsOf
<1>2. IsFiniteSet(roots)
    <2>1. roots \subseteq DOMAIN parent
        BY DEF rootsOf
    <2> QED
        BY <2>1, FS_Subset DEF IsForest
<1>3. \A r \in roots : leaves[r] \subseteq DOMAIN parent /\ IsFiniteSet(leaves[r])
    <2>1. \A r \in roots : leaves[r] \subseteq DOMAIN parent
        BY DEF LeavesBelow, Below
    <2> QED
        BY <2>1, FS_Subset DEF IsForest
<1>4. \A q, r \in roots : q # r => leaves[q] \cap leaves[r] = {}
    BY RootsApart
<1>5. \A r \in roots : \A x \in leaves[r] : amounts[x] \in Int
    BY <1>3
<1>6. \A r \in roots : sums[r] = SumOver(amounts, leaves[r])
    OBVIOUS
<1>8. \A r \in roots : IsFiniteSet(leaves[r])
    BY <1>3
<1> HIDE DEF roots, leaves
<1>9. IsSplit(sums, roots, leaves, amounts)
    BY <1>2, <1>4, <1>5, <1>6, <1>8 DEF IsSplit
<1>7. SumOver(sums, roots) = SumOver(amounts, UNION {leaves[r] : r \in roots})
    BY <1>9, SumOfSums
<1> QED
    BY <1>1, <1>7 DEF roots

\* The depth of a row is the number of those above it.
IsDepth(depth, parent) ==
    depth = [id \in DOMAIN parent |-> IF id \in rootsOf(parent) THEN 0 ELSE depth[parent[id]] + 1]

LEMMA DepthsAre ==
    ASSUME NEW parent, IsForest(parent)
    PROVE  \A id \in DOMAIN parent : depthOf(parent)[id] \in Nat
                                     /\ (id \in rootsOf(parent) => depthOf(parent)[id] = 0)
<1> DEFINE depth == CHOOSE f : IsDepth(f, parent)
           exact == [id \in DOMAIN parent |-> Cardinality(Chain(parent, id)) - 1]
<1>1. depthOf(parent) = depth
    BY DEF depthOf, IsDepth
<1>2. IsDepth(exact, parent)
    <2>1. ASSUME NEW id \in DOMAIN parent
          PROVE  exact[id] = IF id \in rootsOf(parent) THEN 0 ELSE exact[parent[id]] + 1
        <3>1. CASE id \in rootsOf(parent)
            <4>1. Chain(parent, id) = {id}
                BY <3>1, RootIsAlone
            <4> QED
                BY <3>1, <4>1, FS_Singleton
        <3>2. CASE id \notin rootsOf(parent)
            <4> DEFINE p == parent[id]
                       more == Chain(parent, id)
                       less == Chain(parent, p)
            <4>1. p \in DOMAIN parent /\ Up(parent, id, id) = p
                BY <3>2, UpIs
            <4>2. more = {id} \cup less
                BY <4>1, ChainSteps
            <4>3. id \notin less
                <5>1. SUFFICES ASSUME id \in less PROVE FALSE
                    OBVIOUS
                <5>2. p \in more
                    BY <4>1, <4>2, ChainHas
                <5>3. id = p
                    BY <4>1, <5>1, <5>2, NoReturn DEF IsForest
                <5> QED
                    BY <4>1, <5>2, <5>3 DEF IsForest, Cyclic
            <4>4. IsFiniteSet(more) /\ id \in more /\ more \ {id} = less
                <5>1. more \subseteq DOMAIN parent
                    BY ChainHas
                <5> QED
                    BY <4>2, <4>3, <5>1, FS_Subset DEF IsForest
            <4> HIDE DEF more, less
            <4>5. Cardinality(more) = Cardinality(less) + 1 /\ Cardinality(less) \in Nat
                BY <4>4, Smaller
            <4>6. exact[id] = Cardinality(more) - 1 /\ exact[p] = Cardinality(less) - 1
                BY <4>1 DEF more, less
            <4> HIDE DEF exact
            <4> QED
                BY <3>2, <4>5, <4>6
        <3> QED
            BY <3>1, <3>2
    <2>2. exact = [id \in DOMAIN parent |-> exact[id]]
        OBVIOUS
    <2> HIDE DEF exact
    <2> QED
        BY <2>1, <2>2 DEF IsDepth
<1>3. IsDepth(depth, parent)
    BY <1>2
<1> HIDE DEF depth
<1>4. ASSUME NEW id \in DOMAIN parent
      PROVE  depth[id] = IF id \in rootsOf(parent) THEN 0 ELSE depth[parent[id]] + 1
    BY <1>3 DEF IsDepth
<1> DEFINE good == {id \in DOMAIN parent : depth[id] \in Nat}
<1>5. \A id \in rootsOf(parent) : id \in good
    BY <1>4 DEF rootsOf
<1>6. \A id \in DOMAIN parent \ rootsOf(parent) : parent[id] \in good => id \in good
    BY <1>4
<1>7. good \in SUBSET DOMAIN parent
    OBVIOUS
<1> HIDE DEF good
<1>8. \A id \in DOMAIN parent : id \in good
    BY <1>5, <1>6, <1>7, ParentsFirst
<1> QED
    BY <1>1, <1>4, <1>8 DEF good

\* What is left of a forest if of each row all above stay.
LEMMA Restricted ==
    ASSUME NEW parent, IsForest(parent), NEW s \in SUBSET DOMAIN parent, ClosedUp(parent, s),
           NEW less, DOMAIN less = s, \A id \in s : less[id] = parent[id]
    PROVE  IsForest(less)
<1>1. IsFiniteSet(DOMAIN less)
    BY FS_Subset DEF IsForest
<1>2. ASSUME NEW id \in s PROVE Chain(less, id) = Chain(parent, id)
    <2>1. Chain(parent, id) \subseteq s
        BY ChainHas
    <2>2. \A a \in s : Up(less, a, a) = Up(parent, a, a)
        BY DEF ClosedUp, Up
    <2> QED
        BY <2>1, <2>2, SameUp
<1>3. ~Cyclic(less)
    <2>1. ASSUME NEW id \in s, NEW a \in Chain(less, id), less[a] = id PROVE FALSE
        <3>1. a \in Chain(parent, id) /\ a \in s
            BY <1>2, ChainHas
        <3> QED
            BY <2>1, <3>1 DEF IsForest, Cyclic
    <2> QED
        BY <2>1 DEF Cyclic
<1> QED
    BY <1>1, <1>3 DEF IsForest

LEMMA GreatestOf ==
    ASSUME NEW s, IsFiniteSet(s), s # {}, NEW f, \A x \in s : f[x] \in Nat
    PROVE  \E x \in s : \A y \in s : f[y] <= f[x]
<1> DEFINE good == {t \in SUBSET s : t # {} => \E x \in t : \A y \in t : f[y] <= f[x]}
<1>1. {} \in good
    OBVIOUS
<1>2. ASSUME NEW t \in SUBSET s, t # {}, \A x \in t : t \ {x} \in good PROVE t \in good
    <2>1. PICK x \in t : TRUE
        BY <1>2
    <2>2. CASE t \ {x} = {}
        BY <2>1, <2>2
    <2>3. CASE t \ {x} # {}
        <3>1. PICK z \in t \ {x} : \A y \in t \ {x} : f[y] <= f[z]
            BY <1>2, <2>3
        <3>2. f[x] \in Nat /\ f[z] \in Nat
            OBVIOUS
        <3>3. CASE f[x] <= f[z]
            BY <3>1, <3>3
        <3>4. CASE f[z] < f[x]
            BY <3>1, <3>2, <3>4
        <3> QED
            BY <3>2, <3>3, <3>4
    <2> QED
        BY <2>2, <2>3
<1>3. good \in SUBSET SUBSET s
    OBVIOUS
<1> HIDE DEF good
<1>4. s \in good
    BY <1>1, <1>2, <1>3, AllFinite
<1> QED
    BY <1>4 DEF good

-----------------------------------------------------------------------------
(* The rows of a report, and what is left of them. *)

\* The roots' sums, where only some of the leaves have an amount.
LEMMA TotalOfThose ==
    ASSUME NEW parent, IsForest(parent), NEW amounts, \A r \in DOMAIN parent : amounts[r] \in Int,
           NEW u \in SUBSET DOMAIN parent, \A r \in u : childrenOf(parent, r) = {},
           \A r \in DOMAIN parent \ u : amounts[r] = 0
    PROVE  SumOver(computeTreeAggregates(parent, amounts), rootsOf(parent)) = SumOver(amounts, u)
<1> DEFINE sums == computeTreeAggregates(parent, amounts)
           leaves == {l \in DOMAIN parent : childrenOf(parent, l) = {}}
<1>1. \A r \in rootsOf(parent) : sums[r] = SumOver(amounts, LeavesBelow(parent, r))
    BY AggregatesAre DEF rootsOf
<1> HIDE DEF sums
<1>2. SumOver(sums, rootsOf(parent)) = SumOver(amounts, leaves)
    BY <1>1, TotalsAre
<1>3. IsFiniteSet(leaves)
    BY FS_Subset DEF IsForest
<1>4. /\ \A l \in leaves : amounts[l] \in Int
      /\ \A l \in leaves \ u : amounts[l] = 0
      /\ leaves \cap u = u
    OBVIOUS
<1> HIDE DEF leaves
<1>5. SumOver(amounts, leaves) = SumOver(amounts, leaves \cap u)
    BY <1>3, <1>4, SumOfThose
<1> QED
    BY <1>2, <1>4, <1>5 DEF sums

\* The rows of a report: the transactions tx, each below the category it belongs to or below
\* top, and the categories inc above them, as they are in the forest p of all categories.
IsReport(rs, p, home, tx, inc, top) ==
    /\ IsForest(p) /\ \A c \in DOMAIN p : p[c] \in DOMAIN p \cup {None}
    /\ IsFiniteSet(tx) /\ \A t \in tx : home[t] \in DOMAIN p \cup {None}
    /\ tx \cap DOMAIN p = {} /\ top \notin DOMAIN p \cup tx /\ None \notin DOMAIN p \cup tx \cup {top}
    /\ inc = UNION {Chain(p, home[t]) : t \in {v \in tx : home[v] # None}}
    /\ DOMAIN rs = {top} \cup inc \cup tx
    /\ rs[top] = None
    /\ \A t \in tx : rs[t] = IF home[t] = None THEN top ELSE home[t]
    /\ \A c \in inc : rs[c] = p[c]

LEMMA ReportUp ==
    ASSUME NEW rs, NEW p, NEW home, NEW tx, NEW inc, NEW top, IsReport(rs, p, home, tx, inc, top)
    PROVE  /\ inc \in SUBSET DOMAIN p /\ ClosedUp(p, inc)
           /\ \A t \in tx : home[t] # None => home[t] \in inc /\ Chain(p, home[t]) \subseteq inc
           /\ Up(rs, top, top) = top
           /\ \A c \in inc : Up(rs, c, c) = Up(p, c, c)
           /\ \A t \in tx : Up(rs, t, t) = rs[t] /\ rs[t] \in DOMAIN rs
<1> USE DEF IsReport
<1>1. ASSUME NEW t \in tx, home[t] # None
      PROVE  /\ home[t] \in DOMAIN p /\ home[t] \in Chain(p, home[t])
             /\ Chain(p, home[t]) \in SUBSET DOMAIN p /\ ClosedUp(p, Chain(p, home[t]))
    <2>1. home[t] \in DOMAIN p
        BY <1>1
    <2> QED
        BY <2>1, ChainHas
<1>2. inc \in SUBSET DOMAIN p
    BY <1>1
<1>3. ASSUME NEW c \in inc PROVE Up(p, c, c) \in inc
    <2>1. PICK t \in tx : home[t] # None /\ c \in Chain(p, home[t])
        OBVIOUS
    <2>2. Up(p, c, c) \in Chain(p, home[t])
        BY <1>1, <2>1 DEF ClosedUp
    <2> QED
        BY <2>1, <2>2
<1>4. \A t \in tx : home[t] # None => home[t] \in inc /\ Chain(p, home[t]) \subseteq inc
    BY <1>1
<1>5. Up(rs, top, top) = top
    <2>1. None \notin DOMAIN rs
        BY <1>2
    <2> QED
        BY <2>1 DEF Up
<1>6. ASSUME NEW c \in inc PROVE Up(rs, c, c) = Up(p, c, c)
    <2>1. c \in DOMAIN p /\ rs[c] = p[c] /\ p[c] \in DOMAIN p \cup {None}
        BY <1>2
    <2>2. p[c] \in DOMAIN p => p[c] \in inc
        BY <1>3, <2>1 DEF Up
    <2>3. p[c] \in DOMAIN rs <=> p[c] \in DOMAIN p
        BY <1>2, <2>1, <2>2
    <2> QED
        BY <2>1, <2>3 DEF Up
<1>7. \A t \in tx : Up(rs, t, t) = rs[t] /\ rs[t] \in DOMAIN rs
    BY <1>4 DEF Up
<1> QED
    BY <1>2, <1>3, <1>4, <1>5, <1>6, <1>7 DEF ClosedUp

LEMMA ReportChains ==
    ASSUME NEW rs, NEW p, NEW home, NEW tx, NEW inc, NEW top, IsReport(rs, p, home, tx, inc, top)
    PROVE  /\ Chain(rs, top) = {top}
           /\ \A c \in inc : Chain(rs, c) = Chain(p, c)
           /\ \A t \in tx : Chain(rs, t) = {t} \cup IF home[t] = None THEN {top} ELSE Chain(p, home[t])
<1>1. /\ inc \in SUBSET DOMAIN p /\ ClosedUp(p, inc)
      /\ \A t \in tx : home[t] # None => home[t] \in inc /\ Chain(p, home[t]) \subseteq inc
      /\ Up(rs, top, top) = top
      /\ \A c \in inc : Up(rs, c, c) = Up(p, c, c)
      /\ \A t \in tx : Up(rs, t, t) = rs[t] /\ rs[t] \in DOMAIN rs
    BY ReportUp
<1>2. DOMAIN rs = {top} \cup inc \cup tx /\ rs[top] = None
      /\ \A t \in tx : rs[t] = IF home[t] = None THEN top ELSE home[t]
    BY DEF IsReport
<1>3. None \notin DOMAIN rs
    BY <1>1, <1>2 DEF IsReport
<1>4. Chain(rs, top) = {top}
    BY <1>2, <1>3, RootIsAlone DEF rootsOf
<1>5. ASSUME NEW c \in inc PROVE Chain(rs, c) = Chain(p, c)
    <2>1. Chain(p, c) \subseteq inc
        BY <1>1, ChainHas
    <2>2. c \in DOMAIN p /\ Chain(p, c) \subseteq DOMAIN rs
        BY <1>1, <1>2, <2>1
    <2>3. \A a \in Chain(p, c) : Up(rs, a, a) = Up(p, a, a)
        BY <1>1, <2>1
    <2> QED
        BY <2>2, <2>3, SameUp
<1>6. ASSUME NEW t \in tx
      PROVE  Chain(rs, t) = {t} \cup IF home[t] = None THEN {top} ELSE Chain(p, home[t])
    <2>1. Chain(rs, t) = {t} \cup Chain(rs, rs[t])
        BY <1>1, <1>2, ChainSteps
    <2> QED
        BY <1>1, <1>2, <1>4, <1>5, <2>1
<1> QED
    BY <1>4, <1>5, <1>6

LEMMA ReportIsForest ==
    ASSUME NEW rs, NEW p, NEW home, NEW tx, NEW inc, NEW top, IsReport(rs, p, home, tx, inc, top)
    PROVE  IsForest(rs) /\ \A t \in tx : childrenOf(rs, t) = {}
<1>1. inc \in SUBSET DOMAIN p
    BY ReportUp
<1>2. IsFiniteSet(DOMAIN rs)
    <2>1. IsFiniteSet(inc) /\ IsFiniteSet(tx) /\ IsFiniteSet({top})
        BY <1>1, FS_Subset, FS_Singleton DEF IsReport, IsForest
    <2>2. IsFiniteSet({top} \cup inc)
        BY <2>1, FS_Union
    <2>3. IsFiniteSet(({top} \cup inc) \cup tx)
        BY <2>1, <2>2, FS_Union
    <2> QED
        BY <2>3 DEF IsReport
<1>3. \A r \in DOMAIN rs : rs[r] \notin tx
    BY <1>1 DEF IsReport
<1>4. ASSUME NEW id \in DOMAIN rs, NEW a \in Chain(rs, id), rs[a] = id PROVE FALSE
    <2>1. Chain(rs, top) = {top} /\ \A c \in inc : Chain(rs, c) = Chain(p, c)
        BY ReportChains
    <2>2. CASE id = top
        BY <2>1, <2>2, <1>4 DEF IsReport
    <2>3. CASE id \in inc
        <3>1. a \in Chain(p, id) /\ id \in DOMAIN p
            BY <1>1, <1>4, <2>1, <2>3
        <3>2. a \in inc
            BY <2>3, <3>1, ReportUp, ChainHas
        <3>3. p[a] = id
            BY <1>4, <3>2 DEF IsReport
        <3> QED
            BY <3>1, <3>3 DEF IsReport, IsForest, Cyclic
    <2>4. CASE id \in tx
        <3>1. a \in DOMAIN rs
            BY <1>4, ChainHas
        <3> QED
            BY <1>3, <1>4, <2>4, <3>1
    <2> QED
        BY <2>2, <2>3, <2>4 DEF IsReport
<1>5. IsForest(rs)
    BY <1>2, <1>4 DEF IsForest, Cyclic
<1> QED
    BY <1>3, <1>5 DEF childrenOf

\* The amounts of the transactions; nothing else has one.
AreAmounts(vals, rs, tx) ==
    /\ \A t \in tx : vals[t] = TxnAmount[t] /\ vals[t] \in Int
    /\ \A r \in DOMAIN rs \ tx : vals[r] = 0

LEMMA CategorySums ==
    ASSUME NEW rs, NEW p, NEW home, NEW tx, NEW inc, NEW top, IsReport(rs, p, home, tx, inc, top),
           NEW vals, AreAmounts(vals, rs, tx), NEW c \in inc
    PROVE  computeTreeAggregates(rs, vals)[c] =
              SumOver(TxnAmount, {t \in tx : home[t] # None /\ c \in Chain(p, home[t])})
<1>1. IsForest(rs) /\ \A t \in tx : childrenOf(rs, t) = {}
    BY ReportIsForest
<1>2. c \in DOMAIN rs /\ tx \in SUBSET DOMAIN rs /\ c \in DOMAIN p /\ c \notin tx /\ c # top
    <2>1. inc \in SUBSET DOMAIN p
        BY ReportUp
    <2> QED
        BY <2>1 DEF IsReport
<1>3. \A r \in DOMAIN rs : vals[r] \in Int
    BY DEF AreAmounts
<1> DEFINE below == LeavesBelow(rs, c)
           own == {t \in tx : home[t] # None /\ c \in Chain(p, home[t])}
<1>4. computeTreeAggregates(rs, vals)[c] = SumOver(vals, below)
    BY <1>1, <1>2, <1>3, AggregatesAre
<1>5. below \subseteq DOMAIN rs
    BY DEF LeavesBelow, Below
<1>6. below \cap tx = own
    <2>1. ASSUME NEW t \in tx PROVE c \in Chain(rs, t) <=> home[t] # None /\ c \in Chain(p, home[t])
        <3>1. Chain(rs, t) = {t} \cup IF home[t] = None THEN {top} ELSE Chain(p, home[t])
            BY ReportChains
        <3> QED
            BY <1>2, <3>1
    <2> QED
        BY <1>1, <1>2, <2>1 DEF LeavesBelow, Below
<1>7. IsFiniteSet(below) /\ IsFiniteSet(own)
    <2>1. own \subseteq tx
        OBVIOUS
    <2> QED
        BY <1>1, <1>5, <2>1, FS_Subset DEF IsForest, IsReport
<1>8. /\ \A x \in below : vals[x] \in Int
      /\ \A x \in below \ tx : vals[x] = 0
      /\ \A t \in own : vals[t] = TxnAmount[t] /\ TxnAmount[t] \in Int
    BY <1>3, <1>5 DEF AreAmounts
<1> HIDE DEF below, own
<1>9. SumOver(vals, below) = SumOver(vals, below \cap tx)
    BY <1>7, <1>8, SumOfThose
<1>10. SumOver(vals, own) = SumOver(TxnAmount, own)
    BY <1>7, <1>8, SumSame
<1> QED
    BY <1>4, <1>6, <1>9, <1>10 DEF own

\* The total is that of the transactions, whatever else is left out.
LEMMA TotalIs ==
    ASSUME NEW rs, IsForest(rs), NEW tx \in SUBSET DOMAIN rs, \A t \in tx : childrenOf(rs, t) = {},
           NEW vals, AreAmounts(vals, rs, tx)
    PROVE  SumOver(computeTreeAggregates(rs, vals), rootsOf(rs)) = SumOver(TxnAmount, tx)
<1>1. \A r \in DOMAIN rs : vals[r] \in Int
    BY DEF AreAmounts
<1>2. \A r \in DOMAIN rs \ tx : vals[r] = 0
    BY DEF AreAmounts
<1>3. SumOver(computeTreeAggregates(rs, vals), rootsOf(rs)) = SumOver(vals, tx)
    BY <1>1, <1>2, TotalOfThose
<1>4. IsFiniteSet(tx) /\ \A t \in tx : TxnAmount[t] \in Int /\ vals[t] = TxnAmount[t]
    BY FS_Subset DEF IsForest, AreAmounts
<1>5. SumOver(vals, tx) = SumOver(TxnAmount, tx)
    BY <1>4, SumSame
<1> QED
    BY <1>3, <1>5

\* What is above some transactions, and they themselves.
LEMMA KeptRows ==
    ASSUME NEW rs, NEW p, NEW home, NEW tx, NEW inc, NEW top, IsReport(rs, p, home, tx, inc, top),
           NEW some \in SUBSET tx, NEW less,
           DOMAIN less = Climb(rs, some, Cardinality(DOMAIN rs)), \A r \in DOMAIN less : less[r] = rs[r]
    PROVE  /\ DOMAIN less \in SUBSET DOMAIN rs /\ DOMAIN less \cap tx = some
           /\ IsForest(less) /\ \A t \in some : childrenOf(less, t) = {}
           /\ \A r \in DOMAIN less : less[r] \in DOMAIN p => less[r] \in DOMAIN less
<1> DEFINE n == Cardinality(DOMAIN rs)
           up == Climb(rs, some, n)
<1>1. IsForest(rs) /\ \A t \in tx : childrenOf(rs, t) = {}
    BY ReportIsForest
<1>2. some \in SUBSET DOMAIN rs
    BY DEF IsReport
<1>3. n \in Nat /\ n <= n
    BY <1>1, FS_CardinalityType DEF IsForest
<1>4. /\ up \in SUBSET DOMAIN rs /\ some \subseteq up /\ ClosedUp(rs, up)
      /\ \A s \in SUBSET DOMAIN rs : some \subseteq s /\ ClosedUp(rs, s) => up \subseteq s
    <2>1. IsFiniteSet(DOMAIN rs) /\ Cardinality(DOMAIN rs) <= n
        BY <1>1, <1>3 DEF IsForest
    <2> HIDE DEF n
    <2> QED
        BY <1>2, <1>3, <2>1, ClimbIs
<1>5. DOMAIN less = up
    OBVIOUS
<1> HIDE DEF up, n
<1>6. up \cap tx \subseteq some
    <2> DEFINE others == some \cup (DOMAIN rs \ tx)
    <2>1. ASSUME NEW r \in DOMAIN rs PROVE Up(rs, r, r) \in others \/ Up(rs, r, r) = r
        <3>1. CASE rs[r] \in DOMAIN rs
            <4>1. rs[r] \notin tx
                BY <1>1, <3>1 DEF childrenOf
            <4> QED
                BY <3>1, <4>1 DEF Up
        <3>2. CASE rs[r] \notin DOMAIN rs
            BY <3>2 DEF Up
        <3> QED
            BY <3>1, <3>2
    <2>2. others \in SUBSET DOMAIN rs /\ some \subseteq others
        BY <1>2
    <2>3. ClosedUp(rs, others)
        <3> HIDE DEF others
        <3> QED
            BY <2>1, <2>2 DEF ClosedUp
    <2>4. up \subseteq others
        <3> HIDE DEF others
        <3> QED
            BY <1>4, <2>2, <2>3
    <2> QED
        BY <2>4
<1>7. IsForest(less)
    BY <1>1, <1>4, <1>5, Restricted
<1>8. \A t \in some : childrenOf(less, t) = {}
    BY <1>1, <1>4, <1>5 DEF childrenOf
<1>9. ASSUME NEW r \in DOMAIN less, less[r] \in DOMAIN p PROVE less[r] \in DOMAIN less
    <2>1. r \in DOMAIN rs /\ rs[r] \in DOMAIN p
        BY <1>4, <1>5, <1>9
    <2>2. rs[r] \in inc
        <3>1. CASE r = top
            BY <2>1, <3>1 DEF IsReport
        <3>2. CASE r \in tx
            <4>1. home[r] # None => home[r] \in inc
                BY <3>2, ReportUp
            <4> QED
                BY <2>1, <3>2, <4>1 DEF IsReport
        <3>3. CASE r \in inc
            <4>1. Up(p, r, r) \in inc
                BY <3>3, ReportUp DEF ClosedUp
            <4> QED
                BY <2>1, <3>3, <4>1 DEF IsReport, Up
        <3> QED
            BY <2>1, <3>1, <3>2, <3>3 DEF IsReport
    <2>3. rs[r] \in DOMAIN rs
        BY <2>2 DEF IsReport
    <2>4. Up(rs, r, r) = rs[r]
        BY <2>3 DEF Up
    <2> QED
        BY <1>4, <1>5, <2>4 DEF ClosedUp
<1>10. up \in SUBSET DOMAIN rs /\ up \cap tx = some
    BY <1>4, <1>6
<1> QED
    BY <1>5, <1>7, <1>8, <1>9, <1>10

-----------------------------------------------------------------------------
(* The nearest tag above. *)

\* The tags of the nearest category with one, among a category and those above, St-0 left out.
TaggedAbove(p, tag, c) == {a \in Chain(p, c) : tag[a] # None}
NearestAbove(p, tag, c) ==
    {a \in TaggedAbove(p, tag, c) : \A b \in TaggedAbove(p, tag, c) : a \in Chain(p, b) => b = a}
SectionsAbove(p, tag, c) == {tag[a] : a \in NearestAbove(p, tag, c)} \ {"St-0"}

\* One step of effectiveTaxSection.
SectionStep(section, p, tag, c) ==
    IF tag[c] = "St-0" THEN None
    ELSE IF tag[c] # None THEN tag[c]
    ELSE IF p[c] \in DOMAIN p THEN section[p[c]] ELSE None

LEMMA SectionsAboveStep ==
    ASSUME NEW p, ~Cyclic(p), NEW tag, NEW c \in DOMAIN p
    PROVE  SectionsAbove(p, tag, c) =
              IF tag[c] # None THEN {tag[c]} \ {"St-0"}
              ELSE IF p[c] \in DOMAIN p THEN SectionsAbove(p, tag, p[c]) ELSE {}
<1>1. CASE tag[c] # None
    <2>1. c \in TaggedAbove(p, tag, c)
        BY <1>1, ChainHas DEF TaggedAbove
    <2>2. ASSUME NEW b \in TaggedAbove(p, tag, c), c \in Chain(p, b) PROVE b = c
        <3>1. b \in Chain(p, c)
            BY DEF TaggedAbove
        <3> QED
            BY <2>2, <3>1, NoReturn
    <2>3. c \in NearestAbove(p, tag, c)
        BY <2>1, <2>2 DEF NearestAbove
    <2>4. ASSUME NEW a \in NearestAbove(p, tag, c) PROVE a = c
        <3>1. a \in Chain(p, c)
            BY DEF NearestAbove, TaggedAbove
        <3> QED
            BY <2>1, <3>1 DEF NearestAbove
    <2>5. NearestAbove(p, tag, c) = {c}
        BY <2>3, <2>4
    <2> QED
        BY <1>1, <2>5 DEF SectionsAbove
<1>2. CASE tag[c] = None /\ p[c] \in DOMAIN p
    <2>1. Chain(p, c) = {c} \cup Chain(p, p[c])
        BY <1>2, ChainSteps DEF Up
    <2>2. TaggedAbove(p, tag, c) = TaggedAbove(p, tag, p[c])
        BY <1>2, <2>1 DEF TaggedAbove
    <2> QED
        BY <1>2, <2>2 DEF SectionsAbove, NearestAbove
<1>3. CASE tag[c] = None /\ p[c] \notin DOMAIN p
    <2>1. Chain(p, c) = {c}
        BY <1>3, RootIsAlone DEF rootsOf
    <2>2. TaggedAbove(p, tag, c) = {}
        BY <1>3, <2>1 DEF TaggedAbove
    <2> QED
        BY <1>3, <2>2 DEF SectionsAbove, NearestAbove
<1> QED
    BY <1>1, <1>2, <1>3

\* What effectiveTaxSection looks for there is.
LEMMA SectionExists ==
    ASSUME NEW p, IsForest(p), NEW tag, None # "St-0"
    PROVE  \E section : DOMAIN section = DOMAIN p
                        /\ \A c \in DOMAIN p : section[c] = SectionStep(section, p, tag, c)
<1> DEFINE section == [c \in DOMAIN p |->
                IF SectionsAbove(p, tag, c) = {} THEN None ELSE CHOOSE s \in SectionsAbove(p, tag, c) : TRUE]
<1>1. ASSUME NEW c \in DOMAIN p PROVE section[c] = SectionStep(section, p, tag, c)
    <2>1. SectionsAbove(p, tag, c) =
              IF tag[c] # None THEN {tag[c]} \ {"St-0"}
              ELSE IF p[c] \in DOMAIN p THEN SectionsAbove(p, tag, p[c]) ELSE {}
        BY SectionsAboveStep DEF IsForest
    <2>2. CASE tag[c] = "St-0"
        BY <2>1, <2>2 DEF SectionStep
    <2>3. CASE tag[c] # "St-0" /\ tag[c] # None
        <3>1. SectionsAbove(p, tag, c) = {tag[c]}
            BY <2>1, <2>3
        <3> QED
            BY <2>3, <3>1 DEF SectionStep
    <2>4. CASE tag[c] = None /\ p[c] \in DOMAIN p
        BY <2>1, <2>4 DEF SectionStep
    <2>5. CASE tag[c] = None /\ p[c] \notin DOMAIN p
        BY <2>1, <2>5 DEF SectionStep
    <2> QED
        BY <2>2, <2>3, <2>4, <2>5
<1>2. DOMAIN section = DOMAIN p
    OBVIOUS
<1> QED
    BY <1>1, <1>2

LEMMA SectionsAre ==
    ASSUME NEW p, IsForest(p), NEW tag, None # "St-0",
           NEW section, \A c \in DOMAIN p : section[c] = SectionStep(section, p, tag, c)
    PROVE  \A c \in DOMAIN p :
              SectionsAbove(p, tag, c) = IF section[c] = None THEN {} ELSE {section[c]}
<1> DEFINE good == {c \in DOMAIN p :
                      SectionsAbove(p, tag, c) = IF section[c] = None THEN {} ELSE {section[c]}}
<1>1. ASSUME NEW c \in DOMAIN p, p[c] \in DOMAIN p => p[c] \in good PROVE c \in good
    <2>1. SectionsAbove(p, tag, c) =
              IF tag[c] # None THEN {tag[c]} \ {"St-0"}
              ELSE IF p[c] \in DOMAIN p THEN SectionsAbove(p, tag, p[c]) ELSE {}
        BY SectionsAboveStep DEF IsForest
    <2>2. section[c] = SectionStep(section, p, tag, c)
        OBVIOUS
    <2>3. CASE tag[c] # None
        BY <2>1, <2>2, <2>3 DEF SectionStep
    <2>4. CASE tag[c] = None
        BY <1>1, <2>1, <2>2, <2>4 DEF SectionStep
    <2> QED
        BY <2>3, <2>4
<1>2. \A c \in rootsOf(p) : c \in good
    BY <1>1 DEF rootsOf
<1>3. \A c \in DOMAIN p \ rootsOf(p) : p[c] \in good => c \in good
    BY <1>1
<1>4. good \in SUBSET DOMAIN p
    OBVIOUS
<1> HIDE DEF good
<1>5. \A c \in DOMAIN p : c \in good
    BY <1>2, <1>3, <1>4, ParentsFirst
<1> QED
    BY <1>5 DEF good

-----------------------------------------------------------------------------
(* A table's tree. *)

\* The nodes are those of the rows, and as the user left them where he did.
NodesFit ==
    nodes # None =>
        /\ nodes \in [DOMAIN rows -> BOOLEAN]
        /\ DOMAIN chosen \subseteq DOMAIN rows
        /\ \A id \in DOMAIN chosen : nodes[id] = chosen[id]

ForestFit == rows \in T!Forests /\ options \in DefaultsExpanded /\ DOMAIN chosen \subseteq RowIds

ForestInv == ForestFit /\ NodesFit

LEMMA NoForest == << >> \in T!Forests /\ DOMAIN << >> = {}
<1>1. << >> \in [{} -> RowIds \cup {None}] /\ {} \in SUBSET RowIds
    OBVIOUS
<1> QED
    BY <1>1 DEF T!Forests

LEMMA InitForest == T!Init => ForestInv
<1> SUFFICES ASSUME T!Init PROVE ForestInv
    OBVIOUS
<1>1. << >> \in [{} -> BOOLEAN] /\ DOMAIN << >> = {}
    OBVIOUS
<1> QED
    BY <1>1, NoForest DEF T!Init, ForestInv, ForestFit, NodesFit

LEMMA ForestHas == ASSUME NEW parent \in T!Forests PROVE DOMAIN parent \subseteq RowIds
BY DEF T!Forests

\* A node there was before is taken over.
LEMMA NodesAre ==
    ASSUME NEW parent, NEW default, NEW previous,
           \A id \in DOMAIN previous : previous[id] \in BOOLEAN
    PROVE  /\ T!toTreeNodes(parent, default, previous) \in [DOMAIN parent -> BOOLEAN]
           /\ \A id \in DOMAIN parent \cap DOMAIN previous :
                T!toTreeNodes(parent, default, previous)[id] = previous[id]
<1>1. \A id : T!isExpandedAtDepth(default, T!depthOf(parent)[id]) \in BOOLEAN
    BY DEF T!isExpandedAtDepth
<1> QED
    BY <1>1 DEF T!toTreeNodes

LEMMA SetRowsForest == ASSUME NEW parent \in T!Forests, ForestInv, T!SetRows(parent) PROVE ForestInv'
<1>1. /\ nodes # None /\ rows' = parent /\ options' = options
      /\ nodes' = IF T!buildTreeFails(parent) THEN None
                  ELSE T!toTreeNodes(parent, options, nodes)
      /\ chosen' = T!Restrict(chosen, DOMAIN chosen \cap DOMAIN parent)
    BY DEF T!SetRows, T!Shown, T!Build
<1>2. /\ DOMAIN chosen' = DOMAIN chosen \cap DOMAIN parent
      /\ \A id \in DOMAIN chosen' : chosen'[id] = chosen[id]
    BY <1>1 DEF T!Restrict
<1>3. nodes \in [DOMAIN rows -> BOOLEAN] /\ DOMAIN chosen \subseteq DOMAIN rows
      /\ \A id \in DOMAIN chosen : nodes[id] = chosen[id]
    BY <1>1 DEF ForestInv, NodesFit
<1>4. ForestFit'
    BY <1>1, <1>2 DEF ForestInv, ForestFit
<1>5. CASE T!buildTreeFails(parent)
    BY <1>1, <1>4, <1>5 DEF ForestInv, NodesFit
<1>6. CASE ~T!buildTreeFails(parent)
    <2> DEFINE built == T!toTreeNodes(parent, options, nodes)
    <2>1. /\ built \in [DOMAIN parent -> BOOLEAN]
          /\ \A id \in DOMAIN parent \cap DOMAIN nodes : built[id] = nodes[id]
        BY <1>3, NodesAre
    <2>2. nodes' = built
        BY <1>1, <1>6
    <2> HIDE DEF built
    <2>3. NodesFit'
        BY <1>1, <1>2, <1>3, <2>1, <2>2 DEF NodesFit
    <2> QED
        BY <1>4, <2>3 DEF ForestInv
<1> QED
    BY <1>5, <1>6

LEMMA SetOptionsForest ==
    ASSUME NEW default \in DefaultsExpanded, ForestInv, T!SetOptions(default) PROVE ForestInv'
<1> DEFINE built == T!toTreeNodes(rows, default, << >>)
<1>1. /\ rows' = rows /\ options' = default /\ chosen' = << >>
      /\ nodes' = IF T!buildTreeFails(rows) THEN None ELSE built
    BY DEF T!SetOptions, T!Build
<1>2. built \in [DOMAIN rows -> BOOLEAN]
    BY NodesAre, NoForest
<1> HIDE DEF built
<1>3. NodesFit' /\ ForestFit'
    BY <1>1, <1>2, NoForest DEF ForestInv, ForestFit, NodesFit
<1> QED
    BY <1>3 DEF ForestInv

LEMMA ToggleForest == ASSUME NEW id \in RowIds, ForestInv, T!Toggle(id) PROVE ForestInv'
<1>1. /\ nodes # None /\ id \in DOMAIN nodes
      /\ nodes' = [nodes EXCEPT ![id] = ~nodes[id]]
      /\ chosen' = [c \in DOMAIN chosen \cup {id} |-> IF c = id THEN ~nodes[id] ELSE chosen[c]]
      /\ UNCHANGED <<rows, options>>
    BY DEF T!Toggle, T!Shown
<1>2. nodes \in [DOMAIN rows -> BOOLEAN] /\ DOMAIN chosen \subseteq DOMAIN rows
      /\ \A c \in DOMAIN chosen : nodes[c] = chosen[c]
    BY <1>1 DEF ForestInv, NodesFit
<1>3. nodes' \in [DOMAIN rows -> BOOLEAN]
    BY <1>1, <1>2
<1>4. /\ DOMAIN chosen' = DOMAIN chosen \cup {id}
      /\ \A c \in DOMAIN chosen' : nodes'[c] = chosen'[c]
    BY <1>1, <1>2
<1> QED
    BY <1>1, <1>2, <1>3, <1>4 DEF ForestInv, ForestFit, NodesFit

LEMMA SetAllForest == ASSUME NEW expanded \in BOOLEAN, ForestInv, T!setAllExpanded(expanded)
                      PROVE  ForestInv'
<1>1. /\ nodes # None /\ nodes' = [id \in DOMAIN nodes |-> expanded]
      /\ chosen' = nodes' /\ UNCHANGED <<rows, options>>
    BY DEF T!setAllExpanded, T!Shown
<1>2. nodes \in [DOMAIN rows -> BOOLEAN]
    BY <1>1 DEF ForestInv, NodesFit
<1>3. nodes' \in [DOMAIN rows -> BOOLEAN] /\ DOMAIN nodes' = DOMAIN rows
    BY <1>1, <1>2
<1>4. NodesFit'
    BY <1>1, <1>3 DEF NodesFit
<1>5. ForestFit'
    BY <1>1, <1>3, ForestHas DEF ForestInv, ForestFit
<1> QED
    BY <1>4, <1>5 DEF ForestInv

LEMMA NextForest == ForestInv /\ [T!Next]_T!vars => ForestInv'
<1>1. CASE T!Next
    BY <1>1, SetRowsForest, SetOptionsForest, ToggleForest, SetAllForest DEF T!Next
<1>2. CASE ForestInv /\ UNCHANGED T!vars
    BY <1>2 DEF T!vars, ForestInv, ForestFit, NodesFit
<1> QED
    BY <1>1, <1>2

LEMMA ForestTypes == ASSUME ForestInv PROVE T!TypeOK
BY DEF ForestInv, ForestFit, NodesFit, T!TypeOK, T!Shown

LEMMA ExpansionStays == ASSUME ForestInv PROVE T!ExpansionKept
BY DEF ForestInv, NodesFit, T!ExpansionKept, T!Shown

LEMMA TreeConstants ==
    /\ IsFiniteSet(RowIds) /\ None \notin RowIds
    /\ \A s \in SUBSET RowIds : \A f \in [s -> BOOLEAN] : f # None
    /\ \A r \in RowIds : TreeAmount[r] \in Int
<1>1. T!ConstantsFit
    BY PartsFit
<1> QED
    BY <1>1, TableConstants DEF T!ConstantsFit

LEMMA TableFails == \A parent : T!buildTreeFails(parent) <=> buildTreeFails(parent)
BY Zenon DEF T!buildTreeFails, buildTreeFails, T!reachableIds, reachableIds, T!rootsOf, rootsOf,
       T!Cardinality, Cardinality, T!IsFiniteSet, IsFiniteSet

LEMMA TableSums ==
    \A parent, amounts : T!computeTreeAggregates(parent, amounts) = computeTreeAggregates(parent, amounts)
BY Zenon DEF T!computeTreeAggregates, computeTreeAggregates, T!childrenOf, childrenOf,
       T!MapThenSumSet, MapThenSumSet, T!MapThenFoldSet, MapThenFoldSet

LEMMA TableAbove == \A id : T!Above(id) = Climb(rows, {id}, Cardinality(RowIds))
BY Zenon DEF T!Above, Climb, T!Up, Up, T!Cardinality, Cardinality, T!IsFiniteSet, IsFiniteSet

\* The rows that are not shown are those with a cycle.
RefusedFit == nodes = None <=> buildTreeFails(rows)

LEMMA ForestFinite == ASSUME ForestInv PROVE IsFiniteSet(DOMAIN rows) /\ DOMAIN rows \subseteq RowIds
<1>1. DOMAIN rows \subseteq RowIds
    BY ForestHas DEF ForestInv, ForestFit
<1> QED
    BY <1>1, TreeConstants, FS_Subset

LEMMA InitRefused == T!Init => RefusedFit
<1> SUFFICES ASSUME T!Init PROVE RefusedFit
    OBVIOUS
<1>1. rows = << >> /\ nodes = << >>
    BY DEF T!Init
<1>2. << >> \in [{} -> BOOLEAN] /\ DOMAIN << >> = {}
    OBVIOUS
<1>3. nodes # None
    BY <1>1, <1>2, TreeConstants
<1>4. reachableIds(<< >>) \in SUBSET {}
    BY <1>2, ReachableIs, FS_EmptySet
<1>5. ~buildTreeFails(rows)
    BY <1>1, <1>2, <1>4 DEF buildTreeFails
<1> QED
    BY <1>3, <1>5 DEF RefusedFit

LEMMA BuildRefused ==
    ASSUME NEW parent \in T!Forests, NEW default, NEW previous,
           \A id \in DOMAIN previous : previous[id] \in BOOLEAN,
           rows' = parent,
           nodes' = IF T!buildTreeFails(parent) THEN None ELSE T!toTreeNodes(parent, default, previous)
    PROVE  RefusedFit'
<1>1. T!toTreeNodes(parent, default, previous) \in [DOMAIN parent -> BOOLEAN]
    BY NodesAre
<1>2. DOMAIN parent \in SUBSET RowIds
    BY ForestHas
<1>3. T!toTreeNodes(parent, default, previous) # None
    BY <1>1, <1>2, TreeConstants
<1> QED
    BY <1>3, TableFails DEF RefusedFit

LEMMA NextRefused == ForestInv /\ RefusedFit /\ [T!Next]_T!vars => RefusedFit'
<1> SUFFICES ASSUME ForestInv, RefusedFit, [T!Next]_T!vars PROVE RefusedFit'
    OBVIOUS
<1>1. ASSUME NEW parent \in T!Forests, T!SetRows(parent) PROVE RefusedFit'
    <2>1. /\ nodes # None /\ rows' = parent
          /\ nodes' = IF T!buildTreeFails(parent) THEN None
                      ELSE T!toTreeNodes(parent, options, nodes)
        BY <1>1 DEF T!SetRows, T!Shown, T!Build
    <2>2. \A id \in DOMAIN nodes : nodes[id] \in BOOLEAN
        BY <2>1 DEF ForestInv, NodesFit
    <2> QED
        BY <2>1, <2>2, BuildRefused
<1>2. ASSUME NEW default \in DefaultsExpanded, T!SetOptions(default) PROVE RefusedFit'
    <2>1. /\ rows' = rows
          /\ nodes' = IF T!buildTreeFails(rows) THEN None ELSE T!toTreeNodes(rows, default, << >>)
        BY <1>2 DEF T!SetOptions, T!Build
    <2>2. rows \in T!Forests /\ \A id \in DOMAIN << >> : << >>[id] \in BOOLEAN
        BY DEF ForestInv, ForestFit
    <2> QED
        BY <2>1, <2>2, BuildRefused
<1>3. ASSUME nodes # None, rows' = rows, nodes' \in [DOMAIN rows -> BOOLEAN] PROVE RefusedFit'
    <2>1. DOMAIN rows \in SUBSET RowIds
        BY ForestFinite
    <2>2. nodes' # None
        BY <1>3, <2>1, TreeConstants
    <2> QED
        BY <1>3, <2>2 DEF RefusedFit
<1>4. ASSUME NEW id \in RowIds, T!Toggle(id) PROVE RefusedFit'
    <2>1. nodes # None /\ rows' = rows /\ nodes' = [nodes EXCEPT ![id] = ~nodes[id]] /\ id \in DOMAIN nodes
        BY <1>4 DEF T!Toggle, T!Shown
    <2>2. nodes \in [DOMAIN rows -> BOOLEAN]
        BY <2>1 DEF ForestInv, NodesFit
    <2>3. nodes' \in [DOMAIN rows -> BOOLEAN]
        BY <2>1, <2>2
    <2> QED
        BY <1>3, <2>1, <2>3
<1>5. ASSUME NEW expanded \in BOOLEAN, T!setAllExpanded(expanded) PROVE RefusedFit'
    <2>1. nodes # None /\ rows' = rows /\ nodes' = [id \in DOMAIN nodes |-> expanded]
        BY <1>5 DEF T!setAllExpanded, T!Shown
    <2>2. nodes \in [DOMAIN rows -> BOOLEAN]
        BY <2>1 DEF ForestInv, NodesFit
    <2>3. nodes' \in [DOMAIN rows -> BOOLEAN]
        BY <2>1, <2>2
    <2> QED
        BY <1>3, <2>1, <2>3
<1>6. CASE UNCHANGED T!vars
    BY <1>6 DEF T!vars, RefusedFit
<1> QED
    BY <1>1, <1>2, <1>4, <1>5, <1>6 DEF T!Next

LEMMA AboveIsChain ==
    ASSUME ForestInv, NEW id \in DOMAIN rows
    PROVE  T!Above(id) = Chain(rows, id)
<1> DEFINE n == Cardinality(RowIds)
<1>1. n \in Nat /\ Cardinality(DOMAIN rows) <= n
    BY ForestFinite, TreeConstants, FS_Subset, FS_CardinalityType
<1>2. T!Above(id) = Climb(rows, {id}, n)
    BY TableAbove
<1> HIDE DEF n
<1> QED
    BY <1>1, <1>2, ForestFinite, ClimbIsChain

LEMMA CyclesAreRefused == ASSUME ForestInv, RefusedFit PROVE T!OnlyCyclesRefused
<1>1. Cyclic(rows) <=> \E id \in DOMAIN rows : \E a \in T!Above(id) : rows[a] = id
    BY AboveIsChain DEF Cyclic
<1>2. buildTreeFails(rows) <=> Cyclic(rows)
    BY ForestFinite, CyclesAreLeft
<1> QED
    BY <1>1, <1>2 DEF RefusedFit, T!OnlyCyclesRefused, T!Shown

LEMMA SumsAreOfLeaves == ASSUME ForestInv, RefusedFit PROVE T!SumsFit
<1> SUFFICES ASSUME nodes # None, NEW id \in DOMAIN rows
             PROVE  T!computeTreeAggregates(rows, TreeAmount)[id] =
                      T!MapThenSumSet(LAMBDA l : TreeAmount[l], {l \in T!Leaves : id \in T!Above(l)})
    BY DEF T!SumsFit, T!Shown
<1>1. IsForest(rows)
    BY ForestFinite, CyclesAreLeft DEF RefusedFit, IsForest
<1>2. \A r \in DOMAIN rows : TreeAmount[r] \in Int
    BY ForestFinite, TreeConstants
<1>3. T!computeTreeAggregates(rows, TreeAmount)[id] = SumOver(TreeAmount, LeavesBelow(rows, id))
    <2>1. computeTreeAggregates(rows, TreeAmount)[id] = SumOver(TreeAmount, LeavesBelow(rows, id))
        BY <1>1, <1>2, AggregatesAre
    <2> QED
        BY <2>1, TableSums
<1>4. {l \in T!Leaves : id \in T!Above(l)} = LeavesBelow(rows, id)
    BY AboveIsChain DEF T!Leaves, LeavesBelow, Below, T!childrenOf, childrenOf
<1>5. \A s : T!MapThenSumSet(LAMBDA l : TreeAmount[l], s) = SumOver(TreeAmount, s)
    BY Zenon DEF T!MapThenSumSet, T!MapThenFoldSet, SumOver
<1> QED
    BY <1>3, <1>4, <1>5

-----------------------------------------------------------------------------
(* The categories a tab's report is about. *)

LEMMA ReportConstants ==
    /\ Ids \subseteq Nat \ {0} /\ Stored \subseteq Ids /\ Drafts \subseteq R!Draft
    /\ MaxSaves \in Nat /\ None \notin Nat
BY PartsFit DEF R!ConstantsFit

LEMMA ReportNone == None \notin Int /\ None # R!Unassigned /\ None \notin Codes /\ None # "St-0"
<1>1. None \notin Int \cup Codes \cup {"St-0"} /\ -1 \in Int
    BY PartsFit DEF R!ConstantsFit
<1> QED
    BY <1>1 DEF R!Unassigned

\* A category is a draft that was saved, below another one or none.
CategoryFit(c, known) ==
    /\ c.parent \in DOMAIN known \cup {None}
    /\ \E d \in Drafts : c = R!WithParent(d, c.parent)

ReportInv ==
    /\ DOMAIN cats \subseteq Ids
    /\ \A c \in DOMAIN cats : CategoryFit(cats[c], cats)
    /\ assigned \in [Txns -> Ids \cup {None}]
    /\ listed \subseteq Txns /\ saves \in 0..MaxSaves

\* What a category has of its draft.
LEMMA DraftIs ==
    ASSUME NEW d \in Drafts, NEW parent
    PROVE  /\ R!WithParent(d, parent).parent = parent
           /\ R!WithParent(d, parent).rank = d.rank /\ d.rank \in Nat
           /\ [f \in DOMAIN R!WithParent(d, parent) \ {"parent"} |-> R!WithParent(d, parent)[f]] = d
<1>1. d \in R!Draft
    BY ReportConstants
<1>2. d = [f \in DOMAIN d |-> d[f]] /\ d.rank \in Nat
      /\ DOMAIN d = {"rank", "type", "pattern", "account", "skip", "tag"}
    BY <1>1 DEF R!Draft
<1> DEFINE saved == R!WithParent(d, parent)
<1>3. saved = [f \in DOMAIN d \cup {"parent"} |-> IF f = "parent" THEN parent ELSE d[f]]
    BY DEF R!WithParent
<1> HIDE DEF saved
<1>4. DOMAIN saved = DOMAIN d \cup {"parent"} /\ "parent" \notin DOMAIN d /\ "rank" \in DOMAIN d
    BY <1>2, <1>3
<1>5. saved.parent = parent /\ saved.rank = d.rank
    BY <1>3, <1>4
<1>6. DOMAIN saved \ {"parent"} = DOMAIN d /\ \A f \in DOMAIN d : saved[f] = d[f]
    BY <1>3, <1>4
<1>7. [f \in DOMAIN saved \ {"parent"} |-> saved[f]] = [f \in DOMAIN d |-> d[f]]
    BY <1>6
<1> QED
    BY <1>2, <1>5, <1>7 DEF saved

LEMMA InitReport == R!Init => ReportInv
<1> SUFFICES ASSUME R!Init PROVE ReportInv
    OBVIOUS
<1>1. cats \in [Stored -> {R!WithParent(d, None) : d \in Drafts}]
    BY DEF R!Init
<1>2. ASSUME NEW c \in DOMAIN cats PROVE CategoryFit(cats[c], cats)
    <2>1. PICK d \in Drafts : cats[c] = R!WithParent(d, None)
        BY <1>1
    <2>2. cats[c].parent = None
        BY <2>1, DraftIs
    <2> QED
        BY <2>1, <2>2 DEF CategoryFit
<1> QED
    BY <1>1, <1>2, ReportConstants DEF R!Init, ReportInv

\* The categories after a save.
LEMMA SavedIs ==
    ASSUME NEW id \in Ids, NEW d \in Drafts, NEW parent \in Ids \cup {None},
           R!SaveCategory(id, R!WithParent(d, parent))
    PROVE  /\ parent \in (DOMAIN cats \cup {None}) \ {id}
           /\ DOMAIN cats' = DOMAIN cats \cup {id}
           /\ cats'[id] = R!WithParent(d, parent)
           /\ \A c \in DOMAIN cats \ {id} : cats'[c] = cats[c]
           /\ saves < MaxSaves /\ saves' = saves + 1
           /\ assigned' = assigned /\ listed' = listed
<1> DEFINE fields == R!WithParent(d, parent)
<1>1. fields.parent = parent
    BY DraftIs
<1>2. /\ fields.parent \in (DOMAIN cats \cup {None}) \ {id}
      /\ cats' = [c \in DOMAIN cats \cup {id} |-> IF c = id THEN fields ELSE cats[c]]
      /\ saves < MaxSaves /\ saves' = saves + 1
      /\ assigned' = assigned /\ listed' = listed
    BY DEF R!SaveCategory, R!Save
<1> HIDE DEF fields
<1> QED
    BY <1>1, <1>2 DEF fields

LEMMA SaveReport ==
    ASSUME NEW id \in Ids, NEW d \in Drafts, NEW parent \in Ids \cup {None}, ReportInv,
           R!SaveCategory(id, R!WithParent(d, parent))
    PROVE  ReportInv'
<1> DEFINE fields == R!WithParent(d, parent)
<1>1. /\ parent \in (DOMAIN cats \cup {None}) \ {id}
      /\ DOMAIN cats' = DOMAIN cats \cup {id}
      /\ cats'[id] = fields
      /\ \A c \in DOMAIN cats \ {id} : cats'[c] = cats[c]
    BY SavedIs
<1>2. saves < MaxSaves /\ saves' = saves + 1 /\ assigned' = assigned /\ listed' = listed
    BY SavedIs
<1>3. fields.parent = parent
    BY DraftIs
<1>4. CategoryFit(cats'[id], cats')
    <2>1. cats'[id].parent = parent
        BY <1>1, <1>3
    <2>2. cats'[id] = R!WithParent(d, cats'[id].parent)
        BY <1>1, <2>1
    <2> QED
        BY <1>1, <2>1, <2>2 DEF CategoryFit
<1> HIDE DEF fields
<1>5. ASSUME NEW c \in DOMAIN cats \ {id} PROVE CategoryFit(cats'[c], cats')
    <2>1. CategoryFit(cats[c], cats) /\ cats'[c] = cats[c] /\ DOMAIN cats \subseteq DOMAIN cats'
        BY <1>1 DEF ReportInv
    <2> QED
        BY <2>1 DEF CategoryFit
<1>6. \A c \in DOMAIN cats' : CategoryFit(cats'[c], cats')
    BY <1>1, <1>4, <1>5
<1>7. saves' \in 0..MaxSaves
    BY <1>2, ReportConstants DEF ReportInv
<1>8. DOMAIN cats' \subseteq Ids
    BY <1>1 DEF ReportInv
<1> QED
    BY <1>2, <1>6, <1>7, <1>8 DEF ReportInv

LEMMA AssignReport ==
    ASSUME NEW t \in Txns, NEW category \in Ids \cup {None}, ReportInv,
           R!AssignCategory(t, category)
    PROVE  ReportInv'
BY ReportConstants DEF R!AssignCategory, R!Save, ReportInv, CategoryFit

LEMMA FilterReport == ASSUME NEW txns \in SUBSET Txns, ReportInv, R!SetFilter(txns) PROVE ReportInv'
BY DEF R!SetFilter, ReportInv, CategoryFit

LEMMA NextReport == ReportInv /\ [R!Next]_R!vars => ReportInv'
<1>1. CASE R!Next
    BY <1>1, SaveReport, AssignReport, FilterReport DEF R!Next
<1>2. CASE ReportInv /\ UNCHANGED R!vars
    BY <1>2 DEF R!vars, ReportInv, CategoryFit
<1> QED
    BY <1>1, <1>2

LEMMA ReportTypes == ASSUME ReportInv PROVE R!TypeOK
<1>1. ASSUME NEW c \in DOMAIN cats
      PROVE  /\ cats[c].parent \in DOMAIN cats \cup {None}
             /\ [f \in DOMAIN cats[c] \ {"parent"} |-> cats[c][f]] \in Drafts
    <2>1. PICK d \in Drafts : cats[c] = R!WithParent(d, cats[c].parent)
        BY DEF ReportInv, CategoryFit
    <2> DEFINE p == cats[c].parent
               saved == R!WithParent(d, p)
    <2>2. [f \in DOMAIN saved \ {"parent"} |-> saved[f]] = d
        BY DraftIs
    <2>3. cats[c] = saved
        BY <2>1
    <2> HIDE DEF p, saved
    <2>4. [f \in DOMAIN cats[c] \ {"parent"} |-> cats[c][f]] = d
        BY <2>2, <2>3
    <2>5. cats[c].parent \in DOMAIN cats \cup {None}
        BY DEF ReportInv, CategoryFit
    <2> QED
        BY <2>4, <2>5
<1> QED
    BY <1>1 DEF ReportInv, R!TypeOK

-----------------------------------------------------------------------------
(* The preview. *)

Ranked(known) == DOMAIN known \subseteq Nat /\ \A c \in DOMAIN known : known[c].rank \in Nat

\* Among any categories there is one that comes before all others.
LEMMA FirstHit ==
    ASSUME NEW known, Ranked(known), NEW hits \in SUBSET DOMAIN known, hits # {}
    PROVE  \E c \in hits : \A e \in hits \ {c} : R!compareCategories(known, c, e)
<1> DEFINE ranks == {known[c].rank : c \in hits}
<1>1. ranks \in SUBSET Nat /\ ranks # {}
    BY DEF Ranked
<1>2. PICK low \in ranks : \A k \in ranks : low <= k
    BY <1>1, LeastNatural
<1> DEFINE lowest == {c \in hits : known[c].rank = low}
<1>3. lowest \in SUBSET Nat /\ lowest # {}
    BY <1>2 DEF Ranked
<1>4. PICK c \in lowest : \A e \in lowest : c <= e
    BY <1>3, LeastNatural
<1>5. ASSUME NEW e \in hits \ {c} PROVE R!compareCategories(known, c, e)
    <2>1. known[c].rank = low /\ known[e].rank \in Nat /\ low <= known[e].rank /\ low \in Nat
        BY <1>1, <1>2, <1>4 DEF Ranked
    <2>2. c \in Nat /\ e \in Nat /\ c # e
        BY <1>4 DEF Ranked
    <2>3. known[e].rank = low => c <= e
        BY <1>4
    <2> QED
        BY <2>1, <2>2, <2>3 DEF R!compareCategories
<1> QED
    BY <1>4, <1>5

\* A transaction without a stored category goes to the first category that matches.
LEMMA AssignedIs ==
    ASSUME NEW known, Ranked(known), NEW t \in Txns, assigned[t] = None, NEW id \in DOMAIN known
    PROVE  R!assignCategories(known, t) = id <=>
             /\ R!candidateMatches(known[id], t)
             /\ \A e \in DOMAIN known \ {id} :
                  R!candidateMatches(known[e], t) => R!compareCategories(known, id, e)
<1> DEFINE hits == {c \in DOMAIN known : R!candidateMatches(known[c], t)}
           First(c) == c \in hits /\ \A e \in hits \ {c} : R!compareCategories(known, c, e)
           taken == CHOOSE c \in hits : \A e \in hits \ {c} : R!compareCategories(known, c, e)
<1>1. R!assignCategories(known, t) = IF hits = {} THEN None ELSE taken
    BY DEF R!assignCategories
<1>2. ASSUME NEW c, NEW e, First(c), First(e) PROVE c = e
    <2>1. c \in Nat /\ e \in Nat /\ known[c].rank \in Nat /\ known[e].rank \in Nat
        BY <1>2 DEF Ranked
    <2>2. c # e => R!compareCategories(known, c, e) /\ R!compareCategories(known, e, c)
        BY <1>2
    <2> QED
        BY <2>1, <2>2 DEF R!compareCategories
<1>3. hits # {} => First(taken)
    <2>1. hits \in SUBSET DOMAIN known
        OBVIOUS
    <2> QED
        BY <2>1, FirstHit
<1>4. id # None
    BY ReportConstants DEF Ranked
<1>5. First(id) <=> /\ R!candidateMatches(known[id], t)
                    /\ \A e \in DOMAIN known \ {id} :
                         R!candidateMatches(known[e], t) => R!compareCategories(known, id, e)
    OBVIOUS
<1>6. First(id) => hits # {}
    OBVIOUS
<1> HIDE DEF First, taken, hits
<1> QED
    BY <1>1, <1>2, <1>3, <1>4, <1>5, <1>6

LEMMA CatsRanked == ASSUME ReportInv PROVE Ranked(cats)
<1>1. ASSUME NEW c \in DOMAIN cats PROVE cats[c].rank \in Nat
    <2>1. PICK d \in Drafts : cats[c] = R!WithParent(d, cats[c].parent)
        BY DEF ReportInv, CategoryFit
    <2> DEFINE p == cats[c].parent
               saved == R!WithParent(d, p)
    <2>2. saved.rank = d.rank /\ d.rank \in Nat
        BY DraftIs
    <2>3. cats[c] = saved
        BY <2>1
    <2> QED
        BY <2>2, <2>3
<1> QED
    BY <1>1, ReportConstants DEF ReportInv, Ranked

\* What the dialog compares the draft with, under the id the preview gives it.
Previewed(id, fields) ==
    LET p == R!Preview(id) IN
    [c \in (DOMAIN cats \ {p}) \cup {p} |-> IF c = p THEN fields ELSE cats[c]]

\* A preview says "assignedHere" of the transactions without a stored category that the
\* draft matches and gets.
LEMMA PreviewIs ==
    ASSUME NEW id, NEW fields, NEW t \in Txns
    PROVE  LET foreseen == R!buildPreview(R!Preview(id), fields) IN
           t \in DOMAIN foreseen /\ foreseen[t] = "assignedHere" <=>
             /\ R!candidateMatches(fields, t) /\ assigned[t] = None
             /\ R!assignCategories(Previewed(id, fields), t) = R!Preview(id)
<1> DEFINE p == R!Preview(id)
           known == Previewed(id, fields)
           foreseen == R!buildPreview(p, fields)
<1>1. foreseen = [u \in {v \in Txns : R!candidateMatches(fields, v)} |->
                    IF assigned[u] # None
                    THEN IF assigned[u] = p THEN "storedHere" ELSE "storedElsewhere"
                    ELSE IF R!assignCategories(known, u) = p THEN "assignedHere" ELSE "claimed"]
    BY DEF R!buildPreview, Previewed
<1> HIDE DEF p, known, foreseen
<1>2. t \in DOMAIN foreseen <=> R!candidateMatches(fields, t)
    BY <1>1
<1>3. ASSUME R!candidateMatches(fields, t)
      PROVE  foreseen[t] = IF assigned[t] # None
                          THEN IF assigned[t] = p THEN "storedHere" ELSE "storedElsewhere"
                          ELSE IF R!assignCategories(known, t) = p THEN "assignedHere" ELSE "claimed"
    BY <1>1, <1>3
<1>4. t \in DOMAIN foreseen /\ foreseen[t] = "assignedHere" <=>
        R!candidateMatches(fields, t) /\ assigned[t] = None /\ R!assignCategories(known, t) = p
    BY <1>2, <1>3
<1> QED
    BY <1>4 DEF p, known, foreseen

\* A transaction goes to the saved category exactly if the preview said so.
LEMMA PreviewOf ==
    ASSUME NEW id \in Ids, NEW d \in Drafts, NEW parent \in Ids \cup {None}, NEW t \in Txns,
           ReportInv, ReportInv', R!SaveCategory(id, R!WithParent(d, parent)),
           id \in DOMAIN cats \/ \A c \in DOMAIN cats : cats[c].rank # d.rank
    PROVE  LET fields == R!WithParent(d, parent)
               foreseen == R!buildPreview(R!Preview(id), fields)
           IN  R!assignCategories(cats', t) = id <=>
                 assigned[t] = id \/ (t \in DOMAIN foreseen /\ foreseen[t] = "assignedHere")
<1>0. /\ parent \in (DOMAIN cats \cup {None}) \ {id}
      /\ DOMAIN cats' = DOMAIN cats \cup {id}
      /\ cats'[id] = R!WithParent(d, parent)
      /\ \A c \in DOMAIN cats \ {id} : cats'[c] = cats[c]
    BY SavedIs
<1> DEFINE fields == R!WithParent(d, parent)
           p == R!Preview(id)
           known == Previewed(id, fields)
           said == t \in DOMAIN R!buildPreview(p, fields)
                   /\ R!buildPreview(p, fields)[t] = "assignedHere"
<1> DEFINE after == cats'
<1>1. /\ DOMAIN after = DOMAIN cats \cup {id} /\ after[id] = fields
      /\ \A c \in DOMAIN cats \ {id} : after[c] = cats[c]
    BY <1>0
<1>2. said <=> /\ R!candidateMatches(fields, t) /\ assigned[t] = None
               /\ R!assignCategories(known, t) = p
    BY PreviewIs
<1>3. fields.rank = d.rank /\ d.rank \in Nat
    BY DraftIs
<1>4. /\ DOMAIN known = (DOMAIN cats \ {p}) \cup {p} /\ known[p] = fields
      /\ \A c \in DOMAIN cats \ {p} : known[c] = cats[c]
    BY DEF Previewed
<1>5. Ranked(cats) /\ DOMAIN cats \subseteq Ids
    BY CatsRanked DEF ReportInv
<1>6. id \in Nat \ {0} /\ id # None /\ 0 \notin DOMAIN cats
    BY <1>5, ReportConstants
<1>7. p \in Nat /\ DOMAIN known \ {p} = DOMAIN cats \ {id} /\ DOMAIN cats \ {p} = DOMAIN cats \ {id}
      /\ (id \in DOMAIN cats => p = id)
    BY <1>4, <1>6 DEF R!Preview, R!New
<1> HIDE DEF fields, p, known, said, after
<1>8. Ranked(after)
    BY <1>1, <1>3, <1>5, <1>6 DEF Ranked
<1>9. Ranked(known)
    BY <1>3, <1>4, <1>5, <1>7 DEF Ranked
<1>10. CASE assigned[t] # None
    <2>1. R!assignCategories(after, t) = IF assigned[t] \in DOMAIN after THEN assigned[t] ELSE None
        BY <1>10 DEF R!assignCategories
    <2>2. R!assignCategories(after, t) = id <=> assigned[t] = id
        BY <1>1, <1>6, <2>1
    <2>3. ~said
        BY <1>2, <1>10
    <2> QED
        BY <2>2, <2>3 DEF said, after, fields, p
<1>11. CASE assigned[t] = None
    <2>1. R!assignCategories(after, t) = id <=>
            /\ R!candidateMatches(after[id], t)
            /\ \A e \in DOMAIN after \ {id} :
                 R!candidateMatches(after[e], t) => R!compareCategories(after, id, e)
        <3>1. id \in DOMAIN after
            BY <1>1
        <3> QED
            BY <1>8, <1>11, <3>1, AssignedIs
    <2>2. R!assignCategories(known, t) = p <=>
            /\ R!candidateMatches(known[p], t)
            /\ \A e \in DOMAIN known \ {p} :
                 R!candidateMatches(known[e], t) => R!compareCategories(known, p, e)
        <3>1. p \in DOMAIN known
            BY <1>4
        <3> QED
            BY <1>9, <1>11, <3>1, AssignedIs
    <2>3. ASSUME NEW e \in DOMAIN cats \ {id}
          PROVE  R!compareCategories(after, id, e) <=> R!compareCategories(known, p, e)
        <3>1. after[id].rank = d.rank /\ known[p].rank = d.rank
              /\ after[e].rank = cats[e].rank /\ known[e].rank = cats[e].rank
            BY <1>1, <1>3, <1>4, <1>7
        <3>2. p = id \/ cats[e].rank # d.rank
            BY <1>7
        <3> QED
            BY <3>1, <3>2 DEF R!compareCategories
    <2>4. DOMAIN after \ {id} = DOMAIN cats \ {id}
        BY <1>1
    <2>5. \A e \in DOMAIN cats \ {id} : after[e] = cats[e] /\ known[e] = cats[e]
        BY <1>1, <1>4, <1>7
    <2>6. (\A e \in DOMAIN after \ {id} :
             R!candidateMatches(after[e], t) => R!compareCategories(after, id, e))
          <=> (\A e \in DOMAIN known \ {p} :
             R!candidateMatches(known[e], t) => R!compareCategories(known, p, e))
        BY <1>7, <2>3, <2>4, <2>5
    <2>7. after[id] = known[p] /\ known[p] = fields
        BY <1>1, <1>4
    <2>8. R!assignCategories(after, t) = id <=> said
        BY <1>2, <1>11, <2>1, <2>2, <2>6, <2>7
    <2>9. assigned[t] # id
        BY <1>6, <1>11
    <2> QED
        BY <2>8, <2>9 DEF said, after, fields, p
<1> QED
    BY <1>10, <1>11

\* The action of PreviewFits.
Previews ==
    cats' # cats => \A id \in Ids, d \in Drafts, parent \in Ids \cup {None} :
        LET fields == R!WithParent(d, parent)
            foreseen == R!buildPreview(R!Preview(id), fields)
        IN  R!SaveCategory(id, fields)
            /\ (id \in DOMAIN cats \/ \A c \in DOMAIN cats : cats[c].rank # d.rank)
            => {t \in Txns : R!assignCategories(cats', t) = id} =
               {t \in Txns : assigned[t] = id \/ (t \in DOMAIN foreseen /\ foreseen[t] = "assignedHere")}

LEMMA PreviewsFit == ASSUME ReportInv, ReportInv' PROVE Previews
<1>1. ASSUME NEW id \in Ids, NEW d \in Drafts, NEW parent \in Ids \cup {None},
             R!SaveCategory(id, R!WithParent(d, parent)),
             id \in DOMAIN cats \/ \A c \in DOMAIN cats : cats[c].rank # d.rank
      PROVE  LET foreseen == R!buildPreview(R!Preview(id), R!WithParent(d, parent))
             IN  {t \in Txns : R!assignCategories(cats', t) = id} =
                 {t \in Txns : assigned[t] = id \/ (t \in DOMAIN foreseen /\ foreseen[t] = "assignedHere")}
    <2> DEFINE foreseen == R!buildPreview(R!Preview(id), R!WithParent(d, parent))
               said(t) == t \in DOMAIN foreseen /\ foreseen[t] = "assignedHere"
               got(t) == R!assignCategories(cats', t) = id
    <2>1. \A t \in Txns : got(t) <=> assigned[t] = id \/ said(t)
        BY <1>1, PreviewOf
    <2> HIDE DEF said, got
    <2>2. {t \in Txns : got(t)} = {t \in Txns : assigned[t] = id \/ said(t)}
        BY <2>1
    <2> QED
        BY <2>2 DEF said, got
<1> QED
    BY <1>1 DEF Previews

-----------------------------------------------------------------------------
(* The operators of the report are those of the trees. *)

LEMMA ReportFinite == \A s : R!IsFiniteSet(s) <=> IsFiniteSet(s)
BY Zenon DEF IsFiniteSet, R!IsFiniteSet

LEMMA ReportRoots == \A p : R!rootsOf(p) = rootsOf(p)
BY Zenon DEF R!rootsOf, rootsOf

LEMMA ReportFails == \A p : R!buildTreeFails(p) <=> buildTreeFails(p)
BY Zenon DEF R!buildTreeFails, buildTreeFails, R!reachableIds, reachableIds, R!rootsOf, rootsOf,
       R!Cardinality, Cardinality, R!IsFiniteSet, IsFiniteSet

LEMMA ReportTreeSums ==
    \A p, amounts : R!computeTreeAggregates(p, amounts) = computeTreeAggregates(p, amounts)
BY Zenon DEF R!computeTreeAggregates, computeTreeAggregates, R!childrenOf, childrenOf,
       R!MapThenSumSet, MapThenSumSet, R!MapThenFoldSet, MapThenFoldSet

LEMMA ReportDepths == \A p : R!depthOf(p) = depthOf(p)
BY Zenon DEF R!depthOf, depthOf, R!rootsOf, rootsOf

LEMMA ReportAbove == \A id : R!chainOf(id) = Climb(R!parents(cats), {id}, Cardinality(Ids))
BY Zenon DEF R!chainOf, Climb, R!Up, Up, R!Cardinality, Cardinality, R!IsFiniteSet, IsFiniteSet

LEMMA ReportSumOf == \A s : R!SumOf(s) = SumOver(TxnAmount, s)
BY Zenon DEF R!SumOf, R!MapThenSumSet, R!MapThenFoldSet, SumOver

LEMMA ReportTotals ==
    \A rs : R!total(rs) = SumOver(computeTreeAggregates(rs, R!valueOf(rs)), rootsOf(rs))
<1>1. \A rs : R!total(rs) = SumOver(R!sumsOf(rs), R!rootsOf(rs))
    BY Zenon DEF R!total, R!MapThenSumSet, R!MapThenFoldSet, SumOver
<1> QED
    BY <1>1, ReportRoots, ReportTreeSums DEF R!sumsOf

LEMMA ReportSizes ==
    /\ IsFiniteSet(Ids) /\ IsFiniteSet(Txns) /\ Txns \subseteq Nat \ (Ids \cup {0})
    /\ \A t \in Txns : TxnAmount[t] \in Int
<1>1. R!ConstantsFit
    BY PartsFit
<1> QED
    BY <1>1, ReportFinite DEF R!ConstantsFit

LEMMA ParentsAre ==
    ASSUME ReportInv
    PROVE  /\ DOMAIN R!parents(cats) = DOMAIN cats /\ IsFiniteSet(DOMAIN cats)
           /\ DOMAIN cats \subseteq Ids /\ Ids \subseteq Nat \ {0}
           /\ \A c \in DOMAIN cats : R!parents(cats)[c] = cats[c].parent
                                     /\ cats[c].parent \in DOMAIN cats \cup {None}
<1>1. DOMAIN cats \subseteq Ids /\ Ids \subseteq Nat \ {0}
    BY ReportConstants DEF ReportInv
<1>2. IsFiniteSet(DOMAIN cats)
    BY <1>1, ReportSizes, FS_Subset
<1> QED
    BY <1>1, <1>2 DEF R!parents, ReportInv, CategoryFit

LEMMA ChainOfIs ==
    ASSUME ReportInv, NEW id \in DOMAIN cats
    PROVE  R!chainOf(id) = Chain(R!parents(cats), id)
<1> DEFINE n == Cardinality(Ids)
           p == R!parents(cats)
<1>1. DOMAIN p = DOMAIN cats /\ IsFiniteSet(DOMAIN p)
    BY ParentsAre
<1>2. n \in Nat /\ Cardinality(DOMAIN p) <= n
    BY <1>1, ParentsAre, ReportSizes, FS_Subset, FS_CardinalityType
<1>3. R!chainOf(id) = Climb(p, {id}, n)
    BY ReportAbove
<1> HIDE DEF n, p
<1>4. Climb(p, {id}, n) = Chain(p, id)
    BY <1>1, <1>2, ClimbIsChain
<1> QED
    BY <1>3, <1>4 DEF p

-----------------------------------------------------------------------------
(* No category is above itself: the server refuses it. *)

NoCycle == ~Cyclic(R!parents(cats))

LEMMA InitNoCycle == R!Init => NoCycle
<1> SUFFICES ASSUME R!Init PROVE NoCycle
    OBVIOUS
<1> DEFINE p == R!parents(cats)
<1>1. ReportInv
    BY InitReport
<1>2. \A c \in DOMAIN cats : p[c] = None
    <2>1. cats \in [Stored -> {R!WithParent(d, None) : d \in Drafts}]
        BY DEF R!Init
    <2>2. ASSUME NEW c \in DOMAIN cats PROVE cats[c].parent = None
        <3>1. PICK d \in Drafts : cats[c] = R!WithParent(d, None)
            BY <2>1
        <3> QED
            BY <3>1, DraftIs
    <2> QED
        BY <2>2, <1>1, ParentsAre
<1>3. DOMAIN p = DOMAIN cats /\ None \notin DOMAIN p
    BY <1>1, ParentsAre, ReportConstants
<1>4. \A id \in DOMAIN p : p[id] = None
    BY <1>2, <1>3
<1> HIDE DEF p
<1>5. \A id \in DOMAIN p : \A a \in Chain(p, id) : p[a] # id
    BY <1>3, <1>4, ChainHas
<1> QED
    BY <1>5 DEF Cyclic, NoCycle, p

LEMMA SaveNoCycle ==
    ASSUME NEW id \in Ids, NEW d \in Drafts, NEW parent \in Ids \cup {None}, ReportInv, NoCycle, ReportInv',
           R!SaveCategory(id, R!WithParent(d, parent))
    PROVE  NoCycle'
<1> DEFINE fields == R!WithParent(d, parent)
           p == R!parents(cats)
           q == R!parents(cats')
<1>1. fields.parent = parent
    BY DraftIs
<1>2. /\ parent \in (DOMAIN cats \cup {None}) \ {id}
      /\ id \in DOMAIN cats /\ parent # None => id \notin R!chainOf(parent)
      /\ cats' = [c \in DOMAIN cats \cup {id} |-> IF c = id THEN fields ELSE cats[c]]
    <2> HIDE DEF fields
    <2> QED
        BY <1>1 DEF R!SaveCategory, fields
<1>3. /\ DOMAIN p = DOMAIN cats /\ None \notin Ids /\ DOMAIN cats \subseteq Ids
      /\ \A c \in DOMAIN cats : p[c] = cats[c].parent /\ p[c] \in DOMAIN cats \cup {None}
    BY ParentsAre, ReportConstants
<1>4. /\ DOMAIN q = DOMAIN cats \cup {id} /\ q[id] = parent
      /\ \A c \in DOMAIN cats \ {id} : q[c] = p[c]
    BY <1>1, <1>2, <1>3 DEF R!parents
<1>5. parent \in DOMAIN p => id \notin Chain(p, parent)
    <2>1. ASSUME parent \in DOMAIN cats PROVE R!chainOf(parent) = Chain(p, parent)
        BY <2>1, ChainOfIs
    <2>2. CASE id \in DOMAIN cats
        BY <1>2, <1>3, <2>1, <2>2
    <2>3. CASE id \notin DOMAIN cats
        BY <1>3, <2>3, ChainHas
    <2> QED
        BY <2>2, <2>3
<1>6. ~Cyclic(p)
    BY DEF NoCycle
<1> HIDE DEF p, q
<1>7. /\ DOMAIN q = DOMAIN p \cup {id} /\ \A c \in DOMAIN p \ {id} : q[c] = p[c]
      /\ \A c \in DOMAIN p \ {id} : p[c] \in DOMAIN q => p[c] \in DOMAIN p
      /\ q[id] # id /\ (q[id] \in DOMAIN p => id \notin Chain(p, q[id]))
    BY <1>2, <1>3, <1>4, <1>5
<1>8. ~Cyclic(q)
    BY <1>6, <1>7, Reparented
<1> QED
    BY <1>8 DEF NoCycle, q

LEMMA NextNoCycle == ReportInv /\ NoCycle /\ ReportInv' /\ [R!Next]_R!vars => NoCycle'
<1>1. ASSUME UNCHANGED cats, NoCycle PROVE NoCycle'
    BY <1>1 DEF NoCycle
<1>2. \A t, category : R!AssignCategory(t, category) => UNCHANGED cats
    BY DEF R!AssignCategory
<1>3. \A txns : R!SetFilter(txns) => UNCHANGED cats
    BY DEF R!SetFilter
<1>4. UNCHANGED R!vars => UNCHANGED cats
    BY DEF R!vars
<1> QED
    BY <1>1, <1>2, <1>3, <1>4, SaveNoCycle DEF R!Next

-----------------------------------------------------------------------------
(* The report's rows. *)

Parents == R!parents(cats)
Home == [t \in listed |-> R!assignCategories(cats, t)]
Shows == {t \in listed : Home[t] = None \/ ~R!isSkipped(Home[t])}
Within == UNION {R!chainOf(Home[t]) : t \in {u \in Shows : Home[u] # None}}
Report == R!buildCategoryReport

\* What a category has of its draft.
LEMMA CategoryHas ==
    ASSUME ReportInv, NEW c \in DOMAIN cats
    PROVE  cats[c].skip \in BOOLEAN
<1>1. PICK d \in Drafts : cats[c] = R!WithParent(d, cats[c].parent)
    BY DEF ReportInv, CategoryFit
<1>2. d \in R!Draft
    BY ReportConstants
<1>3. d.skip \in BOOLEAN /\ "skip" \in DOMAIN d
    BY <1>2 DEF R!Draft
<1> DEFINE p == cats[c].parent
<1>4. R!WithParent(d, p).skip = d.skip
    BY <1>3 DEF R!WithParent
<1>5. cats[c].skip = d.skip
    BY <1>1, <1>4
<1> QED
    BY <1>3, <1>5

LEMMA HomeIs ==
    ASSUME ReportInv, NEW t \in listed
    PROVE  t \in Txns /\ Home[t] \in DOMAIN cats \cup {None}
<1>1. t \in Txns
    BY DEF ReportInv
<1> DEFINE hits == {c \in DOMAIN cats : R!candidateMatches(cats[c], t)}
           taken == CHOOSE c \in hits : \A e \in hits \ {c} : R!compareCategories(cats, c, e)
<1>2. Home[t] = IF assigned[t] # None THEN IF assigned[t] \in DOMAIN cats THEN assigned[t] ELSE None
                ELSE IF hits = {} THEN None ELSE taken
    BY DEF Home, R!assignCategories
<1>3. hits # {} => taken \in hits
    <2>1. Ranked(cats) /\ hits \in SUBSET DOMAIN cats
        BY CatsRanked
    <2>2. hits # {} => \E c \in hits : \A e \in hits \ {c} : R!compareCategories(cats, c, e)
        <3> HIDE DEF hits
        <3> QED
            BY <2>1, FirstHit
    <2> HIDE DEF hits
    <2> QED
        BY <2>2
<1>4. hits \subseteq DOMAIN cats
    OBVIOUS
<1> HIDE DEF hits, taken
<1> QED
    BY <1>1, <1>2, <1>3, <1>4

LEMMA ReportIs ==
    Report = [r \in {R!Unassigned} \cup Within \cup Shows |->
                IF r = R!Unassigned THEN None
                ELSE IF r \in Txns THEN IF Home[r] = None THEN R!Unassigned ELSE Home[r]
                ELSE cats[r].parent]
BY DEF Report, R!buildCategoryReport, Within, Shows, Home

LEMMA ShowsAre ==
    ASSUME ReportInv
    PROVE  /\ Shows \subseteq Txns /\ IsFiniteSet(Shows) /\ Shows \subseteq listed
           /\ \A t \in Shows : Home[t] \in DOMAIN cats \cup {None}
           /\ Shows \cap DOMAIN cats = {} /\ R!Unassigned \notin DOMAIN cats \cup Txns
           /\ None \notin DOMAIN cats \cup Txns \cup {R!Unassigned}
<1>1. Shows \subseteq listed /\ listed \subseteq Txns
    BY DEF Shows, ReportInv
<1>2. IsFiniteSet(Shows)
    BY <1>1, ReportSizes, FS_Subset
<1>3. DOMAIN cats \subseteq Ids /\ Ids \subseteq Nat \ {0} /\ Txns \subseteq Nat \ (Ids \cup {0})
    BY ParentsAre, ReportSizes
<1>4. R!Unassigned \notin Nat
    BY DEF R!Unassigned
<1>5. Shows \subseteq Txns /\ \A t \in Shows : Home[t] \in DOMAIN cats \cup {None}
    BY <1>1, HomeIs
<1>6. DOMAIN cats \subseteq Nat /\ Txns \subseteq Nat /\ Txns \cap DOMAIN cats = {}
    BY <1>3
<1>7. None \notin Nat /\ None # R!Unassigned
    BY ReportNone
<1> QED
    BY <1>1, <1>2, <1>4, <1>5, <1>6, <1>7

LEMMA WithinIs ==
    ASSUME ReportInv
    PROVE  Within = UNION {Chain(Parents, Home[t]) : t \in {v \in Shows : Home[v] # None}}
<1>1. ASSUME NEW t \in Shows, Home[t] # None PROVE R!chainOf(Home[t]) = Chain(Parents, Home[t])
    <2>1. Home[t] \in DOMAIN cats
        BY <1>1, ShowsAre
    <2> QED
        BY <2>1, ChainOfIs DEF Parents
<1> QED
    BY <1>1 DEF Within

LEMMA CategoriesForest == ASSUME ReportInv, NoCycle PROVE IsForest(Parents) /\ DOMAIN Parents = DOMAIN cats
BY ParentsAre DEF IsForest, NoCycle, Parents

LEMMA ReportRows ==
    ASSUME ReportInv, NoCycle
    PROVE  IsReport(Report, Parents, Home, Shows, Within, R!Unassigned)
<1>1. IsForest(Parents) /\ DOMAIN Parents = DOMAIN cats
      /\ \A c \in DOMAIN cats : Parents[c] = cats[c].parent /\ Parents[c] \in DOMAIN cats \cup {None}
    BY CategoriesForest, ParentsAre DEF Parents
<1>2. Within \subseteq DOMAIN cats
    <2>1. ASSUME NEW t \in Shows, Home[t] # None PROVE Chain(Parents, Home[t]) \subseteq DOMAIN cats
        BY <1>1, <2>1, ShowsAre, ChainHas
    <2> QED
        BY <2>1, WithinIs
<1>3. /\ Shows \subseteq Txns /\ IsFiniteSet(Shows)
      /\ \A t \in Shows : Home[t] \in DOMAIN cats \cup {None}
      /\ Shows \cap DOMAIN cats = {} /\ R!Unassigned \notin DOMAIN cats \cup Txns
      /\ None \notin DOMAIN cats \cup Txns \cup {R!Unassigned}
    BY ShowsAre
<1>4. Txns \cap DOMAIN cats = {}
    BY ParentsAre, ReportSizes
<1>5. /\ DOMAIN Report = {R!Unassigned} \cup Within \cup Shows
      /\ Report[R!Unassigned] = None
      /\ \A t \in Shows : Report[t] = IF Home[t] = None THEN R!Unassigned ELSE Home[t]
      /\ \A c \in Within : Report[c] = cats[c].parent
    BY <1>2, <1>3, <1>4, ReportIs
<1> QED
    BY <1>1, <1>2, <1>3, <1>5, WithinIs DEF IsReport

LEMMA ListedAre ==
    ASSUME ReportInv
    PROVE  \A t \in listed : /\ t \in Shows <=> R!Listed(t)
                             /\ Home[t] = R!assignCategories(cats, t)
<1> SUFFICES ASSUME NEW t \in listed
             PROVE  (t \in Shows <=> R!Listed(t)) /\ Home[t] = R!assignCategories(cats, t)
    OBVIOUS
<1>1. Home[t] = R!assignCategories(cats, t)
    BY DEF Home
<1> DEFINE c == Home[t]
<1>2. ASSUME c # None PROVE R!isSkipped(c) <=> R!KeptOut(c)
    <2>1. c \in DOMAIN cats
        BY <1>2, HomeIs
    <2>2. R!chainOf(c) \subseteq DOMAIN cats
        BY <2>1, ChainOfIs, ParentsAre, ChainHas
    <2>3. \A a \in R!chainOf(c) : cats[a].skip \in BOOLEAN
        BY <2>2, CategoryHas
    <2>4. \A a \in R!chainOf(c) : cats[a].skip <=> cats[a].skip = TRUE
        BY <2>3
    <2> HIDE DEF c
    <2> QED
        BY <2>4, Zenon DEF R!isSkipped, R!KeptOut
<1>3. R!Listed(t) <=> (c = None \/ ~R!KeptOut(c))
    BY <1>1 DEF R!Listed
<1>4. t \in Shows <=> (c = None \/ ~R!isSkipped(c))
    BY DEF Shows
<1> QED
    BY <1>1, <1>2, <1>3, <1>4

LEMMA AmountsAre ==
    ASSUME ReportInv, NEW rs
    PROVE  AreAmounts(R!valueOf(rs), rs, DOMAIN rs \cap Txns)
<1>1. \A r \in DOMAIN rs : R!valueOf(rs)[r] = IF r \in Txns THEN TxnAmount[r] ELSE 0
    BY DEF R!valueOf, R!isTransaction
<1> QED
    BY <1>1, ReportSizes DEF AreAmounts

LEMMA ReportTxns ==
    ASSUME ReportInv, NoCycle
    PROVE  /\ DOMAIN Report \cap Txns = Shows
           /\ DOMAIN Report = {R!Unassigned} \cup Within \cup Shows
           /\ Within \subseteq DOMAIN cats /\ Within \cap Txns = {}
<1>1. IsReport(Report, Parents, Home, Shows, Within, R!Unassigned)
    BY ReportRows
<1>2. Within \subseteq DOMAIN cats
    BY <1>1, ReportUp, CategoriesForest
<1>3. DOMAIN Report = {R!Unassigned} \cup Within \cup Shows
    BY <1>1 DEF IsReport
<1>4. Txns \cap DOMAIN cats = {}
    BY ParentsAre, ReportSizes
<1> QED
    BY <1>2, <1>3, <1>4, ShowsAre

LEMMA ReportCategorySums ==
    ASSUME ReportInv, NoCycle, NEW c \in DOMAIN Report \ (Txns \cup {R!Unassigned})
    PROVE  R!sumsOf(Report)[c] =
             R!SumOf({t \in listed : R!Listed(t) /\ R!assignCategories(cats, t) # None
                                     /\ c \in R!chainOf(R!assignCategories(cats, t))})
<1> DEFINE own == {t \in Shows : Home[t] # None /\ c \in Chain(Parents, Home[t])}
           vals == R!valueOf(Report)
<1>1. c \in Within
    BY ReportTxns, ShowsAre
<1>2. AreAmounts(vals, Report, Shows)
    BY AmountsAre, ReportTxns
<1>3. IsReport(Report, Parents, Home, Shows, Within, R!Unassigned)
    BY ReportRows
<1>4. R!sumsOf(Report)[c] = computeTreeAggregates(Report, vals)[c]
    BY ReportTreeSums DEF R!sumsOf
<1> HIDE DEF vals
<1>5. computeTreeAggregates(Report, vals)[c] = SumOver(TxnAmount, own)
    BY <1>1, <1>2, <1>3, CategorySums
<1>6. own = {t \in listed : R!Listed(t) /\ R!assignCategories(cats, t) # None
                            /\ c \in R!chainOf(R!assignCategories(cats, t))}
    <2>1. \A t \in listed : (t \in Shows <=> R!Listed(t)) /\ Home[t] = R!assignCategories(cats, t)
        BY ListedAre
    <2>2. \A t \in listed : Home[t] # None => R!chainOf(Home[t]) = Chain(Parents, Home[t])
        BY HomeIs, ChainOfIs DEF Parents
    <2>3. Shows \subseteq listed
        BY ShowsAre
    <2> QED
        BY <2>1, <2>2, <2>3
<1> HIDE DEF own
<1> QED
    BY <1>4, <1>5, <1>6, ReportSumOf

LEMMA ReportTotal ==
    ASSUME ReportInv, NoCycle
    PROVE  R!total(Report) = R!SumOf({t \in listed : R!Listed(t)})
<1> DEFINE vals == R!valueOf(Report)
<1>1. IsForest(Report) /\ \A t \in Shows : childrenOf(Report, t) = {}
    BY ReportRows, ReportIsForest
<1>2. AreAmounts(vals, Report, Shows) /\ Shows \in SUBSET DOMAIN Report
    BY AmountsAre, ReportTxns
<1>3. R!total(Report) = SumOver(computeTreeAggregates(Report, vals), rootsOf(Report))
    BY ReportTotals
<1> HIDE DEF vals
<1>4. SumOver(computeTreeAggregates(Report, vals), rootsOf(Report)) = SumOver(TxnAmount, Shows)
    BY <1>1, <1>2, TotalIs
<1>5. Shows = {t \in listed : R!Listed(t)}
    BY ListedAre, ShowsAre
<1> QED
    BY <1>3, <1>4, <1>5, ReportSumOf

-----------------------------------------------------------------------------
(* The levels of a report. *)

LEMMA ReportLevels ==
    ASSUME ReportInv, NoCycle
    PROVE  /\ R!maxCategoryDepth(Report) >= 1
           /\ R!walked(Report, R!maxCategoryDepth(Report)) = DOMAIN Report \ Txns
<1> DEFINE own == DOMAIN Report \ Txns
           level == [r \in own |-> depthOf(Report)[r] + 1]
           seenLevels == {level[r] : r \in own}
           most == CHOOSE x \in seenLevels : \A y \in seenLevels : x >= y
<1>1. IsForest(Report) /\ R!Unassigned \in own /\ R!Unassigned \in rootsOf(Report)
    <2>1. IsReport(Report, Parents, Home, Shows, Within, R!Unassigned)
        BY ReportRows
    <2>2. IsForest(Report)
        BY <2>1, ReportIsForest
    <2>3. R!Unassigned \in own
        BY ReportTxns, ShowsAre
    <2>4. Report[R!Unassigned] \notin DOMAIN Report
        <3>1. Report[R!Unassigned] = None
            BY <2>1 DEF IsReport
        <3> QED
            BY <3>1, ReportTxns, ShowsAre
    <2> QED
        BY <2>2, <2>3, <2>4 DEF rootsOf
<1>2. \A r \in own : depthOf(Report)[r] \in Nat /\ level[r] \in Nat
    BY <1>1, DepthsAre
<1>3. level[R!Unassigned] = 1
    BY <1>1, DepthsAre
<1>4. IsFiniteSet(own) /\ own # {}
    BY <1>1, FS_Subset DEF IsForest
<1>5. PICK h \in own : \A r \in own : level[r] <= level[h]
    <2> HIDE DEF own, level
    <2> QED
        BY <1>2, <1>4, GreatestOf
<1>6. most \in seenLevels /\ \A y \in seenLevels : most >= y
    <2>1. level[h] \in seenLevels /\ \A y \in seenLevels : level[h] >= y
        BY <1>2, <1>5
    <2> HIDE DEF seenLevels
    <2> QED
        BY <2>1
<1>7. most \in Nat /\ most >= 1
    BY <1>1, <1>2, <1>3, <1>6
<1>8. R!maxCategoryDepth(Report) = most
    <2>1. {R!depthOf(Report)[r] + 1 : r \in {c \in DOMAIN Report : ~R!isTransaction(c)}} = seenLevels
        BY ReportDepths DEF R!isTransaction
    <2>2. seenLevels # {}
        BY <1>4
    <2> HIDE DEF seenLevels
    <2> QED
        BY <2>1, <2>2 DEF R!maxCategoryDepth, R!Max
<1>9. \A r \in own : depthOf(Report)[r] < most
    <2>1. \A r \in own : most >= level[r]
        BY <1>6
    <2> HIDE DEF own, most, seenLevels
    <2>2. \A r \in own : level[r] = depthOf(Report)[r] + 1
        OBVIOUS
    <2> HIDE DEF level
    <2> QED
        BY <1>2, <1>7, <2>1, <2>2
<1>10. R!walked(Report, most) = own
    <2> HIDE DEF most
    <2>1. most # 0
        BY <1>7
    <2>2. R!walked(Report, most) = {r \in DOMAIN Report : r \notin Txns /\ depthOf(Report)[r] < most}
        BY <2>1, ReportDepths DEF R!walked, R!All, R!isTransaction
    <2> QED
        BY <1>9, <2>2
<1> QED
    BY <1>7, <1>8, <1>10

-----------------------------------------------------------------------------
(* The tax sections. *)

Tag == [c \in DOMAIN cats |-> cats[c].tag]

LEMMA EffectiveIs ==
    ASSUME ReportInv, NoCycle
    PROVE  \A c \in DOMAIN cats :
             SectionsAbove(Parents, Tag, c) =
                IF R!effectiveTaxSection(c) = None THEN {} ELSE {R!effectiveTaxSection(c)}
<1> DEFINE IsSection(f) == f = [c \in DOMAIN cats |->
                IF cats[c].tag = "St-0" THEN None
                ELSE IF cats[c].tag # None THEN cats[c].tag
                ELSE IF cats[c].parent \in DOMAIN cats THEN f[cats[c].parent] ELSE None]
           section == CHOOSE f : IsSection(f)
<1>1. \A c : R!effectiveTaxSection(c) = section[c]
    BY DEF R!effectiveTaxSection
<1>2. IsForest(Parents) /\ DOMAIN Parents = DOMAIN cats /\ \A c \in DOMAIN cats : Parents[c] = cats[c].parent
    BY CategoriesForest, ParentsAre DEF Parents
<1>3. None # "St-0"
    BY ReportNone
<1>4. PICK g : DOMAIN g = DOMAIN Parents
               /\ \A c \in DOMAIN Parents : g[c] = SectionStep(g, Parents, Tag, c)
    BY <1>2, <1>3, SectionExists
<1>5. \A f : \A c \in DOMAIN cats : SectionStep(f, Parents, Tag, c) =
                IF cats[c].tag = "St-0" THEN None
                ELSE IF cats[c].tag # None THEN cats[c].tag
                ELSE IF cats[c].parent \in DOMAIN cats THEN f[cats[c].parent] ELSE None
    BY <1>2 DEF SectionStep, Tag
<1>6. \E f : IsSection(f)
    <2> DEFINE f == [c \in DOMAIN cats |-> g[c]]
    <2>1. ASSUME NEW c \in DOMAIN cats
          PROVE  f[c] = IF cats[c].tag = "St-0" THEN None
                        ELSE IF cats[c].tag # None THEN cats[c].tag
                        ELSE IF cats[c].parent \in DOMAIN cats THEN f[cats[c].parent] ELSE None
        BY <1>2, <1>4, <1>5
    <2>2. f = [c \in DOMAIN cats |-> f[c]]
        OBVIOUS
    <2> HIDE DEF f
    <2>3. IsSection(f)
        BY <2>1, <2>2
    <2> QED
        BY <2>3
<1>7. IsSection(section)
    BY <1>6
<1> HIDE DEF section
<1>8. \A c \in DOMAIN Parents : section[c] = SectionStep(section, Parents, Tag, c)
    BY <1>2, <1>5, <1>7
<1>9. \A c \in DOMAIN Parents :
         SectionsAbove(Parents, Tag, c) = IF section[c] = None THEN {} ELSE {section[c]}
    BY <1>2, <1>3, <1>8, SectionsAre
<1> QED
    BY <1>1, <1>2, <1>9

LEMMA SectionIs ==
    ASSUME ReportInv, NoCycle, NEW c \in DOMAIN cats
    PROVE  R!Section(c) = SectionsAbove(Parents, Tag, c)
<1>1. \A a \in DOMAIN cats : R!chainOf(a) = Chain(Parents, a) /\ Chain(Parents, a) \subseteq DOMAIN cats
    BY ChainOfIs, ChainHas, CategoriesForest DEF Parents
<1> DEFINE tagged == {a \in R!chainOf(c) : cats[a].tag # None}
           nearest == {a \in tagged : \A b \in tagged : a \in R!chainOf(b) => b = a}
<1>2. R!Section(c) = {cats[a].tag : a \in nearest} \ {"St-0"}
    BY DEF R!Section
<1>3. tagged = TaggedAbove(Parents, Tag, c) /\ tagged \subseteq DOMAIN cats
    BY <1>1 DEF TaggedAbove, Tag
<1>4. nearest = NearestAbove(Parents, Tag, c) /\ nearest \subseteq DOMAIN cats
    <2> HIDE DEF tagged
    <2> QED
        BY <1>1, <1>3 DEF NearestAbove
<1> HIDE DEF nearest
<1> QED
    BY <1>2, <1>4 DEF SectionsAbove, Tag

\* A category counts for one of some sections exactly if its section is among them.
LEMMA CountsFor ==
    ASSUME ReportInv, NoCycle, NEW codes \in SUBSET Codes, NEW c \in DOMAIN cats
    PROVE  R!effectiveTaxSection(c) \in codes <=> R!Section(c) \cap codes # {}
<1>1. None \notin codes
    BY ReportNone
<1>2. R!Section(c) = IF R!effectiveTaxSection(c) = None THEN {} ELSE {R!effectiveTaxSection(c)}
    BY SectionIs, EffectiveIs
<1> QED
    BY <1>1, <1>2

-----------------------------------------------------------------------------
(* The export of some tax sections. *)

TaxTxns(codes) ==
    {r \in DOMAIN Report : R!isTransaction(r) /\ Report[r] # R!Unassigned
                           /\ R!effectiveTaxSection(Report[r]) \in codes}

LEMMA FilteredIs ==
    ASSUME NEW codes
    PROVE  R!filterReportByTaxSections(Report, codes) =
             [r \in Climb(Report, TaxTxns(codes), Cardinality(DOMAIN Report)) |-> Report[r]]
BY Zenon DEF R!filterReportByTaxSections, TaxTxns, Climb, R!Restrict, R!Up, Up,
             R!Cardinality, Cardinality, R!IsFiniteSet, IsFiniteSet

LEMMA TaxTxnsAre ==
    ASSUME ReportInv, NoCycle, NEW codes \in SUBSET Codes
    PROVE  /\ TaxTxns(codes) \in SUBSET Shows
           /\ TaxTxns(codes) =
                {t \in listed : R!Listed(t) /\ \E c \in Ids : c = R!assignCategories(cats, t)
                                                   /\ R!Section(c) \cap codes # {}}
<1>1. DOMAIN Report \cap Txns = Shows
    BY ReportTxns
<1>2. \A t \in Shows : Report[t] = IF Home[t] = None THEN R!Unassigned ELSE Home[t]
    BY ReportRows DEF IsReport
<1>3. \A t \in Shows : Home[t] \in DOMAIN cats \cup {None} /\ Shows \subseteq listed
    BY ShowsAre
<1>4. R!Unassigned \notin DOMAIN cats /\ None \notin Ids /\ DOMAIN cats \subseteq Ids
    BY ShowsAre, ParentsAre, ReportConstants
<1>5. \A t \in listed : (t \in Shows <=> R!Listed(t)) /\ Home[t] = R!assignCategories(cats, t)
    BY ListedAre
<1>6. ASSUME NEW t \in Shows
      PROVE  t \in TaxTxns(codes) <=> \E c \in Ids : c = Home[t] /\ R!Section(c) \cap codes # {}
    <2>1. t \in DOMAIN Report /\ R!isTransaction(t)
        BY <1>1 DEF R!isTransaction
    <2>2. CASE Home[t] = None
        BY <1>2, <1>4, <2>1, <2>2 DEF TaxTxns
    <2>3. CASE Home[t] # None
        <3>1. Home[t] \in DOMAIN cats /\ Report[t] = Home[t] /\ Home[t] # R!Unassigned
            BY <1>2, <1>3, <1>4, <2>3
        <3>2. R!effectiveTaxSection(Home[t]) \in codes <=> R!Section(Home[t]) \cap codes # {}
            BY <3>1, CountsFor
        <3> QED
            BY <1>4, <2>1, <3>1, <3>2 DEF TaxTxns
    <2> QED
        BY <2>2, <2>3
<1>7. TaxTxns(codes) \subseteq Shows
    BY <1>1 DEF TaxTxns, R!isTransaction
<1>8. Shows \subseteq listed
    BY ShowsAre
<1> QED
    BY <1>5, <1>6, <1>7, <1>8

LEMMA TaxExportIs ==
    ASSUME ReportInv, NoCycle, NEW codes \in SUBSET Codes
    PROVE  LET less == R!filterReportByTaxSections(Report, codes) IN
             /\ DOMAIN less \cap Txns = TaxTxns(codes)
             /\ \A r \in DOMAIN less : less[r] \in DOMAIN cats => less[r] \in DOMAIN less
             /\ R!total(less) = R!SumOf(DOMAIN less \cap Txns)
<1> DEFINE less == R!filterReportByTaxSections(Report, codes)
           some == TaxTxns(codes)
           vals == R!valueOf(less)
<1>1. IsReport(Report, Parents, Home, Shows, Within, R!Unassigned)
    BY ReportRows
<1>2. some \in SUBSET Shows
    BY TaxTxnsAre
<1>3. DOMAIN less = Climb(Report, some, Cardinality(DOMAIN Report))
      /\ \A r \in DOMAIN less : less[r] = Report[r]
    BY FilteredIs
<1>4. R!total(less) = SumOver(computeTreeAggregates(less, vals), rootsOf(less))
    BY ReportTotals
<1>5. AreAmounts(vals, less, DOMAIN less \cap Txns)
    BY AmountsAre
<1> HIDE DEF less, some, vals
<1>6. /\ DOMAIN less \in SUBSET DOMAIN Report /\ DOMAIN less \cap Shows = some
      /\ IsForest(less) /\ \A t \in some : childrenOf(less, t) = {}
      /\ \A r \in DOMAIN less : less[r] \in DOMAIN Parents => less[r] \in DOMAIN less
    BY <1>1, <1>2, <1>3, KeptRows
<1>7. DOMAIN less \cap Txns = some
    BY <1>6, ReportTxns
<1>8. \A r \in DOMAIN less : less[r] \in DOMAIN cats => less[r] \in DOMAIN less
    BY <1>6, CategoriesForest
<1>9. AreAmounts(vals, less, some) /\ some \in SUBSET DOMAIN less
    BY <1>5, <1>6, <1>7
<1>10. SumOver(computeTreeAggregates(less, vals), rootsOf(less)) = SumOver(TxnAmount, some)
    BY <1>6, <1>9, TotalIs
<1>11. R!total(less) = R!SumOf(DOMAIN less \cap Txns)
    BY <1>4, <1>7, <1>10, ReportSumOf
<1> QED
    BY <1>7, <1>8, <1>11 DEF less, some

-----------------------------------------------------------------------------

LEMMA ReportSumsAre == ASSUME ReportInv, NoCycle PROVE R!ReportSumsFit
<1>1. ~R!buildTreeFails(Parents) /\ ~R!buildTreeFails(Report)
    <2>1. IsForest(Parents) /\ IsForest(Report)
        BY CategoriesForest, ReportRows, ReportIsForest
    <2>2. ~buildTreeFails(Parents) /\ ~buildTreeFails(Report)
        BY <2>1, CyclesAreLeft DEF IsForest
    <2> QED
        BY <2>2, ReportFails
<1>2. \A c \in DOMAIN Report \ (Txns \cup {R!Unassigned}) :
         R!sumsOf(Report)[c] =
             R!SumOf({t \in listed : R!Listed(t) /\ R!assignCategories(cats, t) # None
                                     /\ c \in R!chainOf(R!assignCategories(cats, t))})
    BY ReportCategorySums
<1>3. R!total(Report) = R!SumOf({t \in listed : R!Listed(t)})
    BY ReportTotal
<1>4. /\ R!maxCategoryDepth(Report) >= 1
      /\ R!walked(Report, R!maxCategoryDepth(Report)) = DOMAIN Report \ Txns
    BY ReportLevels
<1> QED
    BY <1>1, <1>2, <1>3, <1>4 DEF R!ReportSumsFit, Report, Parents

LEMMA TaxExportsFit == ASSUME ReportInv, NoCycle PROVE R!TaxExportFits
<1> SUFFICES ASSUME NEW codes \in SUBSET Codes
             PROVE  LET less == R!filterReportByTaxSections(Report, codes) IN
                    /\ DOMAIN less \cap Txns =
                         {t \in listed : R!Listed(t) /\ \E c \in Ids : c = R!assignCategories(cats, t)
                                                            /\ R!Section(c) \cap codes # {}}
                    /\ \A r \in DOMAIN less :
                         less[r] # None /\ less[r] \in DOMAIN cats => less[r] \in DOMAIN less
                    /\ R!total(less) = R!SumOf(DOMAIN less \cap Txns)
    BY DEF R!TaxExportFits, Report
<1> DEFINE less == R!filterReportByTaxSections(Report, codes)
<1>1. /\ DOMAIN less \cap Txns = TaxTxns(codes)
      /\ \A r \in DOMAIN less : less[r] \in DOMAIN cats => less[r] \in DOMAIN less
      /\ R!total(less) = R!SumOf(DOMAIN less \cap Txns)
    BY TaxExportIs
<1>2. TaxTxns(codes) = {t \in listed : R!Listed(t) /\ \E c \in Ids : c = R!assignCategories(cats, t)
                                                            /\ R!Section(c) \cap codes # {}}
    BY TaxTxnsAre
<1> HIDE DEF less
<1>3. /\ DOMAIN less \cap Txns =
                         {t \in listed : R!Listed(t) /\ \E c \in Ids : c = R!assignCategories(cats, t)
                                                            /\ R!Section(c) \cap codes # {}}
      /\ \A r \in DOMAIN less :
                         less[r] # None /\ less[r] \in DOMAIN cats => less[r] \in DOMAIN less
      /\ R!total(less) = R!SumOf(DOMAIN less \cap Txns)
    BY <1>1, <1>2
<1> QED
    BY <1>3 DEF less

-----------------------------------------------------------------------------
(* All parts together. *)

Parts == {"sync", "settings", "table", "tree", "report", "export"}

\* What holds of the part the behaviour is about.
SuiteInv ==
    /\ part \in Parts
    /\ part = "sync" => SyncInv
    /\ part = "settings" => SettingInv
    /\ part = "table" => TableInv
    /\ part = "tree" => ForestInv /\ RefusedFit
    /\ part = "report" => ReportInv /\ NoCycle
    /\ part = "export" => ExportInv

LEMMA InitParts == Init => SuiteInv
<1> SUFFICES ASSUME Init PROVE SuiteInv
    OBVIOUS
<1>1. CASE part = "sync"
    BY <1>1, InitSync DEF Init, SuiteInv, Parts
<1>2. CASE part = "settings"
    BY <1>2, InitSetting DEF Init, SuiteInv, Parts
<1>3. CASE part = "export"
    BY <1>3, InitExport DEF Init, SuiteInv, Parts
<1>4. CASE part = "table"
    BY <1>4, InitTable DEF Init, SuiteInv, Parts
<1>5. CASE part = "tree"
    BY <1>5, InitForest, InitRefused DEF Init, SuiteInv, Parts
<1>6. CASE part = "report"
    BY <1>6, InitReport, InitNoCycle DEF Init, SuiteInv, Parts
<1> QED
    BY <1>1, <1>2, <1>3, <1>4, <1>5, <1>6 DEF Init

\* A step of the suite is one of the part it is about, and the rest stands still.
LEMMA StepsOfParts ==
    ASSUME [Next]_vars
    PROVE  /\ part' = part
           /\ part = "sync" => S!Next \/ UNCHANGED S!vars
           /\ part = "settings" => U!Next \/ UNCHANGED U!vars
           /\ part = "table" => D!Next \/ UNCHANGED D!vars
           /\ part = "tree" => T!Next \/ UNCHANGED T!vars
           /\ part = "report" => R!Next \/ UNCHANGED R!vars
           /\ part = "export" => X!Next \/ UNCHANGED X!vars
           /\ part # "sync" => UNCHANGED tanDialog
           /\ part # "settings" => UNCHANGED <<setting, stored, editor, submitted>>
           /\ part # "report" => UNCHANGED cats
           /\ part # "export" => UNCHANGED job
<1> USE DEF syncVars, settingVars, tableVars, treeVars, reportVars, exportVars
<1>1. CASE UNCHANGED vars
    <2>1. UNCHANGED <<part, syncVars, settingVars, tableVars, treeVars, reportVars, exportVars>>
        BY <1>1 DEF vars
    <2>2. UNCHANGED S!vars
        BY <2>1 DEF S!vars
    <2>3. UNCHANGED U!vars
        BY <2>1 DEF U!vars, U!channel
    <2>4. UNCHANGED X!vars
        BY <2>1 DEF X!vars
    <2>5. UNCHANGED D!vars
        BY <2>1 DEF D!vars, D!view
    <2>6. UNCHANGED T!vars
        BY <2>1 DEF T!vars
    <2>7. UNCHANGED R!vars
        BY <2>1 DEF R!vars
    <2> QED
        BY <2>1, <2>2, <2>3, <2>4, <2>5, <2>6, <2>7
<1>2. CASE Next
    BY <1>2 DEF Next
<1> QED
    BY <1>1, <1>2

LEMMA NextParts == SuiteInv /\ [Next]_vars => SuiteInv'
<1> SUFFICES ASSUME SuiteInv, [Next]_vars PROVE SuiteInv'
    OBVIOUS
<1>1. part' = part /\ part \in Parts
    BY StepsOfParts DEF SuiteInv
<1>2. CASE part = "sync"
    BY <1>1, <1>2, StepsOfParts, NextSync DEF SuiteInv
<1>3. CASE part = "settings"
    BY <1>1, <1>3, StepsOfParts, NextSetting DEF SuiteInv
<1>4. CASE part = "export"
    BY <1>1, <1>4, StepsOfParts, NextExport DEF SuiteInv
<1>5. CASE part = "table"
    BY <1>1, <1>5, StepsOfParts, NextTable DEF SuiteInv
<1>6. CASE part = "tree"
    BY <1>1, <1>6, StepsOfParts, NextForest, NextRefused DEF SuiteInv
<1>7. CASE part = "report"
    BY <1>1, <1>7, StepsOfParts, NextReport, NextNoCycle DEF SuiteInv
<1> QED
    BY <1>1, <1>2, <1>3, <1>4, <1>5, <1>6, <1>7 DEF Parts

LEMMA AlwaysParts == Spec => []SuiteInv
BY InitParts, NextParts, PTL DEF Spec

LEMMA DialogOfSuite ==
    ASSUME SuiteInv, [Next]_vars
    PROVE  [tanDialog # None /\ tanDialog.asked
              /\ server.run = tanDialog.run /\ server.challenge = tanDialog.challenge
              /\ (tanDialog' = None \/ tanDialog'.run # tanDialog.run)
              => S!Close \/ \E i \in DOMAIN requests : S!OpensAnother(i)]_tanDialog
<1>1. CASE UNCHANGED tanDialog
    BY <1>1
<1>2. CASE ~UNCHANGED tanDialog
    <2>1. part = "sync"
        BY <1>2, StepsOfParts
    <2>2. SyncInv /\ S!Next
        BY <2>1, <1>2, StepsOfParts DEF SuiteInv, S!vars
    <2> QED
        BY <2>2, DialogStays
<1> QED
    BY <1>1, <1>2

LEMMA DraftOfSuite ==
    ASSUME SuiteInv, [Next]_vars
    PROVE  [submitted # None /\ submitted' = None /\ editor # None /\ editor' = None
              => \E i \in DOMAIN U!Current : U!Current[i] = submitted]_<<submitted, editor>>
<1>1. CASE UNCHANGED <<submitted, editor>>
    BY <1>1
<1>2. CASE ~UNCHANGED <<submitted, editor>>
    <2>1. part = "settings"
        BY <1>2, StepsOfParts
    <2>2. SettingInv /\ U!Next
        BY <2>1, <1>2, StepsOfParts DEF SuiteInv, U!vars
    <2> QED
        BY <2>2, DraftStays
<1> QED
    BY <1>1, <1>2

LEMMA DensitiesOfSuite ==
    ASSUME SuiteInv, [Next]_vars
    PROVE  [setting = "densities" /\ faults = 0 => U!SetsOneDensity]_stored
<1>1. CASE UNCHANGED stored
    BY <1>1
<1>2. CASE ~UNCHANGED stored
    <2>1. part = "settings"
        BY <1>2, StepsOfParts
    <2>2. SettingInv /\ U!Next
        BY <2>1, <1>2, StepsOfParts DEF SuiteInv, U!vars
    <2> QED
        BY <2>2, DensitiesStay DEF U!SetsOneDensity
<1> QED
    BY <1>1, <1>2

LEMMA FileOfSuite ==
    ASSUME SuiteInv, [Next]_vars
    PROVE  [X!HandsOver
              => dialog # None /\ dialog.busy /\ job.input.options.taxSections # {}]_job
<1>1. CASE UNCHANGED job
    BY <1>1
<1>2. CASE ~UNCHANGED job
    <2>1. part = "export"
        BY <1>2, StepsOfParts
    <2>2. ExportInv
        BY <2>1 DEF SuiteInv
    <2> QED
        BY <2>2, FileStays
<1> QED
    BY <1>1, <1>2

LEMMA PreviewsOfSuite ==
    ASSUME SuiteInv, [Next]_vars
    PROVE  [Previews]_cats
<1>1. CASE UNCHANGED cats
    BY <1>1
<1>2. CASE ~UNCHANGED cats
    <2>1. part = "report"
        BY <1>2, StepsOfParts
    <2>2. ReportInv /\ ReportInv'
        BY <2>1, NextParts, StepsOfParts DEF SuiteInv
    <2> QED
        BY <2>2, PreviewsFit
<1> QED
    BY <1>1, <1>2

-----------------------------------------------------------------------------
(* The theorems. *)

\* Each part's variables keep their types, whatever the part, the rows with their keys and
\* parents, the transactions, the presets and the drafts are and however often each part is
\* used (the stores and components of a tab).
THEOREM ScreensTypes == Spec => []TypeOK
<1>1. SuiteInv => TypeOK
    BY SyncTypes, SettingTypes, TableTypes, ForestTypes, ReportTypes, ExportTypes
       DEF SuiteInv, Parts, TypeOK
<1> QED
    BY <1>1, AlwaysParts, PTL

\* Whatever is selected was chosen and has been displayed at every rendering since; a bulk
\* action acts on what is seen to be selected, rows without a value come last in either
\* order among those with the same parent, and the nodes the user opened or closed stay so,
\* whatever rows come and go. The rows, their keys, parents and filters are any that
\* PartsFit admits (DataTableComponent, toTreeNodes).
THEOREM TablesStaySound == Spec => []TablesSound
<1>1. SuiteInv => TablesSound
    BY NothingHidden, BulkIsSelected, EmptiesAreLast, ExpansionStays DEF SuiteInv, TablesSound
<1> QED
    BY <1>1, AlwaysParts, PTL

\* A table refuses its rows exactly when one of them lies above itself, and every group shows
\* the sum of the leaves below it, each counted once, however deep the tree (build-tree.ts,
\* data-table-tree.ts); no change of the categories closes a cycle, and in the report each
\* category shows the sum of the listed transactions assigned to it or below it, the total
\* counts each of them once, and an export of some tax sections holds exactly the transactions
\* whose category counts for one of them, with all groups above and the same total, for any
\* set of transactions with any integer amounts
\* (category-matching.ts, category-report.ts, category-export.ts, tax-sections.ts).
THEOREM SumsStayRight == Spec => []ReportFits
<1>1. SuiteInv => ReportFits
    BY CyclesAreRefused, SumsAreOfLeaves, ReportSumsAre, TaxExportsFit DEF SuiteInv, ReportFits
<1> QED
    BY <1>1, AlwaysParts, PTL

\* However answers overtake one another, fail or come late, a tab never goes back behind
\* an answer it has had, and never stops polling while a component polls (requestSeq,
\* appliedSeq and schedule of SyncStatusStore); the presets and densities it shows were
\* stored, and once nothing is being saved and nothing failed they are the stored ones
\* (UserSettingChannel's serial writes); an editor always fits the list it edits
\* (DatePresetsComponent).
THEOREM TabsShowWhatWas == Spec => []ShownFits
<1>1. SuiteInv => ShownFits
    BY ShownIsFresh, PollingGoes, ShownIsStored, EditorStaysFit DEF SuiteInv, ShownFits
<1> QED
    BY <1>1, AlwaysParts, PTL

\* A preview that is not marked as pending is of the dialog's choices and of the report
\* there is, no object URL outlives its preview, and the depth and the tax sections are on
\* offer, whatever the report lost since they were chosen or remembered
\* (ExportDialogComponent, ExportOptionsService).
THEOREM ExportStaysSound == Spec => []ExportSound
<1>1. SuiteInv => ExportSound
    BY PreviewIsOfChoices, UrlsAreRevoked, ChoicesAreOnOffer DEF SuiteInv, ExportSound
<1> QED
    BY <1>1, AlwaysParts, PTL

\* What the user has begun survives what happens meanwhile: a TAN dialog that was opened
\* after the status had been read, while its challenge is open (one that is opened when that
\* read failed is left out: the next status may close it); a draft until it is stored,
\* whatever fails; the densities of the other views while one is saved, as long as no request
\* has failed (after a lost answer they may be dropped, see DensitiesNeverDropped). And a file
\* is handed over by the open dialog that asked for it (awaitRun and tanViewOf,
\* DatePresetsComponent, TableDensityService, ExportDialogComponent).
THEOREM BegunStays == Spec => NothingLost
<1>1. SuiteInv /\ [Next]_vars =>
        [tanDialog # None /\ tanDialog.asked
           /\ server.run = tanDialog.run /\ server.challenge = tanDialog.challenge
           /\ (tanDialog' = None \/ tanDialog'.run # tanDialog.run)
           => S!Close \/ \E i \in DOMAIN requests : S!OpensAnother(i)]_tanDialog
    BY DialogOfSuite
<1>2. SuiteInv /\ [Next]_vars =>
        [submitted # None /\ submitted' = None /\ editor # None /\ editor' = None
           => \E i \in DOMAIN U!Current : U!Current[i] = submitted]_<<submitted, editor>>
    BY DraftOfSuite
<1>3. SuiteInv /\ [Next]_vars =>
        [setting = "densities" /\ faults = 0 => U!SetsOneDensity]_stored
    BY DensitiesOfSuite
<1>4. SuiteInv /\ [Next]_vars =>
        [X!HandsOver
           => dialog # None /\ dialog.busy /\ job.input.options.taxSections # {}]_job
    BY FileOfSuite
<1>5. Spec => S!TanDialogStays
    BY <1>1, AlwaysParts, PTL DEF Spec, S!TanDialogStays
<1>6. Spec => U!DraftKept
    BY <1>2, AlwaysParts, PTL DEF Spec, U!DraftKept
<1>7. Spec => U!OtherDensitiesKept
    BY <1>3, AlwaysParts, PTL DEF Spec, U!OtherDensitiesKept
<1>8. Spec => X!FileOfOpenDialog
    BY <1>4, AlwaysParts, PTL DEF Spec, X!FileOfOpenDialog
<1> QED
    BY <1>5, <1>6, <1>7, <1>8, PTL DEF NothingLost

\* What the category dialog's preview says of a transaction is what the report shows once
\* the draft is saved, whatever the categories, the transactions and the drafts are
\* (buildPreview, assignCategories).
THEOREM PreviewsTellTheTruth == Spec => PreviewFits
<1>1. SuiteInv /\ [Next]_vars => [Previews]_cats
    BY PreviewsOfSuite
<1>2. Spec => [][Previews]_cats
    BY <1>1, AlwaysParts, PTL DEF Spec
<1> QED
    BY <1>2, PTL DEF PreviewFits, R!PreviewFits, Previews
================================================================================
