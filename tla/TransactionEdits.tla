-------------------------- MODULE TransactionEdits --------------------------
(* Editing booked transactions: the rows of umsatz in the user's database    *)
(* (repositories/umsatz.ts, routes/transactions.ts) and the browser tabs that *)
(* show them (TransactionsStore, the edit dialog and the assign dialog).      *)
(* Every save carries the values it wants to replace; a bulk assignment runs  *)
(* in a transaction that locks its rows one after the other.                  *)
EXTENDS Integers, FiniteSets

CONSTANTS Tabs,         \* the browser tabs that show the list
          Rows,         \* the ids of the rows, a set of numbers
          Pending,      \* the rows that are pending bookings
          Categories,   \* the ids of the categories
          Comments,     \* the comments that may be typed
          Blank,        \* the empty comment an older client may have stored
          None,
          MaxUses       \* bound: so many saves and reloads, all tabs together

VARIABLES db,        \* the committed rows; None once a row is gone
          lock,      \* the tab whose transaction holds the row's lock
          shown,     \* the rows as each tab's store holds them
          outdated,  \* the shown rows that were changed after the tab read or saved them
          dialog,    \* the open dialog of each tab
          request,   \* the tab's request on its way
          uses       \* the number of saves and reloads (bounded by MaxUses)

screen == <<shown, outdated, dialog>>
vars == <<db, lock, screen, request, uses>>

OptionalCategory == Categories \cup {None}
Value == [comment : Comments \cup {Blank, None}, category : OptionalCategory]

\* What the values of the constants must be.
ConstantsFit ==
    /\ Rows \subseteq Nat
    /\ IsFiniteSet(Rows)
    /\ Pending \subseteq Rows
    /\ None \notin Tabs \cup Categories \cup Comments \cup {Blank} \cup Value
    /\ MaxUses \in Nat

\* opened: the rows as the dialog showed them when it was opened.
Closed == [kind |-> "closed", opened |-> << >>, saving |-> FALSE, error |-> None]
Idle == [phase |-> "idle"]

Phase(t) == request[t].phase
DialogRows(t) == DOMAIN dialog[t].opened
Live == {r \in Rows : db[r] # None}

TypeOK ==
    /\ db \in [Rows -> Value \cup {None}]
    /\ lock \in [Rows -> Tabs \cup {None}]
    /\ uses \in 0..MaxUses
    /\ \A t \in Tabs :
        /\ DOMAIN shown[t] \subseteq Rows /\ outdated[t] \subseteq Rows
        /\ \A r \in DOMAIN shown[t] : shown[t][r] \in Value
        /\ dialog[t].kind \in {"closed", "edit", "assign"}
        /\ DialogRows(t) \subseteq DOMAIN shown[t]
        /\ dialog[t].error \in {None, "conflict", "generic"}
        /\ Phase(t) \in {"idle", "sent", "answered"}

-----------------------------------------------------------------------------
(* A tab reads the list when its page is opened and not again. *)

Init ==
    /\ db \in [Rows -> Value]
    /\ lock = [r \in Rows |-> None]
    /\ shown = [t \in Tabs |-> db]
    /\ outdated = [t \in Tabs |-> {}]
    /\ dialog = [t \in Tabs |-> Closed]
    /\ request = [t \in Tabs |-> Idle]
    /\ uses = 0

\* Mutant: the open dialog outlives the page it was opened on.
ReloadKeepingDialog(t) ==
    /\ uses < MaxUses /\ uses' = uses + 1
    /\ shown' = [shown EXCEPT ![t] = [r \in Live |-> db[r]]]
    /\ outdated' = [outdated EXCEPT ![t] = {}]
    /\ UNCHANGED <<db, lock, dialog, request>>

\* The page is left and opened again: a new store reads the list, the dialog goes
\* with the old page, a request of the old page still reaches the server.
Reload(t) ==
    /\ uses < MaxUses /\ uses' = uses + 1
    /\ shown' = [shown EXCEPT ![t] = [r \in Live |-> db[r]]]
    /\ outdated' = [outdated EXCEPT ![t] = {}]
    /\ dialog' = [dialog EXCEPT ![t] = Closed]
    /\ request' = IF Phase(t) = "idle" THEN request
                  ELSE [request EXCEPT ![t].orphan = TRUE]
    /\ UNCHANGED <<db, lock>>

\* A single row opens either dialog, several selected rows the assign dialog.
OpenDialog(t, kind, rows) ==
    /\ dialog[t] = Closed
    /\ rows # {} /\ rows \subseteq DOMAIN shown[t]
    /\ kind = "assign" \/ Cardinality(rows) = 1
    /\ dialog' = [dialog EXCEPT ![t] =
          [Closed EXCEPT !.kind = kind, !.opened = [r \in rows |-> shown[t][r]]]]
    /\ UNCHANGED <<db, lock, shown, outdated, request, uses>>

\* Cancel, Escape and the backdrop are disabled while a save is on its way.
MayCancel(t) == dialog[t].kind # "closed" /\ ~dialog[t].saving

Cancel(t) ==
    /\ MayCancel(t)
    /\ dialog' = [dialog EXCEPT ![t] = Closed]
    /\ UNCHANGED <<db, lock, shown, outdated, request, uses>>

-----------------------------------------------------------------------------
(* Saving. *)

normalizeComment(comment) == IF comment = Blank THEN None ELSE comment

\* The edit dialog's changed().
Changed(t, r, next) ==
    \/ next.comment # normalizeComment(dialog[t].opened[r].comment)
    \/ next.category # dialog[t].opened[r].category

\* The category the rows share, if they do (the assign dialog's initialId).
initialId(t) == {dialog[t].opened[r].category : r \in DialogRows(t)}

locked(t) == dialog[t].saving \/ dialog[t].error = "conflict"

\* The guard values are the row's at the time of the save.
Send(t, kind, next) ==
    /\ Phase(t) = "idle" /\ uses < MaxUses
    /\ uses' = uses + 1
    /\ dialog' = [dialog EXCEPT ![t].saving = TRUE, ![t].error = None]
    /\ request' = [request EXCEPT ![t] =
          [phase |-> "sent", kind |-> kind, rows |-> DialogRows(t), next |-> next,
           expected |-> [r \in DialogRows(t) |-> shown[t][r]], todo |-> DialogRows(t),
           opened |-> dialog[t].opened,
           conflicts |-> {}, answer |-> None, newest |-> {}, orphan |-> FALSE]]
    /\ UNCHANGED <<db, lock, shown, outdated>>

SaveTransaction(t, next) ==
    /\ dialog[t].kind = "edit" /\ ~locked(t)
    /\ \A r \in DialogRows(t) : Changed(t, r, next)
    /\ Send(t, "edit", next)

AssignCategory(t, category) ==
    /\ dialog[t].kind = "assign" /\ ~locked(t)
    /\ initialId(t) # {category}
    /\ Send(t, "assign", [category |-> category])

-----------------------------------------------------------------------------
(* The server. *)

\* The value a request leaves in row r: an assignment keeps the comment.
After(t, r) ==
    IF request[t].kind = "edit" THEN request[t].next
    ELSE [db[r] EXCEPT !.category = request[t].next.category]

\* Mutant: the WHERE leaves the comment out.
MatchesCategory(t, r) == db[r] # None /\ db[r].category = request[t].expected[r].category

Matches(t, r) == db[r] # None /\ db[r] = request[t].expected[r]

\* What a change of rows does to what the tabs know, and to saves not yet answered.
Outdated(rows) == [t \in Tabs |-> outdated[t] \cup rows]
Superseded(rows) ==
    [t \in Tabs |-> IF Phase(t) = "answered" THEN [request[t] EXCEPT !.newest = @ \ rows]
                    ELSE request[t]]

\* Commits the request's change of its rows and answers.
Commit(t) ==
    /\ db' = [r \in Rows |-> IF r \in request[t].rows THEN After(t, r) ELSE db[r]]
    /\ outdated' = Outdated(request[t].rows)
    /\ request' = [Superseded(request[t].rows) EXCEPT
          ![t].phase = "answered", ![t].answer = "ok", ![t].newest = request[t].rows]

Refuse(t, answer) ==
    /\ request' = [request EXCEPT ![t].phase = "answered", ![t].answer = answer]
    /\ UNCHANGED <<db, outdated>>

Release(t) == lock' = [r \in Rows |-> IF lock[r] = t THEN None ELSE lock[r]]

\* One statement checks and writes; it waits for a transaction that holds the row.
UpdateTransaction(t) ==
    /\ Phase(t) = "sent" /\ request[t].kind = "edit"
    /\ \A r \in request[t].rows : lock[r] = None
    /\ IF \A r \in request[t].rows : Matches(t, r)
       THEN Commit(t)
       ELSE Refuse(t, IF request[t].rows \subseteq Live THEN "conflict" ELSE "not-found")
    /\ UNCHANGED <<lock, shown, dialog, uses>>

\* The next item of a bulk request, in ascending order of the ids.
NextItems(todo) == {r \in todo : \A q \in todo : r <= q}

\* The guarded update of one item: the row is locked, matched or not.
AssignItem(t) ==
    /\ Phase(t) = "sent" /\ request[t].kind = "assign"
    /\ \E r \in NextItems(request[t].todo) :
        /\ lock[r] \in {None, t}
        /\ lock' = IF r \in Live THEN [lock EXCEPT ![r] = t] ELSE lock
        /\ request' = [request EXCEPT ![t].todo = @ \ {r},
               ![t].conflicts = IF Matches(t, r) THEN @ ELSE @ \cup {r}]
    /\ UNCHANGED <<db, shown, outdated, dialog, uses>>

\* Mutant: rows in conflict are skipped and the others committed.
EndAssignPartly(t) ==
    /\ Phase(t) = "sent" /\ request[t].kind = "assign" /\ request[t].todo = {}
    /\ db' = [r \in Rows |-> IF r \in request[t].rows \ request[t].conflicts THEN After(t, r)
                             ELSE db[r]]
    /\ outdated' = Outdated(request[t].rows)
    /\ request' = [Superseded(request[t].rows) EXCEPT
          ![t].phase = "answered", ![t].answer = "ok", ![t].newest = request[t].rows]
    /\ Release(t)
    /\ UNCHANGED <<shown, dialog, uses>>

EndAssign(t) ==
    /\ Phase(t) = "sent" /\ request[t].kind = "assign" /\ request[t].todo = {}
    /\ IF request[t].conflicts = {} THEN Commit(t) ELSE Refuse(t, "conflict")
    /\ Release(t)
    /\ UNCHANGED <<shown, dialog, uses>>

\* The database or the connection fails, or refuses a category it does not have:
\* whatever the request did so far is rolled back.
FailRequest(t) ==
    /\ Phase(t) = "sent"
    /\ Refuse(t, "error")
    /\ Release(t)
    /\ UNCHANGED <<shown, dialog, uses>>

\* The change took place and the tab does not hear of it.
LoseAnswer(t) ==
    /\ Phase(t) = "answered" /\ request[t].answer = "ok"
    /\ request' = [request EXCEPT ![t].answer = "error"]
    /\ UNCHANGED <<db, lock, shown, outdated, dialog, uses>>

\* A sync replaces a pending booking by the booked one, a new row.
RemoveRow(r) ==
    /\ r \in Pending \cap Live /\ lock[r] = None
    /\ db' = [db EXCEPT ![r] = None]
    /\ outdated' = Outdated({r})
    /\ request' = Superseded({r})
    /\ UNCHANGED <<lock, shown, dialog, uses>>

-----------------------------------------------------------------------------
(* The answer reaches the tab. *)

toSaveError(answer) == IF answer = "conflict" THEN "conflict" ELSE "generic"

\* The store's rows are changed in place, an assignment changes the category only.
Saved(t) ==
    /\ shown' = [shown EXCEPT ![t] = [r \in DOMAIN @ |->
          IF r \notin request[t].rows THEN @[r]
          ELSE IF request[t].kind = "edit" THEN request[t].next
          ELSE [@[r] EXCEPT !.category = request[t].next.category]]]
    /\ outdated' = [outdated EXCEPT ![t] = @ \ request[t].newest]
    /\ dialog' = [dialog EXCEPT ![t] = Closed]

NotSaved(t) ==
    /\ dialog' = [dialog EXCEPT ![t].saving = FALSE, ![t].error = toSaveError(request[t].answer)]
    /\ UNCHANGED <<shown, outdated>>

ReceiveAnswer(t) ==
    /\ Phase(t) = "answered"
    /\ IF request[t].orphan THEN UNCHANGED <<shown, outdated, dialog>>
       ELSE IF request[t].answer = "ok" THEN Saved(t) ELSE NotSaved(t)
    /\ request' = [request EXCEPT ![t] = Idle]
    /\ UNCHANGED <<db, lock, uses>>

-----------------------------------------------------------------------------

Next ==
    \/ \E t \in Tabs :
        \/ Reload(t)
        \/ \E kind \in {"edit", "assign"}, rows \in SUBSET Rows : OpenDialog(t, kind, rows)
        \/ Cancel(t)
        \/ \E next \in [comment : Comments \cup {None}, category : OptionalCategory] :
              SaveTransaction(t, next)
        \/ \E category \in OptionalCategory : AssignCategory(t, category)
        \/ UpdateTransaction(t)
        \/ AssignItem(t)
        \/ EndAssign(t)
        \/ FailRequest(t)
        \/ LoseAnswer(t)
        \/ ReceiveAnswer(t)
    \/ \E r \in Rows : RemoveRow(r)

Spec == Init /\ [][Next]_vars

-----------------------------------------------------------------------------
(* Properties. *)

Changes(r) == db'[r] # db[r] /\ db'[r] # None

\* No lost update: a row is only overwritten by a save whose dialog showed, when
\* it was opened, exactly the values that are replaced; a bulk assignment also
\* vouches for the comments it leaves alone (the WHERE of repositories/umsatz.ts
\* and the guard values of TransactionsStore together, with the dialog locked
\* while it saves).
NoLostUpdate ==
    [][\A r \in Rows : Changes(r) =>
        \E t \in Tabs : /\ Phase(t) = "sent"
                        /\ r \in request[t].rows
                        /\ db[r] = request[t].opened[r]]_db

\* A bulk assignment is all or nothing: a step that gives one of its rows the new
\* category gives it to every one of them, and a tab that is told of a conflict
\* has changed nothing (assignCategory's transaction).
AssignAllOrNothing ==
    [][\A t \in Tabs : Phase(t) = "sent" /\ request[t].kind = "assign"
            /\ request'[t].phase = "answered" =>
        IF request'[t].answer = "ok"
        THEN \A r \in request[t].rows :
                db'[r] # None /\ db'[r].category = request[t].next.category
        ELSE db' = db]_<<db, request>>

\* A tab's row shows what the database holds, unless somebody changed the row
\* after the tab read or saved it (the in-place change after a save and nothing
\* else).
ScreenFits ==
    \A t \in Tabs : \A r \in DOMAIN shown[t] :
        r \notin outdated[t] => shown[t][r] = db[r]

\* However many bulk assignments run, in any group of them one waits for none of
\* the others' rows (the ascending order).
WaitsFor(t, u) ==
    /\ Phase(t) = "sent" /\ request[t].kind = "assign"
    /\ request[t].todo # {}
    /\ \A r \in NextItems(request[t].todo) : lock[r] = u

NoWaitCycle ==
    \A group \in (SUBSET Tabs) \ {{}} :
        \E t \in group : \A u \in group \ {t} : ~WaitsFor(t, u)
=============================================================================
