------------------------ MODULE TransactionEditsProofs ------------------------
(***************************************************************************)
(* Theorems about TransactionEdits for any tabs, rows and values: no save  *)
(* overwrites what its dialog did not show, a bulk assignment is whole,    *)
(* a list shows what is stored until somebody else changes it, and bulk    *)
(* assignments do not wait for each other in a circle.                     *)
(***************************************************************************)
EXTENDS TransactionEdits, FiniteSetTheorems, TLAPS

-----------------------------------------------------------------------------
(* The inductive invariant. *)

\* Some rows with their values.
Views == UNION {[S -> Value] : S \in SUBSET Rows}
Dialogs == [kind : {"closed", "edit", "assign"}, opened : Views, saving : BOOLEAN,
            error : {None, "conflict", "generic"}]
Requests ==
  [phase : {"sent", "answered"}, kind : {"edit", "assign"}, rows : SUBSET Rows,
   next : Value \cup [category : OptionalCategory], expected : Views, todo : SUBSET Rows,
   opened : Views, conflicts : SUBSET Rows,
   answer : {None, "ok", "conflict", "not-found", "error"}, newest : SUBSET Rows,
   orphan : BOOLEAN]

Typed ==
  /\ db \in [Rows -> Value \cup {None}]
  /\ lock \in [Rows -> Tabs \cup {None}]
  /\ uses \in 0..MaxUses
  /\ shown \in [Tabs -> Views]
  /\ outdated \in [Tabs -> SUBSET Rows]
  /\ dialog \in [Tabs -> Dialogs]
  /\ request \in [Tabs -> Requests \cup {Idle}]

\* A tab's list does not change under its open dialog.
DialogFits(t) ==
  /\ DialogRows(t) \subseteq DOMAIN shown[t]
  /\ \A r \in DialogRows(t) : dialog[t].opened[r] = shown[t][r]

\* What a request replaces is what its dialog showed; while the page is open, the list
\* still shows that.
SaveFits(t) ==
  Phase(t) # "idle" =>
    /\ DOMAIN request[t].expected = request[t].rows
    /\ DOMAIN request[t].opened = request[t].rows
    /\ \A r \in request[t].rows : request[t].expected[r] = request[t].opened[r]
    /\ request[t].next \in IF request[t].kind = "edit" THEN Value ELSE [category : OptionalCategory]
    /\ ~request[t].orphan =>
         /\ dialog[t].saving
         /\ request[t].rows \subseteq DOMAIN shown[t]
         /\ \A r \in request[t].rows : shown[t][r] = request[t].expected[r]

\* A row that an assignment has matched stays as it was, by the lock.
LocksFit(t) ==
  Phase(t) = "sent" =>
    /\ request[t].newest = {}
    /\ request[t].kind = "assign" =>
         \A r \in request[t].rows \ (request[t].todo \cup request[t].conflicts) :
            lock[r] = t /\ db[r] = request[t].expected[r]

\* The value that the tab's list gets for a saved row.
Result(t, r) == IF request[t].kind = "edit" THEN request[t].next
                ELSE [shown[t][r] EXCEPT !.category = request[t].next.category]

\* An answer on its way is about rows that still hold what was saved, or that
\* count as outdated.
AnswerFits(t) ==
  Phase(t) = "answered" /\ ~request[t].orphan =>
    /\ request[t].newest \subseteq request[t].rows
    /\ \A r \in request[t].newest : db[r] = Result(t, r)
    /\ request[t].answer = "ok" => request[t].rows \subseteq outdated[t]

ScreenFitsOf(t) ==
  \A r \in DOMAIN shown[t] : r \notin outdated[t] => shown[t][r] = db[r]

Fits(t) == DialogFits(t) /\ SaveFits(t) /\ LocksFit(t) /\ AnswerFits(t) /\ ScreenFitsOf(t)

EditsInv == Typed /\ \A t \in Tabs : Fits(t)

-----------------------------------------------------------------------------

\* Nothing opened is a list of no rows.
LEMMA NoRowsOpened == << >> \in Views /\ DOMAIN << >> = {}
  <1>1. DOMAIN << >> = {} OBVIOUS
  <1>2. << >> \in [{} -> Value] OBVIOUS
  <1> QED BY <1>1, <1>2 DEF Views

\* A list of rows with their values.
LEMMA ViewsAre ==
  ASSUME NEW S \in SUBSET Rows, NEW f \in [S -> Value]
  PROVE  f \in Views
  BY DEF Views

LEMMA ViewsHave ==
  ASSUME NEW f \in Views
  PROVE  /\ DOMAIN f \subseteq Rows
         /\ f = [r \in DOMAIN f |-> f[r]]
         /\ \A r \in DOMAIN f : f[r] \in Value
  BY DEF Views

\* A request that is on its way is a record of its own.
LEMMA RequestIs ==
  ASSUME Typed, NEW t \in Tabs
  PROVE  IF Phase(t) = "idle" THEN request[t] = Idle ELSE request[t] \in Requests
  BY DEF Typed, Requests, Phase, Idle

\* Whoever's own state stays, and whose rows stay, keeps what fits.
LEMMA UntouchedFits ==
  ASSUME NEW u \in Tabs, Fits(u), db' = db,
         shown'[u] = shown[u], outdated'[u] = outdated[u],
         dialog'[u] = dialog[u], request'[u] = request[u],
         \A r \in Rows : lock[r] = u => lock'[r] = u,
         request[u] \in Requests \cup {Idle}
  PROVE  Fits(u)'
  <1>1. DialogFits(u)' BY DEF Fits, DialogFits, DialogRows
  <1>2. SaveFits(u)' BY DEF Fits, SaveFits, Phase
  <1>3. LocksFit(u)'
    <2> SUFFICES ASSUME Phase(u) = "sent" PROVE LocksFit(u)' BY DEF LocksFit, Phase
    <2>1. request[u].rows \subseteq Rows BY DEF Phase, Idle, Requests
    <2> QED BY <2>1 DEF Fits, LocksFit, Phase
  <1>4. AnswerFits(u)' BY DEF Fits, AnswerFits, Phase, Result
  <1>5. ScreenFitsOf(u)' BY DEF Fits, ScreenFitsOf
  <1> QED BY <1>1, <1>2, <1>3, <1>4, <1>5 DEF Fits

LEMMA InitEdits == ConstantsFit /\ Init => EditsInv
  <1> SUFFICES ASSUME ConstantsFit, Init PROVE EditsInv OBVIOUS
  <1>1. db \in Views BY ViewsAre DEF Init
  <1>2. Closed \in Dialogs BY NoRowsOpened DEF Closed, Dialogs
  <1>3. Typed BY <1>1, <1>2 DEF Init, Typed, ConstantsFit
  <1>4. ASSUME NEW t \in Tabs PROVE Fits(t)
    <2>1. DialogFits(t) BY NoRowsOpened DEF Init, DialogFits, DialogRows, Closed
    <2>2. SaveFits(t) /\ LocksFit(t) /\ AnswerFits(t)
      BY DEF Init, SaveFits, LocksFit, AnswerFits, Phase, Idle
    <2>3. ScreenFitsOf(t) BY DEF Init, ScreenFitsOf
    <2> QED BY <2>1, <2>2, <2>3 DEF Fits
  <1> QED BY <1>3, <1>4 DEF EditsInv

\* Opening a page again leaves its request to itself.
LEMMA ReloadEdits ==
  ASSUME ConstantsFit, EditsInv, NEW t \in Tabs, Reload(t) PROVE EditsInv'
  <1> USE DEF EditsInv, Reload
  <1>0. db' = db /\ lock' = lock OBVIOUS
  <1>1. [r \in Live |-> db[r]] \in Views
    <2>1. Live \subseteq Rows /\ \A r \in Live : db[r] \in Value BY DEF Live, Typed
    <2> QED BY <2>1, ViewsAre
  <1>2. Closed \in Dialogs BY NoRowsOpened DEF Closed, Dialogs
  <1>3. request' \in [Tabs -> Requests \cup {Idle}]
    <2>1. CASE Phase(t) = "idle" BY <2>1 DEF Typed
    <2>2. CASE Phase(t) # "idle"
      <3>1. request[t] \in Requests BY <2>2, RequestIs
      <3>2. [request[t] EXCEPT !.orphan = TRUE] \in Requests BY <3>1 DEF Requests
      <3> QED BY <2>2, <3>2 DEF Typed
    <2> QED BY <2>1, <2>2
  <1>4. Typed' BY <1>1, <1>2, <1>3 DEF Typed, ConstantsFit
  <1>5. ASSUME NEW u \in Tabs PROVE Fits(u)'
    <2>1. CASE u # t
      <3>1. /\ shown'[u] = shown[u] /\ outdated'[u] = outdated[u]
            /\ dialog'[u] = dialog[u] /\ request'[u] = request[u]
        BY <2>1 DEF Typed
      <3> QED BY <3>1, UntouchedFits DEF Typed
    <2>2. CASE u = t
      <3>1. shown'[t] = [r \in Live |-> db[r]] /\ dialog'[t] = Closed BY DEF Typed
      <3>2. DialogFits(t)' BY <3>1, NoRowsOpened DEF DialogFits, DialogRows, Closed
      <3>3. CASE Phase(t) = "idle"
        <4>1. request'[t].phase = "idle" BY <3>3 DEF Phase
        <4> QED BY <2>2, <3>1, <3>2, <4>1 DEF Fits, SaveFits, LocksFit, AnswerFits, Phase, ScreenFitsOf
      <3>4. CASE Phase(t) # "idle"
        <4>1. request[t] \in Requests BY <3>4, RequestIs
        <4>2. request'[t] = [request[t] EXCEPT !.orphan = TRUE] BY <3>4 DEF Typed
        <4>3. /\ request'[t].orphan
              /\ request'[t].phase = request[t].phase
              /\ request'[t].kind = request[t].kind
              /\ request'[t].rows = request[t].rows
              /\ request'[t].next = request[t].next
              /\ request'[t].expected = request[t].expected
              /\ request'[t].todo = request[t].todo
              /\ request'[t].opened = request[t].opened
              /\ request'[t].conflicts = request[t].conflicts
              /\ request'[t].newest = request[t].newest
          BY <4>1, <4>2 DEF Requests
        <4> HIDE DEF Reload, EditsInv
        <4> Fits(t) BY DEF EditsInv
        <4>4. SaveFits(t)' BY <3>4, <4>3 DEF Fits, SaveFits, Phase
        <4>5. LocksFit(t)' BY <1>0, <4>3 DEF Fits, LocksFit, Phase
        <4>6. AnswerFits(t)' BY <4>3 DEF AnswerFits
        <4>7. ScreenFitsOf(t)' BY <1>0, <3>1 DEF ScreenFitsOf
        <4> QED BY <2>2, <3>2, <4>4, <4>5, <4>6, <4>7 DEF Fits
      <3> QED BY <3>3, <3>4
    <2> QED BY <2>1, <2>2
  <1> QED BY <1>4, <1>5

\* A dialog opens on what the list shows.
LEMMA OpenDialogEdits ==
  ASSUME ConstantsFit, EditsInv, NEW t \in Tabs, NEW kind \in {"edit", "assign"},
         NEW S \in SUBSET Rows, OpenDialog(t, kind, S)
  PROVE  EditsInv'
  <1> DEFINE opened == [r \in S |-> shown[t][r]]
             d == [Closed EXCEPT !.kind = kind, !.opened = opened]
  <1>1. shown[t] \in Views /\ S \subseteq DOMAIN shown[t] BY DEF EditsInv, Typed, OpenDialog
  <1>2. opened \in Views BY <1>1, ViewsHave, ViewsAre
  <1>3. /\ d.opened = opened /\ DOMAIN opened = S
        /\ d \in Dialogs
    BY <1>2 DEF Closed, Dialogs
  <1>4. dialog' = [dialog EXCEPT ![t] = d] BY DEF OpenDialog
  <1>5. UNCHANGED <<db, lock, shown, outdated, request, uses>> /\ dialog[t] = Closed
    BY DEF OpenDialog
  <1>6. dialog'[t] = d BY <1>4 DEF EditsInv, Typed
  <1> HIDE DEF d, opened
  <1>7. Typed' BY <1>3, <1>4, <1>5 DEF EditsInv, Typed
  <1>8. ASSUME NEW u \in Tabs PROVE Fits(u)'
    <2>0. Fits(u) BY DEF EditsInv
    <2>1. CASE u # t BY <2>0, <2>1, <1>4, <1>5, UntouchedFits DEF EditsInv, Typed
    <2>2. CASE u = t
      <3>1. DialogFits(t)' BY <1>1, <1>3, <1>5, <1>6 DEF DialogFits, DialogRows, opened
      <3>2. ~dialog[t].saving BY <1>5 DEF Closed
      <3>3. SaveFits(t)' BY <2>0, <2>2, <1>5, <3>2 DEF Fits, SaveFits, Phase
      <3>4. LocksFit(t)' BY <2>0, <2>2, <1>5 DEF Fits, LocksFit, Phase
      <3>5. AnswerFits(t)' BY <2>0, <2>2, <1>5 DEF Fits, AnswerFits, Phase, Result
      <3>6. ScreenFitsOf(t)' BY <2>0, <2>2, <1>5 DEF Fits, ScreenFitsOf
      <3> QED BY <2>2, <3>1, <3>3, <3>4, <3>5, <3>6 DEF Fits
    <2> QED BY <2>1, <2>2
  <1> QED BY <1>7, <1>8 DEF EditsInv

\* A dialog is closed only while none of its saves is on its way.
LEMMA CancelEdits ==
  ASSUME ConstantsFit, EditsInv, NEW t \in Tabs, Cancel(t) PROVE EditsInv'
  <1>1. Closed \in Dialogs BY NoRowsOpened DEF Closed, Dialogs
  <1>2. dialog' = [dialog EXCEPT ![t] = Closed] BY DEF Cancel
  <1>3. UNCHANGED <<db, lock, shown, outdated, request, uses>> /\ ~dialog[t].saving
    BY DEF Cancel, MayCancel
  <1>4. dialog'[t] = Closed BY <1>2 DEF EditsInv, Typed
  <1>5. Typed' BY <1>1, <1>2, <1>3 DEF EditsInv, Typed
  <1>6. ASSUME NEW u \in Tabs PROVE Fits(u)'
    <2>0. Fits(u) BY DEF EditsInv
    <2>1. CASE u # t BY <2>0, <2>1, <1>2, <1>3, UntouchedFits DEF EditsInv, Typed
    <2>2. CASE u = t
      <3>1. DialogFits(t)' BY <1>4, NoRowsOpened DEF DialogFits, DialogRows, Closed
      <3>3. SaveFits(t)' BY <2>0, <2>2, <1>3 DEF Fits, SaveFits, Phase
      <3>4. LocksFit(t)' BY <2>0, <2>2, <1>3 DEF Fits, LocksFit, Phase
      <3>5. AnswerFits(t)' BY <2>0, <2>2, <1>3 DEF Fits, AnswerFits, Phase, Result
      <3>6. ScreenFitsOf(t)' BY <2>0, <2>2, <1>3 DEF Fits, ScreenFitsOf
      <3> QED BY <2>2, <3>1, <3>3, <3>4, <3>5, <3>6 DEF Fits
    <2> QED BY <2>1, <2>2
  <1> QED BY <1>5, <1>6 DEF EditsInv

\* A save takes along what the dialog showed and what the list shows now, the same.
LEMMA SendEdits ==
  ASSUME ConstantsFit, EditsInv, NEW t \in Tabs, NEW kind \in {"edit", "assign"},
         NEW next \in IF kind = "edit" THEN Value ELSE [category : OptionalCategory],
         Send(t, kind, next)
  PROVE  EditsInv'
  <1> DEFINE q == request'[t]
             expected == [r \in DialogRows(t) |-> shown[t][r]]
  <1>1. Fits(t) /\ Typed BY DEF EditsInv
  <1>2. /\ DialogRows(t) \subseteq DOMAIN shown[t] /\ shown[t] \in Views
        /\ DialogRows(t) \subseteq Rows
        /\ dialog[t] \in Dialogs /\ dialog[t].opened \in Views
    BY <1>1, ViewsHave DEF Fits, DialogFits, Typed, Dialogs
  <1>3. expected \in Views BY <1>2, ViewsHave, ViewsAre
  <1>4. /\ q.phase = "sent" /\ q.kind = kind /\ q.rows = DialogRows(t) /\ q.next = next
        /\ q.expected = expected /\ q.opened = dialog[t].opened /\ q.newest = {}
        /\ q.todo = q.rows /\ q.answer = None
    BY <1>1 DEF Send, Typed
  <1>5. q \in Requests BY <1>1, <1>2, <1>3 DEF Send, Typed, Requests
  <1>6. \A u \in Tabs \ {t} : request'[u] = request[u] /\ dialog'[u] = dialog[u]
    BY <1>1 DEF Send, Typed
  <1>7. /\ dialog'[t] \in Dialogs /\ dialog'[t].saving /\ dialog'[t].opened = dialog[t].opened
    BY <1>1, <1>2 DEF Send, Typed, Dialogs
  <1>8. UNCHANGED <<db, lock, shown, outdated>> /\ uses' \in 0..MaxUses
    BY <1>1 DEF Send, Typed, ConstantsFit
  <1>9. Typed'
    <2>1. request' \in [Tabs -> Requests \cup {Idle}] BY <1>1, <1>5 DEF Send, Typed
    <2>2. dialog' \in [Tabs -> Dialogs] BY <1>1, <1>7 DEF Send, Typed
    <2> QED BY <1>1, <1>8, <2>1, <2>2 DEF Typed
  <1>10. ASSUME NEW u \in Tabs PROVE Fits(u)'
    <2>1. CASE u # t BY <2>1, <1>1, <1>6, <1>8, UntouchedFits DEF EditsInv, Typed
    <2>2. CASE u = t
      <3>1. DialogFits(t)' BY <1>1, <1>7, <1>8 DEF Fits, DialogFits, DialogRows
      <3>2. SaveFits(t)'
        BY <1>1, <1>2, <1>4, <1>7, <1>8 DEF Fits, SaveFits, DialogFits, DialogRows, Phase
      <3>3. LocksFit(t)' BY <1>4 DEF LocksFit
      <3>4. AnswerFits(t)' BY <1>4 DEF AnswerFits, Phase
      <3>5. ScreenFitsOf(t)' BY <1>1, <1>8 DEF Fits, ScreenFitsOf
      <3> QED BY <2>2, <3>1, <3>2, <3>3, <3>4, <3>5 DEF Fits
    <2> QED BY <2>1, <2>2
  <1> QED BY <1>9, <1>10 DEF EditsInv

-----------------------------------------------------------------------------
(* The server's steps. *)

\* A change of rows that a tab has not locked makes them outdated for it.
LEMMA OthersFit ==
  ASSUME NEW u \in Tabs, Fits(u), Typed, NEW S \in SUBSET Rows,
         \A r \in Rows \ S : db'[r] = db[r],
         \A r \in S : lock[r] # u,
         \A r \in Rows : lock[r] = u => lock'[r] = u,
         shown'[u] = shown[u], dialog'[u] = dialog[u],
         outdated'[u] = outdated[u] \cup S,
         request'[u] = IF Phase(u) = "answered"
                       THEN [request[u] EXCEPT !.newest = @ \ S] ELSE request[u]
  PROVE  Fits(u)'
  <1>1. DialogFits(u)' BY DEF Fits, DialogFits, DialogRows
  <1>2. ScreenFitsOf(u)' BY ViewsHave DEF Fits, ScreenFitsOf, Typed
  <1>3. CASE Phase(u) = "idle"
    BY <1>1, <1>2, <1>3 DEF Fits, SaveFits, LocksFit, AnswerFits, Phase
  <1>4. CASE Phase(u) = "sent"
    <2>1. request'[u] = request[u] /\ request[u] \in Requests BY <1>4, RequestIs
    <2>2. SaveFits(u)' BY <2>1 DEF Fits, SaveFits, Phase
    <2>3. LocksFit(u)' BY <1>4, <2>1 DEF Fits, LocksFit, Phase, Requests
    <2>4. AnswerFits(u)' BY <1>4, <2>1 DEF AnswerFits, Phase
    <2> QED BY <1>1, <1>2, <2>2, <2>3, <2>4 DEF Fits
  <1>5. CASE Phase(u) = "answered"
    <2>1. request[u] \in Requests BY <1>5, RequestIs
    <2>2. /\ request'[u].phase = "answered" /\ request'[u].newest = request[u].newest \ S
          /\ request'[u].kind = request[u].kind /\ request'[u].rows = request[u].rows
          /\ request'[u].next = request[u].next /\ request'[u].orphan = request[u].orphan
          /\ request'[u].expected = request[u].expected
          /\ request'[u].opened = request[u].opened /\ request'[u].answer = request[u].answer
      BY <1>5, <2>1 DEF Requests, Phase
    <2>3. SaveFits(u)' BY <1>5, <2>2 DEF Fits, SaveFits, Phase
    <2>4. LocksFit(u)' BY <2>2 DEF LocksFit, Phase
    <2>5. AnswerFits(u)'
      <3> SUFFICES ASSUME ~request[u].orphan PROVE AnswerFits(u)' BY <2>2 DEF AnswerFits
      <3>1. request[u].newest \subseteq Rows BY <2>1 DEF Requests
      <3>2. \A r \in request[u].newest \ S : db'[r] = Result(u, r)
        BY <1>5, <3>1 DEF Fits, AnswerFits
      <3>3. \A r : Result(u, r)' = Result(u, r) BY <2>2 DEF Result
      <3> QED BY <1>5, <2>2, <3>2, <3>3 DEF Fits, AnswerFits, Phase
    <2> QED BY <1>1, <1>2, <2>3, <2>4, <2>5 DEF Fits
  <1> QED BY <1>3, <1>4, <1>5, RequestIs DEF Phase, Requests

\* What a matched row gets is a value, with the category that was chosen.
LEMMA AfterIs ==
  ASSUME EditsInv, NEW t \in Tabs, Phase(t) = "sent", NEW r \in request[t].rows,
         db[r] = request[t].expected[r]
  PROVE  /\ After(t, r) \in Value
         /\ request[t].kind = "assign" => After(t, r).category = request[t].next.category
         /\ ~request[t].orphan => After(t, r) = Result(t, r)
  <1>1. request[t] \in Requests /\ SaveFits(t) BY RequestIs DEF EditsInv, Fits
  <1>2. db[r] \in Value BY <1>1, ViewsHave DEF SaveFits, Requests, Phase
  <1>3. CASE request[t].kind = "edit" BY <1>1, <1>3 DEF After, Result, SaveFits, Phase
  <1>4. CASE request[t].kind = "assign"
    <2>1. After(t, r) = [db[r] EXCEPT !.category = request[t].next.category]
      BY <1>4 DEF After
    <2>2. request[t].next \in [category : OptionalCategory] BY <1>1, <1>4 DEF SaveFits, Phase
    <2>3. ~request[t].orphan => shown[t][r] = db[r] BY <1>1 DEF SaveFits, Phase
    <2> QED BY <1>2, <1>4, <2>1, <2>2, <2>3 DEF Value, Result
  <1> QED BY <1>1, <1>3, <1>4 DEF Requests

\* A commit changes rows that its request has matched and nobody else has locked.
LEMMA CommitEdits ==
  ASSUME ConstantsFit, EditsInv, NEW t \in Tabs, Phase(t) = "sent", Commit(t),
         \A r \in request[t].rows : db[r] = request[t].expected[r] /\ lock[r] \in {None, t},
         lock' = lock \/ Release(t), UNCHANGED <<shown, dialog, uses>>
  PROVE  EditsInv'
  <1> DEFINE q == request[t]
             S == request[t].rows
  <1>1. Fits(t) /\ Typed BY DEF EditsInv
  <1>2. q \in Requests /\ S \subseteq Rows BY <1>1, RequestIs DEF Requests
  <1>3. \A u \in Tabs : outdated'[u] = outdated[u] \cup S BY DEF Commit, Outdated
  <1>4. \A r \in Rows : db'[r] = IF r \in S THEN After(t, r) ELSE db[r] BY DEF Commit
  <1>5. \A u \in Tabs \ {t} :
          request'[u] = IF Phase(u) = "answered" THEN [request[u] EXCEPT !.newest = @ \ S]
                        ELSE request[u]
    BY DEF Commit, Superseded
  <1>6. request'[t] = [q EXCEPT !.phase = "answered", !.answer = "ok", !.newest = S]
    BY DEF Commit, Superseded
  <1>7. \A r \in Rows : lock'[r] \in {lock[r], None} /\ (lock[r] # t => lock'[r] = lock[r])
    BY DEF Release
  <1>8. None \notin Tabs BY DEF ConstantsFit
  <1>9. Typed'
    <2>1. db' \in [Rows -> Value \cup {None}]
      <3>1. \A r \in Rows : db'[r] \in Value \cup {None} BY <1>1, <1>4, AfterIs DEF Typed
      <3> QED BY <3>1 DEF Commit
    <2>2. lock' \in [Rows -> Tabs \cup {None}] BY <1>1, <1>7 DEF Typed, Release
    <2>3. outdated' \in [Tabs -> SUBSET Rows] BY <1>1, <1>2 DEF Typed, Commit, Outdated
    <2>4. request' \in [Tabs -> Requests \cup {Idle}]
      <3>1. request'[t] \in Requests BY <1>2, <1>6 DEF Requests
      <3>2. ASSUME NEW u \in Tabs, u # t PROVE request'[u] \in Requests \cup {Idle}
        <4>1. CASE Phase(u) = "answered"
          <5>1. request[u] \in Requests BY <1>1, <4>1, RequestIs
          <5>2. request'[u] = [request[u] EXCEPT !.newest = @ \ S] BY <1>5, <3>2, <4>1
          <5> HIDE DEF S
          <5>3. request[u].newest \ S \subseteq Rows BY <5>1 DEF Requests
          <5> QED BY <5>1, <5>2, <5>3 DEF Requests
        <4>2. CASE Phase(u) # "answered" BY <1>1, <1>5, <3>2, <4>2 DEF Typed
        <4> QED BY <4>1, <4>2
      <3>3. request' = [u \in Tabs |-> request'[u]] BY DEF Commit, Superseded
      <3> QED BY <3>1, <3>2, <3>3
    <2> QED BY <1>1, <2>1, <2>2, <2>3, <2>4 DEF Typed
  <1>10. ASSUME NEW u \in Tabs PROVE Fits(u)'
    <2>1. CASE u # t
      <3>1. Fits(u) BY DEF EditsInv
      <3>2. \A r \in S : lock[r] # u BY <1>8, <2>1
      <3>3. \A r \in Rows \ S : db'[r] = db[r] BY <1>4
      <3>4. \A r \in Rows : lock[r] = u => lock'[r] = u BY <1>7, <2>1
      <3> HIDE DEF S
      <3> QED BY <1>1, <1>2, <1>3, <1>5, <2>1, <3>1, <3>2, <3>3, <3>4, OthersFit
    <2>2. CASE u = t
      <3>1. /\ request'[t].phase = "answered" /\ request'[t].newest = S
            /\ request'[t].kind = q.kind /\ request'[t].rows = S
            /\ request'[t].next = q.next /\ request'[t].orphan = q.orphan
            /\ request'[t].expected = q.expected /\ request'[t].opened = q.opened
        BY <1>2, <1>6 DEF Requests
      <3>2. DialogFits(t)' BY <1>1 DEF Fits, DialogFits, DialogRows
      <3>3. SaveFits(t)' BY <1>1, <3>1 DEF Fits, SaveFits, Phase
      <3>4. LocksFit(t)' BY <3>1 DEF LocksFit, Phase
      <3>5. AnswerFits(t)'
        <4>1. \A r : Result(t, r)' = Result(t, r) BY <3>1 DEF Result
        <4>2. ~q.orphan => \A r \in S : db'[r] = Result(t, r) BY <1>2, <1>4, AfterIs
        <4> QED BY <1>3, <3>1, <4>1, <4>2 DEF AnswerFits
      <3>6. ScreenFitsOf(t)'
        BY <1>1, <1>3, <1>4, ViewsHave DEF Fits, ScreenFitsOf, Typed
      <3> QED BY <2>2, <3>2, <3>3, <3>4, <3>5, <3>6 DEF Fits
    <2> QED BY <2>1, <2>2
  <1> QED BY <1>9, <1>10 DEF EditsInv

\* A refused request has changed nothing and keeps nothing.
LEMMA RefuseEdits ==
  ASSUME ConstantsFit, EditsInv, NEW t \in Tabs, Phase(t) = "sent",
         NEW answer \in {"conflict", "not-found", "error"}, Refuse(t, answer),
         lock' = lock \/ Release(t), UNCHANGED <<shown, dialog, uses>>
  PROVE  EditsInv'
  <1> DEFINE q == request[t]
  <1>1. Fits(t) /\ Typed BY DEF EditsInv
  <1>2. q \in Requests BY <1>1, RequestIs
  <1>3. UNCHANGED <<db, outdated>> BY DEF Refuse
  <1>4. request' = [request EXCEPT ![t] = [q EXCEPT !.phase = "answered", !.answer = answer]]
    BY <1>1 DEF Refuse, Typed
  <1>5. \A r \in Rows : lock'[r] \in {lock[r], None} /\ (lock[r] # t => lock'[r] = lock[r])
    BY DEF Release
  <1>6. request'[t] = [q EXCEPT !.phase = "answered", !.answer = answer] BY <1>1, <1>4 DEF Typed
  <1>7. request'[t] \in Requests BY <1>2, <1>6 DEF Requests
  <1>8. Typed'
    <2>1. lock' \in [Rows -> Tabs \cup {None}] BY <1>1, <1>5 DEF Typed, Release
    <2>2. request' \in [Tabs -> Requests \cup {Idle}] BY <1>1, <1>4, <1>6, <1>7 DEF Typed
    <2> QED BY <1>1, <1>3, <2>1, <2>2 DEF Typed
  <1>9. ASSUME NEW u \in Tabs PROVE Fits(u)'
    <2>1. CASE u # t
      <3>1. Fits(u) /\ request'[u] = request[u] BY <1>1, <1>4, <2>1 DEF EditsInv, Typed
      <3>2. \A r \in Rows : lock[r] = u => lock'[r] = u BY <1>5, <2>1
      <3> QED BY <1>1, <1>3, <3>1, <3>2, UntouchedFits DEF Typed
    <2>2. CASE u = t
      <3>1. /\ request'[t].phase = "answered" /\ request'[t].newest = {}
            /\ request'[t].kind = q.kind /\ request'[t].rows = q.rows
            /\ request'[t].next = q.next /\ request'[t].orphan = q.orphan
            /\ request'[t].expected = q.expected /\ request'[t].opened = q.opened
            /\ request'[t].answer # "ok"
        BY <1>1, <1>2, <1>6 DEF Requests, Fits, LocksFit
      <3>2. DialogFits(t)' BY <1>1 DEF Fits, DialogFits, DialogRows
      <3>3. SaveFits(t)' BY <1>1, <3>1 DEF Fits, SaveFits, Phase
      <3>4. LocksFit(t)' BY <3>1 DEF LocksFit, Phase
      <3>5. AnswerFits(t)' BY <3>1 DEF AnswerFits
      <3>6. ScreenFitsOf(t)' BY <1>1, <1>3 DEF Fits, ScreenFitsOf
      <3> QED BY <2>2, <3>2, <3>3, <3>4, <3>5, <3>6 DEF Fits
    <2> QED BY <2>1, <2>2
  <1> QED BY <1>8, <1>9 DEF EditsInv

\* An edit is one statement, on a row that no transaction holds.
LEMMA UpdateTransactionEdits ==
  ASSUME ConstantsFit, EditsInv, NEW t \in Tabs, UpdateTransaction(t) PROVE EditsInv'
  <1>1. Phase(t) = "sent" /\ lock' = lock /\ UNCHANGED <<shown, dialog, uses>>
    BY DEF UpdateTransaction
  <1>2. CASE \A r \in request[t].rows : Matches(t, r)
    <2>1. Commit(t) BY <1>2 DEF UpdateTransaction
    <2>2. \A r \in request[t].rows : db[r] = request[t].expected[r] /\ lock[r] \in {None, t}
      BY <1>2 DEF UpdateTransaction, Matches
    <2> QED BY <1>1, <2>1, <2>2, CommitEdits
  <1>3. CASE ~\A r \in request[t].rows : Matches(t, r)
    <2>1. PICK answer \in {"conflict", "not-found", "error"} : Refuse(t, answer)
      BY <1>3 DEF UpdateTransaction
    <2> QED BY <1>1, <2>1, RefuseEdits
  <1> QED BY <1>2, <1>3

\* The transaction of an assignment ends with a commit of rows it holds, or with nothing.
LEMMA EndAssignEdits ==
  ASSUME ConstantsFit, EditsInv, NEW t \in Tabs, EndAssign(t) PROVE EditsInv'
  <1>1. Phase(t) = "sent" /\ Release(t) /\ UNCHANGED <<shown, dialog, uses>>
    BY DEF EndAssign
  <1>2. CASE request[t].conflicts = {}
    <2>1. Commit(t) BY <1>2 DEF EndAssign
    <2>2. \A r \in request[t].rows : db[r] = request[t].expected[r] /\ lock[r] \in {None, t}
      BY <1>2 DEF EndAssign, EditsInv, Fits, LocksFit
    <2> QED BY <1>1, <2>1, <2>2, CommitEdits
  <1>3. CASE request[t].conflicts # {}
    <2>1. Refuse(t, "conflict") BY <1>3 DEF EndAssign
    <2> QED BY <1>1, <2>1, RefuseEdits
  <1> QED BY <1>2, <1>3

LEMMA FailRequestEdits ==
  ASSUME ConstantsFit, EditsInv, NEW t \in Tabs, FailRequest(t) PROVE EditsInv'
  BY RefuseEdits DEF FailRequest

\* A step that changes nothing but what is left to do of one tab's assignment and its locks.
LEMMA AssignItemEdits ==
  ASSUME ConstantsFit, EditsInv, NEW t \in Tabs, AssignItem(t) PROVE EditsInv'
  <1> DEFINE q == request[t]
  <1>1. Fits(t) /\ Typed BY DEF EditsInv
  <1>2. q \in Requests /\ q.phase = "sent" /\ q.kind = "assign"
    BY <1>1, RequestIs DEF AssignItem, Phase
  <1>3. PICK r \in NextItems(q.todo) :
          /\ lock[r] \in {None, t}
          /\ lock' = IF r \in Live THEN [lock EXCEPT ![r] = t] ELSE lock
          /\ request' = [request EXCEPT ![t].todo = @ \ {r},
               ![t].conflicts = IF Matches(t, r) THEN @ ELSE @ \cup {r}]
    BY DEF AssignItem
  <1> DEFINE conflicts == IF Matches(t, r) THEN q.conflicts ELSE q.conflicts \cup {r}
  <1>4. r \in q.todo /\ r \in Rows BY <1>2 DEF NextItems, Requests
  <1>5. UNCHANGED <<db, shown, outdated, dialog, uses>> BY DEF AssignItem
  <1>6. request' = [request EXCEPT ![t] = [q EXCEPT !.todo = q.todo \ {r}, !.conflicts = conflicts]]
    BY <1>1, <1>2, <1>3 DEF Typed, Requests
  <1>7. request'[t] = [q EXCEPT !.todo = q.todo \ {r}, !.conflicts = conflicts]
    BY <1>1, <1>6 DEF Typed
  <1>8. conflicts \subseteq Rows /\ q.todo \ {r} \subseteq Rows BY <1>2, <1>4 DEF Requests
  <1>9. (conflicts = q.conflicts /\ Matches(t, r)) \/ conflicts = q.conflicts \cup {r} OBVIOUS
  <1> HIDE DEF conflicts
  <1>10. request'[t] \in Requests BY <1>2, <1>7, <1>8 DEF Requests
  <1>11. Typed'
    <2>1. lock' \in [Rows -> Tabs \cup {None}] BY <1>1, <1>3, <1>4 DEF Typed
    <2>2. request' \in [Tabs -> Requests \cup {Idle}] BY <1>1, <1>6, <1>7, <1>10 DEF Typed
    <2> QED BY <1>1, <1>5, <2>1, <2>2 DEF Typed
  <1>12. ASSUME NEW u \in Tabs PROVE Fits(u)'
    <2>1. CASE u # t
      <3>1. Fits(u) /\ request'[u] = request[u] BY <1>1, <1>6, <2>1 DEF EditsInv, Typed
      <3>2. \A p \in Rows : lock[p] = u => lock'[p] = u
        BY <1>1, <1>3, <1>4, <2>1 DEF Typed, ConstantsFit
      <3> QED BY <1>1, <1>5, <3>1, <3>2, UntouchedFits DEF Typed
    <2>2. CASE u = t
      <3>1. /\ request'[t].phase = "sent" /\ request'[t].newest = q.newest
            /\ request'[t].kind = "assign" /\ request'[t].rows = q.rows
            /\ request'[t].next = q.next /\ request'[t].orphan = q.orphan
            /\ request'[t].expected = q.expected /\ request'[t].opened = q.opened
            /\ request'[t].todo = q.todo \ {r} /\ request'[t].conflicts = conflicts
        BY <1>2, <1>7 DEF Requests
      <3>2. DialogFits(t)' BY <1>1, <1>5 DEF Fits, DialogFits, DialogRows
      <3>3. SaveFits(t)' BY <1>1, <1>2, <1>5, <3>1 DEF Fits, SaveFits, Phase
      <3>4. LocksFit(t)'
        <4>1. q.newest = {} BY <1>1, <1>2 DEF Fits, LocksFit, Phase
        <4>2. ASSUME NEW p \in q.rows \ ((q.todo \ {r}) \cup conflicts)
              PROVE  lock'[p] = t /\ db'[p] = q.expected[p]
          <5>1. CASE p = r
            <6>1. Matches(t, r) BY <1>9, <4>2, <5>1
            <6>2. r \in Live BY <1>4, <6>1 DEF Matches, Live
            <6> QED BY <1>1, <1>3, <1>4, <1>5, <5>1, <6>1, <6>2 DEF Matches, Typed
          <5>2. CASE p # r
            <6>1. p \in q.rows \ (q.todo \cup q.conflicts) /\ p \in Rows
              BY <1>2, <1>9, <4>2, <5>2 DEF Requests
            <6>2. lock[p] = t /\ db[p] = q.expected[p]
              BY <1>1, <1>2, <6>1 DEF Fits, LocksFit, Phase
            <6> QED BY <1>1, <1>3, <1>5, <5>2, <6>1, <6>2 DEF Typed
          <5> QED BY <5>1, <5>2
        <4> QED BY <3>1, <4>1, <4>2 DEF LocksFit
      <3>5. AnswerFits(t)' BY <3>1 DEF AnswerFits, Phase
      <3>6. ScreenFitsOf(t)' BY <1>1, <1>5 DEF Fits, ScreenFitsOf
      <3> QED BY <2>2, <3>2, <3>3, <3>4, <3>5, <3>6 DEF Fits
    <2> QED BY <2>1, <2>2
  <1> QED BY <1>11, <1>12 DEF EditsInv

LEMMA LoseAnswerEdits ==
  ASSUME ConstantsFit, EditsInv, NEW t \in Tabs, LoseAnswer(t) PROVE EditsInv'
  <1> DEFINE q == request[t]
  <1>1. Fits(t) /\ Typed BY DEF EditsInv
  <1>2. q \in Requests /\ q.phase = "answered" BY <1>1, RequestIs DEF LoseAnswer, Phase
  <1>3. UNCHANGED <<db, lock, shown, outdated, dialog, uses>> BY DEF LoseAnswer
  <1>4. request' = [request EXCEPT ![t] = [q EXCEPT !.answer = "error"]]
    BY <1>1, <1>2 DEF LoseAnswer, Typed
  <1>5. request'[t] = [q EXCEPT !.answer = "error"] BY <1>1, <1>4 DEF Typed
  <1>6. request'[t] \in Requests BY <1>2, <1>5 DEF Requests
  <1>7. Typed' BY <1>1, <1>3, <1>4, <1>5, <1>6 DEF Typed
  <1>8. ASSUME NEW u \in Tabs PROVE Fits(u)'
    <2>1. CASE u # t
      <3>1. Fits(u) /\ request'[u] = request[u] BY <1>1, <1>4, <2>1 DEF EditsInv, Typed
      <3> QED BY <1>1, <1>3, <3>1, UntouchedFits DEF Typed
    <2>2. CASE u = t
      <3>1. /\ request'[t].phase = "answered" /\ request'[t].newest = q.newest
            /\ request'[t].kind = q.kind /\ request'[t].rows = q.rows
            /\ request'[t].next = q.next /\ request'[t].orphan = q.orphan
            /\ request'[t].expected = q.expected /\ request'[t].opened = q.opened
            /\ request'[t].answer = "error"
        BY <1>2, <1>5 DEF Requests
      <3>2. DialogFits(t)' BY <1>1, <1>3 DEF Fits, DialogFits, DialogRows
      <3>3. SaveFits(t)' BY <1>1, <1>2, <1>3, <3>1 DEF Fits, SaveFits, Phase
      <3>4. LocksFit(t)' BY <3>1 DEF LocksFit, Phase
      <3>5. AnswerFits(t)'
        <4>1. \A r : Result(t, r)' = Result(t, r) BY <1>3, <3>1 DEF Result
        <4> QED BY <1>1, <1>2, <1>3, <3>1, <4>1 DEF Fits, AnswerFits, Phase
      <3>6. ScreenFitsOf(t)' BY <1>1, <1>3 DEF Fits, ScreenFitsOf
      <3> QED BY <2>2, <3>2, <3>3, <3>4, <3>5, <3>6 DEF Fits
    <2> QED BY <2>1, <2>2
  <1> QED BY <1>7, <1>8 DEF EditsInv

\* A row that is removed is outdated for every tab that shows it.
LEMMA RemoveRowEdits ==
  ASSUME ConstantsFit, EditsInv, NEW r \in Rows, RemoveRow(r) PROVE EditsInv'
  <1> DEFINE S == {r}
  <1>1. Typed BY DEF EditsInv
  <1>2. \A u \in Tabs :
          /\ outdated'[u] = outdated[u] \cup S
          /\ request'[u] = IF Phase(u) = "answered" THEN [request[u] EXCEPT !.newest = @ \ S]
                           ELSE request[u]
    BY DEF RemoveRow, Outdated, Superseded
  <1>3. UNCHANGED <<lock, shown, dialog, uses>> /\ db' = [db EXCEPT ![r] = None] /\ lock[r] = None
    BY DEF RemoveRow
  <1>4. Typed'
    <2>1. outdated' \in [Tabs -> SUBSET Rows] BY <1>1 DEF Typed, RemoveRow, Outdated
    <2>2. ASSUME NEW u \in Tabs PROVE request'[u] \in Requests \cup {Idle}
      <3>1. CASE Phase(u) = "answered"
        <4>1. request[u] \in Requests BY <1>1, <3>1, RequestIs
        <4>2. request'[u] = [request[u] EXCEPT !.newest = @ \ S] BY <1>2, <3>1
        <4> HIDE DEF S
        <4>3. request[u].newest \ S \subseteq Rows BY <4>1 DEF Requests
        <4> QED BY <4>1, <4>2, <4>3 DEF Requests
      <3>2. CASE Phase(u) # "answered" BY <1>1, <1>2, <3>2 DEF Typed
      <3> QED BY <3>1, <3>2
    <2>3. request' = [u \in Tabs |-> request'[u]] BY DEF RemoveRow, Superseded
    <2>4. db' \in [Rows -> Value \cup {None}] BY <1>1, <1>3 DEF Typed
    <2> QED BY <1>1, <1>3, <2>1, <2>2, <2>3, <2>4 DEF Typed
  <1>5. ASSUME NEW u \in Tabs PROVE Fits(u)'
    <2>1. Fits(u) BY DEF EditsInv
    <2>2. \A p \in Rows \ S : db'[p] = db[p] BY <1>1, <1>3 DEF Typed
    <2>3. \A p \in S : lock[p] # u BY <1>3 DEF ConstantsFit
    <2>4. S \in SUBSET Rows OBVIOUS
    <2> HIDE DEF S
    <2> QED BY <1>1, <1>2, <1>3, <2>1, <2>2, <2>3, <2>4, OthersFit
  <1> QED BY <1>4, <1>5 DEF EditsInv

-----------------------------------------------------------------------------
(* The answer reaches the tab. *)

\* The list with a saved row changed in place.
SavedView(t) ==
  [r \in DOMAIN shown[t] |->
      IF r \notin request[t].rows THEN shown[t][r]
      ELSE IF request[t].kind = "edit" THEN request[t].next
      ELSE [shown[t][r] EXCEPT !.category = request[t].next.category]]

LEMMA SavedViewIs ==
  ASSUME EditsInv, NEW t \in Tabs, Phase(t) = "answered"
  PROVE  SavedView(t) \in Views
  <1>1. request[t] \in Requests /\ SaveFits(t) /\ shown[t] \in Views
    BY RequestIs DEF EditsInv, Fits, Phase, Typed
  <1>2. ASSUME NEW r \in DOMAIN shown[t] PROVE SavedView(t)[r] \in Value
    <2>1. shown[t][r] \in Value BY <1>1, ViewsHave
    <2>2. CASE request[t].kind = "edit" BY <1>1, <2>1, <2>2 DEF SavedView, SaveFits, Phase
    <2>3. CASE request[t].kind = "assign"
      <3>1. request[t].next \in [category : OptionalCategory] BY <1>1, <2>3 DEF SaveFits, Phase
      <3>2. [shown[t][r] EXCEPT !.category = request[t].next.category] \in Value
        BY <2>1, <3>1 DEF Value
      <3> QED BY <2>1, <2>3, <3>2 DEF SavedView
    <2> QED BY <1>1, <2>2, <2>3 DEF Requests
  <1>3. DOMAIN shown[t] \subseteq Rows BY <1>1, ViewsHave
  <1>4. SavedView(t) \in [DOMAIN shown[t] -> Value] BY <1>2 DEF SavedView
  <1> QED BY <1>3, <1>4, ViewsAre

LEMMA ReceiveAnswerEdits ==
  ASSUME ConstantsFit, EditsInv, NEW t \in Tabs, ReceiveAnswer(t) PROVE EditsInv'
  <1>1. Fits(t) /\ Typed BY DEF EditsInv
  <1>2. request[t] \in Requests /\ request[t].phase = "answered" /\ Phase(t) = "answered"
    BY <1>1, RequestIs DEF ReceiveAnswer, Phase
  <1>3. UNCHANGED <<db, lock, uses>> /\ request' = [request EXCEPT ![t] = Idle]
    BY DEF ReceiveAnswer
  <1>4. request' \in [Tabs -> Requests \cup {Idle}] /\ request'[t].phase = "idle"
    BY <1>1, <1>3 DEF Typed, Idle
  <1>5. SaveFits(t)' /\ LocksFit(t)' /\ AnswerFits(t)'
    BY <1>4 DEF SaveFits, LocksFit, AnswerFits, Phase
  <1>6. ASSUME NEW u \in Tabs, u # t, shown'[u] = shown[u], outdated'[u] = outdated[u],
               dialog'[u] = dialog[u]
        PROVE  Fits(u)'
    <2>1. Fits(u) /\ request'[u] = request[u] BY <1>1, <1>3, <1>6 DEF EditsInv, Typed
    <2> QED BY <1>1, <1>3, <1>6, <2>1, UntouchedFits DEF Typed
  <1>7. CASE request[t].orphan
    <2>1. UNCHANGED <<shown, outdated, dialog>> BY <1>7 DEF ReceiveAnswer
    <2>2. Typed' BY <1>1, <1>3, <1>4, <2>1 DEF Typed
    <2>3. DialogFits(t)' /\ ScreenFitsOf(t)'
      BY <1>1, <1>3, <2>1 DEF Fits, DialogFits, DialogRows, ScreenFitsOf
    <2> QED BY <1>5, <1>6, <2>1, <2>2, <2>3 DEF Fits, EditsInv
  <1>8. CASE ~request[t].orphan /\ request[t].answer = "ok"
    <2>1. Saved(t) BY <1>8 DEF ReceiveAnswer
    <2>2. shown' = [shown EXCEPT ![t] = SavedView(t)] BY <1>1, <2>1 DEF Saved, SavedView, Typed
    <2>3. outdated' = [outdated EXCEPT ![t] = outdated[t] \ request[t].newest]
      BY <1>1, <2>1 DEF Saved, Typed
    <2>4. dialog' = [dialog EXCEPT ![t] = Closed] BY <2>1 DEF Saved
    <2>5. Closed \in Dialogs BY NoRowsOpened DEF Closed, Dialogs
    <2>6. Typed' BY <1>1, <1>2, <1>3, <1>4, <2>2, <2>3, <2>4, <2>5, SavedViewIs DEF Typed
    <2>7. /\ shown'[t] = SavedView(t) /\ dialog'[t] = Closed
          /\ outdated'[t] = outdated[t] \ request[t].newest
      BY <1>1, <2>2, <2>3, <2>4 DEF Typed
    <2>8. DialogFits(t)' BY <2>7, NoRowsOpened DEF DialogFits, DialogRows, Closed
    <2>9. ASSUME NEW r \in DOMAIN shown'[t], r \notin outdated'[t]
          PROVE  shown'[t][r] = db'[r]
      <3>1. r \in DOMAIN shown[t] BY <2>7 DEF SavedView
      <3>2. CASE r \in request[t].newest
        <4>1. r \in request[t].rows /\ db[r] = Result(t, r)
          BY <1>1, <1>2, <1>8, <3>2 DEF Fits, AnswerFits
        <4>2. SavedView(t)[r] = Result(t, r) BY <3>1, <4>1 DEF SavedView, Result
        <4> QED BY <1>3, <2>7, <4>1, <4>2
      <3>3. CASE r \notin request[t].newest
        <4>1. r \notin outdated[t] BY <2>7, <2>9, <3>3
        <4>2. r \notin request[t].rows BY <1>1, <1>2, <1>8, <4>1 DEF Fits, AnswerFits
        <4>3. shown[t][r] = db[r] BY <1>1, <3>1, <4>1 DEF Fits, ScreenFitsOf
        <4> QED BY <1>3, <2>7, <3>1, <4>2, <4>3 DEF SavedView
      <3> QED BY <3>2, <3>3
    <2>10. ScreenFitsOf(t)' BY <2>9 DEF ScreenFitsOf
    <2>11. ASSUME NEW u \in Tabs, u # t PROVE Fits(u)'
      BY <1>1, <1>6, <2>2, <2>3, <2>4, <2>11 DEF Typed
    <2> QED BY <1>5, <2>6, <2>8, <2>10, <2>11 DEF Fits, EditsInv
  <1>9. CASE ~request[t].orphan /\ request[t].answer # "ok"
    <2>1. NotSaved(t) BY <1>9 DEF ReceiveAnswer
    <2>2. UNCHANGED <<shown, outdated>> BY <2>1 DEF NotSaved
    <2>3. dialog[t] \in Dialogs BY <1>1 DEF Typed
    <2>4. dialog'[t] = [dialog[t] EXCEPT !.saving = FALSE,
                                         !.error = toSaveError(request[t].answer)]
      BY <1>1, <2>1 DEF NotSaved, Typed
    <2>5. dialog'[t] \in Dialogs /\ dialog'[t].opened = dialog[t].opened
      BY <2>3, <2>4 DEF Dialogs, toSaveError
    <2>6. dialog' \in [Tabs -> Dialogs] /\ \A u \in Tabs : u # t => dialog'[u] = dialog[u]
      BY <1>1, <2>1, <2>5 DEF NotSaved, Typed
    <2>7. Typed' BY <1>1, <1>3, <1>4, <2>2, <2>6 DEF Typed
    <2>8. DialogFits(t)' /\ ScreenFitsOf(t)'
      BY <1>1, <1>3, <2>2, <2>5 DEF Fits, DialogFits, DialogRows, ScreenFitsOf
    <2> QED BY <1>5, <1>6, <2>2, <2>6, <2>7, <2>8 DEF Fits, EditsInv
  <1> QED BY <1>7, <1>8, <1>9

-----------------------------------------------------------------------------
(* Every step. *)

LEMMA NextEdits == ConstantsFit /\ EditsInv /\ [Next]_vars => EditsInv'
  <1> SUFFICES ASSUME ConstantsFit, EditsInv, [Next]_vars PROVE EditsInv' OBVIOUS
  <1>1. CASE UNCHANGED vars
    <2>1. UNCHANGED <<db, lock, shown, outdated, dialog, request, uses>>
      BY <1>1 DEF vars, screen
    <2>2. Typed' BY <2>1 DEF EditsInv, Typed
    <2>3. ASSUME NEW u \in Tabs PROVE Fits(u)' BY <2>1, UntouchedFits DEF EditsInv, Typed
    <2> QED BY <2>2, <2>3 DEF EditsInv
  <1>2. ASSUME NEW r \in Rows, RemoveRow(r) PROVE EditsInv' BY <1>2, RemoveRowEdits
  <1>3. ASSUME NEW t \in Tabs, Reload(t) PROVE EditsInv' BY <1>3, ReloadEdits
  <1>4. ASSUME NEW t \in Tabs, NEW kind \in {"edit", "assign"}, NEW S \in SUBSET Rows,
               OpenDialog(t, kind, S)
        PROVE  EditsInv'
    BY <1>4, OpenDialogEdits
  <1>5. ASSUME NEW t \in Tabs, Cancel(t) PROVE EditsInv' BY <1>5, CancelEdits
  <1>6. ASSUME NEW t \in Tabs,
               NEW next \in [comment : Comments \cup {None}, category : OptionalCategory],
               SaveTransaction(t, next)
        PROVE  EditsInv'
    <2>1. next \in Value BY DEF Value
    <2> QED BY <1>6, <2>1, SendEdits DEF SaveTransaction
  <1>7. ASSUME NEW t \in Tabs, NEW category \in OptionalCategory, AssignCategory(t, category)
        PROVE  EditsInv'
    <2>1. [category |-> category] \in [category : OptionalCategory] OBVIOUS
    <2> QED BY <1>7, <2>1, SendEdits DEF AssignCategory
  <1>8. ASSUME NEW t \in Tabs, UpdateTransaction(t) PROVE EditsInv'
    BY <1>8, UpdateTransactionEdits
  <1>9. ASSUME NEW t \in Tabs, AssignItem(t) PROVE EditsInv' BY <1>9, AssignItemEdits
  <1>10. ASSUME NEW t \in Tabs, EndAssign(t) PROVE EditsInv' BY <1>10, EndAssignEdits
  <1>11. ASSUME NEW t \in Tabs, FailRequest(t) PROVE EditsInv' BY <1>11, FailRequestEdits
  <1>12. ASSUME NEW t \in Tabs, LoseAnswer(t) PROVE EditsInv' BY <1>12, LoseAnswerEdits
  <1>13. ASSUME NEW t \in Tabs, ReceiveAnswer(t) PROVE EditsInv' BY <1>13, ReceiveAnswerEdits
  <1> QED BY <1>1, <1>2, <1>3, <1>4, <1>5, <1>6, <1>7, <1>8, <1>9, <1>10, <1>11, <1>12, <1>13
          DEF Next

LEMMA ValueTypes ==
  ASSUME EditsInv PROVE TypeOK
  <1>1. Typed /\ \A t \in Tabs : DialogFits(t) BY DEF EditsInv, Fits
  <1>2. ASSUME NEW t \in Tabs
        PROVE  /\ DOMAIN shown[t] \subseteq Rows /\ outdated[t] \subseteq Rows
               /\ \A r \in DOMAIN shown[t] : shown[t][r] \in Value
               /\ DialogRows(t) \subseteq DOMAIN shown[t]
    BY <1>1, ViewsHave DEF Typed, DialogFits
  <1>3. ASSUME NEW t \in Tabs
        PROVE  /\ dialog[t].kind \in {"closed", "edit", "assign"}
               /\ dialog[t].error \in {None, "conflict", "generic"}
    BY <1>1 DEF Typed, Dialogs
  <1>4. ASSUME NEW t \in Tabs PROVE Phase(t) \in {"idle", "sent", "answered"}
    BY <1>1, RequestIs DEF Phase, Requests
  <1> QED BY <1>1, <1>2, <1>3, <1>4 DEF TypeOK, Typed

\* Only two steps give a row a new value, each of a request that matched it.
LEMMA OnlyCommits ==
  ASSUME EditsInv, Next, db' # db
  PROVE  \/ \E r \in Rows : RemoveRow(r)
         \/ \E t \in Tabs :
              /\ Phase(t) = "sent" /\ Commit(t)
              /\ \A r \in request[t].rows : db[r] = request[t].expected[r]
  <1>1. ASSUME NEW t \in Tabs, UpdateTransaction(t)
        PROVE  /\ Phase(t) = "sent" /\ Commit(t)
               /\ \A r \in request[t].rows : db[r] = request[t].expected[r]
    BY <1>1 DEF UpdateTransaction, Refuse, Matches
  <1>2. ASSUME NEW t \in Tabs, EndAssign(t)
        PROVE  /\ Phase(t) = "sent" /\ Commit(t)
               /\ \A r \in request[t].rows : db[r] = request[t].expected[r]
    BY <1>2 DEF EndAssign, Refuse, EditsInv, Fits, LocksFit
  <1> QED BY <1>1, <1>2 DEF Next, Reload, OpenDialog, Cancel, SaveTransaction, AssignCategory,
                            Send, AssignItem, FailRequest, Refuse, LoseAnswer, ReceiveAnswer

LEMMA NoStepLoses ==
  ASSUME ConstantsFit, EditsInv, [Next]_vars
  PROVE  [\A r \in Rows : Changes(r) =>
            \E t \in Tabs : /\ Phase(t) = "sent"
                            /\ r \in request[t].rows
                            /\ db[r] = request[t].opened[r]]_db
  <1> SUFFICES ASSUME db' # db, NEW r \in Rows, Changes(r)
               PROVE  \E t \in Tabs : /\ Phase(t) = "sent"
                                      /\ r \in request[t].rows
                                      /\ db[r] = request[t].opened[r]
    OBVIOUS
  <1>1. Next BY DEF vars
  <1>2. CASE \E p \in Rows : RemoveRow(p)
    <2>1. PICK p \in Rows : RemoveRow(p) BY <1>2
    <2>2. db' = [db EXCEPT ![p] = None] /\ db \in [Rows -> Value \cup {None}]
      BY <2>1 DEF RemoveRow, EditsInv, Typed
    <2> QED BY <2>2 DEF Changes
  <1>3. CASE \E t \in Tabs : /\ Phase(t) = "sent" /\ Commit(t)
                             /\ \A p \in request[t].rows : db[p] = request[t].expected[p]
    <2>1. PICK t \in Tabs : /\ Phase(t) = "sent" /\ Commit(t)
                            /\ \A p \in request[t].rows : db[p] = request[t].expected[p]
      BY <1>3
    <2>2. r \in request[t].rows BY <2>1 DEF Commit, Changes
    <2>3. request[t].expected[r] = request[t].opened[r]
      BY <2>1, <2>2 DEF EditsInv, Fits, SaveFits, Phase
    <2> QED BY <2>1, <2>2, <2>3
  <1> QED BY <1>1, <1>2, <1>3, OnlyCommits

\* An assignment is answered by the end of its transaction or by its failure.
LEMMA OnlyAnswers ==
  ASSUME EditsInv, Next, NEW t \in Tabs, Phase(t) = "sent", request[t].kind = "assign",
         request'[t].phase = "answered"
  PROVE  EndAssign(t) \/ FailRequest(t)
  <1>1. request[t] \in Requests /\ request[t].phase = "sent" /\ Typed
    BY RequestIs DEF EditsInv, Phase
  <1>2. request'[t] # request[t] BY <1>1
  <1>3. ASSUME NEW r \in Rows PROVE ~RemoveRow(r) BY <1>2 DEF RemoveRow, Superseded
  <1>4. ASSUME NEW u \in Tabs PROVE ~UpdateTransaction(u)
    BY <1>1, <1>2 DEF UpdateTransaction, Commit, Refuse, Superseded, Typed
  <1>5. ASSUME NEW u \in Tabs, u # t PROVE ~EndAssign(u) /\ ~FailRequest(u)
    BY <1>1, <1>2, <1>5 DEF EndAssign, FailRequest, Commit, Refuse, Superseded, Typed
  <1>6. ASSUME NEW u \in Tabs PROVE ~LoseAnswer(u) /\ ~ReceiveAnswer(u)
    BY <1>1, <1>2 DEF LoseAnswer, ReceiveAnswer, Phase, Typed
  <1>7. ASSUME NEW u \in Tabs PROVE ~Reload(u)
    <2> SUFFICES ASSUME Reload(u) PROVE FALSE OBVIOUS
    <2>1. u = t /\ request' = [request EXCEPT ![u].orphan = TRUE]
      BY <1>1, <1>2 DEF Reload, Typed
    <2>2. request'[t] = [request[t] EXCEPT !.orphan = TRUE] BY <1>1, <2>1 DEF Typed
    <2> QED BY <1>1, <2>2 DEF Requests
  <1>8. ASSUME NEW u \in Tabs PROVE ~AssignItem(u)
    <2> SUFFICES ASSUME AssignItem(u) PROVE FALSE OBVIOUS
    <2>1. PICK r \in NextItems(request[u].todo) :
            request' = [request EXCEPT ![u].todo = @ \ {r},
                          ![u].conflicts = IF Matches(u, r) THEN @ ELSE @ \cup {r}]
      BY DEF AssignItem
    <2>2. request'[t].phase = request[t].phase BY <1>1, <2>1 DEF Typed, Requests
    <2> QED BY <1>1, <2>2
  <1>9. ASSUME NEW u \in Tabs, NEW kind, NEW next PROVE ~Send(u, kind, next)
    BY <1>1, <1>2 DEF Send, Phase, Typed
  <1> QED BY <1>2, <1>3, <1>4, <1>5, <1>6, <1>7, <1>8, <1>9
          DEF Next, OpenDialog, Cancel, SaveTransaction, AssignCategory

\* What the answer says of the assignment is what happens to the rows.
Whole(t) ==
  IF request'[t].answer = "ok"
  THEN \A r \in request[t].rows : db'[r] # None /\ db'[r].category = request[t].next.category
  ELSE db' = db

LEMMA NoStepHalves ==
  ASSUME ConstantsFit, EditsInv, Next, NEW t \in Tabs, Phase(t) = "sent",
         request[t].kind = "assign", request'[t].phase = "answered"
  PROVE  Whole(t)
  <1>1. request[t] \in Requests /\ Typed BY RequestIs DEF EditsInv, Phase
  <1>2. EndAssign(t) \/ FailRequest(t) BY OnlyAnswers
  <1>3. CASE EndAssign(t) /\ request[t].conflicts = {}
    <2>1. Commit(t) BY <1>3 DEF EndAssign
    <2>2. request'[t].answer = "ok" BY <1>1, <2>1 DEF Commit, Superseded, Requests, Phase
    <2>3. ASSUME NEW r \in request[t].rows
          PROVE  db'[r] # None /\ db'[r].category = request[t].next.category
      <3>1. db[r] = request[t].expected[r] BY <1>3 DEF EndAssign, EditsInv, Fits, LocksFit
      <3>2. After(t, r) \in Value /\ After(t, r).category = request[t].next.category
        BY <3>1, AfterIs
      <3>3. db'[r] = After(t, r) BY <1>1, <2>1 DEF Commit, Requests
      <3> QED BY <3>2, <3>3 DEF ConstantsFit
    <2> QED BY <2>2, <2>3 DEF Whole
  <1>4. CASE FailRequest(t) \/ (EndAssign(t) /\ request[t].conflicts # {})
    <2>1. PICK answer \in {"conflict", "error"} : Refuse(t, answer)
      BY <1>4 DEF FailRequest, EndAssign
    <2>2. db' = db /\ request'[t].answer = answer BY <1>1, <2>1 DEF Refuse, Typed, Requests
    <2> QED BY <2>1, <2>2 DEF Whole
  <1> QED BY <1>2, <1>3, <1>4

\* Type correctness of TransactionEdits.
THEOREM EditTypesCorrect == ASSUME ConstantsFit PROVE Spec => []TypeOK
  <1>1. Init => EditsInv BY InitEdits
  <1>2. EditsInv /\ [Next]_vars => EditsInv' BY NextEdits
  <1>3. EditsInv => TypeOK BY ValueTypes
  <1> QED BY <1>1, <1>2, <1>3, PTL DEF Spec

\* A transaction is only overwritten by a save whose dialog showed, when it was opened,
\* exactly what is replaced; so is each comment that a bulk assignment leaves alone. The
\* guarded UPDATE compares with the list, and the list stays still under an open dialog
\* (repositories/umsatz.ts, TransactionsStore).
THEOREM NoEditLost == ASSUME ConstantsFit PROVE Spec => NoLostUpdate
  <1>1. Init => EditsInv BY InitEdits
  <1>2. EditsInv /\ [Next]_vars => EditsInv' BY NextEdits
  <1>3. EditsInv /\ [Next]_vars =>
          [\A r \in Rows : Changes(r) =>
            \E t \in Tabs : /\ Phase(t) = "sent"
                            /\ r \in request[t].rows
                            /\ db[r] = request[t].opened[r]]_db
    BY NoStepLoses
  <1> QED BY <1>1, <1>2, <1>3, PTL DEF Spec, NoLostUpdate

\* A bulk assignment gives all its rows the new category, or it changes nothing: the rows
\* it has matched stay as they were, by their locks, until it ends (assignCategory).
THEOREM AssignmentsWhole == ASSUME ConstantsFit PROVE Spec => AssignAllOrNothing
  <1>1. Init => EditsInv BY InitEdits
  <1>2. EditsInv /\ [Next]_vars => EditsInv' BY NextEdits
  <1>3. EditsInv /\ [Next]_vars =>
          [\A t \in Tabs : Phase(t) = "sent" /\ request[t].kind = "assign"
            /\ request'[t].phase = "answered" =>
          IF request'[t].answer = "ok"
          THEN \A r \in request[t].rows :
                  db'[r] # None /\ db'[r].category = request[t].next.category
          ELSE db' = db]_<<db, request>>
    BY NoStepHalves DEF Whole, vars, screen
  <1> QED BY <1>1, <1>2, <1>3, PTL DEF Spec, AssignAllOrNothing

\* What a tab's list shows of a transaction is what is stored, unless somebody else
\* changed it after the tab read or saved it (the in-place change after a save).
THEOREM ScreensCorrect == ASSUME ConstantsFit PROVE Spec => []ScreenFits
  <1>1. Init => EditsInv BY InitEdits
  <1>2. EditsInv /\ [Next]_vars => EditsInv' BY NextEdits
  <1>3. EditsInv => ScreenFits BY DEF EditsInv, Fits, ScreenFitsOf, ScreenFits
  <1> QED BY <1>1, <1>2, <1>3, PTL DEF Spec

-----------------------------------------------------------------------------
(* Waiting for locks. *)

\* Only a running assignment holds rows, all before those it has left.
HeldFirst(t) ==
  \A r \in Rows : lock[r] = t =>
    /\ request[t].phase = "sent" /\ request[t].kind = "assign"
    /\ \A q \in request[t].todo : r < q

OrderInv == EditsInv /\ \A t \in Tabs : HeldFirst(t)

\* Among some ids there is a first one.
LEMMA SmallestId ==
  ASSUME NEW S \in SUBSET Nat, S # {}
  PROVE  \E r \in S : \A q \in S : r <= q
  <1> DEFINE R == {ss \in Nat \X Nat : ss[1] < ss[2]}
  <1>1. R = OpToRel(<, Nat) BY DEF OpToRel
  <1>2. IsWellFoundedOn(R, Nat) BY <1>1, NatLessThanWellFounded
  <1>3. ASSUME NEW x \in S, NEW y \in S, ~(<<y, x>> \in R) PROVE x <= y
    <2>1. <<y, x>> \in Nat \X Nat OBVIOUS
    <2>2. ~(y < x) BY <2>1, <1>3
    <2> QED BY <2>2
  <1> HIDE DEF R
  <1>4. \E x \in S : \A y \in S : ~(<<y, x>> \in R) BY <1>2, WFMin
  <1> QED BY <1>3, <1>4

LEMMA InitOrder == ConstantsFit /\ Init => OrderInv
  BY InitEdits DEF OrderInv, HeldFirst, Init, ConstantsFit

\* Who takes no lock and has as much left as before, or who holds none, keeps the order.
LEMMA HeldFirstStays ==
  ASSUME NEW u \in Tabs, HeldFirst(u), \A r \in Rows : lock'[r] = u => lock[r] = u,
         \/ \A r \in Rows : lock'[r] # u
         \/ /\ request'[u].phase = request[u].phase
            /\ request'[u].kind = request[u].kind
            /\ request'[u].todo = request[u].todo
  PROVE  HeldFirst(u)'
  BY DEF HeldFirst

LEMMA ReleasedOrder ==
  ASSUME ConstantsFit, OrderInv, NEW t \in Tabs, Release(t), NEW u \in Tabs,
         u # t => (request'[u] = request[u] \/ Phase(u) = "answered")
  PROVE  HeldFirst(u)'
  <1>1. HeldFirst(u) /\ None \notin Tabs BY DEF OrderInv, ConstantsFit
  <1>2. \A r \in Rows : lock'[r] = u => lock[r] = u /\ u # t BY <1>1 DEF Release
  <1>3. Phase(u) = "answered" => \A r \in Rows : lock'[r] # u
    BY <1>1, <1>2 DEF HeldFirst, Phase
  <1> QED BY <1>1, <1>2, <1>3, HeldFirstStays

LEMMA AssignItemOrder ==
  ASSUME ConstantsFit, OrderInv, NEW t \in Tabs, AssignItem(t), NEW u \in Tabs
  PROVE  HeldFirst(u)'
  <1>1. HeldFirst(u) /\ Typed /\ None \notin Tabs /\ Rows \subseteq Nat
    BY DEF OrderInv, EditsInv, ConstantsFit
  <1>2. request[t] \in Requests /\ request[t].phase = "sent" /\ request[t].kind = "assign"
    BY <1>1, RequestIs DEF AssignItem, Phase
  <1>3. PICK r \in NextItems(request[t].todo) :
          /\ lock' = IF r \in Live THEN [lock EXCEPT ![r] = t] ELSE lock
          /\ request' = [request EXCEPT ![t].todo = @ \ {r},
               ![t].conflicts = IF Matches(t, r) THEN @ ELSE @ \cup {r}]
    BY DEF AssignItem
  <1>4. CASE u # t
    <2>1. request'[u] = request[u] BY <1>1, <1>3, <1>4 DEF Typed
    <2>2. \A p \in Rows : lock'[p] = u => lock[p] = u BY <1>1, <1>3, <1>4 DEF Typed
    <2> QED BY <1>1, <2>1, <2>2, HeldFirstStays
  <1>5. CASE u = t
    <2>1. /\ request'[t].phase = "sent" /\ request'[t].kind = "assign"
          /\ request'[t].todo = request[t].todo \ {r}
      BY <1>1, <1>2, <1>3 DEF Typed, Requests
    <2>2. ASSUME NEW p \in Rows, lock'[p] = t, NEW q \in request[t].todo \ {r} PROVE p < q
      <3>1. q \in Nat /\ r \in Nat /\ r <= q /\ r \in request[t].todo
        BY <1>1, <1>2 DEF NextItems, Requests
      <3>2. CASE p = r BY <2>2, <3>1, <3>2
      <3>3. CASE p # r
        <4>1. lock[p] = t BY <1>1, <1>3, <2>2, <3>3 DEF Typed
        <4> QED BY <1>1, <1>5, <4>1 DEF HeldFirst
      <3> QED BY <3>2, <3>3
    <2> QED BY <1>5, <2>1, <2>2 DEF HeldFirst
  <1> QED BY <1>4, <1>5

LEMMA NextOrder == ConstantsFit /\ OrderInv /\ [Next]_vars => OrderInv'
  <1> SUFFICES ASSUME ConstantsFit, OrderInv, [Next]_vars, NEW u \in Tabs PROVE HeldFirst(u)'
    BY NextEdits DEF OrderInv
  <1>1. HeldFirst(u) /\ Typed /\ request[u] \in Requests \cup {Idle}
    BY DEF OrderInv, EditsInv, Typed
  <1>2. CASE UNCHANGED vars BY <1>1, <1>2, HeldFirstStays DEF vars
  <1>3. ASSUME NEW r \in Rows, RemoveRow(r) PROVE HeldFirst(u)'
    <2>1. lock' = lock /\ (request'[u] = request[u] \/ Phase(u) = "answered")
      BY <1>3 DEF RemoveRow, Superseded
    <2> QED BY <1>1, <2>1 DEF HeldFirst, Phase
  <1>4. ASSUME NEW t \in Tabs, Reload(t) PROVE HeldFirst(u)'
    <2>1. lock' = lock BY <1>4 DEF Reload
    <2>2. CASE request'[u] = request[u] BY <1>1, <2>1, <2>2, HeldFirstStays
    <2>3. CASE request'[u] # request[u]
      <3>1. u = t /\ Phase(u) # "idle" /\ request' = [request EXCEPT ![t].orphan = TRUE]
        BY <1>1, <1>4, <2>3 DEF Reload, Typed
      <3>2. request[u] \in Requests BY <1>1, <3>1, RequestIs
      <3>3. request'[u] = [request[u] EXCEPT !.orphan = TRUE] BY <1>1, <3>1 DEF Typed
      <3>4. /\ request'[u].phase = request[u].phase /\ request'[u].kind = request[u].kind
            /\ request'[u].todo = request[u].todo
        BY <3>2, <3>3 DEF Requests
      <3> QED BY <1>1, <2>1, <3>4, HeldFirstStays
    <2> QED BY <2>2, <2>3
  <1>5. ASSUME NEW t \in Tabs, NEW kind, NEW next, Send(t, kind, next) PROVE HeldFirst(u)'
    <2>1. lock' = lock /\ (request'[u] = request[u] \/ Phase(u) = "idle")
      BY <1>1, <1>5 DEF Send, Typed
    <2> QED BY <1>1, <2>1 DEF HeldFirst, Phase
  <1>6. ASSUME NEW t \in Tabs, UpdateTransaction(t) PROVE HeldFirst(u)'
    <2>1. lock' = lock BY <1>6 DEF UpdateTransaction
    <2>2. \/ request'[u] = request[u] \/ Phase(u) = "answered"
          \/ request[u].kind = "edit"
      BY <1>1, <1>6 DEF UpdateTransaction, Commit, Refuse, Superseded, Typed
    <2> QED BY <1>1, <2>1, <2>2 DEF HeldFirst, Phase
  <1>7. ASSUME NEW t \in Tabs, AssignItem(t) PROVE HeldFirst(u)' BY <1>7, AssignItemOrder
  <1>8. ASSUME NEW t \in Tabs, EndAssign(t) PROVE HeldFirst(u)'
    <2>1. u # t => (request'[u] = request[u] \/ Phase(u) = "answered")
      BY <1>1, <1>8 DEF EndAssign, Commit, Refuse, Superseded, Typed
    <2> QED BY <1>8, <2>1, ReleasedOrder DEF EndAssign
  <1>9. ASSUME NEW t \in Tabs, FailRequest(t) PROVE HeldFirst(u)'
    <2>1. u # t => request'[u] = request[u] BY <1>1, <1>9 DEF FailRequest, Refuse, Typed
    <2> QED BY <1>9, <2>1, ReleasedOrder DEF FailRequest
  <1>10. ASSUME NEW t \in Tabs, LoseAnswer(t) \/ ReceiveAnswer(t) PROVE HeldFirst(u)'
    <2>1. lock' = lock /\ (request'[u] = request[u] \/ Phase(u) = "answered")
      BY <1>1, <1>10 DEF LoseAnswer, ReceiveAnswer, Typed
    <2> QED BY <1>1, <2>1 DEF HeldFirst, Phase
  <1>11. ASSUME UNCHANGED <<lock, request>> PROVE HeldFirst(u)'
    BY <1>1, <1>11, HeldFirstStays
  <1>12. ASSUME NEW t \in Tabs, NEW kind, NEW S, OpenDialog(t, kind, S) \/ Cancel(t)
         PROVE  HeldFirst(u)'
    BY <1>11, <1>12 DEF OpenDialog, Cancel
  <1> QED BY <1>2, <1>3, <1>4, <1>5, <1>6, <1>7, <1>8, <1>9, <1>10, <1>12
          DEF Next, SaveTransaction, AssignCategory

\* A tab that waits has a first row left, and the tab it waits for holds that row and
\* has only later ones left.
LEMMA WaitsUpwards ==
  ASSUME ConstantsFit, OrderInv, NEW t \in Tabs, NEW u \in Tabs, WaitsFor(t, u)
  PROVE  \E r \in request[t].todo :
           /\ r \in Rows /\ r \in Nat
           /\ \A q \in request[t].todo : r <= q
           /\ \A q \in request[u].todo : r < q
  <1>1. request[t] \in Requests BY RequestIs DEF OrderInv, EditsInv, WaitsFor
  <1>2. request[t].todo \subseteq Rows /\ Rows \subseteq Nat /\ request[t].todo # {}
    BY <1>1 DEF Requests, ConstantsFit, WaitsFor
  <1>3. PICK r \in request[t].todo : \A q \in request[t].todo : r <= q BY <1>2, SmallestId
  <1>4. lock[r] = u BY <1>3 DEF NextItems, WaitsFor
  <1>5. \A q \in request[u].todo : r < q BY <1>2, <1>4 DEF OrderInv, HeldFirst
  <1> QED BY <1>2, <1>3, <1>5

\* The rows a tab has left, and all that come after its first one.
Later(t) == {r \in Rows : \E q \in request[t].todo : q <= r}

LEMMA OrderSuffices ==
  ASSUME ConstantsFit, OrderInv PROVE NoWaitCycle
  <1> SUFFICES ASSUME NEW group \in SUBSET Tabs, group # {},
                      ~(\E t \in group : \A u \in group \ {t} : ~WaitsFor(t, u))
               PROVE  FALSE
    BY DEF NoWaitCycle
  <1>0. \A t \in group : \E u \in group : WaitsFor(t, u) OBVIOUS
  <1>1. \A t \in group : IsFiniteSet(Later(t)) /\ Cardinality(Later(t)) \in Nat
    <2>1. \A t \in group : Later(t) \in SUBSET Rows BY DEF Later
    <2> QED BY <2>1, FS_Subset, FS_CardinalityType DEF ConstantsFit
  <1> DEFINE Numbers == {Cardinality(Later(t)) : t \in group}
  <1>2. PICK n \in Numbers : \A m \in Numbers : n <= m
    <2>1. Numbers \in SUBSET Nat /\ Numbers # {} BY <1>1
    <2> HIDE DEF Numbers
    <2> QED BY <2>1, SmallestId
  <1>3. PICK t \in group : n = Cardinality(Later(t)) BY <1>2
  <1>4. PICK u \in group : WaitsFor(t, u) BY <1>0
  <1>5. PICK r \in request[t].todo :
          /\ r \in Rows /\ r \in Nat
          /\ \A q \in request[t].todo : r <= q
          /\ \A q \in request[u].todo : r < q
    BY <1>4, WaitsUpwards
  <1>6. request[u].todo \subseteq Rows /\ Rows \subseteq Nat
    <2>1. PICK v \in group : WaitsFor(u, v) BY <1>0
    <2>2. request[u] \in Requests BY <2>1, RequestIs DEF OrderInv, EditsInv, WaitsFor
    <2> QED BY <2>2 DEF Requests, ConstantsFit
  <1>7. r \in Later(t) /\ r \notin Later(u)
    <2>1. r \in Later(t) BY <1>5 DEF Later
    <2>2. \A q \in request[u].todo : q \in Nat /\ r < q BY <1>5, <1>6
    <2>3. \A q \in request[u].todo : ~(q <= r) BY <1>5, <2>2
    <2> QED BY <2>1, <2>3 DEF Later
  <1>8. Later(u) \in SUBSET Later(t)
    <2> SUFFICES ASSUME NEW p \in Later(u) PROVE p \in Later(t) OBVIOUS
    <2>1. PICK q \in request[u].todo : q <= p BY DEF Later
    <2>2. p \in Rows /\ p \in Nat /\ q \in Nat BY <1>6 DEF Later
    <2>3. r <= p BY <1>5, <2>1, <2>2
    <2> QED BY <1>5, <2>2, <2>3 DEF Later
  <1>9. /\ Cardinality(Later(u)) <= Cardinality(Later(t))
        /\ Cardinality(Later(u)) # Cardinality(Later(t))
    BY <1>1, <1>7, <1>8, FS_Subset
  <1>10. Cardinality(Later(t)) <= Cardinality(Later(u)) BY <1>2, <1>3
  <1> QED BY <1>1, <1>9, <1>10

\* However many bulk assignments share rows, they never wait in a circle for the rows the
\* others hold: each locks its rows in the order of their ids (assignCategory sorts the
\* items), so of those that wait, the one with the last row waits for none of them.
THEOREM AssignmentsEnd == ASSUME ConstantsFit PROVE Spec => []NoWaitCycle
  <1>1. Init => OrderInv BY InitOrder
  <1>2. OrderInv /\ [Next]_vars => OrderInv' BY NextOrder
  <1>3. OrderInv => NoWaitCycle BY OrderSuffices
  <1> QED BY <1>1, <1>2, <1>3, PTL DEF Spec
=============================================================================
