------------------------- MODULE BankConnectionDialog -------------------------
(* The dialog that edits one bank connection, asks the bank for accounts and  *)
(* TAN methods (discovery) and maps the accounts to Hibiscus accounts         *)
(* (features/bank-connections), with the routes and the row behind it         *)
(* (routes/bank-connections.ts, repositories/bank-connection.ts). The two     *)
(* forms of the dialog save on their own, a discovery may wait for a TAN      *)
(* meanwhile, and another tab may edit the same row.                          *)
EXTENDS Integers, FiniteSets, Functions

CONSTANTS Identities,   \* bank code, URL, login and customer id of a connection
          Labels,       \* stands for its name, interval and enabled flag
          Methods,      \* the TAN methods
          Media,        \* the TAN media
          Required,     \* the methods that need a medium
          Offered,      \* what each identity's bank offers: methods, and the media of each,
                        \* of which there may be none, also for a method that needs one
          Accounts,     \* the account identifiers a discovery finds
          Kontos,       \* the Hibiscus accounts
          None,
          MaxUses,      \* bound: so many saves and discoveries
          MaxOthers     \* bound: so many edits by other tabs

VARIABLES stored,       \* the row with its mapping and bank data, or None
          saved, draft, saving, saveRequest,                   \* the settings form
          discovery, discovering, discoverRequest,             \* the discovery
          rows, tan, mappingSaving, mappingSaved, mapRequest,  \* the mapping form
          uses, others

settingsForm == <<saved, draft, saving, saveRequest>>
discoveryForm == <<discovery, discovering, discoverRequest>>
mappingForm == <<rows, tan, mappingSaving, mappingSaved, mapRequest>>
vars == <<stored, settingsForm, discoveryForm, mappingForm, uses, others>>

NoTan == [method |-> None, medium |-> None]
Tans == [method : Methods \cup {None}, medium : Media \cup {None}]
Settings == [identity : Identities, label : Labels, tan : Tans]
Mappings == UNION {[as -> Kontos] : as \in SUBSET Accounts}
Drafts == [identity : Identities, label : Labels, pin : BOOLEAN]
Idle == [phase |-> "idle"]

\* What the values of the constants must be.
ConstantsFit ==
    /\ DOMAIN Offered = Identities
    /\ \A i \in Identities : Offered[i] \in UNION {[ms -> SUBSET Media] : ms \in SUBSET Methods \ {{}}}
    /\ Required \subseteq Methods
    /\ Identities # {} /\ Labels # {}
    /\ None \notin Methods
    /\ None \notin Media
    /\ None \notin [settings : Settings, accounts : Mappings]   \* nor a saved connection
    /\ None \notin [Accounts -> Kontos \cup {None}]             \* nor the rows of a mapping
    /\ MaxUses \in Nat /\ MaxOthers \in Nat

TypeOK ==
    /\ stored = None \/ stored \in [settings : Settings, accounts : Mappings,
                                    data : Identities \cup {None}]
    /\ saved = None \/ saved \in [settings : Settings, accounts : Mappings]
    /\ draft \in Drafts
    /\ {saving, discovering, mappingSaving, mappingSaved} \subseteq BOOLEAN
    /\ discovery \in Identities \cup {None}
    /\ rows = None \/ rows \in [Accounts -> Kontos \cup {None}]
    /\ tan \in Tans
    /\ saveRequest.phase \in {"idle", "asking", "sent", "answered"}
    /\ mapRequest.phase \in {"idle", "accounts", "settings", "answered"}
    /\ discoverRequest.phase \in {"idle", "asking", "sent", "running", "answered", "waiting", "reading"}
    /\ uses \in 0..MaxUses /\ others \in 0..MaxOthers

draftOf(settings) == [identity |-> settings.identity, label |-> settings.label, pin |-> FALSE]
settingsOf(d, keptTan) == [identity |-> d.identity, label |-> d.label, tan |-> keptTan]
mappingOf(rs) == [a \in {x \in Accounts : rs[x] # None} |-> rs[a]]
mappingRowsOf(accounts) == [a \in Accounts |-> IF a \in DOMAIN accounts THEN accounts[a] ELSE None]
\* tanMethods of a discovery, and the media of one of them.
offers(found) == DOMAIN Offered[found]
mediaOf(found, method) == IF method \in offers(found) THEN Offered[found][method] ELSE {}

\* Mutant: the medium of the method before is kept.
mediaKept(found, method, current) ==
    IF current # None \/ mediaOf(found, method) = {} THEN {current} ELSE mediaOf(found, method)

\* The medium that goes with a method: the current one if the method has it, else the
\* method's first (any, since the order of the media is left out), none if it has no media.
mediaFor(found, method, current) ==
    IF method \notin Required \/ mediaOf(found, method) = {} THEN {None}
    ELSE IF current \in mediaOf(found, method) THEN {current}
    ELSE mediaOf(found, method)

FirstIdentity == CHOOSE i \in Identities : TRUE
FirstSettings == [identity |-> FirstIdentity, label |-> CHOOSE l \in Labels : TRUE, tan |-> NoTan]

\* The dialog opens on a stored connection or on a new one.
Init ==
    /\ stored \in {None, [settings |-> FirstSettings, accounts |-> << >>, data |-> None]}
    /\ saved = IF stored = None THEN None
               ELSE [settings |-> stored.settings, accounts |-> stored.accounts]
    /\ draft = draftOf(FirstSettings)
    /\ discovery = None /\ rows = None /\ tan = NoTan
    /\ saving = FALSE /\ discovering = FALSE /\ mappingSaving = FALSE /\ mappingSaved = FALSE
    /\ saveRequest = Idle /\ discoverRequest = Idle /\ mapRequest = Idle
    /\ uses = 0 /\ others = 0

\* A key prompt lies over the dialog.
Asking == "asking" \in {saveRequest.phase, discoverRequest.phase}

-----------------------------------------------------------------------------
(* The settings form. *)

dirty == saved # None =>
    draft.pin \/ settingsOf(draft, saved.settings.tan) # saved.settings

\* onText, onEnabled; the fields are disabled during a save.
Edit(d) ==
    /\ ~saving /\ ~Asking /\ d # draft
    /\ draft' = d
    /\ UNCHANGED <<stored, saved, saving, saveRequest, discoveryForm, mappingForm, uses, others>>

\* A new connection and a new PIN need the key, which may have to be asked for.
draftProblems == saved = None /\ ~draft.pin
saveConnection ==
    /\ ~draftProblems /\ dirty /\ ~saving /\ ~Asking
    /\ uses < MaxUses /\ uses' = uses + 1
    /\ saving' = TRUE
    /\ \E phase \in IF draft.pin THEN {"asking", "sent"} ELSE {"sent"} :
        saveRequest' = [phase |-> phase, of |-> saved, answer |-> None,
            next |-> settingsOf(draft, IF saved = None THEN NoTan ELSE saved.settings.tan)]
    /\ UNCHANGED <<stored, saved, draft, discoveryForm, mappingForm, others>>

CancelSave ==
    /\ saveRequest.phase = "asking"
    /\ saving' = FALSE /\ saveRequest' = Idle
    /\ UNCHANGED <<stored, saved, draft, discoveryForm, mappingForm, uses, others>>
EnterKey ==
    /\ saveRequest.phase = "asking"
    /\ saveRequest' = [saveRequest EXCEPT !.phase = "sent"]
    /\ UNCHANGED <<stored, saved, draft, saving, discoveryForm, mappingForm, uses, others>>

\* updateBankConnection: only settings that are still the expected ones are replaced; a
\* changed identity drops the bank data.
ToStored(expected, next) ==
    IF stored = None THEN <<stored, "not-found">>
    ELSE IF stored.settings # expected THEN <<stored, "conflict">>
    ELSE <<[stored EXCEPT !.settings = next,
               !.data = IF next.identity = expected.identity THEN @ ELSE None], "ok">>

\* A create whose answer was lost is made again: it adds a second row, and stored is from
\* then on the row the dialog works on.
PerformSave ==
    LET of == saveRequest.of
        new == [settings |-> saveRequest.next, accounts |-> << >>, data |-> None]
        result == IF of = None THEN <<new, "ok">> ELSE ToStored(of.settings, saveRequest.next)
    IN
    /\ saveRequest.phase = "sent"
    /\ \/ stored' = result[1]
          /\ saveRequest' = [saveRequest EXCEPT !.phase = "answered", !.answer = result[2]]
       \/ \* the request fails, or its answer is lost
          /\ stored' \in {stored, result[1]}
          /\ saveRequest' = [saveRequest EXCEPT !.phase = "answered", !.answer = "failed"]
    /\ UNCHANGED <<saved, draft, saving, discoveryForm, mappingForm, uses, others>>

\* onSaveFailed, and what a save brings; what was found under another identity goes.
SaveAnswered ==
    LET of == saveRequest.of
        ok == saveRequest.answer = "ok"
    IN
    /\ saveRequest.phase = "answered"
    /\ saving' = FALSE /\ saveRequest' = Idle
    /\ saved' = IF ~ok THEN saved
                ELSE [settings |-> saveRequest.next,
                      accounts |-> IF of = None THEN << >> ELSE of.accounts]
    /\ draft' = IF ok THEN [draft EXCEPT !.pin = FALSE] ELSE draft
    /\ discovery' = IF ok /\ of # None /\ of.settings.identity # saveRequest.next.identity
                    THEN None ELSE discovery
    /\ UNCHANGED <<stored, discovering, discoverRequest, mappingForm, uses, others>>

-----------------------------------------------------------------------------
(* The discovery. *)

discover ==
    /\ saved # None /\ ~discovering /\ ~dirty /\ ~Asking
    /\ uses < MaxUses /\ uses' = uses + 1
    /\ discovering' = TRUE
    /\ \E phase \in {"asking", "sent"} :
        discoverRequest' = [phase |-> phase, identity |-> None, answer |-> None]
    /\ UNCHANGED <<stored, settingsForm, discovery, mappingForm, others>>

AnswerPrompt ==
    /\ discoverRequest.phase = "asking"
    /\ \/ discovering' = FALSE /\ discoverRequest' = Idle
       \/ discovering' = discovering /\ discoverRequest' = [discoverRequest EXCEPT !.phase = "sent"]
    /\ UNCHANGED <<stored, settingsForm, discovery, mappingForm, uses, others>>

\* The run reads the row once, at its start, unless another run has the connection's lock.
BeginDiscovery ==
    /\ discoverRequest.phase = "sent"
    /\ \/ stored # None /\ discoverRequest' =
            [discoverRequest EXCEPT !.phase = "running", !.identity = stored.settings.identity]
       \/ discoverRequest' = [discoverRequest EXCEPT !.phase = "answered", !.answer = "failed"]
    /\ UNCHANGED <<stored, settingsForm, discovery, discovering, mappingForm, uses, others>>

\* saveBankingInformation looks at no column of the row.
StoreData == stored' = IF stored = None THEN None
                       ELSE [stored EXCEPT !.data = discoverRequest.identity]

FinishDiscovery ==
    /\ discoverRequest.phase = "running"
    /\ \/ /\ StoreData
          /\ discoverRequest' = [discoverRequest EXCEPT !.phase = "answered", 
                                                        !.answer = discoverRequest.identity]
       \/ /\ UNCHANGED stored
          /\ discoverRequest' = [discoverRequest EXCEPT !.phase = "answered", !.answer = "failed"]
       \/ /\ UNCHANGED stored   \* a challenge: the answer names the run, waitForTan
          /\ discoverRequest' = [discoverRequest EXCEPT !.phase = "waiting"]
    /\ UNCHANGED <<settingsForm, discovery, discovering, mappingForm, uses, others>>

\* awaitRun sees the run's end; after a success the result is read from the row.
TanAnswered ==
    /\ discoverRequest.phase = "waiting"
    /\ \/ StoreData /\ discoverRequest' = [discoverRequest EXCEPT !.phase = "reading"]
       \/ /\ UNCHANGED stored
          /\ discoverRequest' = [discoverRequest EXCEPT !.phase = "answered", !.answer = "failed"]
    /\ UNCHANGED <<settingsForm, discovery, discovering, mappingForm, uses, others>>

describeDiscovery ==
    /\ discoverRequest.phase = "reading"
    /\ discoverRequest' = [discoverRequest EXCEPT !.phase = "answered",
          !.answer = IF stored = None \/ stored.data = None THEN "failed" ELSE stored.data]
    /\ UNCHANGED <<stored, settingsForm, discovery, discovering, mappingForm, uses, others>>

\* applyDiscovery: rows, method and medium as they are saved, else as the bank suggests:
\* the method that the row has by now, or the bank's first.
applyDiscovery(found) ==
    /\ discovery' = found
    /\ rows' = mappingRowsOf(saved.accounts)
    /\ \E method \in IF saved.settings.tan.method # None THEN {saved.settings.tan.method}
                     ELSE offers(found) :
        LET chosen == IF method \in offers(found) THEN method ELSE None IN
        \E medium \in mediaFor(found, chosen, saved.settings.tan.medium) :
            tan' = [method |-> chosen, medium |-> medium]
    /\ mappingSaved' = FALSE

DiscoveryAnswered ==
    /\ discoverRequest.phase = "answered"
    /\ discovering' = FALSE /\ discoverRequest' = Idle
    /\ IF discoverRequest.answer = "failed"
       THEN UNCHANGED <<discovery, rows, tan, mappingSaved>>
       ELSE applyDiscovery(discoverRequest.answer)
    /\ UNCHANGED <<stored, settingsForm, mappingSaving, mapRequest, uses, others>>

-----------------------------------------------------------------------------
(* The mapping form. It is not disabled during a save. *)

Mapping == discovery # None /\ ~Asking

onMethod(m) ==
    /\ Mapping /\ m \in offers(discovery) /\ m # tan.method
    /\ \E medium \in mediaFor(discovery, m, tan.medium) : tan' = [method |-> m, medium |-> medium]
    /\ mappingSaved' = FALSE
    /\ UNCHANGED <<stored, settingsForm, discoveryForm, rows, mappingSaving, mapRequest, uses, others>>

\* The media select is there for a method that needs a medium, with the media it has.
onMedia(m) ==
    /\ Mapping /\ tan.method \in Required /\ m # tan.medium
    /\ m \in mediaOf(discovery, tan.method)
    /\ tan' = [tan EXCEPT !.medium = m]
    /\ mappingSaved' = FALSE
    /\ UNCHANGED <<stored, settingsForm, discoveryForm, rows, mappingSaving, mapRequest, uses, others>>

updateRow(a, k) ==
    /\ Mapping /\ rows[a] # k
    /\ rows' = [rows EXCEPT ![a] = k]
    /\ mappingSaved' = FALSE
    /\ UNCHANGED <<stored, settingsForm, discoveryForm, tan, mappingSaving, mapRequest, uses, others>>

canSaveMapping ==
    /\ tan.method \in offers(discovery)
    /\ tan.method \in Required => tan.medium # None
    /\ ~mappingSaving

saveMapping ==
    /\ Mapping /\ canSaveMapping
    /\ uses < MaxUses /\ uses' = uses + 1
    /\ mappingSaving' = TRUE
    /\ mapRequest' = [phase |-> "accounts", of |-> saved, accounts |-> mappingOf(rows),
                      next |-> [saved.settings EXCEPT !.tan = tan], answer |-> None]
    /\ UNCHANGED <<stored, settingsForm, discoveryForm, rows, tan, mappingSaved, others>>

Answered(answer) == mapRequest' = [mapRequest EXCEPT !.phase = "answered", !.answer = answer]

\* replaceBankConnectionAccounts, whatever the mapping was; a changed TAN choice comes next.
SaveAccounts ==
    LET next == IF stored = None THEN None ELSE [stored EXCEPT !.accounts = mapRequest.accounts] IN
    /\ mapRequest.phase = "accounts"
    /\ \/ /\ stored # None
          /\ stored' = next
          /\ IF mapRequest.next = mapRequest.of.settings THEN Answered("ok")
             ELSE mapRequest' = [mapRequest EXCEPT !.phase = "settings"]
       \/ stored' \in {stored, next} /\ Answered("failed")
    /\ UNCHANGED <<settingsForm, discoveryForm, rows, tan, mappingSaving, mappingSaved, uses, others>>

SaveTan ==
    LET result == ToStored(mapRequest.of.settings, mapRequest.next) IN
    /\ mapRequest.phase = "settings"
    /\ \/ stored' = result[1] /\ Answered(result[2])
       \/ stored' \in {stored, result[1]} /\ Answered("failed")
    /\ UNCHANGED <<settingsForm, discoveryForm, rows, tan, mappingSaving, mappingSaved, uses, others>>

\* The dialog takes over what it had when the save began, and the rows as they are now.
MappingAnswered ==
    LET ok == mapRequest.answer = "ok" IN
    /\ mapRequest.phase = "answered"
    /\ mappingSaving' = FALSE /\ mapRequest' = Idle
    /\ mappingSaved' = IF ok THEN TRUE ELSE mappingSaved
    /\ saved' = IF ok THEN [settings |-> mapRequest.next, accounts |-> mappingOf(rows)] ELSE saved
    /\ UNCHANGED <<stored, draft, saving, saveRequest, discoveryForm, rows, tan, uses, others>>

\* Another tab saves other settings or another mapping, or deletes the connection.
OtherTab ==
    /\ stored # None /\ others < MaxOthers /\ others' = others + 1
    /\ \/ \E i \in Identities, l \in Labels :
            stored' = ToStored(stored.settings, [stored.settings EXCEPT !.identity = i, !.label = l])[1]
       \/ \E m \in Mappings : stored' = [stored EXCEPT !.accounts = m]
       \/ discoverRequest.phase \notin {"running", "waiting"} /\ stored' = None
    /\ UNCHANGED <<settingsForm, discoveryForm, mappingForm, uses>>

Next ==
    \/ \E d \in Drafts : Edit(d)
    \/ saveConnection \/ CancelSave \/ EnterKey \/ PerformSave \/ SaveAnswered
    \/ discover \/ AnswerPrompt \/ BeginDiscovery \/ FinishDiscovery \/ TanAnswered
    \/ describeDiscovery \/ DiscoveryAnswered
    \/ \E m \in Methods : onMethod(m)
    \/ \E m \in Media : onMedia(m)
    \/ \E a \in Accounts, k \in Kontos \cup {None} : updateRow(a, k)
    \/ saveMapping \/ SaveAccounts \/ SaveTan \/ MappingAnswered
    \/ OtherTab

Spec == Init /\ [][Next]_vars

-----------------------------------------------------------------------------
(* Properties. *)

\* No lost edit: the settings of the row are only replaced by a save of the dialog that
\* was made from these very settings; the mapping form, which saves the whole settings
\* for one TAN choice, undoes nothing (updateBankConnection, saveMapping).
NoLostSettings ==
    [][stored # None /\ stored' # None /\ others' = others /\ stored'.settings # stored.settings =>
        \/ /\ saveRequest.phase = "sent"
           /\ saveRequest.of # None => saveRequest.of.settings = stored.settings
        \/ /\ mapRequest.phase = "settings" /\ mapRequest.of.settings = stored.settings
           /\ stored'.settings = [stored.settings EXCEPT !.tan = mapRequest.next.tan]]_stored

\* The TAN choice of the dialog is one of the bank's: a method the discovery it shows found,
\* with one of this method's media exactly if the method needs one and has any. So the choice
\* can be saved as it stands, unless the bank names no medium for a method that needs one:
\* then mediaFor has none to give and canSaveMapping stays false until another method is
\* chosen. And each busy sign has a request behind it, so that no error path leaves the form
\* locked (the callbacks of saveConnection, discover, waitForTan and saveMapping).
BankDialogSound ==
    /\ discovery # None /\ tan.method # None =>
        LET media == mediaOf(discovery, tan.method) IN
        /\ tan.method \in offers(discovery)
        /\ IF tan.method \in Required /\ media # {} THEN tan.medium \in media
           ELSE tan.medium = None
    /\ discovery # None => saved # None /\ rows # None
    /\ saving <=> saveRequest.phase # "idle"
    /\ discovering <=> discoverRequest.phase # "idle"
    /\ mappingSaving <=> mapRequest.phase # "idle"
=============================================================================
