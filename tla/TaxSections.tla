----------------------------- MODULE TaxSections -----------------------------
(* The tax sections and the tags that name them: hf_tax_section with the      *)
(* cascade to hf_category_tax_tag (repositories/tax-section.ts, tax-tag.ts,   *)
(* routes/tax-sections.ts), and in each browser tab TaxSectionsService,       *)
(* TaxTagsService and the dialog that edits the sections. Sections and tags   *)
(* are loaded by separate requests, by the page and by the dialog beside it   *)
(* while they are missing; the app-wide copies then follow the tab's own      *)
(* saves. A request of a dialog that is gone goes on beside the next one's.   *)
EXTENDS Integers, FiniteSets

CONSTANTS Tabs, Categories,
          Codes,      \* the codes a section may have, that of "not relevant" excepted
          Names,      \* stands for every field of a section but its code
          Lists,      \* what the tabs load: "sections", and "tags" where they matter
          Slots,      \* bound: so many requests of one tab's dialogs are on their way at a time
          None,
          MaxUses     \* bound: so many saves and removals, all tabs together

Empty == "empty"      \* an input left blank
\* What the values of the constants must be.
ConstantsFit ==
    /\ None \notin Codes \cup Names \cup Categories \cup Tabs
    /\ Empty \notin Codes \cup Names
    /\ \A S \in SUBSET [code : Codes, name : Names] : None # S   \* nor a list of sections
    /\ None \notin {"conflict", "in-use"}
    /\ Lists \subseteq {"sections", "tags"}
    /\ MaxUses \in Nat

VARIABLES stored,     \* the sections of the database: a name for each code
          tagged,     \* the code each category is tagged with, or None
          sections,   \* the sections each tab lists, as a set; None before they are loaded
          tags,       \* the tags each tab holds; None before they are loaded
          loads,      \* what each tab's page and dialog have asked for
          dialog,     \* the section dialog of each tab
          request,    \* each tab's requests on their way, of its dialog and of earlier ones
          unsure,     \* tabs whose list may miss a change: another tab's, or one of their own
                      \* whose answer was lost or meets another answer on its way
          uses

vars == <<stored, tagged, sections, tags, loads, dialog, request, unsure, uses>>

Drafts == [code : Codes \cup {Empty}, name : Names \cup {Empty}]
EmptyDraft == [code |-> Empty, name |-> Empty]
Section(code, name) == [code |-> code, name |-> name]

\* original: the section as it was opened; pending: what waits for the draft to be discarded.
Shut == [open |-> FALSE]
Collapsed == [open |-> TRUE, row |-> "none", original |-> EmptyDraft, draft |-> EmptyDraft,
              busy |-> FALSE, error |-> None, saved |-> FALSE, pending |-> "none"]
Idle == [phase |-> "idle"]
Asleep == [phase |-> "none", answer |-> None]

Requests == Tabs \X Slots
Phase(q) == request[q].phase
Actions == {"none", "new", "collapse", "close"} \cup Codes

\* What is loaded and by whom: the page and the dialog when they are made, and the tags once
\* more when a section turns out to be in use.
Loads == ({"page", "dialog"} \X Lists) \cup ({"again"} \X (Lists \cap {"tags"}))
Asked == [phase |-> "sent", answer |-> None]

TypeOK ==
    /\ DOMAIN stored \subseteq Codes /\ \A c \in DOMAIN stored : stored[c] \in Names
    /\ tagged \in [Categories -> Codes \cup {None}]
    /\ uses \in 0..MaxUses /\ unsure \subseteq Tabs
    /\ \A t \in Tabs :
        /\ sections[t] = None \/ sections[t] \subseteq [code : Codes, name : Names]
        /\ tags[t] = None \/ tags[t] \in [Categories -> Codes \cup {None}]
        /\ \A l \in Loads : loads[t][l].phase \in {"none", "sent", "answered", "failed"}
        /\ \A s \in Slots : Phase(<<t, s>>) \in {"idle", "sent", "answered"}
        /\ dialog[t].open =>
            /\ dialog[t].row \in {"none", "new", "existing"}
            /\ dialog[t].draft \in Drafts /\ dialog[t].original \in Drafts
            /\ dialog[t].error \in {None, "conflict", "duplicate", "in-use", "generic"}
            /\ dialog[t].pending \in Actions

\* The page with the dialog is open and has asked for both.
OfPage == [l \in Loads |-> IF l[1] = "page" THEN Asked ELSE Asleep]

Init ==
    /\ \E c \in Codes, n \in Names : stored = [code \in {c} |-> n]
    /\ tagged \in [Categories -> DOMAIN stored]
    /\ sections = [t \in Tabs |-> None]
    /\ tags = [t \in Tabs |-> None]
    /\ loads = [t \in Tabs |-> OfPage]
    /\ dialog = [t \in Tabs |-> Shut]
    /\ request = [q \in Requests |-> Idle]
    /\ unsure = Tabs
    /\ uses = 0

-----------------------------------------------------------------------------
(* Loading. The page and the dialog ask for what the tab does not hold yet. *)

Missing(t) == {what \in Lists :
    IF what = "tags" THEN tags[t] = None ELSE sections[t] = None}

ListOf(held) == {Section(c, held[c]) : c \in DOMAIN held}
Answered(t, l) == l[2] = "sections" /\ loads[t][l].phase = "answered"

\* An answer about the sections is on its way to the tab.
Coming(t) ==
    \/ \E l \in Loads : Answered(t, l)
    \/ \E s \in Slots : Phase(<<t, s>>) = "answered" /\ request[<<t, s>>].answer = "ok"
ReadBy(t) == IF Coming(t) THEN unsure \cup {t} ELSE unsure \ {t}

\* The server reads the one or the other.
AnswerLoad(t, l) ==
    /\ loads[t][l].phase = "sent"
    /\ loads' = [loads EXCEPT ![t][l] = [phase |-> "answered",
          answer |-> IF l[2] = "tags" THEN tagged ELSE ListOf(stored)]]
    /\ unsure' = IF l[2] = "sections" THEN ReadBy(t) ELSE unsure
    /\ UNCHANGED <<stored, tagged, sections, tags, dialog, request, uses>>

ReceiveLoad(t, l) ==
    /\ loads[t][l].phase = "answered"
    /\ IF l[2] = "tags" THEN /\ tags' = [tags EXCEPT ![t] = loads[t][l].answer]
                             /\ UNCHANGED sections
       ELSE /\ sections' = [sections EXCEPT ![t] = loads[t][l].answer]
            /\ UNCHANGED tags
    /\ loads' = [loads EXCEPT ![t][l] = Asleep]
    /\ UNCHANGED <<stored, tagged, dialog, request, unsure, uses>>

\* A load fails: nothing is set, and the dialog remembers that it has no list (loadError).
FailLoad(t, l) ==
    /\ loads[t][l].phase \in {"sent", "answered"}
    /\ loads' = [loads EXCEPT ![t][l] =
          IF l = <<"dialog", "sections">> THEN [Asleep EXCEPT !.phase = "failed"] ELSE Asleep]
    /\ unsure' = IF Answered(t, l) THEN unsure \cup {t} ELSE unsure
    /\ UNCHANGED <<stored, tagged, sections, tags, dialog, request, uses>>

\* The loads of who goes away are dropped.
Without(t, who) ==
    /\ loads' = [loads EXCEPT ![t] = [l \in Loads |-> IF l[1] \in who THEN Asleep ELSE @[l]]]
    /\ unsure' = IF \E l \in Loads : l[1] \in who /\ Answered(t, l) THEN unsure \cup {t} ELSE unsure

\* The page is left and opened again: its dialog is closed, what both still load is dropped,
\* and the new page asks for what is missing. A request of the dialog goes on and reaches the
\* app-wide services.
ChangePage(t) ==
    /\ dialog' = [dialog EXCEPT ![t] = Shut]
    /\ loads' = [loads EXCEPT ![t] = [l \in Loads |->
          IF l[1] = "page" /\ l[2] \in Missing(t) THEN Asked ELSE Asleep]]
    /\ unsure' = IF \E l \in Loads : Answered(t, l) THEN unsure \cup {t} ELSE unsure
    /\ request' = [q \in Requests |-> IF q[1] = t /\ Phase(q) # "idle"
                                      THEN [request[q] EXCEPT !.orphan = TRUE] ELSE request[q]]
    /\ UNCHANGED <<stored, tagged, sections, tags, uses>>

-----------------------------------------------------------------------------
(* The dialog. *)

dirty(d) == d.row # "none" /\ d.draft # d.original

\* The dialog's constructor asks for what is missing, whatever the page is still loading.
OpenDialog(t) ==
    /\ ~dialog[t].open
    /\ dialog' = [dialog EXCEPT ![t] = Collapsed]
    /\ loads' = [loads EXCEPT ![t] = [l \in Loads |->
          IF l[1] = "dialog" /\ l[2] \in Missing(t) THEN Asked ELSE @[l]]]
    /\ UNCHANGED <<stored, tagged, sections, tags, request, unsure, uses>>

Existing(section) ==
    [Collapsed EXCEPT !.row = "existing", !.original = section, !.draft = section]

CodesOf(list) == {section.code : section \in list}

\* The list is shown unless the dialog's own load failed; the open row is one of the list's
\* or the new one.
loadError(t) == \E l \in Loads : loads[t][l].phase = "failed"
Ready(t) == dialog[t].open /\ ~dialog[t].busy
Listing(t) == Ready(t) /\ sections[t] # None /\ ~loadError(t)
Editing(t) ==
    /\ Listing(t) /\ dialog[t].row # "none"
    /\ dialog[t].row = "existing" => dialog[t].original.code \in CodesOf(sections[t])

Only(t, d) ==
    /\ dialog' = [dialog EXCEPT ![t] = d]
    /\ UNCHANGED <<stored, tagged, sections, tags, loads, request, unsure, uses>>

\* perform: what a click does once no draft is in its way. A section that is no longer listed
\* cannot be opened: that throws, and only the question is gone.
perform(t, action) ==
    CASE action = "new" -> Only(t, [Collapsed EXCEPT !.row = "new"])
      [] action = "collapse" -> Only(t, Collapsed)
      [] action = "close" ->
           /\ dialog' = [dialog EXCEPT ![t] = Shut]
           /\ Without(t, {"dialog", "again"})
           /\ UNCHANGED <<stored, tagged, sections, tags, request, uses>>
      [] OTHER ->
           \/ \E section \in sections[t] : section.code = action /\ Only(t, Existing(section))
           \/ action \notin CodesOf(sections[t]) /\ Only(t, [dialog[t] EXCEPT !.pending = "none"])

\* A click on a row, on "new" or on "close": an unsaved draft asks first.
Click(t, action) ==
    /\ Ready(t)
    /\ CASE action = "new" -> sections[t] # None /\ dialog[t].pending = "none"
         [] action = "collapse" -> Editing(t)
         [] action = "close" -> TRUE
         [] OTHER -> /\ Listing(t) /\ action \in CodesOf(sections[t])
                     /\ ~(dialog[t].row = "existing" /\ dialog[t].original.code = action)
    /\ IF dirty(dialog[t]) THEN Only(t, [dialog[t] EXCEPT !.pending = action])
       ELSE perform(t, action)

confirmDiscard(t) ==
    /\ Ready(t) /\ dialog[t].pending # "none"
    /\ perform(t, dialog[t].pending)

keepEditing(t) ==
    /\ Ready(t) /\ dialog[t].pending # "none"
    /\ Only(t, [dialog[t] EXCEPT !.pending = "none"])

\* The dialog's own cancel button, and "discard" in the row of a new section.
cancel(t) == Editing(t) /\ Only(t, Collapsed)

onInput(t, field, value) ==
    /\ Editing(t)
    /\ dialog[t].draft[field] # value
    /\ Only(t, [dialog[t] EXCEPT !.draft[field] = value, !.saved = FALSE,
                  !.error = IF @ = "conflict" THEN @ ELSE None])

\* codeProblem and canSave.
ownCode(d) == IF d.row = "existing" THEN {d.original.code} ELSE {}
CodeAccepted(t, d) ==
    /\ d.draft.code # Empty
    /\ d.draft.code \notin CodesOf(sections[t]) \ ownCode(d)
    /\ d.error = "duplicate" => d.draft.code \in ownCode(d)
canSave(t) ==
    /\ Editing(t) /\ dirty(dialog[t])
    /\ CodeAccepted(t, dialog[t])
    /\ dialog[t].draft.name # Empty
    /\ dialog[t].error # "conflict"

\* run: one request of the dialog at a time, the error and the question are gone. What an
\* earlier dialog of the tab has sent does not keep it.
run(t, kind) ==
    /\ dialog' = [dialog EXCEPT ![t].busy = TRUE, ![t].error = None, ![t].pending = "none"]
    /\ \E s \in Slots :
        /\ Phase(<<t, s>>) = "idle"
        /\ request' = [request EXCEPT ![<<t, s>>] =
              [phase |-> "sent", kind |-> kind, expected |-> dialog[t].original,
               next |-> dialog[t].draft, answer |-> None, fresh |-> {}, orphan |-> FALSE]]
    /\ UNCHANGED <<stored, tagged, sections, tags, loads, unsure>>

Used == uses < MaxUses /\ uses' = uses + 1
save(t) == canSave(t) /\ run(t, IF dialog[t].row = "new" THEN "create" ELSE "update") /\ Used
remove(t) == Editing(t) /\ dialog[t].row = "existing" /\ run(t, "delete") /\ Used
loadLatest(t) ==
    Editing(t) /\ dialog[t].error = "conflict" /\ run(t, "load") /\ UNCHANGED uses

-----------------------------------------------------------------------------
(* The server. Every request is one statement; the foreign key of the tags    *)
(* cascades a changed code and keeps a section that is in use.                *)

Answer(q, answer) ==
    request' = [request EXCEPT ![q].phase = "answered", ![q].answer = answer]

Refuse(q, answer) ==
    /\ Answer(q, answer)
    /\ UNCHANGED <<stored, tagged, unsure>>

Store(q, newStored, newTagged) ==
    /\ stored' = newStored /\ tagged' = newTagged
    /\ unsure' = unsure \cup (Tabs \ {q[1]}) \cup (IF Coming(q[1]) THEN {q[1]} ELSE {})
    /\ Answer(q, "ok")

Holds(section) == section.code \in DOMAIN stored /\ stored[section.code] = section.name
Others(section) == [c \in DOMAIN stored \ {section.code} |-> stored[c]]
With(held, section) ==
    [c \in DOMAIN held \cup {section.code} |-> IF c = section.code THEN section.name ELSE held[c]]
Renamed(held, from, to) ==
    [cat \in DOMAIN held |-> IF held[cat] = from THEN to ELSE held[cat]]

createTaxSection(q) ==
    LET next == request[q].next IN
    IF next.code \in DOMAIN stored THEN Refuse(q, "duplicate")
    ELSE Store(q, With(stored, next), tagged)

updateTaxSection(q) ==
    LET next == request[q].next
        expected == request[q].expected
    IN  IF ~Holds(expected) THEN Refuse(q, "conflict")
        ELSE IF next.code \in DOMAIN Others(expected) THEN Refuse(q, "duplicate")
        ELSE Store(q, With(Others(expected), next), Renamed(tagged, expected.code, next.code))

deleteTaxSection(q) ==
    LET code == request[q].expected.code IN
    IF code \notin DOMAIN stored THEN Refuse(q, "not-found")
    ELSE IF \E cat \in Categories : tagged[cat] = code THEN Refuse(q, "in-use")
    ELSE Store(q, Others(request[q].expected), tagged)

listTaxSections(q) ==
    /\ request' = [request EXCEPT ![q].phase = "answered", ![q].answer = "ok",
                                  ![q].fresh = ListOf(stored)]
    /\ unsure' = ReadBy(q[1])
    /\ UNCHANGED <<stored, tagged>>

Serve(q) ==
    /\ Phase(q) = "sent"
    /\ CASE request[q].kind = "create" -> createTaxSection(q)
         [] request[q].kind = "update" -> updateTaxSection(q)
         [] request[q].kind = "delete" -> deleteTaxSection(q)
         [] request[q].kind = "load" -> listTaxSections(q)
    /\ UNCHANGED <<sections, tags, loads, dialog, uses>>

\* The request fails, or its answer is lost after it took place.
FailRequest(q) ==
    /\ Phase(q) = "sent" \/ (Phase(q) = "answered" /\ request[q].answer = "ok")
    /\ Answer(q, "error")
    /\ unsure' = IF Phase(q) = "answered" THEN unsure \cup {q[1]} ELSE unsure
    /\ UNCHANGED <<stored, tagged, sections, tags, loads, dialog, uses>>

\* A tab outside the model creates, changes or deletes a section.
OtherTab(code, next) ==
    /\ Used
    /\ \/ /\ next.code \notin DOMAIN stored
          /\ stored' = With(stored, next) /\ UNCHANGED tagged
       \/ LET old == Section(code, stored[code]) IN
          /\ next # old /\ next.code \notin DOMAIN Others(old)
          /\ stored' = With(Others(old), next)
          /\ tagged' = Renamed(tagged, code, next.code)
       \/ /\ \A cat \in Categories : tagged[cat] # code
          /\ stored' = Others(Section(code, stored[code])) /\ UNCHANGED tagged
    /\ unsure' = Tabs
    /\ UNCHANGED <<sections, tags, loads, dialog, request>>

\* A category dialog of another tab saves a tag.
TagCategory(cat, code) ==
    /\ Used
    /\ tagged[cat] # code
    /\ tagged' = [tagged EXCEPT ![cat] = code]
    /\ UNCHANGED <<stored, sections, tags, loads, dialog, request, unsure>>

-----------------------------------------------------------------------------
(* The answer reaches the tab: the app-wide services first, then the dialog. *)

\* TaxSectionsService's own part; an update of a section that is not loaded throws.
Applies(q) ==
    /\ request[q].answer = "ok"
    /\ request[q].kind = "update" => request[q].expected.code \in CodesOf(sections[q[1]])

Applied(q) ==
    LET r == request[q]
        held == sections[q[1]]
    IN  CASE r.kind = "create" -> held \cup {r.next}
          [] r.kind = "update" -> {IF section.code = r.expected.code THEN r.next ELSE section :
                                   section \in held}
          [] r.kind = "delete" -> {section \in held : section.code # r.expected.code}
          [] r.kind = "load" -> r.fresh

\* renameCode: tags that are not loaded have nothing to follow.
FollowedTags(q) ==
    LET r == request[q]
        held == tags[q[1]]
    IN  IF r.kind = "update" /\ held # None THEN Renamed(held, r.expected.code, r.next.code)
        ELSE held

\* What the dialog does on success: the row it may be left with.
Done(q) ==
    LET r == request[q]
        found == {section \in r.fresh : section.code = r.expected.code}
    IN  CASE r.kind \in {"create", "update"} -> {[Existing(r.next) EXCEPT !.saved = TRUE]}
          [] r.kind = "delete" -> {Collapsed}
          [] r.kind = "load" -> IF found = {} THEN {Collapsed} ELSE {Existing(f) : f \in found}

toTaxSectionRowError(answer) ==
    IF answer \in {"conflict", "in-use", "duplicate"} THEN answer ELSE "generic"

\* A section that is in use makes the dialog read the tags again (a second time while the
\* first is on its way counts as one).
NotDone(q) ==
    /\ dialog' = [dialog EXCEPT ![q[1]].busy = FALSE,
                                ![q[1]].error = toTaxSectionRowError(request[q].answer)]
    /\ loads' = [loads EXCEPT ![q[1]] = [l \in Loads |->
          IF l[1] = "again" /\ request[q].answer = "in-use" THEN Asked ELSE @[l]]]

ReceiveAnswer(q) ==
    LET t == q[1] IN
    /\ Phase(q) = "answered"
    /\ IF Applies(q)
       THEN /\ sections' = [sections EXCEPT ![t] = Applied(q)]
            /\ tags' = [tags EXCEPT ![t] = FollowedTags(q)]
       ELSE UNCHANGED <<sections, tags>>
    /\ IF request[q].orphan THEN UNCHANGED <<dialog, loads>>
       ELSE IF Applies(q)
       THEN /\ \E d \in Done(q) : dialog' = [dialog EXCEPT ![t] = d]
            /\ UNCHANGED loads
       ELSE NotDone(q)
    /\ request' = [request EXCEPT ![q] = Idle]
    /\ UNCHANGED <<stored, tagged, unsure, uses>>

TabStep(t) ==
    \/ \E l \in Loads : AnswerLoad(t, l) \/ ReceiveLoad(t, l) \/ FailLoad(t, l)
    \/ ChangePage(t)
    \/ OpenDialog(t)
    \/ \E action \in Actions \ {"none"} : Click(t, action)
    \/ confirmDiscard(t)
    \/ keepEditing(t)
    \/ cancel(t)
    \/ \E code \in Codes \cup {Empty} : onInput(t, "code", code)
    \/ \E name \in Names \cup {Empty} : onInput(t, "name", name)
    \/ save(t)
    \/ remove(t)
    \/ loadLatest(t)

ServerStep(q) == Serve(q) \/ FailRequest(q) \/ ReceiveAnswer(q)

Next ==
    \/ \E t \in Tabs : TabStep(t)
    \/ \E q \in Requests : ServerStep(q)
    \/ \E cat \in Categories, code \in DOMAIN stored : TagCategory(cat, code)
    \/ \E code \in DOMAIN stored, next \in [code : Codes, name : Names] : OtherTab(code, next)

Spec == Init /\ [][Next]_vars

\* Nobody but the tabs changes anything, and every request is answered; with a single tab
\* its own changes are all there are.
TabsAlone ==
    Init /\ [][\/ \E t \in Tabs : TabStep(t)
              \/ \E q \in Requests : ServerStep(q) /\ ~FailRequest(q)]_vars

-----------------------------------------------------------------------------
(* Properties. *)

\* A tab that read the sections after the last change of any other tab shows the sections as
\* they are stored once what it was sent has arrived: its own creations, renamings and
\* removals change the list exactly as the database changed, also those of a dialog that is
\* gone (TaxSectionsService). That is so while its answers come one by one. Two answers about
\* the sections that are on their way together, those of the page's and the dialog's loads or
\* of two dialogs' requests, may come in the other order, and the older one is then shown
\* until the next load (unsure).
SectionsFit ==
    \A t \in Tabs \ unsure :
        ~Coming(t) /\ sections[t] # None => sections[t] = ListOf(stored)

\* What the dialog's handlers rely on holds: a conflict and a section in use have the stored
\* section they are about (loadLatest, errorText), a busy dialog has one request that will end
\* it and asks no question, and "saved" is never shown over a draft that is not, whatever
\* earlier dialogs still have on their way.
DialogSound ==
    \A t \in Tabs :
        LET d == dialog[t]
            own == {s \in Slots : Phase(<<t, s>>) # "idle" /\ ~request[<<t, s>>].orphan}
        IN
        /\ \A s, u \in own : s = u
        /\ own # {} => d.open /\ d.busy
        /\ d.open =>
            /\ d.error \in {"conflict", "in-use"} => d.row = "existing"
            /\ d.busy => own # {} /\ d.pending = "none"
            /\ d.saved => d.row = "existing" /\ ~dirty(d)
            /\ d.row = "new" => d.original = EmptyDraft

\* Once a tab has everything it asked for, every code its tags name is one of the sections
\* it holds: a renamed code is carried over to the tags, and tags that are not loaded yet
\* come with the new code (TaxTagsService.renameCode); effectiveTaxSection throws on any
\* other code.
TagsResolve ==
    \A t \in Tabs :
        /\ sections[t] # None /\ tags[t] # None
        /\ \A s \in Slots : Phase(<<t, s>>) = "idle"
        /\ \A l \in Loads : loads[t][l].phase = "none"
        => \A cat \in Categories : tags[t][cat] \in CodesOf(sections[t]) \cup {None}

\* A new row has its editor on the screen: its code input is given the focus (perform, which
\* throws when there is none).
CodeInputShown ==
    \A t \in Tabs : dialog[t].open /\ dialog[t].row = "new" /\ ~dialog[t].busy => Editing(t)
=============================================================================
