---------------------------- MODULE CategoryEdits ----------------------------
(* The category tree with its tax tags: the tables umsatztyp and              *)
(* hf_category_tax_tag (repositories/umsatztyp.ts, tax-tag.ts,                *)
(* routes/categories.ts) and the browser tabs that show and edit them         *)
(* (CategoriesStore, the category dialog, TaxTagsService). Two saves at a     *)
(* time may each be fine and form a cycle together. A save goes on when its   *)
(* page is left, beside the next dialog's; page and dialog load the tags side *)
(* by side.                                                                   *)
EXTENDS Integers, FiniteSets, Functions

CONSTANTS Tabs,       \* the browser tabs that show the categories
          Ids,        \* the ids the table may give out, in this order
          First,      \* the ids of the categories there are from the start
          Names,      \* stands for every field of a category but its parent
          Codes,      \* the codes of the tax sections
          Slots,      \* bound: so many saves of one tab's dialogs are on their way at a time
          None,
          Unknown,    \* the opened tag before the tags are loaded
          MaxUses     \* bound: so many saves, all tabs together

\* What the values of the constants must be.
ConstantsFit ==
    /\ Ids \subseteq Nat \ {0}
    /\ IsFiniteSet(Ids)
    /\ First \subseteq Ids
    /\ Names # {}
    /\ None \notin (Tabs \X Slots) \cup Ids \cup Names \cup Codes
    /\ \A S \in SUBSET Ids : None \notin [S -> Codes \cup {None}]   \* nor a list of tags
    /\ Unknown # None
    /\ MaxUses \in Nat

VARIABLES tree,       \* the categories of the database, by id
          tags,       \* the tax tag of each category of the database, or None
          lock,       \* the save whose transaction read the tree FOR UPDATE
          shown,      \* the categories as each tab's store holds them
          knownTags,  \* the tags each tab's TaxTagsService holds; None before
          outdated,   \* the ids whose category changed after the tab read or saved it
          outdatedTags, \* those whose tag changed after what the tab was last told of it
          tagLoads,   \* the tags each tab's page and dialog have asked for
          dialog,     \* the category dialog of each tab
          request,    \* each tab's saves on their way, of its dialog and of earlier ones
          uses

screen == <<shown, knownTags, outdated, outdatedTags, tagLoads, dialog>>
vars == <<tree, tags, lock, screen, request, uses>>

Parents == Ids \cup {None}
Fields == [name : Names, parent : Parents]
Tag == Codes \cup {None}

\* NEW_CATEGORY_ID stands for the id of a category that is not stored.
New == 0
Closed == [kind |-> "closed", id |-> New, opened |-> None, openedTag |-> Unknown,
           saving |-> FALSE, error |-> None]
Idle == [phase |-> "idle"]

\* A save is named by its tab and its slot.
Saves == Tabs \X Slots
Phase(q) == request[q].phase
Sent(q, kind) == Phase(q) = "sent" /\ request[q].kind = kind

\* changed: the ids whose tag changed after the server read the tags.
Owners == {"page", "dialog"}
Asleep == [phase |-> "none", answer |-> << >>, changed |-> {}]
Asked == [Asleep EXCEPT !.phase = "sent"]

TypeOK ==
    /\ DOMAIN tree \subseteq Ids /\ \A id \in DOMAIN tree : tree[id] \in Fields
    /\ tags \in [DOMAIN tree -> Tag]
    /\ lock \in Saves \cup {None}
    /\ uses \in 0..MaxUses
    /\ \A t \in Tabs :
        /\ DOMAIN shown[t] \subseteq DOMAIN tree
        /\ outdated[t] \cup outdatedTags[t] \subseteq Ids
        /\ knownTags[t] = None \/ DOMAIN knownTags[t] \subseteq DOMAIN tree
        /\ \A who \in Owners : tagLoads[t][who].phase \in {"none", "sent", "answered"}
        /\ dialog[t].kind \in {"closed", "create", "edit"}
        /\ dialog[t].openedTag \in Tag \cup {Unknown}
        /\ dialog[t].error \in {None, "conflict", "cycle", "generic"}
    /\ \A q \in Saves : Phase(q) \in {"idle", "sent", "checking", "answered"}

-----------------------------------------------------------------------------
(* Trees by parent ids. *)

\* descendantIds: the category and everything below it. One round per category is enough.
Grow(cats, found) == found \cup {id \in DOMAIN cats : cats[id].parent \in found}
descendantIds(cats, root) ==
    LET round[n \in 0..Cardinality(Ids)] ==
            IF n = 0 THEN {root} ELSE Grow(cats, round[n - 1])
    IN  round[Cardinality(Ids)]

\* createsCycle: the chain of parents from parent on meets id. A parent that is gone ends it.
createsCycle(id, parent, parents) ==
    LET up(p) == IF p \in DOMAIN parents THEN parents[p] ELSE None
        chain[n \in 0..Cardinality(Ids)] == IF n = 0 THEN parent ELSE up(chain[n - 1])
    IN  \E n \in 0..Cardinality(Ids) : chain[n] = id

\* The loads of a new page, and of one whose dialog closes.
Asking(who) == [o \in Owners |-> IF o \in who THEN Asked ELSE Asleep]
DialogGone(t) == [tagLoads EXCEPT ![t]["dialog"] = Asleep]

parentsOf(cats) == [id \in DOMAIN cats |-> cats[id].parent]
TagOf(known, id) == IF id \in DOMAIN known THEN known[id] ELSE None

Init ==
    /\ tree = [id \in First |-> [name |-> CHOOSE n \in Names : TRUE, parent |-> None]]
    /\ tags = [id \in First |-> None]
    /\ lock = None
    /\ shown = [t \in Tabs |-> tree]
    /\ knownTags = [t \in Tabs |-> None]
    /\ outdated = [t \in Tabs |-> {}]
    /\ outdatedTags = [t \in Tabs |-> {}]
    /\ tagLoads \in [Tabs -> {Asking({}), Asking({"page"})}]
    /\ dialog = [t \in Tabs |-> Closed]
    /\ request = [q \in Saves |-> Idle]
    /\ uses = 0

-----------------------------------------------------------------------------
(* The page and the tags. *)

\* The page is left and one with a category dialog is opened: a new store reads the list, the
\* dialog and the loads go with the old page. The tags are app-wide and stay; while there are
\* none, the categories page asks for them and the transactions page does not.
ChangePage(t) ==
    /\ shown' = [shown EXCEPT ![t] = tree]
    /\ outdated' = [outdated EXCEPT ![t] = {}]
    /\ dialog' = [dialog EXCEPT ![t] = Closed]
    /\ \E who \in {{}} \cup (IF knownTags[t] = None THEN {{"page"}} ELSE {}) :
          tagLoads' = [tagLoads EXCEPT ![t] = Asking(who)]
    /\ request' = [q \in Saves |-> IF q[1] = t /\ Phase(q) # "idle"
                                   THEN [request[q] EXCEPT !.orphan = TRUE] ELSE request[q]]
    /\ UNCHANGED <<tree, tags, lock, knownTags, outdatedTags, uses>>

\* TaxTagsService.load: the server reads the tags ...
AnswerTags(t, who) ==
    /\ tagLoads[t][who].phase = "sent"
    /\ tagLoads' = [tagLoads EXCEPT ![t][who] = [phase |-> "answered", answer |-> tags, changed |-> {}]]
    /\ UNCHANGED <<tree, tags, lock, shown, knownTags, outdated, outdatedTags, dialog, request, uses>>

\* ... and they replace what the tab holds. The first tags an open dialog sees are the ones
\* it expects.
ReceiveTags(t, who) ==
    LET load == tagLoads[t][who] IN
    /\ load.phase = "answered"
    /\ knownTags' = [knownTags EXCEPT ![t] = load.answer]
    /\ outdatedTags' = [outdatedTags EXCEPT ![t] = load.changed]
    /\ tagLoads' = [tagLoads EXCEPT ![t][who] = Asleep]
    /\ dialog' = [dialog EXCEPT ![t] =
          IF @.kind # "closed" /\ @.openedTag = Unknown
          THEN [@ EXCEPT !.openedTag = TagOf(load.answer, dialog[t].id)] ELSE @]
    /\ UNCHANGED <<tree, tags, lock, shown, outdated, request, uses>>

\* A load fails; neither the page nor the dialog asks again.
FailTags(t, who) ==
    /\ tagLoads[t][who].phase # "none"
    /\ tagLoads' = [tagLoads EXCEPT ![t][who] = Asleep]
    /\ UNCHANGED <<tree, tags, lock, shown, knownTags, outdated, outdatedTags, dialog, request, uses>>

-----------------------------------------------------------------------------
(* The dialog. *)

\* Its constructor asks for tags that are missing, beside the page.
OpenDialog(t, kind, id) ==
    /\ dialog[t] = Closed
    /\ dialog' = [dialog EXCEPT ![t] =
          [Closed EXCEPT !.kind = kind, !.id = id,
             !.opened = IF kind = "edit" THEN shown[t][id] ELSE None,
             !.openedTag = IF knownTags[t] = None THEN Unknown ELSE TagOf(knownTags[t], id)]]
    /\ tagLoads' = IF knownTags[t] = None THEN [tagLoads EXCEPT ![t]["dialog"] = Asked] ELSE tagLoads
    /\ UNCHANGED <<tree, tags, lock, shown, knownTags, outdated, outdatedTags, request, uses>>

openCreate(t) == OpenDialog(t, "create", New)
openEdit(t, id) == id \in DOMAIN shown[t] /\ OpenDialog(t, "edit", id)

Cancel(t) ==
    /\ dialog[t].kind # "closed" /\ ~dialog[t].saving
    /\ dialog' = [dialog EXCEPT ![t] = Closed]
    /\ tagLoads' = DialogGone(t)
    /\ UNCHANGED <<tree, tags, lock, shown, knownTags, outdated, outdatedTags, request, uses>>

\* What the parent picker offers, and the parent the category has.
parentCandidates(t) ==
    IF dialog[t].kind = "create" THEN DOMAIN shown[t]
    ELSE DOMAIN shown[t] \ descendantIds(shown[t], dialog[t].id)
Choices(t) ==
    parentCandidates(t) \cup {None}
        \cup (IF dialog[t].kind = "edit" THEN {dialog[t].opened.parent} ELSE {})

canSave(t, draft, nextTag) ==
    /\ dialog[t].kind = "edit" =>
          draft # dialog[t].opened \/ nextTag # dialog[t].openedTag
    /\ ~dialog[t].saving /\ dialog[t].openedTag # Unknown
    /\ dialog[t].error # "conflict"

\* The save names the row as it was opened and the tag as it was first seen. Only the
\* dialog's own save keeps it from another, not one that a left page has on its way.
save(t, draft, nextTag) ==
    /\ dialog[t].kind # "closed"
    /\ draft.parent \in Choices(t) /\ canSave(t, draft, nextTag)
    /\ uses < MaxUses /\ uses' = uses + 1
    /\ dialog' = [dialog EXCEPT ![t].saving = TRUE, ![t].error = None]
    /\ \E s \in Slots :
        /\ Phase(<<t, s>>) = "idle"
        /\ request' = [request EXCEPT ![<<t, s>>] =
              [phase |-> "sent", kind |-> dialog[t].kind, id |-> dialog[t].id,
               expected |-> dialog[t].opened, next |-> draft,
               tag |-> [expected |-> dialog[t].openedTag, next |-> nextTag],
               parents |-> << >>, answer |-> None, newest |-> FALSE, orphan |-> FALSE]]
    /\ UNCHANGED <<tree, tags, lock, shown, knownTags, outdated, outdatedTags, tagLoads>>

-----------------------------------------------------------------------------
(* The server. *)

\* What a change of a category and its tag does to what the tabs know, to the tags on their
\* way to them, and to a save of the category that is not yet answered.
Changed(q, id, next, tag) ==
    /\ tree' = [i \in DOMAIN tree \cup {id} |-> IF i = id THEN next ELSE tree[i]]
    /\ tags' = [i \in DOMAIN tree \cup {id} |-> IF i = id THEN tag ELSE tags[i]]
    /\ outdated' = [u \in Tabs |-> outdated[u] \cup {id}]
    /\ outdatedTags' = [u \in Tabs |-> outdatedTags[u] \cup {id}]
    /\ tagLoads' = [u \in Tabs |-> [who \in Owners |->
          IF tagLoads[u][who].phase = "answered" THEN [tagLoads[u][who] EXCEPT !.changed = @ \cup {id}]
          ELSE tagLoads[u][who]]]
    /\ request' = [p \in Saves |->
          IF p = q THEN [request[p] EXCEPT !.phase = "answered", !.answer = "ok",
                                           !.id = id, !.newest = TRUE]
          ELSE IF Phase(p) = "answered" /\ request[p].id = id
          THEN [request[p] EXCEPT !.newest = FALSE]
          ELSE request[p]]

Refuse(q, answer) ==
    /\ request' = [request EXCEPT ![q].phase = "answered", ![q].answer = answer]
    /\ UNCHANGED <<tree, tags, outdated, outdatedTags, tagLoads>>

NextId(ids) == CHOOSE id \in ids : \A i \in ids : id <= i

\* The insert of the category and of its tag, one transaction. It waits for the locked tree.
createCategory(q) ==
    /\ Sent(q, "create") /\ lock = None
    /\ Ids # DOMAIN tree
    /\ Changed(q, NextId(Ids \ DOMAIN tree), request[q].next, request[q].tag.next)
    /\ UNCHANGED <<lock, shown, knownTags, dialog, uses>>

\* Mutant: the tree is read without FOR UPDATE.
ReadTree(q) ==
    /\ Sent(q, "edit") /\ lock = None
    /\ request' = [request EXCEPT ![q].phase = "checking", ![q].parents = parentsOf(tree)]
    /\ UNCHANGED <<tree, tags, lock, screen, uses>>

\* updateCategory reads the whole tree FOR UPDATE ...
LockTree(q) ==
    /\ Sent(q, "edit") /\ lock = None
    /\ lock' = q
    /\ request' = [request EXCEPT ![q].phase = "checking", ![q].parents = parentsOf(tree)]
    /\ UNCHANGED <<tree, tags, screen, uses>>

\* ... and checks and writes the category and its tag.
UpdateCategory(q) ==
    LET r == request[q] IN
    /\ Phase(q) = "checking"
    /\ IF r.id \notin DOMAIN r.parents THEN Refuse(q, "not-found")
       ELSE IF createsCycle(r.id, r.next.parent, r.parents) THEN Refuse(q, "cycle")
       ELSE IF tree[r.id] # r.expected \/ TagOf(tags, r.id) # r.tag.expected
       THEN Refuse(q, "conflict")
       ELSE Changed(q, r.id, r.next, r.tag.next)
    /\ lock' = None
    /\ UNCHANGED <<shown, knownTags, dialog, uses>>

\* The transaction fails and is rolled back.
FailRequest(q) ==
    /\ Phase(q) \in {"sent", "checking"}
    /\ Refuse(q, "error")
    /\ lock' = IF lock = q THEN None ELSE lock
    /\ UNCHANGED <<shown, knownTags, dialog, uses>>

\* The change took place and the tab does not hear of it.
LoseAnswer(q) ==
    /\ Phase(q) = "answered" /\ request[q].answer = "ok"
    /\ request' = [request EXCEPT ![q].answer = "error"]
    /\ UNCHANGED <<tree, tags, lock, screen, uses>>

-----------------------------------------------------------------------------
(* The answer reaches the tab. *)

toCategorySaveError(answer) == IF answer \in {"conflict", "cycle"} THEN answer ELSE "generic"

\* saveCategoryInto: a new row is appended, a saved one replaced, in the store it was sent from.
saveCategoryInto(q) ==
    LET r == request[q] IN
    shown' = [shown EXCEPT ![q[1]] =
        IF r.kind = "create" THEN [i \in DOMAIN @ \cup {r.id} |-> IF i = r.id THEN r.next ELSE @[i]]
        ELSE [i \in DOMAIN @ |-> IF i = r.id THEN r.next ELSE @[i]]]

\* Mutant: the tags only follow a save whose page is still there.
applySavedOnPage(q) ==
    LET r == request[q] IN
    /\ knownTags' = [knownTags EXCEPT ![q[1]] =
          IF r.orphan THEN @ ELSE [i \in DOMAIN @ \cup {r.id} |-> IF i = r.id THEN r.tag.next ELSE @[i]]]
    /\ outdatedTags' = [outdatedTags EXCEPT ![q[1]] = IF r.newest THEN @ \ {r.id} ELSE @ \cup {r.id}]

\* applySaved: the app-wide tags follow every save, that of a page that is gone included, in
\* the order in which the answers come.
applySaved(q) ==
    LET r == request[q] IN
    /\ knownTags' = [knownTags EXCEPT ![q[1]] =
          [i \in DOMAIN @ \cup {r.id} |-> IF i = r.id THEN r.tag.next ELSE @[i]]]
    /\ outdatedTags' = [outdatedTags EXCEPT ![q[1]] = IF r.newest THEN @ \ {r.id} ELSE @ \cup {r.id}]

Saved(q) ==
    LET t == q[1] IN
    /\ applySaved(q)
    /\ IF request[q].orphan THEN UNCHANGED <<shown, outdated, tagLoads, dialog>>
       ELSE /\ saveCategoryInto(q)
            /\ outdated' = [outdated EXCEPT ![t] = IF request[q].newest THEN @ \ {request[q].id} ELSE @]
            /\ tagLoads' = DialogGone(t)
            /\ dialog' = [dialog EXCEPT ![t] = Closed]

NotSaved(q) ==
    /\ dialog' = IF request[q].orphan THEN dialog
                 ELSE [dialog EXCEPT ![q[1]].saving = FALSE,
                                     ![q[1]].error = toCategorySaveError(request[q].answer)]
    /\ UNCHANGED <<shown, knownTags, outdated, outdatedTags, tagLoads>>

ReceiveAnswer(q) ==
    /\ Phase(q) = "answered"
    /\ IF request[q].answer = "ok" THEN Saved(q) ELSE NotSaved(q)
    /\ request' = [request EXCEPT ![q] = Idle]
    /\ UNCHANGED <<tree, tags, lock, uses>>

TabStep(t) ==
    \/ ChangePage(t)
    \/ \E who \in Owners : AnswerTags(t, who) \/ ReceiveTags(t, who) \/ FailTags(t, who)
    \/ openCreate(t)
    \/ \E id \in Ids : openEdit(t, id)
    \/ Cancel(t)
    \/ \E draft \in Fields, nextTag \in Tag : save(t, draft, nextTag)

SaveStep(q) ==
    \/ createCategory(q)
    \/ LockTree(q)
    \/ UpdateCategory(q)
    \/ FailRequest(q)
    \/ LoseAnswer(q)
    \/ ReceiveAnswer(q)

Next ==
    \/ \E t \in Tabs : TabStep(t)
    \/ \E q \in Saves : SaveStep(q)

Spec == Init /\ [][Next]_vars

-----------------------------------------------------------------------------
(* Properties. *)

\* No category is its own ancestor, neither in the database, whichever moves are saved
\* at the same time, nor in what any tab shows, however old that is (the locked tree of
\* updateCategory and the parent picker without the category's own descendants).
Acyclic(cats) ==
    \A id \in DOMAIN cats : ~createsCycle(id, cats[id].parent, parentsOf(cats))
TreesAcyclic == Acyclic(tree) /\ \A t \in Tabs : Acyclic(shown[t])

\* No lost edit: a save only replaces the category its dialog was opened with and the tag
\* that dialog saw first, and it replaces both or neither (updateCategory's transaction).
NoLostCategoryEdit ==
    [][\A id \in DOMAIN tree : tree'[id] # tree[id] \/ tags'[id] # tags[id] =>
        \E q \in Saves :
            /\ Phase(q) = "checking" /\ request[q].id = id
            /\ tree[id] = request[q].expected /\ tags[id] = request[q].tag.expected
            /\ tree'[id] = request[q].next /\ tags'[id] = request[q].tag.next
            /\ ~request[q].orphan => dialog[q[1]].saving /\ tree[id] = dialog[q[1]].opened]_<<tree, tags>>

\* A tab shows a category as the database holds it, unless somebody changed it after the tab
\* read or saved it, and a category's tag unless that changed after the server gave the last
\* answer the tab took over for it, be it its own save's, also one of a page that is gone, or
\* a load's. Which answer comes last is not the newest one's choice: see TagsStayCurrent.
CategoriesFit ==
    \A t \in Tabs :
        /\ \A id \in DOMAIN shown[t] \ outdated[t] : shown[t][id] = tree[id]
        /\ knownTags[t] # None => \A id \in DOMAIN tree \ outdatedTags[t] :
              TagOf(knownTags[t], id) = tags[id]

\* A tag that a tab holds as it is stored holds until it is stored anew: an answer that comes
\* later takes none away (the comment at applySaved's call in the category dialog).
TagsStayCurrent ==
    [][\A t \in Tabs, id \in DOMAIN tree :
        knownTags[t] # None /\ TagOf(knownTags[t], id) = tags[id] /\ tags'[id] = tags[id] =>
            TagOf(knownTags'[t], id) = tags[id]]_vars
=============================================================================
