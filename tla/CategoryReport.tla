---------------------------- MODULE CategoryReport ----------------------------
(* The report by category: which transaction belongs to which category         *)
(* (core/utils/category-matching.ts), the report's rows (category-report.ts),  *)
(* what an export makes of them (category-export.ts, core/tax/tax-sections.ts) *)
(* and the preview the category dialog shows before it saves                   *)
(* (category-edit-dialog.component.ts). One tab, whose store takes every saved *)
(* change in place.                                                            *)
EXTENDS TableTrees

CONSTANTS Ids,        \* the ids of the categories, in the order they are given out
          First,      \* the categories there are from the start
          Txns,       \* the ids of the transactions
          Amount,     \* betrag
          Account,    \* konto_id
          Drafts,     \* what the fields of a category may hold, the parent left out
          Codes,      \* the codes of the tax sections
          None,
          MaxSaves    \* bound: so many saved changes

VARIABLES cats,       \* the categories, by id
          stored,     \* umsatztyp_id of each transaction
          shown,      \* the transactions that pass the filters of the page
          saves       \* the number of saved changes (bounded by MaxSaves)

vars == <<cats, stored, shown, saves>>

\* rank: the place by number and name, the same for equal ones. pattern: the transactions
\* whose text it matches, {} for none. tag: the category's own tax tag. account: konto_id.
Draft == [rank : Nat, type : {"expense", "income", "any"}, pattern : SUBSET Txns,
          account : {Account[t] : t \in Txns} \cup {None}, skip : BOOLEAN,
          tag : Codes \cup {"St-0", None}]

\* What the values of the constants must be.
ConstantsFit ==
    /\ Ids \subseteq Nat \ {0}
    /\ IsFiniteSet(Ids)
    /\ First \subseteq Ids
    /\ IsFiniteSet(Txns)
    /\ Txns \subseteq Nat \ (Ids \cup {0})
    /\ Amount \in [Txns -> Int]
    /\ Drafts \subseteq Draft
    /\ MaxSaves \in Nat
    /\ None \notin Int \cup Codes \cup {"St-0"}

\* NEW_CATEGORY_ID, and UNASSIGNED_ID of the report.
New == 0
Unassigned == -1

WithParent(draft, parent) ==
    [f \in DOMAIN draft \cup {"parent"} |-> IF f = "parent" THEN parent ELSE draft[f]]
parents(known) == [c \in DOMAIN known |-> known[c].parent]

TypeOK ==
    /\ DOMAIN cats \subseteq Ids
    /\ \A c \in DOMAIN cats : /\ cats[c].parent \in DOMAIN cats \cup {None}
                              /\ [f \in DOMAIN cats[c] \ {"parent"} |-> cats[c][f]] \in Drafts
    /\ stored \in [Txns -> Ids \cup {None}]
    /\ shown \subseteq Txns /\ saves \in 0..MaxSaves

-----------------------------------------------------------------------------
(* Matching. *)

typeAccepts(cat, betrag) ==
    ~(betrag < 0 /\ cat.type = "income") /\ ~(betrag > 0 /\ cat.type = "expense")
accountAccepts(cat, t) == cat.account \in {None, Account[t]}
candidateMatches(cat, t) ==
    typeAccepts(cat, Amount[t]) /\ accountAccepts(cat, t) /\ t \in cat.pattern

\* compareCategories: by number and name, then by id.
compareCategories(known, a, b) ==
    known[a].rank < known[b].rank \/ (known[a].rank = known[b].rank /\ a < b)

\* A stored category wins, one that is not known counts as none; else the first that matches.
assignCategories(known, t) ==
    LET hits == {c \in DOMAIN known : candidateMatches(known[c], t)}
    IN  IF stored[t] # None THEN IF stored[t] \in DOMAIN known THEN stored[t] ELSE None
        ELSE IF hits = {} THEN None
        ELSE CHOOSE c \in hits : \A d \in hits \ {c} : compareCategories(known, c, d)

-----------------------------------------------------------------------------
(* The preview: what becomes of the transactions the draft matches. *)

\* Mutant: the draft competes at the place the category had before.
buildPreviewUnranked(id, fields) ==
    LET ranked == IF id \in DOMAIN cats THEN [fields EXCEPT !.rank = cats[id].rank] ELSE fields
        known == [c \in (DOMAIN cats \ {id}) \cup {id} |-> IF c = id THEN ranked ELSE cats[c]]
    IN  [t \in {u \in Txns : candidateMatches(fields, u)} |->
            IF stored[t] # None
            THEN IF stored[t] = id THEN "storedHere" ELSE "storedElsewhere"
            ELSE IF assignCategories(known, t) = id THEN "assignedHere" ELSE "claimed"]

buildPreview(id, fields) ==
    LET known == [c \in (DOMAIN cats \ {id}) \cup {id} |-> IF c = id THEN fields ELSE cats[c]]
    IN  [t \in {u \in Txns : candidateMatches(fields, u)} |->
            IF stored[t] # None
            THEN IF stored[t] = id THEN "storedHere" ELSE "storedElsewhere"
            ELSE IF assignCategories(known, t) = id THEN "assignedHere" ELSE "claimed"]

-----------------------------------------------------------------------------
(* The report. *)

\* A category with the categories above it.
chainOf(id) ==
    LET round[n \in 0..Cardinality(Ids)] ==
            IF n = 0 THEN {id}
            ELSE LET below == round[n - 1] IN below \cup {Up(parents(cats), c, c) : c \in below}
    IN  round[Cardinality(Ids)]

\* Mutant: only the category itself is asked.
isSkippedItself(id) == cats[id].skip

isSkipped(id) == \E c \in chainOf(id) : cats[c].skip

\* The rows: every shown transaction whose category no one above keeps out, the categories
\* it belongs to with all above them, and the row of the transactions without a category.
buildCategoryReport ==
    LET assigned == [t \in shown |-> assignCategories(cats, t)]
        listed == {t \in shown : assigned[t] = None \/ ~isSkipped(assigned[t])}
        included == UNION {chainOf(assigned[t]) : t \in {u \in listed : assigned[u] # None}}
    IN  [r \in {Unassigned} \cup included \cup listed |->
            IF r = Unassigned THEN None
            ELSE IF r \in Txns THEN IF assigned[r] = None THEN Unassigned ELSE assigned[r]
            ELSE cats[r].parent]

isTransaction(r) == r \in Txns

\* The nearest tag above decides; St-0 takes a category out.
effectiveTaxSection(id) ==
    LET section[c \in DOMAIN cats] ==
            IF cats[c].tag = "St-0" THEN None
            ELSE IF cats[c].tag # None THEN cats[c].tag
            ELSE IF cats[c].parent \in DOMAIN cats THEN section[cats[c].parent] ELSE None
    IN  section[id]

\* The transactions of the chosen sections and the categories above them.
filterReportByTaxSections(rows, codes) ==
    LET kept == {r \in DOMAIN rows : isTransaction(r) /\ rows[r] # Unassigned
                                        /\ effectiveTaxSection(rows[r]) \in codes}
        round[n \in 0..Cardinality(DOMAIN rows)] ==
            IF n = 0 THEN kept
            ELSE LET below == round[n - 1] IN below \cup {Up(rows, r, r) : r \in below}
    IN  Restrict(rows, round[Cardinality(DOMAIN rows)])

-----------------------------------------------------------------------------
(* The export: rows down to a depth, and a total. *)

valueOf(rows) == [r \in DOMAIN rows |-> IF isTransaction(r) THEN Amount[r] ELSE 0]
sumsOf(rows) == computeTreeAggregates(rows, valueOf(rows))

\* The levels of categories; All ("all") adds the transactions.
All == 0
maxCategoryDepth(rows) ==
    LET levels == {depthOf(rows)[r] + 1 : r \in {c \in DOMAIN rows : ~isTransaction(c)}}
    IN  IF levels = {} THEN 0 ELSE Max(levels)

walked(rows, depth) ==
    {r \in DOMAIN rows : depth = All \/ (~isTransaction(r) /\ depthOf(rows)[r] < depth)}
total(rows) == MapThenSumSet(LAMBDA r : sumsOf(rows)[r], rootsOf(rows))

-----------------------------------------------------------------------------

Init ==
    /\ cats \in [First -> {WithParent(d, None) : d \in Drafts}]
    /\ stored \in [Txns -> {None}]
    /\ shown = Txns
    /\ saves = 0

Save == saves < MaxSaves /\ saves' = saves + 1
FreeIds == Ids \ DOMAIN cats

\* The dialog's save, for a new category or an old one; the server refuses a cycle.
SaveCategory(id, fields) ==
    /\ Save
    /\ id \in FreeIds => id = Min(FreeIds)
    /\ id \in DOMAIN cats => cats[id] # fields
    /\ fields.parent \in (DOMAIN cats \cup {None}) \ {id}
    /\ id \in DOMAIN cats /\ fields.parent # None => id \notin chainOf(fields.parent)
    /\ cats' = [c \in DOMAIN cats \cup {id} |-> IF c = id THEN fields ELSE cats[c]]
    /\ UNCHANGED <<stored, shown>>

\* A transaction is given a category, or none; the list of categories may lack one that
\* another tab created.
AssignCategory(t, category) ==
    /\ Save
    /\ stored[t] # category
    /\ stored' = [stored EXCEPT ![t] = category]
    /\ UNCHANGED <<cats, shown>>

SetFilter(txns) ==
    /\ shown # txns /\ shown' = txns
    /\ UNCHANGED <<cats, stored, saves>>

Next ==
    \/ \E id \in Ids, d \in Drafts, parent \in Ids \cup {None} : SaveCategory(id, WithParent(d, parent))
    \/ \E t \in Txns, category \in Ids \cup {None} : AssignCategory(t, category)
    \/ \E txns \in SUBSET Txns : SetFilter(txns)

Spec == Init /\ [][Next]_vars

-----------------------------------------------------------------------------
(* Properties. *)

\* The references: a category is kept out by itself or one above; its tax section is that of
\* the nearest tag among it and those above.
KeptOut(c) == TRUE \in {cats[a].skip : a \in chainOf(c)}
Section(c) ==
    LET tagged == {a \in chainOf(c) : cats[a].tag # None}
        nearest == {a \in tagged : \A b \in tagged : a \in chainOf(b) => b = a}
    IN  {cats[a].tag : a \in nearest} \ {"St-0"}

\* A category's sum is that of the shown transactions assigned to it or below it, those of
\* a category that is kept out, or lies below one, left out; the total counts every listed
\* transaction once, at whatever depth the export stops.
Listed(t) == assignCategories(cats, t) = None \/ ~KeptOut(assignCategories(cats, t))
SumOf(txns) == MapThenSumSet(LAMBDA t : Amount[t], txns)
ReportSumsFit ==
    LET rows == buildCategoryReport IN
    /\ ~buildTreeFails(parents(cats)) /\ ~buildTreeFails(rows)
    /\ \A c \in DOMAIN rows \ (Txns \cup {Unassigned}) :
        sumsOf(rows)[c] = SumOf({t \in shown : Listed(t) /\ assignCategories(cats, t) # None
                                               /\ c \in chainOf(assignCategories(cats, t))})
    /\ total(rows) = SumOf({t \in shown : Listed(t)})
    /\ maxCategoryDepth(rows) >= 1
    /\ walked(rows, maxCategoryDepth(rows)) = DOMAIN rows \ Txns

\* An export of some tax sections holds exactly the listed transactions whose category
\* counts for one of them, with the same amounts in every group.
TaxExportFits ==
    LET rows == buildCategoryReport IN
    \A codes \in SUBSET Codes :
        LET kept == filterReportByTaxSections(rows, codes) IN
        /\ DOMAIN kept \cap Txns =
              {t \in shown : Listed(t) /\ \E c \in Ids : c = assignCategories(cats, t)
                                               /\ Section(c) \cap codes # {}}
        /\ \A r \in DOMAIN kept : kept[r] # None /\ kept[r] \in DOMAIN cats => kept[r] \in DOMAIN kept
        /\ total(kept) = SumOf(DOMAIN kept \cap Txns)

\* What the preview says of a transaction is what the report shows once the draft is saved,
\* the unmatched ones included. A new category that another one equals in number and name
\* is left out: the preview ranks it before, the server's id after it.
Preview(id) == IF id \in DOMAIN cats THEN id ELSE New
PreviewFits ==
    [][cats' # cats => \A id \in Ids, d \in Drafts, parent \in Ids \cup {None} :
        LET fields == WithParent(d, parent)
            preview == buildPreview(Preview(id), fields)
        IN  SaveCategory(id, fields) /\ (id \in DOMAIN cats \/ \A c \in DOMAIN cats : cats[c].rank # d.rank)
            => {t \in Txns : assignCategories(cats', t) = id} =
               {t \in Txns : stored[t] = id \/ (t \in DOMAIN preview /\ preview[t] = "assignedHere")}]_cats
=============================================================================
