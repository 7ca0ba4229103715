------------------------------ MODULE DataTable ------------------------------
(* The shared table component (shared/components/data-table): the rows a page  *)
(* binds, flat or as a tree, the quick filter and the order PrimeNG applies to *)
(* them, the selected rows of a table with checkboxes and the context menu     *)
(* that acts on them. What a tree has expanded is TreeTable's.                 *)
(* PrimeNG takes a new value when the page is rendered; clicks, key strokes    *)
(* and PrimeNG's delayed filter may come between a change and its rendering.   *)
EXTENDS TableTrees, Sequences, SequencesExt

CONSTANTS RowIds,     \* the ids of the rows (getRowId)
          Selectable, \* the rows isRowSelectable accepts
          Key,        \* the value of the sorted column, or None, by row
          Parent,     \* in tree mode, the parent of each row, or None
          Filters,    \* the quick filters that may be typed: the rows each lets pass
          None

\* What the values of the constants must be.
ConstantsFit ==
    /\ RowIds \subseteq Nat
    /\ IsFiniteSet(RowIds)
    /\ Selectable \subseteq RowIds
    /\ DOMAIN Key = RowIds /\ \A r \in RowIds : Key[r] = None \/ Key[r] \in Nat
    /\ Parent \in [RowIds -> RowIds \cup {None}]
    /\ \A rows \in SUBSET RowIds : rows # {} => \E r \in rows : Parent[r] \notin rows
    /\ Filters \subseteq SUBSET RowIds
    /\ None \notin RowIds

VARIABLES tree,      \* treeMode
          bound,     \* the rows that pass the page's own filter (boundRows)
          rendered,  \* the rows PrimeNG has, from the last rendering
          typed,     \* the quick filter typed last; None: empty
          filtered,  \* PrimeNG's filteredValue, or None
          order,     \* 1 or -1, the direction of the sort
          selected,  \* selectedRowIds
          anchor,    \* rangeAnchorId
          dirty,     \* a rendering is due
          menu,      \* the open context menu: the row and the rows it acts on, or None
          kept       \* ghost: the rows that were displayed at every rendering since they were chosen

view == <<bound, rendered, typed, filtered, order>>
vars == <<tree, view, selected, anchor, dirty, menu, kept>>

TypeOK ==
    /\ tree \in BOOLEAN /\ dirty \in BOOLEAN
    /\ {bound, rendered, selected, kept} \subseteq SUBSET RowIds
    /\ typed \in Filters \cup {None} /\ filtered \in {None} \cup SUBSET RowIds
    /\ order \in {1, -1}
    /\ anchor \in RowIds \cup {None}
    /\ menu = None \/ (menu.row \in RowIds /\ menu.selectedRows \in SUBSET RowIds)

-----------------------------------------------------------------------------
(* Order and display. *)

\* Empty values come last in either direction; the table multiplies by the order.
defaultComparator(a, b, isDescending) ==
    IF a = None /\ b = None THEN 0
    ELSE IF a = None THEN IF isDescending THEN -1 ELSE 1
    ELSE IF b = None THEN IF isDescending THEN 1 ELSE -1
    ELSE IF a < b THEN -1 ELSE IF a > b THEN 1 ELSE 0

compareRows(a, b) == defaultComparator(Key[a], Key[b], order = -1) * order

\* The sort is stable; the page's own order is that of the ids.
Before(a, b) == compareRows(a, b) < 0 \/ (compareRows(a, b) = 0 /\ a < b)

\* The parents buildTree finds among the rows; the rows of a flat table have none.
Nesting(rows) == [r \in rows |-> IF tree THEN Parent[r] ELSE None]

\* A row and the rows above it.
Above(parent, r) ==
    LET round[n \in 0..Cardinality(DOMAIN parent)] ==
            IF n = 0 THEN {r}
            ELSE LET below == round[n - 1] IN below \cup {Up(parent, a, a) : a \in below}
    IN  round[Cardinality(DOMAIN parent)]
Siblings(parent, a, b) == Up(parent, a, None) = Up(parent, b, None)

\* visit: a row before the rows below it, and those of one parent, each with all that is
\* below it, in their order.
Precedes(parent, above, q, r, sorted) ==
    /\ q # r
    /\ \/ q \in above[r]
       \/ \E a \in above[q] \ above[r], b \in above[r] \ above[q] :
            Siblings(parent, a, b) /\ IF sorted THEN Before(a, b) ELSE a < b

\* Rows in an order: each after those that belong before it.
InOrder(rows, above) ==
    [i \in 1..Cardinality(rows) |-> CHOOSE r \in rows : Cardinality(above[r]) + 1 = i]
Walk(rows, sorted) ==
    LET parent == Nesting(rows)
        above == [r \in rows |-> Above(parent, r)]
    IN  InOrder(rows, [r \in rows |-> {q \in rows : Precedes(parent, above, q, r, sorted)}])

\* Rows the page has just bound are not sorted before they are rendered; PrimeNG's
\* filtered rows are those of the last rendering. Displayed is displayRows as a set.
Displayed == IF filtered # None THEN filtered ELSE bound
displayRows == Walk(Displayed, filtered # None \/ bound = rendered)

\* As sets: their uses ask for their members and their number.
selectableIds == Displayed \cap Selectable
selectedRows == selectableIds \cap selected
headerChecked == selectableIds # {} /\ Cardinality(selectedRows) = Cardinality(selectableIds)

\* The rows on the screen, in their order.
OnScreen == IF filtered # None THEN filtered ELSE rendered

\* PrimeNG keeps with a row all that is above and below it ("lenient").
Passing(rows) ==
    LET above(r) == Above(Nesting(rows), r)
    IN  IF typed = None THEN None
        ELSE {r \in rows : \E q \in rows \cap typed : q \in above(r) \/ r \in above(q)}

Init ==
    /\ tree \in BOOLEAN
    /\ bound \in SUBSET RowIds /\ rendered = bound
    /\ typed = None /\ filtered = None /\ order = 1
    /\ selected = {} /\ anchor = None /\ dirty = FALSE
    /\ menu = None /\ kept = {}

-----------------------------------------------------------------------------
(* The page and PrimeNG. *)

\* New rows, or a changed filter of the page.
Bind(rows) ==
    /\ bound # rows /\ bound' = rows
    /\ dirty' = TRUE
    /\ UNCHANGED <<tree, rendered, typed, filtered, order, selected, anchor, menu, kept>>

\* clearSelection of the page, after a bulk action.
ClearSelection ==
    /\ selected # {} /\ selected' = {}
    /\ dirty' = TRUE /\ kept' = {}
    /\ UNCHANGED <<tree, view, anchor, menu>>

\* applyQuickFilter passes the text on; PrimeNG filters a little later (onViewChange).
applyQuickFilter(filter) ==
    /\ typed # filter /\ typed' = filter
    /\ UNCHANGED <<tree, bound, rendered, filtered, order, selected, anchor, dirty, menu, kept>>
Filter ==
    /\ filtered # Passing(rendered)
    /\ filtered' = Passing(rendered)
    /\ dirty' = TRUE
    /\ UNCHANGED <<tree, bound, rendered, typed, order, selected, anchor, menu, kept>>

onSortFunction ==
    /\ order' = -order /\ dirty' = TRUE
    /\ UNCHANGED <<tree, bound, rendered, typed, filtered, selected, anchor, menu, kept>>

\* The rendering, and after it the pruning of the selection: with checkboxes, only
\* selectable rows that pass every filter stay selected. The menu's entries follow.
\* Mutant: the selection keeps what is no longer displayed.
PruneNothing(chosen, allowed) == chosen

Prune(chosen, allowed) == chosen \cap allowed

Render ==
    /\ dirty /\ dirty' = FALSE
    /\ UNCHANGED <<tree, bound, typed, order, anchor>>
    /\ rendered' = bound
    /\ filtered' = Passing(bound)
    /\ selected' = Prune(selected, selectableIds')
    /\ kept' = kept \cap Displayed'
    /\ menu' = IF menu = None THEN None
               ELSE [menu EXCEPT !.selectedRows = selectedRows']

-----------------------------------------------------------------------------
(* Selecting. *)

Choose(rows) ==
    /\ selected' = rows /\ dirty' = TRUE
    /\ kept' = (kept \cap rows) \cup (rows \ selected)

onHeaderCheckboxClick ==
    /\ selectableIds # {}
    /\ Choose(IF headerChecked THEN selected \ selectableIds ELSE selected \cup selectableIds)
    /\ UNCHANGED <<tree, view, anchor, menu>>

Between(r, q) ==
    LET rows == displayRows
        index(s) == CHOOSE i \in DOMAIN rows : rows[i] = s
    IN  {rows[i] : i \in Min({index(r), index(q)})..Max({index(r), index(q)})}

\* A range needs an anchor that is still displayed, and never spans a tree.
UsesRange(range) == range /\ ~tree /\ anchor \in Displayed

\* The screen may still show a row that is not among the new ones: the range is refused.
toggleRow(r, range) ==
    /\ r \in OnScreen \cap Selectable
    /\ UsesRange(range) => r \in Displayed
    /\ Choose(IF UsesRange(range) THEN selected \cup (Between(anchor, r) \cap Selectable)
              ELSE SymDiff(selected, {r}))
    /\ anchor' = r
    /\ UNCHANGED <<tree, view, menu>>

-----------------------------------------------------------------------------
(* The context menu (transaction-dialogs menuItems). *)

onCellContextMenu(r) ==
    /\ r \in OnScreen
    /\ menu' = [row |-> r, selectedRows |-> selectedRows]
    /\ UNCHANGED <<tree, view, selected, anchor, dirty, kept>>

Bulk == Cardinality(menu.selectedRows) > 1 /\ menu.row \in menu.selectedRows
ActsOn == IF Bulk THEN menu.selectedRows ELSE {menu.row}

\* Assign on one row or on the whole selection; the menu closes.
openAssign ==
    /\ menu # None /\ menu' = None
    /\ UNCHANGED <<tree, view, selected, anchor, dirty, kept>>

Next ==
    \/ \E rows \in SUBSET RowIds : Bind(rows)
    \/ \E filter \in Filters \cup {None} : applyQuickFilter(filter)
    \/ ClearSelection \/ Filter \/ onSortFunction \/ Render
    \/ onHeaderCheckboxClick
    \/ \E r \in RowIds, range \in BOOLEAN : toggleRow(r, range)
    \/ \E r \in RowIds : onCellContextMenu(r)
    \/ openAssign

Spec == Init /\ [][Next]_vars

-----------------------------------------------------------------------------
(* Properties. *)

\* A row that was once out of sight is not selected until it is chosen again, however
\* rows, filters and clicks come between two renderings: whatever is selected was
\* chosen and has been displayed at every rendering since (the pruning after render).
NothingHiddenStaysSelected == selected \subseteq kept

\* What a menu's Assign will change is what the user sees: rows of the last rendering
\* or of the moment the menu was opened, each of them selectable, unless it is the row
\* itself that was clicked.
BulkActsOnSelection ==
    menu # None /\ Bulk => ActsOn \subseteq Selectable /\ (~dirty => ActsOn \subseteq selected)

\* In either direction no row without a value comes before one that has a value; in a tree
\* this is so among the rows of one parent, whatever lies below them.
EmptiesLast ==
    LET rows == displayRows
        parent == Nesting(Displayed)
    IN  ~dirty => \A i, j \in DOMAIN rows :
            i < j /\ Key[rows[i]] = None /\ Siblings(parent, rows[i], rows[j]) => Key[rows[j]] = None
=============================================================================
