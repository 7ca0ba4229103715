------------------------------ MODULE TreeTable ------------------------------
(* The table component in tree mode (data-table.component.ts): the page hands  *)
(* it rows with their parents, as often as its data change; the component      *)
(* keeps what the user expanded and shows a sum on every group.                *)
EXTENDS TableTrees

CONSTANTS RowIds,               \* the ids of the rows
          Amount,               \* the value of the column with aggFunc "sum", by row
          DefaultsExpanded,     \* the values of groupDefaultExpanded the pages use
          None

\* What the values of the constants must be.
ConstantsFit ==
    /\ IsFiniteSet(RowIds)
    /\ None \notin RowIds
    /\ \A s \in SUBSET RowIds : \A expanded \in [s -> BOOLEAN] : expanded # None
    /\ Amount \in [RowIds -> Int]
    /\ DefaultsExpanded \subseteq Int

VARIABLES rows,     \* value(): the parent of each row
          options,  \* groupDefaultExpanded
          nodes,    \* treeNodes: whether each node is expanded; None: the rows are refused
          chosen    \* ghost: what the user chose last for each row that stayed since

vars == <<rows, options, nodes, chosen>>

\* A parent may be missing among the rows.
Forests == UNION {[S -> RowIds \cup {None}] : S \in SUBSET RowIds}
Shown == nodes # None

TypeOK ==
    /\ rows \in Forests /\ options \in DefaultsExpanded
    /\ DOMAIN chosen \subseteq RowIds
    /\ Shown => nodes \in [DOMAIN rows -> BOOLEAN]

\* A forest is shown; a cycle is an error, after which nothing is known of the nodes.
\* Other options start from nothing.
Build(parent, default, previous) ==
    /\ rows' = parent /\ options' = default
    /\ nodes' = IF buildTreeFails(parent) THEN None
                ELSE toTreeNodes(parent, default, IF previous = None THEN << >> ELSE previous)

Init ==
    /\ rows = << >> /\ options \in DefaultsExpanded
    /\ nodes = << >> /\ chosen = << >>

SetRows(parent) ==
    /\ Shown
    /\ Build(parent, options, nodes)
    /\ chosen' = Restrict(chosen, DOMAIN chosen \cap DOMAIN parent)

SetOptions(default) ==
    /\ Shown /\ default # options
    /\ Build(rows, default, None)
    /\ chosen' = << >>

\* PrimeNG's toggler, on a node with children.
Toggle(id) ==
    /\ Shown /\ id \in DOMAIN nodes /\ childrenOf(rows, id) # {}
    /\ nodes' = [nodes EXCEPT ![id] = ~@]
    /\ chosen' = [c \in DOMAIN chosen \cup {id} |-> IF c = id THEN ~nodes[id] ELSE chosen[c]]
    /\ UNCHANGED <<rows, options>>

setAllExpanded(expanded) ==
    /\ Shown
    /\ nodes' = [id \in DOMAIN nodes |-> expanded]
    /\ chosen' = nodes'
    /\ UNCHANGED <<rows, options>>

Next ==
    \/ \E parent \in Forests : SetRows(parent)
    \/ \E default \in DefaultsExpanded : SetOptions(default)
    \/ \E id \in RowIds : Toggle(id)
    \/ \E expanded \in BOOLEAN : setAllExpanded(expanded)

Spec == Init /\ [][Next]_vars

-----------------------------------------------------------------------------
(* Properties. *)

\* What the user expanded or collapsed stays so as long as the row does, however the
\* data change around it (toTreeNodes reconciles with the nodes there were).
ExpansionKept == Shown => \A id \in DOMAIN chosen : nodes[id] = chosen[id]

\* The reference: the rows above a row, the row itself among them.
Above(id) ==
    LET round[n \in 0..Cardinality(RowIds)] ==
            IF n = 0 THEN {id}
            ELSE LET below == round[n - 1] IN below \cup {Up(rows, a, a) : a \in below}
    IN  round[Cardinality(RowIds)]

\* Rows are refused exactly when one of them is above itself.
OnlyCyclesRefused ==
    ~Shown <=> \E id \in DOMAIN rows : \E a \in Above(id) : rows[a] = id

\* Every group shows the sum of the leaves below it, however deep, each counted once.
Leaves == {id \in DOMAIN rows : childrenOf(rows, id) = {}}
SumsFit ==
    Shown => \A id \in DOMAIN rows :
        computeTreeAggregates(rows, Amount)[id] =
            MapThenSumSet(LAMBDA l : Amount[l], {l \in Leaves : id \in Above(l)})
=============================================================================
