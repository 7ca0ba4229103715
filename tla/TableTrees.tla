------------------------------ MODULE TableTrees ------------------------------
(* The trees the tables show, as operators (core/utils/build-tree.ts,          *)
(* shared/components/data-table/data-table-tree.ts). A table's rows are given  *)
(* by parent, the function from a row's id to its parent's id, or None; a      *)
(* parent that is not among the rows counts as none.                           *)
EXTENDS Integers, FiniteSets, FiniteSetsExt, Functions

Up(parent, id, none) == IF parent[id] \in DOMAIN parent THEN parent[id] ELSE none

rootsOf(parent) == {id \in DOMAIN parent : parent[id] \notin DOMAIN parent}
childrenOf(parent, id) == {c \in DOMAIN parent : parent[c] = id}

\* markReachable: what can be reached from the roots, level by level.
reachableIds(parent) ==
    LET level[n \in 0..Cardinality(DOMAIN parent)] ==
            IF n = 0 THEN rootsOf(parent)
            ELSE LET above == level[n - 1]
                 IN  above \cup {c \in DOMAIN parent : parent[c] \in above}
    IN  level[Cardinality(DOMAIN parent)]

\* buildTree throws when rows are left over.
buildTreeFails(parent) == reachableIds(parent) # DOMAIN parent

\* The number of rows above a row; for a forest.
depthOf(parent) ==
    LET depth[id \in DOMAIN parent] ==
            IF id \in rootsOf(parent) THEN 0 ELSE depth[parent[id]] + 1
    IN  depth

isExpandedAtDepth(groupDefaultExpanded, depth) ==
    groupDefaultExpanded = -1 \/ depth < groupDefaultExpanded

\* A row there was before keeps its node and what is expanded; a new one gets the default.
toTreeNodes(parent, groupDefaultExpanded, previous) ==
    [id \in DOMAIN parent |->
        IF id \in DOMAIN previous THEN previous[id]
        ELSE isExpandedAtDepth(groupDefaultExpanded, depthOf(parent)[id])]

\* The sum over the leaves below each row; a leaf has its own value.
computeTreeAggregates(parent, value) ==
    LET sums[id \in DOMAIN parent] ==
            LET children == childrenOf(parent, id)
            IN  IF children = {} THEN value[id] ELSE MapThenSumSet(LAMBDA c : sums[c], children)
    IN  sums
=============================================================================
