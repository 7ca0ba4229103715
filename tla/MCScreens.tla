------------------------------- MODULE MCScreens -------------------------------
(* Values of the constants of Screens for TLC. *)
EXTENDS Screens, TLC

\* Row 1 has no value in the sorted column; in a tree row 2 is below it. One filter lets a
\* row pass that is below another one, the other its parent and a row elsewhere.
SortKeys == <<None, 7, 5>>
RowParents == <<None, 1, None>>
QuickFilters == {{2}, {1, 3}}

\* Values whose sums tell every set of rows apart.
RowAmounts == [r \in RowIds |-> 2 ^ r]
Expansions == {-1, 0}

\* One preset by default.
DefaultPresets == << [id |-> 1, is |-> CHOOSE d \in Definitions : TRUE] >>

\* An expense of one account and an income of another.
Amounts == (11 :> -3) @@ (12 :> 5)
Accounts == (11 :> "k1") @@ (12 :> "k2")

\* What a category may be: matching nothing, everything, expenses, one account, income;
\* ranked before, like or after each other; tagged, out of the taxes, kept out of reports.
DraftOf(rank, type, pattern, account, skip, tag) ==
    [rank |-> rank, type |-> type, pattern |-> pattern, account |-> account,
     skip |-> skip, tag |-> tag]
CategoryDrafts ==
    {DraftOf(1, "any", {}, None, FALSE, CHOOSE c \in Codes : TRUE),
     DraftOf(2, "any", Txns, None, FALSE, None),
     DraftOf(2, "expense", Txns, None, FALSE, "St-0"),
     DraftOf(3, "any", Txns, "k1", TRUE, None),
     DraftOf(1, "income", Txns, None, FALSE, None)}
=============================================================================
