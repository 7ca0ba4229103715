-------------------------------- MODULE MCEdits --------------------------------
EXTENDS Edits, TLC

\* One bank has a method that needs no medium and one with two media, the other only a
\* method that needs a medium and has none.
OfferedByBanks == [i \in Identities |->
    IF i = "b1" THEN [m \in Methods |-> IF m \in Required THEN Media ELSE {}]
    ELSE [m \in Required |-> {}]]

Symmetry == Permutations(Tabs) \cup Permutations(Lookups) \cup Permutations(Slots)
=============================================================================
