----------------------------- MODULE MCUserKeys -----------------------------
(* UserKeys on small instances: one user with several jobs. *)
EXTENDS UserKeys, TLC

CONSTANTS u1, d1

OneUser == {u1}
OneOwner == [j \in Jobs |-> u1]
OneHome == [u \in {u1} |-> d1]

\* The jobs of one user, the keys and the connections are interchangeable.
Interchangeable ==
  Permutations(Jobs) \cup Permutations(Keys) \cup Permutations(Connections)
=============================================================================
