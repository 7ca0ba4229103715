------------------------------ MODULE EditsProofs ------------------------------
(***************************************************************************)
(* Theorems about the suite Edits for any tabs, rows, categories, codes, *)
(* databases, banks and bounds: what the tabs show fits, no edit is lost,  *)
(* categories stay trees, the dialogs stay sound, pools are the right      *)
(* ones. Each part has an inductive invariant of its own; those of the     *)
(* transactions and of the pools are proved in TransactionEditsProofs and  *)
(* UserPoolsProofs.                                                        *)
(***************************************************************************)
EXTENDS Edits, FiniteSetTheorems, WellFoundedInduction, TLAPS

-----------------------------------------------------------------------------
(* Categories: chains of parents. *)

LEMMA FiniteTrees == \A S : C!IsFiniteSet(S) <=> IsFiniteSet(S)
  BY Zenon DEF IsFiniteSet, C!IsFiniteSet
LEMMA SizeOfTrees == \A S : C!Cardinality(S) = Cardinality(S)
  BY Zenon DEF Cardinality, C!Cardinality, IsFiniteSet, C!IsFiniteSet

Depth == Cardinality(Ids)

LEMMA DepthIs == Depth \in Nat /\ IsFiniteSet(Ids) /\ C!Cardinality(Ids) = Depth
  BY PartsFit, FiniteTrees, SizeOfTrees, FS_CardinalityType DEF C!ConstantsFit, Depth

\* Where a chain of parents goes next.
Up(parents, p) == IF p \in DOMAIN parents THEN parents[p] ELSE None
IsChain(f, n, start, parents) ==
  f = [i \in 0..n |-> IF i = 0 THEN start ELSE Up(parents, f[i - 1])]

\* Of some numbers there is a least one.
LEMMA Least ==
  ASSUME NEW S \in SUBSET Nat, S # {}
  PROVE  \E r \in S : \A q \in S : r <= q
  <1> DEFINE R == {ss \in Nat \X Nat : ss[1] < ss[2]}
  <1>1. R = OpToRel(<, Nat) BY DEF OpToRel
  <1>2. IsWellFoundedOn(R, Nat) BY <1>1, NatLessThanWellFounded
  <1>3. ASSUME NEW x \in S, NEW y \in S, ~(<<y, x>> \in R) PROVE x <= y
    <2>1. <<y, x>> \in Nat \X Nat OBVIOUS
    <2>2. ~(y < x) BY <2>1, <1>3
    <2> QED BY <2>2
  <1> HIDE DEF R
  <1>4. \E x \in S : \A y \in S : ~(<<y, x>> \in R) BY <1>2, WFMin
  <1> QED BY <1>3, <1>4

LEMMA ChainExists ==
  ASSUME NEW N \in Nat, NEW start, NEW parents
  PROVE  \E f : IsChain(f, N, start, parents)
  <1> DEFINE Bad == {n \in Nat : ~\E f : IsChain(f, n, start, parents)}
  <1> SUFFICES ASSUME Bad # {} PROVE FALSE OBVIOUS
  <1>1. PICK n \in Bad : \A m \in Bad : n <= m
    <2>1. Bad \in SUBSET Nat OBVIOUS
    <2> QED BY <2>1, Least
  <1>2. n # 0
    <2>1. IsChain([i \in 0..0 |-> start], 0, start, parents) BY DEF IsChain
    <2> QED BY <1>1, <2>1
  <1>3. n - 1 \in Nat /\ n - 1 \notin Bad BY <1>1, <1>2
  <1>4. PICK f : IsChain(f, n - 1, start, parents) BY <1>3
  <1> DEFINE g == [i \in 0..n |-> IF i = n THEN Up(parents, f[n - 1]) ELSE f[i]]
  <1>5. IsChain(g, n, start, parents)
    <2>1. ASSUME NEW i \in 0..n
          PROVE  g[i] = IF i = 0 THEN start ELSE Up(parents, g[i - 1])
      <3>1. \A j \in 0..n - 1 : g[j] = f[j] BY <1>1
      <3>2. CASE i = n
        <4>1. g[n - 1] = f[n - 1] BY <3>1, <1>3
        <4> QED BY <4>1, <3>2, <1>2
      <3>3. CASE i = 0 BY <1>4, <3>1, <3>3, <1>2, <1>3 DEF IsChain
      <3>4. CASE i # n /\ i # 0
        <4>1. i \in 0..n - 1 /\ i - 1 \in 0..n - 1 BY <3>4, <1>1
        <4>2. f[i] = Up(parents, f[i - 1]) BY <4>1, <3>4, <1>4 DEF IsChain
        <4> QED BY <4>1, <4>2, <3>1, <3>4
      <3> QED BY <3>2, <3>3, <3>4
    <2> HIDE DEF g
    <2>2. g = [i \in 0..n |-> g[i]] BY DEF g
    <2> QED BY <2>1, <2>2 DEF IsChain
  <1> QED BY <1>1, <1>5

LEMMA CycleIs ==
  ASSUME NEW id, NEW start, NEW parents
  PROVE  \E f : /\ IsChain(f, Depth, start, parents)
                /\ C!createsCycle(id, start, parents) <=> \E n \in 0..Depth : f[n] = id
  <1> DEFINE chain == CHOOSE f : IsChain(f, Depth, start, parents)
  <1>1. C!createsCycle(id, start, parents) <=> \E n \in 0..Depth : chain[n] = id
    <2>1. C!Cardinality(Ids) = Depth BY DepthIs
    <2> QED BY <2>1 DEF C!createsCycle, IsChain, Up
  <1>2. IsChain(chain, Depth, start, parents) BY ChainExists, DepthIs
  <1> QED BY <1>1, <1>2

-----------------------------------------------------------------------------
(* Categories: rings of parents, which a tree does not have. *)

\* Some categories each of which has its parent among them: what a tree does not have.
Ring(parents, S) == S # {} /\ S \subseteq DOMAIN parents /\ \A i \in S : parents[i] \in S
NoRing(parents) == \A S : ~Ring(parents, S)

LEMMA CycleIsRing ==
  ASSUME NEW parents, None \notin DOMAIN parents, NEW id \in DOMAIN parents, NoRing(parents)
  PROVE  ~C!createsCycle(id, parents[id], parents)
  <1> SUFFICES ASSUME C!createsCycle(id, parents[id], parents) PROVE FALSE OBVIOUS
  <1>1. PICK f : /\ IsChain(f, Depth, parents[id], parents)
                 /\ \E n \in 0..Depth : f[n] = id
    BY CycleIs
  <1>2. PICK n \in 0..Depth : f[n] = id BY <1>1
  <1>3. n \in Nat /\ \A i \in 0..n : i \in 0..Depth BY DepthIs
  <1>4. f[0] = parents[id] BY <1>1, <1>3 DEF IsChain
  <1>5. \A i \in 0..n : i # n => i + 1 \in 0..n /\ f[i + 1] = Up(parents, f[i])
    <2> SUFFICES ASSUME NEW i \in 0..n, i # n PROVE i + 1 \in 0..n /\ f[i + 1] = Up(parents, f[i])
      OBVIOUS
    <2>1. i + 1 \in 0..n /\ i + 1 # 0 /\ (i + 1) - 1 = i BY <1>3
    <2>2. i + 1 \in 0..Depth BY <2>1, <1>3
    <2>3. f[i + 1] = Up(parents, f[(i + 1) - 1]) BY <1>1, <2>1, <2>2 DEF IsChain
    <2> QED BY <2>1, <2>3
  <1> DEFINE Out == {j \in 0..n : f[n - j] \notin DOMAIN parents}
  <1>6. Out = {}
    <2> SUFFICES ASSUME Out # {} PROVE FALSE OBVIOUS
    <2>1. PICK j \in Out : \A k \in Out : j <= k
      <3>1. Out \in SUBSET Nat OBVIOUS
      <3> QED BY <3>1, Least
    <2>2. j # 0 BY <1>2, <1>3, <2>1
    <2>3. n - j \in 0..n /\ n - j # n /\ j - 1 \in 0..n /\ n - (j - 1) = (n - j) + 1
      BY <1>3, <2>1, <2>2
    <2>4. f[(n - j) + 1] = Up(parents, f[n - j]) BY <1>5, <2>3
    <2>5. f[n - (j - 1)] = None BY <2>1, <2>3, <2>4 DEF Up
    <2>6. j - 1 \in Out BY <2>3, <2>5
    <2>7. j <= j - 1 BY <2>1, <2>6
    <2> QED BY <2>1, <2>7
  <1>7. \A i \in 0..n : f[i] \in DOMAIN parents
    <2> SUFFICES ASSUME NEW i \in 0..n PROVE f[i] \in DOMAIN parents OBVIOUS
    <2>1. n - i \in 0..n /\ n - (n - i) = i BY <1>3
    <2> QED BY <1>6, <2>1
  <1>8. Ring(parents, {f[i] : i \in 0..n})
    <2>1. ASSUME NEW i \in 0..n PROVE \E k \in 0..n : parents[f[i]] = f[k]
      <3>1. CASE i = n BY <1>2, <1>3, <1>4, <3>1
      <3>2. CASE i # n BY <1>5, <1>7, <3>2 DEF Up
      <3> QED BY <3>1, <3>2
    <2>2. 0 \in 0..n BY <1>3
    <2> QED BY <1>7, <2>1, <2>2 DEF Ring
  <1> QED BY <1>8 DEF NoRing

\* A category that moves below a parent from which no chain leads back to it.
LEMMA MovedFits ==
  ASSUME NEW parents, DOMAIN parents \subseteq Ids, NoRing(parents), NEW id \in DOMAIN parents,
         NEW p, ~C!createsCycle(id, p, parents),
         NEW moved, DOMAIN moved = DOMAIN parents, moved[id] = p,
         \A i \in DOMAIN parents \ {id} : moved[i] = parents[i]
  PROVE  NoRing(moved)
  <1> SUFFICES ASSUME NEW S, Ring(moved, S) PROVE FALSE BY DEF NoRing
  <1>1. id \in S
    <2> SUFFICES ASSUME id \notin S PROVE FALSE OBVIOUS
    <2>1. Ring(parents, S) BY DEF Ring
    <2> QED BY <2>1 DEF NoRing
  <1>2. PICK f : /\ IsChain(f, Depth, p, parents)
                 /\ \A n \in 0..Depth : f[n] # id
    BY CycleIs
  <1> DEFINE Rest == S \ {id}
  <1>3. Depth \in Nat /\ IsFiniteSet(Ids) BY DepthIs
  <1>4. f[0] = p BY <1>2, <1>3 DEF IsChain
  <1>5. \A i \in 0..Depth : i # Depth => i + 1 \in 0..Depth /\ f[i + 1] = Up(parents, f[i])
    <2> SUFFICES ASSUME NEW i \in 0..Depth, i # Depth
                 PROVE  i + 1 \in 0..Depth /\ f[i + 1] = Up(parents, f[i])
      OBVIOUS
    <2>1. i + 1 \in 0..Depth /\ i + 1 # 0 /\ (i + 1) - 1 = i BY <1>3
    <2>2. f[i + 1] = Up(parents, f[(i + 1) - 1]) BY <1>2, <2>1 DEF IsChain
    <2> QED BY <2>1, <2>2
  <1>6. \A i \in Rest : i \in DOMAIN parents /\ parents[i] \in S BY DEF Ring
  <1> DEFINE Out == {i \in 0..Depth : f[i] \notin Rest}
  <1>7. Out = {}
    <2> SUFFICES ASSUME Out # {} PROVE FALSE OBVIOUS
    <2>1. PICK i \in Out : \A k \in Out : i <= k
      <3>1. Out \in SUBSET Nat BY <1>3
      <3> QED BY <3>1, Least
    <2>2. i # 0
      <3>1. p \in S BY <1>1 DEF Ring
      <3>2. 0 \in 0..Depth BY <1>3
      <3> QED BY <1>2, <1>4, <2>1, <3>1, <3>2
    <2>3. i - 1 \in 0..Depth /\ i - 1 # Depth /\ (i - 1) + 1 = i BY <1>3, <2>1, <2>2
    <2>4. i - 1 \notin Out
      <3> SUFFICES ASSUME i - 1 \in Out PROVE FALSE OBVIOUS
      <3>1. i <= i - 1 BY <2>1
      <3> QED BY <2>1, <3>1
    <2>5. f[i] \in S BY <1>5, <1>6, <2>3, <2>4 DEF Up
    <2> QED BY <1>2, <2>1, <2>5
  <1>8. IsFiniteSet(Rest) /\ Cardinality(Rest) < Cardinality(0..Depth)
    <2>1. S \subseteq Ids BY DEF Ring
    <2>2. IsFiniteSet(Rest) /\ Cardinality(Rest) <= Depth BY <1>3, <2>1, FS_Subset DEF Depth
    <2>3. Cardinality(0..Depth) = Depth + 1 BY <1>3, FS_Interval
    <2> QED BY <1>3, <2>2, <2>3, FS_CardinalityType
  <1> DEFINE g == [i \in 0..Depth |-> f[i]]
  <1>9. g \in [0..Depth -> Rest] BY <1>7
  <1>10. \E i, j \in 0..Depth : i # j /\ g[i] = g[j]
    <2>1. Depth \in Int /\ 0 \in Int BY <1>3
    <2>2. IsFiniteSet(0..Depth) BY ONLY <2>1, FS_Interval
    <2> HIDE DEF g, Rest
    <2> QED BY ONLY <1>8, <1>9, <2>2, FS_PigeonHole, Zenon
  <1>11. PICK i \in 0..Depth, j \in 0..Depth : i < j /\ f[i] = f[j]
    BY <1>10, <1>3
  <1> DEFINE Loop == {f[k] : k \in i..j - 1}
  <1>12. Ring(parents, Loop)
    <2>1. i \in i..j - 1 BY <1>11, <1>3
    <2>2. \A k \in i..j - 1 : k \in 0..Depth /\ k # Depth BY <1>11, <1>3
    <2>3. ASSUME NEW k \in i..j - 1 PROVE f[k] \in DOMAIN parents /\ parents[f[k]] \in Loop
      <3>1. f[k] \in Rest BY <1>7, <2>2
      <3>2. parents[f[k]] = f[k + 1] BY <1>5, <1>6, <2>2, <3>1 DEF Up
      <3>3. CASE k + 1 = j BY <1>11, <2>1, <3>1, <3>2, <3>3, <1>6
      <3>4. CASE k + 1 # j
        <4>1. k + 1 \in i..j - 1 BY <1>11, <1>3, <3>4
        <4> QED BY <1>6, <3>1, <3>2, <4>1
      <3> QED BY <3>3, <3>4
    <2> QED BY <2>1, <2>3 DEF Ring
  <1> QED BY <1>12 DEF NoRing

\* A new category, which none of the others has as its parent.
LEMMA AddedFits ==
  ASSUME NEW parents, NoRing(parents), NEW id, id \notin DOMAIN parents,
         \A i \in DOMAIN parents : parents[i] # id,
         NEW grown, DOMAIN grown = DOMAIN parents \cup {id}, grown[id] # id,
         \A i \in DOMAIN parents : grown[i] = parents[i]
  PROVE  NoRing(grown)
  <1> SUFFICES ASSUME NEW S, Ring(grown, S) PROVE FALSE BY DEF NoRing
  <1>1. Ring(parents, S \ {id})
    <2>1. S \ {id} # {} BY DEF Ring
    <2>2. ASSUME NEW i \in S \ {id} PROVE parents[i] \in S \ {id} BY DEF Ring
    <2> QED BY <2>1, <2>2 DEF Ring
  <1> QED BY <1>1 DEF NoRing

-----------------------------------------------------------------------------
(* Categories: what is below one. *)

IsRounds(f, n, cats, root) ==
  f = [i \in 0..n |-> IF i = 0 THEN {root} ELSE C!Grow(cats, f[i - 1])]

LEMMA RoundsExist ==
  ASSUME NEW N \in Nat, NEW cats, NEW root
  PROVE  \E f : IsRounds(f, N, cats, root)
  <1> DEFINE Bad == {n \in Nat : ~\E f : IsRounds(f, n, cats, root)}
  <1> SUFFICES ASSUME Bad # {} PROVE FALSE OBVIOUS
  <1>1. PICK n \in Bad : \A m \in Bad : n <= m
    <2>1. Bad \in SUBSET Nat OBVIOUS
    <2> QED BY <2>1, Least
  <1>2. n # 0
    <2>1. IsRounds([i \in 0..0 |-> {root}], 0, cats, root) BY DEF IsRounds
    <2> QED BY <1>1, <2>1
  <1>3. n - 1 \in Nat /\ n - 1 \notin Bad BY <1>1, <1>2
  <1>4. PICK f : IsRounds(f, n - 1, cats, root) BY <1>3
  <1> DEFINE g == [i \in 0..n |-> IF i = n THEN C!Grow(cats, f[n - 1]) ELSE f[i]]
  <1>5. IsRounds(g, n, cats, root)
    <2>1. ASSUME NEW i \in 0..n
          PROVE  g[i] = IF i = 0 THEN {root} ELSE C!Grow(cats, g[i - 1])
      <3>1. \A j \in 0..n - 1 : g[j] = f[j] BY <1>1
      <3>2. CASE i = n
        <4>1. g[n - 1] = f[n - 1] BY <3>1, <1>3
        <4> QED BY <4>1, <3>2, <1>2
      <3>3. CASE i = 0 BY <1>4, <3>1, <3>3, <1>2, <1>3 DEF IsRounds
      <3>4. CASE i # n /\ i # 0
        <4>1. i \in 0..n - 1 /\ i - 1 \in 0..n - 1 BY <3>4, <1>1
        <4>2. f[i] = C!Grow(cats, f[i - 1]) BY <4>1, <3>4, <1>4 DEF IsRounds
        <4> QED BY <4>1, <4>2, <3>1, <3>4
      <3> QED BY <3>2, <3>3, <3>4
    <2> HIDE DEF g
    <2>2. g = [i \in 0..n |-> g[i]] BY DEF g
    <2> QED BY <2>1, <2>2 DEF IsRounds
  <1> QED BY <1>1, <1>5

LEMMA DescendantsAre ==
  ASSUME NEW cats, NEW root
  PROVE  \E f : /\ IsRounds(f, Depth, cats, root)
                /\ C!descendantIds(cats, root) = f[Depth]
  <1> DEFINE round == CHOOSE f : IsRounds(f, Depth, cats, root)
  <1>1. C!descendantIds(cats, root) = round[Depth]
    <2>1. C!Cardinality(Ids) = Depth BY DepthIs
    <2> QED BY <2>1 DEF C!descendantIds, IsRounds
  <1>2. IsRounds(round, Depth, cats, root) BY RoundsExist, DepthIs
  <1> QED BY <1>1, <1>2

\* As many rounds as there are categories find the category itself and everything below it.
LEMMA NothingBelow ==
  ASSUME NEW cats, DOMAIN cats \subseteq Ids, NEW root \in Ids
  PROVE  /\ root \in C!descendantIds(cats, root) /\ C!descendantIds(cats, root) \subseteq Ids
         /\ C!Grow(cats, C!descendantIds(cats, root)) \subseteq C!descendantIds(cats, root)
  <1>1. PICK f : /\ IsRounds(f, Depth, cats, root)
                 /\ C!descendantIds(cats, root) = f[Depth]
    BY DescendantsAre
  <1>2. Depth \in Nat /\ IsFiniteSet(Ids) BY DepthIs
  <1>3. f[0] = {root} BY <1>1, <1>2 DEF IsRounds
  <1>4. \A i \in 1..Depth : i - 1 \in 0..Depth /\ f[i] = C!Grow(cats, f[i - 1])
    <2> SUFFICES ASSUME NEW i \in 1..Depth
                 PROVE  i - 1 \in 0..Depth /\ f[i] = C!Grow(cats, f[i - 1])
      OBVIOUS
    <2>1. i \in 0..Depth /\ i # 0 /\ i - 1 \in 0..Depth BY <1>2
    <2> QED BY <1>1, <2>1 DEF IsRounds
  <1> DEFINE Out == {i \in 0..Depth : ~(root \in f[i] /\ f[i] \subseteq Ids)}
  <1>5. Out = {}
    <2> SUFFICES ASSUME Out # {} PROVE FALSE OBVIOUS
    <2>1. PICK i \in Out : \A k \in Out : i <= k
      <3>1. Out \in SUBSET Nat BY <1>2
      <3> QED BY <3>1, Least
    <2>2. i # 0 BY <1>3, <2>1
    <2>3. i \in 1..Depth /\ i - 1 \in 0..Depth BY <1>2, <2>1, <2>2
    <2>4. i - 1 \notin Out
      <3> SUFFICES ASSUME i - 1 \in Out PROVE FALSE OBVIOUS
      <3>1. i <= i - 1 BY <2>1
      <3> QED BY <2>1, <3>1
    <2> QED BY <1>4, <2>1, <2>3, <2>4 DEF C!Grow
  <1>6. \A i \in 0..Depth : IsFiniteSet(f[i]) /\ Cardinality(f[i]) \in Nat
    BY <1>2, <1>5, FS_Subset, FS_CardinalityType
  \* Some round adds nothing.
  <1>7. \E i \in 1..Depth : f[i] = f[i - 1]
    <2> DEFINE Small == {i \in 0..Depth : Cardinality(f[i]) < i + 1}
    <2>1. Depth \in Small
      <3>1. Depth \in 0..Depth /\ f[Depth] \subseteq Ids BY <1>2, <1>5
      <3>2. Cardinality(f[Depth]) <= Depth BY <1>2, <3>1, FS_Subset DEF Depth
      <3> QED BY <1>2, <1>6, <3>1, <3>2
    <2>2. PICK i \in Small : \A k \in Small : i <= k
      <3>1. Small \in SUBSET Nat BY <1>2
      <3> HIDE DEF Small
      <3> QED BY <2>1, <3>1, Least
    <2>3. i # 0
      <3>1. Cardinality(f[0]) = 1 BY <1>3, FS_Singleton
      <3> QED BY <2>2, <3>1
    <2>4. i \in 1..Depth /\ i - 1 \in 0..Depth BY <1>2, <2>2, <2>3
    <2>5. i - 1 \notin Small
      <3> SUFFICES ASSUME i - 1 \in Small PROVE FALSE OBVIOUS
      <3>1. i <= i - 1 BY <2>2
      <3> QED BY <2>2, <3>1
    <2>6. Cardinality(f[i]) <= Cardinality(f[i - 1])
      <3>1. ~(Cardinality(f[i - 1]) < i) BY <2>4, <2>5
      <3> QED BY <1>6, <2>2, <2>4, <3>1
    <2>7. f[i - 1] \in SUBSET f[i] BY <1>4, <2>4 DEF C!Grow
    <2>8. IsFiniteSet(f[i]) /\ Cardinality(f[i]) \in Nat /\ Cardinality(f[i - 1]) \in Nat
      BY <1>6, <2>2, <2>4
    <2>9. f[i] = f[i - 1]
      <3>1. Cardinality(f[i - 1]) <= Cardinality(f[i]) BY <2>7, <2>8, FS_Subset
      <3>2. Cardinality(f[i - 1]) = Cardinality(f[i]) BY <2>6, <2>8, <3>1
      <3> QED BY <2>7, <2>8, <3>2, FS_Subset
    <2> QED BY <2>4, <2>9
  <1>8. PICK m \in 1..Depth : f[m] = f[m - 1] BY <1>7
  \* And none after it.
  <1> DEFINE Changed == {i \in 0..Depth : m <= i /\ f[i] # f[m]}
  <1>9. Changed = {}
    <2> SUFFICES ASSUME Changed # {} PROVE FALSE OBVIOUS
    <2>1. PICK i \in Changed : \A k \in Changed : i <= k
      <3>1. Changed \in SUBSET Nat BY <1>2
      <3> QED BY <3>1, Least
    <2>2. i # m BY <2>1
    <2>3. i \in 1..Depth /\ i - 1 \in 0..Depth /\ m <= i - 1 BY <1>2, <1>8, <2>1, <2>2
    <2>4. i - 1 \notin Changed
      <3> SUFFICES ASSUME i - 1 \in Changed PROVE FALSE OBVIOUS
      <3>1. i <= i - 1 BY <2>1
      <3> QED BY <2>1, <3>1
    <2>5. f[i] = C!Grow(cats, f[m]) BY <1>4, <2>3, <2>4
    <2>6. f[m] = C!Grow(cats, f[m]) BY <1>4, <1>8
    <2> QED BY <2>1, <2>5, <2>6
  <1>10. f[Depth] = f[m] /\ Depth \in 0..Depth BY <1>2, <1>8, <1>9
  <1>11. f[m] = C!Grow(cats, f[m]) BY <1>4, <1>8
  <1> QED BY <1>1, <1>5, <1>10, <1>11

\* A category that moves to a parent that is not below it.
LEMMA ChosenFits ==
  ASSUME NEW cats, DOMAIN cats \subseteq Ids, NoRing(C!parentsOf(cats)),
         NEW id \in DOMAIN cats, NEW p, p \notin C!descendantIds(cats, id),
         NEW moved, DOMAIN moved = DOMAIN cats, moved[id] = p,
         \A i \in DOMAIN cats \ {id} : moved[i] = cats[i].parent
  PROVE  NoRing(moved)
  <1> SUFFICES ASSUME NEW S, Ring(moved, S) PROVE FALSE BY DEF NoRing
  <1> DEFINE D == C!descendantIds(cats, id)
  <1>1. id \in D /\ C!Grow(cats, D) \subseteq D BY NothingBelow
  <1>2. \A i \in DOMAIN cats : C!parentsOf(cats)[i] = cats[i].parent BY DEF C!parentsOf
  <1>3. DOMAIN C!parentsOf(cats) = DOMAIN cats BY DEF C!parentsOf
  <1> HIDE DEF D
  <1>4. id \in S
    <2> SUFFICES ASSUME id \notin S PROVE FALSE OBVIOUS
    <2>1. Ring(C!parentsOf(cats), S) BY <1>2, <1>3 DEF Ring
    <2> QED BY <2>1 DEF NoRing
  <1>5. Ring(C!parentsOf(cats), S \ D)
    <2>1. p \in S \ D BY <1>4 DEF Ring, D
    <2>2. ASSUME NEW i \in S \ D PROVE C!parentsOf(cats)[i] \in S \ D
      <3>1. i # id /\ i \in DOMAIN cats BY <1>1 DEF Ring
      <3>2. cats[i].parent \in S BY <3>1 DEF Ring
      <3>3. cats[i].parent \notin D BY <1>1, <3>1 DEF C!Grow
      <3> QED BY <1>2, <3>1, <3>2, <3>3
    <2> QED BY <1>3, <2>1, <2>2 DEF Ring
  <1> QED BY <1>5 DEF NoRing

-----------------------------------------------------------------------------
(* Categories: the inductive invariant. *)

\* The lists of categories with ids of D: every parent is in the list, and no one is below itself.
Lists(D) == UNION {[S -> [name : Names, parent : S \cup {None}]] : S \in SUBSET D}
Trees(D) == {cats \in Lists(D) : NoRing(C!parentsOf(cats))}
TagLists(D) == UNION {[S -> C!Tag] : S \in SUBSET D}
ParentMaps == UNION {[S -> C!Parents] : S \in SUBSET Ids}
TagReads(D) == [phase : {"none", "sent", "answered"}, answer : TagLists(D), changed : SUBSET Ids]

TreeDialogs ==
  [kind : {"closed", "create", "edit"}, id : Ids \cup {C!New}, opened : C!Fields \cup {None},
   openedTag : C!Tag \cup {Unknown}, saving : BOOLEAN,
   error : {None, "conflict", "cycle", "generic"}]
TreeRequests ==
  [phase : {"sent", "checking", "answered"}, kind : {"create", "edit"}, id : Ids \cup {C!New},
   expected : C!Fields \cup {None}, next : C!Fields, tag : [expected : C!Tag, next : C!Tag],
   parents : ParentMaps, answer : {None, "ok", "error", "not-found", "cycle", "conflict"},
   newest : BOOLEAN, orphan : BOOLEAN]

TreeTyped ==
  /\ tree \in Trees(Ids)
  /\ tags \in [DOMAIN tree -> C!Tag]
  /\ treeLock \in C!Saves \cup {None}
  /\ uses \in 0..MaxTreeUses
  /\ shownTree \in [TreeTabs -> Trees(DOMAIN tree)]
  /\ knownTags \in [TreeTabs -> TagLists(DOMAIN tree) \cup {None}]
  /\ outdatedTree \in [TreeTabs -> SUBSET Ids]
  /\ outdatedTags \in [TreeTabs -> SUBSET Ids]
  /\ tagLoads \in [TreeTabs -> [C!Owners -> TagReads(DOMAIN tree)]]
  /\ treeDialog \in [TreeTabs -> TreeDialogs]
  /\ treeRequest \in [C!Saves -> TreeRequests \cup {C!Idle}]

\* The list stands still under an open dialog, which has seen its tag in the tab's tags.
DialogStands(t) ==
  LET d == treeDialog[t] IN
  /\ d.kind = "edit" => d.id \in DOMAIN shownTree[t] /\ d.opened = shownTree[t][d.id]
  /\ d.kind # "closed" /\ d.openedTag # Unknown => knownTags[t] # None

\* CategoriesFit, tab by tab.
ShowsTree(t) ==
  /\ \A id \in DOMAIN shownTree[t] \ outdatedTree[t] : shownTree[t][id] = tree[id]
  /\ knownTags[t] # None => \A id \in DOMAIN tree \ outdatedTags[t] :
        C!TagOf(knownTags[t], id) = tags[id]

\* Tags that were read differ from the stored ones only where these changed since.
ReadStands(load) ==
  load.phase = "answered" => \A id \in DOMAIN tree \ load.changed : C!TagOf(load.answer, id) = tags[id]

TabStands(t) ==
  /\ DialogStands(t) /\ ShowsTree(t)
  /\ \A who \in C!Owners : ReadStands(tagLoads[t][who])

\* A save that the server has not decided on, and the one that has read the tree.
Undecided(q) ==
  LET r == treeRequest[q] IN
  C!Phase(q) \in {"sent", "checking"} =>
    /\ r.next.parent \in DOMAIN tree \cup {None}
    /\ r.kind = "edit" => r.id \in DOMAIN tree
HoldsTree(q) ==
  C!Phase(q) = "checking" =>
    treeRequest[q].kind = "edit" /\ treeLock = q /\ treeRequest[q].parents = C!parentsOf(tree)

\* A save that took place and that its tab has not heard of.
Decided(q) == C!Phase(q) = "answered" /\ treeRequest[q].answer = "ok"
Stands(q) ==
  LET r == treeRequest[q] IN
  Decided(q) =>
    /\ r.id \in DOMAIN tree
    /\ r.newest => tree[r.id] = r.next /\ tags[r.id] = r.tag.next

\* A save whose page is still there: dialog and list are those it was made from.
Own(q) == C!Phase(q) # "idle" /\ ~treeRequest[q].orphan
MayHave(t, id) ==
  (DOMAIN shownTree[t] \ C!descendantIds(shownTree[t], id)) \cup {None, shownTree[t][id].parent}
OnPage(q) ==
  LET r == treeRequest[q]
      t == q[1]
  IN
  Own(q) =>
    /\ treeDialog[t].saving /\ treeDialog[t].kind # "closed" /\ treeDialog[t].opened = r.expected
    /\ r.kind = "edit" => /\ r.id \in DOMAIN shownTree[t] /\ shownTree[t][r.id] = r.expected
                          /\ r.next.parent \in MayHave(t, r.id)
    /\ r.kind = "create" => /\ r.next.parent \in DOMAIN shownTree[t] \cup {None}
                            /\ Decided(q) => r.id \notin DOMAIN shownTree[t]
    /\ Decided(q) => r.id \in outdatedTree[t]

SaveStands(q) ==
  /\ C!Phase(q) # "idle" => knownTags[q[1]] # None
  /\ Undecided(q) /\ HoldsTree(q) /\ Stands(q) /\ OnPage(q)

\* One save at a time is the tab's dialog's own.
OneOwn == \A q, p \in C!Saves : Own(q) /\ Own(p) /\ q[1] = p[1] => q = p

TreeInv ==
  /\ TreeTyped
  /\ \A t \in TreeTabs : TabStands(t)
  /\ \A q \in C!Saves : SaveStands(q)
  /\ OneOwn

-----------------------------------------------------------------------------
(* Categories: facts about the types. *)

LEMMA TreeConstants ==
  /\ Ids \subseteq Nat \ {0} /\ First \subseteq Ids /\ IsFiniteSet(Ids)
  /\ None \notin C!Saves /\ None \notin Ids /\ C!New \notin Ids
  /\ \A D \in SUBSET Ids : None \notin TagLists(D)
  /\ MaxTreeUses \in Nat
  BY PartsFit, DepthIs DEF C!ConstantsFit, C!New, TagLists, C!Tag, C!Saves

LEMMA SavesAre ==
  /\ \A q \in C!Saves : q[1] \in TreeTabs
  /\ \A t \in TreeTabs, s \in Slots : <<t, s>> \in C!Saves /\ <<t, s>>[1] = t
  BY DEF C!Saves

LEMMA ListsAre ==
  ASSUME NEW D, NEW cats
  PROVE  cats \in Lists(D) <=> /\ DOMAIN cats \subseteq D
                               /\ cats \in [DOMAIN cats -> [name : Names, parent : DOMAIN cats \cup {None}]]
  BY DEF Lists

LEMMA TagListsAre ==
  ASSUME NEW D, NEW known
  PROVE  known \in TagLists(D) <=> DOMAIN known \subseteq D /\ known \in [DOMAIN known -> C!Tag]
  BY DEF TagLists

LEMMA TreesHave ==
  ASSUME NEW D, NEW cats \in Trees(D)
  PROVE  /\ DOMAIN cats \subseteq D /\ NoRing(C!parentsOf(cats))
         /\ \A id \in DOMAIN cats :
              /\ cats[id] \in [name : Names, parent : DOMAIN cats \cup {None}]
              /\ cats[id].parent \in DOMAIN cats \cup {None}
  <1>1. cats \in Lists(D) /\ NoRing(C!parentsOf(cats)) BY DEF Trees
  <1>2. cats \in [DOMAIN cats -> [name : Names, parent : DOMAIN cats \cup {None}]]
    BY <1>1, ListsAre
  <1> QED BY <1>1, <1>2, ListsAre

LEMMA TreesWiden ==
  ASSUME NEW D, NEW E, D \subseteq E
  PROVE  /\ Trees(D) \subseteq Trees(E) /\ TagLists(D) \subseteq TagLists(E)
         /\ TagReads(D) \subseteq TagReads(E)
  <1>1. Trees(D) \subseteq Trees(E) /\ TagLists(D) \subseteq TagLists(E)
    BY ListsAre, TagListsAre DEF Trees
  <1> QED BY <1>1 DEF TagReads

LEMMA FieldsAre ==
  ASSUME NEW D \in SUBSET Ids, NEW f \in [name : Names, parent : D \cup {None}]
  PROVE  f \in C!Fields
  BY DEF C!Fields, C!Parents

LEMMA TreeRequestIs ==
  ASSUME NEW q \in C!Saves, treeRequest[q] \in TreeRequests \cup {C!Idle}, C!Phase(q) # "idle"
  PROVE  treeRequest[q] \in TreeRequests
  BY DEF C!Phase, C!Idle

LEMMA EmptyParents == << >> \in ParentMaps
  <1>1. << >> = [i \in {} |-> i] OBVIOUS
  <1>2. << >> \in [{} -> C!Parents] BY <1>1
  <1> QED BY <1>2 DEF ParentMaps

LEMMA AsleepReads ==
  ASSUME NEW D
  PROVE  /\ C!Asleep \in TagReads(D) /\ C!Asked \in TagReads(D)
         /\ C!Asleep.phase = "none" /\ C!Asked.phase = "sent"
         /\ \A who : C!Asking(who) \in [C!Owners -> TagReads(D)]
         /\ \A who : \A o \in C!Owners : C!Asking(who)[o].phase # "answered"
  <1>1. << >> \in TagLists(D)
    <2>1. << >> = [i \in {} |-> i] OBVIOUS
    <2>2. << >> \in [{} -> C!Tag] BY <2>1
    <2> QED BY <2>2 DEF TagLists
  <1>2. /\ C!Asleep \in TagReads(D) /\ C!Asked \in TagReads(D)
        /\ C!Asleep.phase = "none" /\ C!Asked.phase = "sent"
    BY <1>1 DEF C!Asleep, C!Asked, TagReads
  <1> QED BY <1>2 DEF C!Asking

LEMMA ClosedIs == C!Closed \in TreeDialogs /\ C!Closed.kind = "closed"
  BY DEF C!Closed, TreeDialogs, C!New, C!Tag

\* A load of one tab that is set.
LEMMA LoadSet ==
  ASSUME TreeTyped, NEW t \in TreeTabs, NEW who \in C!Owners, NEW load \in TagReads(DOMAIN tree),
         tagLoads' = [tagLoads EXCEPT ![t][who] = load]
  PROVE  /\ tagLoads' \in [TreeTabs -> [C!Owners -> TagReads(DOMAIN tree)]]
         /\ tagLoads'[t][who] = load
         /\ \A u \in TreeTabs, o \in C!Owners : u # t \/ o # who => tagLoads'[u][o] = tagLoads[u][o]
  BY DEF TreeTyped

-----------------------------------------------------------------------------
(* Categories: what a step leaves alone. *)

LEMMA InitTree == C!Init => TreeInv
  <1> SUFFICES ASSUME C!Init PROVE TreeInv OBVIOUS
  <1>1. DOMAIN tree = First /\ \A id \in First : tree[id].parent = None BY DEF C!Init
  <1>2. NoRing(C!parentsOf(tree))
    <2> SUFFICES ASSUME NEW S, Ring(C!parentsOf(tree), S) PROVE FALSE BY DEF NoRing
    <2>1. PICK id \in S : id \in First /\ C!parentsOf(tree)[id] \in S
      BY <1>1 DEF Ring, C!parentsOf
    <2>2. C!parentsOf(tree)[id] = None BY <1>1, <2>1 DEF C!parentsOf
    <2> QED BY <1>1, <2>1, <2>2, TreeConstants DEF Ring, C!parentsOf
  <1>3. tree \in Trees(First)
    <2>1. \A id \in First : tree[id] \in [name : Names, parent : First \cup {None}]
      BY PartsFit DEF C!Init, C!ConstantsFit
    <2>2. tree = [id \in First |-> tree[id]] BY DEF C!Init
    <2>3. tree \in [First -> [name : Names, parent : First \cup {None}]] BY <2>1, <2>2
    <2> QED BY <1>1, <1>2, <2>3, ListsAre DEF Trees
  <1>4. /\ \A t \in TreeTabs, who \in C!Owners : tagLoads[t][who].phase # "answered"
        /\ tagLoads \in [TreeTabs -> [C!Owners -> TagReads(DOMAIN tree)]]
    <2>1. tagLoads \in [TreeTabs -> {C!Asking({}), C!Asking({"page"})}] BY DEF C!Init
    <2>2. ASSUME NEW t \in TreeTabs
          PROVE  /\ tagLoads[t] \in [C!Owners -> TagReads(DOMAIN tree)]
                 /\ \A who \in C!Owners : tagLoads[t][who].phase # "answered"
      <3>1. PICK asking : tagLoads[t] = C!Asking(asking) BY <2>1
      <3>2. C!Asking(asking) \in [C!Owners -> TagReads(DOMAIN tree)] BY AsleepReads
      <3>3. \A who \in C!Owners : C!Asking(asking)[who].phase # "answered" BY AsleepReads
      <3> QED BY ONLY <3>1, <3>2, <3>3
    <2> QED BY <2>1, <2>2
  <1>5. TreeTyped
    <2>1. tree \in Trees(Ids) BY <1>3, TreesWiden, TreeConstants
    <2>2. tags \in [DOMAIN tree -> C!Tag] BY <1>1 DEF C!Init, C!Tag
    <2>3. 0 \in 0..MaxTreeUses BY TreeConstants
    <2> QED BY <1>1, <1>3, <1>4, <2>1, <2>2, <2>3, ClosedIs DEF C!Init, TreeTyped
  <1>6. ASSUME NEW t \in TreeTabs PROVE TabStands(t)
    <2>1. treeDialog[t].kind = "closed" BY ClosedIs DEF C!Init
    <2>2. knownTags[t] = None /\ shownTree[t] = tree BY DEF C!Init
    <2> QED BY <1>4, <2>1, <2>2 DEF TabStands, DialogStands, ShowsTree, ReadStands
  <1>7. \A q \in C!Saves : C!Phase(q) = "idle" BY DEF C!Init, C!Idle, C!Phase
  <1>8. \A q \in C!Saves : SaveStands(q)
    BY <1>7 DEF SaveStands, Undecided, HoldsTree, Stands, Decided, OnPage, Own
  <1>9. OneOwn BY <1>7 DEF OneOwn, Own
  <1> QED BY <1>5, <1>6, <1>8, <1>9 DEF TreeInv

\* A tab whose own state and whose view of the tables is unchanged.
LEMMA TabKept ==
  ASSUME NEW u \in TreeTabs, TabStands(u), UNCHANGED <<tree, tags>>,
         shownTree'[u] = shownTree[u], knownTags'[u] = knownTags[u],
         outdatedTree'[u] = outdatedTree[u], outdatedTags'[u] = outdatedTags[u],
         \A who \in C!Owners : \/ tagLoads'[u][who] = tagLoads[u][who]
                               \/ tagLoads'[u][who].phase # "answered",
         treeDialog'[u] = treeDialog[u]
  PROVE  TabStands(u)'
  <1>1. DialogStands(u)' BY DEF TabStands, DialogStands
  <1>2. ShowsTree(u)' BY DEF TabStands, ShowsTree
  <1>3. \A who \in C!Owners : ReadStands(tagLoads[u][who])' BY DEF TabStands, ReadStands
  <1> QED BY <1>1, <1>2, <1>3 DEF TabStands

\* A save that is unchanged, and whose page is.
PageKept(t) ==
  /\ shownTree'[t] = shownTree[t] /\ outdatedTree'[t] = outdatedTree[t]
  /\ treeDialog'[t].saving = treeDialog[t].saving /\ treeDialog'[t].kind = treeDialog[t].kind
  /\ treeDialog'[t].opened = treeDialog[t].opened

LEMMA SaveKept ==
  ASSUME NEW q \in C!Saves, SaveStands(q), UNCHANGED <<tree, tags>>,
         treeRequest'[q] = treeRequest[q],
         knownTags[q[1]] # None => knownTags'[q[1]] # None,
         C!Phase(q) = "checking" => treeLock' = treeLock,
         Own(q) => PageKept(q[1])
  PROVE  SaveStands(q)' /\ Own(q)' = Own(q)
  <1>1. C!Phase(q)' = C!Phase(q) BY DEF C!Phase
  <1>2. Undecided(q)' /\ HoldsTree(q)' BY <1>1 DEF SaveStands, Undecided, HoldsTree
  <1>3. Decided(q)' = Decided(q) /\ Own(q)' = Own(q) BY <1>1 DEF Decided, Own
  <1>4. Stands(q)' BY <1>3 DEF SaveStands, Stands
  <1>5. OnPage(q)'
    <2>1. CASE ~Own(q) BY <1>3, <2>1 DEF OnPage
    <2>2. CASE Own(q)
      <3>1. MayHave(q[1], treeRequest[q].id)' = MayHave(q[1], treeRequest[q].id)
        BY <2>2 DEF MayHave, PageKept
      <3> QED BY <1>3, <2>2, <3>1 DEF SaveStands, OnPage, PageKept
    <2> QED BY <2>1, <2>2
  <1> QED BY <1>1, <1>2, <1>3, <1>4, <1>5 DEF SaveStands

\* A step of one tab that leaves the tables and the saves alone.
LEMMA TabStepTree ==
  ASSUME TreeInv, TreeTyped', NEW t \in TreeTabs, UNCHANGED <<tree, tags, treeLock, treeRequest>>,
         \A u \in TreeTabs \ {t} :
           /\ shownTree'[u] = shownTree[u] /\ knownTags'[u] = knownTags[u]
           /\ outdatedTree'[u] = outdatedTree[u] /\ outdatedTags'[u] = outdatedTags[u]
           /\ treeDialog'[u] = treeDialog[u]
           /\ \A who \in C!Owners : tagLoads'[u][who] = tagLoads[u][who],
         TabStands(t)',
         knownTags[t] # None => knownTags'[t] # None,
         PageKept(t) \/ ~treeDialog[t].saving \/ treeDialog[t].kind = "closed"
  PROVE  TreeInv'
  <1>1. \A u \in TreeTabs : TabStands(u)' BY TabKept DEF TreeInv
  <1>2. ASSUME NEW q \in C!Saves PROVE SaveStands(q)' /\ Own(q)' = Own(q)
    <2>1. SaveStands(q) BY DEF TreeInv
    <2>2. q[1] \in TreeTabs BY SavesAre
    <2>3. Own(q) => PageKept(q[1])
      <3>1. CASE q[1] = t BY <2>1, <3>1 DEF SaveStands, OnPage
      <3>2. CASE q[1] # t BY <2>2, <3>2 DEF PageKept
      <3> QED BY <3>1, <3>2
    <2>4. knownTags[q[1]] # None => knownTags'[q[1]] # None BY <2>2
    <2> QED BY <2>1, <2>3, <2>4, SaveKept
  <1>3. OneOwn' BY <1>2 DEF TreeInv, OneOwn
  <1> QED BY <1>1, <1>2, <1>3 DEF TreeInv

-----------------------------------------------------------------------------
(* Categories: the page and the dialog. *)

LEMMA ChangePageTree ==
  ASSUME TreeInv, NEW t \in TreeTabs, C!ChangePage(t) PROVE TreeInv'
  <1>1. TreeTyped /\ TabStands(t) BY DEF TreeInv
  <1>2. PICK who : /\ UNCHANGED <<tree, tags, treeLock, knownTags, outdatedTags, uses>>
                   /\ shownTree' = [shownTree EXCEPT ![t] = tree]
                   /\ outdatedTree' = [outdatedTree EXCEPT ![t] = {}]
                   /\ treeDialog' = [treeDialog EXCEPT ![t] = C!Closed]
                   /\ tagLoads' = [tagLoads EXCEPT ![t] = C!Asking(who)]
    BY DEF C!ChangePage
  <1>3. \A q \in C!Saves : treeRequest'[q] =
            IF q[1] = t /\ C!Phase(q) # "idle" THEN [treeRequest[q] EXCEPT !.orphan = TRUE]
            ELSE treeRequest[q]
    BY DEF C!ChangePage
  <1>4. \A r \in TreeRequests :
          LET s == [r EXCEPT !.orphan = TRUE]
          IN  /\ s \in TreeRequests /\ s.orphan /\ s.phase = r.phase /\ s.kind = r.kind
              /\ s.id = r.id /\ s.next = r.next /\ s.tag = r.tag /\ s.parents = r.parents
              /\ s.answer = r.answer /\ s.newest = r.newest
    BY DEF TreeRequests
  <1>5. ASSUME NEW q \in C!Saves, q[1] = t, C!Phase(q) # "idle"
        PROVE  treeRequest[q] \in TreeRequests
    <2>1. treeRequest[q] \in TreeRequests \cup {C!Idle} BY <1>1 DEF TreeTyped
    <2> QED BY <1>5, <2>1, TreeRequestIs
  <1>6. TreeTyped'
    <2>1. tree \in Trees(DOMAIN tree) BY <1>1, TreesHave, ListsAre DEF TreeTyped, Trees
    <2>2. treeRequest' \in [C!Saves -> TreeRequests \cup {C!Idle}]
      <3>1. DOMAIN treeRequest' = C!Saves /\ treeRequest' = [q \in C!Saves |-> treeRequest'[q]]
        BY DEF C!ChangePage
      <3>2. ASSUME NEW q \in C!Saves PROVE treeRequest'[q] \in TreeRequests \cup {C!Idle}
        <4>1. CASE q[1] = t /\ C!Phase(q) # "idle"
          <5>1. treeRequest'[q] = [treeRequest[q] EXCEPT !.orphan = TRUE] BY <1>3, <4>1
          <5>2. treeRequest[q] \in TreeRequests BY <1>5, <4>1
          <5> QED BY ONLY <1>4, <5>1, <5>2
        <4>2. CASE ~(q[1] = t /\ C!Phase(q) # "idle")
          <5>1. treeRequest'[q] = treeRequest[q] BY <1>3, <4>2
          <5> QED BY <1>1, <5>1 DEF TreeTyped
        <4> QED BY <4>1, <4>2
      <3> QED BY <3>1, <3>2
    <2>3. tagLoads' \in [TreeTabs -> [C!Owners -> TagReads(DOMAIN tree)]]
      BY <1>1, <1>2, AsleepReads DEF TreeTyped
    <2> QED BY <1>1, <1>2, <2>1, <2>2, <2>3, ClosedIs DEF TreeTyped
  <1>7. /\ shownTree'[t] = tree /\ outdatedTree'[t] = {} /\ treeDialog'[t] = C!Closed
        /\ knownTags'[t] = knownTags[t] /\ outdatedTags'[t] = outdatedTags[t]
        /\ \A o \in C!Owners : tagLoads'[t][o].phase # "answered"
    BY <1>1, <1>2, AsleepReads DEF TreeTyped
  <1>8. TabStands(t)'
    <2>1. DialogStands(t)' BY <1>7, ClosedIs DEF DialogStands
    <2>2. ShowsTree(t)' BY <1>1, <1>2, <1>7 DEF TabStands, ShowsTree
    <2> QED BY <1>7, <2>1, <2>2 DEF TabStands, ReadStands
  <1>9. ASSUME NEW u \in TreeTabs, u # t PROVE TabStands(u)'
    <2>1. /\ shownTree'[u] = shownTree[u] /\ knownTags'[u] = knownTags[u]
          /\ outdatedTree'[u] = outdatedTree[u] /\ outdatedTags'[u] = outdatedTags[u]
          /\ treeDialog'[u] = treeDialog[u] /\ tagLoads'[u] = tagLoads[u]
      BY <1>1, <1>2, <1>9 DEF TreeTyped
    <2> QED BY <1>2, <2>1, TabKept DEF TreeInv
  <1>10. ASSUME NEW q \in C!Saves PROVE SaveStands(q)' /\ (Own(q)' => Own(q))
    <2>1. SaveStands(q) /\ q[1] \in TreeTabs BY SavesAre DEF TreeInv
    <2>2. CASE q[1] = t /\ C!Phase(q) # "idle"
      <3>1. /\ treeRequest[q] \in TreeRequests
            /\ treeRequest'[q] = [treeRequest[q] EXCEPT !.orphan = TRUE]
        BY <1>3, <1>5, <2>2
      <3> DEFINE r == treeRequest[q]
                 s == treeRequest'[q]
      <3>2. /\ s.orphan /\ s.phase = r.phase /\ s.kind = r.kind /\ s.id = r.id /\ s.next = r.next
            /\ s.tag = r.tag /\ s.parents = r.parents /\ s.answer = r.answer /\ s.newest = r.newest
        BY <1>4, <3>1
      <3>3. C!Phase(q)' = C!Phase(q) /\ ~Own(q)' BY <3>2 DEF C!Phase, Own
      <3>4. Undecided(q)' BY <1>2, <2>1, <3>2, <3>3 DEF SaveStands, Undecided
      <3>5. HoldsTree(q)' BY <1>2, <2>1, <3>2, <3>3 DEF SaveStands, HoldsTree
      <3>6. Stands(q)' BY <1>2, <2>1, <3>2, <3>3 DEF SaveStands, Stands, Decided
      <3> QED BY <1>2, <2>1, <3>3, <3>4, <3>5, <3>6 DEF SaveStands, OnPage
    <2>3. CASE ~(q[1] = t /\ C!Phase(q) # "idle")
      <3>1. treeRequest'[q] = treeRequest[q] BY <1>3, <2>3
      <3>2. Own(q) => PageKept(q[1])
        <4>1. Own(q) => q[1] # t BY <2>3 DEF Own
        <4> QED BY <1>1, <1>2, <2>1, <4>1 DEF PageKept, TreeTyped
      <3>3. SaveStands(q)' /\ Own(q)' = Own(q) BY <1>2, <2>1, <3>1, <3>2, SaveKept
      <3> QED BY <3>3
    <2> QED BY <2>2, <2>3
  <1>11. OneOwn' BY <1>10 DEF TreeInv, OneOwn
  <1> QED BY <1>6, <1>8, <1>9, <1>10, <1>11 DEF TreeInv

\* Steps in which a tab handles its dialog and what it loads.
LEMMA DialogStepTree ==
  ASSUME TreeInv, NEW t \in TreeTabs,
         UNCHANGED <<tree, tags, treeLock, shownTree, knownTags, outdatedTree, outdatedTags, treeRequest, uses>>,
         NEW d \in TreeDialogs, treeDialog' = [treeDialog EXCEPT ![t] = d],
         d.kind = "edit" => d.id \in DOMAIN shownTree[t] /\ d.opened = shownTree[t][d.id],
         d.kind # "closed" /\ d.openedTag # Unknown => knownTags[t] # None,
         ~treeDialog[t].saving \/ treeDialog[t].kind = "closed",
         \/ tagLoads' = tagLoads
         \/ \E load \in {C!Asleep, C!Asked} : tagLoads' = [tagLoads EXCEPT ![t]["dialog"] = load]
  PROVE  TreeInv'
  <1>1. TreeTyped /\ TabStands(t) BY DEF TreeInv
  <1>2. /\ tagLoads' \in [TreeTabs -> [C!Owners -> TagReads(DOMAIN tree)]]
        /\ \A u \in TreeTabs, o \in C!Owners :
             \/ tagLoads'[u][o] = tagLoads[u][o]
             \/ u = t /\ tagLoads'[u][o].phase # "answered"
    <2>1. CASE tagLoads' = tagLoads BY <1>1, <2>1 DEF TreeTyped
    <2>2. CASE tagLoads' # tagLoads
      <3>1. PICK load \in {C!Asleep, C!Asked} : tagLoads' = [tagLoads EXCEPT ![t]["dialog"] = load]
        BY <2>2
      <3>2. load \in TagReads(DOMAIN tree) /\ load.phase # "answered" BY AsleepReads
      <3>3. "dialog" \in C!Owners BY DEF C!Owners
      <3>4. /\ tagLoads' \in [TreeTabs -> [C!Owners -> TagReads(DOMAIN tree)]]
            /\ tagLoads'[t]["dialog"] = load
            /\ \A u \in TreeTabs, o \in C!Owners :
                 u # t \/ o # "dialog" => tagLoads'[u][o] = tagLoads[u][o]
        <4>1. TreeTyped /\ t \in TreeTabs BY <1>1
        <4>2. load \in TagReads(DOMAIN tree) BY <3>2
        <4> HIDE DEF C!Asleep, C!Asked
        <4> QED BY ONLY <3>1, <3>3, <4>1, <4>2 DEF TreeTyped
      <3> QED BY <3>2, <3>4
    <2> QED BY <2>1, <2>2
  <1>3. TreeTyped' BY <1>1, <1>2 DEF TreeTyped
  <1>4. treeDialog'[t] = d /\ \A u \in TreeTabs \ {t} : treeDialog'[u] = treeDialog[u]
    BY <1>1 DEF TreeTyped
  <1>5. TabStands(t)'
    <2>1. DialogStands(t)' BY <1>4 DEF DialogStands
    <2>2. ShowsTree(t)' BY <1>1 DEF TabStands, ShowsTree
    <2>3. \A who \in C!Owners : ReadStands(tagLoads[t][who])' BY <1>1, <1>2 DEF TabStands, ReadStands
    <2> QED BY <2>1, <2>2, <2>3 DEF TabStands
  <1>6. \A u \in TreeTabs \ {t} : \A who \in C!Owners : tagLoads'[u][who] = tagLoads[u][who]
    BY <1>2
  <1> QED BY <1>3, <1>4, <1>5, <1>6, TabStepTree

LEMMA OpenedIs ==
  ASSUME NEW kind \in {"closed", "create", "edit"}, NEW id \in Ids \cup {C!New},
         NEW opened \in C!Fields \cup {None}, NEW tag \in C!Tag \cup {Unknown}
  PROVE  [C!Closed EXCEPT !.kind = kind, !.id = id, !.opened = opened, !.openedTag = tag]
            \in TreeDialogs
  BY DEF C!Closed, TreeDialogs

LEMMA OpenDialogTree ==
  ASSUME TreeInv, NEW t \in TreeTabs, NEW kind, NEW id,
         \/ kind = "create" /\ id = C!New
         \/ kind = "edit" /\ id \in DOMAIN shownTree[t],
         C!OpenDialog(t, kind, id)
  PROVE  TreeInv'
  <1>1. TreeTyped /\ TabStands(t) BY DEF TreeInv
  <1> DEFINE d == [C!Closed EXCEPT !.kind = kind, !.id = id,
                     !.opened = IF kind = "edit" THEN shownTree[t][id] ELSE None,
                     !.openedTag = IF knownTags[t] = None THEN Unknown ELSE C!TagOf(knownTags[t], id)]
  <1>2. treeDialog' = [treeDialog EXCEPT ![t] = d] BY DEF C!OpenDialog
  <1>3. /\ d.kind = kind /\ d.id = id /\ ~d.saving /\ d.error = None
        /\ d.opened = IF kind = "edit" THEN shownTree[t][id] ELSE None
        /\ d.openedTag = IF knownTags[t] = None THEN Unknown ELSE C!TagOf(knownTags[t], id)
    BY DEF C!Closed
  <1>4. shownTree[t] \in Trees(DOMAIN tree) /\ DOMAIN tree \subseteq Ids
    BY <1>1, TreesHave DEF TreeTyped
  <1>5. kind = "edit" => id \in Ids /\ shownTree[t][id] \in C!Fields
    <2> SUFFICES ASSUME kind = "edit" PROVE id \in Ids /\ shownTree[t][id] \in C!Fields OBVIOUS
    <2>1. id \in DOMAIN shownTree[t] OBVIOUS
    <2>2. /\ DOMAIN shownTree[t] \subseteq DOMAIN tree
          /\ shownTree[t][id] \in [name : Names, parent : DOMAIN shownTree[t] \cup {None}]
      BY <1>4, <2>1, TreesHave
    <2>3. DOMAIN shownTree[t] \in SUBSET Ids BY <1>4, <2>2
    <2> QED BY <2>1, <2>2, <2>3, FieldsAre
  <1>6. knownTags[t] # None => C!TagOf(knownTags[t], id) \in C!Tag
    <2> SUFFICES ASSUME knownTags[t] # None PROVE C!TagOf(knownTags[t], id) \in C!Tag OBVIOUS
    <2>1. knownTags[t] \in TagLists(DOMAIN tree) BY <1>1 DEF TreeTyped
    <2>2. knownTags[t] \in [DOMAIN knownTags[t] -> C!Tag] BY <2>1, TagListsAre
    <2> QED BY <2>2 DEF C!TagOf, C!Tag
  <1>7. d \in TreeDialogs
    <2> DEFINE opened == IF kind = "edit" THEN shownTree[t][id] ELSE None
               tag == IF knownTags[t] = None THEN Unknown ELSE C!TagOf(knownTags[t], id)
    <2>1. /\ kind \in {"closed", "create", "edit"} /\ id \in Ids \cup {C!New}
          /\ opened \in C!Fields \cup {None} /\ tag \in C!Tag \cup {Unknown}
      BY <1>5, <1>6
    <2> HIDE DEF opened, tag
    <2>2. [C!Closed EXCEPT !.kind = kind, !.id = id, !.opened = opened, !.openedTag = tag]
            \in TreeDialogs
      BY <2>1, OpenedIs
    <2> QED BY <2>2 DEF opened, tag
  <1>8. /\ UNCHANGED <<tree, tags, treeLock, shownTree, knownTags, outdatedTree, outdatedTags, treeRequest, uses>>
        /\ \/ tagLoads' = tagLoads
           \/ \E load \in {C!Asleep, C!Asked} : tagLoads' = [tagLoads EXCEPT ![t]["dialog"] = load]
    BY DEF C!OpenDialog
  <1>9. treeDialog[t].kind = "closed" BY ClosedIs DEF C!OpenDialog
  <1> HIDE DEF d
  <1> QED BY <1>2, <1>3, <1>7, <1>8, <1>9, DialogStepTree

LEMMA CancelTree ==
  ASSUME TreeInv, NEW t \in TreeTabs, C!Cancel(t) PROVE TreeInv'
  <1>1. tagLoads' = [tagLoads EXCEPT ![t]["dialog"] = C!Asleep] BY DEF C!Cancel, C!DialogGone
  <1> QED BY <1>1, ClosedIs, DialogStepTree DEF C!Cancel

-----------------------------------------------------------------------------
(* Categories: loads of the tags. *)

\* A load that is set, with nothing else.
LEMMA LoadStepTree ==
  ASSUME TreeInv, NEW t \in TreeTabs, NEW who \in C!Owners, NEW load \in TagReads(DOMAIN tree),
         UNCHANGED <<tree, tags, treeLock, shownTree, knownTags, outdatedTree, outdatedTags, treeDialog,
                     treeRequest, uses>>,
         tagLoads' = [tagLoads EXCEPT ![t][who] = load], ReadStands(load)
  PROVE  TreeInv'
  <1>1. TreeTyped /\ TabStands(t) BY DEF TreeInv
  <1>2. /\ tagLoads' \in [TreeTabs -> [C!Owners -> TagReads(DOMAIN tree)]]
        /\ tagLoads'[t][who] = load
        /\ \A u \in TreeTabs, o \in C!Owners : u # t \/ o # who => tagLoads'[u][o] = tagLoads[u][o]
    BY <1>1, LoadSet
  <1>3. TreeTyped' BY <1>1, <1>2 DEF TreeTyped
  <1>4. TabStands(t)'
    <2>1. DialogStands(t)' /\ ShowsTree(t)' BY <1>1 DEF TabStands, DialogStands, ShowsTree
    <2>2. \A o \in C!Owners : ReadStands(tagLoads[t][o])' BY <1>1, <1>2 DEF TabStands, ReadStands
    <2> QED BY <2>1, <2>2 DEF TabStands
  <1>5. PageKept(t) BY DEF PageKept
  <1>6. \A u \in TreeTabs \ {t} : \A o \in C!Owners : tagLoads'[u][o] = tagLoads[u][o] BY <1>2
  <1> QED BY <1>3, <1>4, <1>5, <1>6, TabStepTree

LEMMA AnswerTagsTree ==
  ASSUME TreeInv, NEW t \in TreeTabs, NEW who \in C!Owners, C!AnswerTags(t, who) PROVE TreeInv'
  <1>1. TreeTyped BY DEF TreeInv
  <1> DEFINE load == [phase |-> "answered", answer |-> tags, changed |-> {}]
  <1>2. load \in TagReads(DOMAIN tree)
    <2>1. tags \in TagLists(DOMAIN tree) BY <1>1 DEF TreeTyped, TagLists
    <2> QED BY <2>1 DEF TagReads
  <1>3. ReadStands(load) BY <1>1 DEF ReadStands, TreeTyped, C!TagOf
  <1> QED BY <1>2, <1>3, LoadStepTree DEF C!AnswerTags

LEMMA FailTagsTree ==
  ASSUME TreeInv, NEW t \in TreeTabs, NEW who \in C!Owners, C!FailTags(t, who) PROVE TreeInv'
  <1>1. C!Asleep \in TagReads(DOMAIN tree) /\ ReadStands(C!Asleep) BY AsleepReads DEF ReadStands
  <1> QED BY <1>1, LoadStepTree DEF C!FailTags

LEMMA ReceiveTagsTree ==
  ASSUME TreeInv, NEW t \in TreeTabs, NEW who \in C!Owners, C!ReceiveTags(t, who) PROVE TreeInv'
  <1>1. TreeTyped /\ TabStands(t) BY DEF TreeInv
  <1> DEFINE load == tagLoads[t][who]
             d == IF treeDialog[t].kind # "closed" /\ treeDialog[t].openedTag = Unknown
                  THEN [treeDialog[t] EXCEPT !.openedTag = C!TagOf(load.answer, treeDialog[t].id)]
                  ELSE treeDialog[t]
  <1>2. /\ load.phase = "answered"
        /\ UNCHANGED <<tree, tags, treeLock, shownTree, outdatedTree, treeRequest, uses>>
        /\ knownTags' = [knownTags EXCEPT ![t] = load.answer]
        /\ outdatedTags' = [outdatedTags EXCEPT ![t] = load.changed]
        /\ tagLoads' = [tagLoads EXCEPT ![t][who] = C!Asleep]
        /\ treeDialog' = [treeDialog EXCEPT ![t] = d]
    BY <1>1 DEF C!ReceiveTags, TreeTyped
  <1>3. load \in TagReads(DOMAIN tree) BY <1>1 DEF TreeTyped
  <1>4. load.answer \in TagLists(DOMAIN tree) /\ load.changed \in SUBSET Ids BY <1>3 DEF TagReads
  <1>5. load.answer # None
    <2>1. DOMAIN tree \in SUBSET Ids BY <1>1, TreesHave DEF TreeTyped
    <2> QED BY <1>4, <2>1, TreeConstants
  <1>6. C!TagOf(load.answer, treeDialog[t].id) \in C!Tag
    <2>1. load.answer \in [DOMAIN load.answer -> C!Tag] BY <1>4, TagListsAre
    <2> QED BY <2>1 DEF C!TagOf, C!Tag
  <1>7. /\ d \in TreeDialogs /\ d.kind = treeDialog[t].kind /\ d.id = treeDialog[t].id
        /\ d.opened = treeDialog[t].opened /\ d.saving = treeDialog[t].saving
    <2>1. treeDialog[t] \in TreeDialogs BY <1>1 DEF TreeTyped
    <2> QED BY <1>6, <2>1 DEF TreeDialogs
  <1>8. \A id \in DOMAIN tree \ load.changed : C!TagOf(load.answer, id) = tags[id]
    BY <1>1, <1>2 DEF TabStands, ReadStands
  <1> HIDE DEF d
  <1>9. /\ tagLoads' \in [TreeTabs -> [C!Owners -> TagReads(DOMAIN tree)]]
        /\ tagLoads'[t][who] = C!Asleep
        /\ \A u \in TreeTabs, o \in C!Owners : u # t \/ o # who => tagLoads'[u][o] = tagLoads[u][o]
    <2>1. C!Asleep \in TagReads(DOMAIN tree) BY AsleepReads
    <2>2. TreeTyped /\ tagLoads' = [tagLoads EXCEPT ![t][who] = C!Asleep] BY <1>1, <1>2
    <2> QED BY <2>1, <2>2, LoadSet
  <1> HIDE DEF load
  <1>10. TreeTyped' BY <1>1, <1>2, <1>4, <1>7, <1>9 DEF TreeTyped
  <1>11. knownTags'[t] = load.answer /\ outdatedTags'[t] = load.changed /\ treeDialog'[t] = d
    BY <1>1, <1>2 DEF TreeTyped
  <1>12. TabStands(t)'
    <2>1. DialogStands(t)' BY <1>1, <1>2, <1>5, <1>7, <1>11 DEF TabStands, DialogStands
    <2>2. ShowsTree(t)' BY <1>1, <1>2, <1>8, <1>11 DEF TabStands, ShowsTree
    <2>3. \A o \in C!Owners : ReadStands(tagLoads[t][o])'
      BY <1>1, <1>2, <1>9, AsleepReads DEF TabStands, ReadStands
    <2> QED BY <2>1, <2>2, <2>3 DEF TabStands
  <1>13. PageKept(t) BY <1>2, <1>7, <1>11 DEF PageKept
  <1>14. \A u \in TreeTabs \ {t} :
           /\ knownTags'[u] = knownTags[u] /\ outdatedTags'[u] = outdatedTags[u]
           /\ treeDialog'[u] = treeDialog[u]
           /\ \A o \in C!Owners : tagLoads'[u][o] = tagLoads[u][o]
    BY <1>1, <1>2, <1>9 DEF TreeTyped
  <1>15. knownTags'[t] # None BY <1>5, <1>11
  <1> QED BY <1>2, <1>10, <1>12, <1>13, <1>14, <1>15, TabStepTree

-----------------------------------------------------------------------------
(* Categories: saves and the server. *)

\* What may be saved.
LEMMA SavedChoice ==
  ASSUME TreeInv, NEW t \in TreeTabs, treeDialog[t].kind # "closed", NEW wanted \in C!Fields,
         wanted.parent \in C!Choices(t)
  PROVE  /\ wanted.parent \in DOMAIN tree \cup {None}
         /\ treeDialog[t].kind = "edit" => wanted.parent \in MayHave(t, treeDialog[t].id)
         /\ treeDialog[t].kind = "create" => wanted.parent \in DOMAIN shownTree[t] \cup {None}
  <1>1. TreeTyped /\ TabStands(t) BY DEF TreeInv
  <1>2. shownTree[t] \in Trees(DOMAIN tree) /\ treeDialog[t] \in TreeDialogs BY <1>1 DEF TreeTyped
  <1>3. /\ DOMAIN shownTree[t] \subseteq DOMAIN tree
        /\ \A id \in DOMAIN shownTree[t] : shownTree[t][id].parent \in DOMAIN shownTree[t] \cup {None}
    BY <1>2, TreesHave
  <1>4. CASE treeDialog[t].kind = "edit"
    <2>1. /\ treeDialog[t].id \in DOMAIN shownTree[t]
          /\ treeDialog[t].opened = shownTree[t][treeDialog[t].id]
      BY <1>1, <1>4 DEF TabStands, DialogStands
    <2>2. wanted.parent \in MayHave(t, treeDialog[t].id)
      BY <1>4, <2>1 DEF C!Choices, C!parentCandidates, MayHave
    <2> QED BY <1>3, <1>4, <2>1, <2>2 DEF MayHave
  <1>5. CASE treeDialog[t].kind = "create"
    BY <1>3, <1>5 DEF C!Choices, C!parentCandidates
  <1> QED BY <1>2, <1>4, <1>5 DEF TreeDialogs

LEMMA SaveTree ==
  ASSUME TreeInv, NEW t \in TreeTabs, NEW wanted \in C!Fields, NEW nextTag \in C!Tag, C!save(t, wanted, nextTag)
  PROVE  TreeInv'
  <1>1. TreeTyped /\ TabStands(t) BY DEF TreeInv
  <1> DEFINE r == [phase |-> "sent", kind |-> treeDialog[t].kind, id |-> treeDialog[t].id,
                   expected |-> treeDialog[t].opened, next |-> wanted,
                   tag |-> [expected |-> treeDialog[t].openedTag, next |-> nextTag],
                   parents |-> << >>, answer |-> None, newest |-> FALSE, orphan |-> FALSE]
             d == [treeDialog[t] EXCEPT !.saving = TRUE, !.error = None]
  <1>2. PICK s \in Slots :
          /\ UNCHANGED <<tree, tags, treeLock, shownTree, knownTags, outdatedTree, outdatedTags, tagLoads>>
          /\ uses < MaxTreeUses /\ uses' = uses + 1
          /\ C!Phase(<<t, s>>) = "idle"
          /\ treeRequest' = [treeRequest EXCEPT ![<<t, s>>] = r]
          /\ treeDialog[t].kind # "closed" /\ wanted.parent \in C!Choices(t)
          /\ treeDialog[t].openedTag # Unknown /\ ~treeDialog[t].saving
    BY DEF C!save, C!canSave
  <1> DEFINE q == <<t, s>>
  <1>3. treeDialog' = [treeDialog EXCEPT ![t] = d] BY <1>1 DEF C!save, TreeTyped
  <1>4. treeDialog[t] \in TreeDialogs BY <1>1 DEF TreeTyped
  <1>5. /\ d \in TreeDialogs /\ d.kind = treeDialog[t].kind /\ d.id = treeDialog[t].id /\ d.saving
        /\ d.opened = treeDialog[t].opened /\ d.openedTag = treeDialog[t].openedTag
    BY <1>4 DEF TreeDialogs
  <1>6. r \in TreeRequests BY <1>2, <1>4, EmptyParents DEF TreeRequests, TreeDialogs
  <1>7. /\ r.phase = "sent" /\ r.kind = d.kind /\ r.id = d.id /\ r.expected = d.opened /\ r.next = wanted
        /\ ~r.orphan
    BY <1>5
  <1>8. q \in C!Saves /\ q[1] = t BY SavesAre
  <1> HIDE DEF r, d, q
  <1>9. C!Phase(q) = "idle" /\ treeRequest' = [treeRequest EXCEPT ![q] = r] BY <1>2 DEF q
  <1>10. TreeTyped'
    <2>1. uses' \in 0..MaxTreeUses BY <1>1, <1>2, TreeConstants DEF TreeTyped
    <2> QED BY <1>1, <1>2, <1>3, <1>5, <1>6, <1>8, <1>9, <2>1 DEF TreeTyped
  <1>11. ASSUME NEW u \in TreeTabs, u # t PROVE TabStands(u)'
    <2>1. treeDialog'[u] = treeDialog[u] BY <1>1, <1>3, <1>11 DEF TreeTyped
    <2> QED BY <1>2, <2>1, TabKept DEF TreeInv
  <1>12. treeRequest'[q] = r /\ treeDialog'[t] = d BY <1>1, <1>3, <1>8, <1>9 DEF TreeTyped
  <1>13. TabStands(t)'
    <2>1. DialogStands(t)' BY <1>1, <1>2, <1>5, <1>12 DEF TabStands, DialogStands
    <2>2. ShowsTree(t)' BY <1>1, <1>2 DEF TabStands, ShowsTree
    <2>3. \A who \in C!Owners : ReadStands(tagLoads[t][who])'
      BY <1>1, <1>2 DEF TabStands, ReadStands
    <2> QED BY <2>1, <2>2, <2>3 DEF TabStands
  <1>14. ASSUME NEW p \in C!Saves, p # q PROVE SaveStands(p)' /\ Own(p)' = Own(p) /\ (p[1] = t => ~Own(p))
    <2>1. SaveStands(p) /\ p[1] \in TreeTabs BY SavesAre DEF TreeInv
    <2>2. treeRequest'[p] = treeRequest[p] BY <1>1, <1>9, <1>14 DEF TreeTyped
    <2>3. p[1] = t => ~Own(p) BY <1>2, <2>1 DEF SaveStands, OnPage
    <2>4. Own(p) => PageKept(p[1])
      BY <1>1, <1>2, <1>3, <2>1, <2>3 DEF PageKept, TreeTyped
    <2>5. SaveStands(p)' /\ Own(p)' = Own(p) BY <1>2, <2>1, <2>2, <2>4, SaveKept
    <2> QED BY <2>3, <2>5
  <1>15. SaveStands(q)'
    <2>1. knownTags[t] # None BY <1>1, <1>2 DEF TabStands, DialogStands
    <2>2. C!Phase(q)' = "sent" /\ ~Decided(q)' BY <1>7, <1>12 DEF C!Phase, Decided
    <2>3. /\ wanted.parent \in DOMAIN tree \cup {None}
          /\ treeDialog[t].kind = "edit" => wanted.parent \in MayHave(t, treeDialog[t].id)
          /\ treeDialog[t].kind = "create" => wanted.parent \in DOMAIN shownTree[t] \cup {None}
      BY <1>2, SavedChoice
    <2>4. treeDialog[t].kind = "edit" =>
            /\ treeDialog[t].id \in DOMAIN shownTree[t]
            /\ treeDialog[t].opened = shownTree[t][treeDialog[t].id]
            /\ treeDialog[t].id \in DOMAIN tree
      BY <1>1, TreesHave DEF TabStands, DialogStands, TreeTyped
    <2>5. Undecided(q)' BY <1>2, <1>5, <1>7, <1>12, <2>3, <2>4 DEF Undecided
    <2>6. MayHave(t, treeDialog[t].id)' = MayHave(t, d.id) BY <1>2, <1>5, <1>12 DEF MayHave
    <2>7. OnPage(q)'
      BY <1>2, <1>5, <1>7, <1>8, <1>12, <2>2, <2>3, <2>4, <2>6 DEF OnPage
    <2> QED BY <1>2, <1>8, <2>1, <2>2, <2>5, <2>7 DEF SaveStands, HoldsTree, Stands
  <1>16. OneOwn' BY <1>8, <1>14 DEF TreeInv, OneOwn
  <1>17. \A u \in TreeTabs : TabStands(u)' BY <1>11, <1>13
  <1>18. \A p \in C!Saves : SaveStands(p)' BY <1>14, <1>15
  <1> QED BY <1>10, <1>16, <1>17, <1>18 DEF TreeInv

LEMMA OneHoldsTree ==
  ASSUME TreeInv, NEW q \in C!Saves, C!Phase(q) = "checking" \/ treeLock = None, NEW p \in C!Saves \ {q}
  PROVE  C!Phase(p) # "checking"
  <1>1. HoldsTree(q) /\ HoldsTree(p) BY DEF TreeInv, SaveStands
  <1> QED BY <1>1, TreeConstants DEF HoldsTree

\* A change of a category that leaves a tree.
LEMMA ChangedTree ==
  ASSUME TreeInv, NEW q \in C!Saves, C!Phase(q) \in {"sent", "checking"},
         \A p \in C!Saves \ {q} : C!Phase(p) # "checking",
         UNCHANGED <<shownTree, knownTags, treeDialog, uses>>, treeLock' = None,
         NEW id \in Ids, NEW next \in [name : Names, parent : (DOMAIN tree \cup {id}) \cup {None}],
         NEW tag \in C!Tag, C!Changed(q, id, next, tag),
         treeRequest[q].next = next, treeRequest[q].tag.next = tag,
         treeRequest[q].kind = "edit" => id = treeRequest[q].id,
         treeRequest[q].kind = "create" => id \notin DOMAIN tree,
         NoRing(C!parentsOf(tree'))
  PROVE  TreeInv'
  <1>1. TreeTyped /\ SaveStands(q) /\ q[1] \in TreeTabs BY SavesAre DEF TreeInv
  <1>2. /\ tree' = [i \in DOMAIN tree \cup {id} |-> IF i = id THEN next ELSE tree[i]]
        /\ tags' = [i \in DOMAIN tree \cup {id} |-> IF i = id THEN tag ELSE tags[i]]
        /\ \A u \in TreeTabs : outdatedTree'[u] = outdatedTree[u] \cup {id}
        /\ \A u \in TreeTabs : outdatedTags'[u] = outdatedTags[u] \cup {id}
        /\ \A u \in TreeTabs, who \in C!Owners : tagLoads'[u][who] =
              IF tagLoads[u][who].phase = "answered"
              THEN [tagLoads[u][who] EXCEPT !.changed = @ \cup {id}] ELSE tagLoads[u][who]
    BY DEF C!Changed
  <1>3. /\ DOMAIN tree' = DOMAIN tree \cup {id} /\ tree'[id] = next /\ tags'[id] = tag
        /\ \A i \in DOMAIN tree \ {id} : tree'[i] = tree[i] /\ tags'[i] = tags[i]
    BY <1>2
  <1>4. /\ DOMAIN tree \subseteq Ids
        /\ \A i \in DOMAIN tree : tree[i] \in [name : Names, parent : DOMAIN tree \cup {None}]
    BY <1>1, TreesHave DEF TreeTyped
  <1>5. tree' \in Trees(Ids)
    <2>1. \A i \in DOMAIN tree' : tree'[i] \in [name : Names, parent : DOMAIN tree' \cup {None}]
      BY <1>3, <1>4
    <2>2. tree' = [i \in DOMAIN tree' |-> tree'[i]] BY <1>2
    <2>3. tree' \in [DOMAIN tree' -> [name : Names, parent : DOMAIN tree' \cup {None}]]
      BY <2>1, <2>2
    <2>4. DOMAIN tree' \subseteq Ids BY <1>3, <1>4
    <2> QED BY <2>3, <2>4, ListsAre DEF Trees
  <1>6. treeRequest[q] \in TreeRequests BY <1>1, TreeRequestIs DEF TreeTyped
  <1>7. treeRequest'[q] = [treeRequest[q] EXCEPT !.phase = "answered", !.answer = "ok", !.id = id, !.newest = TRUE]
    BY DEF C!Changed
  <1>8. /\ treeRequest'[q] \in TreeRequests /\ treeRequest'[q].phase = "answered"
        /\ treeRequest'[q].answer = "ok" /\ treeRequest'[q].id = id /\ treeRequest'[q].newest
        /\ treeRequest'[q].next = next /\ treeRequest'[q].tag = treeRequest[q].tag
        /\ treeRequest'[q].orphan = treeRequest[q].orphan
        /\ treeRequest'[q].kind = treeRequest[q].kind
        /\ treeRequest'[q].expected = treeRequest[q].expected
    BY <1>6, <1>7 DEF TreeRequests
  <1>9. ASSUME NEW p \in C!Saves \ {q}
        PROVE  \/ treeRequest'[p] = treeRequest[p] /\ (C!Phase(p) = "answered" => treeRequest[p].id # id)
               \/ /\ C!Phase(p) = "answered" /\ treeRequest[p].id = id
                  /\ treeRequest'[p] = [treeRequest[p] EXCEPT !.newest = FALSE]
    BY DEF C!Changed
  <1>10. ASSUME NEW p \in C!Saves \ {q},
                ~(treeRequest'[p] = treeRequest[p] /\ (C!Phase(p) = "answered" => treeRequest[p].id # id))
         PROVE  /\ treeRequest[p] \in TreeRequests
                /\ treeRequest'[p] = [treeRequest[p] EXCEPT !.newest = FALSE]
                /\ ~treeRequest'[p].newest
    <2>1. treeRequest[p] \in TreeRequests \cup {C!Idle} BY <1>1 DEF TreeTyped
    <2>2. C!Phase(p) # "idle" BY <1>9, <1>10
    <2>3. treeRequest[p] \in TreeRequests BY <2>1, <2>2, TreeRequestIs
    <2>4. treeRequest'[p] = [treeRequest[p] EXCEPT !.newest = FALSE] BY <1>9, <1>10
    <2> QED BY <2>3, <2>4 DEF TreeRequests
  <1>11. ASSUME NEW r \in TreeRequests, NEW s, s = [r EXCEPT !.newest = FALSE]
         PROVE  /\ s \in TreeRequests /\ s.phase = r.phase /\ s.kind = r.kind /\ s.id = r.id
                /\ s.expected = r.expected /\ s.next = r.next /\ s.tag = r.tag
                /\ s.answer = r.answer /\ s.orphan = r.orphan
    BY <1>11 DEF TreeRequests
  <1>12. ASSUME NEW p \in C!Saves \ {q}
         PROVE  /\ treeRequest'[p] \in TreeRequests \cup {C!Idle}
                /\ treeRequest'[p].phase = treeRequest[p].phase /\ treeRequest'[p].kind = treeRequest[p].kind
                /\ treeRequest'[p].id = treeRequest[p].id
                /\ treeRequest'[p].expected = treeRequest[p].expected
                /\ treeRequest'[p].next = treeRequest[p].next /\ treeRequest'[p].tag = treeRequest[p].tag
                /\ treeRequest'[p].answer = treeRequest[p].answer
                /\ treeRequest'[p].orphan = treeRequest[p].orphan
    <2>1. CASE treeRequest'[p] = treeRequest[p] BY <1>1, <2>1 DEF TreeTyped
    <2>2. CASE treeRequest'[p] # treeRequest[p]
      <3>1. treeRequest[p] \in TreeRequests /\ treeRequest'[p] = [treeRequest[p] EXCEPT !.newest = FALSE]
        BY <1>10, <2>2
      <3>2. \A r \in TreeRequests : \A s : s = [r EXCEPT !.newest = FALSE] =>
              /\ s \in TreeRequests /\ s.phase = r.phase /\ s.kind = r.kind /\ s.id = r.id
              /\ s.expected = r.expected /\ s.next = r.next /\ s.tag = r.tag
              /\ s.answer = r.answer /\ s.orphan = r.orphan
        BY <1>11
      <3> QED BY ONLY <3>1, <3>2
    <2> QED BY <2>1, <2>2
  <1>13. ASSUME NEW u \in TreeTabs, NEW who \in C!Owners
         PROVE  /\ tagLoads'[u][who] \in TagReads(DOMAIN tree')
                /\ tagLoads'[u][who].phase = tagLoads[u][who].phase
                /\ tagLoads'[u][who].answer = tagLoads[u][who].answer
                /\ tagLoads[u][who].phase = "answered" =>
                     tagLoads'[u][who].changed = tagLoads[u][who].changed \cup {id}
    <2>1. tagLoads[u][who] \in TagReads(DOMAIN tree) BY <1>1 DEF TreeTyped
    <2>2. tagLoads[u][who] \in TagReads(DOMAIN tree') BY <1>3, <2>1, TreesWiden
    <2>3. CASE tagLoads[u][who].phase # "answered" BY <1>2, <2>2, <2>3
    <2>4. CASE tagLoads[u][who].phase = "answered"
      <3>1. tagLoads'[u][who] = [tagLoads[u][who] EXCEPT !.changed = @ \cup {id}] BY <1>2, <2>4
      <3> QED BY ONLY <2>2, <3>1, id \in Ids DEF TagReads
    <2> QED BY <2>3, <2>4
  <1>14. TreeTyped'
    <2>1. treeRequest' \in [C!Saves -> TreeRequests \cup {C!Idle}]
      <3>1. DOMAIN treeRequest' = C!Saves /\ treeRequest' = [p \in C!Saves |-> treeRequest'[p]]
        BY DEF C!Changed
      <3> QED BY <1>8, <1>12, <3>1
    <2>2. Trees(DOMAIN tree) \subseteq Trees(DOMAIN tree') /\ TagLists(DOMAIN tree) \subseteq TagLists(DOMAIN tree')
      BY <1>3, TreesWiden
    <2>3. tags' \in [DOMAIN tree' -> C!Tag]
      <3>1. \A i \in DOMAIN tree \cup {id} : (IF i = id THEN tag ELSE tags[i]) \in C!Tag
        BY <1>1 DEF TreeTyped
      <3> QED BY <1>2, <1>3, <3>1
    <2>4. outdatedTree' \in [TreeTabs -> SUBSET Ids] /\ outdatedTags' \in [TreeTabs -> SUBSET Ids]
      BY <1>1 DEF TreeTyped, C!Changed
    <2>5. tagLoads' \in [TreeTabs -> [C!Owners -> TagReads(DOMAIN tree')]]
      <3>1. /\ tagLoads' = [u \in TreeTabs |-> tagLoads'[u]]
            /\ \A u \in TreeTabs : tagLoads'[u] = [who \in C!Owners |-> tagLoads'[u][who]]
        BY DEF C!Changed
      <3> QED BY <1>13, <3>1
    <2> QED BY <1>1, <1>5, <2>1, <2>2, <2>3, <2>4, <2>5 DEF TreeTyped
  <1>15. ASSUME NEW u \in TreeTabs PROVE TabStands(u)'
    <2>1. TabStands(u) /\ DOMAIN shownTree[u] \subseteq DOMAIN tree
      BY <1>1, TreesHave DEF TreeInv, TreeTyped
    <2>2. DialogStands(u)' BY <2>1 DEF TabStands, DialogStands
    <2>3. ShowsTree(u)' BY <1>2, <1>3, <2>1 DEF TabStands, ShowsTree
    <2>4. ASSUME NEW who \in C!Owners PROVE ReadStands(tagLoads[u][who])'
      BY <1>3, <1>13, <2>1 DEF TabStands, ReadStands
    <2> QED BY <2>2, <2>3, <2>4 DEF TabStands
  <1>16. ASSUME NEW p \in C!Saves, p # q PROVE SaveStands(p)'
    <2>1. SaveStands(p) /\ p[1] \in TreeTabs BY SavesAre DEF TreeInv
    <2>2. C!Phase(p)' = C!Phase(p) /\ Decided(p)' = Decided(p) /\ Own(p)' = Own(p)
      BY <1>12, <1>16 DEF C!Phase, Decided, Own
    <2>3. Undecided(p)' /\ HoldsTree(p)'
      BY <1>3, <1>12, <1>16, <2>1, <2>2 DEF SaveStands, Undecided, HoldsTree
    <2>4. Stands(p)'
      <3> SUFFICES ASSUME Decided(p) PROVE Stands(p)' BY <2>2 DEF Stands
      <3>1. treeRequest[p].id \in DOMAIN tree BY <2>1 DEF SaveStands, Stands
      <3>2. treeRequest'[p].newest => treeRequest'[p] = treeRequest[p] /\ treeRequest[p].id # id
        <4> SUFFICES ASSUME treeRequest'[p].newest
                     PROVE  treeRequest'[p] = treeRequest[p] /\ treeRequest[p].id # id
          OBVIOUS
        <4> QED BY <1>10, <1>16 DEF Decided
      <3>3. treeRequest'[p].newest => /\ tree[treeRequest[p].id] = treeRequest[p].next
                                      /\ tags[treeRequest[p].id] = treeRequest[p].tag.next
        BY <2>1, <3>2 DEF SaveStands, Stands
      <3> QED BY <1>3, <1>12, <1>16, <3>1, <3>2, <3>3 DEF Stands
    <2>5. OnPage(p)'
      <3>1. MayHave(p[1], treeRequest[p].id)' = MayHave(p[1], treeRequest[p].id)
        BY <1>12, <1>16 DEF MayHave
      <3> QED BY <1>2, <1>12, <1>16, <2>1, <2>2, <3>1 DEF SaveStands, OnPage
    <2> QED BY <2>1, <2>2, <2>3, <2>4, <2>5 DEF SaveStands
  <1>17. SaveStands(q)'
    <2>1. C!Phase(q)' = "answered" /\ Decided(q)' /\ C!Phase(q) # "idle" BY <1>8 DEF C!Phase, Decided
    <2>2. Undecided(q)' /\ HoldsTree(q)' BY <2>1 DEF Undecided, HoldsTree
    <2>3. Stands(q)' BY <1>3, <1>8 DEF Stands
    <2>4. DOMAIN shownTree[q[1]] \subseteq DOMAIN tree BY <1>1, TreesHave DEF TreeTyped
    <2>5. OnPage(q)'
      <3> SUFFICES ASSUME ~treeRequest[q].orphan PROVE OnPage(q)' BY <1>8 DEF OnPage, Own
      <3> DEFINE t == q[1]
      <3>1. /\ treeDialog[t].saving /\ treeDialog[t].kind # "closed"
            /\ treeDialog[t].opened = treeRequest[q].expected
            /\ treeRequest[q].kind = "edit" =>
                 /\ treeRequest[q].id \in DOMAIN shownTree[t]
                 /\ shownTree[t][treeRequest[q].id] = treeRequest[q].expected
                 /\ treeRequest[q].next.parent \in MayHave(t, treeRequest[q].id)
            /\ treeRequest[q].kind = "create" =>
                 treeRequest[q].next.parent \in DOMAIN shownTree[t] \cup {None}
        BY <1>1, <2>1 DEF SaveStands, OnPage, Own
      <3>2. MayHave(t, id)' = MayHave(t, id) BY DEF MayHave
      <3>3. treeRequest[q].kind \in {"edit", "create"} BY <1>6 DEF TreeRequests
      <3>4. id \in outdatedTree'[t] BY <1>1, <1>2
      <3> QED BY <1>8, <2>1, <2>4, <3>1, <3>2, <3>3, <3>4 DEF OnPage, MayHave
    <2> QED BY <1>1, <2>1, <2>2, <2>3, <2>5 DEF SaveStands
  <1>18. OneOwn'
    <2>1. \A p \in C!Saves : Own(p)' = Own(p)
      <3>1. Own(q)' = Own(q) BY <1>8 DEF Own, C!Phase
      <3>2. \A p \in C!Saves \ {q} : Own(p)' = Own(p) BY <1>12 DEF Own, C!Phase
      <3> QED BY <3>1, <3>2
    <2> QED BY <2>1 DEF TreeInv, OneOwn
  <1>19. \A p \in C!Saves : SaveStands(p)' BY <1>16, <1>17
  <1> QED BY <1>14, <1>15, <1>18, <1>19 DEF TreeInv
LEMMA ParentsAre ==
  ASSUME NEW cats
  PROVE  /\ DOMAIN C!parentsOf(cats) = DOMAIN cats
         /\ \A i \in DOMAIN cats : C!parentsOf(cats)[i] = cats[i].parent
  BY DEF C!parentsOf

LEMMA NextIdIs ==
  ASSUME NEW S \in SUBSET Ids, S # {}
  PROVE  C!NextId(S) \in S
  <1>1. S \in SUBSET Nat BY TreeConstants
  <1>2. \E id \in S : \A i \in S : id <= i BY <1>1, Least
  <1> QED BY <1>2 DEF C!NextId

LEMMA CreateCategoryTree ==
  ASSUME TreeInv, NEW q \in C!Saves, C!createCategory(q) PROVE TreeInv'
  <1>1. TreeTyped /\ SaveStands(q) BY DEF TreeInv
  <1>2. treeRequest[q] \in TreeRequests /\ C!Phase(q) = "sent" /\ treeRequest[q].kind = "create" /\ treeLock = None
    BY <1>1, TreeRequestIs DEF TreeTyped, C!createCategory, C!Sent
  <1>3. /\ DOMAIN tree \subseteq Ids /\ NoRing(C!parentsOf(tree))
        /\ \A i \in DOMAIN tree : tree[i].parent \in DOMAIN tree \cup {None}
    BY <1>1, TreesHave DEF TreeTyped
  <1> DEFINE id == C!NextId(Ids \ DOMAIN tree)
             next == treeRequest[q].next
  <1>4. id \in Ids \ DOMAIN tree
    <2>1. Ids \ DOMAIN tree # {} BY <1>3 DEF C!createCategory
    <2> HIDE DEF id
    <2> QED BY <2>1, NextIdIs DEF id
  <1>5. C!Changed(q, id, next, treeRequest[q].tag.next) /\ UNCHANGED <<treeLock, shownTree, knownTags, treeDialog, uses>>
    BY DEF C!createCategory
  <1> HIDE DEF id
  <1>6. next \in C!Fields /\ next.parent \in DOMAIN tree \cup {None} /\ treeRequest[q].tag.next \in C!Tag
    BY <1>1, <1>2 DEF TreeRequests, SaveStands, Undecided
  <1>7. next \in [name : Names, parent : (DOMAIN tree \cup {id}) \cup {None}]
    BY <1>6 DEF C!Fields
  <1>8. tree' = [i \in DOMAIN tree \cup {id} |-> IF i = id THEN next ELSE tree[i]]
    BY <1>5 DEF C!Changed
  <1>9. NoRing(C!parentsOf(tree'))
    <2>1. /\ DOMAIN C!parentsOf(tree') = DOMAIN C!parentsOf(tree) \cup {id}
          /\ C!parentsOf(tree')[id] = next.parent
          /\ \A i \in DOMAIN tree : C!parentsOf(tree')[i] = C!parentsOf(tree)[i]
      BY <1>4, <1>8, ParentsAre
    <2>2. next.parent # id BY <1>4, <1>6, TreeConstants
    <2>3. \A i \in DOMAIN tree : C!parentsOf(tree)[i] # id BY <1>3, <1>4, ParentsAre, TreeConstants
    <2> QED BY <1>3, <1>4, <2>1, <2>2, <2>3, ParentsAre, AddedFits
  <1>10. \A p \in C!Saves \ {q} : C!Phase(p) # "checking" BY <1>2, OneHoldsTree
  <1> QED BY <1>2, <1>4, <1>5, <1>6, <1>7, <1>9, <1>10, ChangedTree

\* The tree is read and checked under one lock.
LEMMA UpdatedTree ==
  ASSUME TreeInv, NEW q \in C!Saves, C!Phase(q) = "checking",
         treeRequest[q].id \in DOMAIN tree,
         ~C!createsCycle(treeRequest[q].id, treeRequest[q].next.parent, C!parentsOf(tree)),
         C!Changed(q, treeRequest[q].id, treeRequest[q].next, treeRequest[q].tag.next),
         treeLock' = None, UNCHANGED <<shownTree, knownTags, treeDialog, uses>>
  PROVE  TreeInv'
  <1>1. TreeTyped /\ SaveStands(q) BY DEF TreeInv
  <1>2. treeRequest[q] \in TreeRequests /\ treeRequest[q].kind = "edit"
    BY <1>1, TreeRequestIs DEF TreeTyped, SaveStands, HoldsTree
  <1>3. DOMAIN tree \subseteq Ids /\ NoRing(C!parentsOf(tree)) BY <1>1, TreesHave DEF TreeTyped
  <1> DEFINE id == treeRequest[q].id
             next == treeRequest[q].next
  <1>4. next \in C!Fields /\ next.parent \in DOMAIN tree \cup {None} /\ treeRequest[q].tag.next \in C!Tag
    BY <1>1, <1>2 DEF TreeRequests, SaveStands, Undecided
  <1>5. next \in [name : Names, parent : (DOMAIN tree \cup {id}) \cup {None}]
    BY <1>4 DEF C!Fields
  <1>6. tree' = [i \in DOMAIN tree \cup {id} |-> IF i = id THEN next ELSE tree[i]]
    BY DEF C!Changed
  <1>7. NoRing(C!parentsOf(tree'))
    <2>1. /\ DOMAIN C!parentsOf(tree') = DOMAIN C!parentsOf(tree)
          /\ C!parentsOf(tree')[id] = next.parent
          /\ \A i \in DOMAIN tree \ {id} : C!parentsOf(tree')[i] = C!parentsOf(tree)[i]
      BY <1>6, ParentsAre
    <2> QED BY <1>3, <2>1, ParentsAre, MovedFits
  <1>8. \A p \in C!Saves \ {q} : C!Phase(p) # "checking" BY OneHoldsTree
  <1> QED BY <1>2, <1>3, <1>4, <1>5, <1>7, <1>8, ChangedTree

\* A step of the server or of the network that only changes the request of q, before or after
\* the server has decided.
LEMMA RequestStepTree ==
  ASSUME TreeInv, NEW q \in C!Saves,
         UNCHANGED <<tree, tags, shownTree, knownTags, outdatedTree, outdatedTags, tagLoads, treeDialog, uses>>,
         treeLock' \in C!Saves \cup {None},
         \/ treeLock' = treeLock
         \/ \A p \in C!Saves \ {q} : C!Phase(p) # "checking",
         C!Phase(q) # "idle", NEW r \in TreeRequests, treeRequest' = [treeRequest EXCEPT ![q] = r],
         r.kind = treeRequest[q].kind, r.id = treeRequest[q].id, r.expected = treeRequest[q].expected,
         r.next = treeRequest[q].next, r.tag = treeRequest[q].tag, r.orphan = treeRequest[q].orphan,
         \/ r.phase = "answered" /\ r.answer # "ok"
         \/ /\ r.phase = "checking" /\ C!Phase(q) = "sent"
            /\ r.kind = "edit" /\ treeLock' = q /\ r.parents = C!parentsOf(tree)
  PROVE  TreeInv'
  <1>1. TreeTyped /\ SaveStands(q) BY DEF TreeInv
  <1>2. TreeTyped' BY <1>1 DEF TreeTyped
  <1>3. \A u \in TreeTabs : TabStands(u)' BY TabKept DEF TreeInv
  <1>4. treeRequest'[q] = r BY <1>1 DEF TreeTyped
  <1>5. C!Phase(q)' = r.phase /\ ~Decided(q)' /\ Own(q)' = Own(q) BY <1>4 DEF C!Phase, Decided, Own
  <1>6. ASSUME NEW p \in C!Saves, p # q PROVE SaveStands(p)' /\ Own(p)' = Own(p)
    <2>1. treeRequest'[p] = treeRequest[p] BY <1>1, <1>6 DEF TreeTyped
    <2>2. PageKept(p[1]) /\ SaveStands(p) BY DEF PageKept, TreeInv
    <2> QED BY <1>6, <2>1, <2>2, SaveKept
  <1>7. Undecided(q)' BY <1>1, <1>4, <1>5 DEF SaveStands, Undecided
  <1>8. HoldsTree(q)' BY <1>4, <1>5 DEF HoldsTree
  <1>9. Stands(q)' BY <1>5 DEF Stands
  <1>10. OnPage(q)' BY <1>1, <1>4, <1>5 DEF SaveStands, OnPage, MayHave
  <1>11. SaveStands(q)' BY <1>1, <1>5, <1>7, <1>8, <1>9, <1>10 DEF SaveStands
  <1>12. \A p \in C!Saves : SaveStands(p)' /\ Own(p)' = Own(p) BY <1>5, <1>6, <1>11
  <1>13. OneOwn' BY <1>12 DEF TreeInv, OneOwn
  <1> QED BY <1>2, <1>3, <1>12, <1>13 DEF TreeInv

LEMMA RefusedTree ==
  ASSUME TreeInv, NEW q \in C!Saves, C!Phase(q) # "idle",
         NEW a \in {"error", "not-found", "cycle", "conflict"}, C!Refuse(q, a),
         UNCHANGED <<shownTree, knownTags, treeDialog, uses>>, treeLock' \in C!Saves \cup {None},
         \/ treeLock' = treeLock
         \/ \A p \in C!Saves \ {q} : C!Phase(p) # "checking"
  PROVE  TreeInv'
  <1>1. TreeTyped BY DEF TreeInv
  <1>2. treeRequest[q] \in TreeRequests BY <1>1, TreeRequestIs DEF TreeTyped
  <1> DEFINE r == [treeRequest[q] EXCEPT !.phase = "answered", !.answer = a]
  <1>3. treeRequest' = [treeRequest EXCEPT ![q] = r] /\ UNCHANGED <<tree, tags, outdatedTree, outdatedTags, tagLoads>>
    BY <1>1 DEF C!Refuse, TreeTyped
  <1>4. /\ r \in TreeRequests /\ r.kind = treeRequest[q].kind /\ r.id = treeRequest[q].id
        /\ r.expected = treeRequest[q].expected /\ r.next = treeRequest[q].next /\ r.tag = treeRequest[q].tag
        /\ r.orphan = treeRequest[q].orphan /\ r.phase = "answered" /\ r.answer # "ok"
    BY <1>2 DEF TreeRequests
  <1> HIDE DEF r
  <1> QED BY <1>3, <1>4, RequestStepTree

LEMMA LockTreeTree ==
  ASSUME TreeInv, NEW q \in C!Saves, C!LockTree(q) PROVE TreeInv'
  <1>1. TreeTyped BY DEF TreeInv
  <1>2. /\ treeRequest[q] \in TreeRequests /\ C!Phase(q) = "sent" /\ treeRequest[q].kind = "edit" /\ treeLock = None
        /\ UNCHANGED <<tree, tags, shownTree, knownTags, outdatedTree, outdatedTags, tagLoads, treeDialog, uses>> /\ treeLock' = q
    BY <1>1, TreeRequestIs DEF TreeTyped, C!LockTree, C!Sent, C!screen
  <1> DEFINE r == [treeRequest[q] EXCEPT !.phase = "checking", !.parents = C!parentsOf(tree)]
  <1>3. treeRequest' = [treeRequest EXCEPT ![q] = r] BY <1>1 DEF C!LockTree, TreeTyped
  <1>4. C!parentsOf(tree) \in ParentMaps
    <2>1. /\ DOMAIN tree \in SUBSET Ids
          /\ \A i \in DOMAIN tree : tree[i].parent \in DOMAIN tree \cup {None}
      BY <1>1, TreesHave DEF TreeTyped
    <2>2. C!parentsOf(tree) \in [DOMAIN tree -> C!Parents] BY <2>1 DEF C!parentsOf, C!Parents
    <2> QED BY <2>1, <2>2 DEF ParentMaps
  <1>5. /\ r \in TreeRequests /\ r.kind = treeRequest[q].kind /\ r.id = treeRequest[q].id
        /\ r.expected = treeRequest[q].expected /\ r.next = treeRequest[q].next /\ r.tag = treeRequest[q].tag
        /\ r.orphan = treeRequest[q].orphan /\ r.phase = "checking" /\ r.parents = C!parentsOf(tree)
    <2> HIDE DEF r
    <2> DEFINE m == C!parentsOf(tree)
    <2>1. r = [treeRequest[q] EXCEPT !.phase = "checking", !.parents = m] BY DEF r
    <2>2. m \in ParentMaps BY <1>4
    <2> HIDE DEF m
    <2>3. /\ r \in TreeRequests /\ r.kind = treeRequest[q].kind /\ r.id = treeRequest[q].id
          /\ r.expected = treeRequest[q].expected /\ r.next = treeRequest[q].next /\ r.tag = treeRequest[q].tag
          /\ r.orphan = treeRequest[q].orphan /\ r.phase = "checking" /\ r.parents = m
      BY <1>2, <2>1, <2>2 DEF TreeRequests
    <2> QED BY <2>3 DEF m
  <1> HIDE DEF r
  <1>6. \A p \in C!Saves \ {q} : C!Phase(p) # "checking" BY <1>2, OneHoldsTree
  <1> QED BY <1>2, <1>3, <1>5, <1>6, RequestStepTree

LEMMA UpdateCategoryTree ==
  ASSUME TreeInv, NEW q \in C!Saves, C!UpdateCategory(q) PROVE TreeInv'
  <1>1. TreeTyped /\ SaveStands(q) BY DEF TreeInv
  <1>2. /\ C!Phase(q) = "checking" /\ treeLock' = None /\ UNCHANGED <<shownTree, knownTags, treeDialog, uses>>
    BY DEF C!UpdateCategory
  <1>3. treeRequest[q].parents = C!parentsOf(tree) BY <1>1, <1>2 DEF SaveStands, HoldsTree
  <1>4. \A p \in C!Saves \ {q} : C!Phase(p) # "checking" BY <1>2, OneHoldsTree
  <1>5. CASE \E a \in {"not-found", "cycle", "conflict"} : C!Refuse(q, a)
    BY <1>2, <1>4, <1>5, RefusedTree
  <1>6. CASE ~\E a \in {"not-found", "cycle", "conflict"} : C!Refuse(q, a)
    <2>1. /\ treeRequest[q].id \in DOMAIN tree
          /\ ~C!createsCycle(treeRequest[q].id, treeRequest[q].next.parent, C!parentsOf(tree))
          /\ C!Changed(q, treeRequest[q].id, treeRequest[q].next, treeRequest[q].tag.next)
      BY <1>3, <1>6, ParentsAre DEF C!UpdateCategory
    <2> QED BY <1>2, <2>1, UpdatedTree
  <1> QED BY <1>5, <1>6

LEMMA FailRequestTree ==
  ASSUME TreeInv, NEW q \in C!Saves, C!FailRequest(q) PROVE TreeInv'
  <1>1. TreeTyped /\ SaveStands(q) BY DEF TreeInv
  <1>2. /\ C!Phase(q) # "idle" /\ C!Refuse(q, "error") /\ UNCHANGED <<shownTree, knownTags, treeDialog, uses>>
        /\ treeLock' = IF treeLock = q THEN None ELSE treeLock
    BY DEF C!FailRequest
  <1>3. treeLock' \in C!Saves \cup {None} BY <1>1, <1>2 DEF TreeTyped
  <1>4. treeLock' = treeLock \/ \A p \in C!Saves \ {q} : C!Phase(p) # "checking"
    BY <1>2 DEF TreeInv, SaveStands, HoldsTree
  <1> QED BY <1>2, <1>3, <1>4, RefusedTree

LEMMA LoseAnswerTree ==
  ASSUME TreeInv, NEW q \in C!Saves, C!LoseAnswer(q) PROVE TreeInv'
  <1>1. TreeTyped BY DEF TreeInv
  <1>2. /\ treeRequest[q] \in TreeRequests /\ C!Phase(q) = "answered" /\ treeRequest[q].phase = "answered"
        /\ UNCHANGED <<tree, tags, treeLock, shownTree, knownTags, outdatedTree, outdatedTags, tagLoads, treeDialog, uses>>
    BY <1>1, TreeRequestIs DEF TreeTyped, C!LoseAnswer, C!screen, C!Phase
  <1> DEFINE r == [treeRequest[q] EXCEPT !.answer = "error"]
  <1>3. treeRequest' = [treeRequest EXCEPT ![q] = r] BY <1>1 DEF C!LoseAnswer, TreeTyped
  <1>4. /\ r \in TreeRequests /\ r.kind = treeRequest[q].kind /\ r.id = treeRequest[q].id
        /\ r.expected = treeRequest[q].expected /\ r.next = treeRequest[q].next /\ r.tag = treeRequest[q].tag
        /\ r.orphan = treeRequest[q].orphan /\ r.phase = "answered" /\ r.answer # "ok"
    BY <1>2 DEF TreeRequests
  <1>5. treeLock' \in C!Saves \cup {None} BY <1>1, <1>2 DEF TreeTyped
  <1> HIDE DEF r
  <1> QED BY <1>2, <1>3, <1>4, <1>5, RequestStepTree

\* What a saved category leaves in the list of its page.
LEMMA SavedList ==
  ASSUME TreeInv, NEW q \in C!Saves, Decided(q), ~treeRequest[q].orphan, C!saveCategoryInto(q)
  PROVE  LET id == treeRequest[q].id
             t == q[1]
         IN  /\ shownTree' = [shownTree EXCEPT ![t] = shownTree'[t]] /\ shownTree'[t] \in Trees(DOMAIN tree)
             /\ id \in DOMAIN shownTree'[t] /\ shownTree'[t][id] = treeRequest[q].next
             /\ DOMAIN shownTree'[t] = DOMAIN shownTree[t] \cup {id}
             /\ \A i \in DOMAIN shownTree[t] \ {id} : shownTree'[t][i] = shownTree[t][i]
  <1>1. TreeTyped /\ SaveStands(q) /\ q[1] \in TreeTabs BY SavesAre DEF TreeInv
  <1> DEFINE t == q[1]
             id == treeRequest[q].id
             next == treeRequest[q].next
             list == [i \in DOMAIN shownTree[t] \cup {id} |-> IF i = id THEN next ELSE shownTree[t][i]]
  <1>2. treeRequest[q] \in TreeRequests BY <1>1, TreeRequestIs DEF TreeTyped, Decided
  <1>3. shownTree[t] \in Trees(DOMAIN tree) BY <1>1 DEF TreeTyped
  <1>4. /\ DOMAIN shownTree[t] \subseteq DOMAIN tree /\ NoRing(C!parentsOf(shownTree[t]))
        /\ \A i \in DOMAIN shownTree[t] :
             /\ shownTree[t][i] \in [name : Names, parent : DOMAIN shownTree[t] \cup {None}]
             /\ shownTree[t][i].parent \in DOMAIN shownTree[t] \cup {None}
    BY <1>3, TreesHave
  <1>5. id \in DOMAIN tree /\ DOMAIN tree \subseteq Ids
    BY <1>1, TreesHave DEF TreeTyped, SaveStands, Stands
  <1>6. /\ treeRequest[q].kind = "edit" => id \in DOMAIN shownTree[t] /\ next.parent \in MayHave(t, id)
        /\ treeRequest[q].kind = "create" => /\ next.parent \in DOMAIN shownTree[t] \cup {None}
                                             /\ id \notin DOMAIN shownTree[t]
    BY <1>1, <1>2 DEF SaveStands, OnPage, Own, Decided
  <1>7. shownTree' = [shownTree EXCEPT ![t] = list]
    <2>1. CASE treeRequest[q].kind = "create" BY <1>1, <2>1 DEF C!saveCategoryInto, TreeTyped
    <2>2. CASE treeRequest[q].kind = "edit"
      <3>1. DOMAIN shownTree[t] \cup {id} = DOMAIN shownTree[t] BY <1>6, <2>2
      <3> QED BY <1>1, <2>2, <3>1 DEF C!saveCategoryInto, TreeTyped
    <2> QED BY <1>2, <2>1, <2>2 DEF TreeRequests
  <1>8. shownTree'[t] = list BY <1>1, <1>7 DEF TreeTyped
  <1>9. next \in [name : Names, parent : DOMAIN list \cup {None}]
    <2>1. next.parent \in DOMAIN list \cup {None}
      BY <1>2, <1>4, <1>6 DEF MayHave, TreeRequests
    <2>2. next \in C!Fields BY <1>2 DEF TreeRequests
    <2> HIDE DEF list
    <2> QED BY <2>1, <2>2 DEF C!Fields
  <1>10. list \in Lists(DOMAIN tree)
    <2>1. DOMAIN list \subseteq DOMAIN tree BY <1>4, <1>5
    <2>2. ASSUME NEW i \in DOMAIN list PROVE list[i] \in [name : Names, parent : DOMAIN list \cup {None}]
      <3>1. CASE i = id
        <4>1. list[i] = next BY <3>1
        <4> HIDE DEF list
        <4> QED BY <1>9, <4>1
      <3>2. CASE i # id
        <4>1. i \in DOMAIN shownTree[t] /\ list[i] = shownTree[t][i] BY <3>2
        <4>2. DOMAIN shownTree[t] \subseteq DOMAIN list OBVIOUS
        <4> HIDE DEF list
        <4>3. shownTree[t][i] \in [name : Names, parent : DOMAIN shownTree[t] \cup {None}] BY <1>4, <4>1
        <4> QED BY <4>1, <4>2, <4>3
      <3> QED BY <3>1, <3>2
    <2>3. list = [i \in DOMAIN list |-> list[i]] OBVIOUS
    <2> HIDE DEF list
    <2>4. list \in [DOMAIN list -> [name : Names, parent : DOMAIN list \cup {None}]] BY <2>2, <2>3
    <2> QED BY <2>1, <2>4, ListsAre
  <1>11. NoRing(C!parentsOf(list))
    <2>1. /\ DOMAIN C!parentsOf(list) = DOMAIN shownTree[t] \cup {id}
          /\ C!parentsOf(list)[id] = next.parent
          /\ \A i \in DOMAIN shownTree[t] \ {id} : C!parentsOf(list)[i] = C!parentsOf(shownTree[t])[i]
      BY ParentsAre
    <2> HIDE DEF list
    <2>2. CASE treeRequest[q].kind = "create"
      <3>1. next.parent # id BY <1>5, <1>6, <2>2, TreeConstants
      <3>2. \A i \in DOMAIN shownTree[t] : C!parentsOf(shownTree[t])[i] # id
        BY <1>4, <1>5, <1>6, <2>2, ParentsAre, TreeConstants
      <3>3. /\ DOMAIN C!parentsOf(shownTree[t]) = DOMAIN shownTree[t] /\ NoRing(C!parentsOf(shownTree[t]))
            /\ id \notin DOMAIN shownTree[t] /\ C!parentsOf(list)[id] # id
            /\ DOMAIN C!parentsOf(list) = DOMAIN shownTree[t] \cup {id}
            /\ \A i \in DOMAIN shownTree[t] : C!parentsOf(list)[i] = C!parentsOf(shownTree[t])[i]
        BY <1>4, <1>6, <2>1, <2>2, <3>1, ParentsAre
      <3> HIDE DEF id, next, t
      <3> QED BY ONLY <3>2, <3>3, AddedFits
    <2>3. CASE treeRequest[q].kind = "edit"
      <3>1. id \in DOMAIN shownTree[t] /\ DOMAIN shownTree[t] \cup {id} = DOMAIN shownTree[t] BY <1>6, <2>3
      <3>2. CASE next.parent = shownTree[t][id].parent
        <4>1. C!parentsOf(list) = C!parentsOf(shownTree[t])
          <5>1. \A i \in DOMAIN shownTree[t] : C!parentsOf(list)[i] = C!parentsOf(shownTree[t])[i]
            BY <2>1, <3>1, <3>2, ParentsAre
          <5>2. DOMAIN C!parentsOf(list) = DOMAIN C!parentsOf(shownTree[t]) BY <2>1, <3>1, ParentsAre
          <5>3. /\ C!parentsOf(list) = [i \in DOMAIN list |-> C!parentsOf(list)[i]]
                /\ C!parentsOf(shownTree[t]) = [i \in DOMAIN shownTree[t] |-> C!parentsOf(shownTree[t])[i]]
            BY Zenon DEF C!parentsOf
          <5>4. DOMAIN list = DOMAIN shownTree[t] BY <5>2, ParentsAre
          <5> QED BY <5>1, <5>3, <5>4
        <4> QED BY <1>4, <4>1
      <3>3. CASE next.parent # shownTree[t][id].parent
        <4>1. DOMAIN shownTree[t] \subseteq Ids BY <1>4, <1>5
        <4>2. next.parent \notin C!descendantIds(shownTree[t], id)
          <5>1. C!descendantIds(shownTree[t], id) \subseteq Ids BY <4>1, <1>5, NothingBelow
          <5> QED BY <1>6, <2>3, <3>3, <5>1, TreeConstants DEF MayHave
        <4>3. \A i \in DOMAIN shownTree[t] \ {id} : C!parentsOf(list)[i] = shownTree[t][i].parent
          BY <2>1, ParentsAre
        <4>4. /\ DOMAIN C!parentsOf(list) = DOMAIN shownTree[t]
              /\ C!parentsOf(list)[id] = next.parent
              /\ NoRing(C!parentsOf(shownTree[t])) /\ id \in DOMAIN shownTree[t]
          BY <1>4, <2>1, <3>1
        <4> HIDE DEF id, next, t
        <4> QED BY ONLY <4>1, <4>2, <4>3, <4>4, ChosenFits
      <3> QED BY <3>2, <3>3
    <2> QED BY <1>2, <2>2, <2>3 DEF TreeRequests
  <1>12. list \in Trees(DOMAIN tree) BY <1>10, <1>11 DEF Trees
  <1> QED BY <1>7, <1>8, <1>12


\* The app-wide tags after a save.
LEMMA SavedTags ==
  ASSUME TreeInv, NEW q \in C!Saves, Decided(q), C!applySaved(q)
  PROVE  LET id == treeRequest[q].id
             t == q[1]
         IN  /\ knownTags' = [knownTags EXCEPT ![t] = knownTags'[t]]
             /\ outdatedTags' = [outdatedTags EXCEPT ![t] = outdatedTags'[t]]
             /\ knownTags'[t] \in TagLists(DOMAIN tree) /\ knownTags'[t] # None
             /\ outdatedTags'[t] = IF treeRequest[q].newest THEN outdatedTags[t] \ {id}
                                   ELSE outdatedTags[t] \cup {id}
             /\ C!TagOf(knownTags'[t], id) = treeRequest[q].tag.next
             /\ \A i \in DOMAIN tree \ {id} : C!TagOf(knownTags'[t], i) = C!TagOf(knownTags[t], i)
  <1>1. TreeTyped /\ SaveStands(q) /\ q[1] \in TreeTabs BY SavesAre DEF TreeInv
  <1> DEFINE t == q[1]
             id == treeRequest[q].id
             tag == treeRequest[q].tag.next
             known == [i \in DOMAIN knownTags[t] \cup {id} |-> IF i = id THEN tag ELSE knownTags[t][i]]
             outs == IF treeRequest[q].newest THEN outdatedTags[t] \ {id} ELSE outdatedTags[t] \cup {id}
  <1>2. treeRequest[q] \in TreeRequests BY <1>1, TreeRequestIs DEF TreeTyped, Decided
  <1>3. knownTags' = [knownTags EXCEPT ![t] = known] /\ outdatedTags' = [outdatedTags EXCEPT ![t] = outs]
    BY <1>1 DEF C!applySaved, TreeTyped
  <1>4. knownTags'[t] = known /\ outdatedTags'[t] = outs BY <1>1, <1>3 DEF TreeTyped
  <1>5. knownTags[t] # None /\ id \in DOMAIN tree
    BY <1>1 DEF SaveStands, Stands, Decided
  <1>6. knownTags[t] \in TagLists(DOMAIN tree) BY <1>1, <1>5 DEF TreeTyped
  <1>7. DOMAIN knownTags[t] \subseteq DOMAIN tree /\ knownTags[t] \in [DOMAIN knownTags[t] -> C!Tag]
    BY <1>6, TagListsAre
  <1>8. tag \in C!Tag BY <1>2 DEF TreeRequests
  <1>9. known \in TagLists(DOMAIN tree)
    <2>1. DOMAIN known \subseteq DOMAIN tree /\ known \in [DOMAIN known -> C!Tag] BY <1>5, <1>7, <1>8
    <2> HIDE DEF known
    <2> QED BY <2>1, TagListsAre
  <1>10. known # None
    <2>1. DOMAIN tree \in SUBSET Ids BY <1>1, TreesHave DEF TreeTyped
    <2> HIDE DEF known
    <2> QED BY <1>9, <2>1, TreeConstants
  <1>11. /\ C!TagOf(known, id) = tag
         /\ \A i \in DOMAIN tree \ {id} : C!TagOf(known, i) = C!TagOf(knownTags[t], i)
    BY DEF C!TagOf
  <1> QED BY <1>3, <1>4, <1>9, <1>10, <1>11

\* A save whose answer its tab has handled.
LEMMA AnsweredTree ==
  ASSUME TreeInv, TreeTyped', NEW q \in C!Saves, C!Phase(q) # "idle",
         UNCHANGED <<tree, tags, treeLock>>, treeRequest' = [treeRequest EXCEPT ![q] = C!Idle],
         \A u \in TreeTabs \ {q[1]} :
           /\ shownTree'[u] = shownTree[u] /\ knownTags'[u] = knownTags[u]
           /\ outdatedTree'[u] = outdatedTree[u] /\ outdatedTags'[u] = outdatedTags[u]
           /\ treeDialog'[u] = treeDialog[u]
           /\ \A who \in C!Owners : tagLoads'[u][who] = tagLoads[u][who],
         TabStands(q[1])',
         knownTags[q[1]] # None => knownTags'[q[1]] # None,
         treeRequest[q].orphan => PageKept(q[1])
  PROVE  TreeInv'
  <1>1. TreeTyped /\ q[1] \in TreeTabs BY SavesAre DEF TreeInv
  <1>2. \A u \in TreeTabs : TabStands(u)' BY TabKept DEF TreeInv
  <1>3. C!Phase(q)' = "idle" BY <1>1 DEF TreeTyped, C!Phase, C!Idle
  <1>4. SaveStands(q)' /\ ~Own(q)'
    BY <1>3 DEF SaveStands, Undecided, HoldsTree, Stands, Decided, OnPage, Own
  <1>5. ASSUME NEW p \in C!Saves, p # q PROVE SaveStands(p)' /\ Own(p)' = Own(p)
    <2>1. treeRequest'[p] = treeRequest[p] BY <1>1, <1>5 DEF TreeTyped
    <2>2. SaveStands(p) /\ p[1] \in TreeTabs BY SavesAre DEF TreeInv
    <2>3. Own(p) => PageKept(p[1])
      <3>1. CASE p[1] = q[1]
        <4>1. Own(p) => ~Own(q) BY <1>5, <3>1 DEF TreeInv, OneOwn
        <4> QED BY <3>1, <4>1 DEF Own
      <3>2. CASE p[1] # q[1] BY <2>2, <3>2 DEF PageKept
      <3> QED BY <3>1, <3>2
    <2>4. knownTags[p[1]] # None => knownTags'[p[1]] # None BY <2>2
    <2> QED BY <2>1, <2>2, <2>3, <2>4, SaveKept
  <1>6. \A p \in C!Saves : SaveStands(p)' /\ (Own(p)' => Own(p)) BY <1>4, <1>5
  <1>7. OneOwn' BY <1>6 DEF TreeInv, OneOwn
  <1> QED BY <1>2, <1>6, <1>7 DEF TreeInv

LEMMA ReceiveAnswerTree ==
  ASSUME TreeInv, NEW q \in C!Saves, C!ReceiveAnswer(q) PROVE TreeInv'
  <1> DEFINE t == q[1]
  <1>1. TreeTyped /\ SaveStands(q) /\ t \in TreeTabs /\ TabStands(t) BY SavesAre DEF TreeInv
  <1>2. /\ UNCHANGED <<tree, tags, treeLock, uses>> /\ treeRequest' = [treeRequest EXCEPT ![q] = C!Idle]
        /\ C!Phase(q) = "answered"
    BY DEF C!ReceiveAnswer
  <1>3. treeRequest' \in [C!Saves -> TreeRequests \cup {C!Idle}] BY <1>1, <1>2 DEF TreeTyped
  <1>4. treeRequest[q] \in TreeRequests BY <1>1, <1>2, TreeRequestIs DEF TreeTyped
  <1>5. /\ DialogStands(t) /\ ShowsTree(t) /\ \A who \in C!Owners : ReadStands(tagLoads[t][who])
        /\ DOMAIN shownTree[t] \subseteq DOMAIN tree /\ DOMAIN tree \subseteq Ids
    BY <1>1, TreesHave DEF TabStands, TreeTyped
  <1>6. treeRequest[q].answer = "ok" => C!Saved(q) BY DEF C!ReceiveAnswer
  <1>7. treeRequest[q].answer # "ok" => C!NotSaved(q) BY DEF C!ReceiveAnswer
  <1> HIDE DEF t
  <1>8. CASE treeRequest[q].answer # "ok"
    <2>1. /\ UNCHANGED <<shownTree, knownTags, outdatedTree, outdatedTags, tagLoads>>
          /\ IF treeRequest[q].orphan THEN treeDialog' = treeDialog
             ELSE treeDialog' = [treeDialog EXCEPT ![t].saving = FALSE,
                                                   ![t].error = C!toCategorySaveError(treeRequest[q].answer)]
      BY <1>7, <1>8 DEF C!NotSaved, t
    <2>2. treeDialog[t] \in TreeDialogs BY <1>1 DEF TreeTyped
    <2>3. C!toCategorySaveError(treeRequest[q].answer) \in {"conflict", "cycle", "generic"}
      BY DEF C!toCategorySaveError
    <2>4. /\ treeDialog' = [treeDialog EXCEPT ![t] = treeDialog'[t]] /\ treeDialog'[t] \in TreeDialogs
          /\ treeDialog'[t].kind = treeDialog[t].kind /\ treeDialog'[t].id = treeDialog[t].id
          /\ treeDialog'[t].opened = treeDialog[t].opened /\ treeDialog'[t].openedTag = treeDialog[t].openedTag
      <3>1. CASE treeDialog' = treeDialog BY <1>1, <2>2, <3>1 DEF TreeTyped
      <3>2. CASE treeDialog' = [treeDialog EXCEPT ![t].saving = FALSE,
                                         ![t].error = C!toCategorySaveError(treeRequest[q].answer)]
        <4> DEFINE d == [treeDialog[t] EXCEPT !.saving = FALSE, !.error = C!toCategorySaveError(treeRequest[q].answer)]
        <4>1. treeDialog' = [treeDialog EXCEPT ![t] = d] BY <1>1, <3>2 DEF TreeTyped
        <4>2. /\ d \in TreeDialogs /\ d.kind = treeDialog[t].kind /\ d.id = treeDialog[t].id
              /\ d.opened = treeDialog[t].opened /\ d.openedTag = treeDialog[t].openedTag
          BY <2>2, <2>3 DEF TreeDialogs
        <4> HIDE DEF d
        <4>3. treeDialog'[t] = d BY <1>1, <4>1 DEF TreeTyped
        <4> QED BY <4>1, <4>2, <4>3
      <3> QED BY <2>1, <3>1, <3>2
    <2>5. TreeTyped'
      <3>1. treeDialog' \in [TreeTabs -> TreeDialogs] BY <1>1, <2>4 DEF TreeTyped
      <3> QED BY <1>1, <1>2, <1>3, <2>1, <3>1 DEF TreeTyped
    <2>6. \A u \in TreeTabs \ {t} : treeDialog'[u] = treeDialog[u] BY <1>1, <2>4 DEF TreeTyped
    <2>7. TabStands(t)'
      <3>1. DialogStands(t)' BY <1>5, <2>1, <2>4 DEF DialogStands
      <3>2. ShowsTree(t)' BY <1>2, <1>5, <2>1 DEF ShowsTree
      <3>3. \A who \in C!Owners : ReadStands(tagLoads[t][who])' BY <1>2, <1>5, <2>1 DEF ReadStands
      <3> QED BY <3>1, <3>2, <3>3 DEF TabStands
    <2>8. treeRequest[q].orphan => PageKept(t) BY <2>1 DEF PageKept
    <2> QED BY <1>2, <2>1, <2>5, <2>6, <2>7, <2>8, AnsweredTree DEF t
  <1>9. CASE treeRequest[q].answer = "ok"
    <2>1. Decided(q) BY <1>2, <1>9 DEF Decided
    <2>2. C!applySaved(q) BY <1>6, <1>9 DEF C!Saved
    <2> DEFINE id == treeRequest[q].id
    <2>3. /\ knownTags' = [knownTags EXCEPT ![t] = knownTags'[t]]
          /\ outdatedTags' = [outdatedTags EXCEPT ![t] = outdatedTags'[t]]
          /\ knownTags'[t] \in TagLists(DOMAIN tree) /\ knownTags'[t] # None
          /\ outdatedTags'[t] = IF treeRequest[q].newest THEN outdatedTags[t] \ {id} ELSE outdatedTags[t] \cup {id}
          /\ C!TagOf(knownTags'[t], id) = treeRequest[q].tag.next
          /\ \A i \in DOMAIN tree \ {id} : C!TagOf(knownTags'[t], i) = C!TagOf(knownTags[t], i)
      BY <2>1, <2>2, SavedTags DEF t
    <2>4. /\ id \in DOMAIN tree
          /\ treeRequest[q].newest => tree[id] = treeRequest[q].next /\ tags[id] = treeRequest[q].tag.next
          /\ knownTags[t] # None
      BY <1>1, <1>2, <2>1 DEF SaveStands, Stands, t
    <2>5. knownTags' \in [TreeTabs -> TagLists(DOMAIN tree) \cup {None}] /\ outdatedTags' \in [TreeTabs -> SUBSET Ids]
      <3>1. outdatedTags[t] \in SUBSET Ids /\ id \in Ids BY <1>1, <1>5, <2>4 DEF TreeTyped
      <3>2. outdatedTags'[t] \in SUBSET Ids BY <2>3, <3>1
      <3> QED BY <1>1, <2>3, <3>2 DEF TreeTyped
    <2>6. \A u \in TreeTabs \ {t} : knownTags'[u] = knownTags[u] /\ outdatedTags'[u] = outdatedTags[u]
      BY <1>1, <2>3 DEF TreeTyped
    <2>7. \A i \in DOMAIN tree \ outdatedTags'[t] : C!TagOf(knownTags'[t], i) = tags[i]
      <3> SUFFICES ASSUME NEW i \in DOMAIN tree, i \notin outdatedTags'[t]
                   PROVE  C!TagOf(knownTags'[t], i) = tags[i]
        OBVIOUS
      <3>1. CASE i = id BY <2>3, <2>4, <3>1
      <3>2. CASE i # id
        <4>1. i \notin outdatedTags[t] BY <2>3, <3>2
        <4>2. C!TagOf(knownTags[t], i) = tags[i] BY <1>5, <2>4, <4>1 DEF ShowsTree
        <4> QED BY <2>3, <3>2, <4>2
      <3> QED BY <3>1, <3>2
    <2>8. CASE treeRequest[q].orphan
      <3>1. UNCHANGED <<shownTree, outdatedTree, tagLoads, treeDialog>> BY <1>6, <1>9, <2>8 DEF C!Saved
      <3>2. TreeTyped' BY <1>1, <1>2, <1>3, <2>5, <3>1 DEF TreeTyped
      <3>3. TabStands(t)'
        <4>1. DialogStands(t)' BY <1>5, <2>3, <3>1 DEF DialogStands
        <4>2. ShowsTree(t)' BY <1>2, <1>5, <2>7, <3>1 DEF ShowsTree
        <4>3. \A who \in C!Owners : ReadStands(tagLoads[t][who])' BY <1>2, <1>5, <3>1 DEF ReadStands
        <4> QED BY <4>1, <4>2, <4>3 DEF TabStands
      <3>4. PageKept(t) BY <3>1 DEF PageKept
      <3> QED BY <1>2, <2>3, <2>6, <3>1, <3>2, <3>3, <3>4, AnsweredTree DEF t
    <2>9. CASE ~treeRequest[q].orphan
      <3>1. /\ C!saveCategoryInto(q)
            /\ outdatedTree' = [outdatedTree EXCEPT ![t] = IF treeRequest[q].newest THEN @ \ {id} ELSE @]
            /\ treeDialog' = [treeDialog EXCEPT ![t] = C!Closed]
            /\ tagLoads' = [tagLoads EXCEPT ![t]["dialog"] = C!Asleep]
        BY <1>6, <1>9, <2>9 DEF C!Saved, C!DialogGone, t
      <3>2. /\ shownTree' = [shownTree EXCEPT ![t] = shownTree'[t]] /\ shownTree'[t] \in Trees(DOMAIN tree)
            /\ id \in DOMAIN shownTree'[t] /\ shownTree'[t][id] = treeRequest[q].next
            /\ DOMAIN shownTree'[t] = DOMAIN shownTree[t] \cup {id}
            /\ \A i \in DOMAIN shownTree[t] \ {id} : shownTree'[t][i] = shownTree[t][i]
        BY <2>1, <2>9, <3>1, SavedList DEF t
      <3>3. /\ outdatedTree'[t] = IF treeRequest[q].newest THEN outdatedTree[t] \ {id} ELSE outdatedTree[t]
            /\ outdatedTree' \in [TreeTabs -> SUBSET Ids] /\ treeDialog' \in [TreeTabs -> TreeDialogs]
            /\ treeDialog'[t] = C!Closed /\ shownTree' \in [TreeTabs -> Trees(DOMAIN tree)]
        BY <1>1, <3>1, <3>2, ClosedIs DEF TreeTyped
      <3>4. /\ tagLoads' \in [TreeTabs -> [C!Owners -> TagReads(DOMAIN tree)]]
            /\ tagLoads'[t]["dialog"] = C!Asleep
            /\ \A u \in TreeTabs, o \in C!Owners : u # t \/ o # "dialog" => tagLoads'[u][o] = tagLoads[u][o]
        <4>1. C!Asleep \in TagReads(DOMAIN tree) /\ "dialog" \in C!Owners BY AsleepReads DEF C!Owners
        <4>2. TreeTyped /\ t \in TreeTabs /\ tagLoads' = [tagLoads EXCEPT ![t]["dialog"] = C!Asleep]
          BY <1>1, <3>1
        <4> QED BY <4>1, <4>2, LoadSet
      <3>5. TreeTyped' BY <1>1, <1>2, <1>3, <2>5, <3>3, <3>4 DEF TreeTyped
      <3>6. \A u \in TreeTabs \ {t} : /\ shownTree'[u] = shownTree[u] /\ outdatedTree'[u] = outdatedTree[u]
                                      /\ treeDialog'[u] = treeDialog[u]
                                      /\ \A who \in C!Owners : tagLoads'[u][who] = tagLoads[u][who]
        BY <1>1, <3>1, <3>2, <3>4 DEF TreeTyped
      <3>7. TabStands(t)'
        <4>1. DialogStands(t)' BY <3>3, ClosedIs DEF DialogStands
        <4>2. id \in outdatedTree[t] BY <1>1, <1>2, <2>1, <2>9 DEF SaveStands, OnPage, Own, t
        <4>3. ASSUME NEW i \in DOMAIN shownTree'[t], i \notin outdatedTree'[t] PROVE shownTree'[t][i] = tree[i]
          <5>1. CASE i = id BY <2>4, <3>2, <3>3, <4>2, <4>3, <5>1
          <5>2. CASE i # id
            <6>1. i \in DOMAIN shownTree[t] /\ i \notin outdatedTree[t] BY <3>2, <3>3, <4>3, <5>2
            <6> QED BY <1>5, <3>2, <5>2, <6>1 DEF ShowsTree
          <5> QED BY <5>1, <5>2
        <4>4. ShowsTree(t)' BY <1>2, <2>7, <4>3 DEF ShowsTree
        <4>5. \A who \in C!Owners : ReadStands(tagLoads[t][who])'
          BY <1>1, <1>2, <1>5, <3>4, AsleepReads DEF ReadStands
        <4> QED BY <4>1, <4>4, <4>5 DEF TabStands
      <3> QED BY <1>2, <2>3, <2>6, <2>9, <3>5, <3>6, <3>7, AnsweredTree DEF t
    <2> QED BY <2>8, <2>9
  <1> QED BY <1>8, <1>9

LEMMA NextTree == TreeInv /\ [C!Next]_C!vars => TreeInv'
  <1> SUFFICES ASSUME TreeInv, [C!Next]_C!vars PROVE TreeInv' OBVIOUS
  <1>1. CASE UNCHANGED C!vars
    <2>1. UNCHANGED <<tree, tags, treeLock, shownTree, knownTags, outdatedTree, outdatedTags, tagLoads,
                      treeDialog, treeRequest, uses>>
      BY <1>1 DEF C!vars, C!screen
    <2>2. TreeTyped' BY <2>1 DEF TreeInv, TreeTyped
    <2>3. \A u \in TreeTabs : TabStands(u)' BY <2>1, TabKept DEF TreeInv
    <2>4. ASSUME NEW q \in C!Saves PROVE SaveStands(q)' /\ Own(q)' = Own(q)
      <3>1. SaveStands(q) /\ PageKept(q[1]) BY <2>1 DEF TreeInv, PageKept
      <3> QED BY <2>1, <3>1, SaveKept
    <2>5. OneOwn' BY <2>4 DEF TreeInv, OneOwn
    <2> QED BY <2>2, <2>3, <2>4, <2>5 DEF TreeInv
  <1>2. ASSUME NEW t \in TreeTabs, C!TabStep(t) PROVE TreeInv'
    <2>1. CASE C!openCreate(t) BY <2>1, OpenDialogTree DEF C!openCreate
    <2>2. ASSUME NEW id \in Ids, C!openEdit(t, id) PROVE TreeInv' BY <2>2, OpenDialogTree DEF C!openEdit
    <2> QED BY <1>2, <2>1, <2>2, ChangePageTree, AnswerTagsTree, ReceiveTagsTree, FailTagsTree, CancelTree,
               SaveTree DEF C!TabStep
  <1>3. ASSUME NEW q \in C!Saves, C!SaveStep(q) PROVE TreeInv'
    BY <1>3, CreateCategoryTree, LockTreeTree, UpdateCategoryTree, FailRequestTree, LoseAnswerTree,
       ReceiveAnswerTree DEF C!SaveStep
  <1> QED BY <1>1, <1>2, <1>3 DEF C!Next

-----------------------------------------------------------------------------
(* Categories: what the invariant says. *)

LEMMA TreeTypes == ASSUME TreeInv PROVE C!TypeOK
  <1>1. TreeTyped BY DEF TreeInv
  <1>2. /\ DOMAIN tree \subseteq Ids /\ \A id \in DOMAIN tree : tree[id] \in C!Fields
    <2>1. /\ DOMAIN tree \in SUBSET Ids
          /\ \A id \in DOMAIN tree : tree[id] \in [name : Names, parent : DOMAIN tree \cup {None}]
      BY <1>1, TreesHave DEF TreeTyped
    <2> QED BY <2>1, FieldsAre
  <1>3. ASSUME NEW t \in TreeTabs
        PROVE  /\ DOMAIN shownTree[t] \subseteq DOMAIN tree
               /\ outdatedTree[t] \cup outdatedTags[t] \subseteq Ids
               /\ knownTags[t] = None \/ DOMAIN knownTags[t] \subseteq DOMAIN tree
               /\ \A who \in C!Owners : tagLoads[t][who].phase \in {"none", "sent", "answered"}
               /\ treeDialog[t].kind \in {"closed", "create", "edit"}
               /\ treeDialog[t].openedTag \in C!Tag \cup {Unknown}
               /\ treeDialog[t].error \in {None, "conflict", "cycle", "generic"}
    <2>1. DOMAIN shownTree[t] \subseteq DOMAIN tree BY <1>1, TreesHave DEF TreeTyped
    <2>2. knownTags[t] = None \/ DOMAIN knownTags[t] \subseteq DOMAIN tree
      BY <1>1, TagListsAre DEF TreeTyped
    <2>3. treeDialog[t] \in TreeDialogs BY <1>1 DEF TreeTyped
    <2>4. \A who \in C!Owners : tagLoads[t][who] \in TagReads(DOMAIN tree) BY <1>1 DEF TreeTyped
    <2> QED BY <1>1, <2>1, <2>2, <2>3, <2>4 DEF TreeTyped, TreeDialogs, TagReads
  <1>4. ASSUME NEW q \in C!Saves PROVE C!Phase(q) \in {"idle", "sent", "checking", "answered"}
    <2>1. treeRequest[q] \in TreeRequests \cup {C!Idle} BY <1>1 DEF TreeTyped
    <2> QED BY <2>1 DEF TreeRequests, C!Phase, C!Idle
  <1> QED BY <1>1, <1>2, <1>3, <1>4 DEF TreeTyped, C!TypeOK

LEMMA NoneIsItsOwnAncestor == ASSUME TreeInv PROVE C!TreesAcyclic
  <1>1. TreeTyped BY DEF TreeInv
  <1>2. ASSUME NEW D \in SUBSET Ids, NEW cats \in Trees(D) PROVE C!Acyclic(cats)
    <2>1. DOMAIN cats \subseteq Ids /\ NoRing(C!parentsOf(cats)) BY TreesHave
    <2>2. None \notin DOMAIN C!parentsOf(cats) BY <2>1, ParentsAre, TreeConstants
    <2>3. \A id \in DOMAIN cats : ~C!createsCycle(id, C!parentsOf(cats)[id], C!parentsOf(cats))
      BY <2>1, <2>2, ParentsAre, CycleIsRing
    <2> QED BY <2>3, ParentsAre DEF C!Acyclic
  <1>3. DOMAIN tree \in SUBSET Ids BY <1>1, TreesHave DEF TreeTyped
  <1> QED BY <1>1, <1>2, <1>3 DEF C!TreesAcyclic, TreeTyped

LEMMA TabsShowTree == ASSUME TreeInv PROVE C!CategoriesFit
  BY DEF TreeInv, TabStands, ShowsTree, C!CategoriesFit

\* Only createCategory and updateCategory write the tree, and only the second writes a
\* category that is there already.
LEMMA TreeWriters ==
  ASSUME TreeInv, C!Next, NEW id \in DOMAIN tree, tree'[id] # tree[id] \/ tags'[id] # tags[id]
  PROVE  \E q \in C!Saves : /\ C!UpdateCategory(q) /\ treeRequest[q].id = id
                            /\ C!Changed(q, id, treeRequest[q].next, treeRequest[q].tag.next)
                            /\ tree[id] = treeRequest[q].expected
                            /\ C!TagOf(tags, id) = treeRequest[q].tag.expected
  <1>1. TreeTyped BY DEF TreeInv
  <1>2. DOMAIN tree \subseteq Ids BY <1>1, TreesHave DEF TreeTyped
  <1>3. ~(tree' = tree /\ tags' = tags) OBVIOUS
  <1>4. \A t \in TreeTabs : ~C!TabStep(t)
    BY <1>3 DEF C!TabStep, C!ChangePage, C!AnswerTags, C!ReceiveTags, C!FailTags, C!openCreate, C!openEdit,
                C!OpenDialog, C!Cancel, C!save
  <1>5. PICK q \in C!Saves : C!createCategory(q) \/ C!UpdateCategory(q)
    BY <1>3, <1>4 DEF C!Next, C!SaveStep, C!LockTree, C!FailRequest, C!Refuse, C!LoseAnswer, C!ReceiveAnswer
  <1>6. ~C!createCategory(q)
    <2> SUFFICES ASSUME C!createCategory(q) PROVE FALSE OBVIOUS
    <2> DEFINE new == C!NextId(Ids \ DOMAIN tree)
    <2>1. Ids \ DOMAIN tree # {} BY <1>2 DEF C!createCategory
    <2>2. C!Changed(q, new, treeRequest[q].next, treeRequest[q].tag.next) BY DEF C!createCategory
    <2>3. new \in Ids \ DOMAIN tree
      <3>1. Ids \ DOMAIN tree \in SUBSET Ids OBVIOUS
      <3> HIDE DEF new
      <3> QED BY <2>1, <3>1, NextIdIs DEF new
    <2> HIDE DEF new
    <2>4. tree'[id] = tree[id] /\ tags'[id] = tags[id] BY <2>2, <2>3 DEF C!Changed
    <2> QED BY <2>4
  <1>7. C!UpdateCategory(q) BY <1>5, <1>6
  <1>8. \A a : ~C!Refuse(q, a) BY <1>3 DEF C!Refuse
  <1>9. /\ C!Changed(q, treeRequest[q].id, treeRequest[q].next, treeRequest[q].tag.next)
        /\ tree[treeRequest[q].id] = treeRequest[q].expected
        /\ C!TagOf(tags, treeRequest[q].id) = treeRequest[q].tag.expected
    BY <1>7, <1>8 DEF C!UpdateCategory
  <1>10. treeRequest[q].id = id
    BY <1>9 DEF C!Changed
  <1> QED BY <1>7, <1>9, <1>10

\* What a step does to a category and its tag, as NoLostCategoryEdit states it.
LEMMA CategoryKept ==
  ASSUME TreeInv, C!Next, NEW id \in DOMAIN tree, tree'[id] # tree[id] \/ tags'[id] # tags[id]
  PROVE  \E q \in C!Saves :
            /\ C!Phase(q) = "checking" /\ treeRequest[q].id = id
            /\ tree[id] = treeRequest[q].expected /\ tags[id] = treeRequest[q].tag.expected
            /\ tree'[id] = treeRequest[q].next /\ tags'[id] = treeRequest[q].tag.next
            /\ ~treeRequest[q].orphan => treeDialog[q[1]].saving /\ tree[id] = treeDialog[q[1]].opened
  <1>1. TreeTyped BY DEF TreeInv
  <1>2. PICK q \in C!Saves :
          /\ C!UpdateCategory(q) /\ treeRequest[q].id = id
          /\ C!Changed(q, id, treeRequest[q].next, treeRequest[q].tag.next)
          /\ tree[id] = treeRequest[q].expected /\ C!TagOf(tags, id) = treeRequest[q].tag.expected
    BY TreeWriters
  <1>3. C!Phase(q) = "checking" BY <1>2 DEF C!UpdateCategory
  <1>4. tags[id] = treeRequest[q].tag.expected BY <1>1, <1>2 DEF TreeTyped, C!TagOf
  <1>5. tree'[id] = treeRequest[q].next /\ tags'[id] = treeRequest[q].tag.next BY <1>2 DEF C!Changed
  <1>6. ~treeRequest[q].orphan => /\ treeDialog[q[1]].saving
                                  /\ treeDialog[q[1]].opened = treeRequest[q].expected
    BY <1>3 DEF TreeInv, SaveStands, OnPage, Own
  <1> QED BY <1>2, <1>3, <1>4, <1>5, <1>6

-----------------------------------------------------------------------------
(* Tax sections: the inductive invariant. *)

TaxTables == UNION {[S -> Names] : S \in SUBSET TaxCodes}
TaxTagLists == [Categories -> TaxCodes \cup {None}]
RealSections == [code : TaxCodes, name : Names]
SectionLists == SUBSET RealSections
Pendings == [phase : {"none", "sent", "failed"}, answer : {None}]
ReadsOf(what) ==
  Pendings \cup [phase : {"answered"}, answer : IF what = "tags" THEN TaxTagLists ELSE SectionLists]
TaxLoads == {L \in [X!Loads -> ReadsOf("tags") \cup ReadsOf("sections")] : \A l \in X!Loads : L[l] \in ReadsOf(l[2])}
TaxDialogs ==
  [open : {TRUE}, row : {"none", "new", "existing"}, original : X!Drafts, draft : X!Drafts,
   busy : BOOLEAN, error : {None, "conflict", "duplicate", "in-use", "generic"},
   saved : BOOLEAN, pending : X!Actions]
TaxRequests ==
  [phase : {"sent", "answered"}, kind : {"create", "update", "delete", "load"},
   expected : X!Drafts, next : X!Drafts,
   answer : {None, "ok", "error", "conflict", "duplicate", "in-use", "not-found"},
   fresh : SectionLists, orphan : BOOLEAN]

TaxTyped ==
  /\ sections \in TaxTables
  /\ tagged \in TaxTagLists
  /\ uses \in 0..MaxTaxUses /\ unsure \subseteq TaxTabs
  /\ heldSections \in [TaxTabs -> SectionLists \cup {None}]
  /\ heldTags \in [TaxTabs -> TaxTagLists \cup {None}]
  /\ loads \in [TaxTabs -> TaxLoads]
  /\ taxDialog \in [TaxTabs -> TaxDialogs \cup {X!Shut}]
  /\ taxRequest \in [X!Requests -> TaxRequests \cup {X!Idle}]

\* The dialog as its handlers expect it.
DialogExpected(d) ==
  d.open =>
    /\ d.error \in {"conflict", "in-use"} => d.row = "existing"
    /\ d.pending # "none" => d.row # "none"
    /\ d.busy => d.pending = "none"
    /\ d.saved => d.row = "existing" /\ ~X!dirty(d)
    /\ d.row = "new" => d.original = X!EmptyDraft
    /\ d.row = "existing" => d.original \in RealSections

\* The requests of a tab's dialogs; one of them at most is that of the dialog that is open.
Of(t) == {q \in X!Requests : q[1] = t}
Sends(q) == X!Phase(q) # "idle" /\ ~taxRequest[q].orphan

\* A request names whole sections, has only an answer it can have, and was made when there
\* were sections. While its page is there, so is its busy dialog.
RequestStands(q) ==
  LET r == taxRequest[q]
      d == taxDialog[q[1]]
  IN
  X!Phase(q) # "idle" =>
    /\ heldSections[q[1]] # None
    /\ r.kind # "create" => r.expected \in RealSections
    /\ r.kind \in {"create", "update"} => r.next \in RealSections
    /\ r.answer = "conflict" => r.kind = "update"
    /\ r.answer = "in-use" => r.kind = "delete"
    /\ ~r.orphan => d.open /\ d.busy /\ (r.kind \in {"update", "delete"} => d.row = "existing")

Handles(t) ==
  LET d == taxDialog[t] IN
  /\ DialogExpected(d)
  /\ heldSections[t] = None => (d.open => d.row = "none")
  /\ d.open /\ d.busy => \E q \in Of(t) : Sends(q)
  /\ \A q, p \in Of(t) : Sends(q) /\ Sends(p) => q = p
  /\ \A q \in Of(t) : RequestStands(q)

\* A tab that nobody overtook holds what is stored, or has the one answer that brings it there.
Brings(q) == X!Phase(q) = "answered" /\ taxRequest[q].answer = "ok"
OneComes(t) ==
  /\ \A l, m \in X!Loads : X!Answered(t, l) /\ X!Answered(t, m) => l = m
  /\ \A q, p \in Of(t) : Brings(q) /\ Brings(p) => q = p
  /\ \A l \in X!Loads, q \in Of(t) : ~(X!Answered(t, l) /\ Brings(q))
HoldsSections(t) ==
  t \notin unsure =>
    /\ \A l \in X!Loads : X!Answered(t, l) => loads[t][l].answer = X!ListOf(sections)
    /\ \A q \in Of(t) : Brings(q) => X!Applies(q) /\ X!Applied(q) = X!ListOf(sections)
    /\ ~X!Coming(t) => heldSections[t] \in {None, X!ListOf(sections)}
    /\ OneComes(t)

TaxStands(t) == Handles(t) /\ HoldsSections(t)

TaxInv == TaxTyped /\ \A t \in TaxTabs : TaxStands(t)

-----------------------------------------------------------------------------
(* Tax sections: facts about the types. *)

LEMMA TaxConstants ==
  /\ None \notin SectionLists /\ MaxTaxUses \in Nat /\ None \notin TaxCodes
  /\ X!Empty \notin TaxCodes /\ X!Empty \notin Names /\ None \notin {"conflict", "in-use"}
  BY PartsFit DEF X!ConstantsFit, SectionLists, RealSections

LEMMA RequestsAre ==
  /\ \A q \in X!Requests : q[1] \in TaxTabs /\ q \in Of(q[1])
  /\ \A t \in TaxTabs, s \in TaxSlots : <<t, s>> \in Of(t) /\ <<t, s>>[1] = t
  /\ \A t : \A q \in Of(t) : q \in X!Requests /\ q[1] = t /\ \E s \in TaxSlots : q = <<t, s>>
  BY DEF X!Requests, Of

LEMMA LoadsAre == \A l \in X!Loads : l[2] \in {"sections", "tags"}
  BY PartsFit DEF X!Loads, X!ConstantsFit

LEMMA ComingIs ==
  ASSUME NEW t \in TaxTabs
  PROVE  X!Coming(t) <=> \/ \E l \in X!Loads : X!Answered(t, l)
                         \/ \E q \in Of(t) : Brings(q)
  <1>1. ASSUME NEW s \in TaxSlots, X!Phase(<<t, s>>) = "answered", taxRequest[<<t, s>>].answer = "ok"
        PROVE  \E q \in Of(t) : Brings(q)
    <2>1. <<t, s>> \in Of(t) BY RequestsAre
    <2>2. Brings(<<t, s>>) BY <1>1 DEF Brings
    <2> QED BY <2>1, <2>2
  <1>2. ASSUME NEW q \in Of(t), Brings(q)
        PROVE  \E s \in TaxSlots : X!Phase(<<t, s>>) = "answered" /\ taxRequest[<<t, s>>].answer = "ok"
    <2>1. PICK s \in TaxSlots : q = <<t, s>> BY RequestsAre
    <2> QED BY <1>2, <2>1 DEF Brings
  <1> QED BY <1>1, <1>2 DEF X!Coming

LEMMA ComingIsNext ==
  ASSUME NEW t \in TaxTabs
  PROVE  X!Coming(t)' <=> \/ \E l \in X!Loads : X!Answered(t, l)'
                          \/ \E q \in Of(t) : Brings(q)'
  <1>1. ASSUME NEW s \in TaxSlots, X!Phase(<<t, s>>)' = "answered", taxRequest'[<<t, s>>].answer = "ok"
        PROVE  \E q \in Of(t) : Brings(q)'
    <2>1. <<t, s>> \in Of(t) BY RequestsAre
    <2>2. Brings(<<t, s>>)' BY <1>1 DEF Brings
    <2> QED BY <2>1, <2>2
  <1>2. ASSUME NEW q \in Of(t), Brings(q)'
        PROVE  \E s \in TaxSlots : X!Phase(<<t, s>>)' = "answered" /\ taxRequest'[<<t, s>>].answer = "ok"
    <2>1. PICK s \in TaxSlots : q = <<t, s>> BY RequestsAre
    <2> QED BY <1>2, <2>1 DEF Brings
  <1> QED BY <1>1, <1>2 DEF X!Coming

LEMMA TaxTablesAre ==
  ASSUME NEW held
  PROVE  held \in TaxTables <=> DOMAIN held \subseteq TaxCodes /\ held \in [DOMAIN held -> Names]
  BY DEF TaxTables

LEMMA RealIsDraft == RealSections \subseteq X!Drafts /\ X!EmptyDraft \in X!Drafts
  BY DEF RealSections, X!Drafts, X!EmptyDraft

LEMMA SectionIs ==
  ASSUME NEW section \in RealSections
  PROVE  X!Section(section.code, section.name) = section
  BY DEF RealSections, X!Section

\* The list of a table.
LEMMA ListIs ==
  ASSUME NEW held \in TaxTables
  PROVE  /\ X!ListOf(held) \in SectionLists
         /\ \A c \in DOMAIN held : c \in X!CodesOf(X!ListOf(held))
  <1>1. \A c \in DOMAIN held : c \in TaxCodes /\ held[c] \in Names BY TaxTablesAre
  <1>2. \A c \in DOMAIN held : X!Section(c, held[c]) \in RealSections /\ X!Section(c, held[c]).code = c
    BY <1>1 DEF X!Section, RealSections
  <1> QED BY <1>2 DEF X!ListOf, SectionLists, X!CodesOf

\* Tables of sections stay tables of sections.
LEMMA WithIs ==
  ASSUME NEW held \in TaxTables, NEW section \in RealSections
  PROVE  X!With(held, section) \in TaxTables
  <1>1. DOMAIN held \subseteq TaxCodes /\ \A c \in DOMAIN held : held[c] \in Names BY TaxTablesAre
  <1>2. section.code \in TaxCodes /\ section.name \in Names BY DEF RealSections
  <1> DEFINE S == DOMAIN held \cup {section.code}
             f == [c \in S |-> IF c = section.code THEN section.name ELSE held[c]]
  <1>3. f \in [S -> Names] /\ S \subseteq TaxCodes BY <1>1, <1>2
  <1>4. X!With(held, section) = f BY DEF X!With
  <1> HIDE DEF S, f
  <1> QED BY <1>3, <1>4 DEF TaxTables

LEMMA OthersIs ==
  ASSUME sections \in TaxTables, NEW section
  PROVE  X!Others(section) \in TaxTables
  <1>1. DOMAIN sections \subseteq TaxCodes /\ \A c \in DOMAIN sections : sections[c] \in Names BY TaxTablesAre
  <1> DEFINE S == DOMAIN sections \ {section.code}
  <1>2. [c \in S |-> sections[c]] \in [S -> Names] /\ S \subseteq TaxCodes BY <1>1
  <1> HIDE DEF S
  <1>3. [c \in S |-> sections[c]] \in TaxTables BY <1>2 DEF TaxTables
  <1> QED BY <1>3 DEF S, X!Others

\* What the three writes of the table are on its list.
LEMMA ListWith ==
  ASSUME NEW held, NEW section \in RealSections, section.code \notin DOMAIN held
  PROVE  X!ListOf(X!With(held, section)) = X!ListOf(held) \cup {section}
  BY SectionIs DEF X!ListOf, X!With

LEMMA ListOthers ==
  ASSUME NEW section
  PROVE  X!ListOf(X!Others(section)) = {s \in X!ListOf(sections) : s.code # section.code}
  <1> DEFINE S == DOMAIN sections \ {section.code}
  <1>1. X!ListOf(X!Others(section)) = {X!Section(c, sections[c]) : c \in S}
    BY DEF X!ListOf, X!Others
  <1>2. X!ListOf(sections) = {X!Section(c, sections[c]) : c \in DOMAIN sections} BY DEF X!ListOf
  <1>3. \A c : X!Section(c, sections[c]).code = c BY DEF X!Section
  <1> QED BY <1>1, <1>2, <1>3

LEMMA ListRenamed ==
  ASSUME NEW old \in RealSections, NEW next \in RealSections, X!Holds(old),
         next.code \notin DOMAIN X!Others(old)
  PROVE  X!ListOf(X!With(X!Others(old), next)) =
           {IF s.code = old.code THEN next ELSE s : s \in X!ListOf(sections)}
  <1>1. X!ListOf(X!With(X!Others(old), next)) = {s \in X!ListOf(sections) : s.code # old.code} \cup {next}
    BY ListWith, ListOthers
  <1>2. \E s \in X!ListOf(sections) : s.code = old.code
    <2>1. old.code \in DOMAIN sections BY DEF X!Holds
    <2>2. X!Section(old.code, sections[old.code]) \in X!ListOf(sections) BY <2>1 DEF X!ListOf
    <2>3. X!Section(old.code, sections[old.code]).code = old.code BY DEF X!Section
    <2> QED BY <2>2, <2>3
  <1> QED BY <1>1, <1>2

LEMMA RenamedIs ==
  ASSUME NEW held \in TaxTagLists, NEW from, NEW to \in TaxCodes
  PROVE  X!Renamed(held, from, to) \in TaxTagLists
  BY DEF TaxTagLists, X!Renamed

LEMMA TaxRequestIs ==
  ASSUME TaxTyped, NEW q \in X!Requests, X!Phase(q) # "idle"
  PROVE  taxRequest[q] \in TaxRequests /\ X!Phase(q) = taxRequest[q].phase
  BY DEF TaxTyped, X!Phase, X!Idle

\* A load before and after its answer.
LEMMA PendingIs ==
  ASSUME NEW what
  PROVE  /\ X!Asleep \in ReadsOf(what) /\ X!Asleep.phase = "none"
         /\ X!Asked \in ReadsOf(what) /\ X!Asked.phase = "sent"
         /\ [X!Asleep EXCEPT !.phase = "failed"] \in ReadsOf(what)
         /\ [X!Asleep EXCEPT !.phase = "failed"].phase = "failed"
  BY DEF X!Asleep, X!Asked, ReadsOf, Pendings

LEMMA TaxLoadsAre ==
  ASSUME NEW L, L = [l \in X!Loads |-> L[l]], \A l \in X!Loads : L[l] \in ReadsOf(l[2])
  PROVE  L \in TaxLoads
  <1>1. \A l \in X!Loads : L[l] \in ReadsOf("tags") \cup ReadsOf("sections")
    BY LoadsAre
  <1> QED BY <1>1 DEF TaxLoads

\* One load of a tab takes its next step.
LEMMA OneLoad ==
  ASSUME TaxTyped, NEW t \in TaxTabs, NEW l \in X!Loads, NEW x \in ReadsOf(l[2]),
         loads' = [loads EXCEPT ![t][l] = x]
  PROVE  /\ loads' \in [TaxTabs -> TaxLoads]
         /\ loads'[t][l] = x
         /\ \A u \in TaxTabs \ {t} : loads'[u] = loads[u]
         /\ \A m \in X!Loads \ {l} : loads'[t][m] = loads[t][m]
  <1> DEFINE L == [loads[t] EXCEPT ![l] = x]
  <1>1. loads \in [TaxTabs -> TaxLoads] BY DEF TaxTyped
  <1>2. loads[t] = [m \in X!Loads |-> loads[t][m]] /\ \A m \in X!Loads : loads[t][m] \in ReadsOf(m[2])
    BY <1>1 DEF TaxLoads
  <1>3. L[l] = x /\ \A m \in X!Loads \ {l} : L[m] = loads[t][m] BY <1>2
  <1>4. L = [m \in X!Loads |-> L[m]] BY <1>2
  <1>5. loads' = [loads EXCEPT ![t] = L] BY <1>1
  <1> HIDE DEF L
  <1>6. L \in TaxLoads BY <1>2, <1>3, <1>4, TaxLoadsAre
  <1>7. loads'[t] = L BY <1>1, <1>5
  <1> QED BY <1>1, <1>3, <1>5, <1>6, <1>7

\* Loads of a tab that are asked for or dropped.
LEMMA SomeLoads ==
  ASSUME TaxTyped, NEW t \in TaxTabs, NEW L, L = [l \in X!Loads |-> L[l]],
         \A l \in X!Loads : L[l] \in {X!Asleep, X!Asked, loads[t][l]},
         loads' = [loads EXCEPT ![t] = L]
  PROVE  /\ loads' \in [TaxTabs -> TaxLoads]
         /\ loads'[t] = L
         /\ \A u \in TaxTabs \ {t} : loads'[u] = loads[u]
         /\ \A l \in X!Loads : loads'[t][l] = loads[t][l] \/ ~X!Answered(t, l)'
  <1>1. loads \in [TaxTabs -> TaxLoads] /\ \A m \in X!Loads : loads[t][m] \in ReadsOf(m[2])
    BY DEF TaxTyped, TaxLoads
  <1>2. \A l \in X!Loads : L[l] \in ReadsOf(l[2]) BY <1>1, PendingIs
  <1>3. L \in TaxLoads BY <1>2, TaxLoadsAre
  <1>4. loads'[t] = L BY <1>1
  <1> QED BY <1>1, <1>3, <1>4, PendingIs DEF X!Answered

-----------------------------------------------------------------------------
(* Tax sections: what a step leaves alone. *)

\* A dialog that nothing is on its way from may come to any state its handlers expect.
DialogFits(t, d) ==
  /\ d \in TaxDialogs \cup {X!Shut} /\ DialogExpected(d)
  /\ d.open => ~d.busy /\ (heldSections[t] = None => d.row = "none")

\* A tab whose requests are the same, and whose dialog is or was idle.
LEMMA HandlesKept ==
  ASSUME NEW t \in TaxTabs, Handles(t),
         \A q \in Of(t) : taxRequest'[q] = taxRequest[q],
         heldSections'[t] = None => heldSections[t] = None,
         \/ taxDialog'[t] = taxDialog[t]
         \/ DialogFits(t, taxDialog'[t]) /\ ~(taxDialog[t].open /\ taxDialog[t].busy)
  PROVE  Handles(t)'
  <1>1. \A q \in Of(t) : q[1] = t /\ X!Phase(q)' = X!Phase(q) /\ (Sends(q)' <=> Sends(q))
    BY RequestsAre DEF X!Phase, Sends
  <1>2. \A q \in Of(t) : Sends(q) => taxDialog[t].open /\ taxDialog[t].busy
    BY <1>1 DEF Handles, RequestStands, Sends
  <1>3. DialogExpected(taxDialog[t])' BY DEF Handles, DialogFits, DialogExpected, X!dirty
  <1>4. \A q \in Of(t) : RequestStands(q)'
    BY <1>1, <1>2 DEF Handles, RequestStands, Sends
  <1>5. (taxDialog[t].open /\ taxDialog[t].busy)' => \E q \in Of(t) : Sends(q)'
    BY <1>1 DEF Handles, DialogFits
  <1>6. (heldSections[t] = None => (taxDialog[t].open => taxDialog[t].row = "none"))'
    BY DEF Handles, DialogFits
  <1>7. \A q, p \in Of(t) : Sends(q)' /\ Sends(p)' => q = p BY <1>1 DEF Handles
  <1>8. Of(t)' = Of(t) BY DEF Of, X!Requests
  <1> QED BY <1>3, <1>4, <1>5, <1>6, <1>7, <1>8 DEF Handles

\* A tab whose list is the same and for which no answer about the sections comes in or is lost
\* (before there is a list none is missed).
SameAnswer(q) ==
  /\ taxRequest'[q].phase = taxRequest[q].phase /\ taxRequest'[q].kind = taxRequest[q].kind
  /\ taxRequest'[q].expected = taxRequest[q].expected /\ taxRequest'[q].next = taxRequest[q].next
  /\ taxRequest'[q].answer = taxRequest[q].answer /\ taxRequest'[q].fresh = taxRequest[q].fresh

LEMMA AppliedKept ==
  ASSUME NEW q, heldSections'[q[1]] = heldSections[q[1]], SameAnswer(q)
  PROVE  (X!Applies(q)' <=> X!Applies(q)) /\ X!Applied(q)' = X!Applied(q)
  <1>1. X!Applies(q)' <=> X!Applies(q) BY DEF X!Applies, SameAnswer, X!CodesOf
  <1>2. X!Applied(q)' = X!Applied(q) BY Zenon DEF X!Applied, SameAnswer
  <1> QED BY <1>1, <1>2

LEMMA HoldsKept ==
  ASSUME NEW t \in TaxTabs, HoldsSections(t), sections' = sections, heldSections'[t] = heldSections[t],
         \A q \in Of(t) : SameAnswer(q) \/ (~Brings(q) /\ ~Brings(q)'),
         \A l \in X!Loads : loads'[t][l] = loads[t][l] \/ ~X!Answered(t, l)',
         t \notin unsure' =>
           /\ t \notin unsure
           /\ \/ \A l \in X!Loads : X!Answered(t, l) => loads'[t][l] = loads[t][l]
              \/ heldSections[t] = None
  PROVE  HoldsSections(t)'
  <1> SUFFICES ASSUME t \notin unsure'
               PROVE  /\ \A l \in X!Loads : X!Answered(t, l)' => loads'[t][l].answer = X!ListOf(sections)
                      /\ \A q \in Of(t) : Brings(q)' => X!Applies(q)' /\ X!Applied(q)' = X!ListOf(sections)
                      /\ ~X!Coming(t)' => heldSections[t] \in {None, X!ListOf(sections)}
                      /\ OneComes(t)'
    BY DEF HoldsSections, X!ListOf, Of, X!Requests, X!Loads
  <1>1. \A l \in X!Loads : X!Answered(t, l)' => X!Answered(t, l) /\ loads'[t][l] = loads[t][l]
    BY DEF X!Answered
  <1>2. \A q \in Of(t) : /\ Brings(q)' <=> Brings(q)
                         /\ Brings(q) => (X!Applies(q)' <=> X!Applies(q)) /\ X!Applied(q)' = X!Applied(q)
    <2> SUFFICES ASSUME NEW q \in Of(t)
                 PROVE  /\ Brings(q)' <=> Brings(q)
                        /\ Brings(q) => (X!Applies(q)' <=> X!Applies(q)) /\ X!Applied(q)' = X!Applied(q)
      OBVIOUS
    <2>1. q[1] = t BY RequestsAre
    <2>2. CASE SameAnswer(q)
      <3>1. (X!Applies(q)' <=> X!Applies(q)) /\ X!Applied(q)' = X!Applied(q) BY <2>1, <2>2, AppliedKept
      <3>2. Brings(q)' <=> Brings(q) BY <2>2 DEF SameAnswer, Brings, X!Phase
      <3> QED BY <3>1, <3>2
    <2> QED BY <2>2
  <1>3. OneComes(t)' BY <1>1, <1>2 DEF HoldsSections, OneComes, Of, X!Requests, X!Loads
  <1>4. ~X!Coming(t)' => heldSections[t] \in {None, X!ListOf(sections)}
    <2>1. CASE \A l \in X!Loads : X!Answered(t, l) => loads'[t][l] = loads[t][l]
      <3>1. X!Coming(t)' <=> X!Coming(t) BY <1>1, <1>2, <2>1, ComingIs, ComingIsNext DEF X!Answered
      <3> QED BY <3>1 DEF HoldsSections
    <2>2. CASE heldSections[t] = None BY <2>2
    <2> QED BY <2>1, <2>2
  <1> QED BY <1>1, <1>2, <1>3, <1>4 DEF HoldsSections

\* A tab whose own state stays, in a step that leaves the sections alone or makes the tab unsure.
LEMMA TaxKept ==
  ASSUME NEW u \in TaxTabs, TaxStands(u),
         heldSections'[u] = heldSections[u], loads'[u] = loads[u], taxDialog'[u] = taxDialog[u],
         \A q \in Of(u) : taxRequest'[q] = taxRequest[q],
         u \in unsure' \/ (sections' = sections /\ u \notin unsure)
  PROVE  TaxStands(u)'
  <1>1. Handles(u)' BY HandlesKept DEF TaxStands
  <1>2. HoldsSections(u)'
    <2>1. CASE u \in unsure' BY <2>1 DEF HoldsSections
    <2>2. CASE sections' = sections /\ u \notin unsure
      <3>1. \A q \in Of(u) : SameAnswer(q) BY DEF SameAnswer
      <3> QED BY <2>2, <3>1, HoldsKept DEF TaxStands
    <2> QED BY <2>1, <2>2
  <1> QED BY <1>1, <1>2 DEF TaxStands

\* A step of one tab that leaves the sections alone.
LEMMA TaxTabStep ==
  ASSUME TaxInv, TaxTyped', NEW t \in TaxTabs, UNCHANGED sections, unsure \ {t} = unsure' \ {t},
         \A u \in TaxTabs \ {t} :
           /\ heldSections'[u] = heldSections[u] /\ loads'[u] = loads[u] /\ taxDialog'[u] = taxDialog[u]
           /\ \A q \in Of(u) : taxRequest'[q] = taxRequest[q],
         TaxStands(t)'
  PROVE  TaxInv'
  <1>1. ASSUME NEW u \in TaxTabs, u # t PROVE TaxStands(u)'
    <2>1. u \in unsure' \/ u \notin unsure BY <1>1
    <2> QED BY <1>1, <2>1, TaxKept DEF TaxInv
  <1> QED BY <1>1 DEF TaxInv

LEMMA InitTax == X!Init => TaxInv
  <1> SUFFICES ASSUME X!Init PROVE TaxInv OBVIOUS
  <1>1. PICK c \in TaxCodes, n \in Names : sections = [code \in {c} |-> n] BY DEF X!Init
  <1>2. sections \in TaxTables /\ DOMAIN sections \subseteq TaxCodes BY <1>1 DEF TaxTables
  <1>3. tagged \in TaxTagLists BY <1>2 DEF X!Init, TaxTagLists
  <1>4. X!OfPage \in TaxLoads
    <2>1. \A l \in X!Loads : X!OfPage[l] \in ReadsOf(l[2]) BY PendingIs DEF X!OfPage
    <2>2. X!OfPage = [l \in X!Loads |-> X!OfPage[l]] BY DEF X!OfPage
    <2> QED BY <2>1, <2>2, TaxLoadsAre
  <1>5. TaxTyped BY <1>2, <1>3, <1>4, TaxConstants DEF X!Init, TaxTyped
  <1>6. ASSUME NEW t \in TaxTabs PROVE TaxStands(t)
    <2>1. taxDialog[t] = X!Shut /\ t \in unsure BY DEF X!Init
    <2>2. \A q \in Of(t) : X!Phase(q) = "idle" BY RequestsAre DEF X!Init, X!Phase, X!Idle
    <2> QED BY <2>1, <2>2 DEF TaxStands, DialogExpected, Handles, Sends, RequestStands, HoldsSections, X!Shut
  <1> QED BY <1>5, <1>6 DEF TaxInv

-----------------------------------------------------------------------------
(* Tax sections: the dialog. *)

\* A tab of which only the dialog and its loads change.
LEMMA DialogTax ==
  ASSUME TaxInv, NEW t \in TaxTabs, NEW d, DialogFits(t, d), ~(taxDialog[t].open /\ taxDialog[t].busy),
         UNCHANGED <<sections, tagged, heldSections, heldTags, taxRequest, uses>>,
         taxDialog' = [taxDialog EXCEPT ![t] = d],
         loads' \in [TaxTabs -> TaxLoads], \A u \in TaxTabs \ {t} : loads'[u] = loads[u],
         \A l \in X!Loads : loads'[t][l] = loads[t][l] \/ ~X!Answered(t, l)',
         unsure' \in {unsure, unsure \cup {t}},
         unsure' = unsure => \A l \in X!Loads : X!Answered(t, l) => loads'[t][l] = loads[t][l]
  PROVE  TaxInv'
  <1>1. TaxTyped /\ TaxStands(t) BY DEF TaxInv
  <1>2. TaxTyped' BY <1>1 DEF TaxTyped, DialogFits
  <1>3. taxDialog'[t] = d /\ \A u \in TaxTabs \ {t} : taxDialog'[u] = taxDialog[u]
    BY <1>1 DEF TaxTyped
  <1>4. Handles(t)' BY <1>1, <1>3, HandlesKept DEF TaxStands
  <1>5. HoldsSections(t)'
    <2>1. \A q \in Of(t) : SameAnswer(q) BY DEF SameAnswer
    <2> QED BY <1>1, <2>1, HoldsKept DEF TaxStands
  <1>6. TaxStands(t)' BY <1>4, <1>5 DEF TaxStands
  <1> QED BY <1>2, <1>3, <1>6, TaxTabStep

LEMMA OnlyTax ==
  ASSUME TaxInv, NEW t \in TaxTabs, NEW d, X!Only(t, d), DialogFits(t, d),
         ~(taxDialog[t].open /\ taxDialog[t].busy)
  PROVE  TaxInv'
  <1>1. /\ UNCHANGED <<sections, tagged, heldSections, heldTags, loads, taxRequest, unsure, uses>>
        /\ taxDialog' = [taxDialog EXCEPT ![t] = d]
    BY DEF X!Only
  <1>2. loads' \in [TaxTabs -> TaxLoads] BY <1>1 DEF TaxInv, TaxTyped
  <1> QED BY <1>1, <1>2, DialogTax

LEMMA CollapsedFits ==
  ASSUME NEW t \in TaxTabs
  PROVE  /\ DialogFits(t, X!Collapsed) /\ DialogFits(t, X!Shut)
         /\ heldSections[t] # None => DialogFits(t, [X!Collapsed EXCEPT !.row = "new"])
  <1> USE RealIsDraft, TaxConstants DEF DialogFits, DialogExpected, X!Collapsed, X!Shut, TaxDialogs, X!Actions
  <1>1. X!Collapsed \in TaxDialogs OBVIOUS
  <1>2. [X!Collapsed EXCEPT !.row = "new"] \in TaxDialogs OBVIOUS
  <1> QED BY <1>1, <1>2

LEMMA ExistingFits ==
  ASSUME NEW t \in TaxTabs, heldSections[t] # None, NEW section \in RealSections
  PROVE  DialogFits(t, X!Existing(section)) /\ DialogFits(t, [X!Existing(section) EXCEPT !.saved = TRUE])
  <1> USE RealIsDraft, TaxConstants
      DEF DialogFits, DialogExpected, X!Collapsed, X!Existing, X!dirty, TaxDialogs, X!Actions
  <1>1. X!Existing(section) \in TaxDialogs OBVIOUS
  <1>2. [X!Existing(section) EXCEPT !.saved = TRUE] \in TaxDialogs OBVIOUS
  <1> QED BY <1>1, <1>2

\* A dialog of which only the question about the draft changes.
LEMMA AskedFits ==
  ASSUME TaxInv, NEW t \in TaxTabs, X!Ready(t), NEW action \in X!Actions,
         action # "none" => taxDialog[t].row # "none"
  PROVE  DialogFits(t, [taxDialog[t] EXCEPT !.pending = action])
  <1> DEFINE d == [taxDialog[t] EXCEPT !.pending = action]
  <1>1. TaxTyped /\ Handles(t) BY DEF TaxInv, TaxStands
  <1>2. taxDialog[t].open /\ taxDialog[t] \in TaxDialogs /\ ~taxDialog[t].busy
    BY <1>1 DEF X!Ready, TaxTyped, X!Shut
  <1>3. d \in TaxDialogs BY <1>2 DEF TaxDialogs
  <1>4. /\ d.open = taxDialog[t].open /\ d.row = taxDialog[t].row /\ d.original = taxDialog[t].original
        /\ d.draft = taxDialog[t].draft /\ d.busy = taxDialog[t].busy /\ d.error = taxDialog[t].error
        /\ d.saved = taxDialog[t].saved /\ d.pending = action
    BY <1>2 DEF TaxDialogs
  <1> HIDE DEF d
  <1>5. DialogExpected(d) BY <1>1, <1>2, <1>4 DEF Handles, DialogExpected, X!dirty
  <1>6. heldSections[t] = None => d.row = "none" BY <1>1, <1>2, <1>4 DEF Handles
  <1> QED BY <1>2, <1>3, <1>4, <1>5, <1>6 DEF DialogFits, d

\* Dropping loads: what of it mattered leaves the tab unsure.
LEMMA WithoutIs ==
  ASSUME TaxTyped, NEW t \in TaxTabs, NEW who, X!Without(t, who)
  PROVE  /\ loads' \in [TaxTabs -> TaxLoads] /\ \A u \in TaxTabs \ {t} : loads'[u] = loads[u]
         /\ \A l \in X!Loads : loads'[t][l] = loads[t][l] \/ ~X!Answered(t, l)'
         /\ unsure' \in {unsure, unsure \cup {t}}
         /\ unsure' = unsure => (t \in unsure \/ \A l \in X!Loads : X!Answered(t, l) => loads'[t][l] = loads[t][l])
  <1> DEFINE L == [l \in X!Loads |-> IF l[1] \in who THEN X!Asleep ELSE loads[t][l]]
  <1>1. loads' = [loads EXCEPT ![t] = L] BY DEF X!Without, TaxTyped
  <1>2. L = [l \in X!Loads |-> L[l]] /\ \A l \in X!Loads : L[l] \in {X!Asleep, X!Asked, loads[t][l]}
    OBVIOUS
  <1>3. \A l \in X!Loads : l[1] \notin who => L[l] = loads[t][l] OBVIOUS
  <1> HIDE DEF L
  <1>4. /\ loads' \in [TaxTabs -> TaxLoads] /\ loads'[t] = L
        /\ \A u \in TaxTabs \ {t} : loads'[u] = loads[u]
        /\ \A l \in X!Loads : loads'[t][l] = loads[t][l] \/ ~X!Answered(t, l)'
    BY <1>1, <1>2, SomeLoads
  <1> QED BY <1>3, <1>4 DEF X!Without

LEMMA CloseTax ==
  ASSUME TaxInv, NEW t \in TaxTabs, X!Ready(t), X!perform(t, "close") PROVE TaxInv'
  <1>1. /\ taxDialog' = [taxDialog EXCEPT ![t] = X!Shut] /\ X!Without(t, {"dialog", "again"})
        /\ UNCHANGED <<sections, tagged, heldSections, heldTags, taxRequest, uses>>
    BY DEF X!perform
  <1>2. ~(taxDialog[t].open /\ taxDialog[t].busy) /\ DialogFits(t, X!Shut) BY CollapsedFits DEF X!Ready
  <1>3. TaxTyped /\ TaxStands(t) BY DEF TaxInv
  <1>4. CASE t \notin unsure
    <2>1. /\ loads' \in [TaxTabs -> TaxLoads] /\ \A u \in TaxTabs \ {t} : loads'[u] = loads[u]
          /\ \A l \in X!Loads : loads'[t][l] = loads[t][l] \/ ~X!Answered(t, l)'
          /\ unsure' \in {unsure, unsure \cup {t}}
          /\ unsure' = unsure => \A l \in X!Loads : X!Answered(t, l) => loads'[t][l] = loads[t][l]
      BY <1>1, <1>3, <1>4, WithoutIs
    <2> QED BY <1>1, <1>2, <2>1, DialogTax
  <1>5. CASE t \in unsure
    <2>1. /\ loads' \in [TaxTabs -> TaxLoads] /\ \A u \in TaxTabs \ {t} : loads'[u] = loads[u]
          /\ unsure' = unsure
      BY <1>1, <1>3, <1>5, WithoutIs
    <2>2. TaxTyped' BY <1>1, <1>2, <1>3, <2>1 DEF TaxTyped, DialogFits
    <2>3. taxDialog'[t] = X!Shut /\ \A u \in TaxTabs \ {t} : taxDialog'[u] = taxDialog[u]
      BY <1>1, <1>3 DEF TaxTyped
    <2>4. Handles(t)' BY <1>1, <1>2, <1>3, <2>3, HandlesKept DEF TaxStands
    <2>5. HoldsSections(t)' BY <1>5, <2>1 DEF HoldsSections
    <2>6. TaxStands(t)' BY <2>4, <2>5 DEF TaxStands
    <2> QED BY <1>1, <2>1, <2>2, <2>3, <2>6, TaxTabStep
  <1> QED BY <1>4, <1>5

LEMMA PerformTax ==
  ASSUME TaxInv, NEW t \in TaxTabs, X!Ready(t), NEW action \in X!Actions \ {"none"},
         action \notin {"collapse", "close"} => heldSections[t] # None,
         X!perform(t, action)
  PROVE  TaxInv'
  <1>1. TaxTyped /\ ~(taxDialog[t].open /\ taxDialog[t].busy) BY DEF TaxInv, X!Ready
  <1>2. CASE action = "close" BY <1>2, CloseTax
  <1>3. CASE action = "new"
    <2>1. X!Only(t, [X!Collapsed EXCEPT !.row = "new"]) BY <1>3 DEF X!perform
    <2> QED BY <1>1, <1>3, <2>1, CollapsedFits, OnlyTax
  <1>4. CASE action = "collapse"
    <2>1. X!Only(t, X!Collapsed) BY <1>4 DEF X!perform
    <2> QED BY <1>1, <2>1, CollapsedFits, OnlyTax
  <1>5. CASE action \notin {"new", "collapse", "close"}
    <2>1. heldSections[t] # None BY <1>5
    <2>2. CASE \E section \in heldSections[t] : section.code = action /\ X!Only(t, X!Existing(section))
      <3>1. PICK section \in heldSections[t] : X!Only(t, X!Existing(section)) BY <2>2
      <3>2. section \in RealSections BY <1>1, <2>1 DEF TaxTyped, SectionLists
      <3> QED BY <1>1, <2>1, <3>1, <3>2, ExistingFits, OnlyTax
    <2>3. CASE X!Only(t, [taxDialog[t] EXCEPT !.pending = "none"])
      <3>1. "none" \in X!Actions BY DEF X!Actions
      <3> QED BY <1>1, <2>3, <3>1, AskedFits, OnlyTax
    <2> QED BY <1>5, <2>2, <2>3 DEF X!perform
  <1> QED BY <1>2, <1>3, <1>4, <1>5

LEMMA OpenDialogTax ==
  ASSUME TaxInv, NEW t \in TaxTabs, X!OpenDialog(t) PROVE TaxInv'
  <1>1. TaxTyped /\ TaxStands(t) BY DEF TaxInv
  <1> DEFINE L == [l \in X!Loads |-> IF l[1] = "dialog" /\ l[2] \in X!Missing(t) THEN X!Asked ELSE loads[t][l]]
  <1>2. /\ UNCHANGED <<sections, tagged, heldSections, heldTags, taxRequest, unsure, uses>>
        /\ taxDialog' = [taxDialog EXCEPT ![t] = X!Collapsed] /\ ~taxDialog[t].open
        /\ loads' = [loads EXCEPT ![t] = L]
    BY <1>1 DEF X!OpenDialog, TaxTyped
  <1>3. L = [l \in X!Loads |-> L[l]] /\ \A l \in X!Loads : L[l] \in {X!Asleep, X!Asked, loads[t][l]}
    OBVIOUS
  <1>4. \A l \in X!Loads : L[l] # loads[t][l] => X!Missing(t) # {} /\ (l[2] = "sections" => heldSections[t] = None)
    BY DEF X!Missing
  <1> HIDE DEF L
  <1>5. /\ loads' \in [TaxTabs -> TaxLoads] /\ loads'[t] = L
        /\ \A u \in TaxTabs \ {t} : loads'[u] = loads[u]
        /\ \A l \in X!Loads : loads'[t][l] = loads[t][l] \/ ~X!Answered(t, l)'
    BY <1>1, <1>2, <1>3, SomeLoads
  <1>6. TaxTyped' BY <1>1, <1>2, <1>5, CollapsedFits DEF TaxTyped, DialogFits
  <1>7. taxDialog'[t] = X!Collapsed /\ \A u \in TaxTabs \ {t} : taxDialog'[u] = taxDialog[u]
    BY <1>1, <1>2 DEF TaxTyped
  <1>8. Handles(t)' BY <1>1, <1>2, <1>7, CollapsedFits, HandlesKept DEF TaxStands
  <1>9. HoldsSections(t)'
    <2>1. \A q \in Of(t) : SameAnswer(q) BY <1>2 DEF SameAnswer
    <2>2. \/ \A l \in X!Loads : X!Answered(t, l) => loads'[t][l] = loads[t][l]
          \/ heldSections[t] = None
      BY <1>4, <1>5 DEF X!Answered
    <2> QED BY <1>1, <1>2, <1>5, <2>1, <2>2, HoldsKept DEF TaxStands
  <1>10. TaxStands(t)' BY <1>8, <1>9 DEF TaxStands
  <1> QED BY <1>2, <1>5, <1>6, <1>7, <1>10, TaxTabStep

LEMMA ClickTax ==
  ASSUME TaxInv, NEW t \in TaxTabs, NEW action \in X!Actions \ {"none"}, X!Click(t, action)
  PROVE  TaxInv'
  <1>1. X!Ready(t) /\ ~(taxDialog[t].open /\ taxDialog[t].busy) BY DEF X!Click, X!Ready
  <1>2. CASE X!dirty(taxDialog[t])
    <2>1. X!Only(t, [taxDialog[t] EXCEPT !.pending = action]) BY <1>2 DEF X!Click
    <2>2. taxDialog[t].row # "none" BY <1>2 DEF X!dirty
    <2> QED BY <1>1, <2>1, <2>2, OnlyTax, AskedFits
  <1>3. CASE ~X!dirty(taxDialog[t])
    <2>1. X!perform(t, action) BY <1>3 DEF X!Click
    <2>2. action \notin {"collapse", "close"} => heldSections[t] # None
      BY DEF X!Click, X!Listing
    <2> QED BY <1>1, <2>1, <2>2, PerformTax
  <1> QED BY <1>2, <1>3

LEMMA confirmDiscardTax ==
  ASSUME TaxInv, NEW t \in TaxTabs, X!confirmDiscard(t) PROVE TaxInv'
  <1> DEFINE action == taxDialog[t].pending
  <1>1. X!Ready(t) /\ action # "none" BY DEF X!confirmDiscard
  <1>2. TaxTyped /\ Handles(t) BY DEF TaxInv, TaxStands
  <1>3. action \in X!Actions \ {"none"}
    <2>1. taxDialog[t] \in TaxDialogs BY <1>1, <1>2 DEF X!Ready, TaxTyped, X!Shut
    <2> QED BY <1>1, <2>1 DEF TaxDialogs
  <1>4. heldSections[t] # None BY <1>1, <1>2 DEF Handles, DialogExpected, X!Ready
  <1>5. X!perform(t, action) BY DEF X!confirmDiscard
  <1> HIDE DEF action
  <1> QED BY <1>1, <1>3, <1>4, <1>5, PerformTax

LEMMA keepEditingTax ==
  ASSUME TaxInv, NEW t \in TaxTabs, X!keepEditing(t) PROVE TaxInv'
  <1>1. X!Ready(t) /\ ~(taxDialog[t].open /\ taxDialog[t].busy) BY DEF X!keepEditing, X!Ready
  <1>2. "none" \in X!Actions BY DEF X!Actions
  <1>3. X!Only(t, [taxDialog[t] EXCEPT !.pending = "none"]) BY DEF X!keepEditing
  <1> QED BY <1>1, <1>2, <1>3, OnlyTax, AskedFits

LEMMA cancelTax ==
  ASSUME TaxInv, NEW t \in TaxTabs, X!cancel(t) PROVE TaxInv'
  <1>1. ~(taxDialog[t].open /\ taxDialog[t].busy) /\ X!Only(t, X!Collapsed)
    BY DEF X!cancel, X!Editing, X!Listing, X!Ready
  <1> QED BY <1>1, OnlyTax, CollapsedFits

\* A changed input: the draft is not the saved one any more.
LEMMA onInputTax ==
  ASSUME TaxInv, NEW t \in TaxTabs,
         NEW field \in {"code", "name"}, NEW value,
         field = "code" => value \in TaxCodes \cup {X!Empty},
         field = "name" => value \in Names \cup {X!Empty},
         X!onInput(t, field, value)
  PROVE  TaxInv'
  <1> DEFINE d == [taxDialog[t] EXCEPT !.draft[field] = value, !.saved = FALSE,
                     !.error = IF @ = "conflict" THEN @ ELSE None]
  <1>1. TaxTyped /\ Handles(t) BY DEF TaxInv, TaxStands
  <1>2. X!Ready(t) /\ taxDialog[t].row # "none" /\ X!Only(t, d)
    BY DEF X!onInput, X!Editing, X!Listing
  <1>3. taxDialog[t].open /\ taxDialog[t] \in TaxDialogs /\ ~taxDialog[t].busy
    BY <1>1, <1>2 DEF X!Ready, TaxTyped, X!Shut
  <1>4. [taxDialog[t].draft EXCEPT ![field] = value] \in X!Drafts BY <1>3 DEF TaxDialogs, X!Drafts
  <1>5. d \in TaxDialogs BY <1>3, <1>4 DEF TaxDialogs
  <1>6. /\ d.open = taxDialog[t].open /\ d.row = taxDialog[t].row /\ d.original = taxDialog[t].original
        /\ d.busy = taxDialog[t].busy /\ d.error \in {taxDialog[t].error, None}
        /\ ~d.saved /\ d.pending = taxDialog[t].pending
    BY <1>3 DEF TaxDialogs
  <1> HIDE DEF d
  <1>7. heldSections[t] # None BY <1>1, <1>2, <1>3 DEF Handles
  <1>8. DialogExpected(d) BY <1>1, <1>3, <1>6, TaxConstants DEF Handles, DialogExpected
  <1>9. DialogFits(t, d) BY <1>3, <1>5, <1>6, <1>7, <1>8 DEF DialogFits
  <1> QED BY <1>2, <1>3, <1>9, OnlyTax

-----------------------------------------------------------------------------
(* Tax sections: loading. *)

\* A tab of which one load takes its next step.
LEMMA LoadTax ==
  ASSUME TaxInv, NEW t \in TaxTabs, NEW l \in X!Loads, NEW x \in ReadsOf(l[2]),
         UNCHANGED <<sections, tagged, taxDialog, taxRequest, uses>>,
         loads' = [loads EXCEPT ![t][l] = x],
         heldSections' \in [TaxTabs -> SectionLists \cup {None}],
         heldTags' \in [TaxTabs -> TaxTagLists \cup {None}],
         \A u \in TaxTabs \ {t} : heldSections'[u] = heldSections[u],
         heldSections'[t] = None => heldSections[t] = None,
         unsure' \in {unsure, unsure \cup {t}, unsure \ {t}},
         HoldsSections(t)'
  PROVE  TaxInv'
  <1>1. TaxTyped /\ TaxStands(t) BY DEF TaxInv
  <1>2. loads' \in [TaxTabs -> TaxLoads] /\ \A u \in TaxTabs \ {t} : loads'[u] = loads[u]
    BY <1>1, OneLoad
  <1>3. TaxTyped' BY <1>1, <1>2 DEF TaxTyped
  <1>4. Handles(t)' BY <1>1, HandlesKept DEF TaxStands
  <1>5. TaxStands(t)' BY <1>4 DEF TaxStands
  <1> QED BY <1>2, <1>3, <1>5, TaxTabStep

\* A load whose step does not touch what the tab shows of the sections.
LEMMA AsideTax ==
  ASSUME TaxInv, NEW t \in TaxTabs, NEW l \in X!Loads, NEW x \in ReadsOf(l[2]),
         UNCHANGED <<sections, tagged, heldSections, taxDialog, taxRequest, uses>>,
         loads' = [loads EXCEPT ![t][l] = x],
         heldTags' \in [TaxTabs -> TaxTagLists \cup {None}],
         unsure' = unsure \/ (unsure' = unsure \cup {t}),
         l[2] = "tags" \/ x.phase # "answered",
         X!Answered(t, l) => t \in unsure'
  PROVE  TaxInv'
  <1>1. TaxTyped /\ TaxStands(t) BY DEF TaxInv
  <1>2. /\ loads' \in [TaxTabs -> TaxLoads]
        /\ loads'[t][l] = x
        /\ \A u \in TaxTabs \ {t} : loads'[u] = loads[u]
        /\ \A m \in X!Loads \ {l} : loads'[t][m] = loads[t][m]
    BY <1>1, OneLoad
  <1>3. ~X!Answered(t, l)'
    <2>1. "tags" # "sections" OBVIOUS
    <2> QED BY <1>2, <2>1 DEF X!Answered
  <1>4. heldSections' \in [TaxTabs -> SectionLists \cup {None}] BY <1>1 DEF TaxTyped
  <1>5. HoldsSections(t)'
    <2>1. \A q \in Of(t) : SameAnswer(q) BY DEF SameAnswer
    <2>2. \A m \in X!Loads : loads'[t][m] = loads[t][m] \/ ~X!Answered(t, m)' BY <1>2, <1>3
    <2>3. t \notin unsure' => t \notin unsure /\ \A m \in X!Loads : X!Answered(t, m) => loads'[t][m] = loads[t][m]
      BY <1>2
    <2> QED BY <1>1, <2>1, <2>2, <2>3, HoldsKept DEF TaxStands
  <1> QED BY <1>4, <1>5, LoadTax

LEMMA AnswerLoadTax ==
  ASSUME TaxInv, NEW t \in TaxTabs, NEW l \in X!Loads, X!AnswerLoad(t, l) PROVE TaxInv'
  <1>1. TaxTyped /\ TaxStands(t) BY DEF TaxInv
  <1> DEFINE x == [phase |-> "answered", answer |-> IF l[2] = "tags" THEN tagged ELSE X!ListOf(sections)]
  <1>2. /\ UNCHANGED <<sections, tagged, heldSections, heldTags, taxDialog, taxRequest, uses>>
        /\ loads[t][l].phase = "sent" /\ loads' = [loads EXCEPT ![t][l] = x]
        /\ unsure' = IF l[2] = "sections" THEN X!ReadBy(t) ELSE unsure
    BY DEF X!AnswerLoad
  <1>3. tagged \in TaxTagLists /\ X!ListOf(sections) \in SectionLists BY <1>1, ListIs DEF TaxTyped
  <1>4. x \in ReadsOf(l[2]) /\ x.phase = "answered" BY <1>3 DEF ReadsOf
  <1>5. l[2] = "sections" => x.answer = X!ListOf(sections) OBVIOUS
  <1>6. l[2] \in {"sections", "tags"} BY LoadsAre
  <1>7. heldTags' \in [TaxTabs -> TaxTagLists \cup {None}] /\ heldSections' \in [TaxTabs -> SectionLists \cup {None}]
    BY <1>1, <1>2 DEF TaxTyped
  <1>8. ~X!Answered(t, l) BY <1>2 DEF X!Answered
  <1> HIDE DEF x
  <1>9. CASE l[2] = "tags" BY <1>2, <1>4, <1>7, <1>8, <1>9, AsideTax
  <1>10. CASE l[2] = "sections"
    <2>1. unsure' \in {unsure \cup {t}, unsure \ {t}} BY <1>2, <1>10 DEF X!ReadBy
    <2>2. HoldsSections(t)'
      <3> SUFFICES ASSUME t \notin unsure' PROVE HoldsSections(t)' BY DEF HoldsSections
      <3>1. ~X!Coming(t) BY <1>2, <1>10 DEF X!ReadBy
      <3>2. /\ \A m \in X!Loads : ~X!Answered(t, m)
            /\ \A q \in Of(t) : ~Brings(q)
        BY <3>1, ComingIs
      <3>3. /\ loads' \in [TaxTabs -> TaxLoads]
            /\ loads'[t][l] = x
            /\ \A u \in TaxTabs \ {t} : loads'[u] = loads[u]
            /\ \A m \in X!Loads \ {l} : loads'[t][m] = loads[t][m]
        BY <1>1, <1>2, <1>4, OneLoad
      <3>4. \A m \in X!Loads \ {l} : ~X!Answered(t, m)' BY <3>2, <3>3 DEF X!Answered
      <3>5. \A q \in Of(t) : ~Brings(q)' BY <1>2, <3>2 DEF Brings, X!Phase
      <3>6. X!Answered(t, l)' BY <1>4, <1>10, <3>3 DEF X!Answered
      <3>7. X!Coming(t)' BY <3>6, ComingIsNext
      <3>8. OneComes(t)' BY <3>4, <3>5 DEF OneComes, X!Loads, Of, X!Requests
      <3>9. \A m \in X!Loads : X!Answered(t, m)' => loads'[t][m].answer = X!ListOf(sections)
        BY <1>5, <1>10, <3>3, <3>4
      <3>10. X!ListOf(sections)' = X!ListOf(sections) BY <1>2 DEF X!ListOf
      <3> QED BY <3>5, <3>7, <3>8, <3>9, <3>10 DEF HoldsSections
    <2> QED BY <1>2, <1>4, <1>7, <2>1, <2>2, LoadTax
  <1> QED BY <1>6, <1>9, <1>10

LEMMA ReceiveLoadTax ==
  ASSUME TaxInv, NEW t \in TaxTabs, NEW l \in X!Loads, X!ReceiveLoad(t, l) PROVE TaxInv'
  <1>1. TaxTyped /\ TaxStands(t) BY DEF TaxInv
  <1>2. /\ UNCHANGED <<sections, tagged, taxDialog, taxRequest, unsure, uses>>
        /\ loads[t][l].phase = "answered" /\ loads' = [loads EXCEPT ![t][l] = X!Asleep]
    BY DEF X!ReceiveLoad
  <1>3. l[2] \in {"sections", "tags"} BY LoadsAre
  <1>4. loads[t][l] \in ReadsOf(l[2]) BY <1>1 DEF TaxTyped, TaxLoads
  <1>5. loads[t][l].answer \in IF l[2] = "tags" THEN TaxTagLists ELSE SectionLists
    BY <1>2, <1>4 DEF ReadsOf, Pendings
  <1>6. CASE l[2] = "tags"
    <2>1. heldTags' = [heldTags EXCEPT ![t] = loads[t][l].answer] /\ UNCHANGED heldSections
      BY <1>6 DEF X!ReceiveLoad
    <2>2. heldTags' \in [TaxTabs -> TaxTagLists \cup {None}] BY <1>1, <1>5, <1>6, <2>1 DEF TaxTyped
    <2>3. ~X!Answered(t, l) BY <1>6 DEF X!Answered
    <2> QED BY <1>2, <1>6, <2>1, <2>2, <2>3, PendingIs, AsideTax
  <1>7. CASE l[2] = "sections"
    <2> DEFINE h == loads[t][l].answer
    <2>1. heldSections' = [heldSections EXCEPT ![t] = h] /\ UNCHANGED heldTags
      BY <1>7 DEF X!ReceiveLoad
    <2>2. h \in SectionLists /\ h # None BY <1>5, <1>7, TaxConstants
    <2>3. /\ heldSections' \in [TaxTabs -> SectionLists \cup {None}]
          /\ heldTags' \in [TaxTabs -> TaxTagLists \cup {None}]
          /\ heldSections'[t] = h /\ \A u \in TaxTabs \ {t} : heldSections'[u] = heldSections[u]
      BY <1>1, <2>1, <2>2 DEF TaxTyped
    <2>4. HoldsSections(t)'
      <3> SUFFICES ASSUME t \notin unsure PROVE HoldsSections(t)' BY <1>2 DEF HoldsSections
      <3>1. X!Answered(t, l) BY <1>2, <1>7 DEF X!Answered
      <3>2. h = X!ListOf(sections) BY <1>1, <3>1 DEF TaxStands, HoldsSections
      <3>3. /\ \A m \in X!Loads \ {l} : ~X!Answered(t, m)
            /\ \A q \in Of(t) : ~Brings(q)
        BY <1>1, <3>1 DEF TaxStands, HoldsSections, OneComes
      <3>4. /\ loads' \in [TaxTabs -> TaxLoads]
            /\ loads'[t][l] = X!Asleep
            /\ \A u \in TaxTabs \ {t} : loads'[u] = loads[u]
            /\ \A m \in X!Loads \ {l} : loads'[t][m] = loads[t][m]
        BY <1>1, <1>2, PendingIs, OneLoad
      <3>5. \A m \in X!Loads : ~X!Answered(t, m)' BY <3>3, <3>4, PendingIs DEF X!Answered
      <3>6. \A q \in Of(t) : ~Brings(q)' BY <1>2, <3>3 DEF Brings, X!Phase
      <3>7. OneComes(t)' BY <3>5, <3>6 DEF OneComes, X!Loads, Of, X!Requests
      <3>8. X!ListOf(sections)' = X!ListOf(sections) BY <1>2 DEF X!ListOf
      <3> QED BY <2>3, <3>2, <3>5, <3>6, <3>7, <3>8 DEF HoldsSections
    <2> QED BY <1>2, <2>2, <2>3, <2>4, PendingIs, LoadTax
  <1> QED BY <1>3, <1>6, <1>7

LEMMA FailLoadTax ==
  ASSUME TaxInv, NEW t \in TaxTabs, NEW l \in X!Loads, X!FailLoad(t, l) PROVE TaxInv'
  <1>1. TaxTyped BY DEF TaxInv
  <1> DEFINE x == IF l = <<"dialog", "sections">> THEN [X!Asleep EXCEPT !.phase = "failed"] ELSE X!Asleep
  <1>2. /\ UNCHANGED <<sections, tagged, heldSections, heldTags, taxDialog, taxRequest, uses>>
        /\ loads' = [loads EXCEPT ![t][l] = x]
        /\ unsure' = IF X!Answered(t, l) THEN unsure \cup {t} ELSE unsure
    BY DEF X!FailLoad
  <1>3. x \in ReadsOf(l[2]) /\ x.phase # "answered" BY PendingIs
  <1> HIDE DEF x
  <1>4. heldTags' \in [TaxTabs -> TaxTagLists \cup {None}] BY <1>1, <1>2 DEF TaxTyped
  <1> QED BY <1>2, <1>3, <1>4, AsideTax

-----------------------------------------------------------------------------
(* Tax sections: leaving the page. *)

\* What a request is once its dialog is gone.
LEMMA OrphanIs ==
  ASSUME TaxTyped, NEW q \in X!Requests, X!Phase(q) # "idle"
  PROVE  LET r == [taxRequest[q] EXCEPT !.orphan = TRUE] IN
         /\ r \in TaxRequests /\ r.orphan
         /\ r.phase = taxRequest[q].phase /\ r.kind = taxRequest[q].kind
         /\ r.expected = taxRequest[q].expected /\ r.next = taxRequest[q].next
         /\ r.answer = taxRequest[q].answer /\ r.fresh = taxRequest[q].fresh
  <1>1. taxRequest[q] \in TaxRequests BY TaxRequestIs
  <1> QED BY <1>1 DEF TaxRequests

LEMMA ChangePageTax ==
  ASSUME TaxInv, NEW t \in TaxTabs, X!ChangePage(t) PROVE TaxInv'
  <1>1. TaxTyped /\ TaxStands(t) BY DEF TaxInv
  <1> DEFINE L == [l \in X!Loads |-> IF l[1] = "page" /\ l[2] \in X!Missing(t) THEN X!Asked ELSE X!Asleep]
             Left(q) == [taxRequest[q] EXCEPT !.orphan = TRUE]
  <1>2. /\ UNCHANGED <<sections, tagged, heldSections, heldTags, uses>>
        /\ taxDialog' = [taxDialog EXCEPT ![t] = X!Shut]
        /\ loads' = [loads EXCEPT ![t] = L]
        /\ taxRequest' = [q \in X!Requests |-> IF q[1] = t /\ X!Phase(q) # "idle" THEN Left(q) ELSE taxRequest[q]]
        /\ unsure' = IF \E l \in X!Loads : X!Answered(t, l) THEN unsure \cup {t} ELSE unsure
    BY <1>1 DEF X!ChangePage, TaxTyped
  <1>3. L = [l \in X!Loads |-> L[l]] /\ \A l \in X!Loads : L[l] \in {X!Asleep, X!Asked, loads[t][l]}
    OBVIOUS
  <1> HIDE DEF L
  <1>4. \A q \in X!Requests : X!Phase(q) # "idle" =>
          /\ Left(q) \in TaxRequests /\ Left(q).orphan
          /\ Left(q).phase = taxRequest[q].phase /\ Left(q).kind = taxRequest[q].kind
          /\ Left(q).expected = taxRequest[q].expected /\ Left(q).next = taxRequest[q].next
          /\ Left(q).answer = taxRequest[q].answer /\ Left(q).fresh = taxRequest[q].fresh
    BY <1>1, OrphanIs
  <1> HIDE DEF Left
  <1>5. /\ loads' \in [TaxTabs -> TaxLoads] /\ loads'[t] = L
        /\ \A u \in TaxTabs \ {t} : loads'[u] = loads[u]
        /\ \A l \in X!Loads : loads'[t][l] = loads[t][l] \/ ~X!Answered(t, l)'
    BY <1>1, <1>2, <1>3, SomeLoads
  <1>6. taxDialog'[t] = X!Shut /\ \A u \in TaxTabs \ {t} : taxDialog'[u] = taxDialog[u]
    BY <1>1, <1>2 DEF TaxTyped
  <1>7. taxRequest' \in [X!Requests -> TaxRequests \cup {X!Idle}]
    <2>1. \A q \in X!Requests : taxRequest'[q] \in TaxRequests \cup {X!Idle}
      BY <1>1, <1>2, <1>4 DEF TaxTyped
    <2> QED BY <1>2, <2>1
  <1>8. \A u \in TaxTabs \ {t} : \A q \in Of(u) : taxRequest'[q] = taxRequest[q] BY <1>2, RequestsAre
  <1>9. TaxTyped' BY <1>1, <1>2, <1>5, <1>7 DEF TaxTyped
  <1>10. ASSUME NEW q \in Of(t)
         PROVE  X!Phase(q)' = X!Phase(q) /\ ~Sends(q)' /\ SameAnswer(q)
    <2>1. q \in X!Requests /\ q[1] = t BY RequestsAre
    <2>2. CASE X!Phase(q) = "idle"
      <3>1. taxRequest'[q] = taxRequest[q] BY <1>2, <2>1, <2>2
      <3> QED BY <2>2, <3>1 DEF X!Phase, Sends, SameAnswer
    <2>3. CASE X!Phase(q) # "idle"
      <3>1. taxRequest'[q] = Left(q) BY <1>2, <2>1, <2>3
      <3> QED BY <1>4, <2>1, <2>3, <3>1 DEF X!Phase, Sends, SameAnswer
    <2> QED BY <2>2, <2>3
  <1>11. Handles(t)'
    <2>1. ~taxDialog'[t].open BY <1>6 DEF X!Shut
    <2>2. DialogExpected(taxDialog[t])' BY <2>1 DEF DialogExpected
    <2>3. \A q \in Of(t) : RequestStands(q)'
      <3> SUFFICES ASSUME NEW q \in Of(t) PROVE RequestStands(q)' OBVIOUS
      <3>1. q[1] = t /\ RequestStands(q) BY <1>1, RequestsAre DEF TaxStands, Handles
      <3> QED BY <1>2, <1>10, <3>1 DEF RequestStands, SameAnswer, Sends
    <2>4. Of(t)' = Of(t) BY DEF Of, X!Requests
    <2> QED BY <1>10, <2>1, <2>2, <2>3, <2>4 DEF Handles
  <1>12. HoldsSections(t)' BY <1>1, <1>2, <1>5, <1>10, HoldsKept DEF TaxStands
  <1>13. TaxStands(t)' BY <1>11, <1>12 DEF TaxStands
  <1> QED BY <1>2, <1>5, <1>6, <1>8, <1>9, <1>13, TaxTabStep

-----------------------------------------------------------------------------
(* Tax sections: requests of the dialog. *)

LEMMA RunTax ==
  ASSUME TaxInv, NEW t \in TaxTabs, NEW kind \in {"create", "update", "delete", "load"},
         X!run(t, kind), uses' \in 0..MaxTaxUses, X!Ready(t), taxDialog[t].row # "none",
         kind # "create" => taxDialog[t].row = "existing",
         kind \in {"create", "update"} => taxDialog[t].draft \in RealSections
  PROVE  TaxInv'
  <1>1. TaxTyped /\ TaxStands(t) BY DEF TaxInv
  <1> DEFINE r == [phase |-> "sent", kind |-> kind, expected |-> taxDialog[t].original,
                   next |-> taxDialog[t].draft, answer |-> None, fresh |-> {}, orphan |-> FALSE]
             d == [taxDialog[t] EXCEPT !.busy = TRUE, !.error = None, !.pending = "none"]
  <1>2. PICK s \in TaxSlots : X!Phase(<<t, s>>) = "idle" /\ taxRequest' = [taxRequest EXCEPT ![<<t, s>>] = r]
    BY DEF X!run
  <1> DEFINE q == <<t, s>>
  <1>3. /\ UNCHANGED <<sections, tagged, heldSections, heldTags, loads, unsure>>
        /\ taxDialog' = [taxDialog EXCEPT ![t] = d]
    BY <1>1 DEF X!run, TaxTyped
  <1>4. taxDialog[t].open /\ taxDialog[t] \in TaxDialogs /\ ~taxDialog[t].busy
    BY <1>1 DEF X!Ready, TaxTyped, X!Shut
  <1>5. d \in TaxDialogs /\ d.open /\ d.busy /\ d.error = None /\ d.pending = "none"
        /\ d.row = taxDialog[t].row /\ d.original = taxDialog[t].original
        /\ d.draft = taxDialog[t].draft /\ d.saved = taxDialog[t].saved
    BY <1>4 DEF TaxDialogs, X!Actions
  <1>6. taxDialog[t].original \in X!Drafts /\ taxDialog[t].draft \in X!Drafts BY <1>4 DEF TaxDialogs
  <1>7. r \in TaxRequests
    <2>1. {} \in SectionLists BY DEF SectionLists
    <2> QED BY <1>6, <2>1 DEF TaxRequests
  <1>8. r.phase = "sent" /\ r.kind = kind /\ r.expected = taxDialog[t].original
        /\ r.next = taxDialog[t].draft /\ r.answer = None /\ ~r.orphan
    OBVIOUS
  <1>9. q \in X!Requests /\ q \in Of(t) /\ q[1] = t BY RequestsAre DEF X!Requests, Of
  <1>10. taxRequest' = [taxRequest EXCEPT ![q] = r] /\ X!Phase(q) = "idle" BY <1>2
  <1> HIDE DEF r, d, q
  <1>11. TaxTyped' BY <1>1, <1>3, <1>5, <1>7, <1>9, <1>10 DEF TaxTyped
  <1>12. /\ taxDialog'[t] = d /\ taxRequest'[q] = r
         /\ \A u \in TaxTabs \ {t} : taxDialog'[u] = taxDialog[u]
         /\ \A p \in X!Requests \ {q} : taxRequest'[p] = taxRequest[p]
    BY <1>1, <1>3, <1>9, <1>10 DEF TaxTyped
  <1>13. \A u \in TaxTabs \ {t} : \A p \in Of(u) : taxRequest'[p] = taxRequest[p]
    BY <1>9, <1>12, RequestsAre
  <1>14. ASSUME NEW p \in Of(t), p # q
         PROVE  /\ p[1] = t /\ taxRequest'[p] = taxRequest[p] /\ X!Phase(p)' = X!Phase(p)
                /\ ~Sends(p) /\ ~Sends(p)' /\ RequestStands(p)
    <2>1. p[1] = t /\ p \in X!Requests BY RequestsAre
    <2>2. taxRequest'[p] = taxRequest[p] BY <1>12, <1>14, <2>1
    <2>3. RequestStands(p) BY <1>1 DEF TaxStands, Handles
    <2>4. ~Sends(p) BY <1>4, <2>1, <2>3 DEF RequestStands, Sends
    <2> QED BY <2>1, <2>2, <2>3, <2>4 DEF X!Phase, Sends
  <1>15. X!Phase(q)' = "sent" /\ Sends(q)' BY <1>8, <1>12 DEF X!Phase, Sends
  <1>16. Handles(t)'
    <2>1. DialogExpected(taxDialog[t])'
      BY <1>1, <1>4, <1>5, <1>12, TaxConstants DEF TaxStands, Handles, DialogExpected, X!dirty
    <2>2. heldSections[t] # None BY <1>1, <1>4 DEF TaxStands, Handles
    <2>3. RequestStands(q)'
      BY <1>1, <1>3, <1>4, <1>5, <1>8, <1>9, <1>12, <2>2, TaxConstants
      DEF TaxStands, Handles, DialogExpected, RequestStands
    <2>4. \A p \in Of(t) : RequestStands(p)'
      <3> SUFFICES ASSUME NEW p \in Of(t), p # q PROVE RequestStands(p)' BY <2>3
      <3> QED BY <1>3, <1>14 DEF RequestStands, Sends
    <2>5. Of(t)' = Of(t) BY DEF Of, X!Requests
    <2> QED BY <1>3, <1>9, <1>14, <1>15, <2>1, <2>2, <2>4, <2>5 DEF Handles
  <1>17. HoldsSections(t)'
    <2>1. ~Brings(q) /\ ~Brings(q)' BY <1>10, <1>15 DEF Brings
    <2>2. \A p \in Of(t) : SameAnswer(p) \/ (~Brings(p) /\ ~Brings(p)')
      BY <1>14, <2>1 DEF SameAnswer
    <2> QED BY <1>1, <1>3, <2>2, HoldsKept DEF TaxStands
  <1>18. TaxStands(t)' BY <1>16, <1>17 DEF TaxStands
  <1> QED BY <1>3, <1>11, <1>12, <1>13, <1>18, TaxTabStep

LEMMA UsedIs ==
  ASSUME TaxInv
  PROVE  /\ X!Used => uses' \in 0..MaxTaxUses
         /\ UNCHANGED uses => uses' \in 0..MaxTaxUses
  BY TaxConstants DEF X!Used, TaxInv, TaxTyped

LEMMA SaveTax ==
  ASSUME TaxInv, NEW t \in TaxTabs, X!save(t) PROVE TaxInv'
  <1>1. TaxTyped BY DEF TaxInv
  <1>2. X!canSave(t) /\ X!run(t, IF taxDialog[t].row = "new" THEN "create" ELSE "update")
    BY DEF X!save
  <1>3. X!Ready(t) /\ taxDialog[t].row # "none" BY <1>2 DEF X!canSave, X!Editing, X!Listing
  <1>4. taxDialog[t] \in TaxDialogs BY <1>1, <1>3 DEF X!Ready, TaxTyped, X!Shut
  <1>5. taxDialog[t].row \in {"new", "existing"} /\ taxDialog[t].draft \in X!Drafts
    BY <1>3, <1>4 DEF TaxDialogs
  <1>6. taxDialog[t].draft \in RealSections
    BY <1>2, <1>5 DEF X!canSave, X!CodeAccepted, X!Drafts, RealSections
  <1>7. uses' \in 0..MaxTaxUses BY UsedIs DEF X!save
  <1>8. CASE taxDialog[t].row = "new"
    <2>1. X!run(t, "create") BY <1>2, <1>8
    <2> QED BY <1>3, <1>6, <1>7, <2>1, RunTax
  <1>9. CASE taxDialog[t].row = "existing"
    <2>1. X!run(t, "update") BY <1>2, <1>9
    <2> QED BY <1>3, <1>6, <1>7, <1>9, <2>1, RunTax
  <1> QED BY <1>5, <1>8, <1>9

LEMMA RemoveTax ==
  ASSUME TaxInv, NEW t \in TaxTabs, X!remove(t) PROVE TaxInv'
  <1>1. X!Ready(t) /\ taxDialog[t].row = "existing" /\ X!run(t, "delete")
    BY DEF X!remove, X!Editing, X!Listing
  <1>2. uses' \in 0..MaxTaxUses BY UsedIs DEF X!remove
  <1> QED BY <1>1, <1>2, RunTax

LEMMA LoadLatestTax ==
  ASSUME TaxInv, NEW t \in TaxTabs, X!loadLatest(t) PROVE TaxInv'
  <1>1. X!Ready(t) /\ taxDialog[t].error = "conflict" /\ X!run(t, "load")
    BY DEF X!loadLatest, X!Editing, X!Listing
  <1>2. taxDialog[t].row = "existing" BY <1>1 DEF TaxInv, TaxStands, Handles, DialogExpected, X!Ready
  <1>3. uses' \in 0..MaxTaxUses BY UsedIs DEF X!loadLatest
  <1> QED BY <1>1, <1>2, <1>3, RunTax

-----------------------------------------------------------------------------
(* Tax sections: the server. *)

\* A request comes to its answer: what is left to show is that the tab holds what is stored.
LEMMA AnsweredTax ==
  ASSUME TaxInv, NEW t \in TaxTabs, NEW q \in Of(t), X!Phase(q) # "idle",
         UNCHANGED <<heldSections, heldTags, loads, taxDialog, uses>>,
         NEW answer \in {"ok", "error", "conflict", "duplicate", "in-use", "not-found"},
         NEW fresh \in SectionLists,
         taxRequest' = [taxRequest EXCEPT ![q] =
            [taxRequest[q] EXCEPT !.phase = "answered", !.answer = answer, !.fresh = fresh]],
         answer = "conflict" => taxRequest[q].kind = "update",
         answer = "in-use" => taxRequest[q].kind = "delete",
         sections' \in TaxTables, tagged' \in TaxTagLists, unsure' \subseteq TaxTabs,
         \A u \in TaxTabs \ {t} : u \in unsure' \/ (sections' = sections /\ u \notin unsure),
         ASSUME taxRequest'[q].phase = "answered", taxRequest'[q].answer = answer,
                taxRequest'[q].kind = taxRequest[q].kind, taxRequest'[q].fresh = fresh,
                taxRequest'[q].expected = taxRequest[q].expected,
                taxRequest'[q].next = taxRequest[q].next,
                \A p \in Of(t) \ {q} : taxRequest'[p] = taxRequest[p]
         PROVE  HoldsSections(t)'
  PROVE  TaxInv'
  <1>1. TaxTyped /\ TaxStands(t) /\ q \in X!Requests /\ q[1] = t BY RequestsAre DEF TaxInv
  <1> DEFINE r == [taxRequest[q] EXCEPT !.phase = "answered", !.answer = answer, !.fresh = fresh]
  <1>2. taxRequest[q] \in TaxRequests BY <1>1, TaxRequestIs
  <1>3. /\ r \in TaxRequests /\ r.phase = "answered" /\ r.answer = answer /\ r.kind = taxRequest[q].kind
        /\ r.expected = taxRequest[q].expected /\ r.next = taxRequest[q].next
        /\ r.orphan = taxRequest[q].orphan /\ r.fresh = fresh
    BY <1>2 DEF TaxRequests
  <1>4. taxRequest' = [taxRequest EXCEPT ![q] = r] OBVIOUS
  <1> HIDE DEF r
  <1>5. TaxTyped' BY <1>1, <1>3, <1>4 DEF TaxTyped
  <1>6. taxRequest'[q] = r /\ \A p \in X!Requests \ {q} : taxRequest'[p] = taxRequest[p]
    BY <1>1, <1>4 DEF TaxTyped
  <1>7. ASSUME NEW u \in TaxTabs, u # t PROVE TaxStands(u)'
    <2>1. \A p \in Of(u) : taxRequest'[p] = taxRequest[p] BY <1>1, <1>6, <1>7, RequestsAre
    <2> QED BY <1>7, <2>1, TaxKept DEF TaxInv
  <1>8. \A p \in Of(t) \ {q} : taxRequest'[p] = taxRequest[p] BY <1>6, RequestsAre
  <1>9. X!Phase(q)' = "answered" /\ (Sends(q)' <=> Sends(q)) BY <1>3, <1>6 DEF X!Phase, Sends
  <1>10. ASSUME NEW p \in Of(t)
         PROVE  p[1] = t /\ (Sends(p)' <=> Sends(p)) /\ RequestStands(p)'
    <2>1. p[1] = t /\ RequestStands(p) BY <1>1, RequestsAre DEF TaxStands, Handles
    <2>2. CASE p = q BY <1>3, <1>6, <1>9, <2>1, <2>2 DEF RequestStands
    <2>3. CASE p # q
      <3>1. taxRequest'[p] = taxRequest[p] BY <1>8, <2>3
      <3> QED BY <2>1, <3>1 DEF RequestStands, Sends, X!Phase
    <2> QED BY <2>2, <2>3
  <1>11. Handles(t)'
    <2>1. DialogExpected(taxDialog[t])' BY <1>1 DEF TaxStands, Handles, DialogExpected, X!dirty
    <2>2. Of(t)' = Of(t) BY DEF Of, X!Requests
    <2> QED BY <1>1, <1>10, <2>1, <2>2 DEF TaxStands, Handles
  <1>12. HoldsSections(t)' BY <1>3, <1>6, <1>8
  <1>13. TaxStands(t)' BY <1>11, <1>12 DEF TaxStands
  <1> QED BY <1>5, <1>7, <1>13 DEF TaxInv

LEMMA AnswerIs ==
  ASSUME TaxTyped, NEW q \in X!Requests, X!Phase(q) # "idle", NEW answer, X!Answer(q, answer)
  PROVE  /\ taxRequest' = [taxRequest EXCEPT ![q] =
               [taxRequest[q] EXCEPT !.phase = "answered", !.answer = answer, !.fresh = taxRequest[q].fresh]]
         /\ taxRequest[q].fresh \in SectionLists
  <1>1. taxRequest[q] \in TaxRequests BY TaxRequestIs
  <1>2. taxRequest' = [taxRequest EXCEPT ![q] = [taxRequest[q] EXCEPT !.phase = "answered", !.answer = answer]]
    BY DEF X!Answer, TaxTyped
  <1>3. [taxRequest[q] EXCEPT !.phase = "answered", !.answer = answer, !.fresh = taxRequest[q].fresh]
          = [taxRequest[q] EXCEPT !.phase = "answered", !.answer = answer]
    BY <1>1 DEF TaxRequests
  <1>4. taxRequest[q].fresh \in SectionLists BY <1>1 DEF TaxRequests
  <1> QED BY <1>2, <1>3, <1>4

\* An answer that brings nothing to a tab whose request had brought nothing.
LEMMA NothingBrought ==
  ASSUME TaxInv, NEW t \in TaxTabs, NEW q \in Of(t), X!Phase(q) = "sent",
         UNCHANGED <<sections, tagged, heldSections, heldTags, loads, taxDialog, unsure, uses>>,
         NEW answer \in {"error", "conflict", "duplicate", "in-use", "not-found"}, X!Answer(q, answer),
         answer = "conflict" => taxRequest[q].kind = "update",
         answer = "in-use" => taxRequest[q].kind = "delete"
  PROVE  TaxInv'
  <1>1. TaxTyped /\ TaxStands(t) /\ q \in X!Requests BY RequestsAre DEF TaxInv
  <1> DEFINE fresh == taxRequest[q].fresh
  <1>2. taxRequest' = [taxRequest EXCEPT ![q] =
               [taxRequest[q] EXCEPT !.phase = "answered", !.answer = answer, !.fresh = fresh]]
        /\ fresh \in SectionLists
    BY <1>1, AnswerIs
  <1> HIDE DEF fresh
  <1>3. sections' \in TaxTables /\ tagged' \in TaxTagLists /\ unsure' \subseteq TaxTabs
    BY <1>1 DEF TaxTyped
  <1>4. ASSUME taxRequest'[q].phase = "answered", taxRequest'[q].answer = answer,
               taxRequest'[q].kind = taxRequest[q].kind, taxRequest'[q].fresh = fresh,
               taxRequest'[q].expected = taxRequest[q].expected,
               taxRequest'[q].next = taxRequest[q].next,
               \A p \in Of(t) \ {q} : taxRequest'[p] = taxRequest[p]
        PROVE  HoldsSections(t)'
    <2>1. ~Brings(q) /\ ~Brings(q)' BY <1>4 DEF Brings
    <2>2. \A p \in Of(t) : SameAnswer(p) \/ (~Brings(p) /\ ~Brings(p)')
      BY <1>4, <2>1 DEF SameAnswer
    <2> QED BY <1>1, <2>2, HoldsKept DEF TaxStands
  <1>5. answer \in {"ok", "error", "conflict", "duplicate", "in-use", "not-found"} OBVIOUS
  <1>6. /\ \A u \in TaxTabs \ {t} : u \in unsure' \/ (sections' = sections /\ u \notin unsure)
        /\ X!Phase(q) # "idle"
    OBVIOUS
  <1>7. UNCHANGED <<heldSections, heldTags, loads, taxDialog, uses>> OBVIOUS
  <1> QED BY ONLY TaxInv, t \in TaxTabs, q \in Of(t), answer = "conflict" => taxRequest[q].kind = "update",
         answer = "in-use" => taxRequest[q].kind = "delete", <1>2, <1>3, <1>4, <1>5, <1>6, <1>7, AnsweredTax

LEMMA RefuseTax ==
  ASSUME TaxInv, NEW t \in TaxTabs, NEW q \in Of(t), X!Phase(q) = "sent",
         NEW answer \in {"conflict", "duplicate", "in-use", "not-found"}, X!Refuse(q, answer),
         UNCHANGED <<heldSections, heldTags, loads, taxDialog, uses>>,
         answer = "conflict" => taxRequest[q].kind = "update",
         answer = "in-use" => taxRequest[q].kind = "delete"
  PROVE  TaxInv'
  <1>1. X!Answer(q, answer) /\ UNCHANGED <<sections, tagged, unsure>> BY DEF X!Refuse
  <1> QED BY <1>1, NothingBrought

\* An answer with the sections as they are, to a tab that no other answer is on its way to.
LEMMA OnlyAnswer ==
  ASSUME TaxInv, NEW t \in TaxTabs, NEW q \in Of(t), X!Phase(q) = "sent",
         UNCHANGED <<heldSections, loads>>,
         taxRequest'[q].phase = "answered", taxRequest'[q].answer = "ok",
         \A p \in Of(t) \ {q} : taxRequest'[p] = taxRequest[p],
         t \notin unsure' =>
           ~X!Coming(t) /\ X!Applies(q)' /\ X!Applied(q)' = X!ListOf(sections)'
  PROVE  HoldsSections(t)'
  <1> SUFFICES ASSUME t \notin unsure' PROVE HoldsSections(t)' BY DEF HoldsSections
  <1>1. /\ \A l \in X!Loads : ~X!Answered(t, l)
        /\ \A p \in Of(t) : ~Brings(p)
    BY ComingIs
  <1>2. \A l \in X!Loads : ~X!Answered(t, l)' BY <1>1 DEF X!Answered
  <1>3. \A p \in Of(t) \ {q} : ~Brings(p)' BY <1>1 DEF Brings, X!Phase
  <1>4. Brings(q)' BY DEF Brings, X!Phase
  <1>5. X!Coming(t)' BY <1>4, ComingIsNext
  <1>6. OneComes(t)' BY <1>2, <1>3 DEF OneComes, X!Loads, Of, X!Requests
  <1>7. \A p \in Of(t) : Brings(p)' => X!Applies(p)' /\ X!Applied(p)' = X!ListOf(sections)'
    BY <1>3
  <1>8. Of(t)' = Of(t) BY DEF Of, X!Requests
  <1> QED BY <1>2, <1>5, <1>6, <1>7, <1>8 DEF HoldsSections

\* A change that takes place: the tab's own list changes as the table does.
LEMMA StoreTax ==
  ASSUME TaxInv, NEW t \in TaxTabs, NEW q \in Of(t), X!Phase(q) = "sent",
         NEW S \in TaxTables, NEW G \in TaxTagLists,
         X!Store(q, S, G), UNCHANGED <<heldSections, heldTags, loads, taxDialog, uses>>,
         taxRequest[q].kind # "load",
         taxRequest[q].kind = "create" =>
            taxRequest[q].next.code \notin DOMAIN sections /\ S = X!With(sections, taxRequest[q].next),
         taxRequest[q].kind = "update" =>
            /\ X!Holds(taxRequest[q].expected)
            /\ taxRequest[q].next.code \notin DOMAIN X!Others(taxRequest[q].expected)
            /\ S = X!With(X!Others(taxRequest[q].expected), taxRequest[q].next),
         taxRequest[q].kind = "delete" => S = X!Others(taxRequest[q].expected)
  PROVE  TaxInv'
  <1>1. TaxTyped /\ TaxStands(t) /\ q \in X!Requests /\ q[1] = t BY RequestsAre DEF TaxInv
  <1>2. /\ X!Answer(q, "ok") /\ sections' = S /\ tagged' = G
        /\ unsure' = unsure \cup (TaxTabs \ {t}) \cup (IF X!Coming(t) THEN {t} ELSE {})
    BY <1>1 DEF X!Store
  <1> DEFINE r == taxRequest[q]
             fresh == r.fresh
  <1>3. taxRequest' = [taxRequest EXCEPT ![q] =
               [r EXCEPT !.phase = "answered", !.answer = "ok", !.fresh = fresh]]
        /\ fresh \in SectionLists
    BY <1>1, <1>2, AnswerIs
  <1>4. /\ r.kind \in {"create", "update", "delete"} /\ heldSections[t] # None
        /\ r.kind # "create" => r.expected \in RealSections
        /\ r.kind \in {"create", "update"} => r.next \in RealSections
    <2>1. r \in TaxRequests BY <1>1, TaxRequestIs
    <2>2. RequestStands(q) BY <1>1 DEF TaxStands, Handles
    <2> QED BY <1>1, <2>1, <2>2 DEF RequestStands, TaxRequests
  <1> HIDE DEF fresh, r
  <1>5. ASSUME taxRequest'[q].phase = "answered", taxRequest'[q].answer = "ok",
               taxRequest'[q].kind = r.kind, taxRequest'[q].expected = r.expected,
               taxRequest'[q].next = r.next,
               \A p \in Of(t) \ {q} : taxRequest'[p] = taxRequest[p]
        PROVE  HoldsSections(t)'
    <2>1. ASSUME t \notin unsure'
          PROVE  ~X!Coming(t) /\ X!Applies(q)' /\ X!Applied(q)' = X!ListOf(S)
      <3>1. ~X!Coming(t) /\ t \notin unsure BY <1>2, <2>1
      <3>2. heldSections'[t] = X!ListOf(sections)
        BY <1>1, <1>4, <3>1 DEF TaxStands, HoldsSections
      <3>3. CASE r.kind = "create"
        <4>1. X!Applied(q)' = X!ListOf(sections) \cup {r.next}
          BY <1>1, <1>5, <3>2, <3>3 DEF X!Applied
        <4>2. X!ListOf(S) = X!ListOf(sections) \cup {r.next} BY <1>4, <3>3, ListWith DEF r
        <4>3. X!Applies(q)' BY <1>5, <3>3 DEF X!Applies
        <4> QED BY <3>1, <4>1, <4>2, <4>3
      <3>4. CASE r.kind = "update"
        <4>1. X!Applied(q)' = {IF section.code = r.expected.code THEN r.next ELSE section :
                                section \in X!ListOf(sections)}
          BY <1>1, <1>5, <3>2, <3>4 DEF X!Applied
        <4>2. X!ListOf(S) = {IF section.code = r.expected.code THEN r.next ELSE section :
                                section \in X!ListOf(sections)}
          BY <1>4, <3>4, ListRenamed DEF r
        <4>3. X!Applies(q)'
          <5>1. r.expected.code \in DOMAIN sections BY <3>4 DEF X!Holds, r
          <5>2. r.expected.code \in X!CodesOf(X!ListOf(sections))
            BY <1>1, <5>1, ListIs DEF TaxTyped
          <5>3. X!CodesOf(heldSections[t])' = X!CodesOf(X!ListOf(sections)) BY <3>2 DEF X!CodesOf
          <5> QED BY <1>1, <1>5, <5>2, <5>3 DEF X!Applies
        <4> QED BY <3>1, <4>1, <4>2, <4>3
      <3>5. CASE r.kind = "delete"
        <4>1. X!Applied(q)' = {section \in X!ListOf(sections) : section.code # r.expected.code}
          BY <1>1, <1>5, <3>2, <3>5 DEF X!Applied
        <4>2. X!ListOf(S) = {section \in X!ListOf(sections) : section.code # r.expected.code}
          BY <3>5, ListOthers DEF r
        <4>3. X!Applies(q)' BY <1>5, <3>5 DEF X!Applies
        <4> QED BY <3>1, <4>1, <4>2, <4>3
      <3> QED BY <1>4, <3>3, <3>4, <3>5
    <2>2. X!ListOf(sections)' = X!ListOf(S) BY <1>2 DEF X!ListOf
    <2> QED BY <1>5, <2>1, <2>2, OnlyAnswer
  <1>6. sections' \in TaxTables /\ tagged' \in TaxTagLists /\ unsure' \subseteq TaxTabs
    BY <1>1, <1>2 DEF TaxTyped
  <1>7. \A u \in TaxTabs \ {t} : u \in unsure' \/ (sections' = sections /\ u \notin unsure) BY <1>2
  <1> QED BY <1>3, <1>5, <1>6, <1>7, AnsweredTax DEF r

LEMMA listTax ==
  ASSUME TaxInv, NEW t \in TaxTabs, NEW q \in Of(t), X!Phase(q) = "sent", taxRequest[q].kind = "load",
         X!listTaxSections(q), UNCHANGED <<heldSections, heldTags, loads, taxDialog, uses>>
  PROVE  TaxInv'
  <1>1. TaxTyped /\ q \in X!Requests /\ q[1] = t BY RequestsAre DEF TaxInv
  <1> DEFINE fresh == X!ListOf(sections)
  <1>2. /\ taxRequest' = [taxRequest EXCEPT ![q] =
              [taxRequest[q] EXCEPT !.phase = "answered", !.answer = "ok", !.fresh = fresh]]
        /\ unsure' = X!ReadBy(t) /\ UNCHANGED <<sections, tagged>>
    BY <1>1 DEF X!listTaxSections, TaxTyped
  <1>3. fresh \in SectionLists BY <1>1, ListIs DEF TaxTyped
  <1>4. fresh = X!ListOf(sections)' BY <1>2 DEF X!ListOf
  <1> HIDE DEF fresh
  <1>5. ASSUME taxRequest'[q].phase = "answered", taxRequest'[q].answer = "ok",
               taxRequest'[q].kind = taxRequest[q].kind, taxRequest'[q].fresh = fresh,
               \A p \in Of(t) \ {q} : taxRequest'[p] = taxRequest[p]
        PROVE  HoldsSections(t)'
    <2>1. X!Applies(q)' /\ X!Applied(q)' = fresh BY <1>5 DEF X!Applies, X!Applied
    <2>2. t \notin unsure' => ~X!Coming(t) BY <1>2 DEF X!ReadBy
    <2> QED BY <1>4, <1>5, <2>1, <2>2, OnlyAnswer
  <1>6. /\ sections' \in TaxTables /\ tagged' \in TaxTagLists /\ unsure' \subseteq TaxTabs
        /\ \A u \in TaxTabs \ {t} : u \in unsure' \/ (sections' = sections /\ u \notin unsure)
    BY <1>1, <1>2 DEF TaxTyped, X!ReadBy
  <1> QED BY <1>2, <1>3, <1>5, <1>6, AnsweredTax

LEMMA ServeTax ==
  ASSUME TaxInv, NEW q \in X!Requests, X!Serve(q) PROVE TaxInv'
  <1> DEFINE t == q[1]
             r == taxRequest[q]
  <1>1. TaxTyped /\ t \in TaxTabs /\ TaxStands(t) /\ q \in Of(t) BY RequestsAre DEF TaxInv
  <1>2. X!Phase(q) = "sent" /\ UNCHANGED <<heldSections, heldTags, loads, taxDialog, uses>>
    BY DEF X!Serve
  <1>3. r.kind \in {"create", "update", "delete", "load"} /\ RequestStands(q)
    BY <1>1, <1>2, TaxRequestIs DEF TaxRequests, TaxStands, Handles
  <1>4. sections \in TaxTables /\ tagged \in TaxTagLists BY <1>1 DEF TaxTyped
  <1> HIDE DEF t
  <1>5. CASE r.kind = "create"
    <2>1. X!createTaxSection(q) BY <1>5 DEF X!Serve
    <2>2. r.next \in RealSections BY <1>2, <1>3, <1>5 DEF RequestStands
    <2>3. CASE r.next.code \in DOMAIN sections
      <3>1. X!Refuse(q, "duplicate") BY <2>1, <2>3 DEF X!createTaxSection
      <3> QED BY <1>1, <1>2, <3>1, RefuseTax
    <2>4. CASE r.next.code \notin DOMAIN sections
      <3>1. X!Store(q, X!With(sections, r.next), tagged) BY <2>1, <2>4 DEF X!createTaxSection
      <3>2. X!With(sections, r.next) \in TaxTables BY <1>4, <2>2, WithIs
      <3> QED BY <1>1, <1>2, <1>4, <1>5, <2>4, <3>1, <3>2, StoreTax
    <2> QED BY <2>3, <2>4
  <1>6. CASE r.kind = "update"
    <2>1. X!updateTaxSection(q) BY <1>6 DEF X!Serve
    <2>2. r.next \in RealSections BY <1>2, <1>3, <1>6 DEF RequestStands
    <2>3. CASE ~X!Holds(r.expected)
      <3>1. X!Refuse(q, "conflict") BY <2>1, <2>3 DEF X!updateTaxSection
      <3> QED BY <1>1, <1>2, <1>6, <3>1, RefuseTax
    <2>4. CASE X!Holds(r.expected) /\ r.next.code \in DOMAIN X!Others(r.expected)
      <3>1. X!Refuse(q, "duplicate") BY <2>1, <2>4 DEF X!updateTaxSection
      <3> QED BY <1>1, <1>2, <3>1, RefuseTax
    <2>5. CASE X!Holds(r.expected) /\ r.next.code \notin DOMAIN X!Others(r.expected)
      <3> DEFINE S == X!With(X!Others(r.expected), r.next)
                 G == X!Renamed(tagged, r.expected.code, r.next.code)
      <3>1. X!Store(q, S, G) BY <2>1, <2>5 DEF X!updateTaxSection
      <3>2. X!Others(r.expected) \in TaxTables BY <1>4, OthersIs
      <3>3. S \in TaxTables BY <2>2, <3>2, WithIs
      <3>4. G \in TaxTagLists
        <4>1. r.next.code \in TaxCodes BY <2>2 DEF RealSections
        <4> QED BY <1>4, <4>1, RenamedIs
      <3>5. r.kind = "update" =>
              /\ X!Holds(r.expected) /\ r.next.code \notin DOMAIN X!Others(r.expected)
              /\ S = X!With(X!Others(r.expected), r.next)
        BY <2>5
      <3> HIDE DEF S, G
      <3> QED BY <1>1, <1>2, <1>6, <3>1, <3>3, <3>4, <3>5, StoreTax
    <2> QED BY <2>3, <2>4, <2>5
  <1>7. CASE r.kind = "delete"
    <2>1. X!deleteTaxSection(q) BY <1>7 DEF X!Serve
    <2>2. CASE r.expected.code \notin DOMAIN sections
      <3>1. X!Refuse(q, "not-found") BY <2>1, <2>2 DEF X!deleteTaxSection
      <3> QED BY <1>1, <1>2, <3>1, RefuseTax
    <2>3. CASE r.expected.code \in DOMAIN sections /\ \E cat \in Categories : tagged[cat] = r.expected.code
      <3>1. X!Refuse(q, "in-use") BY <2>1, <2>3 DEF X!deleteTaxSection
      <3> QED BY <1>1, <1>2, <1>7, <3>1, RefuseTax
    <2>4. CASE r.expected.code \in DOMAIN sections /\ ~\E cat \in Categories : tagged[cat] = r.expected.code
      <3>1. X!Store(q, X!Others(r.expected), tagged) BY <2>1, <2>4 DEF X!deleteTaxSection
      <3>2. X!Others(r.expected) \in TaxTables BY <1>4, OthersIs
      <3> QED BY <1>1, <1>2, <1>4, <1>7, <3>1, <3>2, StoreTax
    <2> QED BY <2>2, <2>3, <2>4
  <1>8. CASE r.kind = "load"
    <2>1. X!listTaxSections(q) BY <1>8 DEF X!Serve
    <2> QED BY <1>1, <1>2, <1>8, <2>1, listTax
  <1> QED BY <1>3, <1>5, <1>6, <1>7, <1>8

LEMMA FailRequestTax ==
  ASSUME TaxInv, NEW q \in X!Requests, X!FailRequest(q) PROVE TaxInv'
  <1> DEFINE t == q[1]
  <1>1. TaxTyped /\ t \in TaxTabs /\ q \in Of(t) BY RequestsAre DEF TaxInv
  <1>2. /\ X!Phase(q) \in {"sent", "answered"} /\ X!Answer(q, "error")
        /\ unsure' = IF X!Phase(q) = "answered" THEN unsure \cup {t} ELSE unsure
        /\ UNCHANGED <<sections, tagged, heldSections, heldTags, loads, taxDialog, uses>>
    BY DEF X!FailRequest
  <1> HIDE DEF t
  <1>3. CASE X!Phase(q) = "sent"
    <2>1. X!Phase(q) # "answered" BY <1>3
    <2> QED BY <1>1, <1>2, <1>3, <2>1, NothingBrought
  <1>4. CASE X!Phase(q) = "answered"
    <2> DEFINE fresh == taxRequest[q].fresh
    <2>1. taxRequest' = [taxRequest EXCEPT ![q] =
               [taxRequest[q] EXCEPT !.phase = "answered", !.answer = "error", !.fresh = fresh]]
        /\ fresh \in SectionLists
      BY <1>1, <1>2, <1>4, AnswerIs
    <2> HIDE DEF fresh
    <2>2. /\ sections' \in TaxTables /\ tagged' \in TaxTagLists /\ unsure' \subseteq TaxTabs
          /\ \A u \in TaxTabs \ {t} : u \in unsure' \/ (sections' = sections /\ u \notin unsure)
      BY <1>1, <1>2 DEF TaxTyped
    <2>3. HoldsSections(t)' BY <1>2, <1>4 DEF HoldsSections
    <2> QED BY <1>1, <1>2, <1>4, <2>1, <2>2, <2>3, AnsweredTax
  <1> QED BY <1>2, <1>3, <1>4

\* A change from outside leaves every tab unsure.
LEMMA OutsideTax ==
  ASSUME TaxInv, UNCHANGED <<heldSections, heldTags, loads, taxDialog, taxRequest>>, X!Used,
         sections' \in TaxTables, tagged' \in TaxTagLists,
         unsure' = TaxTabs \/ UNCHANGED <<sections, unsure>>
  PROVE  TaxInv'
  <1>1. TaxTyped /\ uses' \in 0..MaxTaxUses BY UsedIs DEF TaxInv
  <1>2. TaxTyped' BY <1>1 DEF TaxTyped
  <1>3. ASSUME NEW u \in TaxTabs PROVE TaxStands(u)'
    <2>1. CASE u \in unsure' \/ (sections' = sections /\ u \notin unsure)
      BY <2>1, TaxKept DEF TaxInv
    <2> QED BY <2>1
  <1> QED BY <1>2, <1>3 DEF TaxInv

LEMMA OtherTabTax ==
  ASSUME TaxInv, NEW code \in DOMAIN sections, NEW next \in RealSections, X!OtherTab(code, next)
  PROVE  TaxInv'
  <1>1. sections \in TaxTables /\ tagged \in TaxTagLists BY DEF TaxInv, TaxTyped
  <1>2. /\ UNCHANGED <<heldSections, heldTags, loads, taxDialog, taxRequest>>
        /\ X!Used /\ unsure' = TaxTabs
    BY DEF X!OtherTab
  <1> DEFINE old == X!Section(code, sections[code])
  <1>3. X!Others(old) \in TaxTables BY <1>1, OthersIs
  <1>4. X!With(sections, next) \in TaxTables /\ X!With(X!Others(old), next) \in TaxTables
    BY <1>1, <1>3, WithIs
  <1>5. X!Renamed(tagged, code, next.code) \in TaxTagLists
    <2>1. next.code \in TaxCodes BY DEF RealSections
    <2> QED BY <1>1, <2>1, RenamedIs
  <1>6. sections' \in TaxTables /\ tagged' \in TaxTagLists BY <1>1, <1>3, <1>4, <1>5 DEF X!OtherTab
  <1> QED BY <1>2, <1>6, OutsideTax

LEMMA TagCategoryTax ==
  ASSUME TaxInv, NEW cat \in Categories, NEW code \in DOMAIN sections, X!TagCategory(cat, code)
  PROVE  TaxInv'
  <1>1. TaxTyped BY DEF TaxInv
  <1>2. /\ UNCHANGED <<sections, heldSections, heldTags, loads, taxDialog, taxRequest, unsure>>
        /\ X!Used /\ tagged' = [tagged EXCEPT ![cat] = code]
    BY DEF X!TagCategory
  <1>3. code \in TaxCodes BY <1>1, TaxTablesAre DEF TaxTyped
  <1>4. sections' \in TaxTables /\ tagged' \in TaxTagLists BY <1>1, <1>2, <1>3 DEF TaxTyped, TaxTagLists
  <1> QED BY <1>2, <1>4, OutsideTax

-----------------------------------------------------------------------------
(* Tax sections: the answer reaches the tab. *)

\* What is known of an answer that has come.
LEMMA CameIs ==
  ASSUME TaxInv, NEW q \in X!Requests, X!Phase(q) = "answered"
  PROVE  LET r == taxRequest[q] IN
         /\ r \in TaxRequests /\ r.kind \in {"create", "update", "delete", "load"}
         /\ heldSections[q[1]] \in SectionLists /\ heldSections[q[1]] # None
         /\ r.kind \in {"create", "update"} => r.next \in RealSections
         /\ r.answer = "conflict" => r.kind = "update"
         /\ r.answer = "in-use" => r.kind = "delete"
         /\ ~r.orphan => /\ taxDialog[q[1]].open /\ taxDialog[q[1]].busy
                         /\ r.kind \in {"update", "delete"} => taxDialog[q[1]].row = "existing"
  <1>1. TaxTyped /\ RequestStands(q) /\ q[1] \in TaxTabs BY RequestsAre DEF TaxInv, TaxStands, Handles
  <1>2. taxRequest[q] \in TaxRequests BY <1>1, TaxRequestIs
  <1> QED BY <1>1, <1>2 DEF RequestStands, TaxTyped, TaxRequests

LEMMA AppliedIs ==
  ASSUME TaxInv, NEW q \in X!Requests, X!Phase(q) = "answered", X!Applies(q)
  PROVE  X!Applied(q) \in SectionLists /\ X!FollowedTags(q) \in TaxTagLists \cup {None}
  <1> DEFINE r == taxRequest[q]
             held == heldSections[q[1]]
  <1>1. /\ r \in TaxRequests /\ r.kind \in {"create", "update", "delete", "load"}
        /\ held \in SectionLists
        /\ r.kind \in {"create", "update"} => r.next \in RealSections
    BY CameIs
  <1>2. X!Applied(q) \in SectionLists
    <2>1. CASE r.kind = "create" BY <1>1, <2>1 DEF X!Applied, SectionLists
    <2>2. CASE r.kind = "update"
      <3>1. X!Applied(q) = {IF section.code = r.expected.code THEN r.next ELSE section : section \in held}
        BY <2>2 DEF X!Applied
      <3>2. r.next \in RealSections BY <1>1, <2>2
      <3> HIDE DEF r, held
      <3> QED BY <1>1, <3>1, <3>2 DEF SectionLists
    <2>3. CASE r.kind = "delete" BY <1>1, <2>3 DEF X!Applied, SectionLists
    <2>4. CASE r.kind = "load" BY <1>1, <2>4 DEF X!Applied, TaxRequests
    <2> QED BY <1>1, <2>1, <2>2, <2>3, <2>4
  <1>3. X!FollowedTags(q) \in TaxTagLists \cup {None}
    <2>1. heldTags[q[1]] \in TaxTagLists \cup {None} BY RequestsAre DEF TaxInv, TaxTyped
    <2>2. CASE r.kind = "update" /\ heldTags[q[1]] # None
      <3>1. r.next.code \in TaxCodes BY <1>1, <2>2 DEF RealSections
      <3> QED BY <2>1, <2>2, <3>1, RenamedIs DEF X!FollowedTags
    <2>3. CASE ~(r.kind = "update" /\ heldTags[q[1]] # None) BY <2>1, <2>3 DEF X!FollowedTags
    <2> QED BY <2>2, <2>3
  <1> QED BY <1>2, <1>3

LEMMA DoneFits ==
  ASSUME TaxInv, NEW q \in X!Requests, X!Phase(q) = "answered", NEW d \in X!Done(q)
  PROVE  DialogFits(q[1], d)
  <1> DEFINE r == taxRequest[q]
             t == q[1]
  <1>1. /\ r.kind \in {"create", "update", "delete", "load"} /\ r.fresh \subseteq RealSections
        /\ r.kind \in {"create", "update"} => r.next \in RealSections
        /\ heldSections[t] # None /\ t \in TaxTabs
    BY CameIs, RequestsAre DEF TaxRequests, SectionLists
  <1> HIDE DEF t
  <1>2. CASE r.kind \in {"create", "update"}
    <2>1. d = [X!Existing(r.next) EXCEPT !.saved = TRUE] BY <1>2 DEF X!Done
    <2> QED BY <1>1, <1>2, <2>1, ExistingFits DEF t
  <1>3. CASE r.kind = "delete"
    <2>1. d = X!Collapsed BY <1>3 DEF X!Done
    <2> QED BY <1>1, <2>1, CollapsedFits DEF t
  <1>4. CASE r.kind = "load"
    <2>1. d = X!Collapsed \/ \E f \in r.fresh : d = X!Existing(f) BY <1>4 DEF X!Done
    <2> QED BY <1>1, <2>1, CollapsedFits, ExistingFits DEF t
  <1> QED BY <1>1, <1>2, <1>3, <1>4

\* The dialog after a request that changed nothing.
LEMMA NotDoneFits ==
  ASSUME TaxInv, NEW q \in X!Requests, X!Phase(q) = "answered", ~taxRequest[q].orphan, X!NotDone(q)
  PROVE  \E d : taxDialog' = [taxDialog EXCEPT ![q[1]] = d] /\ DialogFits(q[1], d)
  <1> DEFINE error == X!toTaxSectionRowError(taxRequest[q].answer)
             t == q[1]
             d == [taxDialog[t] EXCEPT !.busy = FALSE, !.error = error]
  <1>1. TaxTyped /\ Handles(t) /\ t \in TaxTabs BY RequestsAre DEF TaxInv, TaxStands
  <1>2. /\ taxDialog[t].open /\ heldSections[t] # None
        /\ taxRequest[q].answer = "conflict" => taxRequest[q].kind = "update"
        /\ taxRequest[q].answer = "in-use" => taxRequest[q].kind = "delete"
        /\ taxRequest[q].kind \in {"update", "delete"} => taxDialog[t].row = "existing"
    BY CameIs
  <1>3. taxDialog[t] \in TaxDialogs BY <1>1, <1>2 DEF TaxTyped, X!Shut
  <1>4. taxDialog' = [taxDialog EXCEPT ![t] = d] BY <1>1 DEF X!NotDone, TaxTyped
  <1>5. /\ error \in {"conflict", "in-use", "duplicate", "generic"}
        /\ error \in {"conflict", "in-use"} => taxRequest[q].answer = error
    BY DEF X!toTaxSectionRowError
  <1> HIDE DEF error, t
  <1>6. /\ d \in TaxDialogs /\ d.open /\ ~d.busy /\ d.error = error /\ d.row = taxDialog[t].row
        /\ d.original = taxDialog[t].original /\ d.draft = taxDialog[t].draft
        /\ d.saved = taxDialog[t].saved /\ d.pending = taxDialog[t].pending
    BY <1>2, <1>3, <1>5 DEF TaxDialogs
  <1> HIDE DEF d
  <1>7. error \in {"conflict", "in-use"} => taxDialog[t].row = "existing" BY <1>2, <1>5
  <1>8. DialogExpected(d) BY <1>1, <1>2, <1>6, <1>7 DEF Handles, DialogExpected, X!dirty
  <1>9. DialogFits(t, d) BY <1>2, <1>6, <1>8 DEF DialogFits
  <1> QED BY <1>4, <1>9 DEF t

\* What the answer is to the app-wide services.
LEMMA ServicesTold ==
  ASSUME TaxInv, NEW t \in TaxTabs, NEW q \in Of(t), X!ReceiveAnswer(q)
  PROVE  /\ heldSections' \in [TaxTabs -> SectionLists \cup {None}]
         /\ heldTags' \in [TaxTabs -> TaxTagLists \cup {None}]
         /\ \A u \in TaxTabs \ {t} : heldSections'[u] = heldSections[u]
         /\ heldSections'[t] = IF X!Applies(q) THEN X!Applied(q) ELSE heldSections[t]
         /\ heldSections'[t] # None
  <1>1. TaxTyped /\ q \in X!Requests /\ q[1] = t /\ X!Phase(q) = "answered"
    BY RequestsAre DEF TaxInv, X!ReceiveAnswer
  <1>2. CASE X!Applies(q)
    <2> DEFINE S == X!Applied(q)
               G == X!FollowedTags(q)
    <2>1. heldSections' = [heldSections EXCEPT ![t] = S] /\ heldTags' = [heldTags EXCEPT ![t] = G]
      BY <1>1, <1>2 DEF X!ReceiveAnswer
    <2>2. S \in SectionLists /\ G \in TaxTagLists \cup {None} /\ S # None
      BY <1>1, <1>2, AppliedIs, TaxConstants
    <2> HIDE DEF S, G
    <2>3. heldSections'[t] = S BY <1>1, <2>1 DEF TaxTyped
    <2>4. /\ heldSections' \in [TaxTabs -> SectionLists \cup {None}]
          /\ heldTags' \in [TaxTabs -> TaxTagLists \cup {None}]
          /\ \A u \in TaxTabs \ {t} : heldSections'[u] = heldSections[u]
      BY <1>1, <2>1, <2>2 DEF TaxTyped
    <2> QED BY <1>2, <2>2, <2>3, <2>4 DEF S
  <1>3. CASE ~X!Applies(q)
    <2>1. UNCHANGED <<heldSections, heldTags>> BY <1>3 DEF X!ReceiveAnswer
    <2>2. heldSections[t] # None BY <1>1, CameIs
    <2> QED BY <1>1, <1>3, <2>1, <2>2 DEF TaxTyped
  <1> QED BY <1>2, <1>3

\* And to the dialog that sent it, if it is still there.
LEMMA DialogTold ==
  ASSUME TaxInv, NEW t \in TaxTabs, NEW q \in Of(t), X!ReceiveAnswer(q)
  PROVE  /\ loads' \in [TaxTabs -> TaxLoads] /\ \A u \in TaxTabs \ {t} : loads'[u] = loads[u]
         /\ \A l \in X!Loads : loads'[t][l] = loads[t][l] \/ (~X!Answered(t, l) /\ ~X!Answered(t, l)')
         /\ \/ taxRequest[q].orphan /\ UNCHANGED taxDialog
            \/ ~taxRequest[q].orphan /\ \E d : taxDialog' = [taxDialog EXCEPT ![t] = d] /\ DialogFits(t, d)
  <1>1. TaxTyped /\ q \in X!Requests /\ q[1] = t /\ X!Phase(q) = "answered"
    BY RequestsAre DEF TaxInv, X!ReceiveAnswer
  <1>2. CASE UNCHANGED loads /\ taxRequest[q].orphan /\ UNCHANGED taxDialog
    BY <1>1, <1>2 DEF TaxTyped
  <1>3. CASE ~taxRequest[q].orphan /\ X!Applies(q)
    <2>1. UNCHANGED loads BY <1>3 DEF X!ReceiveAnswer
    <2>2. PICK d \in X!Done(q) : taxDialog' = [taxDialog EXCEPT ![t] = d] BY <1>1, <1>3 DEF X!ReceiveAnswer
    <2>3. DialogFits(t, d) BY <1>1, DoneFits
    <2> QED BY <1>1, <1>3, <2>1, <2>2, <2>3 DEF TaxTyped
  <1>4. CASE ~taxRequest[q].orphan /\ ~X!Applies(q)
    <2>1. X!NotDone(q) BY <1>4 DEF X!ReceiveAnswer
    <2> DEFINE L == [l \in X!Loads |-> IF l[1] = "again" /\ taxRequest[q].answer = "in-use"
                                       THEN X!Asked ELSE loads[t][l]]
    <2>2. loads' = [loads EXCEPT ![t] = L] BY <1>1, <2>1 DEF X!NotDone, TaxTyped
    <2>3. L = [l \in X!Loads |-> L[l]] /\ \A l \in X!Loads : L[l] \in {X!Asleep, X!Asked, loads[t][l]}
      OBVIOUS
    <2>4. \A l \in X!Loads : L[l] # loads[t][l] => l[1] = "again" OBVIOUS
    <2> HIDE DEF L
    <2>5. /\ loads' \in [TaxTabs -> TaxLoads] /\ loads'[t] = L
          /\ \A u \in TaxTabs \ {t} : loads'[u] = loads[u]
          /\ \A l \in X!Loads : loads'[t][l] = loads[t][l] \/ ~X!Answered(t, l)'
      BY <1>1, <2>2, <2>3, SomeLoads
    <2>6. \A l \in X!Loads : l[1] = "again" => ~X!Answered(t, l) /\ ~X!Answered(t, l)'
      BY DEF X!Loads, X!Answered
    <2>7. \E d : taxDialog' = [taxDialog EXCEPT ![t] = d] /\ DialogFits(t, d)
      BY <1>1, <1>4, <2>1, NotDoneFits
    <2> QED BY <1>4, <2>4, <2>5, <2>6, <2>7
  <1> QED BY <1>2, <1>3, <1>4 DEF X!ReceiveAnswer

LEMMA ReceiveAnswerTax ==
  ASSUME TaxInv, NEW q \in X!Requests, X!ReceiveAnswer(q) PROVE TaxInv'
  <1> DEFINE t == q[1]
  <1>1. TaxTyped /\ t \in TaxTabs /\ TaxStands(t) /\ q \in Of(t) /\ Of(t)' = Of(t)
    BY RequestsAre DEF TaxInv, Of, X!Requests
  <1>2. /\ X!Phase(q) = "answered" /\ UNCHANGED <<sections, tagged, unsure, uses>>
        /\ taxRequest' = [taxRequest EXCEPT ![q] = X!Idle]
    BY DEF X!ReceiveAnswer
  <1>3. t = q[1] OBVIOUS
  <1> HIDE DEF t
  <1>4. /\ heldSections' \in [TaxTabs -> SectionLists \cup {None}]
        /\ heldTags' \in [TaxTabs -> TaxTagLists \cup {None}]
        /\ \A u \in TaxTabs \ {t} : heldSections'[u] = heldSections[u]
        /\ heldSections'[t] = IF X!Applies(q) THEN X!Applied(q) ELSE heldSections[t]
        /\ heldSections'[t] # None
    BY <1>1, ServicesTold
  <1>5. /\ loads' \in [TaxTabs -> TaxLoads] /\ \A u \in TaxTabs \ {t} : loads'[u] = loads[u]
        /\ \A l \in X!Loads : loads'[t][l] = loads[t][l] \/ (~X!Answered(t, l) /\ ~X!Answered(t, l)')
        /\ \/ taxRequest[q].orphan /\ UNCHANGED taxDialog
           \/ ~taxRequest[q].orphan /\ \E d : taxDialog' = [taxDialog EXCEPT ![t] = d] /\ DialogFits(t, d)
    BY <1>1, DialogTold
  <1>6. /\ taxRequest' \in [X!Requests -> TaxRequests \cup {X!Idle}] /\ taxRequest'[q] = X!Idle
        /\ \A p \in X!Requests \ {q} : taxRequest'[p] = taxRequest[p]
        /\ X!Phase(q)' = "idle"
    BY <1>1, <1>2 DEF TaxTyped, X!Phase, X!Idle
  <1>7. taxDialog' \in [TaxTabs -> TaxDialogs \cup {X!Shut}] /\ \A u \in TaxTabs \ {t} : taxDialog'[u] = taxDialog[u]
    BY <1>1, <1>5 DEF TaxTyped, DialogFits
  <1>8. TaxTyped' BY <1>1, <1>2, <1>4, <1>5, <1>6, <1>7 DEF TaxTyped
  <1>9. \A u \in TaxTabs \ {t} : \A p \in Of(u) : taxRequest'[p] = taxRequest[p]
    BY <1>1, <1>3, <1>6, RequestsAre
  <1>10. ASSUME NEW p \in Of(t), p # q
         PROVE  /\ p[1] = t /\ taxRequest'[p] = taxRequest[p] /\ X!Phase(p)' = X!Phase(p)
                /\ (Sends(p)' <=> Sends(p)) /\ RequestStands(p) /\ SameAnswer(p)
    <2>1. p[1] = t /\ p \in X!Requests BY RequestsAre
    <2>2. taxRequest'[p] = taxRequest[p] BY <1>6, <1>10, <2>1
    <2> QED BY <1>1, <2>1, <2>2 DEF TaxStands, Handles, X!Phase, Sends, SameAnswer
  <1>11. ~Sends(q)' BY <1>6 DEF Sends
  <1>12. Handles(t)'
    <2>1. CASE taxRequest[q].orphan /\ UNCHANGED taxDialog
      <3>1. DialogExpected(taxDialog[t])' BY <1>1, <2>1 DEF TaxStands, Handles, DialogExpected, X!dirty
      <3>2. ~Sends(q) BY <2>1 DEF Sends
      <3>3. \A p \in Of(t) : RequestStands(p)'
        <4> SUFFICES ASSUME NEW p \in Of(t), p # q PROVE RequestStands(p)'
          BY <1>6 DEF RequestStands
        <4> QED BY <1>4, <1>10, <2>1 DEF RequestStands
      <3> QED BY <1>1, <1>4, <1>10, <1>11, <2>1, <3>1, <3>2, <3>3 DEF TaxStands, Handles
    <2>2. CASE ~taxRequest[q].orphan /\ \E d : taxDialog' = [taxDialog EXCEPT ![t] = d] /\ DialogFits(t, d)
      <3>1. DialogFits(t, taxDialog'[t]) BY <1>1, <2>2 DEF TaxTyped
      <3>2. DialogExpected(taxDialog[t])' BY <3>1 DEF DialogFits, DialogExpected, X!dirty
      <3>3. Sends(q) BY <1>2, <2>2 DEF Sends
      <3>4. \A p \in Of(t) : ~Sends(p)' BY <1>1, <1>10, <1>11, <3>3 DEF TaxStands, Handles
      <3>5. \A p \in Of(t) : RequestStands(p)'
        <4> SUFFICES ASSUME NEW p \in Of(t), p # q PROVE RequestStands(p)'
          BY <1>6 DEF RequestStands
        <4> QED BY <1>4, <1>10, <3>4 DEF RequestStands, Sends
      <3> QED BY <1>1, <1>4, <3>1, <3>2, <3>4, <3>5 DEF DialogFits, Handles
    <2> QED BY <1>5, <2>1, <2>2
  <1>13. HoldsSections(t)'
    <2> SUFFICES ASSUME t \notin unsure PROVE HoldsSections(t)' BY <1>2 DEF HoldsSections
    <2>1. ~Brings(q)' BY <1>6 DEF Brings
    <2>2. CASE X!Applies(q)
      <3>1. Brings(q) BY <1>2, <2>2 DEF Brings, X!Applies
      <3>2. heldSections'[t] = X!ListOf(sections)
        BY <1>1, <1>4, <2>2, <3>1 DEF TaxStands, HoldsSections
      <3>3. /\ \A l \in X!Loads : ~X!Answered(t, l)
            /\ \A p \in Of(t) \ {q} : ~Brings(p)
        BY <1>1, <3>1 DEF TaxStands, HoldsSections, OneComes
      <3>4. \A l \in X!Loads : ~X!Answered(t, l)' BY <1>5, <3>3 DEF X!Answered
      <3>5. \A p \in Of(t) : ~Brings(p)' BY <1>10, <2>1, <3>3 DEF Brings
      <3>6. OneComes(t)' BY <1>1, <3>4, <3>5 DEF OneComes, X!Loads
      <3>7. X!ListOf(sections)' = X!ListOf(sections) BY <1>2 DEF X!ListOf
      <3> QED BY <1>1, <3>2, <3>4, <3>5, <3>6, <3>7 DEF HoldsSections
    <2>3. CASE ~X!Applies(q)
      <3>1. ~Brings(q) BY <1>1, <2>3 DEF TaxStands, HoldsSections
      <3>2. \A p \in Of(t) : SameAnswer(p) \/ (~Brings(p) /\ ~Brings(p)') BY <1>10, <2>1, <3>1
      <3>3. heldSections'[t] = heldSections[t] BY <1>4, <2>3
      <3>4. /\ \A l \in X!Loads : loads'[t][l] = loads[t][l] \/ ~X!Answered(t, l)'
            /\ \A l \in X!Loads : X!Answered(t, l) => loads'[t][l] = loads[t][l]
        BY <1>5
      <3> QED BY <1>1, <1>2, <3>2, <3>3, <3>4, HoldsKept DEF TaxStands
    <2> QED BY <2>2, <2>3
  <1>14. TaxStands(t)' BY <1>12, <1>13 DEF TaxStands
  <1> QED BY <1>1, <1>2, <1>4, <1>5, <1>7, <1>8, <1>9, <1>14, TaxTabStep

LEMMA NextTax == TaxInv /\ [X!Next]_X!vars => TaxInv'
  <1> SUFFICES ASSUME TaxInv, [X!Next]_X!vars PROVE TaxInv' OBVIOUS
  <1>1. CASE UNCHANGED X!vars
    <2>1. UNCHANGED <<sections, tagged, heldSections, heldTags, loads, taxDialog, taxRequest, unsure, uses>>
      BY <1>1 DEF X!vars
    <2>2. TaxTyped' BY <2>1 DEF TaxInv, TaxTyped
    <2>3. ASSUME NEW u \in TaxTabs PROVE TaxStands(u)'
      <3>1. u \in unsure \/ u \notin unsure OBVIOUS
      <3>2. CASE u \in unsure BY <2>1, <3>2, TaxKept DEF TaxInv
      <3>3. CASE u \notin unsure BY <2>1, <3>3, TaxKept DEF TaxInv
      <3> QED BY <3>1, <3>2, <3>3
    <2> QED BY <2>2, <2>3 DEF TaxInv
  <1>2. ASSUME NEW t \in TaxTabs, X!TabStep(t) PROVE TaxInv'
    <2>1. ASSUME NEW value \in TaxCodes \cup {X!Empty}, X!onInput(t, "code", value) PROVE TaxInv'
      BY <2>1, onInputTax
    <2>2. ASSUME NEW value \in Names \cup {X!Empty}, X!onInput(t, "name", value) PROVE TaxInv'
      BY <2>2, onInputTax
    <2>3. ASSUME NEW l \in X!Loads, X!AnswerLoad(t, l) \/ X!ReceiveLoad(t, l) \/ X!FailLoad(t, l)
          PROVE  TaxInv'
      BY <2>3, AnswerLoadTax, ReceiveLoadTax, FailLoadTax
    <2> QED BY <1>2, <2>1, <2>2, <2>3, ChangePageTax, OpenDialogTax, ClickTax,
               confirmDiscardTax, keepEditingTax, cancelTax, SaveTax, RemoveTax, LoadLatestTax
            DEF X!TabStep
  <1>3. ASSUME NEW q \in X!Requests, X!ServerStep(q) PROVE TaxInv'
    BY <1>3, ServeTax, FailRequestTax, ReceiveAnswerTax DEF X!ServerStep
  <1>4. ASSUME NEW code \in DOMAIN sections, NEW next \in [code : TaxCodes, name : Names],
               X!OtherTab(code, next)
        PROVE  TaxInv'
    BY <1>4, OtherTabTax DEF RealSections
  <1> QED BY <1>1, <1>2, <1>3, <1>4, TagCategoryTax DEF X!Next

-----------------------------------------------------------------------------
(* Tax sections: what the invariant says. *)

LEMMA TaxTypes == ASSUME TaxInv PROVE X!TypeOK
  <1>1. TaxTyped BY DEF TaxInv
  <1>2. DOMAIN sections \subseteq TaxCodes /\ \A c \in DOMAIN sections : sections[c] \in Names
    BY <1>1, TaxTablesAre DEF TaxTyped
  <1>3. ASSUME NEW t \in TaxTabs
        PROVE  /\ heldSections[t] = None \/ heldSections[t] \subseteq [code : TaxCodes, name : Names]
               /\ heldTags[t] = None \/ heldTags[t] \in [Categories -> TaxCodes \cup {None}]
               /\ \A l \in X!Loads : loads[t][l].phase \in {"none", "sent", "answered", "failed"}
               /\ \A s \in TaxSlots : X!Phase(<<t, s>>) \in {"idle", "sent", "answered"}
               /\ taxDialog[t].open =>
                    /\ taxDialog[t].row \in {"none", "new", "existing"}
                    /\ taxDialog[t].draft \in X!Drafts /\ taxDialog[t].original \in X!Drafts
                    /\ taxDialog[t].error \in {None, "conflict", "duplicate", "in-use", "generic"}
                    /\ taxDialog[t].pending \in X!Actions
    <2>1. heldSections[t] = None \/ heldSections[t] \subseteq [code : TaxCodes, name : Names]
      BY <1>1 DEF TaxTyped, SectionLists, RealSections
    <2>2. heldTags[t] = None \/ heldTags[t] \in [Categories -> TaxCodes \cup {None}]
      BY <1>1 DEF TaxTyped, TaxTagLists
    <2>3. \A l \in X!Loads : loads[t][l].phase \in {"none", "sent", "answered", "failed"}
      <3>1. \A l \in X!Loads : loads[t][l] \in ReadsOf(l[2]) BY <1>1 DEF TaxTyped, TaxLoads
      <3> QED BY <3>1 DEF ReadsOf, Pendings
    <2>4. \A s \in TaxSlots : X!Phase(<<t, s>>) \in {"idle", "sent", "answered"}
      <3> SUFFICES ASSUME NEW s \in TaxSlots PROVE X!Phase(<<t, s>>) \in {"idle", "sent", "answered"} OBVIOUS
      <3>1. <<t, s>> \in X!Requests BY DEF X!Requests
      <3>2. taxRequest[<<t, s>>] \in TaxRequests \cup {X!Idle} BY <1>1, <3>1 DEF TaxTyped
      <3> QED BY <3>2 DEF TaxRequests, X!Phase, X!Idle
    <2>5. taxDialog[t].open => taxDialog[t] \in TaxDialogs BY <1>1 DEF TaxTyped, X!Shut
    <2> QED BY <2>1, <2>2, <2>3, <2>4, <2>5 DEF TaxDialogs
  <1> QED BY <1>1, <1>2, <1>3 DEF TaxTyped, TaxTagLists, X!TypeOK

LEMMA TabsShowSections == ASSUME TaxInv PROVE X!SectionsFit
  BY DEF TaxInv, TaxStands, HoldsSections, X!SectionsFit

LEMMA TaxDialogsSound == ASSUME TaxInv PROVE X!DialogSound
  <1> SUFFICES ASSUME NEW t \in TaxTabs
               PROVE  LET d == taxDialog[t]
                          own == {s \in TaxSlots : X!Phase(<<t, s>>) # "idle" /\ ~taxRequest[<<t, s>>].orphan}
                      IN
                      /\ \A s, u \in own : s = u
                      /\ own # {} => d.open /\ d.busy
                      /\ d.open =>
                          /\ d.error \in {"conflict", "in-use"} => d.row = "existing"
                          /\ d.busy => own # {} /\ d.pending = "none"
                          /\ d.saved => d.row = "existing" /\ ~X!dirty(d)
                          /\ d.row = "new" => d.original = X!EmptyDraft
    BY Zenon DEF X!DialogSound
  <1> DEFINE own == {s \in TaxSlots : X!Phase(<<t, s>>) # "idle" /\ ~taxRequest[<<t, s>>].orphan}
  <1>1. Handles(t) BY DEF TaxInv, TaxStands
  <1>2. \A s \in own : <<t, s>> \in Of(t) /\ <<t, s>>[1] = t /\ Sends(<<t, s>>) BY RequestsAre DEF Sends
  <1>3. \A s, u \in own : s = u
    <2> SUFFICES ASSUME NEW s \in own, NEW u \in own PROVE s = u OBVIOUS
    <2>1. <<t, s>> = <<t, u>> BY <1>1, <1>2 DEF Handles
    <2> QED BY <2>1
  <1>4. own # {} => taxDialog[t].open /\ taxDialog[t].busy
    <2> SUFFICES ASSUME NEW s \in own PROVE taxDialog[t].open /\ taxDialog[t].busy OBVIOUS
    <2>1. RequestStands(<<t, s>>) BY <1>1, <1>2 DEF Handles
    <2> QED BY <1>2, <2>1 DEF RequestStands, Sends
  <1>5. taxDialog[t].open /\ taxDialog[t].busy => own # {}
    <2> SUFFICES ASSUME taxDialog[t].open, taxDialog[t].busy PROVE own # {} OBVIOUS
    <2>1. PICK q \in Of(t) : Sends(q) BY <1>1 DEF Handles
    <2>2. PICK s \in TaxSlots : q = <<t, s>> BY RequestsAre
    <2>3. s \in own BY <2>1, <2>2 DEF Sends
    <2> QED BY <2>3
  <1> HIDE DEF own
  <1>6. DialogExpected(taxDialog[t]) BY <1>1 DEF Handles
  <1> QED BY <1>3, <1>4, <1>5, <1>6 DEF DialogExpected, own

-----------------------------------------------------------------------------
(* The bank connection dialog: the inductive invariant. *)

SavedRows == [settings : B!Settings, accounts : B!Mappings]
StoredRows == [settings : B!Settings, accounts : B!Mappings, data : Identities \cup {None}]
Outcomes == {None, "ok", "failed", "not-found", "conflict"}
SaveRequests ==
  [phase : {"asking", "sent", "answered"}, of : SavedRows \cup {None}, answer : Outcomes,
   next : B!Settings]
DiscoverRequests ==
  [phase : {"asking", "sent", "running", "answered", "waiting", "reading"},
   identity : Identities \cup {None}, answer : Identities \cup {None, "failed"}]
MapRequests ==
  [phase : {"accounts", "settings", "answered"}, of : SavedRows, accounts : B!Mappings,
   next : B!Settings, answer : Outcomes]

BankTyped ==
  /\ stored \in StoredRows \cup {None}
  /\ saved \in SavedRows \cup {None}
  /\ draft \in B!Drafts
  /\ saving \in BOOLEAN /\ discovering \in BOOLEAN
  /\ mappingSaving \in BOOLEAN /\ mappingSaved \in BOOLEAN
  /\ discovery \in Identities \cup {None}
  /\ rows \in [Accounts -> Kontos \cup {None}] \cup {None}
  /\ tan \in B!Tans
  /\ saveRequest \in SaveRequests \cup {B!Idle}
  /\ discoverRequest \in DiscoverRequests \cup {B!Idle}
  /\ mapRequest \in MapRequests \cup {B!Idle}
  /\ uses \in 0..MaxDialogUses /\ others \in 0..MaxOthers

\* A choice of the bank's methods, with a medium of the method if it needs one and has any.
OfBank(found, choice) ==
  /\ choice.method \in B!offers(found)
  /\ IF choice.method \in Required /\ B!mediaOf(found, choice.method) # {}
     THEN choice.medium \in B!mediaOf(found, choice.method)
     ELSE choice.medium = None

ChoiceStands ==
  /\ discovery # None /\ tan.method # None => OfBank(discovery, tan)
  /\ discovery # None => saved # None /\ rows # None

\* Each busy sign has its request, and a request what it works on.
RequestsStand ==
  /\ saving <=> saveRequest.phase # "idle"
  /\ discovering <=> discoverRequest.phase # "idle"
  /\ mappingSaving <=> mapRequest.phase # "idle"
  /\ discoverRequest.phase # "idle" => saved # None
  /\ discoverRequest.phase \in {"running", "waiting"} => discoverRequest.identity \in Identities
  /\ discoverRequest.phase = "answered" => discoverRequest.answer \in Identities \cup {"failed"}
  /\ mapRequest.phase # "idle" =>
        /\ rows # None
        /\ mapRequest.next = [mapRequest.of.settings EXCEPT !.tan = mapRequest.next.tan]

BankInv == BankTyped /\ ChoiceStands /\ RequestsStand

LEMMA BankConstants ==
  /\ \A i \in Identities :
       /\ B!offers(i) \subseteq Methods
       /\ \A m \in B!offers(i) : B!mediaOf(i, m) \subseteq Media
  /\ Required \subseteq Methods
  /\ Identities # {} /\ Labels # {} /\ None \notin Media /\ None \notin Methods
  /\ None \notin SavedRows /\ None \notin [Accounts -> Kontos \cup {None}]
  /\ MaxDialogUses \in Nat /\ MaxOthers \in Nat
  <1>1. B!ConstantsFit BY PartsFit
  <1>2. ASSUME NEW i \in Identities
        PROVE  /\ B!offers(i) \subseteq Methods
               /\ \A m \in B!offers(i) : B!mediaOf(i, m) \subseteq Media
    <2>1. PICK ms \in SUBSET Methods \ {{}} : Offered[i] \in [ms -> SUBSET Media]
      BY <1>1 DEF B!ConstantsFit
    <2> QED BY <2>1 DEF B!offers, B!mediaOf
  <1>3. None \notin SavedRows BY <1>1 DEF B!ConstantsFit, SavedRows
  <1> QED BY <1>1, <1>2, <1>3 DEF B!ConstantsFit

\* Requests on their way are records of their own.
LEMMA BankRequestsAre ==
  ASSUME BankTyped
  PROVE  /\ saveRequest.phase # "idle" => saveRequest \in SaveRequests
         /\ discoverRequest.phase # "idle" => discoverRequest \in DiscoverRequests
         /\ mapRequest.phase # "idle" => mapRequest \in MapRequests
         /\ stored # None => stored \in StoredRows
         /\ saved # None => saved \in SavedRows
         /\ rows # None => rows \in [Accounts -> Kontos \cup {None}]
  BY DEF BankTyped, B!Idle

LEMMA NoTanIs == B!NoTan \in B!Tans
  BY DEF B!NoTan, B!Tans

LEMMA NoMappingIs == << >> \in B!Mappings
  <1>1. << >> = [i \in {} |-> i] OBVIOUS
  <1>2. << >> \in [{} -> Kontos] BY <1>1
  <1> QED BY <1>2 DEF B!Mappings

\* A form's settings, and the rows of a mapping and back.
LEMMA SettingsAre ==
  ASSUME NEW d \in B!Drafts, NEW keptTan \in B!Tans
  PROVE  B!settingsOf(d, keptTan) \in B!Settings
  BY DEF B!settingsOf, B!Drafts, B!Settings

LEMMA MappingIs ==
  ASSUME NEW rs \in [Accounts -> Kontos \cup {None}]
  PROVE  B!mappingOf(rs) \in B!Mappings
  <1> DEFINE S == {x \in Accounts : rs[x] # None}
  <1>1. [a \in S |-> rs[a]] \in [S -> Kontos] /\ S \in SUBSET Accounts OBVIOUS
  <1>2. B!mappingOf(rs) = [a \in S |-> rs[a]] BY DEF B!mappingOf
  <1> HIDE DEF S
  <1> QED BY <1>1, <1>2 DEF B!Mappings

LEMMA MappingRowsAre ==
  ASSUME NEW m \in B!Mappings
  PROVE  B!mappingRowsOf(m) \in [Accounts -> Kontos \cup {None}]
  <1>1. PICK S \in SUBSET Accounts : m \in [S -> Kontos] BY DEF B!Mappings
  <1> QED BY <1>1 DEF B!mappingRowsOf

\* The medium fits the method.
LEMMA MediumFits ==
  ASSUME NEW found \in Identities, NEW method, NEW current,
         NEW medium \in B!mediaFor(found, method, current)
  PROVE  /\ medium \in Media \cup {None}
         /\ IF method \in Required /\ B!mediaOf(found, method) # {}
            THEN medium \in B!mediaOf(found, method)
            ELSE medium = None
  <1>1. B!mediaOf(found, method) \subseteq Media
    <2>1. CASE method \in B!offers(found) BY <2>1, BankConstants
    <2>2. CASE method \notin B!offers(found) BY <2>2 DEF B!mediaOf
    <2> QED BY <2>1, <2>2
  <1> QED BY <1>1 DEF B!mediaFor

LEMMA ToStoredIs ==
  ASSUME BankTyped, NEW expected, NEW next \in B!Settings
  PROVE  /\ B!ToStored(expected, next)[1] \in StoredRows \cup {None}
         /\ B!ToStored(expected, next)[2] \in {"ok", "not-found", "conflict"}
         /\ stored = None => B!ToStored(expected, next)[1] = None
         /\ stored # None => \/ B!ToStored(expected, next)[1].settings = stored.settings
                             \/ /\ stored.settings = expected
                                /\ B!ToStored(expected, next)[1].settings = next
  <1> DEFINE data == IF next.identity = expected.identity THEN stored.data ELSE None
             new == [stored EXCEPT !.settings = next, !.data = data]
  <1>1. CASE stored = None
    <2>1. B!ToStored(expected, next) = <<stored, "not-found">> BY <1>1 DEF B!ToStored
    <2> QED BY <1>1, <2>1
  <1>2. CASE stored # None /\ stored.settings # expected
    <2>1. B!ToStored(expected, next) = <<stored, "conflict">> BY <1>2 DEF B!ToStored
    <2>2. stored \in StoredRows BY <1>2, BankRequestsAre
    <2> QED BY <1>2, <2>1, <2>2
  <1>3. CASE stored # None /\ stored.settings = expected
    <2>1. stored \in StoredRows BY <1>3, BankRequestsAre
    <2>2. new \in StoredRows /\ new.settings = next BY <2>1 DEF StoredRows
    <2>3. B!ToStored(expected, next) = <<new, "ok">> BY <1>3, <2>1 DEF B!ToStored, StoredRows
    <2> HIDE DEF new
    <2> QED BY <1>3, <2>2, <2>3
  <1> QED BY <1>1, <1>2, <1>3

LEMMA InitBank == B!Init => BankInv
  <1> SUFFICES ASSUME B!Init PROVE BankInv OBVIOUS
  <1>1. B!FirstIdentity \in Identities /\ (CHOOSE l \in Labels : TRUE) \in Labels
    BY BankConstants DEF B!FirstIdentity
  <1>2. B!FirstSettings \in B!Settings BY <1>1, NoTanIs DEF B!FirstSettings, B!Settings
  <1>3. stored \in StoredRows \cup {None} /\ saved \in SavedRows \cup {None}
    BY <1>2, NoMappingIs DEF B!Init, StoredRows, SavedRows
  <1>4. draft \in B!Drafts BY <1>2 DEF B!Init, B!draftOf, B!Drafts, B!Settings
  <1>5. 0 \in 0..MaxDialogUses /\ 0 \in 0..MaxOthers BY BankConstants
  <1>6. BankTyped BY <1>3, <1>4, <1>5, NoTanIs DEF B!Init, BankTyped
  <1> QED BY <1>6 DEF B!Init, BankInv, ChoiceStands, RequestsStand, B!Idle

-----------------------------------------------------------------------------
(* The bank connection dialog: the settings form. *)

LEMMA EditBank == ASSUME BankInv, NEW d \in B!Drafts, B!Edit(d) PROVE BankInv'
  BY DEF BankInv, BankTyped, ChoiceStands, RequestsStand, B!Edit, B!discoveryForm, B!mappingForm

LEMMA SaveConnectionBank == ASSUME BankInv, B!saveConnection PROVE BankInv'
  <1>1. BankTyped BY DEF BankInv
  <1> DEFINE next == B!settingsOf(draft, IF saved = None THEN B!NoTan ELSE saved.settings.tan)
  <1>2. PICK phase \in {"asking", "sent"} :
          saveRequest' = [phase |-> phase, of |-> saved, answer |-> None, next |-> next]
    BY DEF B!saveConnection
  <1>3. next \in B!Settings
    <2>1. saved # None => saved.settings.tan \in B!Tans
      BY <1>1, BankRequestsAre DEF SavedRows, B!Settings
    <2> QED BY <1>1, <2>1, NoTanIs, SettingsAre DEF BankTyped
  <1> HIDE DEF next
  <1>4. saveRequest' \in SaveRequests /\ saveRequest'.phase # "idle"
    BY <1>1, <1>2, <1>3 DEF BankTyped, SaveRequests, Outcomes
  <1>5. /\ UNCHANGED <<stored, saved, draft, discovery, discovering, discoverRequest>>
        /\ UNCHANGED <<rows, tan, mappingSaving, mappingSaved, mapRequest, others>>
        /\ saving' = TRUE /\ uses < MaxDialogUses /\ uses' = uses + 1
    BY DEF B!saveConnection, B!discoveryForm, B!mappingForm
  <1>6. BankTyped' BY <1>1, <1>4, <1>5, BankConstants DEF BankTyped
  <1> QED BY <1>4, <1>5, <1>6 DEF BankInv, ChoiceStands, RequestsStand

LEMMA CancelSaveBank == ASSUME BankInv, B!CancelSave PROVE BankInv'
  BY DEF BankInv, BankTyped, ChoiceStands, RequestsStand, B!CancelSave, B!discoveryForm, B!mappingForm,
         B!Idle

LEMMA EnterKeyBank == ASSUME BankInv, B!EnterKey PROVE BankInv'
  <1>1. saveRequest \in SaveRequests /\ saveRequest' = [saveRequest EXCEPT !.phase = "sent"]
    BY BankRequestsAre DEF BankInv, B!EnterKey
  <1>2. saveRequest' \in SaveRequests /\ saveRequest'.phase # "idle" BY <1>1 DEF SaveRequests
  <1>3. saveRequest.phase # "idle"
        /\ UNCHANGED <<stored, saved, draft, saving, discovery, discovering, discoverRequest>>
        /\ UNCHANGED <<rows, tan, mappingSaving, mappingSaved, mapRequest, uses, others>>
    BY DEF B!EnterKey, B!discoveryForm, B!mappingForm
  <1> QED BY <1>2, <1>3 DEF BankInv, BankTyped, ChoiceStands, RequestsStand

LEMMA PerformSaveBank == ASSUME BankInv, B!PerformSave PROVE BankInv'
  <1>1. BankTyped BY DEF BankInv
  <1> DEFINE new == [settings |-> saveRequest.next, accounts |-> << >>, data |-> None]
             result == IF saveRequest.of = None THEN <<new, "ok">>
                       ELSE B!ToStored(saveRequest.of.settings, saveRequest.next)
  <1>2. saveRequest.phase = "sent" /\ saveRequest \in SaveRequests
    BY <1>1, BankRequestsAre DEF B!PerformSave
  <1>3. saveRequest.next \in B!Settings BY <1>2 DEF SaveRequests
  <1>4. new \in StoredRows BY <1>3, NoMappingIs DEF StoredRows
  <1>5. result[1] \in StoredRows \cup {None} /\ result[2] \in {"ok", "not-found", "conflict"}
    BY <1>1, <1>3, <1>4, ToStoredIs
  <1>6. \/ /\ stored' = result[1]
           /\ saveRequest' = [saveRequest EXCEPT !.phase = "answered", !.answer = result[2]]
        \/ /\ stored' \in {stored, result[1]}
           /\ saveRequest' = [saveRequest EXCEPT !.phase = "answered", !.answer = "failed"]
    BY DEF B!PerformSave
  <1> HIDE DEF result
  <1>7. stored' \in StoredRows \cup {None} BY <1>1, <1>5, <1>6 DEF BankTyped
  <1>8. saveRequest' \in SaveRequests /\ saveRequest'.phase # "idle"
    BY <1>2, <1>5, <1>6 DEF SaveRequests, Outcomes
  <1>9. /\ UNCHANGED <<saved, draft, saving, discovery, discovering, discoverRequest>>
        /\ UNCHANGED <<rows, tan, mappingSaving, mappingSaved, mapRequest, uses, others>>
    BY DEF B!PerformSave, B!discoveryForm, B!mappingForm
  <1> QED BY <1>1, <1>2, <1>7, <1>8, <1>9 DEF BankInv, BankTyped, ChoiceStands, RequestsStand

LEMMA SaveAnsweredBank == ASSUME BankInv, B!SaveAnswered PROVE BankInv'
  <1>1. BankTyped BY DEF BankInv
  <1>2. saveRequest.phase = "answered" /\ saveRequest \in SaveRequests
    BY <1>1, BankRequestsAre DEF B!SaveAnswered
  <1> DEFINE new == [settings |-> saveRequest.next,
                     accounts |-> IF saveRequest.of = None THEN << >> ELSE saveRequest.of.accounts]
  <1>3. new \in SavedRows BY <1>2, NoMappingIs DEF SaveRequests, SavedRows
  <1>4. saved' = IF saveRequest.answer = "ok" THEN new ELSE saved BY DEF B!SaveAnswered
  <1> HIDE DEF new
  <1>5. saved' \in SavedRows \cup {None} /\ (saved # None => saved' # None)
    BY <1>1, <1>3, <1>4, BankConstants DEF BankTyped
  <1>6. draft' \in B!Drafts
    <2>1. draft \in B!Drafts /\ draft' \in {draft, [draft EXCEPT !.pin = FALSE]}
      BY <1>1 DEF B!SaveAnswered, BankTyped
    <2> QED BY <2>1 DEF B!Drafts
  <1>7. discovery' \in {None, discovery} BY DEF B!SaveAnswered
  <1>8. /\ saving' = FALSE /\ saveRequest' = B!Idle
        /\ UNCHANGED <<stored, discovering, discoverRequest>>
        /\ UNCHANGED <<rows, tan, mappingSaving, mappingSaved, mapRequest, uses, others>>
    BY DEF B!SaveAnswered, B!mappingForm
  <1>9. BankTyped' BY <1>1, <1>5, <1>6, <1>7, <1>8 DEF BankTyped
  <1>10. ChoiceStands' BY <1>5, <1>7, <1>8 DEF BankInv, ChoiceStands
  <1>11. RequestsStand' BY <1>5, <1>8 DEF BankInv, RequestsStand, B!Idle
  <1> QED BY <1>9, <1>10, <1>11 DEF BankInv

-----------------------------------------------------------------------------
(* The bank connection dialog: the discovery. *)

\* A discovery that goes on leaves the forms alone.
LEMMA DiscoveryOn ==
  ASSUME BankInv, discoverRequest.phase # "idle",
         stored' \in StoredRows \cup {None},
         UNCHANGED <<saved, draft, saving, saveRequest, discovery, discovering>>,
         UNCHANGED <<rows, tan, mappingSaving, mappingSaved, mapRequest, uses, others>>,
         discoverRequest' \in DiscoverRequests, 
         discoverRequest'.phase \in {"running", "waiting"} => discoverRequest'.identity \in Identities,
         discoverRequest'.phase = "answered" => discoverRequest'.answer \in Identities \cup {"failed"}
  PROVE  BankInv'
  <1>1. discoverRequest'.phase # "idle" BY DEF DiscoverRequests
  <1>2. BankTyped' BY DEF BankInv, BankTyped
  <1> QED BY <1>1, <1>2 DEF BankInv, ChoiceStands, RequestsStand

LEMMA DiscoverBank == ASSUME BankInv, B!discover PROVE BankInv'
  <1>1. BankTyped BY DEF BankInv
  <1>2. PICK phase \in {"asking", "sent"} :
          discoverRequest' = [phase |-> phase, identity |-> None, answer |-> None]
    BY DEF B!discover
  <1>3. discoverRequest' \in DiscoverRequests /\ discoverRequest'.phase \in {"asking", "sent"}
    BY <1>2 DEF DiscoverRequests
  <1>4. /\ saved # None /\ discovering' = TRUE /\ uses < MaxDialogUses /\ uses' = uses + 1
        /\ UNCHANGED <<stored, saved, draft, saving, saveRequest, discovery>>
        /\ UNCHANGED <<rows, tan, mappingSaving, mappingSaved, mapRequest, others>>
    BY DEF B!discover, B!settingsForm, B!mappingForm
  <1>5. BankTyped' BY <1>1, <1>3, <1>4, BankConstants DEF BankTyped
  <1> QED BY <1>3, <1>4, <1>5 DEF BankInv, ChoiceStands, RequestsStand

LEMMA AnswerPromptBank == ASSUME BankInv, B!AnswerPrompt PROVE BankInv'
  <1>1. BankTyped BY DEF BankInv
  <1>2. discoverRequest \in DiscoverRequests /\ discoverRequest.phase = "asking"
    BY <1>1, BankRequestsAre DEF B!AnswerPrompt
  <1>3. /\ UNCHANGED <<stored, saved, draft, saving, saveRequest, discovery>>
        /\ UNCHANGED <<rows, tan, mappingSaving, mappingSaved, mapRequest, uses, others>>
    BY DEF B!AnswerPrompt, B!settingsForm, B!mappingForm
  <1>4. CASE discovering' = FALSE /\ discoverRequest' = B!Idle
    BY <1>3, <1>4 DEF BankInv, BankTyped, ChoiceStands, RequestsStand, B!Idle
  <1>5. CASE discovering' = discovering /\ discoverRequest' = [discoverRequest EXCEPT !.phase = "sent"]
    <2>1. discoverRequest' \in DiscoverRequests /\ discoverRequest'.phase = "sent"
      BY <1>2, <1>5 DEF DiscoverRequests
    <2> QED BY <1>1, <1>2, <1>3, <1>5, <2>1, DiscoveryOn DEF BankTyped
  <1> QED BY <1>4, <1>5 DEF B!AnswerPrompt

LEMMA DataStored ==
  ASSUME BankTyped, discoverRequest.identity \in Identities, B!StoreData
  PROVE  stored' \in StoredRows \cup {None}
  <1>1. CASE stored = None BY <1>1 DEF B!StoreData
  <1>2. CASE stored # None
    <2>1. stored \in StoredRows BY <1>2, BankRequestsAre
    <2> QED BY <1>2, <2>1 DEF B!StoreData, StoredRows
  <1> QED BY <1>1, <1>2

\* The forms in a step of the discovery.
LEMMA FormsRest ==
  ASSUME UNCHANGED <<B!settingsForm, discovery, discovering, B!mappingForm, uses, others>>
  PROVE  /\ UNCHANGED <<saved, draft, saving, saveRequest, discovery, discovering>>
         /\ UNCHANGED <<rows, tan, mappingSaving, mappingSaved, mapRequest, uses, others>>
  BY DEF B!settingsForm, B!mappingForm

LEMMA BeginDiscoveryBank == ASSUME BankInv, B!BeginDiscovery PROVE BankInv'
  <1>1. BankTyped BY DEF BankInv
  <1>2. discoverRequest \in DiscoverRequests /\ discoverRequest.phase = "sent"
    BY <1>1, BankRequestsAre DEF B!BeginDiscovery
  <1>3. stored # None => stored.settings.identity \in Identities
    BY <1>1, BankRequestsAre DEF StoredRows, B!Settings
  <1>4. /\ discoverRequest' \in DiscoverRequests
        /\ discoverRequest'.phase \in {"running", "waiting"} => discoverRequest'.identity \in Identities
        /\ discoverRequest'.phase = "answered" => discoverRequest'.answer \in Identities \cup {"failed"}
    BY <1>2, <1>3 DEF B!BeginDiscovery, DiscoverRequests
  <1>5. /\ UNCHANGED <<saved, draft, saving, saveRequest, discovery, discovering>>
        /\ UNCHANGED <<rows, tan, mappingSaving, mappingSaved, mapRequest, uses, others>>
        /\ stored' = stored
    BY FormsRest DEF B!BeginDiscovery
  <1> QED BY <1>1, <1>2, <1>4, <1>5, DiscoveryOn DEF BankTyped

LEMMA FinishDiscoveryBank == ASSUME BankInv, B!FinishDiscovery PROVE BankInv'
  <1>1. BankTyped BY DEF BankInv
  <1>2. /\ discoverRequest \in DiscoverRequests /\ discoverRequest.phase = "running"
        /\ discoverRequest.identity \in Identities
    BY <1>1, BankRequestsAre DEF B!FinishDiscovery, BankInv, RequestsStand
  <1>3. stored' \in StoredRows \cup {None}
    BY <1>1, <1>2, DataStored DEF B!FinishDiscovery, BankTyped
  <1>4. /\ discoverRequest' \in DiscoverRequests
        /\ discoverRequest'.phase \in {"running", "waiting"} => discoverRequest'.identity \in Identities
        /\ discoverRequest'.phase = "answered" => discoverRequest'.answer \in Identities \cup {"failed"}
    BY <1>2 DEF B!FinishDiscovery, DiscoverRequests
  <1>5. /\ UNCHANGED <<saved, draft, saving, saveRequest, discovery, discovering>>
        /\ UNCHANGED <<rows, tan, mappingSaving, mappingSaved, mapRequest, uses, others>>
    BY FormsRest DEF B!FinishDiscovery
  <1> QED BY <1>2, <1>3, <1>4, <1>5, DiscoveryOn

LEMMA TanAnsweredBank == ASSUME BankInv, B!TanAnswered PROVE BankInv'
  <1>1. BankTyped BY DEF BankInv
  <1>2. /\ discoverRequest \in DiscoverRequests /\ discoverRequest.phase = "waiting"
        /\ discoverRequest.identity \in Identities
    BY <1>1, BankRequestsAre DEF B!TanAnswered, BankInv, RequestsStand
  <1>3. stored' \in StoredRows \cup {None}
    BY <1>1, <1>2, DataStored DEF B!TanAnswered, BankTyped
  <1>4. /\ discoverRequest' \in DiscoverRequests
        /\ discoverRequest'.phase \in {"running", "waiting"} => discoverRequest'.identity \in Identities
        /\ discoverRequest'.phase = "answered" => discoverRequest'.answer \in Identities \cup {"failed"}
    BY <1>2 DEF B!TanAnswered, DiscoverRequests
  <1>5. /\ UNCHANGED <<saved, draft, saving, saveRequest, discovery, discovering>>
        /\ UNCHANGED <<rows, tan, mappingSaving, mappingSaved, mapRequest, uses, others>>
    BY FormsRest DEF B!TanAnswered
  <1> QED BY <1>2, <1>3, <1>4, <1>5, DiscoveryOn

LEMMA DescribeDiscoveryBank == ASSUME BankInv, B!describeDiscovery PROVE BankInv'
  <1>1. BankTyped BY DEF BankInv
  <1>2. discoverRequest \in DiscoverRequests /\ discoverRequest.phase = "reading"
    BY <1>1, BankRequestsAre DEF B!describeDiscovery
  <1>3. stored = None \/ stored.data = None \/ stored.data \in Identities
    BY <1>1, BankRequestsAre DEF StoredRows
  <1>4. /\ discoverRequest' \in DiscoverRequests
        /\ discoverRequest'.phase \in {"running", "waiting"} => discoverRequest'.identity \in Identities
        /\ discoverRequest'.phase = "answered" => discoverRequest'.answer \in Identities \cup {"failed"}
    BY <1>2, <1>3 DEF B!describeDiscovery, DiscoverRequests
  <1>5. /\ UNCHANGED <<saved, draft, saving, saveRequest, discovery, discovering>>
        /\ UNCHANGED <<rows, tan, mappingSaving, mappingSaved, mapRequest, uses, others>>
        /\ stored' = stored
    BY FormsRest DEF B!describeDiscovery
  <1> QED BY <1>1, <1>2, <1>4, <1>5, DiscoveryOn DEF BankTyped

LEMMA DiscoveryAnsweredBank == ASSUME BankInv, B!DiscoveryAnswered PROVE BankInv'
  <1>1. BankTyped BY DEF BankInv
  <1> DEFINE found == discoverRequest.answer
  <1>2. discoverRequest.phase = "answered" /\ found \in Identities \cup {"failed"} /\ saved # None
    BY DEF B!DiscoveryAnswered, BankInv, RequestsStand
  <1>3. /\ discovering' = FALSE /\ discoverRequest' = B!Idle
        /\ UNCHANGED <<stored, saved, draft, saving, saveRequest, mappingSaving, mapRequest, uses, others>>
    BY DEF B!DiscoveryAnswered, B!settingsForm
  <1>4. CASE found = "failed"
    <2>1. UNCHANGED <<discovery, rows, tan, mappingSaved>> BY <1>4 DEF B!DiscoveryAnswered
    <2> QED BY <1>3, <2>1 DEF BankInv, BankTyped, ChoiceStands, RequestsStand, B!Idle
  <1>5. CASE found # "failed"
    <2>1. B!applyDiscovery(found) /\ found \in Identities BY <1>2, <1>5 DEF B!DiscoveryAnswered
    <2> HIDE DEF found
    <2>2. saved \in SavedRows BY <1>1, <1>2, BankRequestsAre
    <2>3. discovery' = found /\ rows' = B!mappingRowsOf(saved.accounts) /\ mappingSaved' = FALSE
      BY <2>1 DEF B!applyDiscovery
    <2>4. PICK chosen \in B!offers(found) \cup {None} :
            \E medium \in B!mediaFor(found, chosen, saved.settings.tan.medium) :
               tan' = [method |-> chosen, medium |-> medium]
      <3>1. PICK method : 
              LET ch == IF method \in B!offers(found) THEN method ELSE None IN
              \E medium \in B!mediaFor(found, ch, saved.settings.tan.medium) :
                 tan' = [method |-> ch, medium |-> medium]
        BY <2>1 DEF B!applyDiscovery
      <3> DEFINE ch == IF method \in B!offers(found) THEN method ELSE None
      <3>2. ch \in B!offers(found) \cup {None} OBVIOUS
      <3>3. \E medium \in B!mediaFor(found, ch, saved.settings.tan.medium) :
              tan' = [method |-> ch, medium |-> medium]
        BY <3>1
      <3> HIDE DEF ch
      <3> QED BY <3>2, <3>3
    <2>5. PICK medium \in B!mediaFor(found, chosen, saved.settings.tan.medium) :
            tan' = [method |-> chosen, medium |-> medium]
      BY <2>4
    <2>6. /\ tan' \in B!Tans
          /\ tan'.method # None => OfBank(found, tan')
      <3>1. B!offers(found) \subseteq Methods BY <2>1, BankConstants
      <3>2. medium \in Media \cup {None} BY <2>1, MediumFits
      <3>3. tan'.method = chosen /\ tan'.medium = medium BY <2>5
      <3>4. tan' \in B!Tans BY <2>5, <3>1, <3>2 DEF B!Tans
      <3>5. IF chosen \in Required /\ B!mediaOf(found, chosen) # {}
            THEN medium \in B!mediaOf(found, chosen) ELSE medium = None
        BY <2>1, MediumFits
      <3> QED BY <3>3, <3>4, <3>5 DEF OfBank
    <2>7. rows' \in [Accounts -> Kontos \cup {None}] /\ rows' # None
      BY <2>2, <2>3, MappingRowsAre, BankConstants DEF SavedRows
    <2>8. BankTyped' BY <1>1, <1>3, <2>1, <2>3, <2>6, <2>7 DEF BankTyped
    <2>9. ChoiceStands' BY <1>2, <1>3, <2>3, <2>6, <2>7 DEF ChoiceStands, OfBank
    <2> QED BY <1>3, <2>7, <2>8, <2>9 DEF BankInv, RequestsStand, B!Idle
  <1> QED BY <1>4, <1>5

-----------------------------------------------------------------------------
(* The bank connection dialog: the mapping form. *)

\* A choice of the form.
LEMMA ChosenBank ==
  ASSUME BankInv, UNCHANGED <<stored, saved, draft, saving, saveRequest, discovery, discovering>>,
         UNCHANGED <<discoverRequest, mappingSaving, mapRequest, uses, others>>,
         mappingSaved' \in BOOLEAN,
         tan' \in B!Tans, rows' \in [Accounts -> Kontos \cup {None}] \cup {None},
         rows # None => rows' # None,
         discovery # None /\ tan'.method # None => OfBank(discovery, tan')
  PROVE  BankInv'
  <1>1. BankTyped' BY DEF BankInv, BankTyped
  <1> QED BY <1>1 DEF BankInv, ChoiceStands, RequestsStand

LEMMA FormRests ==
  ASSUME UNCHANGED <<stored, B!settingsForm, B!discoveryForm, mappingSaving, mapRequest, uses, others>>
  PROVE  /\ UNCHANGED <<stored, saved, draft, saving, saveRequest, discovery, discovering>>
         /\ UNCHANGED <<discoverRequest, mappingSaving, mapRequest, uses, others>>
  BY DEF B!settingsForm, B!discoveryForm

LEMMA OnMethodBank == ASSUME BankInv, NEW m \in Methods, B!onMethod(m) PROVE BankInv'
  <1>1. BankTyped BY DEF BankInv
  <1>2. /\ UNCHANGED <<stored, saved, draft, saving, saveRequest, discovery, discovering>>
        /\ UNCHANGED <<discoverRequest, mappingSaving, mapRequest, uses, others>>
        /\ mappingSaved' = FALSE /\ rows' = rows /\ m \in B!offers(discovery)
        /\ discovery \in Identities
    BY <1>1, FormRests DEF B!onMethod, B!Mapping, BankTyped
  <1>3. PICK medium \in B!mediaFor(discovery, m, tan.medium) : tan' = [method |-> m, medium |-> medium]
    BY DEF B!onMethod
  <1>4. /\ medium \in Media \cup {None}
        /\ IF m \in Required /\ B!mediaOf(discovery, m) # {}
           THEN medium \in B!mediaOf(discovery, m) ELSE medium = None
    BY <1>2, MediumFits
  <1>5. tan' \in B!Tans /\ tan'.method = m /\ tan'.medium = medium BY <1>3, <1>4 DEF B!Tans
  <1>6. OfBank(discovery, tan') BY <1>2, <1>4, <1>5 DEF OfBank
  <1> QED BY <1>1, <1>2, <1>5, <1>6, ChosenBank DEF BankTyped

LEMMA OnMediaBank == ASSUME BankInv, NEW m \in Media, B!onMedia(m) PROVE BankInv'
  <1>1. BankTyped BY DEF BankInv
  <1>2. /\ UNCHANGED <<stored, saved, draft, saving, saveRequest, discovery, discovering>>
        /\ UNCHANGED <<discoverRequest, mappingSaving, mapRequest, uses, others>>
        /\ mappingSaved' = FALSE /\ rows' = rows
        /\ tan.method \in Required /\ m \in B!mediaOf(discovery, tan.method)
        /\ tan' = [tan EXCEPT !.medium = m]
    BY FormRests DEF B!onMedia
  <1>3. tan' \in B!Tans /\ tan'.method = tan.method /\ tan'.medium = m
    BY <1>1, <1>2 DEF BankTyped, B!Tans
  <1>4. tan.method \in B!offers(discovery) BY <1>2 DEF B!mediaOf
  <1>5. OfBank(discovery, tan') BY <1>2, <1>3, <1>4 DEF OfBank
  <1> QED BY <1>1, <1>2, <1>3, <1>5, ChosenBank DEF BankTyped

LEMMA UpdateRowBank ==
  ASSUME BankInv, NEW a \in Accounts, NEW k \in Kontos \cup {None}, B!updateRow(a, k) PROVE BankInv'
  <1>1. BankTyped BY DEF BankInv
  <1>2. /\ UNCHANGED <<stored, saved, draft, saving, saveRequest, discovery, discovering>>
        /\ UNCHANGED <<discoverRequest, mappingSaving, mapRequest, uses, others>>
        /\ mappingSaved' = FALSE /\ tan' = tan /\ discovery # None
        /\ rows' = [rows EXCEPT ![a] = k]
    BY FormRests DEF B!updateRow, B!Mapping
  <1>3. rows \in [Accounts -> Kontos \cup {None}]
    BY <1>1, <1>2, BankRequestsAre DEF BankInv, ChoiceStands
  <1>4. rows' \in [Accounts -> Kontos \cup {None}] /\ rows' # None BY <1>2, <1>3, BankConstants
  <1> QED BY <1>1, <1>2, <1>4, ChosenBank DEF BankTyped, BankInv, ChoiceStands

LEMMA SaveMappingBank == ASSUME BankInv, B!saveMapping PROVE BankInv'
  <1>1. BankTyped BY DEF BankInv
  <1>2. /\ discovery # None /\ mappingSaving' = TRUE /\ uses < MaxDialogUses /\ uses' = uses + 1
        /\ UNCHANGED <<stored, saved, draft, saving, saveRequest, discovery, discovering>>
        /\ UNCHANGED <<discoverRequest, rows, tan, mappingSaved, others>>
    BY DEF B!saveMapping, B!Mapping, B!settingsForm, B!discoveryForm
  <1>3. /\ rows # None /\ rows \in [Accounts -> Kontos \cup {None}]
        /\ saved \in SavedRows /\ saved.settings \in B!Settings /\ tan \in B!Tans
    BY <1>1, <1>2, BankRequestsAre DEF BankInv, ChoiceStands, SavedRows, BankTyped
  <1> DEFINE next == [saved.settings EXCEPT !.tan = tan]
             accounts == B!mappingOf(rows)
  <1>4. next \in B!Settings /\ next.tan = tan BY <1>3 DEF B!Settings
  <1>5. accounts \in B!Mappings BY <1>3, MappingIs
  <1>6. next = [saved.settings EXCEPT !.tan = next.tan] BY <1>4
  <1>7. mapRequest' = [phase |-> "accounts", of |-> saved, accounts |-> accounts,
                       next |-> next, answer |-> None]
    BY DEF B!saveMapping
  <1> HIDE DEF next, accounts
  <1>8. mapRequest' \in MapRequests BY <1>3, <1>4, <1>5, <1>7 DEF MapRequests, Outcomes
  <1>9. mapRequest'.phase # "idle"
        /\ mapRequest'.next = [mapRequest'.of.settings EXCEPT !.tan = mapRequest'.next.tan]
    BY <1>6, <1>7
  <1>10. BankTyped' BY <1>1, <1>2, <1>8, BankConstants DEF BankTyped
  <1>11. ChoiceStands' BY <1>2 DEF BankInv, ChoiceStands
  <1> QED BY <1>2, <1>3, <1>9, <1>10, <1>11 DEF BankInv, RequestsStand

\* A save of the mapping that goes on.
LEMMA MappingOn ==
  ASSUME BankInv, mapRequest.phase # "idle", stored' \in StoredRows \cup {None},
         UNCHANGED <<B!settingsForm, B!discoveryForm, rows, tan, mappingSaving, mappingSaved, uses, others>>,
         mapRequest' \in MapRequests, mapRequest'.of = mapRequest.of, mapRequest'.next = mapRequest.next
  PROVE  BankInv'
  <1>1. /\ UNCHANGED <<saved, draft, saving, saveRequest, discovery, discovering, discoverRequest>>
        /\ UNCHANGED <<rows, tan, mappingSaving, mappingSaved, uses, others>>
    BY DEF B!settingsForm, B!discoveryForm
  <1>2. mapRequest'.phase # "idle" BY DEF MapRequests
  <1>3. BankTyped' BY <1>1 DEF BankInv, BankTyped
  <1> QED BY <1>1, <1>2, <1>3 DEF BankInv, ChoiceStands, RequestsStand

LEMMA AnsweredMapping ==
  ASSUME BankTyped, mapRequest.phase # "idle", NEW answer \in Outcomes, B!Answered(answer)
  PROVE  mapRequest' \in MapRequests /\ mapRequest'.of = mapRequest.of /\ mapRequest'.next = mapRequest.next
  BY BankRequestsAre DEF B!Answered, MapRequests

LEMMA SaveAccountsBank == ASSUME BankInv, B!SaveAccounts PROVE BankInv'
  <1>1. BankTyped BY DEF BankInv
  <1>2. /\ mapRequest.phase = "accounts" /\ mapRequest \in MapRequests
        /\ UNCHANGED <<B!settingsForm, B!discoveryForm, rows, tan, mappingSaving, mappingSaved, uses, others>>
    BY <1>1, BankRequestsAre DEF B!SaveAccounts
  <1> DEFINE next == IF stored = None THEN None ELSE [stored EXCEPT !.accounts = mapRequest.accounts]
  <1>3. next \in StoredRows \cup {None}
    <2>1. stored # None => stored \in StoredRows BY <1>1, BankRequestsAre
    <2> QED BY <1>2, <2>1 DEF StoredRows, MapRequests
  <1>4. stored' \in {stored, next} BY DEF B!SaveAccounts
  <1> HIDE DEF next
  <1>5. stored' \in StoredRows \cup {None} BY <1>1, <1>3, <1>4 DEF BankTyped
  <1>6. \/ B!Answered("ok") \/ B!Answered("failed")
        \/ mapRequest' = [mapRequest EXCEPT !.phase = "settings"]
    BY DEF B!SaveAccounts
  <1>7. mapRequest' \in MapRequests /\ mapRequest'.of = mapRequest.of /\ mapRequest'.next = mapRequest.next
    <2>1. CASE mapRequest' = [mapRequest EXCEPT !.phase = "settings"] BY <1>2, <2>1 DEF MapRequests
    <2>2. "ok" \in Outcomes /\ "failed" \in Outcomes BY DEF Outcomes
    <2> QED BY <1>1, <1>2, <1>6, <2>1, <2>2, AnsweredMapping
  <1> QED BY <1>2, <1>5, <1>7, MappingOn

LEMMA SaveTanBank == ASSUME BankInv, B!SaveTan PROVE BankInv'
  <1>1. BankTyped BY DEF BankInv
  <1>2. /\ mapRequest.phase = "settings" /\ mapRequest \in MapRequests
        /\ UNCHANGED <<B!settingsForm, B!discoveryForm, rows, tan, mappingSaving, mappingSaved, uses, others>>
    BY <1>1, BankRequestsAre DEF B!SaveTan
  <1> DEFINE result == B!ToStored(mapRequest.of.settings, mapRequest.next)
  <1>3. result[1] \in StoredRows \cup {None} /\ result[2] \in {"ok", "not-found", "conflict"}
    BY <1>1, <1>2, ToStoredIs DEF MapRequests
  <1>4. stored' \in {stored, result[1]} /\ (B!Answered(result[2]) \/ B!Answered("failed"))
    BY DEF B!SaveTan
  <1> HIDE DEF result
  <1>5. stored' \in StoredRows \cup {None} BY <1>1, <1>3, <1>4 DEF BankTyped
  <1>6. result[2] \in Outcomes /\ "failed" \in Outcomes BY <1>3 DEF Outcomes
  <1>7. mapRequest' \in MapRequests /\ mapRequest'.of = mapRequest.of /\ mapRequest'.next = mapRequest.next
    BY <1>1, <1>2, <1>4, <1>6, AnsweredMapping
  <1> QED BY <1>2, <1>5, <1>7, MappingOn

LEMMA MappingAnsweredBank == ASSUME BankInv, B!MappingAnswered PROVE BankInv'
  <1>1. BankTyped BY DEF BankInv
  <1>2. /\ mapRequest.phase = "answered" /\ mapRequest \in MapRequests /\ rows # None
        /\ rows \in [Accounts -> Kontos \cup {None}]
    BY <1>1, BankRequestsAre DEF B!MappingAnswered, BankInv, RequestsStand
  <1> DEFINE new == [settings |-> mapRequest.next, accounts |-> B!mappingOf(rows)]
  <1>3. new \in SavedRows
    <2>1. B!mappingOf(rows) \in B!Mappings BY <1>2, MappingIs
    <2> QED BY <1>2, <2>1 DEF SavedRows, MapRequests
  <1>4. saved' = IF mapRequest.answer = "ok" THEN new ELSE saved BY DEF B!MappingAnswered
  <1> HIDE DEF new
  <1>5. saved' \in SavedRows \cup {None} /\ (saved # None => saved' # None)
    BY <1>1, <1>3, <1>4, BankConstants DEF BankTyped
  <1>6. /\ mappingSaving' = FALSE /\ mapRequest' = B!Idle /\ mappingSaved' \in {TRUE, mappingSaved}
        /\ UNCHANGED <<stored, draft, saving, saveRequest, discovery, discovering, discoverRequest>>
        /\ UNCHANGED <<rows, tan, uses, others>>
    BY DEF B!MappingAnswered, B!discoveryForm
  <1>7. BankTyped' BY <1>1, <1>5, <1>6 DEF BankTyped
  <1>8. ChoiceStands' BY <1>5, <1>6 DEF BankInv, ChoiceStands
  <1> QED BY <1>5, <1>6, <1>7, <1>8 DEF BankInv, RequestsStand, B!Idle

LEMMA OtherTabBank == ASSUME BankInv, B!OtherTab PROVE BankInv'
  <1>1. BankTyped BY DEF BankInv
  <1>2. /\ stored # None /\ stored \in StoredRows /\ others < MaxOthers /\ others' = others + 1
        /\ UNCHANGED <<saved, draft, saving, saveRequest, discovery, discovering, discoverRequest>>
        /\ UNCHANGED <<rows, tan, mappingSaving, mappingSaved, mapRequest, uses>>
    BY <1>1, BankRequestsAre DEF B!OtherTab, B!settingsForm, B!discoveryForm, B!mappingForm
  <1>3. stored' \in StoredRows \cup {None}
    <2>1. ASSUME NEW i \in Identities, NEW l \in Labels,
                 stored' = B!ToStored(stored.settings, [stored.settings EXCEPT !.identity = i, !.label = l])[1]
          PROVE  stored' \in StoredRows \cup {None}
      <3> DEFINE next == [stored.settings EXCEPT !.identity = i, !.label = l]
      <3>1. next \in B!Settings BY <1>2 DEF StoredRows, B!Settings
      <3> HIDE DEF next
      <3>2. B!ToStored(stored.settings, next)[1] \in StoredRows \cup {None} BY <1>1, <3>1, ToStoredIs
      <3> QED BY <2>1, <3>2 DEF next
    <2>2. ASSUME NEW m \in B!Mappings, stored' = [stored EXCEPT !.accounts = m]
          PROVE  stored' \in StoredRows \cup {None}
      BY <1>2, <2>2 DEF StoredRows
    <2> QED BY <2>1, <2>2 DEF B!OtherTab
  <1>4. BankTyped' BY <1>1, <1>2, <1>3, BankConstants DEF BankTyped
  <1> QED BY <1>2, <1>4 DEF BankInv, ChoiceStands, RequestsStand

LEMMA NextBank == BankInv /\ [B!Next]_B!vars => BankInv'
  <1> SUFFICES ASSUME BankInv, [B!Next]_B!vars PROVE BankInv' OBVIOUS
  <1>1. CASE UNCHANGED B!vars
    <2>1. /\ UNCHANGED <<stored, saved, draft, saving, saveRequest, discovery, discovering, discoverRequest>>
          /\ UNCHANGED <<rows, tan, mappingSaving, mappingSaved, mapRequest, uses, others>>
      BY <1>1 DEF B!vars, B!settingsForm, B!discoveryForm, B!mappingForm
    <2> QED BY <2>1 DEF BankInv, BankTyped, ChoiceStands, RequestsStand
  <1> QED BY <1>1, EditBank, SaveConnectionBank, CancelSaveBank, EnterKeyBank, PerformSaveBank,
             SaveAnsweredBank, DiscoverBank, AnswerPromptBank, BeginDiscoveryBank, FinishDiscoveryBank,
             TanAnsweredBank, DescribeDiscoveryBank, DiscoveryAnsweredBank, OnMethodBank, OnMediaBank,
             UpdateRowBank, SaveMappingBank, SaveAccountsBank, SaveTanBank, MappingAnsweredBank,
             OtherTabBank
          DEF B!Next

-----------------------------------------------------------------------------
(* The bank connection dialog: what the invariant says. *)

LEMMA BankTypes == ASSUME BankInv PROVE B!TypeOK
  <1>1. BankTyped BY DEF BankInv
  <1>2. /\ saveRequest.phase \in {"idle", "asking", "sent", "answered"}
        /\ mapRequest.phase \in {"idle", "accounts", "settings", "answered"}
        /\ discoverRequest.phase \in
             {"idle", "asking", "sent", "running", "answered", "waiting", "reading"}
    BY <1>1 DEF BankTyped, SaveRequests, DiscoverRequests, MapRequests, B!Idle
  <1> QED BY <1>1, <1>2 DEF BankTyped, StoredRows, SavedRows, B!TypeOK

LEMMA BankDialogsSound == ASSUME BankInv PROVE B!BankDialogSound
  BY DEF BankInv, ChoiceStands, RequestsStand, OfBank, B!BankDialogSound

\* The settings of the row change by a save that was made from them, or by another tab.
LEMMA SettingsKept ==
  ASSUME BankInv, B!Next, stored # None, stored' # None, others' = others,
         stored'.settings # stored.settings
  PROVE  \/ /\ saveRequest.phase = "sent"
            /\ saveRequest.of # None => saveRequest.of.settings = stored.settings
         \/ /\ mapRequest.phase = "settings" /\ mapRequest.of.settings = stored.settings
            /\ stored'.settings = [stored.settings EXCEPT !.tan = mapRequest.next.tan]
  <1>1. BankTyped BY DEF BankInv
  <1>2. stored \in StoredRows /\ stored' # stored BY <1>1, BankRequestsAre
  <1>3. ASSUME B!PerformSave
        PROVE  /\ saveRequest.phase = "sent"
               /\ saveRequest.of # None => saveRequest.of.settings = stored.settings
    <2>1. saveRequest.phase = "sent" /\ saveRequest.next \in B!Settings
      BY <1>1, <1>3, BankRequestsAre DEF B!PerformSave, SaveRequests
    <2>2. ASSUME saveRequest.of # None PROVE saveRequest.of.settings = stored.settings
      <3>1. stored' \in {stored, B!ToStored(saveRequest.of.settings, saveRequest.next)[1]}
        BY <1>3, <2>2 DEF B!PerformSave
      <3> QED BY <1>1, <1>2, <2>1, <3>1, ToStoredIs
    <2> QED BY <2>1, <2>2
  <1>4. ASSUME B!SaveTan
        PROVE  /\ mapRequest.phase = "settings" /\ mapRequest.of.settings = stored.settings
               /\ stored'.settings = [stored.settings EXCEPT !.tan = mapRequest.next.tan]
    <2>1. mapRequest.phase = "settings" /\ mapRequest.next \in B!Settings
      BY <1>1, <1>4, BankRequestsAre DEF B!SaveTan, MapRequests
    <2>2. stored' \in {stored, B!ToStored(mapRequest.of.settings, mapRequest.next)[1]}
      BY <1>4 DEF B!SaveTan
    <2>3. stored.settings = mapRequest.of.settings /\ stored'.settings = mapRequest.next
      BY <1>1, <1>2, <2>1, <2>2, ToStoredIs
    <2>4. mapRequest.next = [mapRequest.of.settings EXCEPT !.tan = mapRequest.next.tan]
      BY <2>1 DEF BankInv, RequestsStand
    <2> QED BY <2>1, <2>3, <2>4
  <1>5. ~B!SaveAccounts
    BY <1>2 DEF B!SaveAccounts, StoredRows
  <1>6. ~B!FinishDiscovery /\ ~B!TanAnswered
    BY <1>2 DEF B!FinishDiscovery, B!TanAnswered, B!StoreData, StoredRows
  <1>7. ~B!OtherTab
    <2>1. others \in Nat BY <1>1, BankConstants DEF BankTyped
    <2>2. others' # others + 1 BY <2>1
    <2> QED BY <2>2 DEF B!OtherTab
  <1>8. \A d : ~B!Edit(d) BY <1>2 DEF B!Edit
  <1>9. ~B!saveConnection /\ ~B!CancelSave /\ ~B!EnterKey /\ ~B!SaveAnswered
    BY <1>2 DEF B!saveConnection, B!CancelSave, B!EnterKey, B!SaveAnswered
  <1>10. ~B!discover /\ ~B!AnswerPrompt /\ ~B!BeginDiscovery /\ ~B!describeDiscovery /\ ~B!DiscoveryAnswered
    BY <1>2 DEF B!discover, B!AnswerPrompt, B!BeginDiscovery, B!describeDiscovery, B!DiscoveryAnswered
  <1>11. /\ \A m : ~B!onMethod(m) /\ ~B!onMedia(m)
         /\ \A a, k : ~B!updateRow(a, k)
         /\ ~B!saveMapping /\ ~B!MappingAnswered
    BY <1>2 DEF B!onMethod, B!onMedia, B!updateRow, B!saveMapping, B!MappingAnswered
  <1> QED BY <1>3, <1>4, <1>5, <1>6, <1>7, <1>8, <1>9, <1>10, <1>11 DEF B!Next

-----------------------------------------------------------------------------
(* What is proved of UserPools and TransactionEdits in modules of their own holds *)
(* of their instances here.                                                       *)

PP == INSTANCE UserPoolsProofs
TT == INSTANCE TransactionEditsProofs

LEMMA PoolsProved ==
  /\ P!Init => PP!PoolsInv
  /\ PP!PoolsInv /\ [P!Next]_P!vars => PP!PoolsInv'
  /\ PP!PoolsInv => P!TypeOK /\ P!PoolReady /\ P!OldPoolsEnded /\ P!WaitsForSetup
  <1>1. P!ConstantsFit <=> PP!ConstantsFit
    BY Zenon DEF P!ConstantsFit, PP!ConstantsFit
  <1>2. P!Init <=> PP!Init
    BY Zenon DEF P!Init, PP!Init, P!OldTables, PP!OldTables, P!NoTables, PP!NoTables, P!Idle,
                 PP!Idle
  <1>3. P!Next <=> PP!Next
    BY Zenon DEF P!Next, PP!Next, P!acquire, PP!acquire, P!ReadRow, PP!ReadRow, P!Refused,
                 PP!Refused, P!TakeCached, PP!TakeCached, P!CreatePool, PP!CreatePool, P!Finish,
                 PP!Finish, P!SetupQuery, PP!SetupQuery, P!SetupClashes, PP!SetupClashes,
                 P!QueryFails, PP!QueryFails, P!saveAppUserDatabase, PP!saveAppUserDatabase,
                 P!InvalidateAfterSave, PP!InvalidateAfterSave, P!Restart, PP!Restart,
                 P!invalidate, PP!invalidate, P!Idle, PP!Idle, P!ensure, PP!ensure,
                 P!Cardinality, PP!Cardinality, P!Ended, PP!Ended, P!Pool, PP!Pool, P!Following,
                 PP!Following, P!Running, PP!Running, P!Clashes, PP!Clashes, P!After, PP!After,
                 P!Settled, PP!Settled, P!FailSetup, PP!FailSetup, P!IsFiniteSet,
                 PP!IsFiniteSet, P!Waiting, PP!Waiting
  <1>4. P!vars = PP!vars /\ P!vars' = PP!vars'
    BY Zenon DEF P!vars, PP!vars
  <1>5. P!TypeOK <=> PP!TypeOK
    BY Zenon DEF P!TypeOK, PP!TypeOK, P!Cardinality, PP!Cardinality, P!Steps, PP!Steps,
                 P!IsFiniteSet, PP!IsFiniteSet
  <1>6. P!PoolReady <=> PP!PoolReady
    BY Zenon DEF P!PoolReady, PP!PoolReady
  <1>7. P!OldPoolsEnded <=> PP!OldPoolsEnded
    BY Zenon DEF P!OldPoolsEnded, PP!OldPoolsEnded
  <1>8. P!WaitsForSetup <=> PP!WaitsForSetup
    BY Zenon DEF P!WaitsForSetup, PP!WaitsForSetup, P!Running, PP!Running
  <1>9. PP!ConstantsFit BY <1>1, PartsFit
  <1>10. P!Init => PP!PoolsInv BY <1>2, <1>9, PP!InitPools
  <1>11. PP!PoolsInv /\ [P!Next]_P!vars => PP!PoolsInv' BY <1>3, <1>4, <1>9, PP!NextPools
  <1>12. PP!PoolsInv => P!TypeOK /\ P!PoolReady /\ P!OldPoolsEnded /\ P!WaitsForSetup
    BY <1>5, <1>6, <1>7, <1>8, <1>9, PP!PoolsTyped, PP!PoolsInvSuffices
  <1> QED BY <1>10, <1>11, <1>12

LEMMA RowsProved ==
  /\ T!Init => TT!OrderInv
  /\ TT!OrderInv /\ [T!Next]_T!vars => TT!OrderInv'
  /\ TT!OrderInv => T!TypeOK /\ T!ScreenFits /\ T!NoWaitCycle
  <1>1. T!ConstantsFit <=> TT!ConstantsFit
    BY Zenon DEF T!ConstantsFit, TT!ConstantsFit, T!IsFiniteSet, TT!IsFiniteSet, T!Value,
                 TT!Value, T!OptionalCategory, TT!OptionalCategory
  <1>2. T!Init <=> TT!Init
    BY Zenon DEF T!Init, TT!Init, T!Value, TT!Value, T!Closed, TT!Closed, T!Idle, TT!Idle,
                 T!OptionalCategory, TT!OptionalCategory
  <1>3. T!Next <=> TT!Next
    BY Zenon DEF T!Next, TT!Next, T!Reload, TT!Reload, T!OpenDialog, TT!OpenDialog, T!Cancel,
                 TT!Cancel, T!OptionalCategory, TT!OptionalCategory, T!SaveTransaction,
                 TT!SaveTransaction, T!AssignCategory, TT!AssignCategory, T!UpdateTransaction,
                 TT!UpdateTransaction, T!AssignItem, TT!AssignItem, T!EndAssign, TT!EndAssign,
                 T!FailRequest, TT!FailRequest, T!LoseAnswer, TT!LoseAnswer, T!ReceiveAnswer,
                 TT!ReceiveAnswer, T!RemoveRow, TT!RemoveRow, T!Live, TT!Live, T!Closed,
                 TT!Closed, T!Phase, TT!Phase, T!Cardinality, TT!Cardinality, T!MayCancel,
                 TT!MayCancel, T!locked, TT!locked, T!DialogRows, TT!DialogRows, T!Changed,
                 TT!Changed, T!Send, TT!Send, T!initialId, TT!initialId, T!Matches, TT!Matches,
                 T!Commit, TT!Commit, T!Refuse, TT!Refuse, T!NextItems, TT!NextItems, T!Release,
                 TT!Release, T!Saved, TT!Saved, T!NotSaved, TT!NotSaved, T!Idle, TT!Idle,
                 T!Outdated, TT!Outdated, T!Superseded, TT!Superseded, T!IsFiniteSet,
                 TT!IsFiniteSet, T!normalizeComment, TT!normalizeComment, T!After, TT!After,
                 T!toSaveError, TT!toSaveError
  <1>4. T!vars = TT!vars /\ T!vars' = TT!vars'
    BY Zenon DEF T!vars, TT!vars, T!screen, TT!screen
  <1>5. T!TypeOK <=> TT!TypeOK
    BY Zenon DEF T!TypeOK, TT!TypeOK, T!Value, TT!Value, T!DialogRows, TT!DialogRows, T!Phase,
                 TT!Phase, T!OptionalCategory, TT!OptionalCategory
  <1>6. T!ScreenFits <=> TT!ScreenFits
    BY Zenon DEF T!ScreenFits, TT!ScreenFits
  <1>7. T!NoWaitCycle <=> TT!NoWaitCycle
    BY Zenon DEF T!NoWaitCycle, TT!NoWaitCycle, T!WaitsFor, TT!WaitsFor, T!Phase, TT!Phase,
                 T!NextItems, TT!NextItems
  <1>8. TT!ConstantsFit BY <1>1, PartsFit
  <1>9. T!Init => TT!OrderInv BY <1>2, <1>8, TT!InitOrder
  <1>10. TT!OrderInv /\ [T!Next]_T!vars => TT!OrderInv' BY <1>3, <1>4, <1>8, TT!NextOrder
  <1>11. TT!OrderInv => TT!EditsInv BY DEF TT!OrderInv
  <1>12. TT!EditsInv => TT!ScreenFits BY DEF TT!EditsInv, TT!Fits, TT!ScreenFitsOf, TT!ScreenFits
  <1>13. TT!OrderInv => T!TypeOK /\ T!ScreenFits /\ T!NoWaitCycle
    BY <1>5, <1>6, <1>7, <1>8, <1>11, <1>12, TT!ValueTypes, TT!OrderSuffices
  <1> QED BY <1>9, <1>10, <1>13

LEMMA RowsKept ==
  ASSUME TT!OrderInv, [T!Next]_T!vars
  PROVE  /\ [\A r \in Rows : T!Changes(r) =>
               \E t \in Tabs : /\ T!Phase(t) = "sent"
                               /\ r \in request[t].rows
                               /\ db[r] = request[t].opened[r]]_db
         /\ [\A t \in Tabs : T!Phase(t) = "sent" /\ request[t].kind = "assign"
               /\ request'[t].phase = "answered" =>
             IF request'[t].answer = "ok"
             THEN \A r \in request[t].rows :
                     db'[r] # None /\ db'[r].category = request[t].next.category
             ELSE db' = db]_<<db, request>>
  <1>1. T!ConstantsFit <=> TT!ConstantsFit
    BY Zenon DEF T!ConstantsFit, TT!ConstantsFit, T!IsFiniteSet, TT!IsFiniteSet, T!Value,
                 TT!Value, T!OptionalCategory, TT!OptionalCategory
  <1>2. T!Next <=> TT!Next
    BY Zenon DEF T!Next, TT!Next, T!Reload, TT!Reload, T!OpenDialog, TT!OpenDialog, T!Cancel,
                 TT!Cancel, T!OptionalCategory, TT!OptionalCategory, T!SaveTransaction,
                 TT!SaveTransaction, T!AssignCategory, TT!AssignCategory, T!UpdateTransaction,
                 TT!UpdateTransaction, T!AssignItem, TT!AssignItem, T!EndAssign, TT!EndAssign,
                 T!FailRequest, TT!FailRequest, T!LoseAnswer, TT!LoseAnswer, T!ReceiveAnswer,
                 TT!ReceiveAnswer, T!RemoveRow, TT!RemoveRow, T!Live, TT!Live, T!Closed,
                 TT!Closed, T!Phase, TT!Phase, T!Cardinality, TT!Cardinality, T!MayCancel,
                 TT!MayCancel, T!locked, TT!locked, T!DialogRows, TT!DialogRows, T!Changed,
                 TT!Changed, T!Send, TT!Send, T!initialId, TT!initialId, T!Matches, TT!Matches,
                 T!Commit, TT!Commit, T!Refuse, TT!Refuse, T!NextItems, TT!NextItems, T!Release,
                 TT!Release, T!Saved, TT!Saved, T!NotSaved, TT!NotSaved, T!Idle, TT!Idle,
                 T!Outdated, TT!Outdated, T!Superseded, TT!Superseded, T!IsFiniteSet,
                 TT!IsFiniteSet, T!normalizeComment, TT!normalizeComment, T!After, TT!After,
                 T!toSaveError, TT!toSaveError
  <1>3. T!vars = TT!vars /\ T!vars' = TT!vars'
    BY Zenon DEF T!vars, TT!vars, T!screen, TT!screen
  <1>4. TT!ConstantsFit /\ [TT!Next]_TT!vars /\ TT!EditsInv
    BY <1>1, <1>2, <1>3, PartsFit DEF TT!OrderInv
  <1>5. \A r : T!Changes(r) <=> TT!Changes(r) BY Zenon DEF T!Changes, TT!Changes
  <1>6. \A t : T!Phase(t) = TT!Phase(t) BY DEF T!Phase, TT!Phase
  <1>7. [\A r \in Rows : TT!Changes(r) =>
           \E t \in Tabs : /\ TT!Phase(t) = "sent"
                           /\ r \in request[t].rows
                           /\ db[r] = request[t].opened[r]]_db
    BY <1>4, TT!NoStepLoses
  <1>8. ASSUME <<db, request>>' # <<db, request>>, NEW t \in Tabs,
               TT!Phase(t) = "sent", request[t].kind = "assign", request'[t].phase = "answered"
        PROVE  TT!Whole(t)
    <2>1. TT!Next BY <1>4, <1>8 DEF TT!vars
    <2> QED BY <1>4, <1>8, <2>1, TT!NoStepHalves
  <1>9. [\A t \in Tabs : T!Phase(t) = "sent" /\ request[t].kind = "assign"
           /\ request'[t].phase = "answered" => TT!Whole(t)]_<<db, request>>
    BY <1>6, <1>8
  <1> QED BY <1>5, <1>6, <1>7, <1>9 DEF TT!Whole

-----------------------------------------------------------------------------
(* All parts together. *)

Parts == {"transactions", "categories", "taxSections", "pools", "bankDialog"}

\* What holds of the part the behaviour is about.
SuiteInv ==
  /\ part \in Parts
  /\ part = "transactions" => TT!OrderInv
  /\ part = "categories" => TreeInv
  /\ part = "taxSections" => TaxInv
  /\ part = "pools" => PP!PoolsInv
  /\ part = "bankDialog" => BankInv

LEMMA InitParts == Init => SuiteInv
  <1> SUFFICES ASSUME Init PROVE SuiteInv OBVIOUS
  <1>1. CASE part = "transactions" BY <1>1, RowsProved DEF Init, SuiteInv, Parts
  <1>2. CASE part = "categories" BY <1>2, InitTree DEF Init, SuiteInv, Parts
  <1>3. CASE part = "taxSections" BY <1>3, InitTax DEF Init, SuiteInv, Parts
  <1>4. CASE part = "pools" BY <1>4, PoolsProved DEF Init, SuiteInv, Parts
  <1>5. CASE part = "bankDialog" BY <1>5, InitBank DEF Init, SuiteInv, Parts
  <1> QED BY <1>1, <1>2, <1>3, <1>4, <1>5 DEF Init

\* A step of the suite is one of the part it is about, and the rest stands still.
LEMMA StepsOfParts ==
  ASSUME [Next]_vars
  PROVE  /\ part' = part
         /\ part = "transactions" => [T!Next]_T!vars /\ UNCHANGED <<tree, tags, stored>>
         /\ part = "categories" => [C!Next]_C!vars /\ UNCHANGED <<db, request, stored>>
         /\ part = "taxSections" =>
               [X!Next]_X!vars /\ UNCHANGED <<db, request, tree, tags, stored>>
         /\ part = "pools" => [P!Next]_P!vars /\ UNCHANGED <<db, request, tree, tags, stored>>
         /\ part = "bankDialog" => [B!Next]_B!vars /\ UNCHANGED <<db, request, tree, tags>>
  <1> USE DEF screenVars, treeVars, taxVars, poolVars, bankVars
  <1>1. CASE UNCHANGED vars
    <2>1. UNCHANGED <<part, uses, db, screenVars, treeVars, taxVars, poolVars, bankVars>>
      BY <1>1 DEF vars
    <2>2. UNCHANGED T!vars /\ UNCHANGED C!vars BY <2>1 DEF T!vars, T!screen, C!vars, C!screen
    <2>3. UNCHANGED X!vars BY <2>1 DEF X!vars
    <2>4. UNCHANGED P!vars BY <2>1 DEF P!vars
    <2>5. UNCHANGED B!vars
      BY <2>1 DEF B!vars, B!settingsForm, B!discoveryForm, B!mappingForm
    <2> QED BY <2>1, <2>2, <2>3, <2>4, <2>5
  <1>2. CASE Next BY <1>2 DEF Next
  <1> QED BY <1>1, <1>2

LEMMA NextParts == SuiteInv /\ [Next]_vars => SuiteInv'
  <1> SUFFICES ASSUME SuiteInv, [Next]_vars PROVE SuiteInv' OBVIOUS
  <1>1. part' = part /\ part \in Parts BY StepsOfParts DEF SuiteInv
  <1>2. CASE part = "transactions" BY <1>1, <1>2, StepsOfParts, RowsProved DEF SuiteInv
  <1>3. CASE part = "categories" BY <1>1, <1>3, StepsOfParts, NextTree DEF SuiteInv
  <1>4. CASE part = "taxSections" BY <1>1, <1>4, StepsOfParts, NextTax DEF SuiteInv
  <1>5. CASE part = "pools" BY <1>1, <1>5, StepsOfParts, PoolsProved DEF SuiteInv
  <1>6. CASE part = "bankDialog" BY <1>1, <1>6, StepsOfParts, NextBank DEF SuiteInv
  <1> QED BY <1>1, <1>2, <1>3, <1>4, <1>5, <1>6 DEF Parts

LEMMA AlwaysParts == Spec => []SuiteInv
  BY InitParts, NextParts, PTL DEF Spec

LEMMA PartsTyped == SuiteInv => TypeOK
  <1> SUFFICES ASSUME SuiteInv PROVE TypeOK OBVIOUS
  <1>1. CASE part = "transactions" BY <1>1, RowsProved DEF SuiteInv, TypeOK
  <1>2. CASE part = "categories" BY <1>2, TreeTypes DEF SuiteInv, TypeOK
  <1>3. CASE part = "taxSections" BY <1>3, TaxTypes DEF SuiteInv, TypeOK
  <1>4. CASE part = "pools" BY <1>4, PoolsProved DEF SuiteInv, TypeOK
  <1>5. CASE part = "bankDialog" BY <1>5, BankTypes DEF SuiteInv, TypeOK
  <1> QED BY <1>1, <1>2, <1>3, <1>4, <1>5 DEF SuiteInv, Parts

LEMMA PartsFitScreens == SuiteInv => ScreensFit
  <1> SUFFICES ASSUME SuiteInv PROVE ScreensFit OBVIOUS
  <1>1. CASE part = "transactions" BY <1>1, RowsProved DEF SuiteInv, ScreensFit
  <1>2. CASE part = "categories" BY <1>2, TabsShowTree DEF SuiteInv, ScreensFit
  <1>3. CASE part = "taxSections" BY <1>3, TabsShowSections DEF SuiteInv, ScreensFit
  <1>4. CASE part \in {"pools", "bankDialog"} BY <1>4 DEF ScreensFit
  <1> QED BY <1>1, <1>2, <1>3, <1>4 DEF SuiteInv, Parts

LEMMA PartsKeepEdits ==
  ASSUME SuiteInv, [Next]_vars
  PROVE  /\ [\A r \in Rows : T!Changes(r) =>
               \E t \in Tabs : /\ T!Phase(t) = "sent"
                               /\ r \in request[t].rows
                               /\ db[r] = request[t].opened[r]]_db
         /\ [\A id \in DOMAIN tree : tree'[id] # tree[id] \/ tags'[id] # tags[id] =>
               \E q \in C!Saves :
                  /\ C!Phase(q) = "checking" /\ treeRequest[q].id = id
                  /\ tree[id] = treeRequest[q].expected /\ tags[id] = treeRequest[q].tag.expected
                  /\ tree'[id] = treeRequest[q].next /\ tags'[id] = treeRequest[q].tag.next
                  /\ ~treeRequest[q].orphan =>
                       treeDialog[q[1]].saving /\ tree[id] = treeDialog[q[1]].opened]_<<tree, tags>>
         /\ [stored # None /\ stored' # None /\ others' = others
               /\ stored'.settings # stored.settings =>
               \/ /\ saveRequest.phase = "sent"
                  /\ saveRequest.of # None => saveRequest.of.settings = stored.settings
               \/ /\ mapRequest.phase = "settings" /\ mapRequest.of.settings = stored.settings
                  /\ stored'.settings
                       = [stored.settings EXCEPT !.tan = mapRequest.next.tan]]_stored
  <1>1. part = "transactions" \/ UNCHANGED db BY StepsOfParts DEF SuiteInv, Parts
  <1>2. part = "categories" \/ UNCHANGED <<tree, tags>> BY StepsOfParts DEF SuiteInv, Parts
  <1>3. part = "bankDialog" \/ UNCHANGED stored BY StepsOfParts DEF SuiteInv, Parts
  <1>4. CASE part = "transactions"
    <2>1. TT!OrderInv /\ [T!Next]_T!vars BY <1>4, StepsOfParts DEF SuiteInv
    <2> QED BY <1>2, <1>3, <1>4, <2>1, RowsKept
  <1>5. CASE part = "categories"
    <2>1. TreeInv /\ [C!Next]_C!vars BY <1>5, StepsOfParts DEF SuiteInv
    <2>2. C!Next \/ UNCHANGED <<tree, tags>> BY <2>1 DEF C!vars
    <2> QED BY <1>1, <1>3, <1>5, <2>1, <2>2, CategoryKept
  <1>6. CASE part = "bankDialog"
    <2>1. BankInv /\ [B!Next]_B!vars BY <1>6, StepsOfParts DEF SuiteInv
    <2>2. B!Next \/ UNCHANGED stored BY <2>1 DEF B!vars
    <2> QED BY <1>1, <1>2, <1>6, <2>1, <2>2, SettingsKept
  <1> QED BY <1>1, <1>2, <1>3, <1>4, <1>5, <1>6

\* Only the transactions' part assigns.
LEMMA PartsAssignWhole ==
  ASSUME SuiteInv, [Next]_vars
  PROVE  [\A t \in Tabs : T!Phase(t) = "sent" /\ request[t].kind = "assign"
            /\ request'[t].phase = "answered" =>
          IF request'[t].answer = "ok"
          THEN \A r \in request[t].rows :
                  db'[r] # None /\ db'[r].category = request[t].next.category
          ELSE db' = db]_<<db, request>>
  <1>1. CASE part = "transactions"
    <2>1. TT!OrderInv /\ [T!Next]_T!vars BY <1>1, StepsOfParts DEF SuiteInv
    <2> QED BY <2>1, RowsKept
  <1>2. CASE part \in Parts \ {"transactions"}
    <2>1. UNCHANGED <<db, request>> BY <1>2, StepsOfParts DEF Parts
    <2> QED BY <2>1
  <1> QED BY <1>1, <1>2 DEF SuiteInv

-----------------------------------------------------------------------------
(* The theorems. *)

\* Type correctness of the five parts.
THEOREM EditTypesCorrect == Spec => []TypeOK
  BY AlwaysParts, PartsTyped, PTL

\* What a tab shows of transactions, categories, tags and tax sections is what is stored,
\* unless it changed after the tab read or saved it, or an answer of the tab's own is still to
\* come or came too late: the stores change their lists in place after a save exactly as the
\* database changed, whatever answers are lost and whichever page is left meanwhile. Saves of
\* pages that were left and the loads of a page and its dialog go on beside the next one's; of
\* two answers that are on their way together the older one may come last, and what it
\* overwrites (TaxTagsService.applySaved, TaxSectionsService.load) is outside the claim.
THEOREM ScreensShowStored == Spec => []ScreensFit
  BY AlwaysParts, PartsFitScreens, PTL

\* No two category moves form a cycle together, in the database or in what a tab shows,
\* since updateCategory checks the tree it has locked; and no two bulk assignments wait for
\* each other's rows, since assignCategory takes them in ascending order.
THEOREM LocksCorrect == Spec => []LocksSuffice
  <1>1. SuiteInv => LocksSuffice
    BY RowsProved, NoneIsItsOwnAncestor DEF SuiteInv, LocksSuffice
  <1> QED BY <1>1, AlwaysParts, PTL

\* The tax section dialog and the bank connection dialog never come to a state their own
\* handlers do not expect: a busy sign always has its request, an error its row, and the TAN
\* choice is one the bank offers, complete unless the bank names no medium for it (the
\* callbacks of both dialogs, a discovery that waits for a TAN included).
THEOREM DialogsCorrect == Spec => []DialogsSound
  <1>1. SuiteInv => DialogsSound
    BY TaxDialogsSound, BankDialogsSound DEF SuiteInv, DialogsSound
  <1> QED BY <1>1, AlwaysParts, PTL

\* A lookup that succeeds has a pool on the settings it read or newer ones with all tables in
\* place; the cached pool is open and every other pool of the user is ended, so that lookup's
\* pool is open exactly as long as it is the cached one; and no lookup waits for a setup that
\* nobody runs (db/user-pools.ts).
THEOREM PoolsStaySound == Spec => []PoolsSound
  <1>1. SuiteInv => PoolsSound BY PoolsProved DEF SuiteInv, PoolsSound
  <1> QED BY <1>1, AlwaysParts, PTL

\* No edit is lost: a transaction, a category with its tag and a bank connection's settings
\* are each only overwritten by a save that was made from what it overwrites (the guarded
\* updates of umsatz.ts, umsatztyp.ts and bank-connection.ts, with the expected values the
\* dialogs send).
THEOREM EditsKept == Spec => NoLostEdit
  <1>1. SuiteInv /\ [Next]_vars =>
          [\A r \in Rows : T!Changes(r) =>
             \E t \in Tabs : /\ T!Phase(t) = "sent"
                             /\ r \in request[t].rows
                             /\ db[r] = request[t].opened[r]]_db
    BY PartsKeepEdits
  <1>2. SuiteInv /\ [Next]_vars =>
          [\A id \in DOMAIN tree : tree'[id] # tree[id] \/ tags'[id] # tags[id] =>
             \E q \in C!Saves :
                /\ C!Phase(q) = "checking" /\ treeRequest[q].id = id
                /\ tree[id] = treeRequest[q].expected /\ tags[id] = treeRequest[q].tag.expected
                /\ tree'[id] = treeRequest[q].next /\ tags'[id] = treeRequest[q].tag.next
                /\ ~treeRequest[q].orphan =>
                     treeDialog[q[1]].saving /\ tree[id] = treeDialog[q[1]].opened]_<<tree, tags>>
    BY PartsKeepEdits
  <1>3. SuiteInv /\ [Next]_vars =>
          [stored # None /\ stored' # None /\ others' = others
             /\ stored'.settings # stored.settings =>
             \/ /\ saveRequest.phase = "sent"
                /\ saveRequest.of # None => saveRequest.of.settings = stored.settings
             \/ /\ mapRequest.phase = "settings" /\ mapRequest.of.settings = stored.settings
                /\ stored'.settings
                     = [stored.settings EXCEPT !.tan = mapRequest.next.tan]]_stored
    BY PartsKeepEdits
  <1>4. Spec => T!NoLostUpdate BY <1>1, AlwaysParts, PTL DEF Spec, T!NoLostUpdate
  <1>5. Spec => C!NoLostCategoryEdit BY <1>2, AlwaysParts, PTL DEF Spec, C!NoLostCategoryEdit
  <1>6. Spec => B!NoLostSettings BY <1>3, AlwaysParts, PTL DEF Spec, B!NoLostSettings
  <1> QED BY <1>4, <1>5, <1>6, PTL DEF NoLostEdit

\* A bulk assignment gives all its transactions the category or changes none of them
\* (assignCategory's transaction).
THEOREM AssignmentsAllOrNothing == Spec => AssignAllOrNothing
  <1>1. SuiteInv /\ [Next]_vars =>
          [\A t \in Tabs : T!Phase(t) = "sent" /\ request[t].kind = "assign"
             /\ request'[t].phase = "answered" =>
           IF request'[t].answer = "ok"
           THEN \A r \in request[t].rows :
                   db'[r] # None /\ db'[r].category = request[t].next.category
           ELSE db' = db]_<<db, request>>
    BY PartsAssignWhole
  <1> QED BY <1>1, AlwaysParts, PTL DEF Spec, AssignAllOrNothing, T!AssignAllOrNothing
================================================================================
