---------------------------- MODULE ProfileProofs ----------------------------
(***************************************************************************)
(* What ProfileImport and ProfileStore keep of the user's profiles, proved *)
(* for any set of keys, workspaces, names, files and archives.             *)
(*                                                                         *)
(* An import: the rows of the patch layer have each id once and the user's *)
(* keys are the user's (RowsInv, KeysInv); a merge of workspaces only adds *)
(* to them, step by step of its recursion (Grows, MergeKeeps), and a       *)
(* second merge appends nothing (SpacesInv), so that an unused id is left. *)
(* The store: an archive's number is given once and the archive is in one  *)
(* folder (StoreNumbers), so the archives made are those found (StoreMade);*)
(* whoever holds the gate works on a directory that is there and, to       *)
(* delete it, one no context names (StoreGate).                            *)
(*                                                                         *)
(* What a recursive function computes is proved without induction over a   *)
(* predicate, which the provers cannot instantiate: the set of the steps   *)
(* where a fact fails would have a least one (LeastNat).                   *)
(***************************************************************************)
EXTENDS MCDesktop, TLAPS, FiniteSetTheorems, SequenceTheorems, WellFoundedInduction, Integers

\* A set of numbers has a least one: the subsets of 0..n are well-founded, and 0..k is a
\* smaller one than 0..m when k is smaller than m.
LEMMA LeastNat ==
  ASSUME NEW S \in SUBSET Nat, S # {}
  PROVE  \E n \in S : \A k \in S : n <= k
<1>1. PICK n \in S : TRUE
  OBVIOUS
<1> DEFINE F == {0..m : m \in {i \in S : i <= n}}
<1>2. IsFiniteSet(0..n)
  BY FS_Interval
<1>3. IsWellFoundedOn(StrictSubsetOrdering(0..n), FiniteSubsetsOf(0..n))
  BY <1>2, FS_StrictSubsetOrderingWellFounded
<1>4. F \subseteq FiniteSubsetsOf(0..n) /\ F # {}
  <2>1. \A m \in {i \in S : i <= n} : 0..m \subseteq 0..n /\ IsFiniteSet(0..m)
    BY <1>2, FS_Interval
  <2> QED BY <2>1 DEF FiniteSubsetsOf
<1>5. PICK A \in F : \A B \in F : ~(<<B, A>> \in StrictSubsetOrdering(0..n))
  <2> HIDE DEF F
  <2> QED BY <1>3, <1>4, WFMin
<1>6. PICK m \in S : m <= n /\ A = 0..m
  OBVIOUS
<1>7. \A k \in S : m <= k
  <2> SUFFICES ASSUME NEW k \in S, k < m PROVE FALSE
    OBVIOUS
  <2>1. 0..k \in F
    <3>1. k <= n
      BY <1>6
    <3> QED BY <3>1
  <2>2. 0..k \subseteq 0..m /\ 0..k # 0..m
    <3>1. m \in 0..m /\ m \notin 0..k
      OBVIOUS
    <3> QED BY <3>1
  <2>3. 0..k \in FiniteSubsetsOf(0..n) /\ 0..m \in FiniteSubsetsOf(0..n)
    BY <1>4, <1>6, <2>1
  <2>4. <<0..k, 0..m>> \in StrictSubsetOrdering(0..n)
    BY <2>2, <2>3 DEF StrictSubsetOrdering, FiniteSubsetsOf
  <2> QED BY <1>5, <1>6, <2>1, <2>4
<1> QED BY <1>7

-----------------------------------------------------------------------------
(* ProfileImport.                                                          *)

\* What the workspaces are made of.
SpaceIds == FreshIds \cup {OwnSpaces[i].id : i \in DOMAIN OwnSpaces}
                     \cup {SourceSpaces[i].id : i \in DOMAIN SourceSpaces}
SpacePaths == {OwnSpaces[i].path : i \in DOMAIN OwnSpaces}
              \cup {SourceSpaces[i].path : i \in DOMAIN SourceSpaces}
SpaceSessions == UNION ({OwnSpaces[i].sess : i \in DOMAIN OwnSpaces}
                        \cup {SourceSpaces[i].sess : i \in DOMAIN SourceSpaces})
Space == [id : SpaceIds, path : SpacePaths, sess : SUBSET SpaceSessions]

LEMMA SpacesAre == OwnSpaces \in Seq(Space) /\ SourceSpaces \in Seq(Space)
<1>1. ASSUME NEW s \in {SourceSpaces, OwnSpaces} PROVE s \in Seq(Space)
  <2> DEFINE T == [id : {s[i].id : i \in DOMAIN s}, path : {s[i].path : i \in DOMAIN s},
                   sess : {s[i].sess : i \in DOMAIN s}]
  <2>1. s \in Seq(T)
    BY ImportAssumption
  <2>2. {s[i].id : i \in DOMAIN s} \subseteq SpaceIds /\ {s[i].path : i \in DOMAIN s} \subseteq SpacePaths
    BY DEF SpaceIds, SpacePaths
  <2>3. {s[i].sess : i \in DOMAIN s} \subseteq SUBSET SpaceSessions
    BY DEF SpaceSessions
  <2>4. T \subseteq Space
    BY <2>2, <2>3 DEF Space
  <2> HIDE DEF T
  <2> QED BY <2>1, <2>4, SeqMonotonic
<1> QED BY <1>1

\* A merge only adds: workspaces keep their place, id and path, and lose no session.
Grows(t, u) ==
    /\ Len(t) <= Len(u)
    /\ \A i \in 1..Len(t) : /\ u[i].id = t[i].id
                            /\ u[i].path = t[i].path
                            /\ t[i].sess \subseteq u[i].sess

IdsDiffer(t) == \A i, j \in 1..Len(t) : t[i].id = t[j].id => i = j
Has(t, w) == \E j \in 1..Len(t) : t[j].path = w.path
Covers(t, w) == \E j \in 1..Len(t) : t[j].path = w.path /\ w.sess \subseteq t[j].sess

LEMMA GrowsOn ==
  ASSUME NEW s \in Seq(Space), NEW t \in Seq(Space), NEW u \in Seq(Space),
         Grows(s, t), Grows(t, u)
  PROVE  Grows(s, u)
  BY DEF Grows

LEMMA CoversOn ==
  ASSUME NEW t \in Seq(Space), NEW u \in Seq(Space), Grows(t, u), NEW w, Covers(t, w)
  PROVE  Covers(u, w)
  BY DEF Grows, Covers

\* The first workspace with the path, if there is one.
LEMMA MatchingIs ==
  ASSUME NEW t \in Seq(Space), NEW w
  PROVE  /\ Has(t, w) => Import!Matching(t, w) \in 1..Len(t) /\ t[Import!Matching(t, w)].path = w.path
         /\ ~Has(t, w) => Import!Matching(t, w) = 0
<1>1. DOMAIN t = 1..Len(t) /\ Len(t) \in Nat
  OBVIOUS
<1>2. CASE Has(t, w)
  <2> DEFINE S == {i \in 1..Len(t) : t[i].path = w.path}
  <2>1. S \in SUBSET Nat /\ S # {}
    BY <1>2 DEF Has
  <2>2. PICK i \in S : \A k \in S : i <= k
    <3> HIDE DEF S
    <3> QED BY <2>1, LeastNat
  <2>3. i \in 1..Len(t) /\ t[i].path = w.path /\ \A j \in 1..(i - 1) : t[j].path # w.path
    <3>1. \A j \in 1..(i - 1) : j \in 1..Len(t) /\ ~(i <= j)
      BY <1>1
    <3> QED BY <2>2, <3>1
  <2>4. Import!Matching(t, w) = CHOOSE k \in DOMAIN t : /\ t[k].path = w.path
                                                       /\ \A j \in 1..(k - 1) : t[j].path # w.path
    BY <1>1, <2>3 DEF Import!Matching
  <2> HIDE DEF S
  <2> QED BY <1>1, <1>2, <2>3, <2>4
<1>3. CASE ~Has(t, w)
  BY <1>1, <1>3 DEF Has, Import!Matching
<1> QED BY <1>2, <1>3

\* There is an id that few workspaces have not.
LEMMA FreshIs ==
  ASSUME NEW t \in Seq(Space), Len(t) < Cardinality(FreshIds)
  PROVE  \E f \in FreshIds : \A i \in 1..Len(t) : t[i].id # f
<1> DEFINE T == {t[i].id : i \in 1..Len(t)}
           g == [i \in 1..Len(t) |-> t[i].id]
<1>1. Len(t) \in Nat /\ IsFiniteSet(1..Len(t)) /\ Cardinality(1..Len(t)) = Len(t)
  <2> DEFINE n == Len(t)
  <2>1. n \in Nat
    OBVIOUS
  <2> HIDE DEF n
  <2>2. IsFiniteSet(1..n) /\ Cardinality(1..n) = n
    BY <2>1, FS_Interval
  <2> QED BY <2>1, <2>2 DEF n
<1>2. g \in Surjection(1..Len(t), T)
  BY DEF Surjection
<1>3. IsFiniteSet(T) /\ Cardinality(T) <= Len(t)
  BY <1>1, <1>2, FS_Surjection
<1>4. Cardinality(T) \in Nat /\ Cardinality(FreshIds) \in Nat
  BY <1>3, ImportAssumption, FS_CardinalityType
<1>5. ~(FreshIds \subseteq T)
  <2> HIDE DEF T
  <2>1. ASSUME FreshIds \subseteq T PROVE FALSE
    <3>1. Cardinality(FreshIds) <= Cardinality(T)
      BY <1>3, <2>1, FS_Subset
    <3> QED BY <1>1, <1>3, <1>4, <3>1
  <2> QED BY <2>1
<1> QED BY <1>5

\* mergeWorkspaceDocuments, one workspace.
LEMMA MergeOneKeeps ==
  ASSUME NEW t \in Seq(Space), IdsDiffer(t), NEW w \in Space, Len(t) < Cardinality(FreshIds)
  PROVE  LET u == Import!MergeOne(t, w) IN
         /\ u \in Seq(Space) /\ IdsDiffer(u) /\ Grows(t, u) /\ Covers(u, w)
         /\ Len(u) = IF Has(t, w) THEN Len(t) ELSE Len(t) + 1
<1> DEFINE m == Import!Matching(t, w)
<1>1. CASE Has(t, w)
  <2>1. m \in 1..Len(t) /\ m # 0 /\ t[m].path = w.path
    BY <1>1, MatchingIs
  <2> DEFINE e == [t[m] EXCEPT !.sess = @ \cup w.sess]
             u == [t EXCEPT ![m] = e]
  <2>2. t[m] \in Space
    BY <2>1
  <2>3. e \in Space /\ e.id = t[m].id /\ e.path = t[m].path /\ e.sess = t[m].sess \cup w.sess
    BY <2>2 DEF Space
  <2>4. Import!MergeOne(t, w) = u
    BY <2>1 DEF Import!MergeOne
  <2> HIDE DEF e, m
  <2>5. /\ u \in Seq(Space) /\ Len(u) = Len(t)
        /\ \A j \in 1..Len(t) : u[j] = IF j = m THEN e ELSE t[j]
    BY <2>1, <2>3, ExceptSeq
  <2> HIDE DEF u
  <2>6. \A j \in 1..Len(t) : u[j].id = t[j].id /\ u[j].path = t[j].path /\ t[j].sess \subseteq u[j].sess
    BY <2>3, <2>5
  <2>7. IdsDiffer(u) /\ Grows(t, u)
    BY <2>5, <2>6 DEF IdsDiffer, Grows
  <2>8. Covers(u, w)
    BY <2>1, <2>3, <2>5 DEF Covers
  <2> QED BY <1>1, <2>4, <2>5, <2>7, <2>8
<1>2. CASE ~Has(t, w)
  <2>1. m = 0
    BY <1>2, MatchingIs
  <2> DEFINE taken == {t[i].id : i \in DOMAIN t}
             new == IF w.id \in taken THEN CHOOSE f \in FreshIds : f \notin taken ELSE w.id
             e == [w EXCEPT !.id = new]
             u == Append(t, e)
  <2>2. Import!MergeOne(t, w) = u
    BY <2>1 DEF Import!MergeOne
  <2>3. new \in SpaceIds /\ \A i \in 1..Len(t) : t[i].id # new
    <3>1. \E f \in FreshIds : f \notin taken
      BY FreshIs
    <3>2. DOMAIN t = 1..Len(t)
      OBVIOUS
    <3>3. w.id \in SpaceIds /\ FreshIds \subseteq SpaceIds
      BY DEF Space, SpaceIds
    <3>4. new \in SpaceIds /\ new \notin taken
      <4> HIDE DEF taken
      <4> QED BY <3>1, <3>3
    <3> QED BY <3>2, <3>4
  <2> HIDE DEF new
  <2>4. e \in Space /\ e.id = new /\ e.path = w.path /\ e.sess = w.sess
    BY <2>3 DEF Space
  <2> HIDE DEF e, m
  <2>5. /\ u \in Seq(Space) /\ Len(u) = Len(t) + 1 /\ u[Len(t) + 1] = e
        /\ \A j \in 1..Len(t) : u[j] = t[j]
    BY <2>4
  <2> HIDE DEF u
  <2>6. IdsDiffer(u) /\ Grows(t, u)
    BY <2>3, <2>4, <2>5 DEF IdsDiffer, Grows
  <2>7. Covers(u, w)
    BY <2>4, <2>5 DEF Covers
  <2> QED BY <1>2, <2>2, <2>5, <2>6, <2>7
<1> QED BY <1>1, <1>2

\* The merge's steps: its recursive function satisfies its equation, as the shortest
\* part of it that would not shows.
MergeSteps(n, t, f) ==
    f = [k \in 0..n |-> IF k = 0 THEN t ELSE Import!MergeOne(f[k - 1], SourceSpaces[k])]

LEMMA MergeHasSteps == ASSUME NEW n \in Nat, NEW t PROVE \E f : MergeSteps(n, t, f)
<1> DEFINE Bad == {m \in Nat : ~ \E f : MergeSteps(m, t, f)}
<1> SUFFICES ASSUME Bad # {} PROVE FALSE
  OBVIOUS
<1>1. PICK m \in Bad : \A k \in Bad : m <= k
  <2>1. Bad \in SUBSET Nat
    OBVIOUS
  <2> HIDE DEF Bad
  <2> QED BY <2>1, LeastNat
<1>2. m # 0
  <2>1. MergeSteps(0, t, [k \in 0..0 |-> t])
    BY DEF MergeSteps
  <2> QED BY <1>1, <2>1
<1>3. m \in Nat /\ m - 1 \in Nat /\ ~(m <= m - 1)
  BY <1>1, <1>2
<1>4. PICK f : MergeSteps(m - 1, t, f)
  BY <1>1, <1>3
<1> DEFINE g == [k \in 0..m |-> IF k = m THEN Import!MergeOne(f[m - 1], SourceSpaces[m]) ELSE f[k]]
<1>5. ASSUME NEW k \in 0..m
      PROVE  g[k] = IF k = 0 THEN t ELSE Import!MergeOne(g[k - 1], SourceSpaces[k])
  <2>1. CASE k = m
    <3>1. m - 1 \in 0..m /\ m - 1 # m
      BY <1>3
    <3> QED BY <2>1, <1>2, <3>1
  <2>2. CASE k # m
    <3>1. k \in 0..(m - 1)
      BY <2>2, <1>3
    <3>2. f[k] = IF k = 0 THEN t ELSE Import!MergeOne(f[k - 1], SourceSpaces[k])
      BY <3>1, <1>4 DEF MergeSteps
    <3>3. k # 0 => k - 1 \in 0..m /\ k - 1 # m
      BY <3>1, <1>3
    <3> QED BY <3>2, <3>3, <2>2
  <2> QED BY <2>1, <2>2
<1>6. MergeSteps(m, t, g)
  <2> HIDE DEF Bad
  <2> QED BY <1>5 DEF MergeSteps
<1> QED BY <1>1, <1>6

LEMMA MergeIs ==
  ASSUME NEW t
  PROVE  \E f : MergeSteps(Len(SourceSpaces), t, f) /\ Import!MergeWorkspaces(t) = f[Len(SourceSpaces)]
<1> DEFINE g == CHOOSE f : f = [k \in 0..Len(SourceSpaces) |->
                   IF k = 0 THEN t ELSE Import!MergeOne(f[k - 1], SourceSpaces[k])]
<1>1. g = [k \in 0..Len(SourceSpaces) |->
               IF k = 0 THEN t ELSE Import!MergeOne(g[k - 1], SourceSpaces[k])]
  <2>1. Len(SourceSpaces) \in Nat
    BY SpacesAre
  <2>2. \E f : f = [k \in 0..Len(SourceSpaces) |->
                       IF k = 0 THEN t ELSE Import!MergeOne(f[k - 1], SourceSpaces[k])]
    <3>1. PICK f : MergeSteps(Len(SourceSpaces), t, f)
      BY <2>1, MergeHasSteps
    <3> QED BY <3>1 DEF MergeSteps
  <2> QED BY <2>2
<1>2. Import!MergeWorkspaces(t) = g[Len(SourceSpaces)]
  BY DEF Import!MergeWorkspaces
<1> HIDE DEF g
<1> QED BY <1>1, <1>2 DEF MergeSteps

\* The workspaces before and after a merge: a second one appends nothing.
SpacesInv ==
    /\ spaces \in Seq(Space) /\ IdsDiffer(spaces) /\ Grows(OwnSpaces, spaces)
    /\ Len(spaces) <= Len(OwnSpaces) + Len(SourceSpaces)
    /\ spaces = OwnSpaces \/ \A i \in 1..Len(SourceSpaces) : Has(spaces, SourceSpaces[i])

\* What the first n steps have made of t.
Merged(n, t, u) ==
    /\ u \in Seq(Space) /\ IdsDiffer(u) /\ Grows(t, u)
    /\ \A i \in 1..n : Covers(u, SourceSpaces[i])
    /\ Len(u) <= Len(t) + n
    /\ (\A i \in 1..Len(SourceSpaces) : Has(t, SourceSpaces[i])) => Len(u) = Len(t)

LEMMA MergeKeeps ==
  ASSUME SpacesInv
  PROVE  LET u == Import!MergeWorkspaces(spaces) IN Merged(Len(SourceSpaces), spaces, u)
<1> DEFINE L == Len(SourceSpaces)
<1>1. PICK f : MergeSteps(L, spaces, f) /\ Import!MergeWorkspaces(spaces) = f[L]
  BY MergeIs
<1>2. L \in Nat /\ Len(OwnSpaces) \in Nat /\ spaces \in Seq(Space) /\ Len(spaces) \in Nat
  BY SpacesAre DEF SpacesInv
<1>3. Cardinality(FreshIds) \in Nat /\ Cardinality(FreshIds) > Len(OwnSpaces) + L
  BY ImportAssumption, FS_CardinalityType
<1> DEFINE Bad == {n \in 0..L : ~Merged(n, spaces, f[n])}
<1>4. Merged(0, spaces, f[0])
  <2>1. f[0] = spaces
    BY <1>1, <1>2 DEF MergeSteps
  <2> QED BY <1>2, <2>1 DEF Merged, SpacesInv, Grows
<1>5. ASSUME NEW n \in 1..L, Merged(n - 1, spaces, f[n - 1]) PROVE Merged(n, spaces, f[n])
  <2> DEFINE t == f[n - 1]
             w == SourceSpaces[n]
             u == f[n]
  <2>1. u = Import!MergeOne(t, w)
    <3>1. n \in 0..L /\ n # 0
      BY <1>2
    <3> QED BY <1>1, <3>1, Zenon DEF MergeSteps
  <2>2. w \in Space /\ t \in Seq(Space) /\ IdsDiffer(t) /\ Grows(spaces, t) /\ Len(t) \in Nat
    BY <1>2, <1>5, SpacesAre DEF Merged
  <2>3. Len(t) <= Len(spaces) + (n - 1)
        /\ ((\A i \in 1..L : Has(spaces, SourceSpaces[i])) => Len(t) = Len(spaces))
    BY <1>5 DEF Merged
  <2>4. Len(t) < Cardinality(FreshIds)
    <3>1. CASE spaces = OwnSpaces
      BY <1>2, <1>3, <2>2, <2>3, <3>1
    <3>2. CASE \A i \in 1..L : Has(spaces, SourceSpaces[i])
      BY <1>2, <1>3, <2>2, <2>3, <3>2 DEF SpacesInv
    <3> QED BY <3>1, <3>2 DEF SpacesInv
  <2> HIDE DEF t, u, w
  <2>5. /\ u \in Seq(Space) /\ IdsDiffer(u) /\ Grows(t, u) /\ Covers(u, w)
        /\ Len(u) = IF Has(t, w) THEN Len(t) ELSE Len(t) + 1
    BY <2>1, <2>2, <2>4, MergeOneKeeps
  <2>6. Grows(spaces, u)
    BY <1>2, <2>2, <2>5, GrowsOn
  <2>7. \A i \in 1..n : Covers(u, SourceSpaces[i])
    <3> SUFFICES ASSUME NEW i \in 1..n PROVE Covers(u, SourceSpaces[i])
      OBVIOUS
    <3>1. CASE i = n
      BY <2>5, <3>1 DEF w
    <3>2. CASE i # n
      <4>1. i \in 1..(n - 1)
        BY <3>2, <1>2
      <4>2. Covers(t, SourceSpaces[i])
        BY <4>1, <1>5 DEF Merged, t
      <4> QED BY <2>2, <2>5, <4>2, CoversOn
    <3> QED BY <3>1, <3>2
  <2>8. (\A i \in 1..L : Has(spaces, SourceSpaces[i])) => Len(u) = Len(spaces)
    <3> SUFFICES ASSUME \A i \in 1..L : Has(spaces, SourceSpaces[i]) PROVE Len(u) = Len(spaces)
      OBVIOUS
    <3>1. Has(spaces, w)
      BY <1>2 DEF w
    <3>2. Has(t, w)
      BY <2>2, <3>1, <1>2 DEF Has, Grows
    <3> QED BY <2>3, <2>5, <3>2
  <2>9. Len(u) <= Len(spaces) + n
    BY <1>2, <2>2, <2>3, <2>5
  <2> QED BY <2>5, <2>6, <2>7, <2>8, <2>9 DEF Merged, u
<1>6. Bad = {}
  <2> SUFFICES ASSUME Bad # {} PROVE FALSE
    OBVIOUS
  <2>1. Bad \in SUBSET Nat
    BY <1>2
  <2>2. PICK n \in Bad : \A k \in Bad : n <= k
    <3> HIDE DEF Bad
    <3> QED BY <2>1, LeastNat
  <2>3. n \in 0..L /\ n # 0
    BY <2>2, <1>4
  <2>4. n \in 1..L /\ n - 1 \in 0..L /\ ~(n <= n - 1)
    BY <2>3, <1>2
  <2>5. Merged(n - 1, spaces, f[n - 1])
    BY <2>2, <2>4
  <2> QED BY <1>5, <2>2, <2>4, <2>5
<1> QED BY <1>1, <1>2, <1>6

-----------------------------------------------------------------------------
LEMMA SameCardinality == \A S : Import!Cardinality(S) = Cardinality(S)
  BY DEF Import!Cardinality, Cardinality

\* A finite set made a sequence: each element once.
LEMMA SeqOfSet ==
  ASSUME NEW S, IsFiniteSet(S)
  PROVE  /\ Import!SetToSeq(S) \in Seq(S)
         /\ \A x \in S : \E i \in 1..Len(Import!SetToSeq(S)) : Import!SetToSeq(S)[i] = x
         /\ \A i, j \in 1..Len(Import!SetToSeq(S)) :
               Import!SetToSeq(S)[i] = Import!SetToSeq(S)[j] => i = j
<1> DEFINE c == Cardinality(S)
           s == Import!SetToSeq(S)
<1>1. c \in Nat /\ ExistsBijection(1..c, S)
  BY FS_CardinalityType
<1>2. PICK b : b \in Bijection(1..c, S)
  BY <1>1 DEF ExistsBijection
<1>3. b \in [1..c -> S] /\ \A i, j \in 1..c : b[i] = b[j] => i = j
  BY <1>2 DEF Bijection, Injection, IsInjective
<1>4. s \in [1..c -> S] /\ \A i, j \in 1..c : s[i] = s[j] => i = j
  <2>1. s = CHOOSE f \in [1..c -> S] : Import!IsInjective(f)
    BY SameCardinality DEF Import!SetToSeq
  <2>2. Import!IsInjective(b)
    BY <1>3 DEF Import!IsInjective
  <2>3. s \in [1..c -> S] /\ Import!IsInjective(s)
    <3> HIDE DEF s
    <3> QED BY <1>3, <2>1, <2>2
  <2> HIDE DEF s
  <2> QED BY <2>3 DEF Import!IsInjective
<1> HIDE DEF s
<1>5. s \in Seq(S) /\ Len(s) = c
  BY <1>1, <1>4
<1>6. s \in Surjection(1..c, S)
  <2>1. s \in Injection(1..c, S)
    BY <1>4 DEF Injection, IsInjective
  <2>2. IsFiniteSet(1..c) /\ Cardinality(1..c) = c
    BY <1>1, FS_Interval
  <2> QED BY <2>1, <2>2, FS_Injection
<1> QED BY <1>4, <1>5, <1>6 DEF Surjection, s

-----------------------------------------------------------------------------
\* The rows of the patch layer: each id once, the managed profile's own among them.
PatchRow == [id : SourceKeys, by : {"own", "imported"}]
RowsInv ==
    /\ rows \in Seq(PatchRow)
    /\ \A k \in OwnKeys : \E i \in 1..Len(rows) : rows[i] = [id |-> k, by |-> "own"]
    /\ \A i, j \in 1..Len(rows) : rows[i].id = rows[j].id => i = j

\* The user's own keys.
KeysInv ==
    /\ creds = [k \in SourceKeys |-> creds[k]] /\ sessions = [k \in SourceKeys |-> sessions[k]]
    /\ \A k \in OwnKeys : creds[k] = "own" /\ sessions[k] = "own"

\* What is reported as applied has been.
ReportInv ==
    /\ report = [applied |-> report.applied, failed |-> report.failed]
    /\ "workspaces" \in report.applied => \A i \in 1..Len(SourceSpaces) : Covers(spaces, SourceSpaces[i])

ImportInv == RowsInv /\ KeysInv /\ SpacesInv /\ ReportInv

\* One row for each of some keys.
LEMMA RowsOfKeys ==
  ASSUME NEW K \in SUBSET SourceKeys, NEW by \in {"own", "imported"}
  PROVE  LET s == Import!SetToSeq({[id |-> k, by |-> by] : k \in K}) IN
         /\ s \in Seq(PatchRow)
         /\ \A k \in K : \E i \in 1..Len(s) : s[i] = [id |-> k, by |-> by]
         /\ \A i \in 1..Len(s) : s[i].id \in K
         /\ \A i, j \in 1..Len(s) : s[i].id = s[j].id => i = j
<1> DEFINE R == {[id |-> k, by |-> by] : k \in K}
           f == [k \in K |-> [id |-> k, by |-> by]]
           s == Import!SetToSeq(R)
<1>1. IsFiniteSet(K)
  BY ImportAssumption, FS_Subset
<1>2. f \in Surjection(K, R)
  BY DEF Surjection
<1>3. IsFiniteSet(R)
  <2> HIDE DEF f, R
  <2> QED BY <1>1, <1>2, FS_Surjection
<1>4. R \subseteq PatchRow /\ \A x \in R : x.id \in K /\ x = [id |-> x.id, by |-> by]
  BY DEF PatchRow
<1>5. /\ s \in Seq(R)
      /\ \A x \in R : \E i \in 1..Len(s) : s[i] = x
      /\ \A i, j \in 1..Len(s) : s[i] = s[j] => i = j
  <2> HIDE DEF R
  <2> QED BY <1>3, SeqOfSet
<1>6. \A k \in K : \E i \in 1..Len(s) : s[i] = [id |-> k, by |-> by]
  <2> SUFFICES ASSUME NEW k \in K PROVE \E i \in 1..Len(s) : s[i] = [id |-> k, by |-> by]
    OBVIOUS
  <2>1. [id |-> k, by |-> by] \in R
    OBVIOUS
  <2> HIDE DEF R, s
  <2> QED BY <1>5, <2>1
<1> HIDE DEF R, s
<1>7. s \in Seq(PatchRow)
  BY <1>4, <1>5, SeqMonotonic
<1>8. \A i \in 1..Len(s) : s[i] \in R
  BY <1>5
<1>9. ASSUME NEW i \in 1..Len(s), NEW j \in 1..Len(s), s[i].id = s[j].id PROVE i = j
  <2>1. s[i] = [id |-> s[i].id, by |-> by] /\ s[j] = [id |-> s[j].id, by |-> by]
    BY <1>4, <1>8
  <2>2. s[i] = s[j]
    BY <1>9, <2>1
  <2> QED BY <1>5, <2>2
<1>10. \A i \in 1..Len(s) : s[i].id \in K
  BY <1>4, <1>8
<1> QED BY <1>6, <1>7, <1>9, <1>10, Zenon DEF R, s

LEMMA ImportStarts == Import!ImportInit => ImportInv
<1> SUFFICES ASSUME Import!ImportInit PROVE ImportInv
  OBVIOUS
<1>1. RowsInv
  <2> DEFINE s == Import!SetToSeq({[id |-> k, by |-> "own"] : k \in OwnKeys})
  <2>1. rows = s
    BY DEF Import!ImportInit
  <2>2. /\ s \in Seq(PatchRow)
        /\ \A k \in OwnKeys : \E i \in 1..Len(s) : s[i] = [id |-> k, by |-> "own"]
        /\ \A i, j \in 1..Len(s) : s[i].id = s[j].id => i = j
    BY RowsOfKeys, ImportAssumption
  <2> HIDE DEF s
  <2> QED BY <2>1, <2>2 DEF RowsInv
<1>2. KeysInv
  BY ImportAssumption DEF Import!ImportInit, KeysInv
<1>3. SpacesInv
  <2>1. spaces = OwnSpaces /\ OwnSpaces \in Seq(Space) /\ SourceSpaces \in Seq(Space)
    BY SpacesAre DEF Import!ImportInit
  <2>2. IdsDiffer(OwnSpaces)
    <3>1. DOMAIN OwnSpaces = 1..Len(OwnSpaces)
      BY <2>1
    <3> QED BY ImportAssumption, <3>1 DEF IdsDiffer
  <2> QED BY <2>1, <2>2 DEF SpacesInv, Grows
<1>4. ReportInv
  BY DEF Import!ImportInit, ReportInv, Import!Empty
<1> QED BY <1>1, <1>2, <1>3, <1>4 DEF ImportInv

\* migratePatchLayer
LEMMA PatchKeeps ==
  ASSUME ImportInv, Import!MigratePatchLayer
  PROVE  RowsInv'
<1> DEFINE K == SourceKeys \ Import!RowIds
           s == Import!SetToSeq({[id |-> k, by |-> "imported"] : k \in K})
<1>1. rows' = rows \o s
  BY DEF Import!MigratePatchLayer
<1>2. /\ s \in Seq(PatchRow)
      /\ \A i \in 1..Len(s) : s[i].id \in K
      /\ \A i, j \in 1..Len(s) : s[i].id = s[j].id => i = j
  BY RowsOfKeys
<1> HIDE DEF s
<1>3. /\ rows \in Seq(PatchRow) /\ Len(rows) \in Nat /\ Len(s) \in Nat
      /\ \A i \in 1..Len(rows) : \A j \in 1..Len(s) : rows[i].id # s[j].id
  <2>1. \A i \in 1..Len(rows) : rows[i].id \in Import!RowIds
    BY DEF ImportInv, RowsInv, Import!RowIds
  <2> QED BY <1>2, <2>1 DEF ImportInv, RowsInv
<1>4. /\ rows' \in Seq(PatchRow) /\ Len(rows') = Len(rows) + Len(s)
      /\ \A i \in 1..Len(rows) + Len(s) : rows'[i] = IF i <= Len(rows) THEN rows[i] ELSE s[i - Len(rows)]
  BY <1>1, <1>2, <1>3, ConcatProperties
<1>5. \A k \in OwnKeys : \E i \in 1..Len(rows') : rows'[i] = [id |-> k, by |-> "own"]
  BY <1>3, <1>4 DEF ImportInv, RowsInv
<1>6. ASSUME NEW i \in 1..Len(rows'), NEW j \in 1..Len(rows'), rows'[i].id = rows'[j].id PROVE i = j
  <2>1. CASE i <= Len(rows) /\ j <= Len(rows)
    BY <1>3, <1>4, <1>6, <2>1 DEF ImportInv, RowsInv
  <2>2. CASE i > Len(rows) /\ j > Len(rows)
    <3>1. i - Len(rows) \in 1..Len(s) /\ j - Len(rows) \in 1..Len(s)
      BY <1>3, <1>4, <2>2
    <3>2. s[i - Len(rows)].id = s[j - Len(rows)].id
      BY <1>3, <1>4, <1>6, <2>2
    <3>3. i - Len(rows) = j - Len(rows)
      BY <1>2, <3>1, <3>2
    <3> QED BY <1>3, <3>3
  <2>3. CASE i <= Len(rows) /\ j > Len(rows)
    <3>1. i \in 1..Len(rows) /\ j - Len(rows) \in 1..Len(s)
      BY <1>3, <1>4, <2>3
    <3>2. rows'[i] = rows[i] /\ rows'[j] = s[j - Len(rows)]
      BY <1>3, <1>4, <2>3
    <3> QED BY <1>3, <1>6, <3>1, <3>2
  <2>4. CASE i > Len(rows) /\ j <= Len(rows)
    <3>1. j \in 1..Len(rows) /\ i - Len(rows) \in 1..Len(s)
      BY <1>3, <1>4, <2>4
    <3>2. rows'[j] = rows[j] /\ rows'[i] = s[i - Len(rows)]
      BY <1>3, <1>4, <2>4
    <3> QED BY <1>3, <1>6, <3>1, <3>2
  <2> QED BY <1>3, <1>4, <2>1, <2>2, <2>3, <2>4
<1> QED BY <1>4, <1>5, <1>6 DEF RowsInv

\* migrateWorkspaces
LEMMA SpacesKeep ==
  ASSUME ImportInv, Import!MigrateWorkspaces
  PROVE  SpacesInv' /\ ReportInv'
<1> DEFINE u == Import!MergeWorkspaces(spaces)
           L == Len(SourceSpaces)
<1>1. spaces' = u /\ report' = [report EXCEPT !.applied = @ \cup {"workspaces"}]
  BY DEF Import!MigrateWorkspaces, Import!Applied
<1>2. Merged(L, spaces, u)
  BY MergeKeeps DEF ImportInv
<1> HIDE DEF u
<1>3. /\ u \in Seq(Space) /\ IdsDiffer(u) /\ Grows(spaces, u) /\ Len(u) \in Nat
      /\ \A i \in 1..L : Covers(u, SourceSpaces[i])
      /\ Len(u) <= Len(spaces) + L
      /\ (\A i \in 1..L : Has(spaces, SourceSpaces[i])) => Len(u) = Len(spaces)
  BY <1>2 DEF Merged
<1>4. L \in Nat /\ OwnSpaces \in Seq(Space) /\ Len(OwnSpaces) \in Nat /\ spaces \in Seq(Space)
  BY SpacesAre DEF ImportInv, SpacesInv
<1>5. Grows(OwnSpaces, u)
  BY <1>3, <1>4, GrowsOn DEF ImportInv, SpacesInv
<1>6. Len(u) <= Len(OwnSpaces) + L
  <2>1. CASE spaces = OwnSpaces
    BY <1>3, <2>1
  <2>2. CASE \A i \in 1..L : Has(spaces, SourceSpaces[i])
    BY <1>3, <2>2 DEF ImportInv, SpacesInv
  <2> QED BY <2>1, <2>2 DEF ImportInv, SpacesInv
<1>7. \A i \in 1..L : Has(u, SourceSpaces[i])
  BY <1>3 DEF Covers, Has
<1>8. SpacesInv'
  BY <1>1, <1>3, <1>5, <1>6, <1>7 DEF SpacesInv
<1>9. ReportInv'
  BY <1>1, <1>3 DEF ImportInv, ReportInv
<1> QED BY <1>8, <1>9

LEMMA ImportStep == ImportInv /\ [Import!ImportNext]_importVars => ImportInv'
<1> SUFFICES ASSUME ImportInv, [Import!ImportNext]_importVars PROVE ImportInv'
  OBVIOUS
<1> USE DEF ImportInv, Import!Applied
<1>1. CASE Import!StartImport
  BY <1>1 DEF Import!StartImport, Import!Empty, RowsInv, KeysInv, SpacesInv, ReportInv
<1>2. CASE Import!ItemFails
  BY <1>2 DEF Import!ItemFails, RowsInv, KeysInv, SpacesInv, ReportInv
<1>3. CASE Import!MigratePatchLayer
  <2>1. RowsInv'
    BY <1>3, PatchKeeps
  <2>2. KeysInv' /\ SpacesInv' /\ ReportInv'
    BY <1>3 DEF Import!MigratePatchLayer, KeysInv, SpacesInv, ReportInv
  <2> QED BY <2>1, <2>2
<1>4. CASE Import!MigrateCredentials
  BY <1>4, ImportAssumption DEF Import!MigrateCredentials, RowsInv, KeysInv, SpacesInv, ReportInv
<1>5. CASE Import!MigrateWorkspaces
  <2>1. SpacesInv' /\ ReportInv'
    BY <1>5, SpacesKeep
  <2>2. RowsInv' /\ KeysInv'
    BY <1>5 DEF Import!MigrateWorkspaces, RowsInv, KeysInv
  <2> QED BY <2>1, <2>2
<1>6. ASSUME NEW k \in SourceKeys, Import!CopySession(k) \/ Import!RenameSession(k) \/ Import!CopyFails(k)
      PROVE ImportInv'
  <2>1. CASE Import!CopySession(k)
    BY <2>1 DEF Import!CopySession, RowsInv, KeysInv, SpacesInv, ReportInv
  <2>2. CASE Import!RenameSession(k)
    <3>1. k \notin OwnKeys
      BY <2>2 DEF Import!RenameSession, Import!Missing, KeysInv
    <3>2. sessions' = [sessions EXCEPT ![k] = "imported"]
          /\ UNCHANGED <<creds, rows, spaces, report>>
      BY <2>2 DEF Import!RenameSession
    <3>3. sessions' = [x \in SourceKeys |-> sessions'[x]]
          /\ \A x \in SourceKeys \ {k} : sessions'[x] = sessions[x]
      BY <3>2 DEF KeysInv
    <3>4. KeysInv'
      BY <3>1, <3>2, <3>3, ImportAssumption DEF KeysInv
    <3> QED BY <3>2, <3>4 DEF RowsInv, SpacesInv, ReportInv
  <2>3. CASE Import!CopyFails(k)
    BY <2>3 DEF Import!CopyFails, RowsInv, KeysInv, SpacesInv, ReportInv
  <2> QED BY <1>6, <2>1, <2>2, <2>3
<1>7. CASE Import!SessionsCopied
  <2>1. UNCHANGED <<creds, rows, spaces, sessions>>
        /\ (report' = report \/ report' = [report EXCEPT !.applied = @ \cup {"sessions"}])
    BY <1>7 DEF Import!SessionsCopied
  <2>2. RowsInv' /\ KeysInv' /\ SpacesInv'
    BY <2>1 DEF RowsInv, KeysInv, SpacesInv
  <2>3. ReportInv'
    <3>1. CASE report' = report
      BY <2>1, <3>1 DEF ReportInv
    <3>2. CASE report' = [report EXCEPT !.applied = @ \cup {"sessions"}]
      BY <2>1, <3>2 DEF ReportInv
    <3> QED BY <2>1, <3>1, <3>2
  <2> QED BY <2>2, <2>3
<1>8. CASE Import!MigratePlugins
  BY <1>8 DEF Import!MigratePlugins, RowsInv, KeysInv, SpacesInv, ReportInv
<1>9. CASE Import!ImportReturns
  BY <1>9 DEF Import!ImportReturns, RowsInv, KeysInv, SpacesInv, ReportInv
<1>10. CASE Import!ImportCrashes
  BY <1>10 DEF Import!ImportCrashes, Import!Empty, RowsInv, KeysInv, SpacesInv, ReportInv
<1>11. CASE \E x \in {"cache", "attachments"} : Import!MigrateExtras(x)
  <2>1. PICK x \in {"cache", "attachments"} : Import!MigrateExtras(x)
    BY <1>11
  <2>2. UNCHANGED <<creds, rows, spaces, sessions>>
        /\ report' = [report EXCEPT !.applied = @ \cup {x}] /\ x # "workspaces"
    BY <2>1 DEF Import!MigrateExtras
  <2> QED BY <2>2 DEF RowsInv, KeysInv, SpacesInv, ReportInv
<1>12. CASE UNCHANGED importVars
  BY <1>12 DEF importVars, RowsInv, KeysInv, SpacesInv, ReportInv
<1> QED BY <1>1, <1>2, <1>3, <1>4, <1>5, <1>6, <1>7, <1>8, <1>9, <1>10, <1>11, <1>12
        DEF Import!ImportNext

\* What the invariant says of an import.
LEMMA ImportSafe == ImportInv => Import!OwnDataKept /\ Import!WorkspacesKept
<1> SUFFICES ASSUME ImportInv PROVE Import!OwnDataKept /\ Import!WorkspacesKept
  OBVIOUS
<1>1. DOMAIN rows = 1..Len(rows) /\ DOMAIN spaces = 1..Len(spaces)
      /\ DOMAIN OwnSpaces = 1..Len(OwnSpaces) /\ DOMAIN SourceSpaces = 1..Len(SourceSpaces)
  BY SpacesAre DEF ImportInv, RowsInv, SpacesInv
<1>2. Import!OwnDataKept
  BY <1>1 DEF ImportInv, RowsInv, KeysInv, Import!OwnDataKept
<1>3. Import!WorkspacesKept
  BY <1>1 DEF ImportInv, SpacesInv, ReportInv, IdsDiffer, Grows, Covers, Import!WorkspacesKept
<1> QED BY <1>2, <1>3
-----------------------------------------------------------------------------
(* ProfileStore.                                                           *)

IsArchive(a) == a = [id |-> a.id, file |-> a.file, ref |-> a.ref, of |-> a.of] /\ a.id \in Nat

\* What the values are, as far as the proofs need it.
StoreShape ==
    /\ uids \in Nat
    /\ dirs \in [Store!Names -> [uid : Nat, whole : BOOLEAN, faulty : BOOLEAN]]
    /\ vault = [n \in Store!Names |-> vault[n]]
    /\ \A n \in Store!Names : \A a \in vault[n] : IsArchive(a)
    /\ \A a \in legacy : IsArchive(a)
    /\ chosen \in [Store!Roles -> Store!Names \cup {Store!NoName}]
    /\ pswitch \in [pc : {"idle", "drain", "starting"}, to : Store!Names \cup {Store!NoName}]
    /\ pop = [kind |-> pop.kind, pc |-> pop.pc, name |-> pop.name, dest |-> pop.dest,
              arc |-> pop.arc]

\* Whoever holds the gate works on a directory that is there, or, a clone, on one that no
\* context names; nothing is started meanwhile.
StoreGate ==
    /\ (pop.kind = "idle") = (pop.pc = "idle")
    /\ pop.kind # "idle" => pswitch.pc # "starting"
    /\ pop.pc \in {"prepare", "backup", "forget", "delete"} =>
           pop.name \in Store!Names /\ Store!Exists(pop.name)
    /\ pop.pc \in {"backup", "forget", "delete"} => pop.kind = pop.pc
    /\ pop.pc = "prepare" => pop.kind \in {"backup", "list", "forget", "delete", "find"}
    /\ pop.kind = "delete" => ~Store!InUse(pop.name)
    /\ pop.pc \in {"mkdir", "copy"} =>
           /\ pop.kind = "clone"
           /\ pop.name \in Store!Names /\ pop.dest \in Store!Names
           /\ ~Store!InUse(pop.dest)

\* An archive's number is given once, and each archive is in one folder.
StoreNumbers ==
    /\ \A a \in legacy : a.id <= uids
    /\ \A n \in Store!Names : \A a \in vault[n] : a.id <= uids
    /\ \A a, b \in legacy : a.id = b.id => a = b
    /\ \A n, m \in Store!Names : \A a \in vault[n], b \in vault[m] :
           a.id = b.id => n = m /\ a = b
    /\ \A a \in legacy : \A n \in Store!Names : \A b \in vault[n] : a.id # b.id

\* The archives there are: NoBackupLost, told one by one.
StoreMade ==
    \A i : i \in made <=> \/ \E a \in legacy : a.id = i
                          \/ \E n \in Store!Names : \E a \in vault[n] : a.id = i

\* Only the directory a clone is filling may be half a profile without being litter.
StoreWhole ==
    \A n \in Store!Names : Store!Exists(n) /\ ~dirs[n].whole =>
        dirs[n].uid \in litter \/ (pop.pc = "copy" /\ n = pop.dest)

StoreInv == StoreShape /\ StoreGate /\ StoreNumbers /\ StoreMade /\ StoreWhole /\ Store!ChosenIsKept

USE DEF Store!NoName, Store!Roles

LEMMA StoreStart == ASSUME Store!Init PROVE StoreInv
<1>1. StoreShape
  BY DEF Store!Init, StoreShape, Store!NoDir, Store!IdleOp, IsArchive, Store!Names
<1>2. StoreGate /\ StoreNumbers /\ StoreWhole
  BY DEF Store!Init, StoreGate, StoreNumbers, StoreWhole, Store!NoDir, Store!IdleOp, Store!Names,
         Store!Exists
<1>3. StoreMade
  <2>1. PICK own \in {{}, {[id |-> 2, file |-> 1, ref |-> First, of |-> 1]}} :
          /\ vault = [n \in Store!Names |-> IF n = First THEN own ELSE {}]
          /\ made = {1} \cup {a.id : a \in own}
    BY DEF Store!Init
  <2>2. legacy = {[id |-> 1, file |-> 1, ref |-> First, of |-> 1]} /\ First \in Store!Names
    BY DEF Store!Init, Store!Names
  <2>3. \A i : i \in made <=> i = 1 \/ \E a \in own : a.id = i
    BY <2>1
  <2>4. \A i : (\E a \in legacy : a.id = i) <=> i = 1
    BY <2>2
  <2>5. \A i : (\E n \in Store!Names : \E a \in vault[n] : a.id = i) <=> \E a \in own : a.id = i
    BY <2>1, <2>2
  <2> QED BY <2>3, <2>4, <2>5 DEF StoreMade
<1>4. Store!ChosenIsKept
  BY DEF Store!Init, Store!ChosenIsKept, Store!NoDir, Store!Names, Store!Exists
<1> QED BY <1>1, <1>2, <1>3, <1>4 DEF StoreInv

Dirs == [uid : Nat, whole : BOOLEAN, faulty : BOOLEAN]

\* A directory that changes, and the mark on one that says whether it is whole.
LEMMA DirChanges ==
  ASSUME NEW f \in [Store!Names -> Dirs], NEW d \in Store!Names, NEW r \in Dirs
  PROVE  LET g == [f EXCEPT ![d] = r] IN
         g \in [Store!Names -> Dirs] /\ g[d] = r /\ \A n \in Store!Names : n # d => g[n] = f[n]
  OBVIOUS

LEMMA WholeChanges ==
  ASSUME NEW r \in Dirs, NEW w \in BOOLEAN
  PROVE  LET s == [r EXCEPT !.whole = w] IN s \in Dirs /\ s.uid = r.uid /\ s.whole = w
  BY DEF Dirs

LEMMA FaultyChanges ==
  ASSUME NEW r \in Dirs, NEW w \in BOOLEAN
  PROVE  LET s == [r EXCEPT !.faulty = w] IN s \in Dirs /\ s.uid = r.uid /\ s.whole = r.whole
  BY DEF Dirs

LEMMA NoDirIs == Store!NoDir \in Dirs /\ Store!NoDir.uid = 0
  BY DEF Store!NoDir, Dirs

LEMMA DirsAre == StoreShape => dirs \in [Store!Names -> Dirs]
  BY DEF StoreShape, Dirs

\* Steps that leave the directories and the archives alone.
StoreStill == UNCHANGED <<dirs, vault, legacy, made, litter, uids>>

\* The gate as a call leaves it that has just taken or given it back.
StoreTaken ==
    /\ pop' = [kind |-> pop'.kind, pc |-> pop'.pc, name |-> pop'.name, dest |-> pop'.dest,
               arc |-> pop'.arc]
    /\ pop'.pc # "copy"
    /\ StoreGate'

LEMMA StoreStillKeeps ==
  ASSUME StoreInv, StoreStill, StoreTaken, pop.pc # "copy", UNCHANGED <<chosen, pswitch>>
  PROVE  StoreInv'
  BY DEF StoreInv, StoreStill, StoreTaken, StoreShape, StoreNumbers, StoreMade, StoreWhole,
         Store!ChosenIsKept, Store!Exists, Store!InUse

LEMMA LowestIn ==
  ASSUME NEW S \in SUBSET Nat, S # {}
  PROVE  Store!Lowest(S) \in S
  BY LeastNat DEF Store!Lowest

\* The name a clone or a restored profile is given is one that nothing uses.
LEMMA NextIsFree ==
  ASSUME NEW family \in SUBSET Nat, Store!NextProfileName(family) # Store!NoName
  PROVE  /\ Store!NextProfileName(family) \in family
         /\ ~Store!Exists(Store!NextProfileName(family))
<1> DEFINE S == {n \in family : ~Store!Exists(n)}
<1>1. S # {} /\ Store!NextProfileName(family) = Store!Lowest(S)
  BY DEF Store!NextProfileName
<1>2. S \in SUBSET Nat
  OBVIOUS
<1> HIDE DEF S
<1>3. Store!Lowest(S) \in S
  BY <1>1, <1>2, LowestIn
<1> QED BY <1>1, <1>3 DEF S

\* The calls that take the gate, and what gives it back without having done anything.
LEMMA StoreCalls ==
  ASSUME StoreInv,
         \/ \E n \in Store!Names :
               \/ Store!CloneProfile(n) \/ Store!BackupProfile(n) \/ Store!ListProfileBackups(n)
               \/ Store!ExportProfile(n) \/ Store!DeleteProfile(n)
         \/ \E n \in Store!Names, f \in Files :
               Store!DeleteProfileBackup(n, f) \/ Store!RestoreProfileBackup(n, f)
         \/ Store!ImportFound \/ Store!ImportProfileBackup \/ Store!ImportFails
         \/ Store!RestoreRefused
  PROVE  StoreInv'
<1> USE DEF Store!Begin, Store!OnlyOp, Store!OpEnds, Store!IdleOp, StoreStill, StoreTaken
<1>1. ASSUME NEW n \in Store!Names, Store!CloneProfile(n) PROVE StoreInv'
  <2>1. Store!NextProfileName(CloneNames) \in Store!Names /\ ~Store!Exists(Store!NextProfileName(CloneNames))
    BY <1>1, NextIsFree, StoreAssumption DEF Store!CloneProfile, Store!Names
  <2> DEFINE dest == Store!NextProfileName(CloneNames)
  <2>2. /\ pop' = [Store!IdleOp EXCEPT !.kind = "clone", !.pc = "mkdir", !.name = n, !.dest = dest]
        /\ StoreStill /\ UNCHANGED <<chosen, pswitch>> /\ pop.kind = "idle" /\ pswitch.pc = "idle"
        /\ dest # Store!NoName
    BY <1>1 DEF Store!CloneProfile
  <2>3. ~Store!InUse(dest)
    BY <2>1, <2>2 DEF StoreInv, Store!ChosenIsKept, Store!InUse
  <2> HIDE DEF dest
  <2>4. /\ pop'.kind = "clone" /\ pop'.pc = "mkdir" /\ pop'.name = n /\ pop'.dest = dest
        /\ pop' = [kind |-> pop'.kind, pc |-> pop'.pc, name |-> pop'.name, dest |-> pop'.dest,
                   arc |-> pop'.arc]
    BY <2>2
  <2>5. StoreGate'
    BY <2>1, <2>2, <2>3, <2>4 DEF StoreGate, Store!InUse, dest
  <2>6. pop.pc # "copy"
    BY <2>2 DEF StoreInv, StoreGate
  <2> QED BY <2>2, <2>4, <2>5, <2>6, StoreStillKeeps
<1>2. ASSUME NEW n \in Store!Names, NEW kind \in {"backup", "list", "forget", "delete"}, NEW arc,
             Store!BackupOp(kind, n, arc), kind = "delete" => ~Store!InUse(n)
      PROVE StoreInv'
  <2>1. /\ pop' = [Store!IdleOp EXCEPT !.kind = kind, !.pc = "prepare", !.name = n, !.arc = arc]
        /\ StoreStill /\ UNCHANGED <<chosen, pswitch>> /\ pop.kind = "idle" /\ pswitch.pc = "idle"
        /\ Store!Exists(n)
    BY <1>2 DEF Store!BackupOp
  <2>3. /\ pop'.kind = kind /\ pop'.pc = "prepare" /\ pop'.name = n
        /\ pop' = [kind |-> pop'.kind, pc |-> pop'.pc, name |-> pop'.name, dest |-> pop'.dest,
                   arc |-> pop'.arc]
    BY <2>1
  <2>2. StoreTaken /\ pop.pc # "copy"
    BY <1>2, <2>1, <2>3 DEF StoreInv, StoreGate, Store!InUse, Store!Exists
  <2> QED BY <2>1, <2>2, StoreStillKeeps
<1>3. ASSUME NEW n \in Store!Names, NEW f, Store!RestoreProfileBackup(n, f) PROVE StoreInv'
  <2>1. /\ pop' = [Store!IdleOp EXCEPT !.kind = "find", !.pc = "prepare", !.name = n]
        /\ StoreStill /\ UNCHANGED <<chosen, pswitch>> /\ pop.kind = "idle" /\ pswitch.pc = "idle"
        /\ Store!Exists(n)
    BY <1>3 DEF Store!RestoreProfileBackup
  <2>2. StoreTaken /\ pop.pc # "copy"
    <3>1. /\ pop'.kind = "find" /\ pop'.pc = "prepare" /\ pop'.name = n
          /\ pop' = [kind |-> pop'.kind, pc |-> pop'.pc, name |-> pop'.name, dest |-> pop'.dest,
                     arc |-> pop'.arc]
      BY <2>1
    <3>2. StoreGate'
      BY <2>1, <3>1 DEF StoreGate, Store!InUse, Store!Exists
    <3>3. pop.pc # "copy"
      BY <2>1 DEF StoreInv, StoreGate
    <3> QED BY <3>1, <3>2, <3>3
  <2> QED BY <2>1, <2>2, StoreStillKeeps
<1>4. ASSUME NEW n \in Store!Names, Store!ExportProfile(n) PROVE StoreInv'
  <2>1. /\ pop' = Store!IdleOp
        /\ StoreStill /\ UNCHANGED <<chosen, pswitch>> /\ pop.kind = "idle"
    BY <1>4 DEF Store!ExportProfile
  <2>2. StoreTaken /\ pop.pc # "copy"
    BY <2>1 DEF StoreInv, StoreGate
  <2> QED BY <2>1, <2>2, StoreStillKeeps
<1>5. CASE Store!ImportFound \/ Store!ImportProfileBackup
  <2>1. PICK arc :
        /\ \/ pop' = Store!IdleOp
           \/ pop' = [Store!IdleOp EXCEPT !.kind = "import", !.pc = "stage", !.arc = arc]
        /\ StoreStill /\ UNCHANGED <<chosen, pswitch>> /\ pop.kind = "idle" /\ pswitch.pc = "idle"
    <3>1. CASE Store!ImportFound
      <4>1. \E arc : pop' \in {Store!IdleOp, [Store!IdleOp EXCEPT !.kind = "import", !.pc = "stage", !.arc = arc]}
        BY <3>1 DEF Store!ImportFound
      <4> QED BY <3>1, <4>1 DEF Store!ImportFound
    <3>2. CASE Store!ImportProfileBackup
      BY <3>2 DEF Store!ImportProfileBackup
    <3> QED BY <1>5, <3>1, <3>2
  <2>3. /\ pop'.kind \in {"idle", "import"} /\ pop'.pc \in {"idle", "stage"}
        /\ (pop'.kind = "idle") = (pop'.pc = "idle")
        /\ pop' = [kind |-> pop'.kind, pc |-> pop'.pc, name |-> pop'.name, dest |-> pop'.dest,
                   arc |-> pop'.arc]
    <3>1. CASE pop' = Store!IdleOp
      BY <3>1
    <3>2. CASE pop' = [Store!IdleOp EXCEPT !.kind = "import", !.pc = "stage", !.arc = arc]
      BY <3>2
    <3> QED BY <2>1, <3>1, <3>2
  <2>2. StoreTaken /\ pop.pc # "copy"
    BY <2>1, <2>3 DEF StoreInv, StoreGate
  <2> QED BY <2>1, <2>2, StoreStillKeeps
<1>6. CASE Store!ImportFails
  <2>1. /\ pop' = Store!IdleOp
        /\ StoreStill /\ UNCHANGED <<chosen, pswitch>> /\ pop.pc = "stage"
    BY <1>6 DEF Store!ImportFails
  <2>2. StoreTaken /\ pop.pc # "copy"
    BY <2>1 DEF StoreInv, StoreGate
  <2> QED BY <2>1, <2>2, StoreStillKeeps
<1>7. CASE Store!RestoreRefused
  BY <1>7 DEF Store!RestoreRefused, StoreInv, StoreShape, StoreGate, StoreNumbers, StoreMade,
              StoreWhole, Store!ChosenIsKept, Store!Exists, Store!InUse
<1> QED BY <1>1, <1>2, <1>3, <1>4, <1>5, <1>6, <1>7
        DEF Store!BackupProfile, Store!ListProfileBackups, Store!DeleteProfile,
            Store!DeleteProfileBackup

\* What a step may do to an archive of the profile that holds the gate.
LEMMA PrepareKeeps ==
  ASSUME StoreInv, pop.pc = "prepare", Store!PrepareProfileBackups(pop.name)
  PROVE  /\ vault' = [n \in Store!Names |-> vault'[n]]
         /\ \A n \in Store!Names : \A a \in vault'[n] : IsArchive(a)
         /\ \A a \in legacy' : IsArchive(a)
         /\ uids' = uids => StoreNumbers'
         /\ made' = made => StoreMade'
<1> DEFINE p == pop.name
           mine == {a \in legacy : a.ref = p}
           Moved(a) == [a EXCEPT !.file = Store!Free(p, a.file)]
<1>1. p \in Store!Names
  BY DEF StoreInv, StoreGate
<1>2. /\ legacy' = legacy \ mine
      /\ vault' = [vault EXCEPT ![p] = @ \cup {Moved(a) : a \in mine}]
  BY DEF Store!PrepareProfileBackups
<1>3. \A a \in legacy : IsArchive(Moved(a)) /\ Moved(a).id = a.id
  BY DEF StoreInv, StoreShape, IsArchive
<1> HIDE DEF Moved, mine
<1>4. \A n \in Store!Names : \A b : b \in vault'[n] <=>
          b \in vault[n] \/ (n = p /\ \E a \in mine : b = Moved(a))
  BY <1>1, <1>2 DEF StoreInv, StoreShape
<1>5. \A a : a \in legacy' <=> a \in legacy /\ a \notin mine
  BY <1>2
<1>6. mine \subseteq legacy
  BY DEF mine
<1>7. vault' = [n \in Store!Names |-> vault'[n]]
  BY <1>1, <1>2 DEF StoreInv, StoreShape
<1>8. \A n \in Store!Names : \A a \in vault'[n] : IsArchive(a)
  BY <1>3, <1>4, <1>6 DEF StoreInv, StoreShape
<1>9. \A a \in legacy' : IsArchive(a)
  BY <1>5 DEF StoreInv, StoreShape
<1>10. ASSUME uids' = uids PROVE StoreNumbers'
  <2> USE <1>10, <1>3, <1>4, <1>5, <1>6 DEF StoreInv, StoreNumbers
  <2>1. \A a \in legacy' : a.id <= uids'
    OBVIOUS
  <2>2. \A n \in Store!Names : \A a \in vault'[n] : a.id <= uids'
    OBVIOUS
  <2>3. \A a, b \in legacy' : a.id = b.id => a = b
    OBVIOUS
  <2>4. ASSUME NEW n \in Store!Names, NEW m \in Store!Names, NEW a \in vault'[n],
               NEW b \in vault'[m], a.id = b.id
        PROVE  n = m /\ a = b
    <3>1. CASE a \in vault[n] /\ b \in vault[m]
      BY <2>4, <3>1
    <3>2. CASE a \notin vault[n] /\ b \in vault[m]
      BY <2>4, <3>2
    <3>3. CASE a \in vault[n] /\ b \notin vault[m]
      BY <2>4, <3>3
    <3>4. CASE a \notin vault[n] /\ b \notin vault[m]
      <4>1. PICK c \in mine, d \in mine : a = Moved(c) /\ b = Moved(d)
        BY <3>4
      <4>2. c = d /\ n = p /\ m = p
        BY <2>4, <3>4, <4>1
      <4> QED BY <4>1, <4>2
    <3> QED BY <3>1, <3>2, <3>3, <3>4
  <2>5. \A a \in legacy' : \A n \in Store!Names : \A b \in vault'[n] : a.id # b.id
    OBVIOUS
  <2> QED BY <2>1, <2>2, <2>3, <2>4, <2>5
<1>11. ASSUME made' = made PROVE StoreMade'
  <2>1. \A i : (\E a \in legacy' : a.id = i) \/ (\E n \in Store!Names : \E a \in vault'[n] : a.id = i)
           <=> (\E a \in legacy : a.id = i) \/ (\E n \in Store!Names : \E a \in vault[n] : a.id = i)
    <3>1. ASSUME NEW i, \E a \in legacy : a.id = i
          PROVE  (\E a \in legacy' : a.id = i) \/ (\E n \in Store!Names : \E a \in vault'[n] : a.id = i)
      <4>1. PICK a \in legacy : a.id = i
        BY <3>1
      <4>2. CASE a \in mine
        <5>1. Moved(a) \in vault'[p] /\ Moved(a).id = i
          BY <1>1, <1>3, <1>4, <4>1, <4>2
        <5> QED BY <1>1, <5>1
      <4>3. CASE a \notin mine
        BY <1>5, <4>1, <4>3
      <4> QED BY <4>2, <4>3
    <3>2. ASSUME NEW i, NEW n \in Store!Names, NEW b \in vault'[n], b.id = i, b \notin vault[n]
          PROVE  \E a \in legacy : a.id = i
      BY <1>3, <1>4, <1>6, <3>2
    <3>3. \A i : (\E n \in Store!Names : \E a \in vault[n] : a.id = i) =>
                 (\E n \in Store!Names : \E a \in vault'[n] : a.id = i)
      BY <1>4
    <3>4. \A i : (\E a \in legacy' : a.id = i) => \E a \in legacy : a.id = i
      BY <1>5
    <3> QED BY <3>1, <3>2, <3>3, <3>4
  <2> QED BY <1>11, <2>1 DEF StoreMade, StoreInv
<1> QED BY <1>7, <1>8, <1>9, <1>10, <1>11

LEMMA StorePrepares ==
  ASSUME StoreInv, Store!Prepared \/ Store!PrepareFails
  PROVE  StoreInv'
<1>1. /\ pop.pc = "prepare"
      /\ UNCHANGED <<dirs, made, litter, uids, chosen, pswitch>>
      /\ Store!PrepareProfileBackups(pop.name) \/ UNCHANGED <<legacy, vault>>
      /\ pop' = Store!IdleOp \/ (pop.kind \notin {"list", "find"} /\ pop' = [pop EXCEPT !.pc = pop.kind])
  BY DEF Store!Prepared, Store!PrepareFails, Store!OpEnds
<1>2. StoreTaken
  <2>1. CASE pop' = Store!IdleOp
    BY <1>1, <2>1 DEF StoreTaken, StoreInv, StoreGate, Store!IdleOp
  <2>2. CASE pop.kind \notin {"list", "find"} /\ pop' = [pop EXCEPT !.pc = pop.kind]
    <3>1. /\ pop'.kind = pop.kind /\ pop'.pc = pop.kind /\ pop'.name = pop.name /\ pop'.dest = pop.dest
          /\ pop' = [kind |-> pop'.kind, pc |-> pop'.pc, name |-> pop'.name, dest |-> pop'.dest,
                     arc |-> pop'.arc]
      BY <2>2 DEF StoreInv, StoreShape
    <3> QED BY <1>1, <2>2, <3>1 DEF StoreTaken, StoreInv, StoreGate, Store!InUse, Store!Exists
  <2> QED BY <1>1, <2>1, <2>2
<1>3. /\ vault' = [n \in Store!Names |-> vault'[n]]
      /\ \A n \in Store!Names : \A a \in vault'[n] : IsArchive(a)
      /\ \A a \in legacy' : IsArchive(a)
      /\ StoreNumbers' /\ StoreMade'
  <2>1. CASE Store!PrepareProfileBackups(pop.name)
    BY <1>1, <2>1, PrepareKeeps
  <2>2. CASE UNCHANGED <<legacy, vault>>
    BY <1>1, <2>2 DEF StoreInv, StoreShape, StoreNumbers, StoreMade
  <2> QED BY <1>1, <2>1, <2>2
<1>4. StoreShape'
  BY <1>1, <1>2, <1>3 DEF StoreInv, StoreShape, StoreTaken
<1>5. StoreWhole' /\ Store!ChosenIsKept'
  BY <1>1 DEF StoreInv, StoreWhole, Store!ChosenIsKept, Store!Exists
<1> QED BY <1>2, <1>3, <1>4, <1>5 DEF StoreInv, StoreTaken

\* The gate given back.
LEMMA StoreReleased ==
  ASSUME pop' = Store!IdleOp
  PROVE  StoreTaken
  BY DEF StoreTaken, StoreGate, Store!IdleOp

LEMMA StoreWrites == StoreInv /\ (\E ok \in BOOLEAN : Store!WriteArchive(ok)) => StoreInv'
<1> SUFFICES ASSUME StoreInv, NEW ok \in BOOLEAN, Store!WriteArchive(ok) PROVE StoreInv'
  OBVIOUS
<1> DEFINE p == pop.name
           arc == [id |-> uids + 1,
                   file |-> Store!Lowest(Files \ {a.file : a \in vault[pop.name]}),
                   ref |-> pop.name, of |-> dirs[pop.name].uid]
<1>1. /\ p \in Store!Names /\ pop.pc = "backup"
      /\ UNCHANGED <<dirs, legacy, litter, chosen, pswitch>> /\ pop' = Store!IdleOp
      /\ \/ /\ vault' = [vault EXCEPT ![p] = @ \cup {arc}]
            /\ made' = made \cup {arc.id}
            /\ uids' = uids + 1
         \/ UNCHANGED <<vault, made, uids>>
  BY DEF Store!WriteArchive, StoreInv, StoreGate, Store!OpEnds
<1>2. IsArchive(arc) /\ arc.id = uids + 1
  BY DEF IsArchive, StoreInv, StoreShape
<1>3. StoreTaken
  BY <1>1, StoreReleased
<1> HIDE DEF arc, p
<1>4. CASE vault' = [vault EXCEPT ![p] = @ \cup {arc}] /\ made' = made \cup {arc.id} /\ uids' = uids + 1
  <2>1. \A n \in Store!Names : \A b : b \in vault'[n] <=> b \in vault[n] \/ (n = p /\ b = arc)
    BY <1>1, <1>4 DEF StoreInv, StoreShape
  <2>2. StoreNumbers'
    BY <1>1, <1>2, <1>4, <2>1 DEF StoreInv, StoreNumbers, StoreShape, IsArchive
  <2>3. StoreMade'
    BY <1>1, <1>4, <2>1 DEF StoreInv, StoreMade
  <2>4. StoreShape'
    <3>1. vault' = [n \in Store!Names |-> vault'[n]]
      BY <1>4 DEF StoreInv, StoreShape
    <3>2. \A n \in Store!Names : \A a \in vault'[n] : IsArchive(a)
      BY <1>2, <2>1 DEF StoreInv, StoreShape
    <3>3. uids' \in Nat
      BY <1>4 DEF StoreInv, StoreShape
    <3> QED BY <1>1, <1>3, <3>1, <3>2, <3>3 DEF StoreInv, StoreShape, StoreTaken
  <2> QED BY <1>1, <1>3, <2>2, <2>3, <2>4
          DEF StoreInv, StoreTaken, StoreWhole, Store!ChosenIsKept, Store!Exists
<1>5. CASE UNCHANGED <<vault, made, uids>>
  BY <1>1, <1>3, <1>5, StoreStillKeeps DEF StoreStill
<1> QED BY <1>1, <1>4, <1>5

LEMMA StoreForgets == StoreInv /\ Store!ForgetArchive => StoreInv'
<1> SUFFICES ASSUME StoreInv, Store!ForgetArchive PROVE StoreInv'
  OBVIOUS
<1> DEFINE p == pop.name
           gone == {a \in vault[p] : a.file = pop.arc.file}
<1>1. /\ p \in Store!Names
      /\ UNCHANGED <<dirs, legacy, litter, uids, chosen, pswitch>> /\ pop' = Store!IdleOp
      /\ vault' = [vault EXCEPT ![p] = @ \ gone]
      /\ made' = made \ {a.id : a \in gone}
  BY DEF Store!ForgetArchive, StoreInv, StoreGate, Store!OpEnds
<1>2. gone \subseteq vault[p] /\ pop.pc = "forget"
  BY DEF Store!ForgetArchive
<1>3. StoreTaken
  BY <1>1, StoreReleased
<1> HIDE DEF p, gone
<1>4. \A n \in Store!Names : \A b : b \in vault'[n] <=> b \in vault[n] /\ ~(n = p /\ b \in gone)
  BY <1>1 DEF StoreInv, StoreShape
<1>5. \A i : i \in made' <=> i \in made /\ \A a \in gone : a.id # i
  BY <1>1
<1>6. StoreNumbers'
  BY <1>1, <1>4 DEF StoreInv, StoreNumbers
<1>7. StoreMade'
  BY <1>1, <1>2, <1>4, <1>5 DEF StoreInv, StoreMade, StoreNumbers
<1>8. StoreShape'
  <2>1. vault' = [n \in Store!Names |-> vault'[n]]
    BY <1>1 DEF StoreInv, StoreShape
  <2>2. \A n \in Store!Names : \A a \in vault'[n] : IsArchive(a)
    BY <1>4 DEF StoreInv, StoreShape
  <2> QED BY <1>1, <1>3, <2>1, <2>2 DEF StoreInv, StoreShape, StoreTaken
<1> QED BY <1>1, <1>2, <1>3, <1>6, <1>7, <1>8
        DEF StoreInv, StoreTaken, StoreWhole, Store!ChosenIsKept, Store!Exists

LEMMA StoreRemoves == StoreInv /\ (\E ok \in BOOLEAN : Store!RemoveProfile(ok)) => StoreInv'
<1> SUFFICES ASSUME StoreInv, NEW ok \in BOOLEAN, Store!RemoveProfile(ok) PROVE StoreInv'
  OBVIOUS
<1> DEFINE p == pop.name
<1>1. PICK left \in SUBSET vault[p] :
          /\ vault' = [vault EXCEPT ![p] = left]
          /\ made' = made \ {a.id : a \in vault[p] \ left}
  BY DEF Store!RemoveProfile
<1>2. /\ p \in Store!Names /\ pop.kind = "delete" /\ pop.pc = "delete" /\ ~Store!InUse(p)
      /\ UNCHANGED <<legacy, uids, chosen, pswitch>> /\ pop' = Store!IdleOp
      /\ dirs' = [dirs EXCEPT ![p] = IF ok THEN Store!NoDir ELSE [@ EXCEPT !.whole = FALSE]]
      /\ litter' = IF ok THEN litter ELSE litter \cup {dirs[p].uid}
      /\ pswitch.pc # "starting"
  BY DEF Store!RemoveProfile, StoreInv, StoreGate, Store!OpEnds
<1>3. StoreTaken
  BY <1>2, StoreReleased
<1> HIDE DEF p
<1>4. \A n \in Store!Names : \A b : b \in vault'[n] <=> b \in vault[n] /\ (n = p => b \in left)
  BY <1>1, <1>2 DEF StoreInv, StoreShape
<1>5. \A i : i \in made' <=> i \in made /\ \A a \in vault[p] \ left : a.id # i
  BY <1>1
<1>6. StoreNumbers'
  BY <1>2, <1>4 DEF StoreInv, StoreNumbers
<1>7. StoreMade'
  BY <1>2, <1>4, <1>5 DEF StoreInv, StoreMade, StoreNumbers
<1>8. /\ dirs' \in [Store!Names -> [uid : Nat, whole : BOOLEAN, faulty : BOOLEAN]]
      /\ \A n \in Store!Names \ {p} : dirs'[n] = dirs[n]
      /\ dirs'[p].uid = IF ok THEN 0 ELSE dirs[p].uid
  <2> DEFINE rest == IF ok THEN Store!NoDir ELSE [dirs[p] EXCEPT !.whole = FALSE]
  <2>1. dirs \in [Store!Names -> Dirs] /\ dirs[p] \in Dirs
    BY <1>2, DirsAre DEF StoreInv
  <2>2. rest \in Dirs /\ rest.uid = IF ok THEN 0 ELSE dirs[p].uid
    BY <2>1, WholeChanges, NoDirIs
  <2>3. dirs' = [dirs EXCEPT ![p] = rest]
    BY <1>2
  <2> HIDE DEF rest
  <2>4. p \in Store!Names /\ rest \in Dirs
    BY <1>2, <2>2
  <2>5. dirs' \in [Store!Names -> Dirs] /\ dirs'[p] = rest
        /\ \A n \in Store!Names : n # p => dirs'[n] = dirs[n]
    BY <2>1, <2>3, <2>4, DirChanges
  <2> QED BY <2>2, <2>5 DEF Dirs
<1>9. StoreShape'
  BY <1>1, <1>2, <1>3, <1>4, <1>8 DEF StoreInv, StoreShape, StoreTaken
<1>10. StoreWhole'
  <2>1. \A n \in Store!Names : n # p => (Store!Exists(n)' = Store!Exists(n))
    BY <1>8 DEF Store!Exists
  <2>2. ~ok => dirs'[p].uid \in litter'
    BY <1>2, <1>8
  <2>3. ok => ~(dirs'[p].uid # 0)
    BY <1>8
  <2> SUFFICES ASSUME NEW n \in Store!Names, dirs'[n].uid # 0, ~dirs'[n].whole
               PROVE  dirs'[n].uid \in litter'
    BY <1>2 DEF StoreWhole, Store!Exists
  <2>4. CASE n = p
    BY <2>2, <2>3, <2>4
  <2>5. CASE n # p
    BY <1>2, <1>8, <2>5 DEF StoreInv, StoreWhole, Store!Exists
  <2> QED BY <2>4, <2>5
<1>11. Store!ChosenIsKept'
  BY <1>2, <1>8 DEF StoreInv, Store!ChosenIsKept, Store!Exists, Store!InUse
<1> QED BY <1>3, <1>6, <1>7, <1>9, <1>10, <1>11 DEF StoreInv, StoreTaken

\* A directory appears, or one that is being filled is finished or given up.
LEMMA StoreBuilds ==
  ASSUME StoreInv,
         \/ Store!CloneBegins \/ Store!PublishRestored \/ Store!DisableFaultPlugin
         \/ \E ok, cleaned \in BOOLEAN : Store!CloneEnds(ok, cleaned)
  PROVE  StoreInv'
<1>1. CASE Store!CloneBegins
  <2> DEFINE d == pop.dest
  <2>1. /\ pop.kind = "clone" /\ pop.pc = "mkdir" /\ d \in Store!Names /\ ~Store!InUse(d)
        /\ dirs' = [dirs EXCEPT ![d] = [uid |-> uids + 1, whole |-> FALSE,
                                        faulty |-> dirs[pop.name].faulty]]
        /\ pop' = [pop EXCEPT !.pc = "copy"] /\ uids' = uids + 1
        /\ UNCHANGED <<vault, legacy, chosen, pswitch, made, litter>>
    BY <1>1 DEF Store!CloneBegins, StoreInv, StoreGate
  <2>2. /\ pop'.kind = "clone" /\ pop'.pc = "copy" /\ pop'.dest = d
        /\ pop' = [kind |-> pop'.kind, pc |-> pop'.pc, name |-> pop'.name, dest |-> pop'.dest,
                   arc |-> pop'.arc]
    BY <2>1 DEF StoreInv, StoreShape
  <2> HIDE DEF d
  <2>3. \A n \in Store!Names : n # d => dirs'[n] = dirs[n]
    BY <2>1 DEF StoreInv, StoreShape
  <2>4. dirs'[d].uid = uids + 1 /\ uids + 1 # 0
    BY <2>1 DEF StoreInv, StoreShape
  <2> QED
    <3>1. StoreGate'
      BY <2>1, <2>2 DEF StoreInv, StoreGate, Store!InUse
    <3>2. StoreNumbers' /\ StoreMade'
      BY <2>1 DEF StoreInv, StoreShape, StoreNumbers, StoreMade, IsArchive
    <3>3. StoreWhole'
      BY <2>1, <2>2, <2>3 DEF StoreInv, StoreWhole, Store!Exists
    <3>4. Store!ChosenIsKept'
      BY <2>1, <2>3, <2>4 DEF StoreInv, Store!ChosenIsKept, Store!Exists
    <3>5. dirs[pop.name].faulty \in BOOLEAN => StoreShape'
      BY <2>1, <2>2 DEF StoreInv, StoreShape
    <3>6. dirs[pop.name].faulty \in BOOLEAN
      BY <2>1 DEF StoreInv, StoreShape, StoreGate
    <3> QED BY <3>1, <3>2, <3>3, <3>4, <3>5, <3>6 DEF StoreInv
<1>2. CASE Store!PublishRestored
  <2> DEFINE d == Store!NextProfileName(RestoredNames)
  <2>1. /\ pop.pc = "stage"
        /\ dirs' = [dirs EXCEPT ![d] = [uid |-> uids + 1, whole |-> TRUE, faulty |-> TRUE]]
        /\ pop' = Store!IdleOp /\ uids' = uids + 1
        /\ UNCHANGED <<vault, legacy, chosen, pswitch, made, litter>>
    BY <1>2 DEF Store!PublishRestored, Store!OpEnds
  <2>2. StoreTaken
    BY <2>1, StoreReleased
  <2> HIDE DEF d
  <2>3. \A n \in Store!Names : dirs'[n] = dirs[n] \/ (dirs'[n].uid = uids + 1 /\ dirs'[n].whole)
    BY <2>1 DEF StoreInv, StoreShape
  <2>4. dirs' \in [Store!Names -> [uid : Nat, whole : BOOLEAN, faulty : BOOLEAN]] /\ uids + 1 \in Nat
        /\ uids + 1 # 0
    <3> DEFINE new == [uid |-> uids + 1, whole |-> TRUE, faulty |-> TRUE]
    <3>1. new \in Dirs /\ uids + 1 \in Nat /\ uids + 1 # 0
      BY DEF StoreInv, StoreShape, Dirs
    <3>2. dirs' = [dirs EXCEPT ![d] = new] /\ dirs \in [Store!Names -> Dirs]
      BY <2>1, DirsAre DEF StoreInv
    <3> HIDE DEF new
    <3>3. dirs' \in [Store!Names -> Dirs]
      BY <3>1, <3>2
    <3> QED BY <3>1, <3>3 DEF Dirs
  <2>5. StoreShape'
    BY <2>1, <2>2, <2>4 DEF StoreInv, StoreShape, StoreTaken
  <2>6. StoreNumbers' /\ StoreMade'
    BY <2>1 DEF StoreInv, StoreShape, StoreNumbers, StoreMade, IsArchive
  <2>7. StoreWhole' /\ Store!ChosenIsKept'
    BY <2>1, <2>3, <2>4 DEF StoreInv, StoreWhole, Store!ChosenIsKept, Store!Exists
  <2> QED BY <2>2, <2>5, <2>6, <2>7 DEF StoreInv, StoreTaken
<1>3. CASE Store!DisableFaultPlugin
  <2>1. /\ dirs' = [dirs EXCEPT ![chosen["failed"]].faulty = FALSE]
        /\ UNCHANGED <<vault, legacy, chosen, pswitch, made, litter, uids, pop>>
    BY <1>3 DEF Store!DisableFaultPlugin
  <2>2. /\ dirs' \in [Store!Names -> [uid : Nat, whole : BOOLEAN, faulty : BOOLEAN]]
        /\ \A n \in Store!Names : dirs'[n].uid = dirs[n].uid /\ dirs'[n].whole = dirs[n].whole
    <3> DEFINE d == chosen["failed"]
               new == [dirs[d] EXCEPT !.faulty = FALSE]
    <3>1. dirs' = [dirs EXCEPT ![d] = new] /\ dirs \in [Store!Names -> Dirs]
      BY <2>1, DirsAre DEF StoreInv
    <3>2. d \in Store!Names /\ dirs[d] \in Dirs
      <4>1. d # Store!NoName /\ d \in Store!Names \cup {Store!NoName}
        BY <1>3 DEF Store!DisableFaultPlugin, StoreInv, StoreShape
      <4> QED BY <3>1, <4>1
    <3>3. new \in Dirs /\ new.uid = dirs[d].uid /\ new.whole = dirs[d].whole
      BY <3>2, FaultyChanges
    <3> HIDE DEF d, new
    <3> QED BY <3>1, <3>2, <3>3, DirChanges DEF Dirs
  <2>3. \A n \in Store!Names : Store!Exists(n)' = Store!Exists(n)
    BY <2>2 DEF Store!Exists
  <2>4. StoreShape' /\ StoreNumbers' /\ StoreMade'
    BY <2>1, <2>2 DEF StoreInv, StoreShape, StoreNumbers, StoreMade
  <2>5. StoreGate'
    BY <2>1, <2>3 DEF StoreInv, StoreGate, Store!InUse
  <2>6. StoreWhole'
    BY <2>1, <2>2, <2>3 DEF StoreInv, StoreWhole
  <2>7. Store!ChosenIsKept'
    <3>1. pswitch' = pswitch
      BY <1>3 DEF Store!DisableFaultPlugin
    <3>2. \A r \in Store!Roles : chosen[r] # Store!NoName => chosen[r] \in Store!Names
      BY DEF StoreInv, StoreShape
    <3>3. pswitch.to \in Store!Names \/ pswitch.to = Store!NoName
      BY DEF StoreInv, StoreShape
    <3>4. \A n : dirs'[n].uid # 0 <=> dirs[n].uid # 0
      <4> SUFFICES ASSUME NEW n, n \notin Store!Names PROVE dirs'[n] = dirs[n]
        BY <2>2
      <4> QED BY <2>1 DEF StoreInv, StoreShape
    <3> QED BY <2>1, <3>1, <3>4 DEF StoreInv, Store!ChosenIsKept, Store!Exists
  <2> QED BY <2>4, <2>5, <2>6, <2>7 DEF StoreInv
<1>4. ASSUME NEW ok \in BOOLEAN, NEW cleaned \in BOOLEAN, Store!CloneEnds(ok, cleaned)
      PROVE StoreInv'
  <2> DEFINE d == pop.dest
             w == dirs[pop.name].whole
  <2>1. /\ pop.kind = "clone" /\ pop.pc = "copy" /\ d \in Store!Names /\ ~Store!InUse(d)
        /\ pswitch.pc # "starting"
        /\ dirs' = [dirs EXCEPT ![d] = IF ok THEN [@ EXCEPT !.whole = w]
                                       ELSE IF cleaned THEN Store!NoDir ELSE @]
        /\ litter' = IF (ok /\ w) \/ (~ok /\ cleaned) THEN litter ELSE litter \cup {dirs[d].uid}
        /\ pop' = Store!IdleOp
        /\ UNCHANGED <<vault, legacy, chosen, pswitch, made, uids>>
    BY <1>4 DEF Store!CloneEnds, StoreInv, StoreGate, Store!OpEnds
  <2>2. StoreTaken
    BY <2>1, StoreReleased
  <2>3. w \in BOOLEAN
    BY <2>1 DEF StoreInv, StoreShape, StoreGate
  <2> HIDE DEF d, w
  <2>4. \A n \in Store!Names : n # d => dirs'[n] = dirs[n]
    BY <2>1 DEF StoreInv, StoreShape
  <2>5. /\ dirs' \in [Store!Names -> [uid : Nat, whole : BOOLEAN, faulty : BOOLEAN]]
        /\ dirs'[d].uid = IF ~ok /\ cleaned THEN 0 ELSE dirs[d].uid
        /\ ok => dirs'[d].whole = w
    <3> DEFINE new == IF ok THEN [dirs[d] EXCEPT !.whole = w]
                      ELSE IF cleaned THEN Store!NoDir ELSE dirs[d]
    <3>1. dirs \in [Store!Names -> Dirs] /\ dirs[d] \in Dirs
      BY <2>1, DirsAre DEF StoreInv
    <3>2. /\ new \in Dirs /\ new.uid = IF ~ok /\ cleaned THEN 0 ELSE dirs[d].uid
          /\ ok => new.whole = w
      BY <2>3, <3>1, WholeChanges, NoDirIs
    <3>3. dirs' = [dirs EXCEPT ![d] = new]
      BY <2>1
    <3> HIDE DEF new
    <3> QED BY <2>1, <3>1, <3>2, <3>3, DirChanges DEF Dirs
  <2>6. StoreShape' /\ StoreNumbers' /\ StoreMade'
    BY <2>1, <2>2, <2>5 DEF StoreInv, StoreShape, StoreNumbers, StoreMade, StoreTaken
  <2>7. StoreWhole'
    <3>1. dirs'[d].uid # 0 /\ ~dirs'[d].whole => dirs'[d].uid \in litter'
      BY <2>1, <2>3, <2>5
    <3>2. litter \subseteq litter' /\ pop.dest = d
      BY <2>1 DEF d
    <3> SUFFICES ASSUME NEW n \in Store!Names, dirs'[n].uid # 0, ~dirs'[n].whole
                 PROVE  dirs'[n].uid \in litter'
      BY DEF StoreWhole, Store!Exists
    <3>3. CASE n = d
      BY <3>1, <3>3
    <3>4. CASE n # d
      BY <2>4, <3>2, <3>4 DEF StoreInv, StoreWhole, Store!Exists
    <3> QED BY <3>3, <3>4
  <2>8. Store!ChosenIsKept'
    BY <2>1, <2>4 DEF StoreInv, Store!ChosenIsKept, Store!Exists, Store!InUse
  <2> QED BY <2>2, <2>6, <2>7, <2>8 DEF StoreInv, StoreTaken
<1> QED BY <1>1, <1>2, <1>3, <1>4

\* The switch, and the death of the process.
LEMMA StoreSwitches ==
  ASSUME StoreInv,
         \/ \E n \in Store!Names : Store!BeginSwitch(n)
         \/ Store!PrepareRunContext \/ Store!CommitHealthy \/ Store!CrashStore
         \/ \E ok \in BOOLEAN : Store!SwitchFails(ok)
  PROVE  StoreInv'
<1> USE DEF StoreInv, StoreShape, StoreGate, StoreNumbers, StoreMade, StoreWhole,
            Store!ChosenIsKept, Store!Exists, Store!InUse
<1>1. CASE \E n \in Store!Names : Store!BeginSwitch(n)
  BY <1>1 DEF Store!BeginSwitch
<1>2. CASE Store!PrepareRunContext
  BY <1>2 DEF Store!PrepareRunContext
<1>3. CASE Store!CommitHealthy
  BY <1>3 DEF Store!CommitHealthy
<1>4. CASE Store!CrashStore
  BY <1>4 DEF Store!CrashStore, Store!IdleOp
<1>5. CASE \E ok \in BOOLEAN : Store!SwitchFails(ok)
  BY <1>5 DEF Store!SwitchFails
<1> QED BY <1>1, <1>2, <1>3, <1>4, <1>5

LEMMA StoreStep == StoreInv /\ [Store!Next]_storeVars => StoreInv'
<1> SUFFICES ASSUME StoreInv, [Store!Next]_storeVars PROVE StoreInv'
  OBVIOUS
<1>1. CASE Store!Next
  BY <1>1, StoreCalls, StorePrepares, StoreWrites, StoreForgets, StoreRemoves, StoreBuilds,
     StoreSwitches DEF Store!Next
<1>2. CASE UNCHANGED storeVars
  BY <1>2 DEF storeVars, StoreInv, StoreShape, StoreGate, StoreNumbers, StoreMade, StoreWhole,
     Store!ChosenIsKept, Store!Exists, Store!InUse
<1> QED BY <1>1, <1>2

\* What the invariant says of the profiles.
LEMMA StoreSafe ==
  ASSUME StoreInv
  PROVE  Store!ChosenIsKept /\ Store!NoBackupLost /\ Store!ProfilesAreWhole
<1>1. Store!NoBackupLost
  BY DEF StoreInv, StoreMade, Store!NoBackupLost
<1>2. Store!ProfilesAreWhole
  BY DEF StoreInv, StoreWhole, StoreGate, Store!ProfilesAreWhole
<1> QED BY <1>1, <1>2 DEF StoreInv

-----------------------------------------------------------------------------
(* The composition.                                                        *)

\* One component runs, and its steps are the steps of its own specification.
LEMMA ProfileSteps ==
  ASSUME [DesktopNext]_DesktopVars
  PROVE  /\ part' = part
         /\ part = "import" => [Import!ImportNext]_importVars
         /\ part = "store" => [Store!Next]_storeVars
<1>1. CASE DesktopNext
  BY <1>1 DEF DesktopNext, QuitNext, UpdateNext, PublishNext, AskNext, UINext, PrefsNext,
              StorageNext, ActivityNext, JobNext, ImportNext, StoreNext, AcquireNext
<1>2. CASE UNCHANGED DesktopVars
  BY <1>2 DEF DesktopVars
<1>3. QED
  BY <1>1, <1>2

ProfilesInv ==
    /\ part = "import" => ImportInv
    /\ part = "store" => StoreInv

\* The user's profiles, for any keys, workspaces, names and files and any number of
\* operations, failures and crashes: an import, failed, repeated or interrupted, replaces no
\* credential, session or patch row of the managed profile and loses no workspace
\* (app_profile_migration.go:205-253, 647-714); a profile some context names is never deleted,
\* no backup is lost by the move into its profile, and with the gate free only whole profiles
\* are shown, but for those whose removal failed (profile_operations.go:81-160,
\* profile_restore.go:90-434).
THEOREM ProfilesKept == DesktopSpec => []ProfilesAreKept
<1>1. DesktopInit => ProfilesInv
  BY ImportStarts, StoreStart DEF DesktopInit, ProfilesInv
<1>2. ProfilesInv /\ [DesktopNext]_DesktopVars => ProfilesInv'
  BY ProfileSteps, ImportStep, StoreStep DEF ProfilesInv
<1>3. ProfilesInv => ProfilesAreKept
  BY ImportSafe, StoreSafe DEF ProfilesInv, ProfilesAreKept
<1>4. QED
  BY <1>1, <1>2, <1>3, PTL DEF DesktopSpec
=============================================================================
