--------------------------- MODULE BalanceProofs ---------------------------
(***************************************************************************)
(* What holds of Balance for all disks, directories, assets, sizes, ages   *)
(* and settings.                                                           *)
(***************************************************************************)
EXTENDS Balance, FiniteSetTheorems, WellFoundedInduction, TLAPS

----------------------------------------------------------------------------
\* The weight of a set of assets is a number of units: each asset has as many
\* as its size.

Units(S) == {u \in Assets \X Nat : u[1] \in S /\ 1 <= u[2] /\ u[2] <= Size[u[1]]}

LEMMA UnitsOfOne ==
  ASSUME NEW a \in Assets
  PROVE  IsFiniteSet(Units({a})) /\ Cardinality(Units({a})) = Size[a]
  <1>1. Size[a] \in Nat
    BY AssetAssumption
  <1>2. Units({a}) = {a} \X (1 .. Size[a])
    <2>1. ASSUME NEW u \in Units({a}) PROVE u \in {a} \X (1 .. Size[a])
      BY <1>1, <2>1 DEF Units
    <2>2. ASSUME NEW u \in {a} \X (1 .. Size[a]) PROVE u \in Units({a})
      BY <1>1, <2>2 DEF Units
    <2> QED
      BY <2>1, <2>2
  <1>3. IsFiniteSet({a}) /\ Cardinality({a}) = 1
    BY FS_Singleton
  <1>4. IsFiniteSet(1 .. Size[a]) /\ Cardinality(1 .. Size[a]) = Size[a]
    BY <1>1, FS_Interval
  <1> DEFINE A == {a}
             N == 1 .. Size[a]
  <1>5. IsFiniteSet(A) /\ IsFiniteSet(N) /\ Cardinality(A) = 1 /\ Cardinality(N) = Size[a]
    BY <1>3, <1>4
  <1> HIDE DEF A, N
  <1>6. IsFiniteSet(A \X N) /\ Cardinality(A \X N) = Cardinality(A) * Cardinality(N)
    BY <1>5, FS_Product
  <1>7. Cardinality(A \X N) = Size[a]
    BY <1>1, <1>5, <1>6
  <1> QED
    BY <1>2, <1>6, <1>7 DEF A, N

LEMMA UnitsOfNone == Units({}) = {} /\ IsFiniteSet(Units({})) /\ Cardinality(Units({})) = 0
  <1>1. Units({}) = {}
    BY DEF Units
  <1> QED
    BY <1>1, FS_EmptySet

LEMMA UnitsOfMore ==
  ASSUME NEW S \in SUBSET Assets, NEW a \in Assets, a \notin S, IsFiniteSet(Units(S))
  PROVE  /\ IsFiniteSet(Units(S \union {a}))
         /\ Cardinality(Units(S \union {a})) = Cardinality(Units(S)) + Size[a]
  <1>1. Units(S \union {a}) = Units(S) \union Units({a})
    BY DEF Units
  <1>2. Units(S) \intersect Units({a}) = {}
    BY DEF Units
  <1>3. IsFiniteSet(Units({a})) /\ Cardinality(Units({a})) = Size[a]
    BY UnitsOfOne
  <1>4. Cardinality(Units(S)) \in Nat /\ Size[a] \in Nat
    BY FS_CardinalityType, AssetAssumption
  <1> HIDE DEF Units
  <1>5. /\ IsFiniteSet(Units(S) \union Units({a}))
        /\ Cardinality(Units(S) \union Units({a})) =
             Cardinality(Units(S)) + Cardinality(Units({a}))
                - Cardinality(Units(S) \intersect Units({a}))
    BY <1>3, FS_Union
  <1>6. Cardinality(Units(S) \intersect Units({a})) = 0
    BY <1>2, FS_EmptySet
  <1>7. Cardinality(Units(S) \union Units({a})) = Cardinality(Units(S)) + Size[a]
    BY <1>3, <1>4, <1>5, <1>6
  <1> QED
    BY <1>1, <1>5, <1>7

\* A smallest set with infinitely many units would have a smaller one.
LEMMA UnitsFinite ==
  ASSUME NEW S \in SUBSET Assets
  PROVE  IsFiniteSet(Units(S))
  <1> DEFINE Bad == {K \in FiniteSubsetsOf(Assets) : ~IsFiniteSet(Units(K))}
  <1>1. SUFFICES ASSUME ~IsFiniteSet(Units(S))
                 PROVE  FALSE
    OBVIOUS
  <1>2. S \in Bad
    BY <1>1, FiniteAssumption, FS_Subset DEF FiniteSubsetsOf
  <1>3. PICK K \in Bad : \A L \in Bad : <<L, K>> \notin StrictSubsetOrdering(Assets)
    <2> HIDE DEF Bad
    <2>1. IsWellFoundedOn(StrictSubsetOrdering(Assets), FiniteSubsetsOf(Assets))
      BY FS_StrictSubsetOrderingWellFounded
    <2>2. Bad \subseteq FiniteSubsetsOf(Assets)
      BY DEF Bad
    <2> QED
      BY <1>2, <2>1, <2>2, WFMin
  <1>4. K \in SUBSET Assets /\ IsFiniteSet(K) /\ ~IsFiniteSet(Units(K))
    BY <1>3 DEF FiniteSubsetsOf
  <1>5. K # {}
    BY <1>4, UnitsOfNone
  <1>6. PICK a \in K : TRUE
    BY <1>5
  <1>7. <<K \ {a}, K>> \in StrictSubsetOrdering(Assets)
    BY <1>4, <1>6 DEF StrictSubsetOrdering
  <1>8. IsFiniteSet(K \ {a})
    BY <1>4, FS_RemoveElement
  <1>9. IsFiniteSet(Units(K \ {a}))
    BY <1>3, <1>4, <1>7, <1>8 DEF FiniteSubsetsOf
  <1> DEFINE L == K \ {a}
  <1>10. L \in SUBSET Assets /\ a \in Assets /\ a \notin L /\ L \union {a} = K
         /\ IsFiniteSet(Units(L))
    BY <1>4, <1>6, <1>9
  <1> HIDE DEF L
  <1> QED
    BY <1>4, <1>10, UnitsOfMore

\* The function MapThenSumSet makes of the sizes.
Sums(f, S) == f = [s \in SUBSET S |->
                     IF s = {} THEN 0
                     ELSE LET x == CHOOSE x \in s : TRUE
                          IN  Size[x] + f[s \ {x}]]

LEMMA WeightIsUnits ==
  ASSUME NEW S \in SUBSET Assets
  PROVE  Weight(S) = Cardinality(Units(S))
  <1> DEFINE g == [s \in SUBSET S |-> Cardinality(Units(s))]
             f == CHOOSE h : Sums(h, S)
  <1>1. ASSUME NEW s \in SUBSET S, NEW x \in s
        PROVE  Cardinality(Units(s)) = Size[x] + Cardinality(Units(s \ {x}))
    <2> DEFINE L == s \ {x}
    <2>1. L \in SUBSET Assets /\ x \in Assets /\ x \notin L /\ L \union {x} = s
          /\ IsFiniteSet(Units(L))
      BY <1>1, UnitsFinite
    <2> HIDE DEF L
    <2>2. Cardinality(Units(L \union {x})) = Cardinality(Units(L)) + Size[x]
      BY <2>1, UnitsOfMore
    <2>3. Cardinality(Units(L)) \in Nat /\ Size[x] \in Nat
      BY <2>1, FS_CardinalityType, AssetAssumption
    <2>4. Cardinality(Units(L \union {x})) = Size[x] + Cardinality(Units(L))
      BY <2>2, <2>3
    <2> QED
      BY <2>1, <2>4 DEF L
  <1>2. \A s \in SUBSET S : s # {} => (CHOOSE x \in s : TRUE) \in s
    OBVIOUS
  <1>3. Sums(g, S)
    <2>1. ASSUME NEW s \in SUBSET S
          PROVE  g[s] = IF s = {} THEN 0
                        ELSE LET x == CHOOSE x \in s : TRUE IN Size[x] + g[s \ {x}]
      <3>1. CASE s = {}
        BY <3>1, UnitsOfNone
      <3>2. CASE s # {}
        <4> DEFINE x == CHOOSE y \in s : TRUE
        <4>1. x \in s
          BY <1>2, <3>2
        <4> HIDE DEF x
        <4>2. Cardinality(Units(s)) = Size[x] + Cardinality(Units(s \ {x}))
          BY <1>1, <4>1
        <4>3. g[s] = Size[x] + g[s \ {x}]
          BY <4>2
        <4> QED
          BY <3>2, <4>3 DEF x
      <3> QED
        BY <3>1, <3>2
    <2>2. g = [s \in SUBSET S |-> g[s]]
      OBVIOUS
    <2> HIDE DEF g
    <2> QED
      BY <2>1, <2>2, Zenon DEF Sums
  <1>4. Sums(f, S)
    <2> HIDE DEF g
    <2> QED
      BY <1>3
  <1>5. Weight(S) = f[S]
    BY Zenon DEF Weight, MapThenSumSet, MapThenFoldSet, Sums
  <1> HIDE DEF f, g
  <1> DEFINE Bad == {K \in FiniteSubsetsOf(S) : f[K] # Cardinality(Units(K))}
  <1>6. SUFFICES ASSUME f[S] # Cardinality(Units(S))
                 PROVE  FALSE
    BY <1>5
  <1>7. S \in Bad
    BY <1>6, FiniteAssumption, FS_Subset DEF FiniteSubsetsOf
  <1>8. PICK K \in Bad : \A L \in Bad : <<L, K>> \notin StrictSubsetOrdering(S)
    <2> HIDE DEF Bad
    <2>1. IsWellFoundedOn(StrictSubsetOrdering(S), FiniteSubsetsOf(S))
      BY FS_StrictSubsetOrderingWellFounded
    <2>2. Bad \subseteq FiniteSubsetsOf(S)
      BY DEF Bad
    <2> QED
      BY <1>7, <2>1, <2>2, WFMin
  <1>9. K \in SUBSET S /\ IsFiniteSet(K) /\ f[K] # Cardinality(Units(K))
    BY <1>8 DEF FiniteSubsetsOf
  <1> DEFINE x == CHOOSE x \in K : TRUE
  <1>10. f[K] = IF K = {} THEN 0 ELSE Size[x] + f[K \ {x}]
    BY <1>4, <1>9 DEF Sums
  <1>11. K # {} /\ x \in K
    BY <1>2, <1>9, <1>10, UnitsOfNone
  <1> HIDE DEF x
  <1>12. <<K \ {x}, K>> \in StrictSubsetOrdering(S)
    BY <1>9, <1>11 DEF StrictSubsetOrdering
  <1>13. IsFiniteSet(K \ {x})
    BY <1>9, FS_RemoveElement
  <1>14. f[K \ {x}] = Cardinality(Units(K \ {x}))
    BY <1>8, <1>9, <1>12, <1>13 DEF FiniteSubsetsOf
  <1> QED
    BY <1>1, <1>9, <1>10, <1>11, <1>14

\* So weights add up.
LEMMA WeightFacts ==
  ASSUME NEW S \in SUBSET Assets
  PROVE  /\ Weight(S) \in Nat
         /\ \A T \in SUBSET S : Weight(T) <= Weight(S)
         /\ \A a \in Assets \ S : Weight(S \union {a}) = Weight(S) + Size[a]
         /\ \A a \in S : Weight(S \ {a}) = Weight(S) - Size[a]
         /\ \A a \in Assets : Size[a] \in Nat
  <1>1. \A T \in SUBSET Assets : Weight(T) = Cardinality(Units(T)) /\ IsFiniteSet(Units(T))
    BY WeightIsUnits, UnitsFinite
  <1>2. \A a \in Assets : Size[a] \in Nat
    BY AssetAssumption
  <1>3. \A T \in SUBSET Assets : Weight(T) \in Nat
    BY <1>1, FS_CardinalityType
  <1>4. ASSUME NEW T \in SUBSET S PROVE Weight(T) <= Weight(S)
    <2>1. Units(T) \in SUBSET Units(S)
      BY DEF Units
    <2>2. Cardinality(Units(T)) <= Cardinality(Units(S))
      BY <1>1, <2>1, FS_Subset
    <2> QED
      BY <1>1, <2>2
  <1>5. ASSUME NEW U \in SUBSET Assets, NEW a \in Assets, a \notin U
        PROVE  Weight(U \union {a}) = Weight(U) + Size[a]
    <2>1. Cardinality(Units(U \union {a})) = Cardinality(Units(U)) + Size[a]
      BY <1>1, <1>5, UnitsOfMore
    <2> DEFINE V == U \union {a}
    <2>2. V \in SUBSET Assets
      BY <1>5
    <2>3. Weight(V) = Cardinality(Units(V))
      BY <1>1, <2>2
    <2> QED
      BY <1>1, <2>1, <2>3
  <1>6. ASSUME NEW a \in S PROVE Weight(S \ {a}) = Weight(S) - Size[a]
    <2> DEFINE U == S \ {a}
    <2>1. U \in SUBSET Assets /\ a \in Assets /\ a \notin U /\ U \union {a} = S
      OBVIOUS
    <2> HIDE DEF U
    <2>2. Weight(S) = Weight(U) + Size[a] /\ Weight(U) \in Nat /\ Size[a] \in Nat
      BY <1>2, <1>3, <1>5, <2>1
    <2>3. Weight(U) = Weight(S) - Size[a]
      BY <2>2
    <2> QED
      BY <2>3 DEF U
  <1> QED
    BY <1>2, <1>3, <1>4, <1>5, <1>6

\* An asset more adds at most its size.
LEMMA WeightMore ==
  ASSUME NEW S \in SUBSET Assets, NEW T \in SUBSET Assets, NEW a \in Assets,
         T \subseteq S \union {a}
  PROVE  /\ Weight(S) \in Nat /\ Weight(T) \in Nat /\ Size[a] \in Nat
         /\ Weight(T) <= Weight(S) + Size[a]
  <1>1. Weight(S) \in Nat /\ Weight(T) \in Nat /\ Size[a] \in Nat
    BY WeightFacts
  <1>2. PICK U \in SUBSET Assets : U = S \union {a}
    OBVIOUS
  <1>3. Weight(T) <= Weight(U) /\ Weight(U) \in Nat
    BY <1>2, WeightFacts
  <1>4. CASE a \in S
    <2>1. U = S
      BY <1>2, <1>4
    <2> QED
      BY <1>1, <1>3, <2>1
  <1>5. CASE a \notin S
    <2>1. Weight(U) = Weight(S) + Size[a]
      BY <1>2, <1>5, WeightFacts
    <2> QED
      BY <1>1, <1>3, <2>1
  <1> QED
    BY <1>4, <1>5

\* A set of numbers that is not empty has a least one.
LEMMA MinIn ==
  ASSUME NEW S \in SUBSET Nat, S # {}
  PROVE  Min(S) \in S
  <1>1. PICK x \in S : \A y \in S : <<y, x>> \notin OpToRel(<, Nat)
    <2> DEFINE R == OpToRel(<, Nat)
    <2>1. IsWellFoundedOn(R, Nat)
      BY NatLessThanWellFounded
    <2> HIDE DEF R
    <2>2. \E x \in S : \A y \in S : ~(<<y, x>> \in R)
      BY <2>1, WFMin
    <2> QED
      BY <2>2 DEF R
  <1>2. \A y \in S : ~(y < x)
    BY <1>1, Zenon DEF OpToRel
  <1>3. \A y \in S : x <= y
    BY <1>2
  <1> QED
    BY <1>3 DEF Min

----------------------------------------------------------------------------
\* Space.

\* The space of a disk changes only with what is on it.
LEMMA FreeSame ==
  ASSUME NEW d \in Disks, at'[d] = at[d], waste'[d] = waste[d]
  PROVE  Free(d)' = Free(d)
  BY DEF Free

LEMMA FreeFacts ==
  ASSUME TypeOK, NEW d \in Disks
  PROVE  /\ Free(d) \in Nat
         /\ Weight(at[d]) \in Nat /\ waste[d] \in Nat /\ Room[d] \in Nat
         /\ at[d] \in SUBSET Assets
  <1>1. at[d] \in SUBSET Assets /\ waste[d] \in Nat /\ Room[d] \in Nat /\ Free(d) >= 0
    BY DiskAssumption DEF TypeOK
  <1>2. Weight(at[d]) \in Nat
    BY <1>1, WeightFacts
  <1>3. Free(d) \in Int
    BY <1>1, <1>2 DEF Free
  <1> QED
    BY <1>1, <1>2, <1>3

\* A file takes its size.
LEMMA FreeLess ==
  ASSUME TypeOK, NEW d \in Disks, NEW a \in Assets, a \notin at[d],
         at'[d] = at[d] \union {a}, waste'[d] = waste[d]
  PROVE  Free(d)' = Free(d) - Size[a] /\ Size[a] \in Nat
  <1>1. Weight(at[d] \union {a}) = Weight(at[d]) + Size[a] /\ Size[a] \in Nat
    BY FreeFacts, WeightFacts
  <1>2. Free(d)' = Room[d] - Weight(at[d] \union {a}) - waste[d]
    BY DEF Free
  <1> QED
    BY <1>1, <1>2, FreeFacts DEF Free

LEMMA FreeMore ==
  ASSUME TypeOK, NEW d \in Disks, at'[d] \subseteq at[d], waste'[d] = waste[d]
  PROVE  Free(d)' >= Free(d) /\ Free(d)' \in Nat
  <1>1. at[d] \in SUBSET Assets
    BY FreeFacts
  <1>2. Weight(at'[d]) <= Weight(at[d]) /\ Weight(at'[d]) \in Nat
    BY <1>1, WeightFacts
  <1>3. Free(d)' = Room[d] - Weight(at'[d]) - waste[d]
    BY DEF Free
  <1> QED
    BY <1>2, <1>3, FreeFacts DEF Free

\* A removed file gives its size back.
LEMMA FreeBack ==
  ASSUME TypeOK, NEW d \in Disks, NEW a \in Assets, a \in at[d],
         at'[d] = at[d] \ {a}, waste'[d] = waste[d]
  PROVE  Free(d)' = Free(d) + Size[a] /\ Size[a] \in Nat
  <1>1. Weight(at[d] \ {a}) = Weight(at[d]) - Size[a] /\ Size[a] \in Nat
    BY FreeFacts, WeightFacts
  <1>2. Free(d)' = Room[d] - Weight(at[d] \ {a}) - waste[d]
    BY DEF Free
  <1> QED
    BY <1>1, <1>2, FreeFacts DEF Free

\* A file is written where there is room, or written over.
LEMMA FreeAfterWrite ==
  ASSUME TypeOK, NEW d \in Disks, NEW a \in Assets,
         a \in at[d] \/ Size[a] <= Free(d),
         at' = [at EXCEPT ![d] = @ \union {a}], waste' = waste
  PROVE  /\ at' \in [Disks -> SUBSET Assets]
         /\ \A e \in Disks : Free(e)' >= 0
  <1>1. at'[d] = at[d] \union {a} /\ \A e \in Disks : e # d => at'[e] = at[e]
    BY DEF TypeOK
  <1>2. \A e \in Disks : e # d => Free(e)' = Free(e)
    BY <1>1, FreeSame
  <1>3. Free(d)' >= 0
    <2>1. CASE a \in at[d]
      <3>1. at'[d] = at[d]
        BY <1>1, <2>1
      <3>2. Free(d)' = Free(d)
        BY <3>1, FreeSame
      <3> QED
        BY <3>2, FreeFacts
    <2>2. CASE a \notin at[d]
      <3>1. Free(d)' = Free(d) - Size[a] /\ Size[a] \in Nat
        BY <1>1, <2>2, FreeLess
      <3> QED
        BY <2>2, <3>1, FreeFacts
    <2> QED
      BY <2>1, <2>2
  <1>4. at' \in [Disks -> SUBSET Assets]
    BY DEF TypeOK
  <1> QED
    BY <1>2, <1>3, <1>4, FreeFacts

----------------------------------------------------------------------------
\* Type correctness.

LEMMA IdleTyped == Idle \in Ticks /\ ~(Idle.pc \in {"copy", "release", "save"})
  BY DEF Idle, Ticks, Pcs

LEMMA InitTyped == Init => TypeOK
  <1> SUFFICES ASSUME Init PROVE TypeOK
    OBVIOUS
  <1>1. /\ at \in [Disks -> SUBSET Assets] /\ listed \in [Disks -> SUBSET Assets]
        /\ rep \in [Disks -> SUBSET Assets]
        /\ waste \in [Disks -> Nat] /\ free \in [Disks -> Nat]
    BY DEF Init
  <1>2. \A d \in Disks : Free(d) >= 0
    <2>1. Weight({}) = 0
      <3>1. Weight({}) = Cardinality(Units({}))
        BY WeightIsUnits
      <3> QED
        BY <3>1, UnitsOfNone
    <2>2. \A d \in Disks : at[d] = {} /\ waste[d] = 0 /\ Room[d] \in Nat
      BY DiskAssumption DEF Init
    <2> SUFFICES ASSUME NEW d \in Disks PROVE Free(d) >= 0
      OBVIOUS
    <2>3. Free(d) = Room[d] - Weight({}) - 0
      BY <2>2 DEF Free
    <2> QED
      BY <2>1, <2>2, <2>3
  <1>3. row \in [Dirs -> Rows \union {NoRow}] /\ task \in [Dirs -> Tasks \union {NoRow}]
    BY DEF Init
  <1>4. tick \in Ticks /\ ~(tick.pc \in {"copy", "release", "save"})
    BY IdleTyped DEF Init
  <1>5. /\ known \subseteq Assets /\ mounted \subseteq Disks /\ touched \subseteq Disks
        /\ copied \in [Dirs -> SUBSET Disks] /\ crowded \subseteq Dirs
        /\ uploads \in 0 .. UploadBound /\ deletes \in 0 .. DeleteBound
        /\ crashes \in 0 .. CrashBound
    BY NumberAssumption DEF Init
  <1> QED
    BY <1>1, <1>2, <1>3, <1>4, <1>5 DEF TypeOK

\* The parts of the type invariant.
Stored ==
  /\ at \in [Disks -> SUBSET Assets] /\ listed \in [Disks -> SUBSET Assets]
  /\ rep \in [Disks -> SUBSET Assets]
  /\ waste \in [Disks -> Nat] /\ free \in [Disks -> Nat]
  /\ \A d \in Disks : Free(d) >= 0
Worked ==
  /\ row \in [Dirs -> Rows \union {NoRow}]
  /\ task \in [Dirs -> Tasks \union {NoRow}]
  /\ tick \in Ticks
  /\ tick.pc \in {"copy", "release", "save"} =>
       tick.dir # NoRow /\ tick.row # NoRow /\ task[tick.dir] # NoRow
Counted ==
  /\ known \subseteq Assets /\ mounted \subseteq Disks
  /\ copied \in [Dirs -> SUBSET Disks]
  /\ touched \subseteq Disks /\ crowded \subseteq Dirs
  /\ uploads \in 0 .. UploadBound /\ deletes \in 0 .. DeleteBound
  /\ crashes \in 0 .. CrashBound

LEMMA TypeParts == TypeOK <=> Stored /\ Worked /\ Counted
  BY DEF TypeOK, Stored, Worked, Counted

\* What a task at work has in hand.
LEMMA BusyFacts ==
  ASSUME TypeOK, Busy
  PROVE  /\ tick.dir \in Dirs /\ tick.row \in Rows
         /\ task[tick.dir] \in Tasks
         /\ Source \in Disks /\ Destination \in Disks
         /\ tick.assets \in SUBSET Assets /\ tick.left \in SUBSET Assets
  BY DEF TypeOK, Busy, Ticks, Tasks, Source, Destination

LEMMA ScannedTyped ==
  ASSUME TypeOK, NEW d \in Disks, NEW k \in Dirs
  PROVE  Scanned(d, k) \in Rows
  <1>1. Age[k] \in Nat /\ TierOf[d] \in Tiers
    BY DirAssumption, TierAssumption
  <1>2. Evaluate(k) \in 0 .. 24
    BY <1>1 DEF Evaluate
  <1>3. In(k, Found(d)) \in SUBSET Assets
    BY DEF In, Found, TypeOK
  <1>4. Weight(In(k, Found(d))) \in Nat
    BY <1>3, WeightFacts
  <1> QED
    BY <1>1, <1>2, <1>4 DEF Scanned, Rows

LEMMA SavedTyped ==
  ASSUME TypeOK, NEW k \in Dirs, NEW r \in Rows, SaveDirectory(k, r)
  PROVE  /\ row' \in [Dirs -> Rows \union {NoRow}]
         /\ row'[k] # NoRow
         /\ row'[k] = r \/ (row[k] # NoRow /\ row'[k] = row[k])
         /\ \A j \in Dirs : j # k => row'[j] = row[j]
  BY NoRowAssumption DEF SaveDirectory, TypeOK

\* What a plan takes for a target is a disk with room, and not the source.
LEMMA TargetFits ==
  ASSUME TypeOK, NEW k \in Dirs, PlanMigration(k) # {}
  PROVE  /\ row[k] # NoRow /\ row[k] \in Rows
         /\ Target(k) \in Disks /\ Target(k) # row[k].disk
         /\ PrecheckSpace(Target(k), row[k].total)
  <1>1. row[k] # NoRow
    BY DEF PlanMigration
  <1>2. PlanMigration(k) \subseteq
          {d \in Disks \ {row[k].disk} : PrecheckSpace(d, row[k].total)}
    <2>1. \A tiers : SelectTarget(k, tiers) \subseteq
                       {d \in Disks \ {row[k].disk} : PrecheckSpace(d, row[k].total)}
      BY DEF SelectTarget
    <2> DEFINE target == TargetTier(row[k].temp)
    <2>2. \/ PlanMigration(k) = {}
          \/ PlanMigration(k) = SelectTarget(k, {target})
          \/ PlanMigration(k) = SelectTarget(k, Adjacent(target))
      BY Zenon DEF PlanMigration
    <2> QED
      BY <2>1, <2>2
  <1>3. PlanMigration(k) \in SUBSET Nat
    BY <1>2, DiskAssumption
  <1>4. Target(k) \in PlanMigration(k)
    BY <1>3, MinIn DEF Target
  <1> QED
    BY <1>1, <1>2, <1>4 DEF TypeOK

LEMMA PlanTyped ==
  ASSUME TypeOK, Plan
  PROVE  task' \in [Dirs -> Tasks \union {NoRow}]
  <1>1. ASSUME NEW k \in Dirs, Submits(k)
        PROVE  [src |-> row[k].disk, dst |-> Target(k), st |-> "QUEUED"] \in Tasks
    <2>1. row[k] \in Rows /\ Target(k) \in Disks
      BY <1>1, TargetFits DEF Submits
    <2> QED
      BY <2>1 DEF Tasks, Rows
  <1>2. task' = [k \in Dirs |->
                  IF Submits(k) THEN [src |-> row[k].disk, dst |-> Target(k), st |-> "QUEUED"]
                  ELSE task[k]]
    BY DEF Plan
  <1> QED
    BY <1>1, <1>2 DEF TypeOK

LEMMA StatusTyped ==
  ASSUME TypeOK, NEW k \in Dirs, task[k] # NoRow,
         NEW st \in {"QUEUED", "RUNNING", "DONE", "FAILED"}, SetStatus(k, st)
  PROVE  /\ task' \in [Dirs -> Tasks \union {NoRow}]
         /\ task'[k] # NoRow
         /\ task'[k].src = task[k].src /\ task'[k].dst = task[k].dst /\ task'[k].st = st
         /\ \A j \in Dirs : j # k => task'[j] = task[j]
  <1>1. task[k] \in Tasks
    BY DEF TypeOK
  <1>2. task'[k] = [task[k] EXCEPT !.st = st] /\ \A j \in Dirs : j # k => task'[j] = task[j]
    BY DEF SetStatus, TypeOK
  <1>3. /\ task'[k] \in Tasks
        /\ task'[k].src = task[k].src /\ task'[k].dst = task[k].dst /\ task'[k].st = st
    BY <1>1, <1>2 DEF Tasks
  <1>4. task' \in [Dirs -> Tasks \union {NoRow}]
    BY <1>2, <1>3 DEF SetStatus, TypeOK
  <1> QED
    BY <1>2, <1>3, <1>4, NoRowAssumption

\* The end of a task.
LEMMA NextTaskTyped ==
  ASSUME TypeOK, Busy, NEW st \in {"DONE", "FAILED"}, NextTask(st)
  PROVE  /\ task' \in [Dirs -> Tasks \union {NoRow}]
         /\ tick' \in Ticks /\ tick'.pc = "work" /\ tick'.dir = NoRow
         /\ tick'.dirs = tick.dirs
         /\ \A j \in Dirs : j # tick.dir => task'[j] = task[j]
         /\ task'[tick.dir] # NoRow
         /\ task'[tick.dir].src = task[tick.dir].src /\ task'[tick.dir].dst = task[tick.dir].dst
         /\ task'[tick.dir].st = st
  <1>1. tick.dir \in Dirs /\ task[tick.dir] # NoRow
    BY BusyFacts, NoRowAssumption
  <1>2. tick' = [tick EXCEPT !.pc = "work", !.dir = NoRow, !.assets = {}, !.left = {},
                              !.row = NoRow]
    BY DEF NextTask
  <1>3. tick' \in Ticks /\ tick'.pc = "work" /\ tick'.dir = NoRow /\ tick'.dirs = tick.dirs
    BY <1>2 DEF TypeOK, Ticks, Pcs
  <1>4. SetStatus(tick.dir, st)
    BY DEF NextTask
  <1> DEFINE k == tick.dir
  <1>5. k \in Dirs /\ task[k] # NoRow /\ SetStatus(k, st)
    BY <1>1, <1>4
  <1> HIDE DEF k
  <1>6. /\ task' \in [Dirs -> Tasks \union {NoRow}]
        /\ task'[k] # NoRow
        /\ task'[k].src = task[k].src /\ task'[k].dst = task[k].dst /\ task'[k].st = st
        /\ \A j \in Dirs : j # k => task'[j] = task[j]
    BY <1>5, StatusTyped
  <1> QED
    BY <1>3, <1>6 DEF k

\* Every step keeps the types: no disk is ever filled beyond its room.
LEMMA TypeStep ==
  ASSUME TypeOK, WorkInv, [Next]_vars
  PROVE  TypeOK'
  <1>1. /\ Stored /\ Worked /\ Counted
        /\ (\A d \in Disks : at'[d] = at[d] /\ waste'[d] = waste[d])
              => \A d \in Disks : Free(d)' = Free(d)
    BY TypeParts, FreeSame
  <1>2. ASSUME NEW a \in Assets, Upload(a) PROVE TypeOK'
    <2>1. PICK d \in mounted :
            LET k == DirOf[a]
                total == IF row[k] = NoRow THEN Size[a] ELSE row[k].total + Size[a]
            IN /\ a \in at[d] \/ Free(d) >= Size[a]
               /\ at' = [at EXCEPT ![d] = @ \union {a}]
               /\ listed' = [listed EXCEPT ![d] = @ \union {a}]
               /\ rep' = [rep EXCEPT ![d] = @ \union {a}]
               /\ known' = known \union {a}
               /\ SaveDirectory(k, [disk |-> d, tier |-> TierOf[d], temp |-> 0,
                                    total |-> total])
               /\ touched' = touched \union {d}
               /\ crowded' = crowded \union Overtaken(d, k)
      BY <1>2 DEF Upload
    <2>2. d \in Disks
      BY DEF TypeOK
    <2>3. Stored'
      <3>1. waste' = waste /\ free' = free
        BY <1>2 DEF Upload
      <3>2. Size[a] <= Free(d) <=> Free(d) >= Size[a]
        BY <2>2, FreeFacts, AssetAssumption
      <3>3. at' \in [Disks -> SUBSET Assets] /\ \A e \in Disks : Free(e)' >= 0
        BY <2>1, <2>2, <3>1, <3>2, FreeAfterWrite
      <3>4. /\ listed' \in [Disks -> SUBSET Assets]
            /\ rep' \in [Disks -> SUBSET Assets]
        BY <2>1, <2>2 DEF TypeOK
      <3> QED
        BY <1>1, <3>1, <3>3, <3>4 DEF Stored
    <2>4. row' \in [Dirs -> Rows \union {NoRow}]
      <3> DEFINE k == DirOf[a]
                 total == IF row[k] = NoRow THEN Size[a] ELSE row[k].total + Size[a]
                 r == [disk |-> d, tier |-> TierOf[d], temp |-> 0, total |-> total]
      <3>1. k \in Dirs /\ Size[a] \in Nat /\ TierOf[d] \in Tiers
        BY <2>2, AssetAssumption, TierAssumption
      <3>2. total \in Nat
        BY <3>1 DEF TypeOK, Rows
      <3>3. SaveDirectory(k, r)
        BY <2>1
      <3> HIDE DEF total, k
      <3>4. r \in Rows
        BY <2>2, <3>1, <3>2 DEF Rows
      <3> HIDE DEF r
      <3> QED
        BY <3>1, <3>3, <3>4, SavedTyped
    <2>5. Worked'
      BY <1>1, <1>2, <2>4 DEF Upload, Worked
    <2>6. Counted'
      BY <1>1, <1>2, <2>1, <2>2, NumberAssumption DEF Upload, Counted, Overtaken
    <2> QED
      BY <2>3, <2>5, <2>6 DEF TypeOK, Stored, Worked, Counted
  <1>3. ASSUME NEW a \in Assets, UploadLoose(a) PROVE TypeOK'
    <2>1. Counted'
      BY <1>1, <1>3, NumberAssumption, AssetAssumption DEF UploadLoose, Counted
    <2>2. Stored' /\ Worked'
      BY <1>1, <1>3 DEF UploadLoose, Stored, Worked
    <2> QED
      BY <2>1, <2>2 DEF TypeOK, Stored, Worked, Counted
  <1>19. ASSUME NEW a \in Assets, Delete(a) PROVE TypeOK'
    <2>1. /\ at' \in [Disks -> SUBSET Assets] /\ listed' \in [Disks -> SUBSET Assets]
          /\ \A e \in Disks : at'[e] \subseteq at[e]
      <3>1. \/ UNCHANGED <<at, listed>>
            \/ \E d \in Disks : /\ at' \in {at, [at EXCEPT ![d] = @ \ {a}]}
                                /\ listed' \in {listed, [listed EXCEPT ![d] = @ \ {a}]}
        BY <1>19 DEF Delete
      <3> QED
        BY <3>1 DEF TypeOK
    <2>2. waste' = waste
      BY <1>19 DEF Delete
    <2>3. \A e \in Disks : Free(e)' >= 0
      BY <2>1, <2>2, FreeMore
    <2>4. rep' \in [Disks -> SUBSET Assets]
      BY <1>19 DEF Delete, TypeOK
    <2>5. row' \in [Dirs -> Rows \union {NoRow}]
      <3> DEFINE r == IF In(DirOf[a], known') = {} THEN NoRow ELSE row[DirOf[a]]
      <3>1. r \in Rows \union {NoRow}
        BY AssetAssumption DEF TypeOK
      <3>2. row' = [row EXCEPT ![DirOf[a]] = r]
        BY <1>19 DEF Delete
      <3> HIDE DEF r
      <3> QED
        BY <3>1, <3>2 DEF TypeOK
    <2>6. Stored'
      BY <1>1, <1>19, <2>1, <2>2, <2>3, <2>4 DEF Delete, Stored
    <2>7. Worked'
      BY <1>1, <1>19, <2>5 DEF Delete, Worked
    <2>8. Counted'
      BY <1>1, <1>19, NumberAssumption DEF Delete, Counted
    <2> QED
      BY <2>6, <2>7, <2>8 DEF TypeOK, Stored, Worked, Counted
  <1>4. ASSUME StartTick PROVE TypeOK'
    <2>1. tick' \in Ticks /\ tick'.pc = "claim"
      BY <1>4, IdleTyped DEF StartTick, Ticks, Pcs
    <2>2. Stored' /\ Worked' /\ Counted'
      BY <1>1, <1>4, <2>1 DEF StartTick, Stored, Worked, Counted
    <2> QED
      BY <2>2 DEF TypeOK, Stored, Worked, Counted
  <1>5. ASSUME NEW d \in Disks, Claim(d) PROVE TypeOK'
    <2>1. tick' \in Ticks /\ tick'.pc = "touch"
      BY <1>5 DEF Claim, Goto, TypeOK, Ticks, Pcs
    <2>2. free' \in [Disks -> Nat]
      BY <1>5, FreeFacts DEF Claim, UpdateSpace, TypeOK
    <2>3. Stored' /\ Worked' /\ Counted'
      BY <1>1, <1>5, <2>1, <2>2 DEF Claim, Stored, Worked, Counted
    <2> QED
      BY <2>3 DEF TypeOK, Stored, Worked, Counted
  <1>6. ASSUME NEW d \in Disks, Touch(d) PROVE TypeOK'
    <2>1. tick' \in Ticks /\ tick'.pc \in {"claim", "scan", "plan"}
      <3>1. \/ tick' = [tick EXCEPT !.pc = "claim", !.disks = tick.disks \ {d}]
            \/ tick' = [tick EXCEPT !.pc = "scan", !.disks = Disks]
            \/ tick' = [tick EXCEPT !.pc = "plan", !.disks = {}]
        BY <1>6 DEF Touch
      <3>2. tick \in Ticks
        BY DEF TypeOK
      <3> QED
        BY <3>1, <3>2 DEF Ticks, Pcs
    <2>2. Stored' /\ Worked' /\ Counted'
      BY <1>1, <1>6, <2>1 DEF Touch, Stored, Worked, Counted
    <2> QED
      BY <2>2 DEF TypeOK, Stored, Worked, Counted
  <1>7. ASSUME NEW d \in Disks, Scan(d) PROVE TypeOK'
    <2>1. tick' \in Ticks /\ tick'.pc \in {"scan", "plan"}
      BY <1>7 DEF Scan, TypeOK, Ticks, Pcs
    <2>2. rep' \in [Disks -> SUBSET Assets]
      BY <1>7 DEF Scan, Found, TypeOK
    <2>5. known' \subseteq Assets /\ crowded' \subseteq Dirs
      BY <1>7 DEF Scan, Found, TypeOK
    <2>3. row' \in [Dirs -> Rows \union {NoRow}]
      <3>1. \A k \in Dirs : Scanned(d, k) \in Rows
        BY ScannedTyped
      <3> QED
        BY <1>7, <3>1 DEF Scan, TypeOK
    <2>4. Stored' /\ Worked' /\ Counted'
      BY <1>1, <1>7, <2>1, <2>2, <2>3, <2>5 DEF Scan, Stored, Worked, Counted
    <2> QED
      BY <2>4 DEF TypeOK, Stored, Worked, Counted
  <1>8. ASSUME Plan PROVE TypeOK'
    <2>1. task' \in [Dirs -> Tasks \union {NoRow}]
      BY <1>8, PlanTyped
    <2>2. tick' \in Ticks /\ tick'.pc = "work" /\ crowded' \subseteq Dirs
      BY <1>8 DEF Plan, Queued, TypeOK, Ticks, Pcs
    <2>3. Stored' /\ Worked' /\ Counted'
      BY <1>1, <1>8, <2>1, <2>2 DEF Plan, Stored, Worked, Counted
    <2> QED
      BY <2>3 DEF TypeOK, Stored, Worked, Counted
  <1>9. ASSUME NEW k \in Dirs, StartTask(k) PROVE TypeOK'
    <2>1. task[k] # NoRow /\ row[k] # NoRow
      BY <1>9 DEF StartTask, WorkInv
    <2>2. task' \in [Dirs -> Tasks \union {NoRow}] /\ task'[k] # NoRow
      BY <1>9, <2>1, StatusTyped DEF StartTask
    <2>3. In(k, known) \in SUBSET Assets
      BY DEF In, TypeOK
    <2>4. tick' \in Ticks /\ tick'.dir = k /\ tick'.row = row[k]
      BY <1>9, <2>1, <2>3 DEF StartTask, TypeOK, Ticks, Pcs
    <2>5. k # NoRow
      BY DirAssumption
    <2>6. Stored' /\ Worked' /\ Counted'
      BY <1>1, <1>9, <2>1, <2>2, <2>4, <2>5 DEF StartTask, Stored, Worked, Counted
    <2> QED
      BY <2>6 DEF TypeOK, Stored, Worked, Counted
  <1>20. ASSUME NEW k \in Dirs, RowIsGone(k) PROVE TypeOK'
    <2>1. task[k] # NoRow /\ SetStatus(k, "FAILED") /\ tick.pc = "work"
      BY <1>20 DEF RowIsGone, WorkInv
    <2>2. task' \in [Dirs -> Tasks \union {NoRow}]
      BY <2>1, StatusTyped
    <2>3. tick' \in Ticks /\ tick'.pc = "work"
      BY <1>20, <2>1 DEF RowIsGone, TypeOK, Ticks, Pcs
    <2>4. Stored' /\ Worked' /\ Counted'
      BY <1>1, <1>20, <2>2, <2>3 DEF RowIsGone, Stored, Worked, Counted
    <2> QED
      BY <2>4 DEF TypeOK, Stored, Worked, Counted
  <1>10. ASSUME tick' = Idle,
                UNCHANGED <<at, waste, listed, rep, row, known, mounted, free, task, copied,
                            touched, crowded, uploads, deletes>>,
                crashes' \in 0 .. CrashBound
         PROVE  TypeOK'
    <2>1. Stored' /\ Worked' /\ Counted'
      BY <1>1, <1>10, IdleTyped DEF Stored, Worked, Counted
    <2> QED
      BY <2>1 DEF TypeOK, Stored, Worked, Counted
  <1>11. ASSUME NEW a \in Assets, Copy(a) PROVE TypeOK'
    <2>1. Busy
      BY <1>11 DEF Copy, Busy
    <2>2. PICK d \in Disks : d = Destination
      BY <2>1, BusyFacts
    <2>3. /\ a \in at[d] \/ Size[a] <= Free(d)
          /\ at' = [at EXCEPT ![d] = @ \union {a}] /\ waste' = waste
          /\ copied' = [copied EXCEPT ![tick.dir] = @ \union {d}]
      BY <1>11, <2>2 DEF Copy
    <2>4. at' \in [Disks -> SUBSET Assets] /\ \A e \in Disks : Free(e)' >= 0
      BY <2>3, FreeAfterWrite
    <2>5. Stored'
      BY <1>1, <1>11, <2>4 DEF Copy, Stored
    <2>6. tick' \in Ticks /\ tick'.pc = tick.pc /\ tick'.dir = tick.dir /\ tick'.row = tick.row
      BY <1>11 DEF Copy, TypeOK, Ticks
    <2>7. Worked'
      BY <1>1, <1>11, <2>6 DEF Copy, Worked
    <2>9. copied' \in [Dirs -> SUBSET Disks]
      BY <1>1, <2>1, <2>3, BusyFacts DEF Counted
    <2>8. Counted'
      BY <1>1, <1>11, <2>9 DEF Copy, Counted
    <2> QED
      BY <2>5, <2>7, <2>8 DEF TypeOK, Stored, Worked, Counted
  <1>12. ASSUME NEW a \in Assets, CopyFails(a) PROVE TypeOK'
    <2>1. Busy /\ NextTask("FAILED")
      BY <1>12 DEF CopyFails, Busy
    <2>2. Worked'
      BY <1>1, <1>12, <2>1, NextTaskTyped DEF CopyFails, Worked
    <2>3. Counted'
      BY <1>1, <1>12 DEF CopyFails, Counted
    <2>0. PICK d \in Disks : d = Destination
      BY <2>1, BusyFacts
    <2>4. Free(d) \in Nat /\ waste[d] \in Nat
      BY FreeFacts
    <2>5. at' = at /\ (waste' = waste \/ waste' = [waste EXCEPT ![d] = @ + Free(d)])
      BY <1>12, <2>0 DEF CopyFails
    <2>6. CASE waste' = waste
      BY <1>1, <1>12, <2>2, <2>3, <2>6 DEF CopyFails, TypeOK, Stored, Worked, Counted
    <2>7. CASE waste' = [waste EXCEPT ![d] = @ + Free(d)]
      <3>1. waste'[d] = waste[d] + Free(d) /\ \A e \in Disks : e # d => waste'[e] = waste[e]
        BY <2>4, <2>7 DEF TypeOK
      <3>2. Free(d)' = Room[d] - Weight(at[d]) - waste'[d]
        BY <2>5 DEF Free
      <3>3. Free(d)' = 0
        BY <2>4, <3>1, <3>2, FreeFacts DEF Free
      <3>4. \A e \in Disks : e # d => Free(e)' = Free(e)
        BY <2>5, <3>1, FreeSame
      <3>5. \A e \in Disks : Free(e)' >= 0
        BY <3>3, <3>4, FreeFacts
      <3>6. waste' \in [Disks -> Nat]
        BY <2>4, <2>7 DEF TypeOK
      <3>7. Stored'
        BY <1>1, <1>12, <3>5, <3>6 DEF CopyFails, Stored
      <3> QED
        BY <2>2, <2>3, <3>7 DEF TypeOK, Stored, Worked, Counted
    <2> QED
      BY <2>5, <2>6, <2>7
  <1>13. ASSUME Register PROVE TypeOK'
    <2>1. Busy
      BY <1>13 DEF Register, Busy
    <2>2. rep' \in [Disks -> SUBSET Assets]
      BY <1>13, <2>1, BusyFacts DEF Register, TypeOK
    <2>3. /\ tick' \in Ticks /\ tick'.dir = tick.dir /\ tick'.row = tick.row
      BY <1>13 DEF Register, Goto, TypeOK, Ticks, Pcs
    <2>4. Stored' /\ Worked' /\ Counted'
      BY <1>1, <1>13, <2>1, <2>2, <2>3 DEF Register, Stored, Worked, Counted, Busy
    <2> QED
      BY <2>4 DEF TypeOK, Stored, Worked, Counted
  <1>14. ASSUME Release PROVE TypeOK'
    <2>1. Busy
      BY <1>14 DEF Release, Busy
    <2>2. PICK safe : rep' = [rep EXCEPT ![Source] = @ \ safe] /\ at' = [at EXCEPT ![Source] = @ \ safe]
      BY <1>14 DEF Release
    <2>3. Source \in Disks
      BY <2>1, BusyFacts
    <2>4. rep' \in [Disks -> SUBSET Assets] /\ at' \in [Disks -> SUBSET Assets]
          /\ \A e \in Disks : at'[e] \subseteq at[e]
      BY <2>2, <2>3 DEF TypeOK
    <2>5. \A e \in Disks : Free(e)' >= 0
      <3>1. waste' = waste
        BY <1>14 DEF Release
      <3> QED
        BY <2>4, <3>1, FreeMore
    <2>6. /\ tick' \in Ticks /\ tick'.dir = tick.dir /\ tick'.row = tick.row
      BY <1>14 DEF Release, Goto, TypeOK, Ticks, Pcs
    <2>7. Stored' /\ Worked' /\ Counted'
      BY <1>1, <1>14, <2>1, <2>4, <2>5, <2>6 DEF Release, Stored, Worked, Counted, Busy
    <2> QED
      BY <2>7 DEF TypeOK, Stored, Worked, Counted
  <1>15. ASSUME Rehost PROVE TypeOK'
    <2>1. Busy /\ NextTask("DONE")
      BY <1>15 DEF Rehost, Busy
    <2> DEFINE r == [tick.row EXCEPT !.disk = Destination]
               k == tick.dir
    <2>2. r \in Rows /\ k \in Dirs /\ SaveDirectory(k, r)
      BY <1>15, <2>1, BusyFacts DEF Rehost, Rows
    <2> HIDE DEF r, k
    <2>3. row' \in [Dirs -> Rows \union {NoRow}]
      BY <2>2, SavedTyped
    <2>4. Worked'
      BY <1>1, <1>15, <2>1, <2>3, NextTaskTyped DEF Worked
    <2>5. Stored' /\ Counted'
      BY <1>1, <1>15 DEF Rehost, Stored, Counted
    <2> QED
      BY <2>4, <2>5 DEF TypeOK, Stored, Worked, Counted
  <1>16. CASE UNCHANGED vars
    <2>1. Stored' /\ Worked' /\ Counted'
      BY <1>1, <1>16 DEF vars, Stored, Worked, Counted
    <2> QED
      BY <2>1 DEF TypeOK, Stored, Worked, Counted
  <1>17. EndTick => TypeOK'
    BY <1>1, <1>10 DEF EndTick, Counted
  <1>18. Crash => TypeOK'
    <2> SUFFICES ASSUME Crash PROVE TypeOK'
      OBVIOUS
    <2>1. crashes' \in 0 .. CrashBound
      BY <1>1, NumberAssumption DEF Crash, Counted
    <2> QED
      BY <1>10, <2>1 DEF Crash
  <1> QED
    BY <1>2, <1>3, <1>4, <1>5, <1>6, <1>7, <1>8, <1>9, <1>11, <1>12, <1>13, <1>14, <1>15,
       <1>16, <1>17, <1>18, <1>19, <1>20
    DEF Next, Step

----------------------------------------------------------------------------
\* What is known.

\* An upload makes an asset known, a scan what it finds, and nothing else does.
LEMMA KnownStep ==
  ASSUME [Next]_vars
  PROVE  \/ known' \subseteq known
         \/ \E a \in Assets : (Upload(a) \/ UploadLoose(a)) /\ known' = known \union {a}
         \/ \E d \in Disks : Scan(d) /\ known' = known \union Found(d)
  <1>1. /\ \A a \in Assets : Upload(a) \/ UploadLoose(a) => known' = known \union {a}
        /\ \A d \in Disks : Scan(d) => known' = known \union Found(d)
    BY DEF Upload, UploadLoose, Scan
  <1>2. /\ \A a \in Assets : Copy(a) \/ CopyFails(a) => known' = known
        /\ \A a \in Assets : Delete(a) => known' \subseteq known
        /\ \A d \in Disks : Claim(d) \/ Touch(d) => known' = known
        /\ \A k \in Dirs : StartTask(k) \/ RowIsGone(k) => known' = known
    BY DEF Copy, CopyFails, Delete, Claim, Touch, StartTask, RowIsGone
  <1>3. StartTick \/ Plan \/ EndTick \/ Register \/ Release \/ Rehost \/ Crash
          \/ UNCHANGED vars => known' = known
    BY DEF StartTick, Plan, EndTick, Register, Release, Rehost, Crash, vars
  <1> QED
    BY <1>1, <1>2, <1>3 DEF Next, Step


----------------------------------------------------------------------------
\* Tasks.

\* A task is planned once; after that only its status changes.
LEMMA TaskStep ==
  ASSUME TypeOK, WorkInv, [Next]_vars, NEW k \in Dirs
  PROVE  \/ task'[k] = task[k]
         \/ /\ task[k] # NoRow /\ task'[k] # NoRow
            /\ task'[k].src = task[k].src /\ task'[k].dst = task[k].dst
         \/ /\ Plan /\ Submits(k)
            /\ task'[k] = [src |-> row[k].disk, dst |-> Target(k), st |-> "QUEUED"]
  <1> DEFINE Goal == \/ task'[k] = task[k]
                     \/ /\ task[k] # NoRow /\ task'[k] # NoRow
                        /\ task'[k].src = task[k].src /\ task'[k].dst = task[k].dst
                     \/ /\ Plan /\ Submits(k)
                        /\ task'[k] = [src |-> row[k].disk, dst |-> Target(k), st |-> "QUEUED"]
  <1>1. Plan => Goal
    BY DEF Plan
  <1>2. ASSUME NEW j \in Dirs, StartTask(j) \/ RowIsGone(j) PROVE Goal
    <2>1. task[j] # NoRow /\ (SetStatus(j, "RUNNING") \/ SetStatus(j, "FAILED"))
      BY <1>2 DEF StartTask, RowIsGone, WorkInv
    <2>2. /\ task'[j] # NoRow
          /\ task'[j].src = task[j].src /\ task'[j].dst = task[j].dst
          /\ \A i \in Dirs : i # j => task'[i] = task[i]
      <3>1. CASE SetStatus(j, "RUNNING")
        BY <2>1, <3>1, StatusTyped
      <3>2. CASE SetStatus(j, "FAILED")
        BY <2>1, <3>2, StatusTyped
      <3> QED
        BY <2>1, <3>1, <3>2
    <2> QED
      BY <2>1, <2>2
  <1>3. ASSUME Busy, NextTask("FAILED") \/ NextTask("DONE") PROVE Goal
    <2>1. /\ \A j \in Dirs : j # tick.dir => task'[j] = task[j]
          /\ task'[tick.dir] # NoRow
          /\ task'[tick.dir].src = task[tick.dir].src
          /\ task'[tick.dir].dst = task[tick.dir].dst
      <3>1. CASE NextTask("FAILED")
        BY <1>3, <3>1, NextTaskTyped
      <3>2. CASE NextTask("DONE")
        BY <1>3, <3>2, NextTaskTyped
      <3> QED
        BY <1>3, <3>1, <3>2
    <2>2. task[tick.dir] # NoRow
      BY <1>3, BusyFacts, NoRowAssumption
    <2>3. CASE k = tick.dir
      BY <2>1, <2>2, <2>3
    <2>4. CASE k # tick.dir
      BY <2>1, <2>4
    <2> QED
      BY <2>3, <2>4
  <1>4. /\ Rehost => Goal
        /\ \A a \in Assets : CopyFails(a) => Goal
    BY <1>3 DEF Rehost, CopyFails, Busy
  <1>5. /\ \A d \in Disks : Claim(d) \/ Touch(d) \/ Scan(d) => task' = task
        /\ \A a \in Assets : Copy(a) \/ Upload(a) \/ UploadLoose(a) \/ Delete(a) => task' = task
    BY DEF Claim, Touch, Scan, Copy, Upload, UploadLoose, Delete
  <1>6. StartTick \/ EndTick \/ Register \/ Release \/ Crash \/ UNCHANGED vars => task' = task
    BY DEF StartTick, EndTick, Register, Release, Crash, vars
  <1> QED
    BY <1>1, <1>2, <1>4, <1>5, <1>6 DEF Next, Step

LEMMA TasksStay ==
  ASSUME TypeOK, WorkInv, [Next]_vars, NEW k \in Dirs, task[k] # NoRow
  PROVE  task'[k] # NoRow /\ task'[k].src = task[k].src /\ task'[k].dst = task[k].dst
  BY TaskStep DEF Submits

----------------------------------------------------------------------------
\* What the worker has in hand, and where files are.

LEMMA WorkStep ==
  ASSUME TypeOK, WorkInv, [Next]_vars
  PROVE  WorkInv'
  <1>1. tick \in Ticks
    BY DEF TypeOK
  \* No task is at hand.
  <1>2. ASSUME ~Busy, ~Busy', tick'.dir = tick.dir, tick'.dirs \subseteq tick.dirs,
               task' = task
        PROVE  WorkInv'
    BY <1>2 DEF WorkInv
  <1>3. ASSUME tick' = Idle \/ StartTick PROVE WorkInv'
    <2>1. tick' = Idle \/ tick' = [Idle EXCEPT !.pc = "claim", !.disks = Disks]
      BY <1>3 DEF StartTick
    <2>2. /\ tick'.dirs = {} /\ tick'.dir = NoRow
          /\ tick'.pc = "idle" \/ tick'.pc = "claim"
      <3>1. CASE tick' = Idle
        BY <3>1 DEF Idle
      <3>2. CASE tick' = [Idle EXCEPT !.pc = "claim", !.disks = Disks]
        BY <3>2 DEF Idle
      <3> QED
        BY <2>1, <3>1, <3>2
    <2>3. ~Busy'
      BY <2>2 DEF Busy
    <2> QED
      BY <2>2, <2>3 DEF WorkInv
  <1>4. ASSUME NEW d \in Disks, Claim(d) PROVE WorkInv'
    <2>1. /\ ~Busy /\ ~Busy' /\ tick'.dir = tick.dir /\ tick'.dirs = tick.dirs
      BY <1>1, <1>4 DEF Claim, Goto, Busy, Ticks
    <2> QED
      BY <1>2, <1>4, <2>1 DEF Claim
  <1>5. ASSUME NEW d \in Disks, Touch(d) PROVE WorkInv'
    <2>1. \/ tick' = [tick EXCEPT !.pc = "claim", !.disks = tick.disks \ {d}]
          \/ tick' = [tick EXCEPT !.pc = "scan", !.disks = Disks]
          \/ tick' = [tick EXCEPT !.pc = "plan", !.disks = {}]
      BY <1>5 DEF Touch
    <2>2. /\ ~Busy' /\ tick'.dir = tick.dir /\ tick'.dirs = tick.dirs
      BY <1>1, <2>1 DEF Busy, Ticks
    <2>3. ~Busy
      BY <1>5 DEF Touch, Busy
    <2> QED
      BY <1>2, <1>5, <2>2, <2>3 DEF Touch
  <1>6. ASSUME NEW d \in Disks, Scan(d) PROVE WorkInv'
    <2>1. /\ ~Busy' /\ tick'.dir = tick.dir /\ tick'.dirs = tick.dirs
      BY <1>1, <1>6 DEF Scan, Busy, Ticks
    <2>2. ~Busy
      BY <1>6 DEF Scan, Busy
    <2> QED
      BY <1>2, <1>6, <2>1, <2>2 DEF Scan
  <1>7. ASSUME Plan PROVE WorkInv'
    <2>1. tick' = [tick EXCEPT !.pc = "work", !.dirs = Queued(task')] /\ ~Busy
      BY <1>7 DEF Plan, Busy
    <2>2. ~Busy' /\ tick'.dir = tick.dir /\ tick'.dirs = Queued(task')
      BY <1>1, <2>1 DEF Busy, Ticks
    <2> QED
      BY <2>1, <2>2 DEF WorkInv, Queued
  <1>8. ASSUME NEW k \in Dirs, StartTask(k) PROVE WorkInv'
    <2>1. task[k] # NoRow /\ k \in tick.dirs /\ SetStatus(k, "RUNNING")
      BY <1>8 DEF StartTask, WorkInv
    <2>2. /\ task'[k] # NoRow /\ task'[k].st = "RUNNING"
          /\ \A j \in Dirs : j # k => task'[j] = task[j]
      BY <2>1, StatusTyped
    <2> DEFINE assets == In(k, known)
    <2>3. tick' = [tick EXCEPT !.pc = "copy", !.dirs = @ \ {k}, !.dir = k,
                               !.assets = assets, !.left = assets, !.row = row[k]]
      BY <1>8 DEF StartTask
    <2>4. assets \subseteq In(k, Assets)
      BY DEF In, TypeOK
    <2> HIDE DEF assets
    <2>5. /\ tick'.pc = "copy" /\ tick'.dirs = tick.dirs \ {k} /\ tick'.dir = k
          /\ tick'.assets = assets /\ tick'.left = assets
      BY <1>1, <2>3 DEF Ticks
    <2>6. \A j \in tick'.dirs : task'[j] # NoRow /\ task'[j].st = "QUEUED"
      BY <1>1, <2>2, <2>5 DEF WorkInv, Ticks
    <2>7. /\ Busy' /\ tick'.left \subseteq tick'.assets
          /\ tick'.assets \subseteq In(tick'.dir, Assets)
      BY <2>4, <2>5 DEF Busy
    <2> QED
      BY <2>2, <2>5, <2>6, <2>7 DEF WorkInv, In
  <1>16. ASSUME NEW k \in Dirs, RowIsGone(k) PROVE WorkInv'
    <2>1. task[k] # NoRow /\ k \in tick.dirs /\ SetStatus(k, "FAILED") /\ ~Busy
      BY <1>16 DEF RowIsGone, WorkInv, Busy
    <2>2. \A j \in Dirs : j # k => task'[j] = task[j]
      BY <2>1, StatusTyped
    <2>3. /\ tick'.pc = "work" /\ tick'.dirs = tick.dirs \ {k} /\ tick'.dir = tick.dir
      BY <1>1, <1>16 DEF RowIsGone, Ticks
    <2>4. \A j \in tick'.dirs : task'[j] # NoRow /\ task'[j].st = "QUEUED"
      BY <1>1, <2>2, <2>3 DEF WorkInv, Ticks
    <2> QED
      BY <2>1, <2>3, <2>4 DEF WorkInv, Busy
  <1>9. ASSUME Busy, NextTask("FAILED") \/ NextTask("DONE") PROVE WorkInv'
    <2>1. /\ tick'.pc = "work" /\ tick'.dir = NoRow /\ tick'.dirs = tick.dirs
          /\ \A j \in Dirs : j # tick.dir => task'[j] = task[j]
      <3>1. CASE NextTask("FAILED")
        BY <1>9, <3>1, NextTaskTyped
      <3>2. CASE NextTask("DONE")
        BY <1>9, <3>2, NextTaskTyped
      <3> QED
        BY <1>9, <3>1, <3>2
    <2>2. tick.dir \notin tick.dirs
      BY <1>9 DEF WorkInv
    <2>3. \A j \in tick'.dirs : task'[j] # NoRow /\ task'[j].st = "QUEUED"
      BY <1>1, <2>1, <2>2 DEF WorkInv, Ticks
    <2> QED
      BY <2>1, <2>3 DEF WorkInv, Busy
  \* The work goes on.
  <1>10. ASSUME Busy, Busy', task' = task, tick'.dirs = tick.dirs, tick'.dir = tick.dir,
                tick'.assets = tick.assets, tick'.left \subseteq tick.left
         PROVE  WorkInv'
    <2>1. /\ \A k \in tick'.dirs : task'[k] # NoRow /\ task'[k].st = "QUEUED"
          /\ task'[tick'.dir].st = "RUNNING"
          /\ tick'.left \subseteq tick'.assets /\ tick'.assets \subseteq In(tick'.dir, Assets)
      BY <1>10 DEF WorkInv
    <2> QED
      BY <1>10, <2>1 DEF WorkInv, In
  <1>11. ASSUME Register \/ Release \/ \E a \in Assets : Copy(a) PROVE WorkInv'
    <2>1. /\ tick'.dirs = tick.dirs /\ tick'.dir = tick.dir
          /\ tick'.assets = tick.assets /\ tick'.left \subseteq tick.left
          /\ tick'.pc \in {"copy", "release", "save"} /\ tick.pc \in {"copy", "release"}
      <3>1. CASE Register
        BY <1>1, <3>1 DEF Register, Goto, Ticks
      <3>2. CASE Release
        BY <1>1, <3>2 DEF Release, Goto, Ticks
      <3>3. CASE \E a \in Assets : Copy(a)
        BY <1>1, <3>3 DEF Copy, Ticks
      <3> QED
        BY <1>11, <3>1, <3>2, <3>3
    <2>2. task' = task
      BY <1>11 DEF Register, Release, Copy
    <2> QED
      BY <1>10, <2>1, <2>2 DEF Busy
  <1>12. ASSUME tick' = tick, task' = task PROVE WorkInv'
    <2>1. CASE Busy
      BY <1>10, <1>12, <2>1 DEF Busy
    <2>2. CASE ~Busy
      BY <1>12, <2>2 DEF WorkInv, Busy
    <2> QED
      BY <2>1, <2>2
  <1>13. /\ UNCHANGED vars => WorkInv'
         /\ \A a \in Assets : Upload(a) \/ UploadLoose(a) \/ Delete(a) => WorkInv'
    BY <1>12 DEF vars, Upload, UploadLoose, Delete
  <1>14. /\ Rehost => WorkInv'
         /\ \A a \in Assets : CopyFails(a) => WorkInv'
    BY <1>9 DEF Rehost, CopyFails, Busy
  <1>15. EndTick \/ Crash \/ StartTick => WorkInv'
    BY <1>3 DEF EndTick, Crash
  <1> QED
    BY <1>4, <1>5, <1>6, <1>7, <1>8, <1>11, <1>13, <1>14, <1>15, <1>16 DEF Next, Step

\* Only the task that runs copies, and only to its target.
LEMMA CopyInvStep ==
  ASSUME TypeOK, WorkInv, CopyInv, [Next]_vars
  PROVE  CopyInv'
  <1> SUFFICES ASSUME NEW k \in Dirs, copied'[k] # {}
               PROVE  task'[k] # NoRow /\ copied'[k] = {task'[k].dst}
    BY DEF CopyInv
  <1>1. CASE copied'[k] = copied[k]
    <2>1. task[k] # NoRow /\ copied[k] = {task[k].dst}
      BY <1>1 DEF CopyInv
    <2> QED
      BY <1>1, <2>1, TasksStay
  <1>2. ASSUME NEW a \in Assets, Copy(a) PROVE task'[k] # NoRow /\ copied'[k] = {task'[k].dst}
    <2>1. Busy /\ task' = task
      BY <1>2 DEF Copy, Busy
    <2>2. tick.dir \in Dirs /\ task[tick.dir] # NoRow
      BY <2>1, BusyFacts, NoRowAssumption
    <2>3. copied' = [copied EXCEPT ![tick.dir] = @ \union {Destination}]
      BY <1>2 DEF Copy
    <2>4. CASE k = tick.dir
      <3>1. copied'[k] = copied[k] \union {task[k].dst}
        BY <2>2, <2>3, <2>4 DEF Destination, TypeOK
      <3>2. copied[k] = {} \/ copied[k] = {task[k].dst}
        BY DEF CopyInv
      <3> QED
        BY <2>1, <2>2, <2>4, <3>1, <3>2
    <2>5. CASE k # tick.dir
      <3>1. copied'[k] = copied[k]
        BY <2>2, <2>3, <2>5 DEF TypeOK
      <3> QED
        BY <1>1, <3>1
    <2> QED
      BY <2>4, <2>5
  <1>3. \/ copied' = copied
        \/ \E a \in Assets : Copy(a)
    <2>1. /\ \A a \in Assets : CopyFails(a) \/ Upload(a) \/ UploadLoose(a) \/ Delete(a)
                                 => copied' = copied
          /\ \A d \in Disks : Claim(d) \/ Touch(d) \/ Scan(d) => copied' = copied
          /\ \A i \in Dirs : StartTask(i) \/ RowIsGone(i) => copied' = copied
      BY DEF CopyFails, Upload, UploadLoose, Delete, Claim, Touch, Scan, StartTask, RowIsGone
    <2>2. StartTick \/ Plan \/ EndTick \/ Register \/ Release \/ Rehost \/ Crash
            \/ UNCHANGED vars => copied' = copied
      BY DEF StartTick, Plan, EndTick, Register, Release, Rehost, Crash, vars
    <2> QED
      BY <2>1, <2>2 DEF Next, Step
  <1> QED
    BY <1>1, <1>2, <1>3

LEMMA OneTarget ==
  ASSUME CopyInv
  PROVE  CopiedOnce
  <1> SUFFICES ASSUME NEW k \in Dirs
               PROVE  Cardinality(copied[k]) <= 1
    BY DEF CopiedOnce
  <1>1. CASE copied[k] = {}
    BY <1>1, FS_EmptySet
  <1>2. CASE copied[k] # {}
    <2>1. copied[k] = {task[k].dst}
      BY <1>2 DEF CopyInv
    <2>2. Cardinality({task[k].dst}) = 1
      BY FS_Singleton
    <2> QED
      BY <2>1, <2>2
  <1> QED
    BY <1>1, <1>2

----------------------------------------------------------------------------
\* What is reported, and what a plan may count on.

\* But for a plan, nothing comes to hand and nothing becomes unfinished.
LEMMA HandStep ==
  ASSUME TypeOK, WorkInv, [Next]_vars, ~Plan
  PROVE  /\ AtHand' \subseteq AtHand
         /\ \A k \in Dirs : Unfinished(k)' => Unfinished(k)
  <1> DEFINE Goal == /\ AtHand' \subseteq AtHand
                     /\ \A k \in Dirs : Unfinished(k)' => Unfinished(k)
  <1>1. tick \in Ticks
    BY DEF TypeOK
  <1>2. ASSUME task' = task, tick'.dirs \subseteq tick.dirs,
               Busy' => Busy /\ tick'.dir = tick.dir,
               tick'.pc = "copy" => tick.pc = "copy"
        PROVE  Goal
    <2>1. AtHand' \subseteq AtHand
      BY <1>2 DEF AtHand
    <2>2. ASSUME NEW k \in Dirs, Unfinished(k)' PROVE Unfinished(k)
      BY <1>2, <2>2 DEF Unfinished, Busy
    <2> QED
      BY <2>1, <2>2
  <1>3. ASSUME NEW i \in Dirs, StartTask(i) PROVE Goal
    <2>1. /\ task[i] # NoRow /\ task[i].st = "QUEUED" /\ i \in tick.dirs
          /\ SetStatus(i, "RUNNING") /\ tick.pc = "work"
      BY <1>3 DEF StartTask, WorkInv
    <2>2. /\ task'[i].st = "RUNNING"
          /\ \A j \in Dirs : j # i => task'[j] = task[j]
      BY <2>1, StatusTyped
    <2> DEFINE assets == In(i, known)
    <2>3. tick' = [tick EXCEPT !.pc = "copy", !.dirs = @ \ {i}, !.dir = i,
                               !.assets = assets, !.left = assets, !.row = row[i]]
      BY <1>3 DEF StartTask
    <2> HIDE DEF assets
    <2>4. tick'.dirs = tick.dirs \ {i} /\ tick'.dir = i
      BY <1>1, <2>3 DEF Ticks
    <2>5. AtHand' \subseteq AtHand
      BY <2>1, <2>4 DEF AtHand
    <2>6. ASSUME NEW k \in Dirs, Unfinished(k)' PROVE Unfinished(k)
      <3>1. CASE k = i
        BY <2>1, <3>1 DEF Unfinished
      <3>2. CASE k # i
        <4>1. task'[k] = task[k]
          BY <2>2, <3>2
        <4> QED
          BY <2>4, <2>6, <3>2, <4>1 DEF Unfinished
      <3> QED
        BY <3>1, <3>2
    <2> QED
      BY <2>5, <2>6
  <1>17. ASSUME NEW i \in Dirs, RowIsGone(i) PROVE Goal
    <2>1. /\ task[i] # NoRow /\ tick.pc = "work" /\ SetStatus(i, "FAILED")
      BY <1>17 DEF RowIsGone, WorkInv
    <2>2. task'[i].st = "FAILED" /\ \A j \in Dirs : j # i => task'[j] = task[j]
      BY <2>1, StatusTyped
    <2>3. tick'.pc = "work" /\ tick'.dirs \subseteq tick.dirs
      BY <1>1, <1>17, <2>1 DEF RowIsGone, Ticks
    <2>4. AtHand' \subseteq AtHand
      BY <2>3 DEF AtHand, Busy
    <2>5. ASSUME NEW k \in Dirs, Unfinished(k)' PROVE Unfinished(k)
      <3>1. k # i
        BY <2>2, <2>3, <2>5 DEF Unfinished
      <3> QED
        BY <2>2, <2>3, <2>5, <3>1 DEF Unfinished
    <2> QED
      BY <2>4, <2>5
  <1>4. ASSUME Busy, NEW st \in {"DONE", "FAILED"}, NextTask(st) PROVE Goal
    <2>1. /\ tick'.pc = "work" /\ tick'.dir = NoRow /\ tick'.dirs = tick.dirs
          /\ \A j \in Dirs : j # tick.dir => task'[j] = task[j]
          /\ task'[tick.dir].st = st
      BY <1>4, NextTaskTyped
    <2>2. AtHand' \subseteq AtHand
      BY <2>1 DEF AtHand, Busy
    <2>3. ASSUME NEW k \in Dirs, Unfinished(k)' PROVE Unfinished(k)
      <3>1. k # NoRow
        BY DirAssumption
      <3>2. k # tick.dir
        BY <2>1, <2>3, <3>1 DEF Unfinished
      <3>3. task'[k] = task[k]
        BY <2>1, <3>2
      <3> QED
        BY <2>1, <2>3, <3>1, <3>3 DEF Unfinished
    <2> QED
      BY <2>2, <2>3
  <1>5. ASSUME tick' = Idle, task' = task PROVE Goal
    <2>1. tick'.pc = "idle" /\ tick'.dirs = {}
      BY <1>5 DEF Idle
    <2> QED
      BY <1>2, <1>5, <2>1 DEF Busy
  <1>6. ASSUME tick.dirs = tick'.dirs, tick'.dir = tick.dir, task' = task,
               Busy' => Busy, tick'.pc = "copy" => tick.pc = "copy"
        PROVE  Goal
    BY <1>2, <1>6
  <1>7. ASSUME StartTick PROVE Goal
    <2>1. tick' = [Idle EXCEPT !.pc = "claim", !.disks = Disks] /\ task' = task
      BY <1>7 DEF StartTick
    <2>2. tick'.pc = "claim" /\ tick'.dirs = {}
      BY <2>1 DEF Idle
    <2> QED
      BY <1>2, <2>1, <2>2 DEF Busy
  <1>8. ASSUME NEW d \in Disks, Claim(d) PROVE Goal
    <2>1. /\ tick'.pc = "touch" /\ tick'.dir = tick.dir /\ tick'.dirs = tick.dirs
      BY <1>1, <1>8 DEF Claim, Goto, Ticks
    <2> QED
      BY <1>6, <1>8, <2>1 DEF Claim, Busy
  <1>9. ASSUME NEW d \in Disks, Touch(d) PROVE Goal
    <2>1. \/ tick' = [tick EXCEPT !.pc = "claim", !.disks = tick.disks \ {d}]
          \/ tick' = [tick EXCEPT !.pc = "scan", !.disks = Disks]
          \/ tick' = [tick EXCEPT !.pc = "plan", !.disks = {}]
      BY <1>9 DEF Touch
    <2>2. /\ tick'.pc \in {"claim", "scan", "plan"}
          /\ tick'.dir = tick.dir /\ tick'.dirs = tick.dirs
      BY <1>1, <2>1 DEF Ticks
    <2> QED
      BY <1>6, <1>9, <2>2 DEF Touch, Busy
  <1>10. ASSUME NEW d \in Disks, Scan(d) PROVE Goal
    <2>1. /\ tick'.pc \in {"scan", "plan"} /\ tick'.dir = tick.dir /\ tick'.dirs = tick.dirs
      BY <1>1, <1>10 DEF Scan, Ticks
    <2> QED
      BY <1>6, <1>10, <2>1 DEF Scan, Busy
  <1>11. ASSUME Register \/ Release PROVE Goal
    <2>1. /\ tick'.pc \in {"release", "save"} /\ tick'.dirs = tick.dirs /\ tick'.dir = tick.dir
      BY <1>1, <1>11 DEF Register, Release, Goto, Ticks
    <2>2. Busy /\ task' = task
      BY <1>11 DEF Register, Release, Busy
    <2> QED
      BY <1>6, <2>1, <2>2
  <1>12. ASSUME tick' = tick, task' = task PROVE Goal
    BY <1>6, <1>12 DEF Busy
  <1>13. \A a \in Assets : Upload(a) \/ UploadLoose(a) \/ Delete(a) => tick' = tick /\ task' = task
    BY DEF Upload, UploadLoose, Delete
  <1>18. ASSUME NEW a \in Assets, Copy(a) PROVE Goal
    <2>1. tick'.dirs = tick.dirs /\ tick'.dir = tick.dir /\ tick'.pc = tick.pc /\ task' = task
      BY <1>1, <1>18 DEF Copy, Ticks
    <2> QED
      BY <1>6, <2>1 DEF Busy
  <1>14. UNCHANGED vars => tick' = tick /\ task' = task
    BY DEF vars
  <1>15. /\ Rehost => Busy /\ NextTask("DONE")
         /\ \A a \in Assets : CopyFails(a) => Busy /\ NextTask("FAILED")
    BY DEF Rehost, CopyFails, Busy
  <1>16. EndTick \/ Crash => tick' = Idle /\ task' = task
    BY DEF EndTick, Crash
  <1> QED
    BY <1>3, <1>4, <1>5, <1>7, <1>8, <1>9, <1>10, <1>11, <1>12, <1>13, <1>14, <1>15, <1>16,
       <1>17, <1>18
    DEF Next, Step

\* Only more plans are ever overtaken.
LEMMA CrowdedStays ==
  ASSUME [Next]_vars
  PROVE  crowded \subseteq crowded'
  <1>1. /\ \A a \in Assets : Upload(a) => crowded \subseteq crowded'
        /\ \A a \in Assets : UploadLoose(a) \/ Copy(a) \/ CopyFails(a)
                               => crowded \subseteq crowded'
        /\ \A d \in Disks : Claim(d) \/ Touch(d) \/ Scan(d) => crowded \subseteq crowded'
        /\ \A a \in Assets : Delete(a) => crowded \subseteq crowded'
        /\ \A k \in Dirs : StartTask(k) \/ RowIsGone(k) => crowded \subseteq crowded'
    BY DEF Upload, UploadLoose, Copy, CopyFails, Delete, Claim, Touch, Scan, StartTask,
           RowIsGone
  <1>2. StartTick \/ Plan \/ EndTick \/ Register \/ Release \/ Rehost \/ Crash
          \/ UNCHANGED vars => crowded \subseteq crowded'
    BY DEF StartTick, Plan, EndTick, Register, Release, Rehost, Crash, vars
  <1> QED
    BY <1>1, <1>2 DEF Next, Step

\* What is at hand has a task.
LEMMA HandTasks ==
  ASSUME TypeOK, WorkInv
  PROVE  \A j \in AtHand : j \in Dirs /\ task[j] # NoRow
  <1>1. tick \in Ticks
    BY DEF TypeOK
  <1>2. \A j \in tick.dirs : j \in Dirs /\ task[j] # NoRow
    BY <1>1 DEF WorkInv, Ticks
  <1>3. Busy => tick.dir \in Dirs /\ task[tick.dir] # NoRow
    BY BusyFacts, NoRowAssumption
  <1> QED
    BY <1>2, <1>3 DEF AtHand

\* Two plans for one disk are both overtaken, and so stay.
LEMMA ApartStep ==
  ASSUME TypeOK, WorkInv, SpaceInv, [Next]_vars
  PROVE  \A k \in Dirs \ crowded' : Unfinished(k)' =>
           \A j \in AtHand' \ {k} : task'[j].dst # task'[k].dst
  <1> SUFFICES ASSUME NEW k \in Dirs \ crowded', Unfinished(k)', NEW j \in AtHand' \ {k}
               PROVE  task'[j].dst # task'[k].dst
    OBVIOUS
  <1>1. CASE Plan
    <2>1. /\ tick' = [tick EXCEPT !.pc = "work", !.dirs = Queued(task')]
          /\ crowded' = crowded \union
               {i \in Queued(task') :
                  \/ \E h \in Queued(task') \ {i} : task'[h].dst = task'[i].dst
                  \/ Submits(i) /\ task'[i].dst \in touched
                  \/ Submits(i) /\ row[i].total < Weight(In(i, known))}
      BY <1>1 DEF Plan
    <2>2. tick'.pc = "work" /\ tick'.dirs = Queued(task')
      BY <2>1 DEF TypeOK, Ticks
    <2>3. k \in Queued(task') /\ j \in Queued(task') \ {k}
      BY <2>2 DEF Unfinished, Queued, AtHand, Busy
    <2> HIDE DEF Queued
    <2> QED
      BY <2>1, <2>3
  <1>2. CASE ~Plan
    <2>1. Unfinished(k) /\ j \in AtHand
      BY <1>2, HandStep
    <2>2. k \in Dirs \ crowded
      BY CrowdedStays
    <2>3. task[j].dst # task[k].dst
      BY <2>1, <2>2 DEF SpaceInv
    <2>4. j \in Dirs /\ task[j] # NoRow /\ task[k] # NoRow
      BY <2>1, HandTasks DEF Unfinished
    <2> QED
      BY <2>3, <2>4, TasksStay
  <1> QED
    BY <1>1, <1>2

\* What a tick has reported is free until somebody uploads there.
LEMMA ReportStep ==
  ASSUME TypeOK, WorkInv, SpaceInv, [Next]_vars
  PROVE  \A e \in Reported' : free'[e] <= Free(e)'
  <1> DEFINE Goal == \A e \in Reported' : free'[e] <= Free(e)'
  <1>1. tick \in Ticks /\ Reported \subseteq Disks \ touched
        /\ \A e \in Reported : free[e] <= Free(e)
    BY DEF TypeOK, Reported, SpaceInv
  <1>2. ASSUME tick'.pc \in {"idle", "work", "copy", "release", "save"} PROVE Goal
    <2>1. Reported' = {}
      BY <1>2 DEF Reported
    <2> QED
      BY <2>1
  <1>3. ASSUME UNCHANGED <<at, waste, free>>, Reported' \subseteq Reported PROVE Goal
    <2>1. \A e \in Disks : Free(e)' = Free(e)
      BY <1>3, FreeSame
    <2> QED
      BY <1>1, <1>3, <2>1
  <1>4. ASSUME NEW d \in Disks, Claim(d) PROVE Goal
    <2>1. /\ tick.pc = "claim" /\ d = Min(tick.disks)
          /\ touched' = touched \ {d} /\ free' = [free EXCEPT ![d] = Free(d)]
          /\ at' = at /\ waste' = waste
      BY <1>4 DEF Claim, UpdateSpace
    <2>2. tick'.pc = "touch" /\ tick'.disks = tick.disks
      BY <1>1, <1>4 DEF Claim, Goto, Ticks
    <2>3. free'[d] = Free(d) /\ \A e \in Disks : e # d => free'[e] = free[e]
      BY <2>1 DEF TypeOK
    <2>4. \A e \in Disks : Free(e)' = Free(e)
      BY <2>1, FreeSame
    <2>5. Reported' = Disks \ ((touched \ {d}) \union (tick.disks \ {d}))
      BY <2>1, <2>2 DEF Reported
    <2>6. Reported = Disks \ (touched \union tick.disks)
      BY <2>1 DEF Reported
    <2>7. \A e \in Reported' : e = d \/ e \in Reported
      BY <2>5, <2>6
    <2>8. free'[d] <= Free(d)'
      BY <2>3, <2>4, FreeFacts
    <2> QED
      BY <1>1, <2>3, <2>4, <2>7, <2>8
  <1>5. ASSUME NEW d \in Disks, Touch(d) PROVE Goal
    <2>1. /\ tick.pc = "touch" /\ d = Min(tick.disks) /\ touched' = touched
          /\ UNCHANGED <<at, waste, free>>
      BY <1>5 DEF Touch
    <2>2. Reported = Disks \ (touched \union (tick.disks \ {d}))
      BY <2>1 DEF Reported
    <2>3. CASE tick.disks # {d}
      <3>1. tick' = [tick EXCEPT !.pc = "claim", !.disks = tick.disks \ {d}]
        BY <1>5, <2>3 DEF Touch
      <3>2. tick'.pc = "claim" /\ tick'.disks = tick.disks \ {d}
        BY <1>1, <3>1 DEF Ticks
      <3>3. Reported' = Disks \ (touched \union (tick.disks \ {d}))
        BY <2>1, <3>2 DEF Reported
      <3> QED
        BY <1>3, <2>1, <2>2, <3>3
    <2>4. CASE tick.disks = {d}
      <3>1. \/ tick' = [tick EXCEPT !.pc = "scan", !.disks = Disks]
            \/ tick' = [tick EXCEPT !.pc = "plan", !.disks = {}]
        BY <1>5, <2>4 DEF Touch
      <3>2. tick'.pc \in {"scan", "plan"}
        BY <1>1, <3>1 DEF Ticks
      <3>3. Reported' = Disks \ touched
        BY <2>1, <3>2 DEF Reported
      <3> QED
        BY <1>3, <2>1, <2>2, <2>4, <3>3
    <2> QED
      BY <2>3, <2>4
  <1>6. ASSUME NEW d \in Disks, Scan(d) PROVE Goal
    <2>1. tick.pc = "scan" /\ touched' = touched /\ UNCHANGED <<at, waste, free>>
      BY <1>6 DEF Scan
    <2>2. tick'.pc \in {"scan", "plan"}
      BY <1>1, <1>6 DEF Scan, Ticks
    <2>3. Reported' = Reported
      BY <2>1, <2>2 DEF Reported
    <2> QED
      BY <1>3, <2>1, <2>3
  <1>7. ASSUME NEW a \in Assets, Upload(a) PROVE Goal
    <2>1. PICK d \in mounted : at' = [at EXCEPT ![d] = @ \union {a}]
                               /\ touched' = touched \union {d}
      BY <1>7 DEF Upload
    <2>2. tick' = tick /\ UNCHANGED <<waste, free>> /\ d \in Disks
      BY <1>7 DEF Upload, TypeOK
    <2>3. Reported' \subseteq Reported \ {d}
      BY <2>1, <2>2 DEF Reported
    <2>4. \A e \in Disks : e # d => at'[e] = at[e]
      BY <2>1, <2>2 DEF TypeOK
    <2>5. \A e \in Disks : e # d => Free(e)' = Free(e)
      BY <2>2, <2>4, FreeSame
    <2> QED
      BY <1>1, <2>2, <2>3, <2>5
  <1>17. ASSUME NEW a \in Assets, Delete(a) PROVE Goal
    <2>1. tick' = tick /\ UNCHANGED <<waste, free, touched>>
      BY <1>17 DEF Delete
    <2>2. Reported' = Reported
      BY <2>1 DEF Reported
    <2>3. \A e \in Disks : at'[e] \subseteq at[e]
      <3>1. UNCHANGED at \/ \E d \in Disks : at' = [at EXCEPT ![d] = @ \ {a}]
        BY <1>17 DEF Delete
      <3> QED
        BY <3>1 DEF TypeOK
    <2>4. ASSUME NEW e \in Reported PROVE free'[e] <= Free(e)'
      <3>1. e \in Disks /\ free'[e] = free[e] /\ free[e] <= Free(e) /\ free[e] \in Nat
        BY <1>1, <2>1, <2>4 DEF TypeOK
      <3>2. Free(e)' >= Free(e) /\ Free(e)' \in Nat /\ Free(e) \in Nat
        BY <2>1, <2>3, <3>1, FreeMore, FreeFacts
      <3> QED
        BY <3>1, <3>2
    <2> QED
      BY <2>2, <2>4
  <1>8. ASSUME UNCHANGED <<tick, at, waste, free, touched>> PROVE Goal
    <2>1. Reported' = Reported
      BY <1>8 DEF Reported
    <2> QED
      BY <1>3, <1>8, <2>1
  <1>9. \A a \in Assets : UploadLoose(a) => UNCHANGED <<tick, at, waste, free, touched>>
    BY DEF UploadLoose
  <1>10. UNCHANGED vars => UNCHANGED <<tick, at, waste, free, touched>>
    BY DEF vars
  <1>11. ASSUME StartTick PROVE Goal
    <2>1. tick' = [Idle EXCEPT !.pc = "claim", !.disks = Disks]
      BY <1>11 DEF StartTick
    <2>2. tick'.pc = "claim" /\ tick'.disks = Disks
      BY <2>1 DEF Idle
    <2>3. Reported' = {}
      BY <2>2 DEF Reported
    <2> QED
      BY <2>3
  <1>12. ASSUME tick' = Idle PROVE Goal
    <2>1. tick'.pc = "idle"
      BY <1>12 DEF Idle
    <2> QED
      BY <1>2, <2>1
  <1>13. EndTick \/ Crash => Goal
    BY <1>12 DEF EndTick, Crash
  <1>14. Plan \/ Register \/ Release \/ Rehost => Goal
    <2>1. Plan \/ Register \/ Release \/ Rehost => tick'.pc \in {"work", "release", "save"}
      BY <1>1 DEF Plan, Register, Release, Rehost, NextTask, Goto, Ticks
    <2> QED
      BY <1>2, <2>1
  <1>15. ASSUME NEW k \in Dirs, StartTask(k) PROVE Goal
    <2>1. PICK assets : tick' = [tick EXCEPT !.pc = "copy", !.dirs = @ \ {k}, !.dir = k,
                                             !.assets = assets, !.left = assets,
                                             !.row = row[k]]
      BY <1>15 DEF StartTask
    <2>2. tick'.pc = "copy"
      BY <1>1, <2>1 DEF Ticks
    <2> QED
      BY <1>2, <2>2
  <1>16. ASSUME NEW a \in Assets, Copy(a) \/ CopyFails(a) PROVE Goal
    <2>1. tick'.pc \in {"copy", "work"}
      BY <1>1, <1>16 DEF Copy, CopyFails, NextTask, Ticks
    <2> QED
      BY <1>2, <2>1
  <1>18. \A k \in Dirs : RowIsGone(k) => Goal
    <2>1. \A k \in Dirs : RowIsGone(k) => tick'.pc = "work"
      BY <1>1 DEF RowIsGone, Ticks
    <2> QED
      BY <1>2, <2>1
  <1> QED
    BY <1>4, <1>5, <1>6, <1>7, <1>8, <1>9, <1>10, <1>11, <1>13, <1>14, <1>15, <1>16, <1>17,
       <1>18
    DEF Next, Step

LEMMA SpaceStep ==
  ASSUME TypeOK, WorkInv, SpaceInv, [Next]_vars
  PROVE  SpaceInv'
  BY ReportStep, ApartStep DEF SpaceInv

\* What is required is at least what there is.
LEMMA RequiredMore ==
  ASSUME NEW t \in Nat
  PROVE  Required(t) \in Nat /\ Required(t) >= t
  <1>1. MarginPercent \in Nat
    BY NumberAssumption
  <1> DEFINE p == t * MarginPercent
  <1>2. p \in Nat
    BY <1>1
  <1>3. t * (100 + MarginPercent) = 100 * t + p
    BY <1>1
  <1> HIDE DEF p
  <1>4. (100 * t + p) \div 100 \in Nat /\ (100 * t + p) \div 100 >= t
    BY <1>2
  <1> QED
    BY <1>3, <1>4 DEF Required

\* What the task that runs has left only shrinks, and when it ends or is cut off
\* it is not queued again.
LEMMA LeftStep ==
  ASSUME TypeOK, WorkInv, [Next]_vars
  PROVE  \/ tick'.dir = tick.dir /\ tick'.left \subseteq tick.left
         \/ \E i \in Dirs : ~Busy /\ tick'.dir = i /\ tick'.left = In(i, known)
         \/ tick'.dir = NoRow /\ (Busy => task'[tick.dir].st # "QUEUED")
  <1> DEFINE Goal ==
         \/ tick'.dir = tick.dir /\ tick'.left \subseteq tick.left
         \/ \E i \in Dirs : ~Busy /\ tick'.dir = i /\ tick'.left = In(i, known)
         \/ tick'.dir = NoRow /\ (Busy => task'[tick.dir].st # "QUEUED")
  <1>1. tick \in Ticks
    BY DEF TypeOK
  <1>2. ASSUME NEW i \in Dirs, StartTask(i) PROVE Goal
    <2> DEFINE assets == In(i, known)
    <2>1. tick' = [tick EXCEPT !.pc = "copy", !.dirs = @ \ {i}, !.dir = i,
                               !.assets = assets, !.left = assets, !.row = row[i]]
          /\ ~Busy
      BY <1>2 DEF StartTask, Busy
    <2> HIDE DEF assets
    <2>2. tick'.dir = i /\ tick'.left = assets
      BY <1>1, <2>1 DEF Ticks
    <2> QED
      BY <2>1, <2>2 DEF assets
  <1>3. ASSUME NEW i \in Dirs, RowIsGone(i) PROVE Goal
    BY <1>1, <1>3 DEF RowIsGone, Ticks
  <1>4. ASSUME Busy, NEW st \in {"DONE", "FAILED"}, NextTask(st) PROVE Goal
    BY <1>4, NextTaskTyped
  <1>5. ASSUME tick' = Idle, task' = task PROVE Goal
    <2>1. tick'.dir = NoRow
      BY <1>5 DEF Idle
    <2> QED
      BY <1>5, <2>1 DEF WorkInv
  <1>6. ASSUME StartTick PROVE Goal
    <2>1. tick' = [Idle EXCEPT !.pc = "claim", !.disks = Disks] /\ ~Busy
      BY <1>6 DEF StartTick, Busy
    <2>2. tick'.dir = NoRow
      BY <2>1 DEF Idle
    <2> QED
      BY <2>1, <2>2
  <1>7. ASSUME NEW a \in Assets, Copy(a) PROVE Goal
    BY <1>1, <1>7 DEF Copy, Ticks
  <1>8. ASSUME Register \/ Release PROVE Goal
    BY <1>1, <1>8 DEF Register, Release, Goto, Ticks
  <1>9. ASSUME NEW d \in Disks, Claim(d) \/ Scan(d) PROVE Goal
    BY <1>1, <1>9 DEF Claim, Scan, Goto, Ticks
  <1>10. ASSUME NEW d \in Disks, Touch(d) PROVE Goal
    <2>1. \/ tick' = [tick EXCEPT !.pc = "claim", !.disks = tick.disks \ {d}]
          \/ tick' = [tick EXCEPT !.pc = "scan", !.disks = Disks]
          \/ tick' = [tick EXCEPT !.pc = "plan", !.disks = {}]
      BY <1>10 DEF Touch
    <2> QED
      BY <1>1, <2>1 DEF Ticks
  <1>11. ASSUME Plan PROVE Goal
    <2>1. tick' = [tick EXCEPT !.pc = "work", !.dirs = Queued(task')]
      BY <1>11 DEF Plan
    <2> QED
      BY <1>1, <2>1 DEF Ticks
  <1>12. ASSUME tick' = tick PROVE Goal
    BY <1>12
  <1>13. /\ UNCHANGED vars => tick' = tick
         /\ \A a \in Assets : Upload(a) \/ UploadLoose(a) \/ Delete(a) => tick' = tick
    BY DEF vars, Upload, UploadLoose, Delete
  <1>14. /\ Rehost => Busy /\ NextTask("DONE")
         /\ \A a \in Assets : CopyFails(a) => Busy /\ NextTask("FAILED")
         /\ EndTick \/ Crash => tick' = Idle /\ task' = task
    BY DEF Rehost, CopyFails, Busy, EndTick, Crash
  <1> QED
    BY <1>2, <1>3, <1>4, <1>5, <1>6, <1>7, <1>8, <1>9, <1>10, <1>11, <1>12, <1>13, <1>14
    DEF Next, Step

\* The directory of a plan nobody overtakes does not grow.
LEMMA ToCopyStep ==
  ASSUME TypeOK, WorkInv, [Next]_vars, ~Plan, NEW k \in Dirs, Unfinished(k)', k \notin crowded'
  PROVE  ToCopy(k)' \subseteq ToCopy(k)
  <1>1. Unfinished(k) /\ task[k] # NoRow
    BY HandStep DEF Unfinished
  <1>2. \A x \in known' : DirOf[x] = k => x \in known
    <2>1. ASSUME NEW a \in Assets, Upload(a) PROVE DirOf[a] # k
      <3>1. PICK e : crowded' = crowded \union Overtaken(e, DirOf[a])
        BY <2>1 DEF Upload
      <3> QED
        BY <1>1, <3>1 DEF Overtaken
    <2>2. ASSUME NEW a \in Assets, UploadLoose(a) PROVE DirOf[a] # k
      BY <1>1, <2>2 DEF UploadLoose
    <2>3. ASSUME NEW d \in Disks, Scan(d) PROVE In(k, Found(d) \ known) = {}
      BY <1>1, <2>3 DEF Scan
    <2>4. CASE known' \subseteq known
      BY <2>4
    <2>5. CASE \E a \in Assets : (Upload(a) \/ UploadLoose(a)) /\ known' = known \union {a}
      BY <2>1, <2>2, <2>5
    <2>6. CASE \E d \in Disks : Scan(d) /\ known' = known \union Found(d)
      BY <2>3, <2>6 DEF In
    <2> QED
      BY <2>4, <2>5, <2>6, KnownStep
  <1>3. In(k, known)' \subseteq In(k, known)
    BY <1>2 DEF In
  <1>4. k # NoRow /\ (tick.dir # NoRow => Busy)
    BY DirAssumption DEF WorkInv
  <1>5. CASE tick'.dir = tick.dir /\ tick'.left \subseteq tick.left
    BY <1>3, <1>5 DEF ToCopy
  <1>6. CASE \E i \in Dirs : ~Busy /\ tick'.dir = i /\ tick'.left = In(i, known)
    <2>1. tick.dir # k
      BY <1>4, <1>6
    <2> QED
      BY <1>3, <1>6, <2>1 DEF ToCopy
  <1>7. CASE tick'.dir = NoRow /\ (Busy => task'[tick.dir].st # "QUEUED")
    <2>1. task'[k].st = "QUEUED"
      BY <1>4, <1>7 DEF Unfinished
    <2>2. tick.dir # k
      BY <1>4, <1>7, <2>1
    <2> QED
      BY <1>3, <1>4, <1>7, <2>2 DEF ToCopy
  <1> QED
    BY <1>5, <1>6, <1>7, LeftStep

\* What the task of a directory still has to bring to disk d.
ToBring(k, d) == ToCopy(k) \ at[d]

LEMMA ToBringTyped ==
  ASSUME TypeOK, WorkInv, NEW k \in Dirs, NEW d \in Disks
  PROVE  /\ ToCopy(k) \in SUBSET Assets /\ ToBring(k, d) \in SUBSET Assets
         /\ \A x \in ToCopy(k) : DirOf[x] = k
         /\ Weight(ToBring(k, d)) \in Nat
  <1>1. ToCopy(k) \in SUBSET Assets /\ \A x \in ToCopy(k) : DirOf[x] = k
    <2>1. CASE tick.dir = k
      <3>1. Busy
        BY <2>1, DirAssumption DEF WorkInv
      <3> QED
        BY <2>1, <3>1 DEF ToCopy, WorkInv, In
    <2>2. CASE tick.dir # k
      BY <2>2 DEF ToCopy, In, TypeOK
    <2> QED
      BY <2>1, <2>2
  <1>2. ToBring(k, d) \in SUBSET Assets
    BY <1>1 DEF ToBring
  <1> QED
    BY <1>1, <1>2, WeightFacts

LEMMA FloorSame ==
  ASSUME TypeOK, WorkInv, NEW k \in Dirs, NEW d \in Disks,
         Free(d)' \in Int, Free(d)' >= Free(d), ToBring(k, d)' \subseteq ToBring(k, d),
         Free(d) - Weight(ToBring(k, d)) >= MinFree
  PROVE  Free(d)' - Weight(ToBring(k, d)') >= MinFree
  <1>1. PICK S, T : S = ToBring(k, d) /\ T = ToBring(k, d)'
    OBVIOUS
  <1>2. S \in SUBSET Assets /\ T \in SUBSET S
    BY <1>1, ToBringTyped
  <1>3. Weight(S) \in Nat /\ Weight(T) <= Weight(S)
    BY <1>2, WeightFacts
  <1>4. Weight(T) \in Nat
    BY <1>2, WeightFacts
  <1>5. Free(d) \in Nat /\ MinFree \in Nat /\ Free(d) - Weight(S) >= MinFree
    BY <1>1, FreeFacts, NumberAssumption
  <1>6. Free(d)' - Weight(T) >= MinFree
    BY <1>3, <1>4, <1>5
  <1> QED
    BY <1>1, <1>6

\* A plan is made when its target has the room, by what it has reported.
LEMMA FloorOfPlan ==
  ASSUME TypeOK, WorkInv, SpaceInv, FloorKept, Plan,
         NEW k \in Dirs, Unfinished(k)', k \notin crowded'
  PROVE  (Free(task[k].dst) - Weight(ToBring(k, task[k].dst)) >= MinFree)'
  <1>1. /\ tick.pc = "plan" /\ UNCHANGED <<at, waste, known>>
        /\ tick' = [tick EXCEPT !.pc = "work", !.dirs = Queued(task')]
        /\ crowded' = crowded \union
             {i \in Queued(task') :
                \/ \E h \in Queued(task') \ {i} : task'[h].dst = task'[i].dst
                \/ Submits(i) /\ task'[i].dst \in touched
                \/ Submits(i) /\ row[i].total < Weight(In(i, known))}
    BY DEF Plan
  <1>2. tick'.pc = "work" /\ tick'.dir = tick.dir /\ tick.dir = NoRow
    BY <1>1 DEF TypeOK, Ticks, WorkInv, Busy
  <1>3. task'[k] # NoRow /\ task'[k].st = "QUEUED" /\ k \in Queued(task')
    BY <1>2 DEF Unfinished, Queued
  <1>4. Submits(k) => task'[k].dst \notin touched /\ ~(row[k].total < Weight(In(k, known)))
    <2> HIDE DEF Queued
    <2> QED
      BY <1>1, <1>3
  <1>5. PICK d \in Disks : d = task'[k].dst
    BY <1>3, PlanTyped DEF Tasks
  <1>6. tick.dir # k
    BY <1>2, DirAssumption
  <1>7. ToCopy(k)' = ToCopy(k) /\ ToCopy(k) = In(k, known)
    BY <1>1, <1>2, <1>6 DEF ToCopy, In
  <1>8. Free(d)' = Free(d) /\ ToBring(k, d)' = ToBring(k, d)
    BY <1>1, <1>7, FreeSame DEF ToBring
  <1>9. Free(d) - Weight(ToBring(k, d)) >= MinFree
    <2>1. CASE Submits(k)
      <3>1. task'[k].dst = Target(k)
        BY <2>1 DEF Plan
      <3>2. row[k] \in Rows /\ PrecheckSpace(Target(k), row[k].total)
        BY <2>1, TargetFits DEF Submits
      <3>3. PICK t \in Nat : t = row[k].total
        BY <3>2 DEF Rows
      <3>4. free[d] >= Required(t) + MinFree
        BY <1>5, <3>1, <3>2, <3>3 DEF PrecheckSpace, HardReserveFloor
      <3>5. free[d] <= Free(d) /\ free[d] \in Nat
        BY <1>1, <1>4, <1>5, <2>1 DEF SpaceInv, Reported, TypeOK
      <3>6. Required(t) \in Nat /\ Required(t) >= t
        BY RequiredMore
      <3>7. PICK S \in SUBSET Assets : S = In(k, known)
        BY <1>7, ToBringTyped
      <3>8. PICK T \in SUBSET S : T = ToBring(k, d)
        BY <1>7, <3>7 DEF ToBring
      <3>9. Weight(S) \in Nat /\ Weight(T) \in Nat /\ Weight(T) <= Weight(S)
        BY WeightFacts
      <3>10. t >= Weight(S)
        BY <1>4, <2>1, <3>3, <3>7, <3>9
      <3>11. Free(d) \in Nat /\ MinFree \in Nat
        BY FreeFacts, NumberAssumption
      <3>12. Free(d) - Weight(T) >= MinFree
        BY <3>4, <3>5, <3>6, <3>9, <3>10, <3>11
      <3> QED
        BY <3>8, <3>12
    <2>2. CASE ~Submits(k)
      <3>1. task'[k] = task[k]
        BY <2>2 DEF Plan
      <3>2. Unfinished(k) /\ k \notin crowded
        BY <1>1, <1>3, <3>1 DEF Unfinished
      <3> QED
        BY <1>5, <3>1, <3>2 DEF FloorKept, ToBring
    <2> QED
      BY <2>1, <2>2
  <1> QED
    BY <1>5, <1>8, <1>9 DEF Free, ToBring, ToCopy, In

\* The room of a plan stays: whoever else takes some is recorded as crowding it.
LEMMA FloorStep ==
  ASSUME TypeOK, WorkInv, SpaceInv, FloorKept, [Next]_vars
  PROVE  FloorKept'
  <1> SUFFICES ASSUME NEW k \in Dirs, Unfinished(k)', k \notin crowded'
               PROVE  (Free(task[k].dst) - Weight(ToBring(k, task[k].dst)) >= MinFree)'
    BY DEF FloorKept, ToBring
  <1>1. CASE Plan
    BY <1>1, FloorOfPlan
  <1>2. CASE ~Plan
    <2>1. Unfinished(k) /\ k \notin crowded /\ task[k] # NoRow
      BY <1>2, HandStep, CrowdedStays DEF Unfinished
    <2>2. PICK d \in Disks : d = task[k].dst
      BY <2>1 DEF TypeOK, Tasks
    <2>3. task'[k].dst = d
      BY <2>1, <2>2, TasksStay
    <2>4. Free(d) - Weight(ToBring(k, d)) >= MinFree
      BY <2>1, <2>2 DEF FloorKept, ToBring
    <2>5. ToCopy(k)' \subseteq ToCopy(k)
      BY <1>2, ToCopyStep
    <2> DEFINE Goal == Free(d)' - Weight(ToBring(k, d)') >= MinFree
    <2>6. ASSUME at'[d] = at[d], waste'[d] = waste[d] PROVE Goal
      <3>1. Free(d)' = Free(d) /\ ToBring(k, d)' \subseteq ToBring(k, d)
        BY <2>5, <2>6, FreeSame DEF ToBring
      <3>2. Free(d)' \in Int /\ Free(d)' >= Free(d)
        BY <3>1, FreeFacts
      <3> QED
        BY <2>4, <3>1, <3>2, FloorSame
    <2>7. ASSUME UNCHANGED <<at, waste>> PROVE Goal
      BY <2>6, <2>7
    <2>8. ASSUME NEW a \in Assets, Upload(a) PROVE Goal
      <3>1. PICK e \in mounted : at' = [at EXCEPT ![e] = @ \union {a}]
                                 /\ crowded' = crowded \union Overtaken(e, DirOf[a])
        BY <2>8 DEF Upload
      <3>2. e # d
        BY <2>1, <2>2, <3>1 DEF Overtaken
      <3>3. at'[d] = at[d] /\ waste' = waste
        BY <2>8, <3>1, <3>2 DEF Upload, TypeOK
      <3> QED
        BY <2>6, <3>3
    \* A deletion frees what it makes missing.
    <2>16. ASSUME NEW a \in Assets, Delete(a) PROVE Goal
      <3>1. waste' = waste /\ (at' = at \/ \E e \in Disks : at' = [at EXCEPT ![e] = @ \ {a}])
        BY <2>16 DEF Delete
      <3>2. at'[d] = at[d] \/ (a \in at[d] /\ at'[d] = at[d] \ {a})
        <4>1. ASSUME NEW e \in Disks, at' = [at EXCEPT ![e] = @ \ {a}]
              PROVE  at'[d] = at[d] \ {a} \/ at'[d] = at[d]
          BY <4>1 DEF TypeOK
        <4>2. a \notin at[d] => at[d] \ {a} = at[d]
          OBVIOUS
        <4> QED
          BY <3>1, <4>1, <4>2
      <3>3. CASE at'[d] = at[d]
        BY <2>6, <3>1, <3>3
      <3>4. CASE a \in at[d] /\ at'[d] = at[d] \ {a}
        <4>1. Free(d)' = Free(d) + Size[a] /\ Size[a] \in Nat
          BY <3>1, <3>4, FreeBack
        <4>2. PICK S \in SUBSET Assets : S = ToBring(k, d)
          BY ToBringTyped
        <4>3. ToBring(k, d)' \subseteq S \union {a}
          BY <2>5, <3>4, <4>2 DEF ToBring
        <4>4. PICK T \in SUBSET Assets : T = ToBring(k, d)'
          BY <4>2, <4>3
        <4>5. Weight(S) \in Nat /\ Weight(T) \in Nat /\ Weight(T) <= Weight(S) + Size[a]
          BY <4>3, <4>4, WeightMore
        <4>6. Free(d) \in Nat /\ MinFree \in Nat /\ Free(d) - Weight(S) >= MinFree
          BY <2>4, <4>2, FreeFacts, NumberAssumption
        <4>7. Free(d)' - Weight(T) >= MinFree
          BY <4>1, <4>5, <4>6
        <4> QED
          BY <4>4, <4>7
      <3> QED
        BY <3>2, <3>3, <3>4
    \* Another task at hand is for another disk.
    <2>9. Busy /\ tick.dir # k => Destination # d
      <3> SUFFICES ASSUME Busy, tick.dir # k PROVE Destination # d
        OBVIOUS
      <3>1. tick.dir \in AtHand \ {k}
        BY DEF AtHand
      <3> QED
        BY <2>1, <2>2, <3>1 DEF SpaceInv, Destination
    <2>10. ASSUME NEW a \in Assets, Copy(a) PROVE Goal
      <3>1. Busy /\ waste' = waste
        BY <2>10 DEF Copy, Busy
      <3>2. PICK e \in Disks : e = Destination
        BY <3>1, BusyFacts
      <3>3. /\ a \in tick.left /\ at' = [at EXCEPT ![e] = @ \union {a}]
            /\ tick' = [tick EXCEPT !.left = @ \ {a}]
        BY <2>10, <3>2 DEF Copy
      <3>4. CASE e # d \/ a \in at[d]
        <4>1. at'[d] = at[d]
          BY <3>3, <3>4 DEF TypeOK
        <4> QED
          BY <2>6, <3>1, <4>1
      <3>5. CASE e = d /\ a \notin at[d]
        <4>1. tick.dir = k
          BY <2>9, <3>1, <3>2, <3>5
        <4>2. at'[d] = at[d] \union {a}
          BY <3>3, <3>5 DEF TypeOK
        <4>3. Free(d)' = Free(d) - Size[a] /\ Size[a] \in Nat
          BY <3>1, <3>5, <4>2, FreeLess
        <4>4. a \in ToBring(k, d)
          BY <3>3, <3>5, <4>1 DEF ToCopy, ToBring
        <4>5. ToBring(k, d)' \subseteq ToBring(k, d) \ {a}
          BY <2>5, <4>2 DEF ToBring
        <4>6. PICK S \in SUBSET Assets : S = ToBring(k, d)
          BY ToBringTyped
        <4>7. PICK T \in SUBSET (S \ {a}) : T = ToBring(k, d)'
          BY <4>5, <4>6
        <4>8. PICK U \in SUBSET Assets : U = S \ {a}
          BY <4>6
        <4>9. Weight(U) = Weight(S) - Size[a] /\ Weight(S) \in Nat
          BY <4>4, <4>6, <4>8, WeightFacts
        <4>10. Weight(T) \in Nat /\ Weight(T) <= Weight(U)
          BY <4>7, <4>8, WeightFacts
        <4>11. Free(d) \in Nat /\ MinFree \in Nat /\ Free(d) - Weight(S) >= MinFree
          BY <2>4, <4>6, FreeFacts, NumberAssumption
        <4>12. Free(d)' - Weight(T) >= MinFree
          BY <4>3, <4>9, <4>10, <4>11
        <4> QED
          BY <4>7, <4>12
      <3> QED
        BY <3>4, <3>5
    <2>11. ASSUME NEW a \in Assets, CopyFails(a) PROVE Goal
      <3>1. Busy /\ NextTask("FAILED") /\ at' = at
        BY <2>11 DEF CopyFails, Busy
      <3>2. PICK e \in Disks : e = Destination
        BY <3>1, BusyFacts
      <3>3. waste' = waste \/ waste' = [waste EXCEPT ![e] = @ + Free(e)]
        BY <2>11, <3>2 DEF CopyFails
      <3>4. tick.dir # k
        <4>1. tick'.dir = NoRow /\ task'[tick.dir].st = "FAILED" /\ k # NoRow
          BY <3>1, NextTaskTyped, DirAssumption
        <4> QED
          BY <4>1 DEF Unfinished
      <3>5. e # d
        BY <2>9, <3>1, <3>2, <3>4
      <3>6. waste'[d] = waste[d]
        BY <3>3, <3>5 DEF TypeOK
      <3> QED
        BY <2>6, <3>1, <3>6
    \* What is released is of a directory that is no longer unfinished.
    <2>12. ASSUME Release PROVE Goal
      <3>1. Busy /\ tick.pc = "release" /\ waste' = waste
        BY <2>12 DEF Release, Busy
      <3>2. tick.dir # k
        BY <2>1, <3>1 DEF Unfinished, WorkInv
      <3>3. PICK s \in Disks : s = Source
        BY <3>1, BusyFacts
      <3>4. PICK safe : safe \subseteq tick.assets /\ at' = [at EXCEPT ![s] = @ \ safe]
        BY <2>12, <3>3 DEF Release
      <3>5. \A x \in safe : DirOf[x] = tick.dir
        BY <3>1, <3>4 DEF WorkInv, In
      <3>6. at'[d] \subseteq at[d] /\ \A x \in at[d] : x \notin at'[d] => x \in safe
        BY <3>4 DEF TypeOK
      <3>7. \A x \in ToCopy(k) : DirOf[x] = k
        BY ToBringTyped
      <3>8. ToBring(k, d)' \subseteq ToBring(k, d)
        BY <2>5, <3>2, <3>5, <3>6, <3>7 DEF ToBring
      <3>9. Free(d)' >= Free(d) /\ Free(d)' \in Nat
        BY <3>1, <3>6, FreeMore
      <3>10. Free(d)' \in Int
        BY <3>9
      <3> QED
        BY <2>4, <3>8, <3>9, <3>10, FloorSame
    <2>13. /\ \A e \in Disks : Claim(e) \/ Touch(e) \/ Scan(e) => UNCHANGED <<at, waste>>
           /\ \A i \in Dirs : StartTask(i) \/ RowIsGone(i) => UNCHANGED <<at, waste>>
           /\ \A a \in Assets : UploadLoose(a) => UNCHANGED <<at, waste>>
      BY DEF Claim, Touch, Scan, StartTask, RowIsGone, UploadLoose
    <2>14. StartTick \/ EndTick \/ Register \/ Rehost \/ Crash \/ UNCHANGED vars
             => UNCHANGED <<at, waste>>
      BY DEF StartTick, EndTick, Register, Rehost, Crash, vars
    <2>15. Goal
      BY <1>2, <2>7, <2>8, <2>10, <2>11, <2>12, <2>13, <2>14, <2>16 DEF Next, Step
    <2> QED
      BY <2>3, <2>15 DEF Free, ToBring, ToCopy, In
  <1> QED
    BY <1>1, <1>2

----------------------------------------------------------------------------
\* The theorems.

LEMMA InitHolds ==
  Init => TypeOK /\ WorkInv /\ CopyInv /\ SpaceInv /\ FloorKept
  <1> SUFFICES ASSUME Init
               PROVE  TypeOK /\ WorkInv /\ CopyInv /\ SpaceInv /\ FloorKept
    OBVIOUS
  <1>1. TypeOK
    BY InitTyped
  <1>2. /\ tick.pc = "idle" /\ tick.dirs = {} /\ tick.dir = NoRow
        /\ copied = [k \in Dirs |-> {}] /\ task = [k \in Dirs |-> NoRow]
    BY DEF Init, Idle
  <1>3. ~Busy /\ Reported = {} /\ \A k \in Dirs : ~Unfinished(k)
    BY <1>2 DEF Busy, Reported, Unfinished
  <1>4. WorkInv
    BY <1>2, <1>3 DEF WorkInv
  <1>5. CopyInv
    BY <1>2 DEF CopyInv
  <1>6. SpaceInv /\ FloorKept
    BY <1>3 DEF SpaceInv, FloorKept
  <1> QED
    BY <1>1, <1>4, <1>5, <1>6

\* Whatever the sizes of disks and assets, the margins and thresholds, and
\* whenever uploads and deletions come or the node crashes: no disk is ever filled
\* beyond its room by an upload or a migration (clusterapi.go, executor.go), and
\* the task that runs has a row and moves assets of its directory alone.
THEOREM TypeCorrect == Spec => [](TypeOK /\ WorkInv)
  <1>1. Init => TypeOK /\ WorkInv
    BY InitHolds
  <1>2. TypeOK /\ WorkInv /\ [Next]_vars => TypeOK' /\ WorkInv'
    BY TypeStep, WorkStep
  <1> QED
    BY <1>1, <1>2, PTL DEF Spec

\* A directory is copied to one disk and no further: although the balancer plans
\* again in every cycle (all disks are of one tier, so that no plan ever satisfies
\* it), the task of a directory is recorded once (INSERT OR IGNORE in store.go),
\* and neither a scan that names the source again, nor a crash, nor an upload or
\* a deletion in between, however often its assets are uploaded, makes a migration
\* bring a file of it to a second disk.
THEOREM CopiedToOneOther == Spec => []CopiedOnce
  <1>1. Init => CopyInv
    BY InitHolds
  <1>2. TypeOK /\ WorkInv /\ CopyInv /\ [Next]_vars => CopyInv'
    BY CopyInvStep
  <1>3. CopyInv => CopiedOnce
    BY OneTarget
  <1> QED
    BY <1>1, <1>2, <1>3, TypeCorrect, PTL DEF Spec

\* The space precheck of a plan is enough: from its planning to its end, a
\* migration leaves its target the reserve of PrecheckSpace (space.go), with all
\* that it still has to bring there, unless the record says who came between:
\* another plan for that disk, an upload to it or to the directory, a scan that
\* found more of the directory, or a row that counted too little.  These are all
\* the ways to lose it: a deletion is none.
THEOREM ReserveKept == Spec => []FloorKept
  <1>1. Init => SpaceInv /\ FloorKept
    BY InitHolds
  <1>2. TypeOK /\ WorkInv /\ SpaceInv /\ FloorKept /\ [Next]_vars
          => SpaceInv' /\ FloorKept'
    BY SpaceStep, FloorStep
  <1> QED
    BY <1>1, <1>2, TypeCorrect, PTL DEF Spec

=============================================================================
