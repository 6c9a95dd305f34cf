-------------------------- MODULE DiskClaimProofs --------------------------
(***************************************************************************)
(* What holds of DiskClaim for all nodes, disks, names, clocks and         *)
(* budgets of events.                                                      *)
(***************************************************************************)
EXTENDS DiskClaim, FiniteSetTheorems, WellFoundedInduction, TLAPS

----------------------------------------------------------------------------
\* The score of a node.

\* A sum of nothing but zeros is zero: a smallest set of names with another
\* sum would have a smaller one.
LEMMA NoSecondsNoScore ==
  ASSUME NEW n \in Nodes,
         \A k \in Names : row[n][k] # Nowhere => row[n][k].secs = 0
  PROVE  Score(n) = 0
  <1> DEFINE term(k) == IF row[n][k] = Nowhere THEN 0 ELSE row[n][k].secs
             Sums(f) == f = [K \in SUBSET Names |->
                               IF K = {} THEN 0
                               ELSE LET k == CHOOSE j \in K : TRUE
                                    IN  f[K \ {k}] + term(k)]
             sum == CHOOSE f : Sums(f)
             zero == [K \in SUBSET Names |-> 0]
  <1>1. \A k \in Names : term(k) = 0
    OBVIOUS
  <1>2. \A K \in SUBSET Names : K # {} => (CHOOSE j \in K : TRUE) \in K
    OBVIOUS
  <1>3. Sums(zero)
    <2> HIDE DEF term
    <2>1. ASSUME NEW K \in SUBSET Names
          PROVE  0 = IF K = {} THEN 0
                     ELSE LET k == CHOOSE j \in K : TRUE IN zero[K \ {k}] + term(k)
      BY <1>1, <1>2
    <2> QED
      BY <2>1, Zenon
  <1>4. Sums(sum)
    <2> HIDE DEF Sums, zero
    <2> QED
      BY <1>3
  <1>5. Score(n) = sum[Names]
    BY Zenon DEF Score
  <1> DEFINE Bad == {K \in FiniteSubsetsOf(Names) : sum[K] # 0}
  <1>6. SUFFICES ASSUME sum[Names] # 0
                 PROVE  FALSE
    BY <1>5
  <1> HIDE DEF sum
  <1>7. Names \in Bad
    BY <1>6, FiniteAssumption DEF FiniteSubsetsOf
  <1>8. PICK K \in Bad : \A L \in Bad : <<L, K>> \notin StrictSubsetOrdering(Names)
    <2> HIDE DEF Bad
    <2>1. IsWellFoundedOn(StrictSubsetOrdering(Names), FiniteSubsetsOf(Names))
      BY FS_StrictSubsetOrderingWellFounded
    <2>2. Bad \subseteq FiniteSubsetsOf(Names)
      BY DEF Bad
    <2> QED
      BY <1>7, <2>1, <2>2, WFMin
  <1>9. K \in SUBSET Names /\ IsFiniteSet(K) /\ sum[K] # 0
    BY <1>8 DEF FiniteSubsetsOf
  <1> DEFINE k == CHOOSE j \in K : TRUE
  <1> HIDE DEF term
  <1>10. sum[K] = IF K = {} THEN 0 ELSE sum[K \ {k}] + term(k)
    BY <1>4, <1>9
  <1>11. K # {} /\ k \in K /\ term(k) = 0
    BY <1>1, <1>2, <1>9, <1>10
  <1> HIDE DEF k
  <1>12. <<K \ {k}, K>> \in StrictSubsetOrdering(Names)
    BY <1>9, <1>11 DEF StrictSubsetOrdering
  <1>13. IsFiniteSet(K \ {k})
    BY <1>9, FS_RemoveElement
  <1>14. sum[K \ {k}] = 0
    BY <1>8, <1>9, <1>12, <1>13 DEF FiniteSubsetsOf
  <1> QED
    BY <1>9, <1>10, <1>11, <1>14

----------------------------------------------------------------------------
\* Type correctness.

LEMMA IdleTyped == Idle \in Ticks
  BY TimeAssumption DEF Idle, Ticks, Pcs

LEMMA InitTyped == Init => TypeOK
  <1> SUFFICES ASSUME Init PROVE TypeOK
    OBVIOUS
  <1>1. plugged \in [Disks -> Nodes] /\ idFile \in [Disks -> Names \union {NoName, TornName}]
        /\ stats \in [Disks -> {"none", "torn", "ok"}]
    BY HomeAssumption DEF Init
  <1>2. row \in [Nodes -> [Names -> Rows \union {Nowhere}]]
    BY DEF Init
  <1>3. tick \in [Nodes -> Ticks]
    BY IdleTyped DEF Init
  <1>4. \A n \in Nodes : tick[n].pc = "idle" /\ tick[n].peers = {}
    BY DEF Init, Idle
  <1>5. coord \in [Nodes -> Nodes \union {Nobody}] /\ now \in 0 .. LastTime
    BY TimeAssumption DEF Init
  <1>6. task \in [Nodes -> [name : Names, seen : Nodes \union {Nobody}] \union {NoTask}]
    BY DEF Init
  <1>7. /\ used = [x \in Events \union {"names"} |-> used[x]]
        /\ used["names"] = {} /\ \A e \in Events : used[e] = 0
    BY DEF Init, Events
  <1>8. \A e \in Events : used[e] \in 0 .. Max[e]
    BY <1>7, MaxAssumption
  <1> QED
    BY <1>1, <1>2, <1>3, <1>4, <1>5, <1>6, <1>7, <1>8 DEF TypeOK

\* An event that is spent leaves the history typed.
LEMMA SpendTyped ==
  ASSUME TypeOK, NEW e \in Events, Spend(e)
  PROVE  /\ used' = [x \in Events \union {"names"} |-> used'[x]]
         /\ used'["names"] = used["names"]
         /\ used'[e] = used[e] + 1
         /\ \A f \in Events : f # e => used'[f] = used[f]
         /\ \A f \in Events : used'[f] \in 0 .. Max[f]
  <1>1. used' = [used EXCEPT ![e] = used[e] + 1] /\ used[e] < Max[e]
    BY DEF Spend
  <1>2. e # "names"
    BY DEF Events
  <1>3. used' = [x \in Events \union {"names"} |-> used'[x]]
    BY <1>1, <1>2 DEF TypeOK
  <1>4. /\ used'["names"] = used["names"] /\ used'[e] = used[e] + 1
        /\ \A f \in Events : f # e => used'[f] = used[f]
    BY <1>1, <1>2 DEF TypeOK
  <1>5. \A f \in Events : used'[f] \in 0 .. Max[f]
    BY <1>1, <1>4, MaxAssumption DEF TypeOK
  <1> QED
    BY <1>3, <1>4, <1>5

\* What a turn of a node does to its own record, and to no other.
LEMMA TurnTyped ==
  ASSUME TypeOK, NEW n \in Nodes, NEW r \in Ticks, tick' = [tick EXCEPT ![n] = r]
  PROVE  /\ tick' \in [Nodes -> Ticks]
         /\ tick'[n] = r
         /\ \A m \in Nodes : m # n => tick'[m] = tick[m]
  BY DEF TypeOK

\* The coordinator so far is one of those heard.
LEMMA ElectedTyped ==
  ASSUME NEW n \in Nodes, NEW best \in [node : Nodes \union {Nobody}, score : Nat],
         best.score = 0, Score(n) = 0
  PROVE  /\ Elected(best, n) \in [node : Nodes \union {Nobody}, score : Nat]
         /\ Elected(best, n).score = 0
         /\ Elected(best, n).node =
              IF best.node = Nobody \/ n < best.node THEN n ELSE best.node
  BY DEF Elected

\* The part of the type invariant that is about the ticks.
TickOK ==
  /\ tick \in [Nodes -> Ticks]
  /\ \A n \in Nodes :
       /\ tick[n].pc \in {"save", "touch"} => tick[n].name \in Names
       /\ n \notin tick[n].peers

LEMMA TurnKept ==
  ASSUME TickOK, NEW n \in Nodes, tick' = [m \in Nodes |-> tick'[m]],
         \A m \in Nodes : m # n => tick'[m] = tick[m],
         tick'[n] \in Ticks,
         tick'[n].pc \in {"save", "touch"} => tick'[n].name \in Names,
         n \notin tick'[n].peers
  PROVE  TickOK'
  <1>1. \A m \in Nodes : tick'[m] \in Ticks
    BY DEF TickOK
  <1>2. tick' \in [Nodes -> Ticks]
    BY <1>1
  <1> QED
    BY <1>2 DEF TickOK

\* What Goto does to the record of its node.
LEMMA GotoTyped ==
  ASSUME TickOK, NEW n \in Nodes, NEW pc \in Pcs, Goto(n, pc),
         pc \in {"save", "touch"} => tick[n].name \in Names
  PROVE  /\ TickOK'
         /\ \A m \in Nodes : m # n => tick'[m] = tick[m]
         /\ tick'[n].pc = pc
         /\ tick'[n].disk = tick[n].disk /\ tick'[n].name = tick[n].name
         /\ tick'[n].at = tick[n].at /\ tick'[n].view = tick[n].view
         /\ tick'[n].best = tick[n].best /\ tick'[n].peers = tick[n].peers
  <1>1. tick[n] \in Ticks
    BY DEF TickOK
  <1>2. tick' = [m \in Nodes |-> tick'[m]] /\ \A m \in Nodes : m # n => tick'[m] = tick[m]
    BY DEF Goto, TickOK
  <1>3. tick'[n] = [tick[n] EXCEPT !.pc = pc]
    BY DEF Goto, TickOK
  <1>4. /\ tick'[n].pc = pc
        /\ tick'[n].disk = tick[n].disk /\ tick'[n].name = tick[n].name
        /\ tick'[n].at = tick[n].at /\ tick'[n].view = tick[n].view
        /\ tick'[n].best = tick[n].best /\ tick'[n].peers = tick[n].peers
    BY <1>1, <1>3 DEF Ticks
  <1>5. tick'[n] \in Ticks
    BY <1>1, <1>3 DEF Ticks
  <1>6. n \notin tick'[n].peers
    BY <1>4 DEF TickOK
  <1>7. TickOK'
    BY <1>2, <1>4, <1>5, <1>6, TurnKept
  <1> QED
    BY <1>2, <1>4, <1>7

\* A row is written in the table of one node, under one name.
LEMMA PutRow ==
  ASSUME row \in [Nodes -> [Names -> Rows \union {Nowhere}]],
         NEW n \in Nodes, NEW k \in Names, NEW r \in Rows,
         row' = [row EXCEPT ![n][k] = r]
  PROVE  /\ row' \in [Nodes -> [Names -> Rows \union {Nowhere}]]
         /\ row'[n][k] = r
         /\ r # Nowhere
         /\ \A m \in Nodes, j \in Names : m # n \/ j # k => row'[m][j] = row[m][j]
  <1>1. row[n] \in [Names -> Rows \union {Nowhere}]
    OBVIOUS
  <1>2. [row[n] EXCEPT ![k] = r] \in [Names -> Rows \union {Nowhere}]
    BY <1>1
  <1>3. row' = [row EXCEPT ![n] = [row[n] EXCEPT ![k] = r]]
    OBVIOUS
  <1>4. row' \in [Nodes -> [Names -> Rows \union {Nowhere}]]
    BY <1>2, <1>3
  <1>5. row'[n] = [row[n] EXCEPT ![k] = r]
    BY <1>3
  <1>6. r # Nowhere
    BY NowhereAssumption DEF Rows
  <1> QED
    BY <1>1, <1>3, <1>4, <1>5, <1>6

LEMMA TypeParts ==
  TypeOK <=> /\ TickOK
             /\ plugged \in [Disks -> Nodes]
             /\ idFile \in [Disks -> Names \union {NoName, TornName}]
             /\ stats \in [Disks -> {"none", "torn", "ok"}]
             /\ row \in [Nodes -> [Names -> Rows \union {Nowhere}]]
             /\ coord \in [Nodes -> Nodes \union {Nobody}]
             /\ task \in [Nodes -> [name : Names, seen : Nodes \union {Nobody}] \union {NoTask}]
             /\ now \in 0 .. LastTime
             /\ used = [x \in Events \union {"names"} |-> used[x]]
             /\ used["names"] \subseteq Names
             /\ \A e \in Events : used[e] \in 0 .. Max[e]
  BY DEF TypeOK, TickOK

\* Every step keeps the types; the score a node is elected by is zero.
LEMMA TypeStep ==
  ASSUME TypeOK, RowInv, ElectInv, [Next]_vars
  PROVE  TypeOK'
  <1> USE DEF T
  <1>1. \A n \in Nodes :
          /\ tick[n] \in Ticks
          /\ tick[n].pc \in {"save", "touch"} => tick[n].name \in Names
          /\ n \notin tick[n].peers
          /\ Score(n) = 0 /\ tick[n].best.score = 0
    BY NoSecondsNoScore DEF TypeOK, RowInv, ElectInv
  <1>0. TickOK
    BY DEF TypeOK, TickOK
  <1>2. \A n \in Nodes : Idle \in Ticks /\ Idle.pc = "idle" /\ Idle.peers = {}
    BY IdleTyped DEF Idle
  <1>3. ASSUME NEW n \in Nodes, StartTick(n) PROVE TypeOK'
    <2> DEFINE r == [Idle EXCEPT !.pc = "claim", !.at = now, !.disks = Disks]
    <2>1. r \in Ticks /\ r.pc = "claim" /\ r.peers = {}
      BY <1>2 DEF Idle, Ticks, Pcs, TypeOK
    <2> HIDE DEF r
    <2>2. tick' = [tick EXCEPT ![n] = r]
      BY <1>3 DEF StartTick, r
    <2> QED
      BY <1>3, <2>1, <2>2, TurnTyped DEF StartTick, TypeOK
  <1>4. ASSUME NEW n \in Nodes, NEW d \in Disks, Absent(n, d) PROVE TypeOK'
    <2>1. /\ tick' = [m \in Nodes |-> tick'[m]]
          /\ \A m \in Nodes : m # n => tick'[m] = tick[m]
      BY <1>4 DEF Absent, TypeOK
    <2>2. tick'[n] \in Ticks /\ tick'[n].pc = "claim" /\ n \notin tick'[n].peers
      <3>1. tick'[n] = [tick[n] EXCEPT !.disks = @ \ {d}] /\ tick[n].pc = "claim"
        BY <1>4 DEF Absent, TypeOK
      <3> QED
        BY <1>1, <3>1 DEF Ticks
    <2>3. TickOK'
      BY <1>0, <2>1, <2>2, TurnKept
    <2> QED
      BY <1>4, <2>3 DEF Absent, TypeOK, TickOK
  <1>5. ASSUME NEW n \in Nodes, NEW d \in Disks, Identify(n, d) PROVE TypeOK'
    <2>1. /\ tick' = [m \in Nodes |-> tick'[m]]
          /\ \A m \in Nodes : m # n => tick'[m] = tick[m]
      BY <1>5 DEF Identify, TypeOK
    <2>2. tick'[n] \in Ticks /\ tick'[n].name \in Names /\ n \notin tick'[n].peers
      BY <1>0, <1>1, <1>5 DEF Identify, TickOK, Ticks, Pcs
    <2>3. TickOK'
      BY <1>0, <2>1, <2>2, TurnKept
    <2> QED
      BY <1>5, <2>3 DEF Identify, TypeOK, TickOK
  <1>6. ASSUME NEW n \in Nodes, NEW d \in Disks, Create(n, d) PROVE TypeOK'
    <2>1. /\ used' = [x \in Events \union {"names"} |-> used'[x]]
          /\ used'["names"] \subseteq Names
          /\ \A f \in Events : used'[f] \in 0 .. Max[f]
      BY <1>6, SpendTyped DEF Create, TypeOK, Events
    <2> QED
      <3>1. /\ tick' = [m \in Nodes |-> tick'[m]]
            /\ \A m \in Nodes : m # n => tick'[m] = tick[m]
        BY <1>6 DEF Create, TypeOK
      <3>2. tick'[n] \in Ticks /\ tick'[n].pc = "naming" /\ n \notin tick'[n].peers
        BY <1>0, <1>1, <1>6 DEF Create, TickOK, Ticks, Pcs
      <3>3. TickOK'
        BY <1>0, <3>1, <3>2, TurnKept
      <3> QED
        BY <1>6, <2>1, <3>3 DEF Create, TypeOK, TickOK
  <1>7. ASSUME NEW n \in Nodes, NEW k \in Names, NameDisk(n, k) PROVE TypeOK'
    <2>1. /\ used' = [x \in Events \union {"names"} |-> used'[x]]
          /\ used'["names"] \subseteq Names
          /\ \A f \in Events : used'[f] \in 0 .. Max[f]
      BY <1>7 DEF NameDisk, TypeOK, Events
    <2> QED
      <3>1. /\ tick' = [m \in Nodes |-> tick'[m]]
            /\ \A m \in Nodes : m # n => tick'[m] = tick[m]
        BY <1>7 DEF NameDisk, TypeOK
      <3>2. tick'[n] \in Ticks /\ tick'[n].name \in Names /\ n \notin tick'[n].peers
        <4>1. tick'[n] = [tick[n] EXCEPT !.pc = "save", !.name = k]
          BY <1>7 DEF NameDisk, TypeOK
        <4> QED
          BY <1>1, <4>1 DEF Ticks, Pcs
      <3>3. TickOK'
        BY <1>0, <3>1, <3>2, TurnKept
      <3> QED
        BY <1>7, <2>1, <3>3 DEF NameDisk, TypeOK, TickOK
  <1>8. ASSUME NEW n \in Nodes, NEW k \in Names, NameFails(n, k) PROVE TypeOK'
    <2>1. /\ used' = [x \in Events \union {"names"} |-> used'[x]]
          /\ used'["names"] \subseteq Names
          /\ \A f \in Events : used'[f] \in 0 .. Max[f]
      BY <1>8, SpendTyped DEF NameFails, TypeOK, Events
    <2> QED
      <3>1. TickOK'
        BY <1>0, <1>1, <1>8, GotoTyped DEF NameFails, Unnamed, Pcs
      <3> QED
        BY <1>8, <2>1, <3>1 DEF NameFails, Unnamed, TypeOK, TickOK
  <1>9. ASSUME NEW n \in Nodes, SaveDisk(n) PROVE TypeOK'
    <2>1. row' \in [Nodes -> [Names -> Rows \union {Nowhere}]]
      <3>1. tick[n].at \in Nat
        BY <1>1, TimeAssumption DEF Ticks
      <3> DEFINE r == [node |-> WithoutNode(n), secs |-> 0, seen |-> tick[n].at]
      <3>2. r \in Rows
        BY <3>1 DEF Rows, WithoutNode
      <3>4. tick[n].name \in Names
        BY <1>1, <1>9 DEF SaveDisk
      <3> HIDE DEF r
      <3>3. row' = [row EXCEPT ![n][tick[n].name] = r] \/ UNCHANGED row
        BY <1>9 DEF SaveDisk, r
      <3> QED
        BY <3>2, <3>3, <3>4, PutRow DEF TypeOK
    <2> QED
      <3>1. TickOK'
        BY <1>0, <1>1, <1>9, GotoTyped DEF SaveDisk, Pcs
      <3> QED
        BY <1>9, <2>1, <3>1 DEF SaveDisk, TypeOK, TickOK
  <1>10. ASSUME NEW n \in Nodes, Touch(n) PROVE TypeOK'
    <2>1. row' \in [Nodes -> [Names -> Rows \union {Nowhere}]]
      <3>1. tick[n].name \in Names /\ row[n][tick[n].name] # Nowhere
        BY <1>1, <1>10 DEF Touch, RowInv
      <3>2. row[n][tick[n].name] \in Rows /\ tick[n].at \in Nat
        BY <1>1, <3>1, TimeAssumption DEF TypeOK, Ticks
      <3>3. Accrued(row[n][tick[n].name], tick[n].at) \in Nat
        BY <3>2 DEF Accrued, Rows
      <3> QED
        <4> DEFINE r == [node |-> n, secs |-> Accrued(row[n][tick[n].name], tick[n].at),
                         seen |-> tick[n].at]
        <4>1. r \in Rows
          BY <3>2, <3>3 DEF Rows
        <4> HIDE DEF r
        <4>2. row' = [row EXCEPT ![n][tick[n].name] = r] \/ UNCHANGED row
          BY <1>10 DEF Touch, r
        <4> QED
          BY <3>1, <4>1, <4>2, PutRow DEF TypeOK
    <2> QED
      <3>1. TickOK'
        BY <1>0, <1>1, <1>10, GotoTyped DEF Touch, Pcs
      <3> QED
        BY <1>10, <2>1, <3>1 DEF Touch, TypeOK, TickOK
  <1>11. ASSUME NEW n \in Nodes, TruncateStats(n) PROVE TypeOK'
    <2>1. TickOK'
      BY <1>0, <1>11, GotoTyped DEF TruncateStats, Pcs
    <2> QED
      BY <1>11, <2>1 DEF TruncateStats, TypeOK, TickOK
  <1>12. ASSUME NEW n \in Nodes, WriteStats(n) PROVE TypeOK'
    <2>1. TickOK'
      BY <1>0, <1>12, GotoTyped DEF WriteStats, Pcs
    <2> QED
      BY <1>12, <2>1 DEF WriteStats, TypeOK, TickOK
  <1>13. ASSUME NEW n \in Nodes, StatsFail(n) PROVE TypeOK'
    <2>1. /\ used' = [x \in Events \union {"names"} |-> used'[x]]
          /\ used'["names"] \subseteq Names
          /\ \A f \in Events : used'[f] \in 0 .. Max[f]
      BY <1>13, SpendTyped DEF StatsFail, TypeOK, Events
    <2> QED
      <3>1. TickOK'
        BY <1>0, <1>1, <1>13, GotoTyped DEF StatsFail, Pcs
      <3> QED
        BY <1>13, <2>1, <3>1 DEF StatsFail, TypeOK, TickOK
  <1>14. ASSUME NEW n \in Nodes, NEW m \in Nodes, Include(n, m),
                UNCHANGED <<plugged, idFile, stats, row, coord, task, now, used>>
         PROVE  TypeOK'
    <2>1. Merged(tick[n].view, m) \in [Names -> Nodes \union {Nobody, Nowhere}]
      BY <1>1 DEF Merged, Reported, TypeOK, Ticks, Rows
    <2>2. Elected(tick[n].best, m) \in [node : Nodes \union {Nobody}, score : Nat]
      BY <1>1, ElectedTyped DEF Ticks
    <2> DEFINE view == Merged(tick[n].view, m)
               best == Elected(tick[n].best, m)
               peers == IF m = n THEN Nodes \ {n} ELSE tick[n].peers \ {m}
    <2>3. /\ view \in [Names -> Nodes \union {Nobody, Nowhere}]
          /\ best \in [node : Nodes \union {Nobody}, score : Nat]
          /\ peers \in SUBSET Nodes /\ n \notin peers
      BY <1>1, <2>1, <2>2 DEF Ticks
    <2>4. tick' = [tick EXCEPT ![n].view = view, ![n].best = best, ![n].pc = "fetch",
                               ![n].peers = peers]
      BY <1>14 DEF Include
    <2> HIDE DEF view, best, peers
    <2> QED
      <3>1. /\ tick' = [o \in Nodes |-> tick'[o]]
            /\ \A o \in Nodes : o # n => tick'[o] = tick[o]
        BY <2>4 DEF TypeOK
      <3>2. /\ tick'[n] = [tick[n] EXCEPT !.view = view, !.best = best, !.pc = "fetch",
                                          !.peers = peers]
        BY <2>4 DEF TypeOK
      <3>3. tick'[n] \in Ticks /\ tick'[n].pc = "fetch" /\ n \notin tick'[n].peers
        BY <1>1, <2>3, <3>2 DEF Ticks, Pcs
      <3>4. TickOK'
        BY <1>0, <3>1, <3>3, TurnKept
      <3> QED
        BY <1>14, <3>4 DEF TypeOK, TickOK
  <1>15. ASSUME NEW n \in Nodes, tick' = [tick EXCEPT ![n] = Idle],
                UNCHANGED <<plugged, idFile, stats, row, coord, task, now>>,
                UNCHANGED used \/ Spend("crash")
         PROVE  TypeOK'
    <2>1. /\ used' = [x \in Events \union {"names"} |-> used'[x]]
          /\ used'["names"] \subseteq Names
          /\ \A f \in Events : used'[f] \in 0 .. Max[f]
      BY <1>15, SpendTyped DEF TypeOK, Events
    <2> QED
      BY <1>1, <1>2, <1>15, <2>1 DEF TypeOK
  <1>16. ASSUME NEW n \in Nodes, Schedule(n),
                task' \in [Nodes -> [name : Names, seen : Nodes \union {Nobody}] \union {NoTask}]
         PROVE  TypeOK'
    BY <1>1, <1>2, <1>16 DEF Schedule, TypeOK, Ticks
  <1>17. ASSUME NEW n \in Nodes, NEW k \in Names, Submit(n, k) PROVE TypeOK'
    <2>1. tick[n].view[k] \in Nodes \union {Nobody}
      BY <1>1, <1>17 DEF Submit, Ticks
    <2>2. Routed(n, k) \in Nodes
      BY <2>1 DEF Routed
    <2>3. task' \in [Nodes -> [name : Names, seen : Nodes \union {Nobody}] \union {NoTask}]
      BY <1>17, <2>1, <2>2 DEF Submit, TypeOK
    <2> QED
      BY <1>16, <1>17, <2>3 DEF Submit
  <1>18. ASSUME NEW d \in Disks, NEW n \in Nodes, Plug(d, n) PROVE TypeOK'
    <2>1. /\ used' = [x \in Events \union {"names"} |-> used'[x]]
          /\ used'["names"] \subseteq Names
          /\ \A f \in Events : used'[f] \in 0 .. Max[f]
      BY <1>18, SpendTyped DEF Plug, TypeOK, Events
    <2>2. \A m \in Nodes :
            /\ tick'[m] \in Ticks
            /\ tick'[m].pc = tick[m].pc /\ tick'[m].name = tick[m].name
            /\ tick'[m].peers = tick[m].peers
      BY <1>1, <1>18 DEF Plug, Ticks
    <2>3. tick' \in [Nodes -> Ticks]
      BY <1>18, <2>2 DEF Plug
    <2> QED
      BY <1>1, <1>18, <2>1, <2>2, <2>3 DEF Plug, TypeOK
  <1>19. ASSUME Pass PROVE TypeOK'
    BY <1>19, TimeAssumption DEF Pass, TypeOK
  <1>20. CASE UNCHANGED vars
    BY <1>20 DEF vars, TypeOK
  <1> QED
    <2>1. \A n \in Nodes : Federate(n) => TypeOK'
      BY <1>14 DEF Federate
    <2>2. \A n, m \in Nodes : FetchState(n, m) => TypeOK'
      BY <1>14 DEF FetchState
    <2>3. \A n \in Nodes : FetchFails(n) \/ Crash(n) => TypeOK'
      BY <1>15 DEF FetchFails, Crash
    <2>4. \A n \in Nodes : SubmitNone(n) => TypeOK'
      BY <1>16 DEF SubmitNone, TypeOK
    <2> QED
      BY <1>3, <1>4, <1>5, <1>6, <1>7, <1>8, <1>9, <1>10, <1>11, <1>12, <1>13, <1>17,
         <1>18, <1>19, <1>20, <2>1, <2>2, <2>3, <2>4
      DEF Next, Tick

----------------------------------------------------------------------------
\* What the steps do to the records of the nodes.

\* The steps of a claim.
Claims(n) ==
  \/ \E d \in Disks : Absent(n, d) \/ Identify(n, d) \/ Create(n, d)
  \/ \E k \in Names : NameDisk(n, k) \/ NameFails(n, k)
  \/ SaveDisk(n) \/ Touch(n) \/ TruncateStats(n) \/ WriteStats(n) \/ StatsFail(n)

\* The rest of a record during a claim.
Kept(r, s) == r.at = s.at /\ r.view = s.view /\ r.best = s.best /\ r.peers = s.peers

\* A claim leaves alone what the federation works on, and what others do.
LEMMA ClaimTurn ==
  ASSUME TypeOK, NEW n \in Nodes, Claims(n)
  PROVE  /\ \A m \in Nodes : m # n => tick'[m] = tick[m]
         /\ tick[n].pc # "fetch" /\ tick'[n].pc # "fetch"
         /\ Kept(tick'[n], tick[n])
         /\ UNCHANGED <<plugged, coord, task, now>>
  <1> DEFINE Goal == /\ \A m \in Nodes : m # n => tick'[m] = tick[m]
                     /\ tick[n].pc # "fetch" /\ tick'[n].pc # "fetch"
                     /\ Kept(tick'[n], tick[n])
                     /\ UNCHANGED <<plugged, coord, task, now>>
  <1> USE DEF T
  <1>1. TickOK /\ tick[n] \in Ticks
    BY DEF TypeOK, TickOK
  <1>2. ASSUME NEW d \in Disks, Absent(n, d) PROVE Goal
    <2>1. tick'[n] = [tick[n] EXCEPT !.disks = @ \ {d}] /\ tick[n].pc = "claim"
      BY <1>2 DEF Absent, TypeOK
    <2> QED
      BY <1>1, <1>2, <2>1 DEF Absent, TypeOK, Ticks, Kept
  <1>3. ASSUME NEW d \in Disks, Identify(n, d) PROVE Goal
    <2>1. /\ tick'[n] = [tick[n] EXCEPT !.pc = "save", !.disks = @ \ {d}, !.disk = d,
                                        !.name = idFile[d]]
          /\ tick[n].pc = "claim"
      BY <1>3 DEF Identify, TypeOK
    <2> QED
      BY <1>1, <1>3, <2>1 DEF Identify, TypeOK, Ticks, Kept
  <1>4. ASSUME NEW d \in Disks, Create(n, d) PROVE Goal
    <2>1. /\ tick'[n] = [tick[n] EXCEPT !.pc = "naming", !.disks = @ \ {d}, !.disk = d]
          /\ tick[n].pc = "claim"
      BY <1>4 DEF Create, TypeOK
    <2> QED
      BY <1>1, <1>4, <2>1 DEF Create, TypeOK, Ticks, Kept
  <1>5. ASSUME NEW k \in Names, NameDisk(n, k) PROVE Goal
    <2>1. tick'[n] = [tick[n] EXCEPT !.pc = "save", !.name = k] /\ tick[n].pc = "naming"
      BY <1>5 DEF NameDisk, TypeOK
    <2> QED
      BY <1>1, <1>5, <2>1 DEF NameDisk, TypeOK, Ticks, Kept
  <1>6. ASSUME NEW k \in Names, NameFails(n, k) PROVE Goal
    BY <1>1, <1>6, GotoTyped DEF NameFails, Unnamed, Pcs, Kept
  <1>7. ASSUME SaveDisk(n) PROVE Goal
    BY <1>1, <1>7, GotoTyped DEF SaveDisk, TickOK, Pcs, Kept
  <1>8. ASSUME Touch(n) PROVE Goal
    BY <1>1, <1>8, GotoTyped DEF Touch, TickOK, Pcs, Kept
  <1>9. ASSUME TruncateStats(n) PROVE Goal
    BY <1>1, <1>9, GotoTyped DEF TruncateStats, Pcs, Kept
  <1>10. ASSUME WriteStats(n) PROVE Goal
    BY <1>1, <1>10, GotoTyped DEF WriteStats, Pcs, Kept
  <1>11. ASSUME StatsFail(n) PROVE Goal
    BY <1>1, <1>11, GotoTyped DEF StatsFail, Pcs, Kept
  <1> QED
    BY <1>2, <1>3, <1>4, <1>5, <1>6, <1>7, <1>8, <1>9, <1>10, <1>11 DEF Claims

\* The end of a tick, a crash and the beginning of a tick leave nothing of the
\* tick before.
Restarts(n) ==
  \/ tick' = [tick EXCEPT ![n] = Idle]
  \/ StartTick(n)

LEMMA RestartTurn ==
  ASSUME TypeOK, NEW n \in Nodes, Restarts(n)
  PROVE  /\ \A m \in Nodes : m # n => tick'[m] = tick[m]
         /\ tick'[n].pc \in {"idle", "claim"}
         /\ tick'[n].best = Idle.best /\ tick'[n].view = Idle.view
  <1>1. CASE tick' = [tick EXCEPT ![n] = Idle]
    <2>1. tick'[n] = Idle /\ \A m \in Nodes : m # n => tick'[m] = tick[m]
      BY <1>1 DEF TypeOK
    <2> QED
      BY <2>1 DEF Idle
  <1>2. CASE StartTick(n)
    <2>1. /\ tick'[n] = [Idle EXCEPT !.pc = "claim", !.at = now, !.disks = Disks]
          /\ \A m \in Nodes : m # n => tick'[m] = tick[m]
      BY <1>2 DEF StartTick, TypeOK
    <2> QED
      BY <2>1 DEF Idle
  <1> QED
    BY <1>1, <1>2 DEF Restarts

\* What a federation takes of a state.
LEMMA IncludeTurn ==
  ASSUME TypeOK, NEW n \in Nodes, NEW m \in Nodes, Include(n, m)
  PROVE  /\ \A o \in Nodes : o # n => tick'[o] = tick[o]
         /\ tick'[n].pc = "fetch"
         /\ tick'[n].view = Merged(tick[n].view, m)
         /\ tick'[n].best = Elected(tick[n].best, m)
         /\ tick'[n].peers = IF m = n THEN Nodes \ {n} ELSE tick[n].peers \ {m}
  <1> DEFINE view == Merged(tick[n].view, m)
             best == Elected(tick[n].best, m)
             peers == IF m = n THEN Nodes \ {n} ELSE tick[n].peers \ {m}
  <1>1. tick' = [tick EXCEPT ![n].view = view, ![n].best = best, ![n].pc = "fetch",
                             ![n].peers = peers]
    BY DEF Include
  <1> HIDE DEF view, best, peers
  <1>2. tick[n] \in Ticks
    BY DEF TypeOK
  <1>3. /\ \A o \in Nodes : o # n => tick'[o] = tick[o]
        /\ tick'[n] = [tick[n] EXCEPT !.view = view, !.best = best, !.pc = "fetch",
                                      !.peers = peers]
    BY <1>1 DEF TypeOK
  <1>4. /\ tick'[n].view = view /\ tick'[n].best = best
        /\ tick'[n].pc = "fetch" /\ tick'[n].peers = peers
    BY <1>2, <1>3 DEF Ticks
  <1> QED
    BY <1>3, <1>4 DEF view, best, peers

\* A disk that goes takes no more than the files that are open on it.
LEMMA PlugTurn ==
  ASSUME TypeOK, NEW d \in Disks, NEW n \in Nodes, Plug(d, n), NEW m \in Nodes
  PROVE  /\ tick'[m].pc = tick[m].pc /\ tick'[m].name = tick[m].name
         /\ Kept(tick'[m], tick[m])
         /\ tick'[m].disk = IF HasOpen(m, d) THEN Nobody ELSE tick[m].disk
  <1>1. tick[m] \in Ticks
    BY DEF TypeOK
  <1>2. tick'[m] = IF HasOpen(m, d) THEN [tick[m] EXCEPT !.disk = Nobody] ELSE tick[m]
    BY DEF Plug
  <1> QED
    BY <1>1, <1>2 DEF Ticks, Kept

\* The kinds of steps.
LEMMA Steps ==
  ASSUME Next
  PROVE  \/ \E n \in Nodes :
              \/ Claims(n)
              \/ StartTick(n) \/ FetchFails(n) \/ Crash(n)
              \/ SubmitNone(n) \/ \E k \in Names : Submit(n, k)
              \/ Federate(n) \/ \E m \in Nodes : FetchState(n, m)
         \/ \E d \in Disks, n \in Nodes : Plug(d, n)
         \/ Pass
  BY DEF Next, Tick, Claims

----------------------------------------------------------------------------
\* The rows.

\* Only a claim that saves or touches writes a row: one, of the node itself,
\* under the name in hand, and never with a second to its credit.
LEMMA RowTurn ==
  ASSUME TypeOK, RowInv, [Next]_vars
  PROVE  \/ UNCHANGED row
         \/ \E n \in Nodes :
              /\ SaveDisk(n) \/ Touch(n)
              /\ tick[n].name \in Names
              /\ row'[n][tick[n].name] # Nowhere
              /\ row'[n][tick[n].name].node \in {n, Nobody}
              /\ row'[n][tick[n].name].secs = 0
              /\ row'[n][tick[n].name].seen = tick[n].at
              /\ \A m \in Nodes, j \in Names :
                   m # n \/ j # tick[n].name => row'[m][j] = row[m][j]
  <1> DEFINE Writes(n) ==
               /\ SaveDisk(n) \/ Touch(n)
               /\ tick[n].name \in Names
               /\ row'[n][tick[n].name] # Nowhere
               /\ row'[n][tick[n].name].node \in {n, Nobody}
               /\ row'[n][tick[n].name].secs = 0
               /\ row'[n][tick[n].name].seen = tick[n].at
               /\ \A m \in Nodes, j \in Names :
                    m # n \/ j # tick[n].name => row'[m][j] = row[m][j]
  <1> SUFFICES ASSUME row' # row
               PROVE  \E n \in Nodes : Writes(n)
    OBVIOUS
  <1>1. row \in [Nodes -> [Names -> Rows \union {Nowhere}]]
    BY DEF TypeOK
  <1>2. ASSUME NEW n \in Nodes, SaveDisk(n) PROVE Writes(n)
    <2> DEFINE r == [node |-> WithoutNode(n), secs |-> 0, seen |-> tick[n].at]
    <2>1. tick[n].name \in Names /\ tick[n].at \in Nat
      BY <1>2, TimeAssumption DEF SaveDisk, T, TypeOK, Ticks
    <2>2. r \in Rows /\ r.node = Nobody /\ r.secs = 0 /\ r.seen = tick[n].at
      BY <2>1 DEF Rows, WithoutNode
    <2> HIDE DEF r
    <2>3. row' = [row EXCEPT ![n][tick[n].name] = r]
      BY <1>2 DEF SaveDisk, T, r
    <2>4. /\ row'[n][tick[n].name] = r /\ r # Nowhere
          /\ \A m \in Nodes, j \in Names : m # n \/ j # tick[n].name => row'[m][j] = row[m][j]
      <3> DEFINE k == tick[n].name
      <3>1. k \in Names /\ r \in Rows /\ row' = [row EXCEPT ![n][k] = r]
        BY <2>1, <2>2, <2>3
      <3> HIDE DEF k
      <3>2. /\ row'[n][k] = r /\ r # Nowhere
            /\ \A m \in Nodes, j \in Names : m # n \/ j # k => row'[m][j] = row[m][j]
        BY <1>1, <3>1, PutRow
      <3> QED
        BY <3>2 DEF k
    <2> QED
      BY <1>2, <2>1, <2>2, <2>4
  <1>3. ASSUME NEW n \in Nodes, Touch(n) PROVE Writes(n)
    <2> DEFINE old == row[n][tick[n].name]
               r == [node |-> n, secs |-> Accrued(old, tick[n].at), seen |-> tick[n].at]
    <2>1. tick[n].name \in Names /\ tick[n].at \in Nat
      BY <1>3, TimeAssumption DEF Touch, T, TypeOK, Ticks
    <2>2. old # Nowhere /\ old.secs = 0 /\ old.seen = tick[n].at
      BY <1>3, <2>1 DEF Touch, T, RowInv
    <2>3. Accrued(old, tick[n].at) = 0
      BY <2>1, <2>2 DEF Accrued
    <2>4. r \in Rows /\ r.node = n /\ r.secs = 0 /\ r.seen = tick[n].at
      BY <2>1, <2>3 DEF Rows
    <2> HIDE DEF r
    <2>5. row' = [row EXCEPT ![n][tick[n].name] = r]
      BY <1>3 DEF Touch, T, r
    <2>6. /\ row'[n][tick[n].name] = r /\ r # Nowhere
          /\ \A m \in Nodes, j \in Names : m # n \/ j # tick[n].name => row'[m][j] = row[m][j]
      <3> DEFINE k == tick[n].name
      <3>1. k \in Names /\ r \in Rows /\ row' = [row EXCEPT ![n][k] = r]
        BY <2>1, <2>4, <2>5
      <3> HIDE DEF k
      <3>2. /\ row'[n][k] = r /\ r # Nowhere
            /\ \A m \in Nodes, j \in Names : m # n \/ j # k => row'[m][j] = row[m][j]
        BY <1>1, <3>1, PutRow
      <3> QED
        BY <3>2 DEF k
    <2> QED
      BY <1>3, <2>1, <2>4, <2>6
  <1>4. \E n \in Nodes : SaveDisk(n) \/ Touch(n)
    <2> SUFFICES ASSUME \A n \in Nodes : ~SaveDisk(n) /\ ~Touch(n)
                 PROVE  row' = row
      OBVIOUS
    <2>1. ASSUME NEW n \in Nodes, Claims(n) PROVE row' = row
      BY <2>1 DEF Claims, Absent, Identify, Create, NameDisk, NameFails, TruncateStats,
                  WriteStats, StatsFail
    <2>2. ASSUME NEW n \in Nodes,
                 \/ StartTick(n) \/ FetchFails(n) \/ Crash(n) \/ Federate(n)
                 \/ \E m \in Nodes : FetchState(n, m)
          PROVE  row' = row
      BY <2>2 DEF StartTick, FetchFails, Crash, Federate, FetchState
    <2>3. ASSUME NEW n \in Nodes, SubmitNone(n) \/ \E k \in Names : Submit(n, k)
          PROVE  row' = row
      BY <2>3 DEF SubmitNone, Submit, Schedule
    <2>4. ASSUME NEW d \in Disks, NEW n \in Nodes, Plug(d, n) PROVE row' = row
      BY <2>4 DEF Plug
    <2>5. CASE Pass \/ UNCHANGED vars
      BY <2>5 DEF Pass, vars
    <2> QED
      BY <2>1, <2>2, <2>3, <2>4, <2>5, Steps
  <1> QED
    BY <1>2, <1>3, <1>4

\* A row is never removed.
LEMMA RowsStay ==
  ASSUME TypeOK, RowInv, [Next]_vars, NEW n \in Nodes, NEW k \in Names,
         row[n][k] # Nowhere
  PROVE  row'[n][k] # Nowhere
  BY RowTurn

LEMMA RowStep ==
  ASSUME TypeOK, RowInv, [Next]_vars
  PROVE  RowInv'
  <1>1. ASSUME NEW n \in Nodes, NEW k \in Names, row'[n][k] # Nowhere
        PROVE  row'[n][k].node \in {n, Nobody} /\ row'[n][k].secs = 0
    BY <1>1, RowTurn DEF RowInv
  <1>2. ASSUME NEW n \in Nodes, tick'[n].pc = "touch"
        PROVE  row'[n][tick'[n].name] # Nowhere /\ row'[n][tick'[n].name].seen = tick'[n].at
    <2>1. TickOK /\ tick[n] \in Ticks
      BY DEF TypeOK, TickOK
    <2>2. CASE SaveDisk(n)
      <3>1. \/ Goto(n, "touch")
            \/ Goto(n, "claim")
        BY <2>2 DEF SaveDisk
      <3>2. tick[n].name \in Names /\ tick[n].pc = "save"
        BY <2>1, <2>2 DEF SaveDisk, T, TickOK
      <3>3. /\ tick'[n].pc \in {"touch", "claim"} /\ tick'[n].name = tick[n].name
            /\ tick'[n].at = tick[n].at
            /\ tick'[n].pc = "touch" => ~Goto(n, "claim")
        BY <2>1, <3>1, <3>2, GotoTyped DEF Pcs
      <3>4. StatsReadable(n)
        BY <1>2, <2>2, <3>3 DEF SaveDisk
      <3>5. row' = [row EXCEPT ![n][tick[n].name] =
                      [node |-> WithoutNode(n), secs |-> 0, seen |-> tick[n].at]]
        BY <2>2, <3>4 DEF SaveDisk, T
      <3> DEFINE r == [node |-> WithoutNode(n), secs |-> 0, seen |-> tick[n].at]
      <3>6. r \in Rows /\ r.seen = tick[n].at
        BY <2>1, TimeAssumption DEF Rows, WithoutNode, Ticks
      <3>7. row' = [row EXCEPT ![n][tick[n].name] = r]
        BY <3>5
      <3> HIDE DEF r
      <3>8. row'[n][tick[n].name] = r /\ r # Nowhere
        <4> DEFINE k == tick[n].name
        <4>1. /\ k \in Names /\ r \in Rows /\ row' = [row EXCEPT ![n][k] = r]
              /\ row \in [Nodes -> [Names -> Rows \union {Nowhere}]]
          BY <3>2, <3>6, <3>7 DEF TypeOK
        <4> HIDE DEF k
        <4>2. row'[n][k] = r /\ r # Nowhere
          BY <4>1, PutRow
        <4> QED
          BY <4>2 DEF k
      <3> QED
        BY <3>3, <3>6, <3>8
    <2>3. CASE ~SaveDisk(n)
      <3>1. /\ tick[n].pc = "touch" /\ tick'[n].name = tick[n].name
            /\ tick'[n].at = tick[n].at /\ ~Touch(n)
        <4>1. CASE Claims(n)
          <5>1. ASSUME NEW d \in Disks, Absent(n, d) PROVE FALSE
            <6>1. tick'[n] = [tick[n] EXCEPT !.disks = @ \ {d}] /\ tick[n].pc = "claim"
              BY <5>1 DEF Absent, T, TypeOK
            <6> QED
              BY <1>2, <2>1, <6>1 DEF Ticks
          <5>2. ASSUME NEW d \in Disks, Identify(n, d) PROVE FALSE
            <6>1. tick'[n] = [tick[n] EXCEPT !.pc = "save", !.disks = @ \ {d}, !.disk = d,
                                             !.name = idFile[d]]
              BY <5>2 DEF Identify, TypeOK
            <6> QED
              BY <1>2, <2>1, <6>1 DEF Ticks
          <5>3. ASSUME NEW d \in Disks, Create(n, d) PROVE FALSE
            <6>1. tick'[n] = [tick[n] EXCEPT !.pc = "naming", !.disks = @ \ {d}, !.disk = d]
              BY <5>3 DEF Create, TypeOK
            <6> QED
              BY <1>2, <2>1, <6>1 DEF Ticks
          <5>4. ASSUME NEW k \in Names, NameDisk(n, k) PROVE FALSE
            <6>1. tick'[n] = [tick[n] EXCEPT !.pc = "save", !.name = k]
              BY <5>4 DEF NameDisk, TypeOK
            <6> QED
              BY <1>2, <2>1, <6>1 DEF Ticks
          <5>5. ASSUME NEW k \in Names, NameFails(n, k) PROVE FALSE
            BY <1>2, <2>1, <5>5, GotoTyped DEF NameFails, Unnamed, Pcs
          <5>6. ASSUME Touch(n) PROVE FALSE
            BY <1>2, <2>1, <5>6, GotoTyped DEF Touch, Pcs
          <5>7. ASSUME TruncateStats(n) PROVE FALSE
            BY <1>2, <2>1, <5>7, GotoTyped DEF TruncateStats, Pcs
          <5>8. ASSUME WriteStats(n) PROVE FALSE
            BY <1>2, <2>1, <5>8, GotoTyped DEF WriteStats, Pcs
          <5>9. ASSUME StatsFail(n) PROVE FALSE
            BY <1>2, <2>1, <5>9, GotoTyped DEF StatsFail, Pcs
          <5> QED
            BY <2>3, <4>1, <5>1, <5>2, <5>3, <5>4, <5>5, <5>6, <5>7, <5>8, <5>9 DEF Claims
        <4>2. CASE Restarts(n) \/ (\E m \in Nodes : Include(n, m))
          BY <1>2, <4>2, RestartTurn, IncludeTurn
        <4>3. CASE ~Claims(n) /\ ~Restarts(n) /\ ~(\E m \in Nodes : Include(n, m))
          <5>1. ASSUME NEW o \in Nodes, o # n,
                       Claims(o) \/ Restarts(o) \/ \E m \in Nodes : Include(o, m)
                PROVE  tick'[n] = tick[n]
            <6>1. CASE Claims(o)
              BY <5>1, <6>1, ClaimTurn
            <6>2. CASE Restarts(o)
              BY <5>1, <6>2, RestartTurn
            <6>3. CASE \E m \in Nodes : Include(o, m)
              BY <5>1, <6>3, IncludeTurn
            <6> QED
              BY <5>1, <6>1, <6>2, <6>3
          <5>2. \/ tick'[n] = tick[n]
                \/ \E d \in Disks, o \in Nodes : Plug(d, o)
            BY <4>3, <5>1, Steps
            DEF Restarts, FetchFails, Crash, SubmitNone, Submit, Schedule, Federate,
                FetchState, Pass, vars
          <5>3. ~Touch(n)
            BY <4>3 DEF Claims
          <5> QED
            BY <1>2, <5>2, <5>3, PlugTurn DEF Kept
        <4> QED
          BY <4>1, <4>2, <4>3
      <3>2. tick[n].name \in Names
        BY <2>1, <3>1 DEF TickOK
      <3>3. row[n][tick[n].name] # Nowhere /\ row[n][tick[n].name].seen = tick[n].at
        BY <3>1 DEF RowInv, T
      <3>4. row'[n][tick[n].name] = row[n][tick[n].name]
        BY <2>3, <3>1, <3>2, RowTurn
      <3> QED
        BY <3>1, <3>3, <3>4
    <2> QED
      BY <2>2, <2>3
  <1> QED
    BY <1>1, <1>2 DEF RowInv, T

----------------------------------------------------------------------------
\* The kinds of steps, by what they do to the record of one node.

LEMMA RecordSteps ==
  ASSUME TypeOK, [Next]_vars, NEW n \in Nodes
  PROVE  \/ tick'[n] = tick[n]
         \/ Claims(n)
         \/ Restarts(n)
         \/ \E m \in Nodes : Include(n, m) /\ UNCHANGED <<row, coord, task>>
                             /\ ((Federate(n) /\ m = n) \/ FetchState(n, m))
         \/ \E d \in Disks, m \in Nodes : Plug(d, m)
  <1>1. ASSUME NEW o \in Nodes, o # n,
               Claims(o) \/ Restarts(o) \/ \E m \in Nodes : Include(o, m)
        PROVE  tick'[n] = tick[n]
    <2>1. CASE Claims(o)
      BY <1>1, <2>1, ClaimTurn
    <2>2. CASE Restarts(o)
      BY <1>1, <2>2, RestartTurn
    <2>3. CASE \E m \in Nodes : Include(o, m)
      BY <1>1, <2>3, IncludeTurn
    <2> QED
      BY <1>1, <2>1, <2>2, <2>3
  <1>2. \A o \in Nodes :
          /\ FetchFails(o) \/ Crash(o) \/ SubmitNone(o) \/ StartTick(o) => Restarts(o)
          /\ \A k \in Names : Submit(o, k) => Restarts(o)
          /\ Federate(o) => Include(o, o) /\ UNCHANGED <<row, coord, task>>
          /\ \A m \in Nodes : FetchState(o, m) => Include(o, m) /\ UNCHANGED <<row, coord, task>>
    BY DEF Restarts, FetchFails, Crash, SubmitNone, Submit, Schedule, Federate, FetchState
  <1>3. Pass \/ UNCHANGED vars => tick'[n] = tick[n]
    BY DEF Pass, vars
  <1> QED
    BY <1>1, <1>2, <1>3, Steps

----------------------------------------------------------------------------
\* The election.

LEMMA SmallerYet ==
  ASSUME NEW N \in SUBSET Nodes, NEW m \in Nodes, NEW o \in N, Smallest(o, N)
  PROVE  Smallest(IF m < o THEN m ELSE o, N \union {m})
  BY NodeAssumption DEF Smallest

\* The best of those heard is the smallest of them, as none has a second.
LEMMA ElectStep ==
  ASSUME TypeOK, RowInv, ElectInv, [Next]_vars
  PROVE  ElectInv'
  <1> USE DEF T
  <1>1. \A n \in Nodes : tick[n] \in Ticks /\ Score(n) = 0 /\ n \notin tick[n].peers
    BY NoSecondsNoScore DEF TypeOK, RowInv
  <1>2. ASSUME NEW n \in Nodes
        PROVE  /\ tick'[n].best.score = 0
               /\ IF Heard(n)' = {} THEN tick'[n].best.node = Nobody
                                    ELSE Smallest(tick'[n].best.node, Heard(n)')
    <2>1. /\ tick[n].best.score = 0
          /\ IF Heard(n) = {} THEN tick[n].best.node = Nobody
                              ELSE Smallest(tick[n].best.node, Heard(n))
      BY DEF ElectInv
    <2>2. CASE tick'[n] = tick[n]
      <3>1. Heard(n)' = Heard(n)
        BY <2>2 DEF Heard
      <3> QED
        BY <2>1, <2>2, <3>1
    <2>3. CASE Claims(n)
      <3>1. /\ tick'[n].best = tick[n].best
            /\ tick[n].pc # "fetch" /\ tick'[n].pc # "fetch"
        BY <2>3, ClaimTurn DEF Kept
      <3>2. Heard(n) = {} /\ Heard(n)' = {}
        BY <3>1 DEF Heard
      <3> QED
        BY <2>1, <3>1, <3>2
    <2>4. CASE Restarts(n)
      <3>1. tick'[n].best = Idle.best /\ tick'[n].pc # "fetch"
        BY <2>4, RestartTurn
      <3>2. Heard(n)' = {}
        BY <3>1 DEF Heard
      <3> QED
        BY <3>1, <3>2 DEF Idle
    <2>5. ASSUME NEW m \in Nodes, Include(n, m), (Federate(n) /\ m = n) \/ FetchState(n, m)
          PROVE  /\ tick'[n].best.score = 0
                 /\ IF Heard(n)' = {} THEN tick'[n].best.node = Nobody
                                      ELSE Smallest(tick'[n].best.node, Heard(n)')
      <3>1. /\ tick'[n].pc = "fetch"
            /\ tick'[n].best = Elected(tick[n].best, m)
            /\ tick'[n].peers = IF m = n THEN Nodes \ {n} ELSE tick[n].peers \ {m}
        BY <2>5, IncludeTurn
      <3>2. Heard(n)' = Heard(n) \union {m}
        <4>1. CASE Federate(n) /\ m = n
          <5>1. Heard(n) = {} /\ Heard(n)' = Nodes \ (Nodes \ {n})
            BY <3>1, <4>1 DEF Heard, Federate
          <5> QED
            BY <4>1, <5>1
        <4>2. CASE FetchState(n, m)
          <5>1. tick[n].pc = "fetch" /\ m \in tick[n].peers /\ m # n
            BY <1>1, <4>2 DEF FetchState
          <5>2. Heard(n) = Nodes \ tick[n].peers /\ Heard(n)' = Nodes \ (tick[n].peers \ {m})
            BY <3>1, <5>1 DEF Heard
          <5> QED
            BY <5>2
        <4> QED
          BY <2>5, <4>1, <4>2
      <3> DEFINE best == tick[n].best
      <3>3. best \in [node : Nodes \union {Nobody}, score : Nat] /\ best.score = 0
        BY <1>1, <2>1 DEF Ticks
      <3> HIDE DEF best
      <3>4. /\ Elected(best, m).score = 0
            /\ Elected(best, m).node =
                 IF best.node = Nobody \/ m < best.node THEN m ELSE best.node
        BY <1>1, <3>3, ElectedTyped
      <3>5. CASE Heard(n) = {}
        <4>1. best.node = Nobody
          BY <2>1, <3>5 DEF best
        <4>2. tick'[n].best.node = m /\ Heard(n)' = {m}
          BY <3>1, <3>2, <3>4, <3>5, <4>1 DEF best
        <4>3. Smallest(m, {m})
          BY NodeAssumption DEF Smallest
        <4> QED
          BY <3>1, <3>4, <4>2, <4>3 DEF best
      <3>6. CASE Heard(n) # {}
        <4>1. Smallest(best.node, Heard(n)) /\ Heard(n) \in SUBSET Nodes
          BY <2>1, <3>6 DEF best, Heard
        <4>2. best.node \in Heard(n) /\ best.node # Nobody
          BY <4>1, NodeAssumption DEF Smallest
        <4>3. tick'[n].best.node = IF m < best.node THEN m ELSE best.node
          BY <3>1, <3>4, <4>2 DEF best
        <4> DEFINE N == Heard(n)
                   o == best.node
        <4>4. N \in SUBSET Nodes /\ o \in N /\ Smallest(o, N)
          BY <4>1, <4>2
        <4> HIDE DEF N, o
        <4>5. Smallest(IF m < o THEN m ELSE o, N \union {m})
          BY <4>4, SmallerYet
        <4>6. Smallest(tick'[n].best.node, Heard(n)')
          BY <3>2, <4>3, <4>5 DEF N, o
        <4>7. Heard(n)' # {}
          BY <3>2
        <4> QED
          BY <3>1, <3>4, <4>6, <4>7 DEF best
      <3> QED
        BY <3>5, <3>6
    <2>6. ASSUME NEW d \in Disks, NEW m \in Nodes, Plug(d, m)
          PROVE  /\ tick'[n].best = tick[n].best /\ Heard(n)' = Heard(n)
      BY <2>6, PlugTurn DEF Kept, Heard
    <2> QED
      BY <2>1, <2>2, <2>3, <2>4, <2>5, <2>6, RecordSteps
  <1>3. ASSUME NEW n \in Nodes, coord'[n] # Nobody
        PROVE  Smallest(coord'[n], Nodes)
    <2>1. CASE coord'[n] = coord[n]
      BY <1>3, <2>1 DEF ElectInv
    <2>2. CASE coord'[n] # coord[n]
      <3>1. Schedule(n)
        <4>1. \A o \in Nodes : Claims(o) => coord' = coord
          BY ClaimTurn
        <4>2. \A o \in Nodes : StartTick(o) \/ FetchFails(o) \/ Crash(o) \/ Federate(o)
                                => coord' = coord
          BY DEF StartTick, FetchFails, Crash, Federate
        <4>3. \A o, m \in Nodes : FetchState(o, m) => coord' = coord
          BY DEF FetchState
        <4>4. \A o \in Nodes : /\ SubmitNone(o) => Schedule(o)
                              /\ \A k \in Names : Submit(o, k) => Schedule(o)
          BY DEF SubmitNone, Submit
        <4>5. \A d \in Disks, o \in Nodes : Plug(d, o) => coord' = coord
          BY DEF Plug
        <4>6. Pass \/ UNCHANGED vars => coord' = coord
          BY DEF Pass, vars
        <4>7. \A o \in Nodes : Schedule(o) => o = n
          BY <2>2 DEF Schedule, TypeOK
        <4> QED
          BY <2>2, <4>1, <4>2, <4>3, <4>4, <4>5, <4>6, <4>7, Steps
      <3>2. tick[n].pc = "fetch" /\ tick[n].peers = {} /\ coord'[n] = tick[n].best.node
        BY <3>1 DEF Schedule, TypeOK
      <3>3. Heard(n) = Nodes
        BY <3>2 DEF Heard
      <3> QED
        BY <3>2, <3>3 DEF ElectInv
    <2> QED
      BY <2>1, <2>2
  <1> QED
    BY <1>2, <1>3 DEF ElectInv

----------------------------------------------------------------------------
\* The view and the tasks.

\* What a view is told of a disk, it is told by the node that has the row.
LEMMA ViewStep ==
  ASSUME TypeOK, RowInv, ViewInv, [Next]_vars
  PROVE  ViewInv'
  <1> USE DEF T
  <1> SUFFICES ASSUME NEW n \in Nodes, NEW k \in Names, tick'[n].view[k] \in Nodes
               PROVE  row'[tick'[n].view[k]][k] # Nowhere
    BY DEF ViewInv
  <1>1. CASE tick'[n].view = tick[n].view
    BY <1>1, RowsStay DEF ViewInv
  <1>2. CASE Restarts(n)
    <2>1. tick'[n].view[k] = Nowhere
      BY <1>2, RestartTurn DEF Idle
    <2> QED
      BY <2>1, NowhereAssumption
  <1>3. ASSUME NEW m \in Nodes, Include(n, m), UNCHANGED row
        PROVE  row'[tick'[n].view[k]][k] # Nowhere
    <2>1. tick'[n].view[k] = IF tick[n].view[k] = Nowhere THEN Reported(m, k)
                                                         ELSE tick[n].view[k]
      <3>1. tick'[n].view = Merged(tick[n].view, m)
        BY <1>3, IncludeTurn
      <3> QED
        BY <3>1 DEF Merged
    <2>2. CASE tick[n].view[k] # Nowhere
      BY <1>3, <2>1, <2>2 DEF ViewInv
    <2>3. CASE tick[n].view[k] = Nowhere
      <3>1. tick'[n].view[k] = Reported(m, k)
        BY <2>1, <2>3
      <3>2. row[m][k] # Nowhere /\ tick'[n].view[k] = row[m][k].node
        BY <3>1, NowhereAssumption DEF Reported
      <3>3. tick'[n].view[k] = m
        BY <3>2, NodeAssumption DEF RowInv
      <3> QED
        BY <1>3, <3>2, <3>3
    <2> QED
      BY <2>2, <2>3
  <1>4. Claims(n) => tick'[n].view = tick[n].view
    BY ClaimTurn DEF Kept
  <1>5. (\E d \in Disks, m \in Nodes : Plug(d, m)) => tick'[n].view = tick[n].view
    BY PlugTurn DEF Kept
  <1> QED
    BY <1>1, <1>2, <1>3, <1>4, <1>5, RecordSteps

\* A task comes from a view.
LEMMA TaskStep ==
  ASSUME TypeOK, RowInv, ViewInv, TaskReachesDisk, [Next]_vars
  PROVE  TaskReachesDisk'
  <1> SUFFICES ASSUME NEW m \in Nodes, task'[m] # NoTask, task'[m].seen # Nobody
               PROVE  row'[m][task'[m].name] # Nowhere
    BY DEF TaskReachesDisk
  <1>1. CASE task'[m] = task[m]
    <2>1. task[m].name \in Names /\ row[m][task[m].name] # Nowhere
      BY <1>1 DEF TypeOK, TaskReachesDisk
    <2> QED
      BY <1>1, <2>1, RowsStay
  <1>2. CASE task'[m] # task[m]
    <2>1. PICK n \in Nodes, k \in Names : Submit(n, k)
      <3>1. \A o \in Nodes : Claims(o) => task' = task
        BY ClaimTurn
      <3>2. \A o \in Nodes : StartTick(o) \/ FetchFails(o) \/ Crash(o) \/ Federate(o)
                              \/ SubmitNone(o) => task' = task
        BY DEF StartTick, FetchFails, Crash, Federate, SubmitNone
      <3>3. \A o, p \in Nodes : FetchState(o, p) => task' = task
        BY DEF FetchState
      <3>4. \A d \in Disks, o \in Nodes : Plug(d, o) => task' = task
        BY DEF Plug
      <3>5. Pass \/ UNCHANGED vars => task' = task
        BY DEF Pass, vars
      <3> QED
        BY <1>2, <3>1, <3>2, <3>3, <3>4, <3>5, Steps
    <2>2. tick[n].view[k] # Nowhere /\ tick[n].view[k] \in Nodes \union {Nobody, Nowhere}
      BY <2>1 DEF Submit, T, TypeOK, Ticks
    <2>3. Routed(n, k) \in Nodes
      BY <2>2 DEF Routed, T
    <2>4. /\ m = Routed(n, k)
          /\ task'[m] = [name |-> k, seen |-> tick[n].view[k]]
      BY <1>2, <2>1, <2>3 DEF Submit, T, TypeOK
    <2>5. tick[n].view[k] # Nobody /\ m = tick[n].view[k]
      BY <2>4 DEF Routed, T
    <2>6. row[m][k] # Nowhere
      BY <2>5 DEF ViewInv, T
    <2> QED
      BY <2>4, <2>6, RowsStay
  <1> QED
    BY <1>1, <1>2

----------------------------------------------------------------------------
\* The names.

\* Only a disk that has none is given a name, unless its file could not be
\* read; so a name that is in hand, or has rows, is still on its disk.
LEMMA NameStep ==
  ASSUME TypeOK, RowInv, NameInv, NameSticks, [Next]_vars
  PROVE  NameInv' /\ NameSticks'
  <1> USE DEF T
  <1>1. TickOK /\ \A n \in Nodes : tick[n] \in Ticks
    BY DEF TypeOK, TickOK
  <1> DEFINE OnDisk(k) == \E d \in Disks : idFile[d] = k
             Calm == used["unread"] = 0
             Holds(n) == tick[n].pc \in {"save", "touch"}
  <1>2. ASSUME Calm' PROVE Calm
    <2>1. \A e \in Events : Spend(e) => Calm
      BY <1>2, SpendTyped DEF Events, TypeOK
    <2>2. used' = used => Calm
      BY <1>2
    <2>3. \A n \in Nodes, k \in Names : NameDisk(n, k) => Calm
      BY <1>2 DEF NameDisk, TypeOK, Events
    <2>4. ASSUME NEW n \in Nodes, Claims(n) PROVE Calm
      <3>1. ASSUME NEW d \in Disks, Absent(n, d) \/ Identify(n, d) \/ Create(n, d) PROVE Calm
        BY <2>1, <2>2, <3>1 DEF Absent, Identify, Create, Events
      <3>2. ASSUME NEW k \in Names, NameFails(n, k) PROVE Calm
        BY <2>1, <2>2, <3>2 DEF NameFails, Events
      <3>3. CASE SaveDisk(n) \/ Touch(n) \/ TruncateStats(n) \/ WriteStats(n)
        BY <2>2, <3>3 DEF SaveDisk, Touch, TruncateStats, WriteStats
      <3>4. CASE StatsFail(n)
        BY <2>1, <2>2, <3>4 DEF StatsFail, Events
      <3> QED
        BY <2>3, <2>4, <3>1, <3>2, <3>3, <3>4 DEF Claims
    <2>5. \A n \in Nodes : /\ StartTick(n) => Calm
                           /\ FetchFails(n) => Calm
                           /\ Crash(n) => Calm
                           /\ SubmitNone(n) => Calm
                           /\ Federate(n) => Calm
                           /\ \A k \in Names : Submit(n, k) => Calm
                           /\ \A m \in Nodes : FetchState(n, m) => Calm
                           /\ \A d \in Disks : Plug(d, n) => Calm
      BY <2>1, <2>2
      DEF StartTick, FetchFails, Crash, SubmitNone, Submit, Schedule, Federate,
          FetchState, Plug, Events
    <2>6. Pass \/ UNCHANGED vars => Calm
      BY <2>2 DEF Pass, vars
    <2> QED
      BY <2>4, <2>5, <2>6, Steps
  <1>3. \/ idFile' = idFile
        \/ \E n \in Nodes, d \in Disks : Create(n, d)
        \/ \E n \in Nodes, k \in Names : NameDisk(n, k)
    <2>1. ASSUME NEW n \in Nodes, Claims(n)
          PROVE  \/ idFile' = idFile
                 \/ \E d \in Disks : Create(n, d)
                 \/ \E k \in Names : NameDisk(n, k)
      BY <2>1 DEF Claims, Absent, Identify, NameFails, SaveDisk, Touch, TruncateStats,
                  WriteStats, StatsFail
    <2>2. \A n \in Nodes : /\ StartTick(n) => idFile' = idFile
                           /\ FetchFails(n) => idFile' = idFile
                           /\ Crash(n) => idFile' = idFile
                           /\ SubmitNone(n) => idFile' = idFile
                           /\ Federate(n) => idFile' = idFile
                           /\ \A k \in Names : Submit(n, k) => idFile' = idFile
                           /\ \A m \in Nodes : FetchState(n, m) => idFile' = idFile
                           /\ \A d \in Disks : Plug(d, n) => idFile' = idFile
      BY DEF StartTick, FetchFails, Crash, SubmitNone, Submit, Schedule, Federate,
             FetchState, Plug
    <2>3. Pass \/ UNCHANGED vars => idFile' = idFile
      BY DEF Pass, vars
    <2> QED
      BY <2>1, <2>2, <2>3, Steps
  \* A name stays on its disk.
  <1>4. ASSUME Calm', NEW k \in Names, OnDisk(k) PROVE OnDisk(k)'
    <2>1. PICK d \in Disks : idFile[d] = k
      BY <1>4
    <2>2. ASSUME NEW n \in Nodes, NEW e \in Disks, Create(n, e) PROVE idFile'[d] = k
      <3>1. idFile[e] \notin Names
        BY <1>2, <1>4, <2>2, SpendTyped DEF Create, Events
      <3> QED
        BY <2>1, <2>2, <3>1 DEF Create, TypeOK
    <2>3. ASSUME NEW n \in Nodes, NEW j \in Names, NameDisk(n, j) PROVE idFile'[d] = k
      <3>1. idFile[tick[n].disk] = TornName
        BY <2>3 DEF NameDisk, NameInv
      <3> QED
        BY <2>1, <2>3, <3>1, NameAssumption DEF NameDisk, TypeOK
    <2> QED
      BY <1>3, <2>1, <2>2, <2>3
  \* A name comes into hand from a disk.
  <1>5. ASSUME NEW n \in Nodes, Calm', Holds(n)' PROVE OnDisk(tick[n].name)'
    <2>1. ASSUME Holds(n), tick'[n].name = tick[n].name PROVE OnDisk(tick[n].name)'
      <3>1. tick[n].name \in Names /\ OnDisk(tick[n].name)
        BY <1>1, <1>2, <1>5, <2>1 DEF NameInv, TickOK
      <3> QED
        BY <1>4, <1>5, <2>1, <3>1
    <2>2. CASE Claims(n)
      <3>1. ASSUME NEW d \in Disks, Absent(n, d) PROVE FALSE
        <4>1. tick'[n] = [tick[n] EXCEPT !.disks = @ \ {d}] /\ tick[n].pc = "claim"
          BY <3>1 DEF Absent, TypeOK
        <4> QED
          BY <1>1, <1>5, <4>1 DEF Ticks
      <3>2. ASSUME NEW d \in Disks, Identify(n, d) PROVE OnDisk(tick[n].name)'
        <4>1. tick'[n] = [tick[n] EXCEPT !.pc = "save", !.disks = @ \ {d}, !.disk = d,
                                         !.name = idFile[d]]
          BY <3>2 DEF Identify, TypeOK
        <4>2. tick'[n].name = idFile[d]
          BY <1>1, <4>1 DEF Ticks
        <4>3. idFile' = idFile
          BY <3>2 DEF Identify
        <4> QED
          BY <4>2, <4>3
      <3>3. ASSUME NEW d \in Disks, Create(n, d) PROVE FALSE
        <4>1. tick'[n] = [tick[n] EXCEPT !.pc = "naming", !.disks = @ \ {d}, !.disk = d]
          BY <3>3 DEF Create, TypeOK
        <4> QED
          BY <1>1, <1>5, <4>1 DEF Ticks
      <3>4. ASSUME NEW k \in Names, NameDisk(n, k) PROVE OnDisk(tick[n].name)'
        <4>1. tick'[n] = [tick[n] EXCEPT !.pc = "save", !.name = k]
          BY <3>4 DEF NameDisk, TypeOK
        <4>2. tick'[n].name = k
          BY <1>1, <4>1 DEF Ticks
        <4>3. tick[n].disk \in Disks /\ idFile'[tick[n].disk] = k
          BY <3>4 DEF NameDisk, Here, TypeOK
        <4> QED
          BY <4>2, <4>3
      <3>5. ASSUME NEW k \in Names, NameFails(n, k) PROVE FALSE
        BY <1>1, <1>5, <3>5, GotoTyped DEF NameFails, Unnamed, Pcs
      <3>6. ASSUME SaveDisk(n) PROVE OnDisk(tick[n].name)'
        <4>1. tick'[n].name = tick[n].name /\ Holds(n)
          BY <1>1, <3>6, GotoTyped DEF SaveDisk, TickOK, Pcs
        <4> QED
          BY <2>1, <4>1
      <3>7. ASSUME Touch(n) PROVE FALSE
        BY <1>1, <1>5, <3>7, GotoTyped DEF Touch, TickOK, Pcs
      <3>8. ASSUME TruncateStats(n) PROVE FALSE
        BY <1>1, <1>5, <3>8, GotoTyped DEF TruncateStats, Pcs
      <3>9. ASSUME WriteStats(n) PROVE FALSE
        BY <1>1, <1>5, <3>9, GotoTyped DEF WriteStats, Pcs
      <3>10. ASSUME StatsFail(n) PROVE FALSE
        BY <1>1, <1>5, <3>10, GotoTyped DEF StatsFail, Pcs
      <3> QED
        BY <2>2, <3>1, <3>2, <3>3, <3>4, <3>5, <3>6, <3>7, <3>8, <3>9, <3>10 DEF Claims
    <2>3. CASE Restarts(n) \/ \E m \in Nodes : Include(n, m)
      BY <1>5, <2>3, RestartTurn, IncludeTurn
    <2>4. CASE tick'[n] = tick[n] \/ \E d \in Disks, m \in Nodes : Plug(d, m)
      <3>1. tick'[n].pc = tick[n].pc /\ tick'[n].name = tick[n].name
        BY <2>4, PlugTurn
      <3> QED
        BY <1>5, <2>1, <3>1
    <2> QED
      BY <2>2, <2>3, <2>4, RecordSteps
  \* A disk that is being named is nobody else's to name.
  <1>6. ASSUME NEW n \in Nodes, tick'[n].pc = "naming", Here(n)'
        PROVE  idFile'[tick'[n].disk] = TornName
    <2>1. ASSUME tick[n].pc = "naming", tick'[n].disk = tick[n].disk, Here(n),
                 \A k \in Names : ~NameDisk(n, k)
          PROVE  idFile'[tick'[n].disk] = TornName
      <3>1. idFile[tick[n].disk] = TornName /\ tick[n].disk \in Disks
            /\ plugged[tick[n].disk] = n
        BY <2>1 DEF NameInv, Here
      <3>2. ASSUME NEW m \in Nodes, NEW e \in Disks, Create(m, e)
            PROVE  idFile'[tick[n].disk] = TornName
        BY <3>1, <3>2 DEF Create, TypeOK
      <3>3. ASSUME NEW m \in Nodes, NEW j \in Names, NameDisk(m, j)
            PROVE  idFile'[tick[n].disk] = TornName
        BY <2>1, <3>1, <3>3 DEF NameDisk, Here, TypeOK
      <3> QED
        BY <1>3, <2>1, <3>1, <3>2, <3>3
    <2>2. CASE Claims(n)
      <3>1. ASSUME NEW d \in Disks, Absent(n, d) PROVE FALSE
        <4>1. tick'[n] = [tick[n] EXCEPT !.disks = @ \ {d}] /\ tick[n].pc = "claim"
          BY <3>1 DEF Absent, TypeOK
        <4> QED
          BY <1>1, <1>6, <4>1 DEF Ticks
      <3>2. ASSUME NEW d \in Disks, Identify(n, d) PROVE FALSE
        <4>1. tick'[n] = [tick[n] EXCEPT !.pc = "save", !.disks = @ \ {d}, !.disk = d,
                                         !.name = idFile[d]]
          BY <3>2 DEF Identify, TypeOK
        <4> QED
          BY <1>1, <1>6, <4>1 DEF Ticks
      <3>3. ASSUME NEW d \in Disks, Create(n, d) PROVE idFile'[tick'[n].disk] = TornName
        <4>1. tick'[n] = [tick[n] EXCEPT !.pc = "naming", !.disks = @ \ {d}, !.disk = d]
          BY <3>3 DEF Create, TypeOK
        <4>2. tick'[n].disk = d
          BY <1>1, <4>1 DEF Ticks
        <4> QED
          BY <3>3, <4>2 DEF Create, TypeOK
      <3>4. ASSUME NEW k \in Names, NameDisk(n, k) PROVE FALSE
        <4>1. tick'[n] = [tick[n] EXCEPT !.pc = "save", !.name = k]
          BY <3>4 DEF NameDisk, TypeOK
        <4> QED
          BY <1>1, <1>6, <4>1 DEF Ticks
      <3>5. ASSUME NEW k \in Names, NameFails(n, k) PROVE FALSE
        BY <1>1, <1>6, <3>5, GotoTyped DEF NameFails, Unnamed, Pcs
      <3>6. ASSUME SaveDisk(n) PROVE FALSE
        BY <1>1, <1>6, <3>6, GotoTyped DEF SaveDisk, TickOK, Pcs
      <3>7. ASSUME Touch(n) PROVE FALSE
        BY <1>1, <1>6, <3>7, GotoTyped DEF Touch, TickOK, Pcs
      <3>8. ASSUME TruncateStats(n) PROVE FALSE
        BY <1>1, <1>6, <3>8, GotoTyped DEF TruncateStats, Pcs
      <3>9. ASSUME WriteStats(n) PROVE FALSE
        BY <1>1, <1>6, <3>9, GotoTyped DEF WriteStats, Pcs
      <3>10. ASSUME StatsFail(n) PROVE FALSE
        BY <1>1, <1>6, <3>10, GotoTyped DEF StatsFail, Pcs
      <3> QED
        BY <2>2, <3>1, <3>2, <3>3, <3>4, <3>5, <3>6, <3>7, <3>8, <3>9, <3>10 DEF Claims
    <2>3. CASE Restarts(n) \/ \E m \in Nodes : Include(n, m)
      BY <1>6, <2>3, RestartTurn, IncludeTurn
    <2>4. ASSUME NEW d \in Disks, NEW m \in Nodes, Plug(d, m)
          PROVE  idFile'[tick'[n].disk] = TornName
      <3>1. tick[n].pc = "naming"
        BY <1>6, <2>4, PlugTurn
      <3>2. tick'[n].disk = IF HasOpen(n, d) THEN Nobody ELSE tick[n].disk
        BY <2>4, PlugTurn
      <3>3. tick'[n].disk # Nobody /\ plugged'[tick'[n].disk] = n
        BY <1>6, DiskAssumption DEF Here
      <3>4. tick[n].disk # d /\ tick'[n].disk = tick[n].disk
        BY <3>1, <3>2, <3>3 DEF HasOpen
      <3>5. Here(n)
        BY <1>6, <2>4, <3>3, <3>4 DEF Here, Plug, TypeOK
      <3>6. idFile' = idFile
        BY <2>4 DEF Plug
      <3> QED
        BY <3>1, <3>4, <3>5, <3>6 DEF NameInv
    <2>5. CASE tick'[n] = tick[n] /\ ~(\E d \in Disks, m \in Nodes : Plug(d, m))
      <3>1. plugged' = plugged
        <4>1. \A o \in Nodes : Claims(o) => plugged' = plugged
          BY ClaimTurn
        <4>2. \A o \in Nodes : /\ StartTick(o) => plugged' = plugged
                               /\ FetchFails(o) => plugged' = plugged
                               /\ Crash(o) => plugged' = plugged
                               /\ SubmitNone(o) => plugged' = plugged
                               /\ Federate(o) => plugged' = plugged
                               /\ \A k \in Names : Submit(o, k) => plugged' = plugged
                               /\ \A m \in Nodes : FetchState(o, m) => plugged' = plugged
          BY DEF StartTick, FetchFails, Crash, SubmitNone, Submit, Schedule, Federate,
                 FetchState
        <4>3. Pass \/ UNCHANGED vars => plugged' = plugged
          BY DEF Pass, vars
        <4> QED
          BY <2>5, <4>1, <4>2, <4>3, Steps
      <3>2. tick[n].pc = "naming" /\ Here(n)
        BY <1>6, <2>5, <3>1 DEF Here
      <3>3. \A k \in Names : ~NameDisk(n, k)
        <4> SUFFICES ASSUME NEW k \in Names, NameDisk(n, k) PROVE FALSE
          OBVIOUS
        <4>1. tick'[n] = [tick[n] EXCEPT !.pc = "save", !.name = k]
          BY DEF NameDisk, TypeOK
        <4> QED
          BY <1>1, <1>6, <4>1 DEF Ticks
      <3> QED
        BY <2>1, <2>5, <3>2, <3>3
    <2> QED
      BY <2>2, <2>3, <2>4, <2>5, RecordSteps
  <1>7. ASSUME Calm', NEW n \in Nodes, NEW k \in Names, row'[n][k] # Nowhere
        PROVE  OnDisk(k)'
    <2>1. CASE row[n][k] # Nowhere
      BY <1>2, <1>4, <1>7, <2>1 DEF NameSticks
    <2>2. CASE row[n][k] = Nowhere
      <3>1. k = tick[n].name /\ (SaveDisk(n) \/ Touch(n))
        BY <1>7, <2>2, RowTurn
      <3>2. Holds(n)
        BY <3>1 DEF SaveDisk, Touch
      <3>3. OnDisk(k)
        BY <1>2, <1>7, <3>1, <3>2 DEF NameInv
      <3> QED
        BY <1>4, <1>7, <3>3
    <2> QED
      BY <2>1, <2>2
  <1> QED
    BY <1>5, <1>6, <1>7 DEF NameInv, NameSticks

----------------------------------------------------------------------------
\* The theorems.

LEMMA InitInv ==
  Init => TypeOK /\ RowInv /\ ElectInv /\ ViewInv /\ NameInv /\ NameSticks /\ TaskReachesDisk
  <1> SUFFICES ASSUME Init
               PROVE  RowInv /\ ElectInv /\ ViewInv /\ NameInv /\ NameSticks /\ TaskReachesDisk
    BY InitTyped
  <1> USE DEF T
  <1>1. \A n \in Nodes : /\ tick[n] = Idle /\ coord[n] = Nobody /\ task[n] = NoTask
                         /\ \A k \in Names : row[n][k] = Nowhere
    BY DEF Init
  <1>2. /\ Idle.pc = "idle" /\ Idle.best.node = Nobody /\ Idle.best.score = 0
        /\ \A k \in Names : Idle.view[k] = Nowhere
    BY DEF Idle
  <1>3. RowInv
    BY <1>1, <1>2 DEF RowInv
  <1>4. ElectInv
    BY <1>1, <1>2 DEF ElectInv, Heard
  <1>5. ViewInv
    BY <1>1, <1>2, NowhereAssumption DEF ViewInv
  <1>6. NameInv /\ NameSticks /\ TaskReachesDisk
    BY <1>1, <1>2 DEF NameInv, NameSticks, TaskReachesDisk
  <1> QED
    BY <1>3, <1>4, <1>5, <1>6

\* Type correctness, with what a node's own rows hold: nothing of another
\* node, and never a second of presence (main.go claimDisk, SaveDisk).
THEOREM TypeCorrect == Spec => [](TypeOK /\ RowInv)
  <1>1. Init => TypeOK /\ RowInv /\ ElectInv
    BY InitInv
  <1>2. TypeOK /\ RowInv /\ ElectInv /\ [Next]_vars => (TypeOK /\ RowInv /\ ElectInv)'
    BY TypeStep, RowStep, ElectStep
  <1> QED
    BY <1>1, <1>2, PTL DEF Spec

\* The coordinator a node elects (cluster.go ElectCoordinator) is always the
\* node of the smallest id, whatever the disks and however long they have been
\* there; so two nodes that have heard each other never both think they are it.
THEOREM SmallestCoordinates == Spec => []OneCoordinator
  <1>1. Init => TypeOK /\ RowInv /\ ElectInv
    BY InitInv
  <1>2. TypeOK /\ RowInv /\ ElectInv /\ [Next]_vars => (TypeOK /\ RowInv /\ ElectInv)'
    BY TypeStep, RowStep, ElectStep
  <1>3. ElectInv => OneCoordinator
    <2> SUFFICES ASSUME ElectInv, NEW n \in Nodes, NEW m \in Nodes, coord[n] = n, coord[m] = m
                 PROVE  n = m
      BY DEF OneCoordinator
    <2>1. Smallest(n, Nodes) /\ Smallest(m, Nodes)
      BY NodeAssumption DEF ElectInv
    <2> QED
      BY <2>1, NodeAssumption DEF Smallest
  <1> QED
    BY <1>1, <1>2, <1>3, PTL DEF Spec

\* A task (GlobalRepo.SubmitTask) is queued where the disk has been plugged in,
\* unless the view has the disk for nobody's.
THEOREM TasksReachDisks == Spec => []TaskReachesDisk
  <1> DEFINE Inv == TypeOK /\ RowInv /\ ElectInv /\ ViewInv /\ TaskReachesDisk
  <1>1. Init => Inv
    BY InitInv
  <1>2. Inv /\ [Next]_vars => Inv'
    BY TypeStep, RowStep, ElectStep, ViewStep, TaskStep
  <1> QED
    BY <1>1, <1>2, PTL DEF Spec

\* A disk keeps the name it has rows under, whatever ends, fails or is pulled
\* out in the middle, unless its id file could not be read once (diskid.go
\* ReadOrCreateDiskID).
THEOREM NamesStick == Spec => []NameSticks
  <1> DEFINE Inv == TypeOK /\ RowInv /\ ElectInv /\ NameInv /\ NameSticks
  <1>1. Init => Inv
    BY InitInv
  <1>2. Inv /\ [Next]_vars => Inv'
    BY TypeStep, RowStep, ElectStep, NameStep
  <1> QED
    BY <1>1, <1>2, PTL DEF Spec

=============================================================================
