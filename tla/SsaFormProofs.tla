--------------------------- MODULE SsaFormProofs ----------------------------
(* Proofs about Mem2Reg, for all functions, first part.  Of Dominators, which
   is a part of it: the search yields a usable order, no pass loses a
   dominator, and what is left when a pass changes nothing is the dominator
   tree.  Of the promotion: what it leaves is in SSA form. *)
EXTENDS Mem2Reg, BasicLemmas, FiniteSetTheorems

-----------------------------------------------------------------------------
(* The graph. *)
IsFlow(g) == g \in [Block -> Seq(Block)]

LEMMA SuccessorBlocks ==
  ASSUME NEW g, IsFlow(g), NEW b \in Block
  PROVE  /\ g[b] \in Seq(Block)
         /\ ToSet(g[b]) \subseteq Block
<1>1. g[b] \in Seq(Block) BY DEF IsFlow
<1> QED BY <1>1, ElementType DEF ToSet

LEMMA BlockFacts == Entry \in Block /\ None \notin Block /\ Block = 0 .. N - 1
BY SizeAssumption DEF Block, NodesOf, Entry, None

(* A list holds a node if the node occurs in it at least once. *)
LEMMA OccurrencesCount ==
  ASSUME NEW l \in Seq(Block), NEW s
  PROVE  /\ Occurrences(l, s) \in Nat
         /\ Occurrences(l, s) > 0 <=> s \in ToSet(l)
<1> DEFINE J == {j \in DOMAIN l : l[j] = s}
<1>1. IsFiniteSet(1 .. Len(l)) BY FS_Interval
<1>2. IsFiniteSet(J) BY <1>1, FS_Subset
<1>3. Cardinality(J) \in Nat BY <1>2, FS_CardinalityType
<1>4. Cardinality(J) = 0 <=> J = {} BY <1>2, FS_EmptySet
<1>5. J = {} <=> s \notin ToSet(l) BY DEF ToSet
<1>6. Occurrences(l, s) = Cardinality(J) BY DEF Occurrences
<1> QED BY <1>3, <1>4, <1>5, <1>6

(* Graph::new: the predecessors of s are the nodes with s among their
   successors. *)
LEMMA PredecessorsOf ==
  ASSUME NEW g, IsFlow(g), NEW s \in Block
  PROVE  /\ PredecessorList(g, N, s) \in Seq(Block)
         /\ \A b \in Block : b \in ToSet(PredecessorList(g, N, s)) <=> s \in ToSet(g[b])
<1> DEFINE T == Seq(Block)
           D == 0 .. N
           from(k) == [j \in 1 .. Occurrences(g[k], s) |-> k]
           At(f, k) == IF k = 0 THEN <<>> ELSE f[k - 1] \o from(k - 1)
           F == [f \in [D -> T] |-> [k \in D |-> At(f, k)]]
           rank == [k \in D |-> k]
           P == CHOOSE f : f = [k \in D |-> At(f, k)]
<1>0. <<>> \in T OBVIOUS
<1>1. \A k \in Block : /\ Occurrences(g[k], s) \in Nat
                       /\ from(k) \in T /\ Len(from(k)) = Occurrences(g[k], s)
                       /\ \A j \in 1 .. Len(from(k)) : from(k)[j] = k
 <2> SUFFICES ASSUME NEW k \in Block
              PROVE  /\ Occurrences(g[k], s) \in Nat
                     /\ from(k) \in T /\ Len(from(k)) = Occurrences(g[k], s)
                     /\ \A j \in 1 .. Len(from(k)) : from(k)[j] = k OBVIOUS
 <2>1. Occurrences(g[k], s) \in Nat BY SuccessorBlocks, OccurrencesCount
 <2> QED BY <2>1
<1>2. \A k \in D : k # 0 => k - 1 \in Block /\ k - 1 \in D BY BlockFacts, SizeAssumption
<1>3. \A f \in [D -> T] : \A k \in D : At(f, k) \in T
 <2> SUFFICES ASSUME NEW f \in [D -> T], NEW k \in D PROVE At(f, k) \in T OBVIOUS
 <2>0. CASE k = 0 BY <1>0, <2>0
 <2> SUFFICES ASSUME k # 0 PROVE f[k - 1] \o from(k - 1) \in T BY <2>0
 <2>1. f[k - 1] \in T /\ from(k - 1) \in T BY <1>1, <1>2
 <2> HIDE DEF from
 <2> QED BY <2>1
<1>4. \E f \in [D -> T] : f = F[f]
 <2>1. T # {} /\ rank \in [D -> Nat]
  <3>1. rank \in [D -> Nat] BY SizeAssumption
  <3> HIDE DEF T, rank
  <3> QED BY <1>0, <3>1
 <2>2. F \in [[D -> T] -> [D -> T]]
  <3> HIDE DEF At
  <3> QED BY <1>3
 <2>3. ASSUME NEW f \in [D -> T], NEW h \in [D -> T], NEW k \in D,
              \A y \in D : rank[y] < rank[k] => f[y] = h[y]
       PROVE  At(f, k) = At(h, k)
  <3>1. k # 0 => f[k - 1] = h[k - 1] BY <1>2, <2>3, SizeAssumption
  <3> QED BY <3>1
 <2>4. ASSUME NEW f \in [D -> T], NEW k \in D PROVE F[f][k] = At(f, k)
  <3> HIDE DEF At, T, D
  <3> QED OBVIOUS
 <2>5. IsRanked(D, T, rank, F)
  <3> HIDE DEF F, T, D, rank, At
  <3> QED BY <2>1, <2>2, <2>3, <2>4 DEF IsRanked
 <2> QED
  <3> HIDE DEF F, T, D, rank
  <3> QED BY <2>5, RankedRecursion
<1>5. \E f : f = [k \in D |-> At(f, k)]
 <2>1. PICK f \in [D -> T] : f = F[f] BY Zenon, <1>4
 <2> HIDE DEF At
 <2> QED BY <2>1
<1>6. P = [k \in D |-> At(P, k)] BY Zenon, <1>5
<1>7. PredecessorList(g, N, s) = P[N] BY DEF PredecessorList
<1> DEFINE Right(k) == /\ P[k] \in T
                       /\ \A b \in Block : b \in ToSet(P[k]) <=> b < k /\ s \in ToSet(g[b])
           R == {k \in Nat : k \in D => Right(k)}
<1> HIDE DEF P
<1>8. P[0] = <<>> /\ \A k \in D : k # 0 => P[k] = P[k - 1] \o from(k - 1)
 <2>1. \A k \in D : P[k] = At(P, k)
  <3> HIDE DEF At, D
  <3> QED BY <1>6
 <2>2. 0 \in D BY SizeAssumption
 <2> QED BY <2>1, <2>2
<1>9. 0 \in R
 <2>1. ToSet(<<>>) = {} BY DEF ToSet
 <2>2. P[0] \in T BY <1>0, <1>8
 <2>3. \A b \in Block : ~(b < 0) BY BlockFacts
 <2>4. Right(0) BY <1>8, <2>1, <2>2, <2>3
 <2> QED BY <2>4
<1>10. ASSUME NEW n \in Nat, n \in R PROVE n + 1 \in R
 <2> SUFFICES ASSUME n + 1 \in D PROVE Right(n + 1) OBVIOUS
 <2>1. n \in D /\ n \in Block /\ n + 1 # 0 /\ (n + 1) - 1 = n BY <1>2, SizeAssumption, BlockFacts
 <2>2. Right(n) BY <1>10, <2>1
 <2>3. P[n + 1] = P[n] \o from(n) BY <1>8, <2>1
 <2>4. ToSet(P[n] \o from(n)) = ToSet(P[n]) \cup ToSet(from(n))
  <3>1. P[n] \in T /\ from(n) \in T BY <1>1, <2>1, <2>2
  <3> HIDE DEF from, T
  <3> QED BY <3>1, ConcatElements DEF T
 <2>5. ToSet(from(n)) = IF s \in ToSet(g[n]) THEN {n} ELSE {}
  <3>1. Occurrences(g[n], s) \in Nat /\ (Occurrences(g[n], s) > 0 <=> s \in ToSet(g[n]))
    BY <2>1, SuccessorBlocks, OccurrencesCount
  <3> QED BY <3>1 DEF ToSet
 <2>6. P[n + 1] \in T
  <3>1. P[n] \in T /\ from(n) \in T BY <1>1, <2>1, <2>2
  <3> HIDE DEF from
  <3> QED BY <2>3, <3>1
 <2>7. ASSUME NEW b \in Block PROVE b \in ToSet(P[n + 1]) <=> b < n + 1 /\ s \in ToSet(g[b])
  <3>1. b \in ToSet(P[n + 1]) <=> b \in ToSet(P[n]) \/ (b = n /\ s \in ToSet(g[n])) BY <2>3, <2>4, <2>5
  <3>2. b \in ToSet(P[n]) <=> b < n /\ s \in ToSet(g[b]) BY <2>2
  <3>3. b \in Int /\ (b < n + 1 <=> b < n \/ b = n) BY BlockFacts
  <3> QED BY <3>1, <3>2, <3>3
 <2> QED BY <2>6, <2>7
<1>11. N \in R
 <2> HIDE DEF R
 <2> QED BY <1>9, <1>10, SetInduction, SizeAssumption
<1>12. Right(N) BY <1>11, SizeAssumption
<1>13. \A b \in Block : b < N BY BlockFacts, SizeAssumption
<1> QED BY <1>7, <1>12, <1>13

-----------------------------------------------------------------------------
(* ReachableAvoiding is the least set that holds the entry and is closed under
   the edges, d left out. *)
ClosedBut(g, d, X) == \A b \in X : ToSet(g[b]) \ {d} \subseteq X

LEMMA AvoidingIs ==
  ASSUME NEW g, IsFlow(g), NEW d
  PROVE  /\ ReachableAvoiding(g, d) \subseteq Block \ {d}
         /\ d # Entry => Entry \in ReachableAvoiding(g, d)
         /\ ClosedBut(g, d, ReachableAvoiding(g, d))
         /\ \A X \in SUBSET Block :
              {Entry} \ {d} \subseteq X /\ ClosedBut(g, d, X) => ReachableAvoiding(g, d) \subseteq X
<1> DEFINE T == SUBSET (Block \ {d})
           next(X) == (UNION {ToSet(g[b]) : b \in X}) \ {d}
           F == [p \in Nat \X T |-> p[2] \cup next(p[2])]
           W == CHOOSE w : w = [k \in Nat |-> IF k = 0 THEN {Entry} \ {d}
                                                ELSE w[k - 1] \cup next(w[k - 1])]
<1>16. ASSUME NEW X, NEW e PROVE e \in next(X) <=> e # d /\ \E b \in X : e \in ToSet(g[b]) OBVIOUS
<1>1. {Entry} \ {d} \in T BY BlockFacts
<1>2. \A X \in T : next(X) \in T
 <2> SUFFICES ASSUME NEW X \in T, NEW e \in next(X) PROVE e \in Block \ {d} OBVIOUS
 <2>1. PICK b \in X : e \in ToSet(g[b]) /\ e # d BY <1>16
 <2> QED BY <2>1, SuccessorBlocks
<1>3. PICK w : IsIteration(T, {Entry} \ {d}, F, w)
 <2>1. F \in [Nat \X T -> T]
  <3> HIDE DEF next
  <3> QED BY <1>2
 <2> HIDE DEF T, F
 <2> QED BY <1>1, <2>1, Iteration
<1> HIDE DEF next
<1>4. w \in [Nat -> T] /\ w[0] = {Entry} \ {d} /\ \A n \in Nat : w[n + 1] = w[n] \cup next(w[n]) BY <1>3 DEF IsIteration
<1>5. w = [k \in Nat |-> IF k = 0 THEN {Entry} \ {d} ELSE w[k - 1] \cup next(w[k - 1])]
 <2>1. \A k \in Nat : w[k] = IF k = 0 THEN {Entry} \ {d} ELSE w[k - 1] \cup next(w[k - 1])
  <3> SUFFICES ASSUME NEW k \in Nat, k # 0 PROVE w[k] = w[k - 1] \cup next(w[k - 1]) BY <1>4
  <3>1. k - 1 \in Nat /\ (k - 1) + 1 = k OBVIOUS
  <3> QED BY <1>4, <3>1
 <2> HIDE DEF T
 <2> QED BY <1>4, <2>1
<1>6. W = [k \in Nat |-> IF k = 0 THEN {Entry} \ {d} ELSE W[k - 1] \cup next(W[k - 1])] BY <1>5
<1>7. ReachableAvoiding(g, d) = W[Cardinality(DOMAIN g)] BY DEF ReachableAvoiding, next
<1>8. Cardinality(DOMAIN g) = N /\ IsFiniteSet(Block) /\ Cardinality(Block) = N
 <2>1. DOMAIN g = Block BY DEF IsFlow
 <2>2. IsFiniteSet(Block) /\ Cardinality(Block) = N BY BlockFacts, FS_Interval, SizeAssumption
 <2> QED BY <2>1, <2>2
<1> HIDE DEF W
<1>9. W[0] = {Entry} \ {d} /\ \A n \in Nat : W[n + 1] = W[n] \cup next(W[n])
 <2>1. \A k \in Nat : W[k] = IF k = 0 THEN {Entry} \ {d} ELSE W[k - 1] \cup next(W[k - 1]) BY <1>6
 <2>2. ASSUME NEW n \in Nat PROVE W[n + 1] = W[n] \cup next(W[n])
  <3>1. n + 1 \in Nat /\ n + 1 # 0 /\ (n + 1) - 1 = n OBVIOUS
  <3> QED BY <2>1, <3>1
 <2> QED BY <2>1, <2>2
<1>10. \A n \in Nat : W[n] \in T /\ {Entry} \ {d} \subseteq W[n]
 <2> DEFINE S == {n \in Nat : W[n] \in T /\ {Entry} \ {d} \subseteq W[n]}
 <2>1. 0 \in S BY <1>1, <1>9
 <2>2. \A n \in Nat : n \in S => n + 1 \in S BY <1>2, <1>9
 <2>3. Nat \subseteq S
  <3> HIDE DEF S
  <3> QED BY <2>1, <2>2, SetInduction
 <2> QED BY <2>3
<1>11. next(W[N]) \subseteq W[N]
 <2> DEFINE S == {n \in Nat : next(W[n]) \subseteq W[n] \/ Cardinality(W[n]) >= n}
 <2>1. \A n \in Nat : IsFiniteSet(W[n]) /\ Cardinality(W[n]) \in Nat BY <1>8, <1>10, FS_Subset, FS_CardinalityType
 <2>2. 0 \in S BY <2>1
 <2>3. ASSUME NEW n \in Nat, n \in S PROVE n + 1 \in S
  <3>1. W[n + 1] = W[n] \cup next(W[n]) /\ n + 1 \in Nat BY <1>9
  <3>2. CASE next(W[n]) \subseteq W[n]
   <4>1. W[n + 1] = W[n] BY <3>1, <3>2
   <4> QED BY <3>1, <3>2, <4>1
  <3>3. CASE ~(next(W[n]) \subseteq W[n])
   <4>1. W[n] \subseteq W[n + 1] /\ W[n] # W[n + 1] BY <3>1, <3>3
   <4>2. Cardinality(W[n]) <= Cardinality(W[n + 1]) /\ Cardinality(W[n + 1]) # Cardinality(W[n]) BY <2>1, <3>1, <4>1, FS_Subset
   <4>3. Cardinality(W[n]) >= n BY <2>3, <3>3
   <4>4. Cardinality(W[n + 1]) \in Nat /\ Cardinality(W[n]) \in Nat BY <2>1, <3>1
   <4>5. Cardinality(W[n + 1]) >= n + 1 BY <4>2, <4>3, <4>4
   <4> QED BY <3>1, <4>5
  <3> QED BY <3>2, <3>3
 <2>4. N \in S
  <3> HIDE DEF S
  <3> QED BY <2>2, <2>3, SetInduction, SizeAssumption
 <2>5. CASE Cardinality(W[N]) >= N
  <3>1. W[N] \in SUBSET Block BY <1>10, SizeAssumption
  <3>2. Cardinality(W[N]) <= Cardinality(Block) /\ (Cardinality(Block) = Cardinality(W[N]) => Block = W[N])
    BY <1>8, <3>1, FS_Subset
  <3>3. Cardinality(W[N]) = N BY <1>8, <2>1, <2>5, <3>2, SizeAssumption
  <3>4. Block = W[N] BY <1>8, <3>2, <3>3
  <3>5. next(W[N]) \in T BY <1>2, <1>10, SizeAssumption
  <3> QED BY <3>4, <3>5
 <2> QED BY <2>4, <2>5
<1>0. ASSUME NEW X, NEW Y PROVE next(X) \subseteq Y <=> \A b \in X : ToSet(g[b]) \ {d} \subseteq Y BY <1>16
<1>12. ClosedBut(g, d, W[N]) BY <1>11, <1>0 DEF ClosedBut
<1>13. ASSUME NEW X \in SUBSET Block, {Entry} \ {d} \subseteq X, ClosedBut(g, d, X) PROVE W[N] \subseteq X
 <2> DEFINE S == {n \in Nat : W[n] \subseteq X}
 <2>1. 0 \in S BY <1>9, <1>13
 <2>2. ASSUME NEW n \in Nat, n \in S PROVE n + 1 \in S
  <3>1. W[n + 1] = W[n] \cup next(W[n]) /\ n + 1 \in Nat BY <1>9
  <3>2. next(W[n]) \subseteq X
   <4>1. \A b \in W[n] : ToSet(g[b]) \ {d} \subseteq X BY <1>13, <2>2 DEF ClosedBut
   <4> QED BY <4>1, <1>0
  <3> QED BY <2>2, <3>1, <3>2
 <2>3. N \in S
  <3> HIDE DEF S
  <3> QED BY <2>1, <2>2, SetInduction, SizeAssumption
 <2> QED BY <2>3
<1>14. ReachableAvoiding(g, d) = W[N] /\ W[N] \in T /\ {Entry} \ {d} \subseteq W[N] BY <1>7, <1>8, <1>10, SizeAssumption
<1> QED BY <1>12, <1>13, <1>14

-----------------------------------------------------------------------------
(* Dominance. *)
Strict(b) == Dominators(succs, b) \ {b}

LEMMA DominanceFacts ==
  ASSUME IsFlow(succs)
  PROVE  /\ \A b \in Block : /\ Dominators(succs, b) \subseteq Block
                             /\ b \in Dominators(succs, b) /\ Entry \in Dominators(succs, b)
         /\ Dominators(succs, Entry) = {Entry}
         /\ \A p \in Block : \A b \in ToSet(succs[p]) : Strict(b) \subseteq Dominators(succs, p)
         /\ Entry \in Reachable(succs) /\ Reachable(succs) \subseteq Block
         /\ \A p \in Reachable(succs) : ToSet(succs[p]) \subseteq Reachable(succs)
<1>1. DOMAIN succs = Block BY DEF IsFlow
<1>2. \A d, b \in Block : d \in Dominators(succs, b) <=> b \notin ReachableAvoiding(succs, d) BY <1>1 DEF Dominators
<1>3. \A b : Dominators(succs, b) \subseteq Block BY <1>1 DEF Dominators
<1>4. \A b \in Block : b \notin ReachableAvoiding(succs, b) BY AvoidingIs
<1>5. ReachableAvoiding(succs, Entry) = {}
 <2>1. {} \in SUBSET Block /\ {Entry} \ {Entry} \subseteq {} /\ ClosedBut(succs, Entry, {}) BY DEF ClosedBut
 <2>2. ReachableAvoiding(succs, Entry) \subseteq {} BY <2>1, AvoidingIs
 <2> QED BY <2>2
<1>6. \A d \in Block : d # Entry => Entry \in ReachableAvoiding(succs, d) BY AvoidingIs
<1>7. ASSUME NEW p \in Block, NEW b \in ToSet(succs[p]), NEW d \in Strict(b) PROVE d \in Dominators(succs, p)
 <2>1. d \in Block /\ d # b /\ b \in Block /\ d \in Dominators(succs, b) BY <1>3, <1>7, SuccessorBlocks DEF Strict
 <2>2. b \notin ReachableAvoiding(succs, d) BY <1>2, <2>1
 <2>3. ClosedBut(succs, d, ReachableAvoiding(succs, d)) BY AvoidingIs
 <2>4. p \notin ReachableAvoiding(succs, d) BY <2>1, <2>2, <2>3 DEF ClosedBut
 <2> QED BY <1>2, <2>1, <2>4
<1>8. Entry # None BY BlockFacts
<1>9. /\ Reachable(succs) \subseteq Block
      /\ Entry \in Reachable(succs)
      /\ ClosedBut(succs, None, Reachable(succs)) BY <1>8, AvoidingIs DEF Reachable
<1>10. \A p \in Reachable(succs) : ToSet(succs[p]) \subseteq Reachable(succs)
 <2> SUFFICES ASSUME NEW p \in Reachable(succs), NEW b \in ToSet(succs[p]) PROVE b \in Reachable(succs) OBVIOUS
 <2>1. b # None BY <1>9, SuccessorBlocks, BlockFacts
 <2> QED BY <1>9, <2>1 DEF ClosedBut
<1>11. Dominators(succs, Entry) = {Entry} BY <1>2, <1>3, <1>5, <1>6, BlockFacts
<1> QED BY <1>2, <1>3, <1>4, <1>5, <1>7, <1>9, <1>10, <1>11, BlockFacts

(* What is reachable only behind d is not in a set that d guards. *)
LEMMA ReachableInside ==
  ASSUME IsFlow(succs), NEW X \in SUBSET Block, Entry \in X,
         \A b \in X : ToSet(succs[b]) \subseteq X
  PROVE  Reachable(succs) \subseteq X
<1>1. ClosedBut(succs, None, X) BY DEF ClosedBut
<1> QED BY <1>1, AvoidingIs DEF Reachable

LEMMA DominatedOutside ==
  ASSUME IsFlow(succs), NEW d \in Block, NEW X \in SUBSET Block, {Entry} \ {d} \subseteq X,
         \A b \in X : ToSet(succs[b]) \ {d} \subseteq X
  PROVE  \A b \in Block \ X : d \in Dominators(succs, b)
<1>1. ClosedBut(succs, d, X) BY DEF ClosedBut
<1>2. ReachableAvoiding(succs, d) \subseteq X BY <1>1, AvoidingIs
<1>3. DOMAIN succs = Block BY DEF IsFlow
<1> QED BY <1>2, <1>3 DEF Dominators

-----------------------------------------------------------------------------
(* Trees: a rank falls from every block to its parent. *)
IsTree(t, r) ==
  /\ t \in [Block -> Block \cup {None}]
  /\ r \in [Block -> Nat]
  /\ \A b \in Block : t[b] # None => r[t[b]] < r[b]

(* TreeDominates is what its recursion says. *)
LEMMA AncestorRule ==
  ASSUME NEW t, NEW r, IsTree(t, r), NEW d
  PROVE  \A b \in Block :
           TreeDominates(t, d, b) <=> b = d \/ (t[b] # None /\ TreeDominates(t, d, t[b]))
<1> DEFINE At(f, x) == x = d \/ (t[x] # None /\ f[t[x]])
           F == [f \in [Block -> BOOLEAN] |-> [x \in Block |-> At(f, x)]]
           M == CHOOSE f : f = [x \in Block |-> At(f, x)]
<1>1. DOMAIN t = Block /\ \A x \in Block : t[x] # None => t[x] \in Block BY DEF IsTree
<1>2. IsRanked(Block, BOOLEAN, r, F)
 <2>1. \A f \in [Block -> BOOLEAN] : \A x \in Block : At(f, x) \in BOOLEAN BY <1>1
 <2>2. F \in [[Block -> BOOLEAN] -> [Block -> BOOLEAN]]
  <3> HIDE DEF At
  <3> QED BY <2>1
 <2>3. ASSUME NEW f \in [Block -> BOOLEAN], NEW h \in [Block -> BOOLEAN], NEW x \in Block,
              \A y \in Block : r[y] < r[x] => f[y] = h[y]
       PROVE  At(f, x) = At(h, x)
  <3>1. t[x] # None => f[t[x]] = h[t[x]] BY <1>1, <2>3 DEF IsTree
  <3> QED BY <3>1
 <2>4. ASSUME NEW f \in [Block -> BOOLEAN], NEW x \in Block PROVE F[f][x] = At(f, x)
  <3> HIDE DEF At
  <3> QED OBVIOUS
 <2>5. r \in [Block -> Nat] /\ BOOLEAN # {} BY DEF IsTree
 <2> HIDE DEF F, At
 <2> QED BY <2>2, <2>3, <2>4, <2>5 DEF IsRanked
<1>3. PICK f \in [Block -> BOOLEAN] : f = F[f]
 <2> HIDE DEF F
 <2> QED BY <1>2, RankedRecursion
<1>4. f = [x \in Block |-> At(f, x)]
 <2> HIDE DEF At
 <2> QED BY <1>3
<1>5. M = [x \in Block |-> At(M, x)] BY <1>4
<1>6. \A b : TreeDominates(t, d, b) <=> M[b] BY <1>1 DEF TreeDominates
<1>7. \A b \in Block : M[b] = At(M, b)
 <2> HIDE DEF At, M
 <2> QED BY <1>5
<1> QED BY <1>6, <1>7

LEMMA AncestorEarlier ==
  ASSUME NEW t, NEW r, IsTree(t, r), NEW d
  PROVE  \A b \in Block : TreeDominates(t, d, b) => d \in Block /\ (d = b \/ r[d] < r[b])
<1> DEFINE Good(b) == TreeDominates(t, d, b) => d \in Block /\ (d = b \/ r[d] < r[b])
           S == {n \in Nat : \A b \in Block : r[b] = n => Good(b)}
<1>1. ASSUME NEW n \in Nat, \A m \in Nat : m < n => m \in S PROVE n \in S
 <2> SUFFICES ASSUME NEW b \in Block, r[b] = n, TreeDominates(t, d, b)
              PROVE  d \in Block /\ (d = b \/ r[d] < r[b]) OBVIOUS
 <2>1. CASE b = d BY <2>1
 <2>2. CASE b # d
  <3>1. t[b] # None /\ TreeDominates(t, d, t[b]) BY <2>2, AncestorRule
  <3>2. t[b] \in Block /\ r[t[b]] \in Nat /\ r[t[b]] < n BY <3>1 DEF IsTree
  <3>3. Good(t[b]) BY <1>1, <3>2
  <3>4. d \in Block /\ (d = t[b] \/ r[d] < r[t[b]]) BY <3>1, <3>3
  <3>5. r[d] \in Nat BY <3>4 DEF IsTree
  <3> QED BY <3>2, <3>4, <3>5
 <2> QED BY <2>1, <2>2
<1>2. Nat \subseteq S
 <2> HIDE DEF S
 <2> QED BY <1>1, StrongInduction
<1>3. \A b \in Block : r[b] \in Nat BY DEF IsTree
<1> QED BY <1>2, <1>3

LEMMA AncestorsTransitive ==
  ASSUME NEW t, NEW r, IsTree(t, r), NEW d, NEW e, TreeDominates(t, d, e)
  PROVE  \A b \in Block : TreeDominates(t, e, b) => TreeDominates(t, d, b)
<1> DEFINE Good(b) == TreeDominates(t, e, b) => TreeDominates(t, d, b)
           S == {n \in Nat : \A b \in Block : r[b] = n => Good(b)}
<1>1. ASSUME NEW n \in Nat, \A m \in Nat : m < n => m \in S PROVE n \in S
 <2> SUFFICES ASSUME NEW b \in Block, r[b] = n, TreeDominates(t, e, b) PROVE TreeDominates(t, d, b) OBVIOUS
 <2>1. CASE b = e BY <2>1
 <2>2. CASE b # e
  <3>1. t[b] # None /\ TreeDominates(t, e, t[b]) BY <2>2, AncestorRule
  <3>2. t[b] \in Block /\ r[t[b]] \in Nat /\ r[t[b]] < n BY <3>1 DEF IsTree
  <3>3. Good(t[b]) BY <1>1, <3>2
  <3> QED BY <3>1, <3>3, AncestorRule
 <2> QED BY <2>1, <2>2
<1>2. Nat \subseteq S
 <2> HIDE DEF S
 <2> QED BY <1>1, StrongInduction
<1>3. \A b \in Block : r[b] \in Nat BY DEF IsTree
<1> QED BY <1>2, <1>3

(* The ancestors of a block are a chain. *)
LEMMA AncestorsComparable ==
  ASSUME NEW t, NEW r, IsTree(t, r), NEW d, NEW e
  PROVE  \A b \in Block : TreeDominates(t, d, b) /\ TreeDominates(t, e, b) =>
           TreeDominates(t, d, e) \/ TreeDominates(t, e, d)
<1> DEFINE Good(b) == TreeDominates(t, d, b) /\ TreeDominates(t, e, b) =>
                        TreeDominates(t, d, e) \/ TreeDominates(t, e, d)
           S == {n \in Nat : \A b \in Block : r[b] = n => Good(b)}
<1>1. ASSUME NEW n \in Nat, \A m \in Nat : m < n => m \in S PROVE n \in S
 <2> SUFFICES ASSUME NEW b \in Block, r[b] = n, TreeDominates(t, d, b), TreeDominates(t, e, b)
              PROVE  TreeDominates(t, d, e) \/ TreeDominates(t, e, d) OBVIOUS
 <2>1. CASE b = e \/ b = d BY <2>1
 <2>2. CASE b # e /\ b # d
  <3>1. t[b] # None /\ TreeDominates(t, e, t[b]) /\ TreeDominates(t, d, t[b]) BY <2>2, AncestorRule
  <3>2. t[b] \in Block /\ r[t[b]] \in Nat /\ r[t[b]] < n BY <3>1 DEF IsTree
  <3>3. Good(t[b]) BY <1>1, <3>2
  <3> QED BY <3>1, <3>3
 <2> QED BY <2>1, <2>2
<1>2. Nat \subseteq S
 <2> HIDE DEF S
 <2> QED BY <1>1, StrongInduction
<1>3. \A b \in Block : r[b] \in Nat BY DEF IsTree
<1> QED BY <1>2, <1>3

(* Two blocks that are above each other are one. *)
LEMMA AncestorsAntisymmetric ==
  ASSUME NEW t, NEW r, IsTree(t, r), NEW d \in Block, NEW e \in Block,
         TreeDominates(t, d, e), TreeDominates(t, e, d)
  PROVE  d = e
<1>1. d = e \/ (r[d] < r[e] /\ r[e] < r[d]) BY AncestorEarlier
<1>2. r[d] \in Nat /\ r[e] \in Nat BY DEF IsTree
<1> QED BY <1>1, <1>2

(* Between a block and one further below there is a child. *)
LEMMA ChildBetween ==
  ASSUME NEW t, NEW r, IsTree(t, r), NEW d
  PROVE  \A b \in Block : TreeDominates(t, d, b) /\ d # b =>
           \E c \in Block : t[c] = d /\ TreeDominates(t, c, b)
<1> DEFINE Good(b) == TreeDominates(t, d, b) /\ d # b =>
                        \E c \in Block : t[c] = d /\ TreeDominates(t, c, b)
           S == {n \in Nat : \A b \in Block : r[b] = n => Good(b)}
<1>1. ASSUME NEW n \in Nat, \A m \in Nat : m < n => m \in S PROVE n \in S
 <2> SUFFICES ASSUME NEW b \in Block, r[b] = n, TreeDominates(t, d, b), d # b
              PROVE  \E c \in Block : t[c] = d /\ TreeDominates(t, c, b) OBVIOUS
 <2>1. t[b] # None /\ TreeDominates(t, d, t[b]) BY AncestorRule
 <2>2. t[b] \in Block /\ r[t[b]] \in Nat /\ r[t[b]] < n BY <2>1 DEF IsTree
 <2>3. Good(t[b]) BY <1>1, <2>2
 <2>4. CASE t[b] = d BY <2>4, AncestorRule
 <2>5. CASE t[b] # d
  <3>1. PICK c \in Block : t[c] = d /\ TreeDominates(t, c, t[b]) BY <2>1, <2>3, <2>5
  <3>2. TreeDominates(t, c, b) BY <2>1, <3>1, AncestorRule
  <3> QED BY <3>1, <3>2
 <2> QED BY <2>4, <2>5
<1>2. Nat \subseteq S
 <2> HIDE DEF S
 <2> QED BY <1>1, StrongInduction
<1>3. \A b \in Block : r[b] \in Nat BY DEF IsTree
<1> QED BY <1>2, <1>3

(* Frontiers is what its recursion says, the children first. *)
LEMMA FrontierRule ==
  ASSUME IsFlow(succs), NEW t, NEW r, IsTree(t, r), NEW m \in Nat, \A b \in Block : r[b] <= m
  PROVE  \A b \in Block : \A w :
           w \in Frontiers(succs, t)[b] <=>
             /\ w \in ToSet(succs[b]) \/ \E c \in Block : t[c] = b /\ w \in Frontiers(succs, t)[c]
             /\ t[w] # b
<1> DEFINE T == SUBSET Block
           From(f, b) == ToSet(succs[b]) \cup UNION {f[c] : c \in Children(t, b)}
           At(f, b) == {w \in From(f, b) : t[w] # b}
           F == [f \in [Block -> T] |-> [b \in Block |-> At(f, b)]]
           k == [b \in Block |-> m - r[b]]
           D == CHOOSE f : f = [b \in Block |-> At(f, b)]
<1>1. DOMAIN t = Block /\ \A b, c : c \in Children(t, b) <=> c \in Block /\ t[c] = b BY DEF IsTree, Children
<1>2. ASSUME NEW f, NEW b, NEW w
      PROVE  w \in From(f, b) <=> w \in ToSet(succs[b]) \/ \E c \in Block : t[c] = b /\ w \in f[c]
 <2>1. w \in UNION {f[c] : c \in Children(t, b)} <=> \E c \in Children(t, b) : w \in f[c] OBVIOUS
 <2> QED BY <1>1, <2>1
<1>3. IsRanked(Block, T, k, F)
 <2>1. \A f \in [Block -> T] : \A b \in Block : At(f, b) \in T
  <3> SUFFICES ASSUME NEW f \in [Block -> T], NEW b \in Block, NEW w \in From(f, b) PROVE w \in Block OBVIOUS
  <3>1. ToSet(succs[b]) \subseteq Block BY SuccessorBlocks
  <3>2. w \in ToSet(succs[b]) \/ \E c \in Block : w \in f[c] BY <1>2
  <3> QED BY <3>1, <3>2
 <2>2. F \in [[Block -> T] -> [Block -> T]]
  <3> HIDE DEF At
  <3> QED BY <2>1
 <2>3. ASSUME NEW f \in [Block -> T], NEW h \in [Block -> T], NEW b \in Block,
              \A y \in Block : k[y] < k[b] => f[y] = h[y]
       PROVE  At(f, b) = At(h, b)
  <3>1. \A c \in Block : t[c] = b => f[c] = h[c]
   <4> SUFFICES ASSUME NEW c \in Block, t[c] = b PROVE f[c] = h[c] OBVIOUS
   <4>1. b # None /\ r[b] < r[c] BY BlockFacts DEF IsTree
   <4>2. r[b] \in Nat /\ r[c] \in Nat /\ r[b] <= m /\ r[c] <= m BY DEF IsTree
   <4>3. k[c] < k[b] BY <4>1, <4>2
   <4> QED BY <2>3, <4>3
  <3> HIDE DEF From
  <3>2. \A w : w \in From(f, b) <=> w \in From(h, b) BY <1>2, <3>1
  <3> QED BY <3>2
 <2>4. ASSUME NEW f \in [Block -> T], NEW b \in Block PROVE F[f][b] = At(f, b)
  <3> HIDE DEF At
  <3> QED OBVIOUS
 <2>5. k \in [Block -> Nat]
  <3>1. \A b \in Block : m - r[b] \in Nat BY DEF IsTree
  <3> QED BY <3>1
 <2>6. T # {} OBVIOUS
 <2> HIDE DEF F, At, T, k
 <2> QED BY <2>2, <2>3, <2>4, <2>5, <2>6 DEF IsRanked
<1>4. PICK f \in [Block -> T] : f = F[f]
 <2> HIDE DEF F, T, k
 <2> QED BY <1>3, RankedRecursion
<1>5. f = [b \in Block |-> At(f, b)]
 <2> HIDE DEF At
 <2> QED BY <1>4
<1>6. D = [b \in Block |-> At(D, b)] BY <1>5
<1>7. Frontiers(succs, t) = D BY <1>1 DEF Frontiers
<1>8. \A b \in Block : D[b] = At(D, b)
 <2> HIDE DEF At, D
 <2> QED BY <1>6
<1>9. ASSUME NEW b \in Block, NEW w
      PROVE  w \in D[b] <=> /\ w \in ToSet(succs[b]) \/ \E c \in Block : t[c] = b /\ w \in D[c]
                            /\ t[w] # b
 <2>1. w \in D[b] <=> w \in From(D, b) /\ t[w] # b
  <3>1. D[b] = At(D, b) BY <1>8
  <3> HIDE DEF D, From
  <3> QED BY <3>1
 <2> HIDE DEF D, From
 <2> QED BY <1>2, <2>1
<1> QED BY <1>7, <1>9

-----------------------------------------------------------------------------
(* The inductive invariant.  The graph does not change, and its two lists
   describe one set of edges. *)
GraphInv ==
  /\ IsFlow(succs)
  /\ preds \in [Block -> Seq(Block)]
  /\ \A a, b \in Block : a \in ToSet(preds[b]) <=> b \in ToSet(succs[a])

(* Finished blocks have only visited successors; each was called by a block
   that finished later or has not yet. *)
Calls == [block : Block, next : Nat \ {0}]

SearchAt(st, seen, done) ==
  /\ st \in Seq(Calls)
  /\ seen = ToSet(done) \cup {st[i].block : i \in DOMAIN st}
  /\ seen \subseteq Reachable(succs)
  /\ \A i, j \in DOMAIN done : done[i] = done[j] => i = j
  /\ \A i, j \in DOMAIN st : st[i].block = st[j].block => i = j
  /\ \A i \in DOMAIN done : \A j \in DOMAIN st : done[i] # st[j].block
  /\ IF st = <<>> THEN done # <<>> /\ done[Len(done)] = Entry ELSE st[1].block = Entry
  /\ \A i \in DOMAIN st : i # 1 => st[i].block \in ToSet(succs[st[i - 1].block])
  /\ \A i \in DOMAIN st : \A j \in DOMAIN succs[st[i].block] :
       j < st[i].next => succs[st[i].block][j] \in seen
  /\ \A b \in ToSet(done) : ToSet(succs[b]) \subseteq seen
  /\ \A k \in DOMAIN done : done[k] # Entry =>
       \/ \E m \in DOMAIN done : k < m /\ done[k] \in ToSet(succs[done[m]])
       \/ \E i \in DOMAIN st : done[k] \in ToSet(succs[st[i].block])

SearchInv == SearchAt(stack, visited, post)

(* A tree of immediate dominators, finished or not: parents come earlier in the
   order, and dominate what they should. *)
InTree(t, b) == b = Entry \/ t[b] # None

TreeSound(t) ==
  /\ t \in [Block -> Block \cup {None}]
  /\ t[Entry] = None
  /\ \A b \in Block : t[b] # None =>
       /\ b \in Reachable(succs)
       /\ InTree(t, t[b])
       /\ RpoIndex(t[b]) < RpoIndex(b)
       /\ Strict(b) \subseteq Dominators(succs, t[b])

(* What the pass is after: the immediate dominator of b is above all
   predecessors of b. *)
Settled(t, b) ==
  \A p \in ToSet(preds[b]) : InTree(t, p) => TreeDominates(t, t[b], p)

(* What `new_idom` and the fingers may be while b is visited: all that strictly
   dominates b dominates them. *)
Candidate(t, b, x) == x \in Block /\ InTree(t, x) /\ Strict(b) \subseteq Dominators(succs, x)

(* Every predecessor folded in is below `new_idom`, or, while `intersect` runs,
   below a finger. *)
Folded(t, new, f, p) ==
  new # None /\ (TreeDominates(t, new, p) \/ (f # <<>> /\ TreeDominates(t, f[1], p)))

ScanAt(t, b, rest, new, f) ==
  /\ rest \in Seq(Block) /\ ToSet(rest) \subseteq ToSet(preds[b])
  /\ new # None => Candidate(t, b, new)
  /\ f # <<>> => /\ f \in Block \X Block
                 /\ Candidate(t, b, f[1]) /\ Candidate(t, b, f[2])
                 /\ new # None /\ TreeDominates(t, f[2], new)
  /\ \A p \in ToSet(preds[b]) \ ToSet(rest) : InTree(t, p) => Folded(t, new, f, p)

PassAt(t, i, ch, rest, new, f) ==
  /\ TreeSound(t)
  /\ i \in Nat /\ i > 1
  /\ \A k \in DOMAIN Order : k < i => InTree(t, Order[k])
  /\ ~ch => \A k \in DOMAIN Order : 1 < k /\ k < i => Settled(t, Order[k])
  /\ IF i <= Len(Order) THEN ScanAt(t, Order[i], rest, new, f) ELSE new = None /\ f = <<>>

Tree == [idom EXCEPT ![Entry] = None]

IterInv ==
  /\ idom \in [Block -> Block \cup {None}]
  /\ idom[Entry] = Entry
  /\ PassAt(Tree, position, changed, todo, new_idom, fingers)

(* The result: nothing reachable is missing, and everything is settled. *)
FinalInv ==
  /\ TreeSound(idom)
  /\ \A b \in Reachable(succs) : InTree(idom, b)
  /\ \A b \in Reachable(succs) \ {Entry} : Settled(idom, b)

DomInv ==
  /\ GraphInv
  /\ post \in Seq(Block)
  /\ stack # <<>> => phase = "search"
  /\ fingers # <<>> => phase = "iterate"
  /\ phase = "search" => /\ SearchInv
                         /\ idom = [b \in Block |-> None]
                         /\ new_idom = None
  /\ phase # "search" => OrderUsable
  /\ phase = "iterate" => IterInv
  /\ phase \notin {"search", "iterate"} => FinalInv

-----------------------------------------------------------------------------
(* The order. *)
OrderInv == GraphInv /\ post \in Seq(Block) /\ OrderUsable

LEMMA OrderIs ==
  ASSUME post \in Seq(Block)
  PROVE  /\ Len(post) \in Nat /\ DOMAIN post = 1 .. Len(post)
         /\ Order \in Seq(Block) /\ Len(Order) = Len(post) /\ DOMAIN Order = 1 .. Len(post)
         /\ \A i \in 1 .. Len(post) : /\ Order[i] = post[(Len(post) - i) + 1]
                                      /\ (Len(post) - i) + 1 \in 1 .. Len(post)
<1>1. PICK n \in Nat : n = Len(post) OBVIOUS
<1>2. DOMAIN post = 1 .. n BY <1>1
<1>3. \A i \in 1 .. n : (n - i) + 1 \in 1 .. n OBVIOUS
<1>4. \A i \in 1 .. n : post[i] \in Block BY <1>2, ElementType
<1>5. Order = [i \in 1 .. n |-> post[(n - i) + 1]] BY <1>1 DEF Order, Reverse
<1>6. Order \in Seq(Block) /\ Len(Order) = n /\ DOMAIN Order = 1 .. n BY <1>3, <1>4, <1>5
<1> QED BY <1>1, <1>2, <1>3, <1>5, <1>6

LEMMA OrderFacts ==
  ASSUME OrderInv
  PROVE  /\ Len(Order) \in Nat \ {0} /\ DOMAIN Order = 1 .. Len(Order)
         /\ \A i \in DOMAIN Order : Order[i] \in Reachable(succs) /\ RpoIndex(Order[i]) = i
         /\ \A b \in Reachable(succs) : RpoIndex(b) \in DOMAIN Order /\ Order[RpoIndex(b)] = b
         /\ Order[1] = Entry /\ RpoIndex(Entry) = 1
         /\ \A b \in Block : RpoIndex(b) \in Nat /\ RpoIndex(b) > 0 /\ RpoIndex(b) <= Len(Order) + N
<1>1. /\ IsFlow(succs)
      /\ ToSet(Order) = Reachable(succs)
      /\ \A i, j \in DOMAIN Order : Order[i] = Order[j] => i = j
      /\ Order[1] = Entry BY DEF OrderInv, GraphInv, OrderUsable, IsInjective
<1>2. Len(Order) \in Nat /\ DOMAIN Order = 1 .. Len(Order) BY OrderIs DEF OrderInv
<1>3. Entry \in Reachable(succs) /\ Reachable(succs) \subseteq Block BY <1>1, DominanceFacts
<1>4. \A i \in DOMAIN Order : Order[i] \in ToSet(Order) BY DEF ToSet
<1>5. \A b \in ToSet(Order) : \E i \in DOMAIN Order : Order[i] = b BY DEF ToSet
<1>6. \A b \in ToSet(Order) : RpoIndex(b) = CHOOSE i \in DOMAIN Order : Order[i] = b BY DEF RpoIndex
<1>7. \A b \in ToSet(Order) : RpoIndex(b) \in DOMAIN Order /\ Order[RpoIndex(b)] = b BY <1>5, <1>6
<1>8. \A i \in DOMAIN Order : RpoIndex(Order[i]) = i BY <1>1, <1>4, <1>7
<1>9. \A b \in Block \ ToSet(Order) : RpoIndex(b) = N BY DEF RpoIndex, Unnumbered
<1>10. Len(Order) # 0
 <2>1. \E i \in DOMAIN Order : Order[i] = Entry BY <1>1, <1>3, <1>5
 <2> QED BY <1>2, <2>1
<1>11. 1 \in DOMAIN Order BY <1>2, <1>10
<1>12. RpoIndex(Entry) = 1 BY <1>1, <1>8, <1>11
<1>13. ASSUME NEW b \in Block PROVE RpoIndex(b) \in Nat /\ RpoIndex(b) > 0 /\ RpoIndex(b) <= Len(Order) + N
 <2>1. CASE b \in ToSet(Order)
  <3>1. RpoIndex(b) \in 1 .. Len(Order) BY <1>2, <1>7, <2>1
  <3> QED BY <1>2, <3>1, SizeAssumption
 <2>2. CASE b \notin ToSet(Order) BY <1>2, <1>9, <2>2, SizeAssumption
 <2> QED BY <2>1, <2>2
<1> QED BY <1>1, <1>2, <1>4, <1>7, <1>8, <1>10, <1>12, <1>13

(* Every other block of the order is behind one of its predecessors. *)
LEMMA EarlierPredecessor ==
  ASSUME OrderInv, NEW i \in DOMAIN Order, i # 1
  PROVE  \E j \in DOMAIN Order : j < i /\ Order[j] \in ToSet(preds[Order[i]])
<1>1. i \in 2 .. Len(Order) /\ Len(Order) \in Nat /\ DOMAIN Order = 1 .. Len(Order) BY OrderFacts
<1>2. PICK j \in 1 .. i - 1 : Order[j] \in ToSet(preds[Order[i]]) BY <1>1 DEF OrderInv, OrderUsable
<1>3. j \in DOMAIN Order /\ j < i BY <1>1
<1> QED BY <1>2, <1>3

LEMMA PredecessorFacts ==
  ASSUME GraphInv, NEW b \in Block
  PROVE  /\ preds[b] \in Seq(Block)
         /\ ToSet(preds[b]) \subseteq Block
         /\ \A p \in ToSet(preds[b]) : b \in ToSet(succs[p])
         /\ \A p \in Block : b \in ToSet(succs[p]) => p \in ToSet(preds[b])
<1>1. preds[b] \in Seq(Block) BY DEF GraphInv
<1>2. ToSet(preds[b]) \subseteq Block BY <1>1, ElementType DEF ToSet
<1> QED BY <1>1, <1>2 DEF GraphInv

(* What dominates a block is not later in the order. *)
LEMMA DominatorsEarlier ==
  ASSUME OrderInv PROVE \A b \in Reachable(succs) : \A d \in Dominators(succs, b) : RpoIndex(d) <= RpoIndex(b)
<1> DEFINE S == {n \in Nat : n \in DOMAIN Order =>
                    \A d \in Dominators(succs, Order[n]) : RpoIndex(d) <= n}
<1>1. IsFlow(succs) /\ GraphInv BY DEF OrderInv, GraphInv
<1>2. ASSUME NEW n \in Nat, \A m \in Nat : m < n => m \in S PROVE n \in S
 <2> SUFFICES ASSUME n \in DOMAIN Order, NEW d \in Dominators(succs, Order[n]) PROVE RpoIndex(d) <= n OBVIOUS
 <2>1. Order[n] \in Block /\ RpoIndex(Order[n]) = n /\ d \in Block BY <1>1, OrderFacts, DominanceFacts
 <2>2. CASE d = Order[n] BY <2>1, <2>2
 <2>3. CASE n = 1
  <3>1. d = Entry /\ RpoIndex(Entry) = 1 BY <1>1, <2>3, OrderFacts, DominanceFacts
  <3> QED BY <2>3, <3>1
 <2>4. CASE d # Order[n] /\ n # 1
  <3>1. PICK j \in DOMAIN Order : j < n /\ Order[j] \in ToSet(preds[Order[n]]) BY <2>4, EarlierPredecessor
  <3>2. Order[n] \in ToSet(succs[Order[j]]) /\ Order[j] \in Block BY <1>1, <2>1, <3>1, PredecessorFacts
  <3>3. d \in Dominators(succs, Order[j]) BY <1>1, <2>4, <3>2, DominanceFacts DEF Strict
  <3>4. j \in Nat BY OrderFacts
  <3>5. RpoIndex(d) <= j BY <1>2, <3>1, <3>3, <3>4
  <3>6. RpoIndex(d) \in Nat BY <2>1, OrderFacts
  <3> QED BY <3>1, <3>4, <3>5, <3>6
 <2> QED BY <2>2, <2>3, <2>4
<1>3. Nat \subseteq S
 <2> HIDE DEF S
 <2> QED BY <1>2, StrongInduction
<1>4. ASSUME NEW b \in Reachable(succs), NEW d \in Dominators(succs, b) PROVE RpoIndex(d) <= RpoIndex(b)
 <2>1. RpoIndex(b) \in DOMAIN Order /\ Order[RpoIndex(b)] = b /\ RpoIndex(b) \in Nat BY OrderFacts
 <2> QED BY <1>3, <2>1
<1> QED BY <1>4

-----------------------------------------------------------------------------
(* Sound trees. *)
Rank == [b \in Block |-> RpoIndex(b)]

LEMMA SoundIsTree == ASSUME OrderInv, NEW t, TreeSound(t) PROVE IsTree(t, Rank)
<1>1. Rank \in [Block -> Nat] BY OrderFacts DEF Rank
<1>2. \A b \in Block : t[b] # None => t[b] \in Block /\ RpoIndex(t[b]) < RpoIndex(b) BY DEF TreeSound
<1> QED BY <1>1, <1>2 DEF TreeSound, IsTree, Rank

(* What dominates a block is an ancestor of it. *)
LEMMA SoundKeeps ==
  ASSUME OrderInv, NEW t, TreeSound(t)
  PROVE  \A b \in Block : InTree(t, b) => \A d \in Dominators(succs, b) : TreeDominates(t, d, b)
<1> DEFINE Good(b) == InTree(t, b) => \A d \in Dominators(succs, b) : TreeDominates(t, d, b)
           S == {n \in Nat : \A b \in Block : RpoIndex(b) = n => Good(b)}
<1>1. IsFlow(succs) /\ IsTree(t, Rank) BY SoundIsTree DEF OrderInv, GraphInv
<1>2. ASSUME NEW n \in Nat, \A m \in Nat : m < n => m \in S PROVE n \in S
 <2> SUFFICES ASSUME NEW b \in Block, RpoIndex(b) = n, InTree(t, b), NEW d \in Dominators(succs, b)
              PROVE  TreeDominates(t, d, b) OBVIOUS
 <2>1. CASE d = b BY <1>1, <2>1, AncestorRule
 <2>2. CASE d # b
  <3>1. b # Entry BY <1>1, <2>2, DominanceFacts
  <3>2. t[b] # None BY <3>1 DEF InTree
  <3>3. /\ t[b] \in Block /\ InTree(t, t[b]) /\ RpoIndex(t[b]) < RpoIndex(b)
        /\ Strict(b) \subseteq Dominators(succs, t[b]) BY <3>2 DEF TreeSound
  <3>4. RpoIndex(t[b]) \in Nat BY <3>3, OrderFacts
  <3>5. Good(t[b]) BY <1>2, <3>3, <3>4
  <3>6. TreeDominates(t, d, t[b]) BY <2>2, <3>3, <3>5 DEF Strict
  <3> QED BY <1>1, <3>2, <3>6, AncestorRule
 <2> QED BY <2>1, <2>2
<1>3. Nat \subseteq S
 <2> HIDE DEF S
 <2> QED BY <1>2, StrongInduction
<1>4. \A b \in Block : RpoIndex(b) \in Nat BY OrderFacts
<1> QED BY <1>3, <1>4

-----------------------------------------------------------------------------
(* The result, from FinalInv.  Nothing settled has an ancestor too many: the
   blocks without d above them are closed under the edges. *)
LEMMA AncestorsDominate ==
  ASSUME OrderInv, FinalInv
  PROVE  \A b \in Reachable(succs) : \A d \in Block :
           TreeDominates(idom, d, b) <=> d \in Dominators(succs, b)
<1>1. IsFlow(succs) /\ GraphInv /\ TreeSound(idom) /\ IsTree(idom, Rank) BY SoundIsTree DEF OrderInv, GraphInv, FinalInv
<1>2. Reachable(succs) \subseteq Block BY <1>1, DominanceFacts
<1>3. ASSUME NEW b \in Reachable(succs), NEW d \in Block, d \in Dominators(succs, b)
      PROVE  TreeDominates(idom, d, b) BY <1>1, <1>2, <1>3, SoundKeeps DEF FinalInv
<1>4. ASSUME NEW b \in Reachable(succs), NEW d \in Block, TreeDominates(idom, d, b) PROVE d \in Dominators(succs, b)
 <2> DEFINE X == {x \in Reachable(succs) : ~TreeDominates(idom, d, x)}
 <2>1. idom[Entry] = None /\ Entry \in Reachable(succs) BY <1>1, DominanceFacts DEF TreeSound
 <2>2. {Entry} \ {d} \subseteq X BY <1>1, <2>1, BlockFacts, AncestorRule
 <2>3. ASSUME NEW x \in X, NEW y \in ToSet(succs[x]) \ {d}, TreeDominates(idom, d, y) PROVE FALSE
  <3>1. x \in Block /\ y \in Reachable(succs) /\ y \in Block BY <1>1, <1>2, <2>3, DominanceFacts
  <3>2. idom[y] # None /\ TreeDominates(idom, d, idom[y]) BY <1>1, <2>3, <3>1, AncestorRule
  <3>3. y # Entry BY <2>1, <3>2
  <3>4. x \in ToSet(preds[y]) /\ InTree(idom, x) /\ Settled(idom, y) BY <1>1, <3>1, <3>3, PredecessorFacts DEF FinalInv
  <3>5. TreeDominates(idom, idom[y], x) BY <3>4 DEF Settled
  <3>6. TreeDominates(idom, d, x) BY <1>1, <3>1, <3>2, <3>5, AncestorsTransitive
  <3> QED BY <3>6
 <2>4. \A x \in X : ToSet(succs[x]) \ {d} \subseteq X BY <1>1, <2>3, DominanceFacts
 <2>5. X \in SUBSET Block /\ b \in Block \ X BY <1>2, <1>4
 <2> HIDE DEF X
 <2> QED BY <1>1, <2>2, <2>4, <2>5, DominatedOutside
<1> QED BY <1>3, <1>4

LEMMA AncestorsReachable ==
  ASSUME OrderInv, NEW t, TreeSound(t), NEW d
  PROVE  \A b \in Reachable(succs) : TreeDominates(t, d, b) => d \in Reachable(succs)
<1> DEFINE Good(b) == b \in Reachable(succs) /\ TreeDominates(t, d, b) => d \in Reachable(succs)
           S == {n \in Nat : \A b \in Block : RpoIndex(b) = n => Good(b)}
<1>1. IsFlow(succs) /\ IsTree(t, Rank) BY SoundIsTree DEF OrderInv, GraphInv
<1>2. ASSUME NEW n \in Nat, \A k \in Nat : k < n => k \in S PROVE n \in S
 <2> SUFFICES ASSUME NEW b \in Block, RpoIndex(b) = n, b \in Reachable(succs),
                     TreeDominates(t, d, b), d # b
              PROVE  d \in Reachable(succs) OBVIOUS
 <2>1. t[b] # None /\ TreeDominates(t, d, t[b]) BY <1>1, AncestorRule
 <2>2. t[b] \in Block /\ InTree(t, t[b]) /\ RpoIndex(t[b]) < RpoIndex(b) BY <2>1 DEF TreeSound
 <2>3. t[b] \in Reachable(succs) BY <1>1, <2>2, DominanceFacts DEF InTree, TreeSound
 <2>4. RpoIndex(t[b]) \in Nat BY <2>2, OrderFacts
 <2>5. Good(t[b]) BY <1>2, <2>2, <2>4
 <2> QED BY <2>1, <2>3, <2>5
<1>3. Nat \subseteq S
 <2> HIDE DEF S
 <2> QED BY <1>2, StrongInduction
<1>4. \A b \in Block : RpoIndex(b) \in Nat BY OrderFacts
<1>5. Reachable(succs) \subseteq Block BY <1>1, DominanceFacts
<1> QED BY <1>3, <1>4, <1>5

LEMMA ImmediateDominatorFound ==
  ASSUME OrderInv, FinalInv, NEW b \in Reachable(succs) \ {Entry} PROVE idom[b] = ImmediateDominator(succs, b)
<1> DEFINE m == idom[b]
<1>1. IsFlow(succs) /\ GraphInv /\ TreeSound(idom) /\ IsTree(idom, Rank) /\ b \in Block
  BY SoundIsTree, DominanceFacts DEF OrderInv, GraphInv, FinalInv
<1>2. m # None /\ m \in Block /\ RpoIndex(m) < RpoIndex(b) /\ Strict(b) \subseteq Dominators(succs, m)
  BY <1>1 DEF FinalInv, TreeSound, InTree
<1>3. TreeDominates(idom, m, b) BY <1>1, <1>2, AncestorRule
<1>4. m # b BY <1>1, <1>2, OrderFacts
<1>5. m \in Strict(b) BY <1>2, <1>3, <1>4, AncestorsDominate DEF Strict
<1>6. m \in Reachable(succs)
 <2>1. InTree(idom, m) BY <1>1, <1>2 DEF TreeSound
 <2> QED BY <1>1, <1>2, <2>1, DominanceFacts DEF InTree, TreeSound
<1>7. ASSUME NEW d \in Strict(b), Strict(b) \subseteq Dominators(succs, d) PROVE d = m
 <2>1. d \in Block /\ m \in Dominators(succs, d) /\ d \in Dominators(succs, m)
   BY <1>1, <1>2, <1>5, <1>7, DominanceFacts DEF Strict
 <2>2. TreeDominates(idom, d, m) BY <1>6, <2>1, AncestorsDominate
 <2>3. d \in Reachable(succs) BY <1>1, <1>6, <2>1, <2>2, AncestorsReachable
 <2>4. TreeDominates(idom, m, d) BY <1>2, <2>1, <2>3, AncestorsDominate
 <2> QED BY <1>1, <1>2, <2>1, <2>2, <2>4, AncestorsAntisymmetric
<1>8. ImmediateDominator(succs, b) = CHOOSE d \in Strict(b) : Strict(b) \subseteq Dominators(succs, d)
  BY DEF ImmediateDominator, Strict
<1> QED BY <1>2, <1>5, <1>7, <1>8

LEMMA FrontiersExact ==
  ASSUME OrderInv, FinalInv PROVE \A b \in Reachable(succs) : IsFrontier(succs, b, Frontiers(succs, idom)[b])
<1> DEFINE DF == Frontiers(succs, idom)
           A(x, y) == TreeDominates(idom, x, y)
           Leaves(b, w) == /\ w \in Block
                           /\ \E p \in Reachable(succs) : w \in ToSet(succs[p]) /\ A(b, p)
                           /\ b = w \/ ~A(b, w)
           m == Len(Order) + N
           Good(b) == b \in Reachable(succs) => \A w : w \in DF[b] <=> Leaves(b, w)
           S == {n \in Nat : \A b \in Block : m - RpoIndex(b) = n => Good(b)}
<1>1. IsFlow(succs) /\ GraphInv /\ TreeSound(idom) /\ IsTree(idom, Rank) BY SoundIsTree DEF OrderInv, GraphInv, FinalInv
<1>2. Entry \in Reachable(succs) /\ Reachable(succs) \subseteq Block
      /\ \A p \in Reachable(succs) : ToSet(succs[p]) \subseteq Reachable(succs) BY <1>1, DominanceFacts
<1>3. m \in Nat /\ \A b \in Block : RpoIndex(b) \in Nat /\ m - RpoIndex(b) \in Nat /\ Rank[b] <= m
 <2>1. \A x, y \in Int : x >= 0 /\ x <= y => y - x \in Nat OBVIOUS
 <2> QED BY <2>1, OrderFacts, SizeAssumption DEF Rank
<1> HIDE DEF m
<1>4. ASSUME NEW b \in Block
      PROVE  \A w : w \in DF[b] <=>
               /\ w \in ToSet(succs[b]) \/ \E c \in Block : idom[c] = b /\ w \in DF[c]
               /\ idom[w] # b BY <1>1, <1>3, FrontierRule
<1> HIDE DEF DF
<1>5. idom[Entry] = None /\ \A b \in Block : idom[b] # None =>
        b # Entry /\ idom[b] \in Block /\ RpoIndex(idom[b]) < RpoIndex(b) /\ A(idom[b], b)
           /\ b \in Reachable(succs) BY <1>1, AncestorRule DEF TreeSound
<1>6. ASSUME NEW w \in Reachable(succs), NEW b \in Block, b # w, A(b, w)
      PROVE  idom[w] \in Block /\ A(b, idom[w]) /\ w # Entry BY <1>1, <1>2, <1>5, <1>6, AncestorRule
<1>7. \A p \in Reachable(succs) : \A w \in ToSet(succs[p]) : w # Entry => A(idom[w], p)
 <2> SUFFICES ASSUME NEW p \in Reachable(succs), NEW w \in ToSet(succs[p]), w # Entry PROVE A(idom[w], p) OBVIOUS
 <2>1. w \in Reachable(succs) \ {Entry} /\ p \in ToSet(preds[w]) BY <1>1, <1>2, PredecessorFacts
 <2> QED BY <2>1 DEF FinalInv, Settled
<1>8. ASSUME NEW n \in Nat, \A k \in Nat : k < n => k \in S PROVE n \in S
 <2> SUFFICES ASSUME NEW b \in Block, m - RpoIndex(b) = n, b \in Reachable(succs), NEW w
              PROVE  w \in DF[b] <=> Leaves(b, w) OBVIOUS
 <2>1. ASSUME NEW c \in Block, idom[c] = b
       PROVE  c # b /\ A(b, c) /\ c \in Reachable(succs) /\ (w \in DF[c] <=> Leaves(c, w))
  <3>1. RpoIndex(b) < RpoIndex(c) /\ A(b, c) /\ c \in Reachable(succs) BY <1>2, <1>5, <2>1, BlockFacts
  <3>2. m - RpoIndex(c) \in Nat /\ m - RpoIndex(c) < n /\ c # b BY <1>3, <3>1
  <3>3. Good(c) BY <1>8, <3>2
  <3> QED BY <3>1, <3>2, <3>3
 <2>2. ASSUME w \in DF[b] PROVE Leaves(b, w)
  <3>1. idom[w] # b /\ (w \in ToSet(succs[b]) \/ \E c \in Block : idom[c] = b /\ w \in DF[c]) BY <1>4, <2>2
  <3>2. CASE w \in ToSet(succs[b])
   <4>1. w \in Reachable(succs) /\ w \in Block /\ A(b, b) BY <1>1, <1>2, <3>2, AncestorRule
   <4>2. ASSUME b # w, A(b, w) PROVE FALSE
    <5>1. idom[w] \in Block /\ A(b, idom[w]) /\ w # Entry BY <1>6, <4>1, <4>2
    <5>2. A(idom[w], b) BY <1>7, <3>2, <5>1
    <5> QED BY <1>1, <3>1, <5>1, <5>2, AncestorsAntisymmetric
   <4> QED BY <3>2, <4>1, <4>2
  <3>3. ASSUME NEW c \in Block, idom[c] = b, w \in DF[c] PROVE Leaves(b, w)
   <4>1. c # b /\ A(b, c) /\ c \in Reachable(succs) /\ Leaves(c, w) BY <2>1, <3>3
   <4>2. PICK p \in Reachable(succs) : w \in ToSet(succs[p]) /\ A(c, p) BY <4>1
   <4>3. A(b, p) /\ w \in Reachable(succs) /\ p \in Block /\ w \in Block BY <1>1, <1>2, <4>1, <4>2, AncestorsTransitive
   <4>4. ASSUME b # w, A(b, w) PROVE FALSE
    <5>1. idom[w] \in Block /\ A(b, idom[w]) /\ w # Entry BY <1>6, <4>3, <4>4
    <5>2. c # w BY <3>1, <3>3
    <5>3. ~A(c, w) BY <4>1, <5>2
    <5>4. A(idom[w], p) BY <1>7, <4>2, <5>1
    <5>5. idom[w] # None BY <5>1, BlockFacts
    <5>6. ~A(c, idom[w]) BY <1>1, <4>3, <5>3, <5>5, AncestorRule
    <5>7. A(idom[w], c) BY <1>1, <4>2, <4>3, <5>4, <5>6, AncestorsComparable
    <5>8. idom[w] # c BY <1>1, <5>1, <5>6, AncestorRule
    <5>9. A(idom[w], b) BY <1>1, <3>3, <5>7, <5>8, AncestorRule
    <5> QED BY <1>1, <3>1, <5>1, <5>9, AncestorsAntisymmetric
   <4> QED BY <4>2, <4>3, <4>4
  <3> QED BY <3>1, <3>2, <3>3
 <2>3. ASSUME Leaves(b, w) PROVE w \in DF[b]
  <3>1. PICK p \in Reachable(succs) : w \in ToSet(succs[p]) /\ A(b, p) BY <2>3
  <3>2. p \in Block /\ w \in Reachable(succs) /\ w \in Block BY <1>2, <3>1
  <3>3. idom[w] # b BY <2>1, <2>3, <3>2
  <3>4. CASE b = p BY <1>4, <3>1, <3>3, <3>4
  <3>5. CASE b # p
   <4>1. PICK c \in Block : idom[c] = b /\ A(c, p) BY <1>1, <3>1, <3>2, <3>5, ChildBetween
   <4>2. c # b /\ A(b, c) /\ c \in Reachable(succs) /\ (w \in DF[c] <=> Leaves(c, w)) BY <2>1, <4>1
   <4>3. ASSUME c # w, A(c, w) PROVE FALSE
    <5>1. A(b, w) BY <1>1, <3>2, <4>2, <4>3, AncestorsTransitive
    <5>2. b = w BY <2>3, <5>1
    <5> QED BY <1>1, <4>2, <4>3, <5>2, AncestorsAntisymmetric
   <4>4. Leaves(c, w) BY <3>1, <3>2, <4>1, <4>3
   <4> QED BY <1>4, <3>3, <4>1, <4>2, <4>4
  <3> QED BY <3>4, <3>5
 <2> QED BY <2>2, <2>3
<1>9. Nat \subseteq S
 <2> HIDE DEF S
 <2> QED BY <1>8, StrongInduction
<1>10. ASSUME NEW b \in Reachable(succs) PROVE IsFrontier(succs, b, DF[b])
 <2>1. \A w : w \in DF[b] <=> Leaves(b, w) BY <1>2, <1>3, <1>9
 <2>2. \A p \in Reachable(succs) : A(b, p) <=> b \in Dominators(succs, p) BY <1>2, AncestorsDominate
 <2>3. \A p \in Reachable(succs) : ToSet(succs[p]) \subseteq Reachable(succs) BY <1>2
 <2>4. DOMAIN succs = Block BY <1>1 DEF IsFlow
 <2>5. DF[b] = {w \in DOMAIN succs :
                  /\ \E p \in Reachable(succs) : w \in ToSet(succs[p]) /\ b \in Dominators(succs, p)
                  /\ b = w \/ b \notin Dominators(succs, w)} BY <2>1, <2>2, <2>3, <2>4
 <2> QED BY <2>5 DEF IsFrontier
<1> QED BY <1>10 DEF DF

-----------------------------------------------------------------------------
(* The search. *)
LEMMA SearchStarts == ASSUME IsFlow(succs) PROVE SearchAt(<<[block |-> Entry, next |-> 1]>>, {Entry}, <<>>)
<1> DEFINE st == <<[block |-> Entry, next |-> 1]>>
<1>1. st \in Seq(Calls) /\ DOMAIN st = {1} /\ st[1].block = Entry /\ st[1].next = 1 /\ st # <<>> BY BlockFacts DEF Calls
<1>2. DOMAIN <<>> = {} /\ ToSet(<<>>) = {} BY DEF ToSet
<1>3. {Entry} \subseteq Reachable(succs) BY DominanceFacts
<1>4. \A j \in DOMAIN succs[Entry] : ~(j < 1)
 <2>1. succs[Entry] \in Seq(Block) BY BlockFacts, SuccessorBlocks
 <2> QED BY <2>1
<1> HIDE DEF st
<1>5. {Entry} = ToSet(<<>>) \cup {st[i].block : i \in DOMAIN st} BY <1>1, <1>2
<1> QED BY <1>1, <1>2, <1>3, <1>4, <1>5 DEF SearchAt, st

(* What a call that advances, or calls on, leaves of the stack. *)
Advanced == [stack EXCEPT ![Len(stack)].next = @ + 1]

LEMMA AdvancedIs ==
  ASSUME stack \in Seq(Calls), stack # <<>>
  PROVE  /\ Len(stack) \in Nat \ {0} /\ DOMAIN stack = 1 .. Len(stack)
         /\ Advanced \in Seq(Calls) /\ DOMAIN Advanced = 1 .. Len(stack) /\ Len(Advanced) = Len(stack)
         /\ \A i \in 1 .. Len(stack) :
              /\ stack[i].block \in Block /\ stack[i].next \in Nat \ {0}
              /\ Advanced[i].block = stack[i].block
              /\ Advanced[i].next = IF i = Len(stack) THEN stack[i].next + 1 ELSE stack[i].next
<1>1. PICK n \in Nat : n = Len(stack) OBVIOUS
<1>2. n # 0 /\ DOMAIN stack = 1 .. n BY <1>1
<1>3. \A i \in 1 .. n : stack[i] \in Calls BY <1>2, ElementType
<1>4. \A i \in 1 .. n : stack[i].block \in Block /\ stack[i].next \in Nat \ {0} BY <1>3 DEF Calls
<1>5. Advanced = [stack EXCEPT ![n].next = @ + 1] BY <1>1 DEF Advanced
<1>6. DOMAIN Advanced = 1 .. n BY <1>2, <1>5
<1>7. \A i \in 1 .. n : Advanced[i] = IF i = n THEN [stack[n] EXCEPT !.next = stack[n].next + 1] ELSE stack[i] BY <1>2, <1>5
<1>8. n \in 1 .. n BY <1>2
<1>9. [stack[n] EXCEPT !.next = stack[n].next + 1] \in Calls
      /\ [stack[n] EXCEPT !.next = stack[n].next + 1].block = stack[n].block
      /\ [stack[n] EXCEPT !.next = stack[n].next + 1].next = stack[n].next + 1
 <2>1. stack[n].next + 1 \in Nat \ {0} BY <1>4, <1>8
 <2>2. stack[n] \in [block : Block, next : Nat \ {0}] BY <1>3, <1>8 DEF Calls
 <2> QED BY <2>1, <2>2 DEF Calls
<1>10. \A i \in 1 .. n : Advanced[i] \in Calls BY <1>3, <1>7, <1>9
<1>11. Advanced \in Seq(Calls) /\ Len(Advanced) = n
 <2>1. Advanced = [i \in 1 .. n |-> Advanced[i]] BY <1>2, <1>5
 <2> HIDE DEF Advanced
 <2> QED BY <1>10, <2>1
<1> QED BY <1>1, <1>2, <1>4, <1>6, <1>7, <1>9, <1>11

LEMMA VisitSeen ==
  ASSUME IsFlow(succs), stack # <<>>, SearchAt(stack, visited, post), post \in Seq(Block),
         Top.next <= Len(succs[Top.block]), succs[Top.block][Top.next] \in visited
  PROVE  SearchAt(Advanced, visited, post)
<1> DEFINE n == Len(stack)
<1>1. stack \in Seq(Calls) BY DEF SearchAt
<1>2. /\ n \in Nat \ {0} /\ DOMAIN stack = 1 .. n
      /\ Advanced \in Seq(Calls) /\ DOMAIN Advanced = 1 .. n /\ Len(Advanced) = n
      /\ \A i \in 1 .. n : /\ stack[i].block \in Block /\ stack[i].next \in Nat \ {0}
                           /\ Advanced[i].block = stack[i].block
                           /\ Advanced[i].next = IF i = n THEN stack[i].next + 1 ELSE stack[i].next BY Zenon, <1>1, AdvancedIs
<1>3. Top = stack[n] BY DEF Top
<1> HIDE DEF n
<1>4. {Advanced[i].block : i \in DOMAIN Advanced} = {stack[i].block : i \in DOMAIN stack} BY <1>2
<1>5. Advanced # <<>> /\ Advanced[1].block = Entry
 <2>1. stack[1].block = Entry BY DEF SearchAt
 <2> QED BY <1>2, <2>1
<1>6. ASSUME NEW i \in DOMAIN Advanced, i # 1 PROVE Advanced[i].block \in ToSet(succs[Advanced[i - 1].block])
 <2>1. i \in DOMAIN stack /\ i - 1 \in 1 .. n /\ i \in 1 .. n BY <1>2, <1>6
 <2>2. stack[i].block \in ToSet(succs[stack[i - 1].block]) BY <1>6, <2>1 DEF SearchAt
 <2> QED BY <1>2, <2>1, <2>2
<1>7. ASSUME NEW i \in DOMAIN Advanced, NEW j \in DOMAIN succs[Advanced[i].block], j < Advanced[i].next
      PROVE  succs[Advanced[i].block][j] \in visited
 <2>1. i \in 1 .. n /\ i \in DOMAIN stack /\ Advanced[i].block = stack[i].block BY <1>2
 <2>2. CASE j < stack[i].next BY <2>1, <2>2 DEF SearchAt
 <2>3. CASE ~(j < stack[i].next)
  <3>1. stack[i].next \in Nat /\ succs[stack[i].block] \in Seq(Block) BY <1>2, <2>1, SuccessorBlocks
  <3>2. j \in Nat BY <2>1, <3>1
  <3>3. i = n /\ j = stack[i].next BY <1>2, <1>7, <2>1, <2>3, <3>1, <3>2
  <3> QED BY <1>3, <2>1, <3>3
 <2> QED BY <2>2, <2>3
<1>8. \A i, j \in DOMAIN Advanced : Advanced[i].block = Advanced[j].block => i = j BY <1>2 DEF SearchAt
<1>9. \A i \in DOMAIN post : \A j \in DOMAIN Advanced : post[i] # Advanced[j].block BY <1>2 DEF SearchAt
<1>10. \A k \in DOMAIN post : post[k] # Entry =>
       \/ \E m \in DOMAIN post : k < m /\ post[k] \in ToSet(succs[post[m]])
       \/ \E i \in DOMAIN Advanced : post[k] \in ToSet(succs[Advanced[i].block]) BY <1>2 DEF SearchAt
<1>11. /\ visited = ToSet(post) \cup {Advanced[i].block : i \in DOMAIN Advanced}
       /\ visited \subseteq Reachable(succs)
       /\ \A i, j \in DOMAIN post : post[i] = post[j] => i = j
       /\ \A b \in ToSet(post) : ToSet(succs[b]) \subseteq visited BY <1>4 DEF SearchAt
<1> QED BY <1>2, <1>5, <1>6, <1>7, <1>8, <1>9, <1>10, <1>11 DEF SearchAt

LEMMA VisitNew ==
  ASSUME IsFlow(succs), stack # <<>>, SearchAt(stack, visited, post), post \in Seq(Block),
         Top.next <= Len(succs[Top.block]), succs[Top.block][Top.next] \notin visited
  PROVE  SearchAt(Append(Advanced, [block |-> succs[Top.block][Top.next], next |-> 1]),
                  visited \cup {succs[Top.block][Top.next]}, post)
<1> DEFINE n == Len(stack)
           s == succs[Top.block][Top.next]
           st == Append(Advanced, [block |-> s, next |-> 1])
           seen == visited \cup {s}
<1>1. stack \in Seq(Calls) BY DEF SearchAt
<1>2. /\ n \in Nat \ {0} /\ DOMAIN stack = 1 .. n
      /\ Advanced \in Seq(Calls) /\ DOMAIN Advanced = 1 .. n /\ Len(Advanced) = n
      /\ \A i \in 1 .. n : /\ stack[i].block \in Block /\ stack[i].next \in Nat \ {0}
                           /\ Advanced[i].block = stack[i].block
                           /\ Advanced[i].next = IF i = n THEN stack[i].next + 1 ELSE stack[i].next BY <1>1, AdvancedIs
<1>3. Top = stack[n] /\ Top.block = stack[n].block /\ n \in 1 .. n BY <1>2 DEF Top
<1>4. /\ Top.next \in DOMAIN succs[stack[n].block]
      /\ s \in ToSet(succs[stack[n].block]) /\ s \in Block
 <2>1. succs[stack[n].block] \in Seq(Block) /\ stack[n].next \in Nat \ {0} BY Zenon, <1>2, <1>3, SuccessorBlocks
 <2>2. Top.next \in DOMAIN succs[stack[n].block] BY <1>3, <2>1
 <2> QED BY <1>3, <2>1, <2>2, ElementType DEF ToSet
<1>5. s \in Reachable(succs)
 <2>1. stack[n].block \in visited
  <3>1. visited = ToSet(post) \cup {stack[i].block : i \in DOMAIN stack} BY DEF SearchAt
  <3>2. n \in DOMAIN stack BY Zenon, <1>2, <1>3
  <3> HIDE DEF n
  <3> QED BY <3>1, <3>2
 <2>2. stack[n].block \in Reachable(succs) BY <2>1 DEF SearchAt
 <2> QED BY <1>4, <2>2, DominanceFacts
<1>6. [block |-> s, next |-> 1] \in Calls BY <1>4 DEF Calls
<1>16. Top.next = stack[n].next BY <1>3
<1> HIDE DEF n, s
<1>7. /\ st \in Seq(Calls) /\ DOMAIN st = 1 .. n + 1
      /\ \A i \in 1 .. n : st[i] = Advanced[i]
      /\ st[n + 1] = [block |-> s, next |-> 1] BY <1>2, <1>6, AppendFacts
<1> HIDE DEF st
<1>17. st[n + 1].block = s /\ st[n + 1].next = 1 BY <1>7
<1>8. \A i \in 1 .. n : st[i].block = stack[i].block BY <1>2, <1>7
<1>9. \A i \in 1 .. n + 1 : i \in 1 .. n \/ i = n + 1 BY <1>2
<1>18. 1 .. n \subseteq 1 .. n + 1 /\ n + 1 \in 1 .. n + 1 /\ n + 1 \notin 1 .. n BY <1>2
<1>10. \A i \in 1 .. n : stack[i].block \in visited BY <1>2 DEF SearchAt
<1>11. seen = ToSet(post) \cup {st[i].block : i \in DOMAIN st}
 <2>1. visited = ToSet(post) \cup {stack[i].block : i \in DOMAIN stack} BY DEF SearchAt
 <2>2. {st[i].block : i \in DOMAIN st} = {stack[i].block : i \in DOMAIN stack} \cup {s}
  <3>1. \A i \in DOMAIN st : st[i].block \in {stack[j].block : j \in DOMAIN stack} \cup {s} BY <1>2, <1>7, <1>8, <1>9, <1>17
  <3>2. \A i \in DOMAIN stack : i \in DOMAIN st /\ stack[i].block = st[i].block BY <1>2, <1>7, <1>8, <1>18
  <3>3. n + 1 \in DOMAIN st /\ s = st[n + 1].block BY <1>7, <1>17, <1>18
  <3> QED BY <3>1, <3>2, <3>3
 <2> QED BY <2>1, <2>2
<1>12. \A i, j \in DOMAIN st : st[i].block = st[j].block => i = j
 <2> SUFFICES ASSUME NEW i \in 1 .. n + 1, NEW j \in 1 .. n + 1, st[i].block = st[j].block PROVE i = j BY <1>7
 <2>1. CASE i \in 1 .. n /\ j \in 1 .. n BY <1>2, <1>8, <2>1 DEF SearchAt
 <2>2. CASE ~(i \in 1 .. n /\ j \in 1 .. n)
  <3>1. s \notin visited BY DEF s
  <3> QED BY <1>8, <1>9, <1>10, <1>17, <2>2, <3>1
 <2> QED BY <2>1, <2>2
<1>13. \A i \in DOMAIN post : \A j \in DOMAIN st : post[i] # st[j].block
 <2> SUFFICES ASSUME NEW i \in DOMAIN post, NEW j \in 1 .. n + 1 PROVE post[i] # st[j].block BY <1>7
 <2>1. CASE j \in 1 .. n BY <1>2, <1>8, <2>1 DEF SearchAt
 <2>2. CASE j = n + 1
  <3>1. s \notin visited BY DEF s
  <3>2. post[i] \in visited BY DEF SearchAt, ToSet
  <3> QED BY <1>17, <2>2, <3>1, <3>2
 <2> QED BY <1>9, <2>1, <2>2
<1>14. st # <<>> /\ st[1].block = Entry
 <2>1. stack[1].block = Entry BY DEF SearchAt
 <2>2. 1 \in 1 .. n BY <1>2
 <2>3. st # <<>>
  <3>1. 1 \in DOMAIN st BY <1>7, <1>18, <2>2
  <3> QED BY <3>1
 <2> QED BY <1>8, <2>1, <2>2, <2>3
<1>15. ASSUME NEW i \in DOMAIN st, i # 1 PROVE st[i].block \in ToSet(succs[st[i - 1].block])
 <2>1. i - 1 \in 1 .. n BY <1>2, <1>7, <1>15
 <2>2. CASE i \in 1 .. n
  <3>1. stack[i].block \in ToSet(succs[stack[i - 1].block]) BY <1>2, <1>15, <2>2 DEF SearchAt
  <3> QED BY <1>8, <2>1, <2>2, <3>1
 <2>3. CASE i = n + 1
  <3>1. i - 1 = n BY <1>2, <2>3
  <3> QED BY <1>4, <1>8, <1>17, <2>1, <2>3, <3>1 DEF n
 <2> QED BY <1>7, <1>9, <2>2, <2>3
<1>19. ASSUME NEW i \in DOMAIN st, NEW j \in DOMAIN succs[st[i].block], j < st[i].next
       PROVE  succs[st[i].block][j] \in seen
 <2>1. CASE i \in 1 .. n
  <3>1. st[i].block = stack[i].block /\ i \in DOMAIN stack BY <1>2, <1>8, <2>1
  <3>2. CASE j < stack[i].next BY <3>1, <3>2 DEF SearchAt
  <3>3. CASE ~(j < stack[i].next)
   <4>1. stack[i].next \in Nat /\ succs[stack[i].block] \in Seq(Block) BY <1>2, <2>1, SuccessorBlocks
   <4>2. j \in Nat BY <3>1, <4>1
   <4>3. i = n /\ j = stack[i].next BY <1>2, <1>7, <1>19, <2>1, <3>3, <4>1, <4>2
   <4>4. succs[st[i].block][j] = s BY <1>16, <3>1, <4>3 DEF s, Top, n
   <4> QED BY <4>4
  <3> QED BY <3>2, <3>3
 <2>2. CASE i = n + 1
  <3>1. succs[s] \in Seq(Block) /\ st[i].block = s /\ j < 1 BY <1>4, <1>17, <1>19, <2>2, SuccessorBlocks
  <3> QED BY <3>1
 <2> QED BY <1>7, <1>9, <2>1, <2>2
<1>20. \A b \in ToSet(post) : ToSet(succs[b]) \subseteq seen BY DEF SearchAt
<1>21. ASSUME NEW k \in DOMAIN post, post[k] # Entry
       PROVE  \/ \E m \in DOMAIN post : k < m /\ post[k] \in ToSet(succs[post[m]])
              \/ \E i \in DOMAIN st : post[k] \in ToSet(succs[st[i].block]) BY <1>2, <1>7, <1>8, <1>18, <1>21 DEF SearchAt
<1>22. seen \subseteq Reachable(succs) /\ \A i, j \in DOMAIN post : post[i] = post[j] => i = j BY <1>5 DEF SearchAt
<1> HIDE DEF seen
<1>23. SearchAt(st, seen, post) BY <1>7, <1>11, <1>12, <1>13, <1>14, <1>15, <1>19, <1>20, <1>21, <1>22 DEF SearchAt
<1> QED BY <1>23 DEF st, seen, s

LEMMA LeaveSearch ==
  ASSUME IsFlow(succs), stack # <<>>, SearchAt(stack, visited, post), post \in Seq(Block),
         Top.next > Len(succs[Top.block])
  PROVE  /\ SearchAt(Front(stack), visited, Append(post, Top.block))
         /\ Append(post, Top.block) \in Seq(Block)
<1> DEFINE n == Len(stack)
           m == Len(post)
           b == Top.block
           st == Front(stack)
           done == Append(post, b)
<1>1. stack \in Seq(Calls) BY DEF SearchAt
<1>2. /\ n \in Nat \ {0} /\ DOMAIN stack = 1 .. n
      /\ \A i \in 1 .. n : stack[i].block \in Block /\ stack[i].next \in Nat \ {0} BY <1>1, AdvancedIs
<1>3. b = stack[n].block /\ b \in Block /\ n \in 1 .. n /\ Top.next = stack[n].next BY <1>2 DEF Top
<1>4. st \in Seq(Calls) /\ DOMAIN st = 1 .. n - 1 /\ \A i \in 1 .. n - 1 : st[i] = stack[i] BY <1>1, FrontFacts
<1>5. /\ done \in Seq(Block) /\ m \in Nat /\ DOMAIN post = 1 .. m /\ DOMAIN done = 1 .. m + 1
      /\ (\A i \in 1 .. m : done[i] = post[i]) /\ done[m + 1] = b BY <1>3, AppendFacts
<1>6. ToSet(succs[b]) \subseteq visited
 <2> SUFFICES ASSUME NEW j \in DOMAIN succs[b] PROVE succs[b][j] \in visited BY DEF ToSet
 <2>1. succs[b] \in Seq(Block) /\ stack[n].next \in Nat BY <1>2, <1>3, SuccessorBlocks
 <2>2. Len(succs[b]) < stack[n].next BY <1>3, <2>1
 <2> HIDE DEF n, b
 <2>3. j < stack[n].next BY <2>1, <2>2
 <2> QED BY <1>2, <1>3, <2>3 DEF SearchAt
<1> HIDE DEF n, m, b, st, done
<1>7. \A i \in 1 .. n : i \in 1 .. n - 1 \/ i = n BY <1>2
<1>8. 1 .. n - 1 \subseteq 1 .. n /\ n \notin 1 .. n - 1 BY <1>2
<1>9. \A i \in 1 .. m + 1 : i \in 1 .. m \/ i = m + 1 BY <1>5
<1>10. 1 .. m \subseteq 1 .. m + 1 /\ m + 1 \in 1 .. m + 1 /\ \A i \in 1 .. m : i < m + 1 BY <1>5
<1>11. visited = ToSet(done) \cup {st[i].block : i \in DOMAIN st}
 <2>1. visited = ToSet(post) \cup {stack[i].block : i \in DOMAIN stack} BY DEF SearchAt
 <2>2. ToSet(done) = ToSet(post) \cup {b}
  <3>1. ToSet(done) \subseteq ToSet(post) \cup {b} BY <1>5, <1>9 DEF ToSet
  <3>2. ToSet(post) \cup {b} \subseteq ToSet(done) BY <1>5, <1>10 DEF ToSet
  <3> QED BY <3>1, <3>2
 <2>3. {stack[i].block : i \in DOMAIN stack} = {st[i].block : i \in DOMAIN st} \cup {b} BY <1>2, <1>3, <1>4, <1>7, <1>8
 <2> QED BY <2>1, <2>2, <2>3
<1>12. \A i, j \in DOMAIN done : done[i] = done[j] => i = j
 <2> SUFFICES ASSUME NEW i \in 1 .. m + 1, NEW j \in 1 .. m + 1, done[i] = done[j] PROVE i = j BY <1>5
 <2>1. \A k \in 1 .. m : post[k] # b
  <3>1. \A k \in DOMAIN post : \A l \in DOMAIN stack : post[k] # stack[l].block BY DEF SearchAt
  <3> QED BY <1>2, <1>3, <1>5, <3>1
 <2>2. \A k, l \in 1 .. m : post[k] = post[l] => k = l BY <1>5 DEF SearchAt
 <2> QED BY <1>5, <1>9, <2>1, <2>2
<1>13. \A i, j \in DOMAIN st : st[i].block = st[j].block => i = j BY <1>2, <1>4, <1>8 DEF SearchAt
<1>14. \A i \in DOMAIN done : \A j \in DOMAIN st : done[i] # st[j].block
 <2> SUFFICES ASSUME NEW i \in 1 .. m + 1, NEW j \in 1 .. n - 1 PROVE done[i] # st[j].block BY <1>4, <1>5
 <2>1. j \in DOMAIN stack /\ st[j].block = stack[j].block /\ j # n /\ n \in DOMAIN stack BY <1>2, <1>3, <1>4, <1>8
 <2>2. CASE i \in 1 .. m
  <3>1. \A k \in DOMAIN post : \A l \in DOMAIN stack : post[k] # stack[l].block BY DEF SearchAt
  <3> QED BY <1>5, <2>1, <2>2, <3>1
 <2>3. CASE i = m + 1
  <3>1. stack[j].block # stack[n].block BY <2>1 DEF SearchAt
  <3> QED BY <1>3, <1>5, <2>1, <2>3, <3>1
 <2> QED BY <1>9, <2>2, <2>3
<1>15. stack[1].block = Entry BY DEF SearchAt
<1>16. IF st = <<>> THEN done # <<>> /\ done[Len(done)] = Entry ELSE st[1].block = Entry
 <2>1. CASE n = 1
  <3>1. b = Entry BY <1>3, <1>15, <2>1
  <3>2. st = <<>>
   <4>1. Len(st) = 0 BY <1>4, <2>1
   <4> QED BY <1>4, <4>1
  <3>3. Len(done) = m + 1 BY <1>5
  <3>4. done # <<>> BY <1>5, <3>3
  <3> QED BY <1>5, <3>1, <3>2, <3>3, <3>4
 <2>2. CASE n # 1
  <3>1. 1 \in 1 .. n - 1 BY <1>2, <2>2
  <3>2. st # <<>>
   <4>1. 1 \in DOMAIN st BY <1>4, <3>1
   <4> QED BY <4>1
  <3> QED BY <1>4, <1>15, <3>1, <3>2
 <2> QED BY <2>1, <2>2
<1>17. ASSUME NEW i \in DOMAIN st, i # 1 PROVE st[i].block \in ToSet(succs[st[i - 1].block])
 <2>1. i \in DOMAIN stack /\ i - 1 \in 1 .. n - 1 /\ i \in 1 .. n - 1 BY <1>2, <1>4, <1>17
 <2>2. stack[i].block \in ToSet(succs[stack[i - 1].block]) BY <1>17, <2>1 DEF SearchAt
 <2> QED BY <1>4, <2>1, <2>2
<1>18. ASSUME NEW i \in DOMAIN st, NEW j \in DOMAIN succs[st[i].block], j < st[i].next
       PROVE  succs[st[i].block][j] \in visited BY <1>2, <1>4, <1>8, <1>18 DEF SearchAt
<1>19. \A c \in ToSet(done) : ToSet(succs[c]) \subseteq visited
 <2> SUFFICES ASSUME NEW i \in 1 .. m + 1 PROVE ToSet(succs[done[i]]) \subseteq visited BY <1>5 DEF ToSet
 <2>1. CASE i \in 1 .. m BY <1>5, <2>1 DEF SearchAt, ToSet
 <2>2. CASE i = m + 1 BY <1>5, <1>6, <2>2
 <2> QED BY <1>9, <2>1, <2>2
<1>20. ASSUME NEW k \in DOMAIN done, done[k] # Entry
       PROVE  \/ \E l \in DOMAIN done : k < l /\ done[k] \in ToSet(succs[done[l]])
              \/ \E i \in DOMAIN st : done[k] \in ToSet(succs[st[i].block])
 <2>1. CASE k \in 1 .. m
  <3>1. \/ \E l \in DOMAIN post : k < l /\ post[k] \in ToSet(succs[post[l]])
        \/ \E i \in DOMAIN stack : post[k] \in ToSet(succs[stack[i].block]) BY <1>5, <1>20, <2>1 DEF SearchAt
  <3>2. CASE \E l \in DOMAIN post : k < l /\ post[k] \in ToSet(succs[post[l]]) BY <1>5, <1>10, <2>1, <3>2
  <3>3. ASSUME NEW i \in 1 .. n, post[k] \in ToSet(succs[stack[i].block])
        PROVE  \/ \E l \in DOMAIN done : k < l /\ done[k] \in ToSet(succs[done[l]])
               \/ \E j \in DOMAIN st : done[k] \in ToSet(succs[st[j].block])
   <4>1. CASE i \in 1 .. n - 1 BY <1>4, <1>5, <2>1, <3>3, <4>1
   <4>2. CASE i = n BY <1>3, <1>5, <1>10, <2>1, <3>3, <4>2
   <4> QED BY <1>7, <4>1, <4>2
  <3> QED BY <1>2, <3>1, <3>2, <3>3
 <2>2. CASE k = m + 1
  <3>1. n # 1 BY <1>3, <1>5, <1>15, <1>20, <2>2
  <3>2. n - 1 \in DOMAIN st /\ n \in DOMAIN stack BY <1>2, <1>3, <1>4, <3>1
  <3>3. stack[n].block \in ToSet(succs[stack[n - 1].block]) BY <3>1, <3>2 DEF SearchAt
  <3> QED BY <1>3, <1>4, <1>5, <2>2, <3>2, <3>3
 <2> QED BY <1>5, <1>9, <2>1, <2>2
<1>21. visited \subseteq Reachable(succs) BY DEF SearchAt
<1>22. SearchAt(st, visited, done) BY <1>4, <1>11, <1>12, <1>13, <1>14, <1>16, <1>17, <1>18, <1>19, <1>20, <1>21 DEF SearchAt
<1> QED BY <1>5, <1>22 DEF st, done, b

(* When the stack is empty everything reachable is in the order. *)
LEMMA SearchEnds == ASSUME GraphInv, post \in Seq(Block), SearchAt(<<>>, visited, post) PROVE OrderUsable
<1>1. IsFlow(succs) BY DEF GraphInv
<1>2. PICK n \in Nat : n = Len(post) OBVIOUS
<1>3. /\ DOMAIN post = 1 .. n /\ DOMAIN Order = 1 .. n /\ Len(Order) = n
      /\ \A i \in 1 .. n : Order[i] = post[(n - i) + 1] /\ (n - i) + 1 \in 1 .. n BY <1>2, OrderIs
<1>4. \A i \in 1 .. n : (n - ((n - i) + 1)) + 1 = i OBVIOUS
<1>5. DOMAIN <<>> = {} OBVIOUS
<1>6. visited = ToSet(post)
 <2>1. visited = ToSet(post) \cup {<<>>[i].block : i \in DOMAIN <<>>} BY DEF SearchAt
 <2> QED BY <1>5, <2>1
<1>7. post # <<>> /\ post[n] = Entry /\ n # 0 BY <1>2 DEF SearchAt
<1>8. ToSet(post) = Reachable(succs)
 <2>1. ToSet(post) \subseteq Reachable(succs) /\ \A b \in ToSet(post) : ToSet(succs[b]) \subseteq ToSet(post)
   BY <1>6 DEF SearchAt
 <2>2. Entry \in ToSet(post) BY <1>3, <1>7 DEF ToSet
 <2>3. ToSet(post) \in SUBSET Block BY ElementType DEF ToSet
 <2> QED BY <1>1, <2>1, <2>2, <2>3, ReachableInside
<1>9. ToSet(Order) = ToSet(post)
 <2>1. \A i \in DOMAIN Order : Order[i] \in ToSet(post) BY <1>3 DEF ToSet
 <2>2. ASSUME NEW i \in 1 .. n PROVE post[i] \in ToSet(Order)
  <3>1. Order[(n - i) + 1] = post[i] /\ (n - i) + 1 \in DOMAIN Order BY <1>3, <1>4
  <3> QED BY <3>1 DEF ToSet
 <2> QED BY <1>3, <2>1, <2>2 DEF ToSet
<1>10. \A i, j \in 1 .. n : post[i] = post[j] => i = j BY <1>3 DEF SearchAt
<1>11. IsInjective(Order)
 <2> SUFFICES ASSUME NEW i \in 1 .. n, NEW j \in 1 .. n, Order[i] = Order[j] PROVE i = j BY <1>3 DEF IsInjective
 <2>1. (n - i) + 1 = (n - j) + 1 BY <1>3, <1>10
 <2> QED BY <2>1
<1>12. Order[1] = Entry
 <2>1. 1 \in 1 .. n /\ (n - 1) + 1 = n BY <1>7
 <2> QED BY <1>3, <1>7, <2>1
<1>13. ASSUME NEW i \in 2 .. n PROVE \E j \in 1 .. i - 1 : Order[j] \in ToSet(preds[Order[i]])
 <2> DEFINE k == (n - i) + 1
 <2>1. k \in 1 .. n /\ k # n /\ i \in 1 .. n /\ n \in 1 .. n OBVIOUS
 <2>2. Order[i] = post[k] /\ post[k] # Entry BY <1>3, <1>7, <1>10, <2>1
 <2> HIDE DEF k
 <2>3. PICK m \in 1 .. n : k < m /\ post[k] \in ToSet(succs[post[m]])
  <3>1. \/ \E m \in DOMAIN post : k < m /\ post[k] \in ToSet(succs[post[m]])
        \/ \E l \in DOMAIN <<>> : post[k] \in ToSet(succs[<<>>[l].block]) BY <1>3, <2>1, <2>2 DEF SearchAt
  <3> QED BY <1>3, <1>5, <3>1
 <2>4. (n - m) + 1 \in 1 .. i - 1 /\ (n - m) + 1 \in 1 .. n BY <2>3 DEF k
 <2>5. Order[(n - m) + 1] = post[m] BY <1>3, <1>4, <2>4
 <2>6. post[m] \in Block /\ post[k] \in Block BY <1>3, <2>1, ElementType
 <2>7. post[m] \in ToSet(preds[post[k]]) BY <2>3, <2>6, PredecessorFacts
 <2> QED BY <2>2, <2>4, <2>5, <2>7
<1> QED BY <1>3, <1>8, <1>9, <1>11, <1>12, <1>13 DEF OrderUsable

-----------------------------------------------------------------------------
(* What the invariant says of the runs' properties. *)
LEMMA PassesFollow == ASSUME DomInv PROVE PassesSound
<1> SUFFICES ASSUME phase = "iterate" PROVE OrderUsable /\ IdomsPointUp /\ DominatorsKept BY DEF PassesSound
<1>1. OrderInv /\ IterInv /\ TreeSound(Tree) /\ idom \in [Block -> Block \cup {None}] BY DEF DomInv, IterInv, PassAt, OrderInv
<1>2. Tree = [idom EXCEPT ![Entry] = None] /\ \A b \in Block \ {Entry} : Tree[b] = idom[b] BY <1>1 DEF Tree
<1>3. \A b \in Block : InTree(Tree, b) => idom[b] # None BY <1>1, <1>2, BlockFacts DEF InTree, IterInv
<1>4. IdomsPointUp
 <2>1. \A b \in Block \ {Entry} : idom[b] # None => RpoIndex(idom[b]) < RpoIndex(b) BY <1>1, <1>2 DEF TreeSound
 <2>2. CASE position <= Len(Order)
  <3>1. ScanAt(Tree, Order[position], todo, new_idom, fingers) BY <1>1, <2>2 DEF IterInv, PassAt
  <3>2. CASE fingers = <<>> BY <2>1, <3>2 DEF IdomsPointUp
  <3>3. CASE fingers # <<>>
   <4>1. fingers \in Block \X Block /\ InTree(Tree, fingers[1]) /\ InTree(Tree, fingers[2]) BY <3>1, <3>3 DEF ScanAt, Candidate
   <4>2. DOMAIN fingers = {1, 2} /\ fingers[1] \in Block /\ fingers[2] \in Block BY <4>1
   <4> QED BY <1>3, <2>1, <4>1, <4>2 DEF IdomsPointUp
  <3> QED BY <3>2, <3>3
 <2>3. CASE ~(position <= Len(Order))
  <3>1. fingers = <<>> BY <1>1, <2>3 DEF IterInv, PassAt
  <3> QED BY <2>1, <3>1 DEF IdomsPointUp
 <2> QED BY <2>2, <2>3
<1>5. DominatorsKept
 <2>1. \A b \in Block \ {Entry} : idom[b] # None => InTree(Tree, b) BY <1>2 DEF InTree
 <2>2. \A b \in Block \ {Entry} : idom[b] # None =>
         \A d \in Dominators(succs, b) : TreeDominates(Tree, d, b) BY <1>1, <2>1, SoundKeeps
 <2> QED BY <2>2 DEF DominatorsKept, Tree
<1> QED BY <1>1, <1>4, <1>5 DEF OrderInv

LEMMA ResultFollows == ASSUME DomInv PROVE ResultIsDominatorTree
<1> SUFFICES ASSUME Done
             PROVE  /\ \A b \in Block :
                         idom[b] = IF b \in Reachable(succs) \ {Entry}
                                   THEN ImmediateDominator(succs, b) ELSE None
                    /\ \A b \in Reachable(succs) :
                         /\ \A d \in Block : TreeDominates(idom, d, b) <=> d \in Dominators(succs, b)
                         /\ IsFrontier(succs, b, Frontiers(succs, idom)[b]) BY DEF ResultIsDominatorTree
<1>1. OrderInv /\ FinalInv /\ TreeSound(idom) BY DEF DomInv, OrderInv, Done, FinalInv
<1>2. ASSUME NEW b \in Block, b \notin Reachable(succs) \ {Entry} PROVE idom[b] = None BY <1>1, <1>2 DEF TreeSound
<1> QED BY <1>1, <1>2, AncestorsDominate, ImmediateDominatorFound, FrontiersExact

-----------------------------------------------------------------------------
(* The steps. *)
LEMMA GraphStarts == ASSUME NEW g, IsFlow(g), succs = g, preds = NewGraph(succs, N).preds PROVE GraphInv
<1>1. \A b \in Block : preds[b] = PredecessorList(g, N, b) BY DEF NewGraph, Block
<1>2. preds \in [Block -> Seq(Block)]
 <2>1. preds = [s \in Block |-> PredecessorList(g, N, s)] BY DEF NewGraph, Block
 <2> QED BY <2>1, PredecessorsOf
<1> QED BY <1>1, <1>2, PredecessorsOf DEF GraphInv

LEMMA DomInit == Init => DomInv
<1> SUFFICES ASSUME Init PROVE DomInv OBVIOUS
<1>1. PICK f \in Functions : DominatorsInit(f.succs) BY DEF Init
<1>2. IsFlow(f.succs) BY FunctionsAssumption DEF IsFlow
<1>3. /\ succs = f.succs /\ preds = NewGraph(succs, N).preds /\ phase = "search"
      /\ stack = <<[block |-> Entry, next |-> 1]>> /\ visited = {Entry} /\ post = <<>>
      /\ idom = [b \in Block |-> None] /\ new_idom = None /\ fingers = <<>> BY <1>1 DEF DominatorsInit
<1>4. GraphInv /\ IsFlow(succs) BY <1>2, <1>3, GraphStarts
<1>5. SearchInv BY <1>3, <1>4, SearchStarts DEF SearchInv
<1>6. post \in Seq(Block) BY <1>3
<1> QED BY <1>3, <1>4, <1>5, <1>6 DEF DomInv

(* What depends on nothing but the graph and the order. *)
LEMMA OrderUnchanged ==
  ASSUME UNCHANGED <<graph, post>>
  PROVE  /\ GraphInv' <=> GraphInv
         /\ OrderUsable' <=> OrderUsable
         /\ Order' = Order
         /\ \A b : RpoIndex(b)' = RpoIndex(b)
         /\ \A b : Strict(b)' = Strict(b)
<1>1. succs' = succs /\ preds' = preds /\ post' = post BY DEF graph
<1>2. Order' = Order BY <1>1 DEF Order
<1> QED BY <1>1, <1>2 DEF GraphInv, OrderUsable, RpoIndex, Strict

LEMMA SearchReached ==
  ASSUME succs' = succs, NEW st, NEW seen, NEW done, SearchAt(st, seen, done),
         stack' = st, visited' = seen, post' = done
  PROVE  SearchInv'
BY DEF SearchInv, SearchAt

LEMMA PassReached ==
  ASSUME UNCHANGED <<graph, post>>,
         NEW t, NEW i, NEW ch, NEW rest, NEW new, NEW f, PassAt(t, i, ch, rest, new, f),
         Tree' = t, position' = i, changed' = ch, todo' = rest, new_idom' = new, fingers' = f,
         idom' \in [Block -> Block \cup {None}], idom'[Entry] = Entry
  PROVE  IterInv'
<1>1. succs' = succs /\ preds' = preds BY DEF graph
<1>2. TreeSound(t)' <=> TreeSound(t) BY <1>1, OrderUnchanged DEF TreeSound
<1>3. TreeSound(Tree)' <=> TreeSound(t)' BY DEF TreeSound, InTree
<1>4. \A k : InTree(Tree, k)' <=> InTree(t, k) BY DEF InTree
<1>5. \A k : Settled(Tree, k)' <=> Settled(t, k) BY <1>1 DEF Settled, InTree
<1>6. ScanAt(Tree, Order[position], todo, new_idom, fingers)' <=> ScanAt(t, Order[i], rest, new, f)
  BY <1>1, OrderUnchanged DEF ScanAt, Candidate, Folded, InTree
<1>7. Order' = Order BY OrderUnchanged
<1>8. PassAt(Tree, position, changed, todo, new_idom, fingers)' BY <1>2, <1>3, <1>4, <1>5, <1>6, <1>7 DEF PassAt
<1> QED BY <1>8 DEF IterInv

LEMMA DomVisit == ASSUME DomInv, Visit PROVE DomInv'
<1> DEFINE s == succs[Top.block][Top.next]
           st == IF s \in visited THEN Advanced ELSE Append(Advanced, [block |-> s, next |-> 1])
<1>1. /\ stack # <<>> /\ Top.next <= Len(succs[Top.block])
      /\ visited' = visited \cup {s} /\ stack' = st
      /\ UNCHANGED <<graph, phase, post, idom, changed, scan>> BY DEF Visit, Advanced
<1>2. /\ UNCHANGED <<graph, post>> /\ succs' = succs
      /\ phase' = phase /\ post' = post /\ idom' = idom /\ new_idom' = new_idom /\ fingers' = fingers BY <1>1 DEF graph, scan
<1>3. GraphInv /\ IsFlow(succs) /\ phase = "search" /\ SearchAt(stack, visited, post) /\ post \in Seq(Block)
  BY <1>1 DEF DomInv, GraphInv, SearchInv
<1>4. SearchAt(stack', visited', post')
 <2>1. CASE s \in visited
  <3>1. visited' = visited /\ stack' = Advanced BY <1>1, <2>1
  <3> QED BY <1>1, <1>2, <1>3, <2>1, <3>1, VisitSeen
 <2>2. CASE s \notin visited
  <3>1. visited' = visited \cup {s} /\ stack' = Append(Advanced, [block |-> s, next |-> 1]) BY <1>1, <2>2
  <3> QED BY <1>1, <1>2, <1>3, <2>2, <3>1, VisitNew
 <2> QED BY <2>1, <2>2
<1>5. SearchInv' BY <1>2, <1>4, SearchReached
<1>6. GraphInv' BY <1>2, <1>3, OrderUnchanged
<1> QED BY <1>2, <1>3, <1>5, <1>6 DEF DomInv

LEMMA DomLeave == ASSUME DomInv, Leave PROVE DomInv'
<1>1. /\ stack # <<>> /\ Top.next > Len(succs[Top.block])
      /\ post' = Append(post, Top.block) /\ stack' = Front(stack)
      /\ UNCHANGED <<graph, phase, visited, idom, changed, scan>> BY DEF Leave
<1>2. /\ succs' = succs /\ preds' = preds /\ phase' = phase /\ visited' = visited
      /\ idom' = idom /\ new_idom' = new_idom /\ fingers' = fingers BY <1>1 DEF graph, scan
<1>3. GraphInv /\ IsFlow(succs) /\ phase = "search" /\ SearchAt(stack, visited, post) /\ post \in Seq(Block)
  BY <1>1 DEF DomInv, GraphInv, SearchInv
<1>4. SearchAt(stack', visited', post') /\ post' \in Seq(Block) BY <1>1, <1>2, <1>3, LeaveSearch
<1>5. SearchInv' BY <1>2, <1>4, SearchReached
<1>6. GraphInv' BY <1>2, <1>3 DEF GraphInv
<1> QED BY <1>2, <1>3, <1>4, <1>5, <1>6 DEF DomInv

-----------------------------------------------------------------------------
(* The passes. *)
LEMMA ScanStarts ==
  ASSUME OrderInv, NEW t, NEW i \in DOMAIN Order PROVE ScanAt(t, Order[i], preds[Order[i]], None, <<>>)
<1>1. Order[i] \in Block BY OrderFacts, DominanceFacts DEF OrderInv, GraphInv
<1>2. preds[Order[i]] \in Seq(Block) BY <1>1, PredecessorFacts DEF OrderInv
<1> QED BY <1>2 DEF ScanAt

LEMMA PassStarts ==
  ASSUME OrderInv, NEW t, TreeSound(t)
  PROVE  PassAt(t, 2, FALSE, IF Len(Order) < 2 THEN <<>> ELSE preds[Order[2]], None, <<>>)
<1>1. Len(Order) \in Nat /\ DOMAIN Order = 1 .. Len(Order) /\ Order[1] = Entry BY OrderFacts
<1>2. \A k \in DOMAIN Order : k < 2 => k = 1 BY <1>1
<1>3. \A k \in DOMAIN Order : k < 2 => InTree(t, Order[k]) BY <1>1, <1>2 DEF InTree
<1>4. \A k \in DOMAIN Order : ~(1 < k /\ k < 2) BY <1>2
<1>5. 2 <= Len(Order) => ScanAt(t, Order[2], preds[Order[2]], None, <<>>)
 <2>1. 2 <= Len(Order) => 2 \in DOMAIN Order BY <1>1
 <2> QED BY <2>1, ScanStarts
<1>6. 2 <= Len(Order) <=> ~(Len(Order) < 2) BY <1>1
<1> QED BY <1>3, <1>4, <1>5, <1>6 DEF PassAt

LEMMA EmptyTreeSound ==
  TreeSound([b \in Block |-> None])
BY BlockFacts DEF TreeSound

LEMMA DomStartPass == ASSUME DomInv, StartPass PROVE DomInv'
<1> DEFINE rest == IF Len(Order) < 2 THEN <<>> ELSE preds[Order[2]]
<1>1. /\ (phase = "search" /\ stack = <<>>) \/ (phase = "iterate" /\ position > Len(Order))
      /\ phase' = "iterate" /\ idom' = [idom EXCEPT ![Entry] = Entry]
      /\ changed' = FALSE /\ position' = 2 /\ todo' = rest
      /\ UNCHANGED <<graph, search, new_idom, fingers>> BY DEF StartPass
<1>2. /\ UNCHANGED <<graph, post>> /\ succs' = succs /\ stack' = stack /\ post' = post
      /\ new_idom' = new_idom /\ fingers' = fingers BY <1>1 DEF graph, search
<1>3. OrderInv /\ stack = <<>>
 <2>1. CASE phase = "search"
  <3>1. GraphInv /\ post \in Seq(Block) /\ stack = <<>> /\ SearchAt(<<>>, visited, post) BY <1>1, <2>1 DEF DomInv, SearchInv
  <3> QED BY <3>1, SearchEnds DEF OrderInv
 <2>2. CASE phase = "iterate" BY <2>2 DEF DomInv, OrderInv
 <2> QED BY <1>1, <2>1, <2>2
<1>4. \E t : /\ TreeSound(t) /\ Tree' = t /\ new_idom = None /\ fingers = <<>>
             /\ idom' \in [Block -> Block \cup {None}] /\ idom'[Entry] = Entry
 <2>1. CASE phase = "search"
  <3>1. idom = [b \in Block |-> None] /\ new_idom = None /\ fingers = <<>> BY <2>1 DEF DomInv
  <3>2. idom' = [b \in Block |-> IF b = Entry THEN Entry ELSE None] BY <1>1, <3>1
  <3>3. Tree' = [b \in Block |-> None] BY <3>2 DEF Tree
  <3> QED BY <3>1, <3>2, <3>3, EmptyTreeSound, BlockFacts
 <2>2. CASE phase = "iterate" /\ position > Len(Order)
  <3>1. IterInv BY <2>2 DEF DomInv
  <3>2. ~(position <= Len(Order))
   <4>1. Len(Order) \in Nat /\ position \in Nat BY <1>3, <3>1, OrderFacts DEF IterInv, PassAt
   <4> QED BY <2>2, <4>1
  <3>3. TreeSound(Tree) /\ new_idom = None /\ fingers = <<>> BY <3>1, <3>2 DEF IterInv, PassAt
  <3>4. idom \in [Block -> Block \cup {None}] /\ idom[Entry] = Entry BY <3>1 DEF IterInv
  <3>5. idom' = idom BY <1>1, <3>4
  <3>6. Tree' = Tree BY <3>5 DEF Tree
  <3> QED BY <3>3, <3>4, <3>5, <3>6
 <2> QED BY <1>1, <2>1, <2>2
<1>5. PICK t : /\ TreeSound(t) /\ Tree' = t /\ new_idom = None /\ fingers = <<>>
               /\ idom' \in [Block -> Block \cup {None}] /\ idom'[Entry] = Entry BY <1>4
<1>6. PassAt(t, 2, FALSE, rest, None, <<>>) BY <1>3, <1>5, PassStarts
<1>7. IterInv'
 <2> HIDE DEF rest
 <2> QED BY <1>1, <1>2, <1>5, <1>6, PassReached
<1>8. GraphInv' /\ OrderUsable' /\ post' \in Seq(Block) BY <1>2, <1>3, OrderUnchanged DEF OrderInv
<1> QED BY <1>1, <1>2, <1>3, <1>7, <1>8 DEF DomInv

(* Taking the next predecessor. *)
LEMMA PredecessorTaken ==
  ASSUME OrderInv, NEW t, TreeSound(t), NEW b \in Reachable(succs),
         NEW rest, NEW new, ScanAt(t, b, rest, new, <<>>), rest # <<>>
  PROVE  /\ ~InTree(t, Head(rest)) => ScanAt(t, b, Tail(rest), new, <<>>)
         /\ InTree(t, Head(rest)) /\ new = None => ScanAt(t, b, Tail(rest), Head(rest), <<>>)
         /\ InTree(t, Head(rest)) /\ new # None => ScanAt(t, b, Tail(rest), new, <<Head(rest), new>>)
<1> DEFINE p == Head(rest)
           left == Tail(rest)
<1>1. IsFlow(succs) /\ GraphInv /\ IsTree(t, Rank) /\ b \in Block BY SoundIsTree, DominanceFacts DEF OrderInv, GraphInv
<1>2. rest \in Seq(Block) /\ ToSet(rest) \subseteq ToSet(preds[b]) BY DEF ScanAt
<1>3. left \in Seq(Block) /\ \A q : q \in ToSet(rest) <=> q = p \/ q \in ToSet(left)
 <2>1. left \in Seq(Block) BY <1>2, TailFacts
 <2>2. \A q : (\E k \in DOMAIN rest : rest[k] = q)
                <=> (q = p \/ \E k \in DOMAIN left : left[k] = q) BY <1>2, TailSplits
 <2> QED BY <2>1, <2>2 DEF ToSet
<1> HIDE DEF p, left
<1>4. p \in ToSet(preds[b]) /\ p \in Block /\ Strict(b) \subseteq Dominators(succs, p)
 <2>1. p \in ToSet(preds[b]) BY <1>2, <1>3
 <2>2. p \in Block /\ b \in ToSet(succs[p]) BY <1>1, <2>1, PredecessorFacts
 <2> QED BY <1>1, <2>1, <2>2, DominanceFacts
<1>5. ToSet(left) \subseteq ToSet(preds[b]) BY <1>2, <1>3
<1>6. \A q \in ToSet(preds[b]) \ ToSet(left) : q = p \/ q \notin ToSet(rest) BY <1>3
<1>7. \A q \in ToSet(preds[b]) \ ToSet(rest) : InTree(t, q) => new # None /\ TreeDominates(t, new, q) BY DEF ScanAt, Folded
<1>8. new # None => Candidate(t, b, new) BY DEF ScanAt
<1>9. InTree(t, p) => Candidate(t, b, p) BY <1>4 DEF Candidate
<1>10. TreeDominates(t, p, p) /\ \A x \in Block : TreeDominates(t, x, x) BY <1>1, <1>4, AncestorRule
<1>11. ASSUME ~InTree(t, p) PROVE ScanAt(t, b, left, new, <<>>) BY <1>3, <1>5, <1>6, <1>7, <1>8, <1>11 DEF ScanAt, Folded
<1>12. ASSUME InTree(t, p), new = None PROVE ScanAt(t, b, left, p, <<>>)
 <2>1. p # None BY <1>4, BlockFacts
 <2>2. \A q \in ToSet(preds[b]) \ ToSet(left) : InTree(t, q) => Folded(t, p, <<>>, q)
   BY <1>6, <1>7, <1>10, <1>12, <2>1 DEF Folded
 <2> QED BY <1>3, <1>5, <1>9, <1>12, <2>2 DEF ScanAt
<1>13. ASSUME InTree(t, p), new # None PROVE ScanAt(t, b, left, new, <<p, new>>)
 <2> DEFINE f == <<p, new>>
 <2>1. f # <<>> /\ f[1] = p /\ f[2] = new OBVIOUS
 <2>2. new \in Block BY <1>8, <1>13 DEF Candidate
 <2>3. f \in Block \X Block BY <1>4, <2>2
 <2> HIDE DEF f
 <2>4. \A q \in ToSet(preds[b]) \ ToSet(left) : InTree(t, q) => Folded(t, new, f, q)
   BY <1>6, <1>7, <1>10, <1>13, <2>1 DEF Folded
 <2>5. Candidate(t, b, f[1]) /\ Candidate(t, b, f[2]) /\ TreeDominates(t, f[2], new) BY <1>8, <1>9, <1>10, <1>13, <2>1, <2>2
 <2>6. ScanAt(t, b, left, new, f) BY <1>3, <1>5, <1>8, <1>13, <2>1, <2>3, <2>4, <2>5 DEF ScanAt
 <2> QED BY <2>6 DEF f
<1> QED BY <1>11, <1>12, <1>13 DEF p, left

(* A finger that walks up stays below nothing that dominates b. *)
LEMMA WalkCandidate ==
  ASSUME OrderInv, NEW t, TreeSound(t), NEW b, NEW x, NEW y,
         Candidate(t, b, x), Candidate(t, b, y), RpoIndex(x) > RpoIndex(y)
  PROVE  x # Entry /\ Candidate(t, b, t[x]) /\ TreeDominates(t, t[x], x)
<1>1. IsFlow(succs) /\ IsTree(t, Rank) BY SoundIsTree DEF OrderInv, GraphInv
<1>2. x \in Block /\ y \in Block /\ InTree(t, x) /\ InTree(t, y) BY DEF Candidate
<1>3. RpoIndex(x) \in Nat /\ RpoIndex(y) \in Nat /\ RpoIndex(y) > 0 /\ RpoIndex(Entry) = 1 BY <1>2, OrderFacts
<1>4. x # Entry BY <1>3
<1>5. t[x] # None BY <1>2, <1>4 DEF InTree
<1>6. t[x] \in Block /\ InTree(t, t[x]) /\ Strict(x) \subseteq Dominators(succs, t[x]) BY <1>2, <1>5 DEF TreeSound
<1>7. y \in Reachable(succs) BY <1>1, <1>2, DominanceFacts DEF InTree, TreeSound
<1>8. ASSUME NEW d \in Strict(b) PROVE d \in Dominators(succs, t[x])
 <2>1. d \in Dominators(succs, x) /\ d \in Dominators(succs, y) BY <1>8 DEF Candidate
 <2>2. RpoIndex(d) <= RpoIndex(y) BY <1>7, <2>1, DominatorsEarlier
 <2>3. d \in Block BY <1>1, <1>2, <2>1, DominanceFacts
 <2>4. RpoIndex(d) \in Nat BY <2>3, OrderFacts
 <2>5. d # x BY <1>3, <2>2, <2>4
 <2> QED BY <1>6, <2>1, <2>5 DEF Strict
<1>9. TreeDominates(t, t[x], x) BY <1>1, <1>2, <1>5, <1>6, AncestorRule
<1> QED BY <1>4, <1>6, <1>8, <1>9 DEF Candidate

LEMMA FirstWalks ==
  ASSUME OrderInv, NEW t, TreeSound(t), NEW b, b \in Block, NEW rest, NEW new, NEW f,
         ScanAt(t, b, rest, new, f), f # <<>>, RpoIndex(f[1]) > RpoIndex(f[2])
  PROVE  f[1] # Entry /\ ScanAt(t, b, rest, new, <<t[f[1]], f[2]>>)
<1> DEFINE x == f[1]
           h == <<t[x], f[2]>>
<1>1. Candidate(t, b, f[1]) /\ Candidate(t, b, f[2]) /\ new # None /\ TreeDominates(t, f[2], new) BY DEF ScanAt
<1>2. x # Entry /\ Candidate(t, b, t[x]) /\ TreeDominates(t, t[x], x) BY <1>1, WalkCandidate
<1>3. IsTree(t, Rank) /\ GraphInv BY SoundIsTree DEF OrderInv
<1>4. h # <<>> /\ h[1] = t[x] /\ h[2] = f[2] OBVIOUS
<1>5. h \in Block \X Block BY <1>1, <1>2 DEF Candidate
<1> HIDE DEF h, x
<1>6. ASSUME NEW p \in ToSet(preds[b]) \ ToSet(rest), InTree(t, p) PROVE Folded(t, new, h, p)
 <2>1. p \in Block BY <1>3, PredecessorFacts
 <2>2. TreeDominates(t, new, p) \/ TreeDominates(t, x, p) BY <1>6 DEF ScanAt, Folded, x
 <2>3. TreeDominates(t, x, p) => TreeDominates(t, t[x], p) BY <1>2, <1>3, <2>1, AncestorsTransitive
 <2> QED BY <1>1, <1>4, <2>2, <2>3 DEF Folded
<1>7. rest \in Seq(Block) /\ ToSet(rest) \subseteq ToSet(preds[b]) /\ (new # None => Candidate(t, b, new)) BY DEF ScanAt
<1>8. ScanAt(t, b, rest, new, h) BY <1>1, <1>2, <1>4, <1>5, <1>6, <1>7 DEF ScanAt
<1> QED BY <1>2, <1>8 DEF h, x

LEMMA SecondWalks ==
  ASSUME OrderInv, NEW t, TreeSound(t), NEW b, b \in Block, NEW rest, NEW new, NEW f,
         ScanAt(t, b, rest, new, f), f # <<>>, RpoIndex(f[2]) > RpoIndex(f[1])
  PROVE  f[2] # Entry /\ ScanAt(t, b, rest, new, <<f[1], t[f[2]]>>)
<1> DEFINE x == f[2]
           h == <<f[1], t[x]>>
<1>1. Candidate(t, b, f[1]) /\ Candidate(t, b, f[2]) /\ new # None /\ TreeDominates(t, f[2], new) BY DEF ScanAt
<1>2. x # Entry /\ Candidate(t, b, t[x]) /\ TreeDominates(t, t[x], x) BY <1>1, WalkCandidate
<1>3. IsTree(t, Rank) /\ GraphInv BY SoundIsTree DEF OrderInv
<1>4. h # <<>> /\ h[1] = f[1] /\ h[2] = t[x] OBVIOUS
<1>5. h \in Block \X Block BY <1>1, <1>2 DEF Candidate
<1> HIDE DEF h, x
<1>6. ASSUME NEW p \in ToSet(preds[b]) \ ToSet(rest), InTree(t, p) PROVE Folded(t, new, h, p)
  BY <1>1, <1>4, <1>6 DEF ScanAt, Folded
<1>7. rest \in Seq(Block) /\ ToSet(rest) \subseteq ToSet(preds[b]) /\ (new # None => Candidate(t, b, new)) BY DEF ScanAt
<1>8. TreeDominates(t, t[x], new)
 <2>1. new \in Block BY <1>1, <1>7 DEF Candidate
 <2> QED BY <1>1, <1>2, <1>3, <2>1, AncestorsTransitive DEF x
<1>9. ScanAt(t, b, rest, new, h) BY <1>1, <1>2, <1>4, <1>5, <1>6, <1>7, <1>8 DEF ScanAt
<1> QED BY <1>2, <1>9 DEF h, x

LEMMA FingersMeet ==
  ASSUME OrderInv, NEW t, TreeSound(t), NEW b, b \in Block, NEW rest, NEW new, NEW f,
         ScanAt(t, b, rest, new, f), f # <<>>, f[1] = f[2]
  PROVE  ScanAt(t, b, rest, f[1], <<>>)
<1>1. Candidate(t, b, f[1]) /\ new # None /\ TreeDominates(t, f[1], new) BY DEF ScanAt
<1>2. IsTree(t, Rank) /\ GraphInv /\ f[1] # None BY <1>1, SoundIsTree, BlockFacts DEF OrderInv, Candidate
<1>3. ASSUME NEW p \in ToSet(preds[b]) \ ToSet(rest), InTree(t, p) PROVE Folded(t, f[1], <<>>, p)
 <2>1. p \in Block BY <1>2, PredecessorFacts
 <2>2. TreeDominates(t, new, p) \/ TreeDominates(t, f[1], p) BY <1>3 DEF ScanAt, Folded
 <2>3. TreeDominates(t, new, p) => TreeDominates(t, f[1], p) BY <1>1, <1>2, <2>1, AncestorsTransitive
 <2> QED BY <1>2, <2>2, <2>3 DEF Folded
<1>4. rest \in Seq(Block) /\ ToSet(rest) \subseteq ToSet(preds[b]) BY DEF ScanAt
<1> QED BY <1>1, <1>3, <1>4 DEF ScanAt

(* All predecessors are folded in: one is behind b in the order, so `new_idom`
   is, and the tree with it for b is sound. *)
LEMMA BlockCommitted ==
  ASSUME OrderInv, NEW t, NEW i, NEW ch, NEW new, PassAt(t, i, ch, <<>>, new, <<>>), i <= Len(Order)
  PROVE  /\ i \in DOMAIN Order /\ Order[i] \in Block \ {Entry}
         /\ new \in Block
         /\ TreeSound([t EXCEPT ![Order[i]] = new])
         /\ \A k \in DOMAIN Order : k < i + 1 => InTree([t EXCEPT ![Order[i]] = new], Order[k])
         /\ t[Order[i]] = new => Settled(t, Order[i])
<1> DEFINE b == Order[i]
           u == [t EXCEPT ![b] = new]
<1>1. /\ TreeSound(t) /\ i \in Nat /\ i > 1 /\ ScanAt(t, b, <<>>, new, <<>>)
      /\ \A k \in DOMAIN Order : k < i => InTree(t, Order[k]) BY DEF PassAt
<1>2. IsTree(t, Rank) /\ GraphInv /\ IsFlow(succs) BY <1>1, SoundIsTree DEF OrderInv, GraphInv
<1>3. i \in DOMAIN Order BY <1>1, OrderFacts
<1>4. b \in Reachable(succs) /\ b \in Block /\ b # Entry /\ RpoIndex(b) = i BY <1>1, <1>2, <1>3, OrderFacts, DominanceFacts
<1>5. \A p \in ToSet(preds[b]) : InTree(t, p) => new # None /\ TreeDominates(t, new, p)
 <2>1. ToSet(<<>>) = {} BY DEF ToSet
 <2> QED BY <1>1, <2>1 DEF ScanAt, Folded
<1>6. PICK j \in DOMAIN Order : j < i /\ Order[j] \in ToSet(preds[b]) BY <1>1, <1>3, EarlierPredecessor
<1>7. new # None /\ TreeDominates(t, new, Order[j]) BY <1>1, <1>5, <1>6
<1>8. new \in Block /\ InTree(t, new) /\ Strict(b) \subseteq Dominators(succs, new) BY <1>1, <1>7 DEF ScanAt, Candidate
<1>9. RpoIndex(new) < RpoIndex(b)
 <2>1. Order[j] \in Block /\ RpoIndex(Order[j]) = j /\ j \in Nat BY <1>2, OrderFacts, DominanceFacts
 <2>2. new = Order[j] \/ Rank[new] < Rank[Order[j]] BY <1>2, <1>7, <2>1, AncestorEarlier
 <2>3. new = Order[j] \/ RpoIndex(new) < j BY <1>8, <2>1, <2>2 DEF Rank
 <2>4. RpoIndex(new) \in Nat BY <1>8, OrderFacts
 <2> QED BY <1>1, <1>4, <1>6, <2>1, <2>3, <2>4
<1>10. t \in [Block -> Block \cup {None}] /\ t[Entry] = None BY <1>1 DEF TreeSound
<1> HIDE DEF b
<1>11. u \in [Block -> Block \cup {None}] /\ u[b] = new /\ \A c \in Block : c # b => u[c] = t[c] BY <1>4, <1>8, <1>10
<1> HIDE DEF u
<1>12. \A c \in Block : InTree(t, c) => InTree(u, c) BY <1>7, <1>11 DEF InTree
<1>13. TreeSound(u)
 <2>1. u[Entry] = None BY <1>4, <1>10, <1>11, BlockFacts
 <2>2. ASSUME NEW c \in Block, u[c] # None
       PROVE  /\ c \in Reachable(succs) /\ InTree(u, u[c]) /\ RpoIndex(u[c]) < RpoIndex(c)
              /\ Strict(c) \subseteq Dominators(succs, u[c])
  <3>1. CASE c = b BY <1>4, <1>8, <1>9, <1>11, <1>12, <3>1
  <3>2. CASE c # b
   <4>1. u[c] = t[c] /\ t[c] # None /\ t[c] \in Block BY <1>10, <1>11, <2>2, <3>2
   <4>2. /\ c \in Reachable(succs) /\ InTree(t, t[c]) /\ RpoIndex(t[c]) < RpoIndex(c)
         /\ Strict(c) \subseteq Dominators(succs, t[c]) BY <1>1, <4>1 DEF TreeSound
   <4> QED BY <1>12, <4>1, <4>2
  <3> QED BY <3>1, <3>2
 <2> QED BY <1>11, <2>1, <2>2 DEF TreeSound
<1>14. ASSUME NEW k \in DOMAIN Order, k < i + 1 PROVE InTree(u, Order[k])
 <2>1. k \in Nat /\ Order[k] \in Block BY <1>2, OrderFacts, DominanceFacts
 <2>2. CASE k = i BY <1>7, <1>11, <2>2 DEF InTree, b
 <2>3. CASE k # i
  <3>1. k < i BY <1>1, <1>14, <2>1, <2>3
  <3> QED BY <1>1, <1>12, <2>1, <3>1
 <2> QED BY <2>2, <2>3
<1>15. t[b] = new => Settled(t, b) BY <1>5 DEF Settled
<1> QED BY <1>3, <1>4, <1>8, <1>13, <1>14, <1>15 DEF u, b

LEMMA PassContinues ==
  ASSUME OrderInv, NEW t, NEW i, NEW ch, NEW new, PassAt(t, i, ch, <<>>, new, <<>>), i <= Len(Order)
  PROVE  PassAt([t EXCEPT ![Order[i]] = new], i + 1, ch \/ t[Order[i]] # new,
                IF i < Len(Order) THEN preds[Order[i + 1]] ELSE <<>>, None, <<>>)
<1> DEFINE b == Order[i]
           u == [t EXCEPT ![b] = new]
           dh == ch \/ t[b] # new
           rest == IF i < Len(Order) THEN preds[Order[i + 1]] ELSE <<>>
<1>1. /\ i \in DOMAIN Order /\ b \in Block \ {Entry} /\ new \in Block
      /\ TreeSound(u)
      /\ \A k \in DOMAIN Order : k < i + 1 => InTree(u, Order[k])
      /\ t[b] = new => Settled(t, b) BY BlockCommitted
<1>2. i \in Nat /\ i > 1 /\ Len(Order) \in Nat /\ DOMAIN Order = 1 .. Len(Order) BY OrderFacts DEF PassAt
<1>3. ASSUME ~dh, NEW k \in DOMAIN Order, 1 < k, k < i + 1 PROVE Settled(u, Order[k])
 <2>1. t[b] = new /\ ~ch BY <1>3
 <2>2. t \in [Block -> Block \cup {None}] BY DEF PassAt, TreeSound
 <2>3. u = t BY <1>1, <2>1, <2>2
 <2>4. CASE k = i BY <1>1, <2>1, <2>3, <2>4
 <2>5. CASE k # i
  <3>1. k < i BY <1>2, <1>3, <2>5
  <3>2. Settled(t, Order[k]) BY <1>3, <2>1, <3>1 DEF PassAt
  <3> QED BY <2>3, <3>2
 <2> QED BY <2>4, <2>5
<1>4. i + 1 <= Len(Order) => ScanAt(u, Order[i + 1], rest, None, <<>>)
 <2>1. i + 1 <= Len(Order) => i + 1 \in DOMAIN Order /\ i < Len(Order) BY <1>2
 <2> QED BY <2>1, ScanStarts
<1>5. i + 1 \in Nat /\ i + 1 > 1 BY <1>2
<1> HIDE DEF u, dh, rest
<1>6. PassAt(u, i + 1, dh, rest, None, <<>>) BY <1>1, <1>3, <1>4, <1>5 DEF PassAt
<1> QED BY <1>6 DEF u, dh, rest, b

(* A pass that changed nothing leaves everything settled. *)
LEMMA PassEnds ==
  ASSUME OrderInv, IterInv, position > Len(Order), ~changed
  PROVE  /\ TreeSound(Tree)
         /\ \A b \in Reachable(succs) : InTree(Tree, b)
         /\ \A b \in Reachable(succs) \ {Entry} : Settled(Tree, b)
<1>1. PassAt(Tree, position, changed, todo, new_idom, fingers) BY DEF IterInv
<1>2. position \in Nat /\ Len(Order) \in Nat /\ DOMAIN Order = 1 .. Len(Order) BY <1>1, OrderFacts DEF PassAt
<1>3. ASSUME NEW b \in Reachable(succs)
      PROVE  RpoIndex(b) \in DOMAIN Order /\ RpoIndex(b) < position /\ Order[RpoIndex(b)] = b
 <2>1. RpoIndex(b) \in DOMAIN Order /\ Order[RpoIndex(b)] = b BY OrderFacts
 <2> QED BY <1>2, <2>1
<1>4. \A b \in Reachable(succs) : InTree(Tree, b) BY <1>1, <1>3 DEF PassAt
<1>5. ASSUME NEW b \in Reachable(succs), b # Entry PROVE Settled(Tree, b)
 <2>1. RpoIndex(b) # 1 BY <1>3, <1>5, OrderFacts
 <2>2. 1 < RpoIndex(b) BY <1>2, <1>3, <2>1
 <2> QED BY <1>1, <1>3, <2>2 DEF PassAt
<1>6. TreeSound(Tree) BY <1>1 DEF PassAt
<1> QED BY <1>4, <1>5, <1>6

-----------------------------------------------------------------------------
(* What an action of a pass keeps, if it reaches a state of a pass. *)
LEMMA PassStep == ASSUME DomInv, phase = "iterate", UNCHANGED <<graph, phase, search>>, IterInv' PROVE DomInv'
<1>1. UNCHANGED <<graph, post>> /\ stack' = stack /\ post' = post /\ phase' = phase BY DEF search
<1>2. GraphInv /\ OrderUsable /\ post \in Seq(Block) /\ stack = <<>> BY DEF DomInv
<1>3. GraphInv' /\ OrderUsable' BY <1>1, <1>2, OrderUnchanged
<1> QED BY <1>1, <1>2, <1>3 DEF DomInv

LEMMA PassFacts ==
  ASSUME DomInv, phase = "iterate"
  PROVE  /\ OrderInv /\ IterInv /\ TreeSound(Tree)
         /\ idom \in [Block -> Block \cup {None}] /\ idom[Entry] = Entry
         /\ position \in Nat /\ position > 1 /\ Len(Order) \in Nat
         /\ \A b \in Block : b # Entry => Tree[b] = idom[b]
         /\ \A b \in Block : InTree(Tree, b) <=> idom[b] # None
         /\ position <= Len(Order) =>
              /\ ScanAt(Tree, Order[position], todo, new_idom, fingers)
              /\ Order[position] \in Reachable(succs) /\ Order[position] \in Block
         /\ fingers # <<>> => position <= Len(Order)
<1>1. /\ OrderInv /\ IterInv /\ TreeSound(Tree)
      /\ idom \in [Block -> Block \cup {None}] /\ idom[Entry] = Entry
      /\ PassAt(Tree, position, changed, todo, new_idom, fingers)
      /\ position \in Nat /\ position > 1 BY DEF DomInv, OrderInv, IterInv, PassAt
<1>2. Len(Order) \in Nat /\ DOMAIN Order = 1 .. Len(Order) BY <1>1, OrderFacts
<1>3. \A b \in Block : b # Entry => Tree[b] = idom[b] BY <1>1 DEF Tree
<1>4. \A b \in Block : InTree(Tree, b) <=> idom[b] # None BY <1>1, <1>3, BlockFacts DEF InTree
<1>5. position <= Len(Order) =>
        ScanAt(Tree, Order[position], todo, new_idom, fingers) /\ position \in DOMAIN Order BY <1>1, <1>2 DEF PassAt
<1>6. \A i \in DOMAIN Order : Order[i] \in Reachable(succs) /\ Order[i] \in Block
  BY <1>1, OrderFacts, DominanceFacts DEF OrderInv, GraphInv
<1>7. fingers # <<>> => position <= Len(Order) BY <1>1 DEF PassAt
<1> QED BY <1>1, <1>2, <1>3, <1>4, <1>5, <1>6, <1>7

(* A step inside the visit of one block. *)
LEMMA ScanStep ==
  ASSUME DomInv, phase = "iterate", position <= Len(Order),
         UNCHANGED <<graph, phase, search, idom, changed, position>>,
         ScanAt(Tree, Order[position], todo', new_idom', fingers')
  PROVE  DomInv'
<1>1. PassAt(Tree, position, changed, todo, new_idom, fingers) BY DEF DomInv, IterInv
<1>2. PassAt(Tree, position, changed, todo', new_idom', fingers') BY <1>1 DEF PassAt
<1>3. PICK t, i, ch, rest, new, f :
        /\ t = Tree /\ i = position /\ ch = changed /\ rest = todo' /\ new = new_idom' /\ f = fingers' OBVIOUS
<1>4. PassAt(t, i, ch, rest, new, f) BY <1>2, <1>3
<1>5. UNCHANGED <<graph, post>> BY DEF search
<1>6. Tree' = t BY <1>3 DEF Tree
<1>7. idom' \in [Block -> Block \cup {None}] /\ idom'[Entry] = Entry BY PassFacts
<1>8. IterInv' BY <1>3, <1>4, <1>5, <1>6, <1>7, PassReached
<1> QED BY <1>8, PassStep

LEMMA DomTakePredecessor == ASSUME DomInv, TakePredecessor PROVE DomInv'
<1> DEFINE p == Head(todo)
<1>1. /\ phase = "iterate" /\ position <= Len(Order) /\ todo # <<>> /\ fingers = <<>>
      /\ todo' = Tail(todo)
      /\ new_idom' = IF Processed(p) /\ new_idom = None THEN p ELSE new_idom
      /\ fingers' = IF Processed(p) /\ new_idom # None THEN <<p, new_idom>> ELSE <<>>
      /\ UNCHANGED <<graph, phase, search, idom, changed, position>> BY DEF TakePredecessor, Visiting
<1>2. /\ OrderInv /\ TreeSound(Tree) /\ Order[position] \in Reachable(succs)
      /\ ScanAt(Tree, Order[position], todo, new_idom, <<>>)
      /\ \A b \in Block : InTree(Tree, b) <=> idom[b] # None BY <1>1, PassFacts
<1>3. p \in Block BY <1>1, <1>2, TailFacts DEF ScanAt
<1>4. InTree(Tree, p) <=> Processed(p) BY <1>2, <1>3 DEF Processed
<1>5. ScanAt(Tree, Order[position], todo', new_idom', fingers')
 <2>1. /\ ~InTree(Tree, p) => ScanAt(Tree, Order[position], Tail(todo), new_idom, <<>>)
       /\ InTree(Tree, p) /\ new_idom = None => ScanAt(Tree, Order[position], Tail(todo), p, <<>>)
       /\ InTree(Tree, p) /\ new_idom # None =>
            ScanAt(Tree, Order[position], Tail(todo), new_idom, <<p, new_idom>>) BY <1>1, <1>2, PredecessorTaken
 <2> HIDE DEF p
 <2>2. CASE ~Processed(p) BY <1>1, <1>4, <2>1, <2>2
 <2>3. CASE Processed(p) /\ new_idom = None BY <1>1, <1>4, <2>1, <2>3
 <2>4. CASE Processed(p) /\ new_idom # None BY <1>1, <1>4, <2>1, <2>4
 <2> QED BY <2>2, <2>3, <2>4
<1> QED BY <1>1, <1>5, ScanStep

LEMMA DomWalkUp == ASSUME DomInv, WalkUp PROVE DomInv'
<1> DEFINE b == Order[position]
           f == fingers
<1>1. /\ fingers # <<>>
      /\ UNCHANGED <<graph, phase, search, idom, changed, position, todo, new_idom>>
      /\ \/ WalksUp(f[1], f[2]) /\ fingers' = [f EXCEPT ![1] = idom[@]]
         \/ WalksUp(f[2], f[1]) /\ fingers' = [f EXCEPT ![2] = idom[@]] BY DEF WalkUp
<1>2. phase = "iterate" BY <1>1 DEF DomInv
<1>3. /\ OrderInv /\ TreeSound(Tree) /\ b \in Block /\ position <= Len(Order)
      /\ ScanAt(Tree, b, todo, new_idom, fingers)
      /\ \A c \in Block : c # Entry => Tree[c] = idom[c] BY <1>1, <1>2, PassFacts
<1>4. f \in Block \X Block BY <1>1, <1>3 DEF ScanAt
<1>5. f[1] \in Block /\ f[2] \in Block /\ f = <<f[1], f[2]>> BY <1>4
<1>6. CASE WalksUp(f[1], f[2]) /\ fingers' = [f EXCEPT ![1] = idom[@]]
 <2>1. f[1] # Entry /\ ScanAt(Tree, b, todo, new_idom, <<Tree[f[1]], f[2]>>) BY <1>1, <1>3, <1>6, FirstWalks DEF WalksUp
 <2>2. Tree[f[1]] = idom[f[1]] BY <1>3, <1>5, <2>1
 <2>3. fingers' = <<idom[f[1]], f[2]>> BY <1>4, <1>6
 <2>4. ScanAt(Tree, b, todo', new_idom', fingers') BY <1>1, <2>1, <2>2, <2>3
 <2> QED BY <1>1, <1>2, <1>3, <2>4, ScanStep
<1>7. CASE WalksUp(f[2], f[1]) /\ fingers' = [f EXCEPT ![2] = idom[@]]
 <2>1. f[2] # Entry /\ ScanAt(Tree, b, todo, new_idom, <<f[1], Tree[f[2]]>>) BY <1>1, <1>3, <1>7, SecondWalks DEF WalksUp
 <2>2. Tree[f[2]] = idom[f[2]] BY <1>3, <1>5, <2>1
 <2>3. fingers' = <<f[1], idom[f[2]]>> BY <1>4, <1>7
 <2>4. ScanAt(Tree, b, todo', new_idom', fingers') BY <1>1, <2>1, <2>2, <2>3
 <2> QED BY <1>1, <1>2, <1>3, <2>4, ScanStep
<1> QED BY <1>1, <1>6, <1>7

LEMMA DomMeet == ASSUME DomInv, Meet PROVE DomInv'
<1>1. /\ fingers # <<>> /\ fingers[1] = fingers[2]
      /\ new_idom' = fingers[1] /\ fingers' = <<>>
      /\ UNCHANGED <<graph, phase, search, idom, changed, position, todo>> BY DEF Meet
<1>2. phase = "iterate" BY <1>1 DEF DomInv
<1>3. /\ OrderInv /\ TreeSound(Tree) /\ Order[position] \in Block /\ position <= Len(Order)
      /\ ScanAt(Tree, Order[position], todo, new_idom, fingers) BY <1>1, <1>2, PassFacts
<1>4. ScanAt(Tree, Order[position], todo, fingers[1], <<>>) BY <1>1, <1>3, FingersMeet
<1>5. ScanAt(Tree, Order[position], todo', new_idom', fingers') BY <1>1, <1>4
<1> QED BY <1>1, <1>2, <1>3, <1>5, ScanStep

LEMMA DomCommit == ASSUME DomInv, Commit PROVE DomInv'
<1> DEFINE b == Order[position]
<1>1. /\ phase = "iterate" /\ position <= Len(Order) /\ todo = <<>> /\ fingers = <<>>
      /\ idom' = [idom EXCEPT ![b] = new_idom]
      /\ changed' = (changed \/ Differs(b))
      /\ position' = position + 1
      /\ todo' = IF position < Len(Order) THEN preds[Order[position + 1]] ELSE <<>>
      /\ new_idom' = None
      /\ UNCHANGED <<graph, phase, search, fingers>> BY DEF Commit, Visiting
<1>2. /\ OrderInv /\ PassAt(Tree, position, changed, <<>>, new_idom, <<>>)
      /\ idom \in [Block -> Block \cup {None}] /\ idom[Entry] = Entry
      /\ \A c \in Block : c # Entry => Tree[c] = idom[c] BY <1>1, PassFacts DEF IterInv
<1>3. b \in Block \ {Entry} /\ new_idom \in Block BY <1>1, <1>2, BlockCommitted
<1>4. PassAt([Tree EXCEPT ![b] = new_idom], position + 1, changed \/ Tree[b] # new_idom,
             IF position < Len(Order) THEN preds[Order[position + 1]] ELSE <<>>, None, <<>>) BY <1>1, <1>2, PassContinues
<1> HIDE DEF b
<1>5. Tree' = [Tree EXCEPT ![b] = new_idom] BY <1>1, <1>2, <1>3 DEF Tree
<1>6. Differs(b) <=> Tree[b] # new_idom BY <1>2, <1>3 DEF Differs
<1>7. PassAt(Tree', position', changed', todo', new_idom', fingers')
 <2>1. changed' = (changed \/ Tree[b] # new_idom) BY <1>1, <1>6
 <2>2. fingers' = <<>> /\ new_idom' = None BY <1>1
 <2> QED BY <1>1, <1>4, <1>5, <2>1, <2>2
<1>8. idom' \in [Block -> Block \cup {None}] /\ idom'[Entry] = Entry BY <1>1, <1>2, <1>3
<1>9. PICK t, i, ch, rest, new, f :
        /\ t = Tree' /\ i = position' /\ ch = changed' /\ rest = todo' /\ new = new_idom' /\ f = fingers' OBVIOUS
<1>10. PassAt(t, i, ch, rest, new, f) BY <1>7, <1>9
<1>11. UNCHANGED <<graph, post>> BY <1>1 DEF search
<1>12. IterInv' BY <1>8, <1>9, <1>10, <1>11, PassReached
<1> QED BY <1>1, <1>12, PassStep

LEMMA DomFinish == ASSUME DomInv, FinishDominators PROVE DomInv'
<1>1. /\ phase = "iterate" /\ position > Len(Order) /\ ~changed
      /\ phase' = "done" /\ idom' = Tree
      /\ UNCHANGED <<graph, search, changed, scan>> BY DEF FinishDominators, Tree
<1>2. OrderInv /\ IterInv /\ stack = <<>> BY <1>1, PassFacts DEF DomInv
<1>3. UNCHANGED <<graph, post>> /\ post' = post /\ stack' = stack /\ fingers' = fingers
      /\ succs' = succs /\ preds' = preds BY <1>1 DEF search, scan, graph
<1>4. fingers = <<>> BY <1>1, <1>2, PassFacts DEF IterInv, PassAt
<1>5. /\ TreeSound(Tree)
      /\ \A b \in Reachable(succs) : InTree(Tree, b)
      /\ \A b \in Reachable(succs) \ {Entry} : Settled(Tree, b) BY <1>1, <1>2, PassEnds
<1>6. FinalInv'
 <2>1. TreeSound(idom)'
  <3>1. PICK t : t = idom' OBVIOUS
  <3>2. TreeSound(t) BY <1>1, <1>5, <3>1
  <3>3. TreeSound(t)' BY <1>3, <3>2, OrderUnchanged DEF TreeSound
  <3> QED BY <3>1, <3>3 DEF TreeSound, InTree
 <2>2. \A b \in Reachable(succs') : InTree(idom, b)' BY <1>1, <1>3, <1>5 DEF InTree
 <2>3. \A b \in Reachable(succs') \ {Entry} : Settled(idom, b)' BY <1>1, <1>3, <1>5 DEF Settled, InTree
 <2> QED BY <2>1, <2>2, <2>3 DEF FinalInv
<1>7. GraphInv' /\ OrderUsable' /\ post' \in Seq(Block) BY <1>2, <1>3, OrderUnchanged DEF OrderInv
<1> QED BY <1>1, <1>2, <1>3, <1>4, <1>6, <1>7 DEF DomInv

(* The caller changes nothing of this but the phase. *)
LEMMA DomKept ==
  ASSUME DomInv, UNCHANGED info,
         phase' = phase \/ (phase \notin {"search", "iterate"} /\ phase' \in {"place", "rename", "run"})
  PROVE  DomInv'
<1>1. /\ succs' = succs /\ preds' = preds /\ stack' = stack /\ visited' = visited /\ post' = post
      /\ idom' = idom /\ changed' = changed /\ position' = position /\ todo' = todo
      /\ new_idom' = new_idom /\ fingers' = fingers BY DEF info, graph, search, scan
<1>2. UNCHANGED <<graph, post>> BY <1>1 DEF graph
<1>3. GraphInv' /\ post' \in Seq(Block) /\ (OrderUsable' <=> OrderUsable) BY <1>1, <1>2, OrderUnchanged DEF DomInv
<1>4. FinalInv' <=> FinalInv BY <1>1, <1>2, OrderUnchanged DEF FinalInv, TreeSound, InTree, Settled
<1>5. CASE phase' = phase
 <2>1. phase = "search" => SearchInv' BY <1>1, SearchReached DEF DomInv, SearchInv
 <2>2. phase = "iterate" => IterInv'
  <3>1. PICK t, i, ch, rest, new, f :
          /\ t = Tree' /\ i = position' /\ ch = changed' /\ rest = todo' /\ new = new_idom' /\ f = fingers' OBVIOUS
  <3>2. phase = "iterate" => PassAt(t, i, ch, rest, new, f) /\ idom' \in [Block -> Block \cup {None}]
                               /\ idom'[Entry] = Entry BY <1>1, <3>1 DEF DomInv, IterInv, Tree
  <3> QED BY <1>2, <3>1, <3>2, PassReached
 <2> QED BY <1>1, <1>3, <1>4, <1>5, <2>1, <2>2 DEF DomInv
<1>6. CASE phase \notin {"search", "iterate"} /\ phase' \in {"place", "rename", "run"} BY <1>1, <1>3, <1>4, <1>6 DEF DomInv
<1> QED BY <1>5, <1>6

LEMMA DomStep == DomInv /\ [Next]_vars => DomInv'
<1> SUFFICES ASSUME DomInv, [Next]_vars PROVE DomInv' OBVIOUS
<1>1. CASE ComputeDominators
  BY <1>1, DomVisit, DomLeave, DomStartPass, DomTakePredecessor, DomWalkUp, DomMeet, DomCommit, DomFinish
     DEF ComputeDominators, DominatorsNext
<1>2. CASE UNCHANGED dominatorsVars
 <2>1. UNCHANGED info /\ phase' = phase BY <1>2 DEF dominatorsVars, info
 <2> QED BY <2>1, DomKept
<1>3. CASE ChooseVariables \/ StartRenaming \/ Finish
 <2>1. /\ UNCHANGED info
       /\ phase \notin {"search", "iterate"} /\ phase' \in {"place", "rename", "run"}
   BY <1>3 DEF ChooseVariables, StartRenaming, Finish, Done
 <2> QED BY <2>1, DomKept
<1>4. CASE PlaceVariable \/ PopWorklist \/ ConsiderFrontier
  BY <1>2, <1>4 DEF PlaceVariable, PopWorklist, ConsiderFrontier, function
<1>5. CASE RenameRoot \/ RenameAlloca \/ RenameStore \/ RenameLoad \/ RenameOther
  BY <1>2, <1>5 DEF RenameRoot, RenameAlloca, RenameStore, RenameLoad, RenameOther, function
<1>6. CASE FillSuccessors \/ RenameChild \/ LeaveBlock \/ RunBlock
  BY <1>2, <1>6 DEF FillSuccessors, RenameChild, LeaveBlock, RunBlock, function
<1>7. CASE UNCHANGED vars BY <1>2, <1>7 DEF vars
<1> QED BY <1>1, <1>3, <1>4, <1>5, <1>6, <1>7 DEF Next

-----------------------------------------------------------------------------
(* The dominators of every flow graph, while the pass that asked for them goes
   on. *)
THEOREM DominatorsInvariant == Spec => []DomInv
<1>1. Init => DomInv BY DomInit
<1>2. DomInv /\ [Next]_vars => DomInv' BY DomStep
<1> QED BY <1>1, <1>2, PTL DEF Spec

(* DominatorInfo::compute, in the middle of any pass: the reverse postorder is
   usable, `intersect` walks towards the entry and does not fail, and no update
   loses a dominator. *)
THEOREM NoDominatorLost == Spec => []PassesSound
<1>1. DomInv => PassesSound BY PassesFollow
<1> QED BY <1>1, DominatorsInvariant, PTL

(* What DominatorInfo::compute returns: the immediate dominators, none for
   unreachable blocks, `dominates` as dominance is defined, and the exact
   dominance frontiers. *)
THEOREM DominatorTreeComputed == Spec => []ResultIsDominatorTree
<1>1. DomInv => ResultIsDominatorTree BY ResultFollows
<1> QED BY <1>1, DominatorsInvariant, PTL
-----------------------------------------------------------------------------
(* Renaming.  The program, which does not change: nothing reads the address of
   a promoted variable. *)
Fixed ==
  /\ blocks \in [Block -> Seq(Stmt)]
  /\ DefinedOnce(blocks) /\ DefinedFirst(succs, blocks)
  /\ promotable \subseteq Id
  /\ \A v \in promotable : ~Invalid(v)

PhiRecord(S) == [var : promotable, dst : Nat, incomings : Seq([label : Block, value : S])]

PhisTyped == \E S : phis \in [Block -> Seq(PhiRecord(S))]

(* One phi per variable and block, and each defines a local of its own. *)
PhisDistinct ==
  /\ \A b \in Block : \A i, j \in DOMAIN phis[b] : phis[b][i].var = phis[b][j].var => i = j
  /\ \A b, c \in Block : \A i \in DOMAIN phis[b], j \in DOMAIN phis[c] :
       phis[b][i].dst = phis[c][j].dst => b = c /\ i = j
  /\ \A b, c \in Block : \A i \in DOMAIN phis[b], k \in DOMAIN blocks[c] :
       phis[b][i].dst \notin Defines(blocks[c][k])

StacksTyped == \E S : var_stack \in [promotable -> Seq(S)]

RewrittenTyped == \E S : rewritten \in [Block -> Seq(S)]

(* While phis are placed, they have no operands. *)
PlaceInv ==
  /\ Fixed /\ PhisTyped /\ PhisDistinct /\ StacksTyped
  /\ next_vreg \in Nat /\ DefinedBelow(blocks, next_vreg)
  /\ \A b \in Block : \A i \in DOMAIN phis[b] :
       phis[b][i].dst < next_vreg /\ phis[b][i].incomings = <<>>
  /\ unplaced \subseteq promotable
  /\ worklist # <<>> \/ frontier # {} => var \in promotable
  /\ calls = <<>> /\ roots = Roots(idom) /\ alias_map = <<>>
  /\ rewritten = [b \in Block |-> <<>>]

(* Before that there is nothing but the program. *)
EarlyInv ==
  /\ blocks \in [Block -> Seq(Stmt)]
  /\ DefinedOnce(blocks) /\ DefinedFirst(succs, blocks)
  /\ next_vreg \in Nat /\ DefinedBelow(blocks, next_vreg)
  /\ phis = [b \in Block |-> <<>>]
  /\ worklist = <<>> /\ frontier = {}
  /\ calls = <<>> /\ roots = {} /\ alias_map = <<>>
  /\ rewritten = [b \in Block |-> <<>>]

-----------------------------------------------------------------------------
(* The calls of rename_block under way are a path of the dominator tree, from a
   root. *)
CallRecord ==
  [block : Block, at : Nat, pushed : Seq(promotable), added : SUBSET Id, children : SUBSET Block]

End(b) == Len(blocks[b]) + 2

Nested(cs, rs) ==
  /\ cs \in Seq(CallRecord) /\ rs \subseteq Roots(idom)
  /\ cs # <<>> => cs[1].block \in Roots(idom) \ rs
  /\ \A i \in DOMAIN cs :
       /\ cs[i].children \subseteq Children(idom, cs[i].block)
       /\ 1 <= cs[i].at /\ cs[i].at <= End(cs[i].block)
       /\ i + 1 \in DOMAIN cs =>
            /\ cs[i].at = End(cs[i].block)
            /\ idom[cs[i + 1].block] = cs[i].block
            /\ cs[i + 1].block \notin cs[i].children

(* A block is pending while it is below a root or child not called yet;
   otherwise it has been renamed, in front of the statement its call is at. *)
Waits(cs, rs, r) == r \in rs \/ \E i \in DOMAIN cs : r \in cs[i].children

Pending(cs, rs, b) == \E r \in Block : Waits(cs, rs, r) /\ TreeDominates(idom, r, b)

Reached(cs, rs, b, k) ==
  /\ ~Pending(cs, rs, b)
  /\ \A i \in DOMAIN cs : cs[i].block = b => k <= cs[i].at

-----------------------------------------------------------------------------
PromotedLoad(s) == s.op = "load" /\ IsPromoted(s.ptr)

Kept(s) ==
  /\ ~(s.op = "alloca" /\ s.dst \in promotable)
  /\ ~(s.op \in {"load", "store"} /\ IsPromoted(s.ptr))

(* What is written comes from a statement kept, and all that is kept is. *)
RewrittenFrom(cs, rs, rw) ==
  \A b \in Block : \A k \in DOMAIN rw[b] : \E j \in DOMAIN blocks[b] :
    /\ Kept(blocks[b][j]) /\ Defines(rw[b][k]) = Defines(blocks[b][j])
    /\ Reached(cs, rs, b, j + 1)

Writes(rw, b, j) == \E k \in DOMAIN rw[b] : Defines(rw[b][k]) = Defines(blocks[b][j])

Written(cs, rs, rw) ==
  \A b \in Block : \A j \in DOMAIN blocks[b] :
    Kept(blocks[b][j]) /\ Reached(cs, rs, b, j + 1) => Writes(rw, b, j)

(* A phi has an operand for each edge from a block that is through. *)
Labelled(list, b) == {k \in DOMAIN list : list[k].label = b}

Counted(cs, rs, ph) ==
  \A y \in Block : \A i \in DOMAIN ph[y] : \A b \in Block :
    Cardinality(Labelled(ph[y][i].incomings, b))
      = IF Reached(cs, rs, b, End(b)) THEN Edges(b, y) ELSE 0

-----------------------------------------------------------------------------
(* Values.  Below the entry, whatever is on a stack or an alias is defined in a
   block that dominates the one whose call put it there. *)
Live(cs) == cs # <<>> /\ cs[1].block = Entry

DefinedIn(ph, rw, i, b) ==
  \/ \E j \in DOMAIN ph[b] : ph[b][j].dst = i
  \/ \E k \in DOMAIN rw[b] : i \in Defines(rw[b][k])

Avail(ph, rw, o, b) ==
  /\ o \in Operand
  /\ o.kind = "local" => \E d \in Dominators(succs, b) : DefinedIn(ph, rw, o.id, d)

(* What is read is defined by a phi, earlier in the block or above; what a phi
   takes, at the end of the block it comes from. *)
DefinedAbove(ph, rw, i, b) == \E d \in Dominators(succs, b) \ {b} : DefinedIn(ph, rw, i, d)

Before(ph, rw, i, b, k) ==
  \/ \E j \in DOMAIN ph[b] : ph[b][j].dst = i
  \/ \E j \in 1 .. k - 1 : i \in Defines(rw[b][j])
  \/ DefinedAbove(ph, rw, i, b)

ReadsKnown(ph, rw) ==
  \A b \in Reachable(succs) : \A k \in DOMAIN rw[b] : \A o \in ReadOperands(rw[b][k]) :
    o.kind = "local" => Before(ph, rw, o.id, b, k)

ValueKnown(ph, rw, p) ==
  p.label \in Reachable(succs) /\ p.value.kind = "local" =>
    \E d \in Dominators(succs, p.label) : DefinedIn(ph, rw, p.value.id, d)

IncomingsKnown(ph, rw) ==
  \A b \in Block : \A j \in DOMAIN ph[b] : \A k \in DOMAIN ph[b][j].incomings :
    ValueKnown(ph, rw, ph[b][j].incomings[k])

(* How much of the stack of each variable the first i calls have pushed. *)
Heights(cs, st, m) ==
  /\ m \in [0 .. Len(cs) -> [promotable -> Nat]]
  /\ \A v \in promotable :
       /\ m[0][v] = 0
       /\ \A i \in DOMAIN cs : m[i][v] = m[i - 1][v] + Occurrences(cs[i].pushed, v)
       /\ cs # <<>> => m[Len(cs)][v] = Len(st[v])

StacksAvail(cs, st, m, ph, rw) ==
  Live(cs) => \A i \in DOMAIN cs : \A v \in promotable : \A p \in 1 .. m[i][v] :
                Avail(ph, rw, st[v][p], cs[i].block)

StacksKnown(cs, st, ph, rw) == \E m : Heights(cs, st, m) /\ StacksAvail(cs, st, m, ph, rw)

LoadedBefore(b, k) ==
  {x \in Id : \E j \in DOMAIN blocks[b] :
     j < k /\ PromotedLoad(blocks[b][j]) /\ x = blocks[b][j].dst}

AliasesKnown(cs, al, ph, rw) ==
  /\ \A i \in DOMAIN cs : cs[i].added = LoadedBefore(cs[i].block, cs[i].at)
  /\ \A x \in DOMAIN al : \E i \in DOMAIN cs : x \in cs[i].added
  /\ \A i \in DOMAIN cs : \A x \in cs[i].added :
       x \in DOMAIN al /\ (Live(cs) => Avail(ph, rw, al[x], cs[i].block))

RenameInv ==
  /\ frontier = {}
  /\ Fixed /\ PhisTyped /\ PhisDistinct /\ StacksTyped /\ RewrittenTyped
  /\ Nested(calls, roots)
  /\ RewrittenFrom(calls, roots, rewritten) /\ DefinedOnce(rewritten)
  /\ Written(calls, roots, rewritten) /\ Counted(calls, roots, phis)
  /\ StacksKnown(calls, var_stack, phis, rewritten)
  /\ AliasesKnown(calls, alias_map, phis, rewritten)
  /\ ReadsKnown(phis, rewritten) /\ IncomingsKnown(phis, rewritten)

(* What it comes to, as the run states it. *)
RunInv ==
  /\ SingleDefinitions
  /\ UsesDominated
  /\ PhisComplete

SsaInv ==
  /\ phase \in {"search", "iterate", "done", "place", "rename", "run"}
  /\ phase \in {"search", "iterate", "done"} => EarlyInv
  /\ phase = "place" => PlaceInv
  /\ phase \in {"rename", "run"} => RenameInv
  /\ phase = "run" => calls = <<>> /\ roots = {}
-----------------------------------------------------------------------------
(* The tree, once it is known. *)
DomTree ==
  /\ IsFlow(succs) /\ (\E r : IsTree(idom, r))
  /\ Entry \in Reachable(succs) /\ Reachable(succs) \subseteq Block
  /\ idom[Entry] = None
  /\ \A b \in Block : idom[b] # None => b \in Reachable(succs)
  /\ \A b \in Reachable(succs) : idom[b] = None => b = Entry
  /\ \A b \in Reachable(succs) : \A d \in Block :
       TreeDominates(idom, d, b) <=> d \in Dominators(succs, b)
  /\ \A b \in Reachable(succs) : \A d : TreeDominates(idom, d, b) => d \in Reachable(succs)

LEMMA TreeKnown == ASSUME DomInv, phase \notin {"search", "iterate"} PROVE DomTree
<1>1. OrderInv /\ FinalInv /\ TreeSound(idom) /\ IsFlow(succs) BY DEF DomInv, OrderInv, GraphInv, FinalInv
<1>2. \E r : IsTree(idom, r) BY <1>1, SoundIsTree
<1>3. Entry \in Reachable(succs) /\ Reachable(succs) \subseteq Block BY <1>1, DominanceFacts
<1>4. \A b \in Reachable(succs) : \A d \in Block :
        TreeDominates(idom, d, b) <=> d \in Dominators(succs, b) BY <1>1, AncestorsDominate
<1>5. \A b \in Reachable(succs) : \A d : TreeDominates(idom, d, b) => d \in Reachable(succs) BY <1>1, AncestorsReachable
<1>6. \A b \in Reachable(succs) : idom[b] = None => b = Entry BY <1>1 DEF FinalInv, InTree
<1> QED BY <1>1, <1>2, <1>3, <1>4, <1>5, <1>6 DEF TreeSound, DomTree

(* Above every block there is a root. *)
LEMMA RootAbove ==
  ASSUME NEW t, NEW r, IsTree(t, r) PROVE \A b \in Block : \E d \in Block : t[d] = None /\ TreeDominates(t, d, b)
<1> DEFINE Good(b) == \E d \in Block : t[d] = None /\ TreeDominates(t, d, b)
           S == {n \in Nat : \A b \in Block : r[b] = n => Good(b)}
<1>1. ASSUME NEW n \in Nat, \A m \in Nat : m < n => m \in S PROVE n \in S
 <2> SUFFICES ASSUME NEW b \in Block, r[b] = n PROVE Good(b) OBVIOUS
 <2>1. CASE t[b] = None BY <2>1, AncestorRule
 <2>2. CASE t[b] # None
  <3>1. t[b] \in Block /\ r[t[b]] \in Nat /\ r[t[b]] < n BY <2>2 DEF IsTree
  <3>2. PICK d \in Block : t[d] = None /\ TreeDominates(t, d, t[b]) BY <1>1, <3>1
  <3> QED BY <2>2, <3>2, AncestorRule
 <2> QED BY <2>1, <2>2
<1>2. Nat \subseteq S
 <2> HIDE DEF S
 <2> QED BY <1>1, StrongInduction
<1>3. \A b \in Block : r[b] \in Nat BY DEF IsTree
<1> QED BY <1>2, <1>3

(* A path of the tree from a root: the blocks above one are those before. *)
OnPath(f, i, d) == \E j \in 1 .. i : d = f[j]

PathUp(t, r, f, i) ==
  /\ \A j \in 1 .. i - 1 : r[f[j]] < r[f[i]]
  /\ \A d : TreeDominates(t, d, f[i]) <=> OnPath(f, i, d)

LEMMA PathAncestors ==
  ASSUME NEW t, NEW r, IsTree(t, r), NEW n \in Nat, NEW f \in [1 .. n -> Block],
         n > 0 => t[f[1]] = None, \A i \in 1 .. n - 1 : t[f[i + 1]] = f[i]
  PROVE  \A i \in 1 .. n : PathUp(t, r, f, i)
<1> DEFINE S == {i \in Nat : i \in 1 .. n => PathUp(t, r, f, i)}
<1>1. 0 \in S OBVIOUS
<1>2. ASSUME NEW i \in Nat, i \in S PROVE i + 1 \in S
 <2> SUFFICES ASSUME i + 1 \in 1 .. n PROVE PathUp(t, r, f, i + 1) OBVIOUS
 <2>1. f[i + 1] \in Block OBVIOUS
 <2>2. CASE i = 0
  <3>1. t[f[1]] = None BY <2>2
  <3>2. \A d : TreeDominates(t, d, f[1]) <=> d = f[1] BY <2>1, <2>2, <3>1, AncestorRule
  <3>3. \A d : OnPath(f, 1, d) <=> d = f[1] BY DEF OnPath
  <3> QED BY <2>2, <3>2, <3>3 DEF PathUp
 <2>3. CASE i # 0
  <3>1. i \in 1 .. n - 1 /\ i \in 1 .. n BY <2>3
  <3>2. t[f[i + 1]] = f[i] /\ f[i] \in Block /\ f[i] # None /\ PathUp(t, r, f, i) BY <1>2, <3>1, BlockFacts
  <3>3. r[f[i]] < r[f[i + 1]] /\ r[f[i]] \in Nat /\ r[f[i + 1]] \in Nat BY <2>1, <3>2 DEF IsTree
  <3>4. \A j \in 1 .. (i + 1) - 1 : r[f[j]] < r[f[i + 1]]
   <4> SUFFICES ASSUME NEW j \in 1 .. i PROVE r[f[j]] < r[f[i + 1]] OBVIOUS
   <4>1. f[j] \in Block /\ r[f[j]] \in Nat BY <3>1 DEF IsTree
   <4>2. j = i \/ j \in 1 .. i - 1 OBVIOUS
   <4> QED BY <3>2, <3>3, <4>1, <4>2 DEF PathUp
  <3>5. \A d : TreeDominates(t, d, f[i + 1]) <=> d = f[i + 1] \/ TreeDominates(t, d, f[i]) BY <2>1, <3>2, AncestorRule
  <3>6. \A d : OnPath(f, i + 1, d) <=> d = f[i + 1] \/ OnPath(f, i, d)
   <4>1. 1 .. i + 1 = (1 .. i) \cup {i + 1} OBVIOUS
   <4> QED BY <4>1 DEF OnPath
  <3> QED BY <3>2, <3>4, <3>5, <3>6 DEF PathUp
 <2> QED BY <2>2, <2>3
<1>3. Nat \subseteq S
 <2> HIDE DEF S
 <2> QED BY <1>1, <1>2, SetInduction
<1> QED BY <1>3

LEMMA CallFacts ==
  ASSUME NEW cs \in Seq(CallRecord)
  PROVE  /\ Len(cs) \in Nat /\ DOMAIN cs = 1 .. Len(cs)
         /\ \A i \in DOMAIN cs : /\ cs[i] \in CallRecord
                                 /\ cs[i].block \in Block /\ cs[i].at \in Nat
                                 /\ cs[i].pushed \in Seq(promotable)
                                 /\ cs[i].added \subseteq Id /\ cs[i].children \subseteq Block
<1>1. Len(cs) \in Nat /\ DOMAIN cs = 1 .. Len(cs) OBVIOUS
<1>2. \A i \in DOMAIN cs : cs[i] \in CallRecord BY ElementType
<1> QED BY <1>1, <1>2 DEF CallRecord

(* The blocks above one whose call is under way are those of the calls around
   it. *)
Around(cs, i, d) == \E j \in 1 .. i : d = cs[j].block

LEMMA CallPath ==
  ASSUME DomTree, NEW cs, NEW rs, Nested(cs, rs)
  PROVE  /\ \A i, j \in DOMAIN cs : cs[i].block = cs[j].block => i = j
         /\ \A i \in DOMAIN cs : \A d :
              TreeDominates(idom, d, cs[i].block) <=> Around(cs, i, d)
<1>1. PICK r : IsTree(idom, r) BY DEF DomTree
<1>2. PICK n \in Nat : n = Len(cs) BY CallFacts DEF Nested
<1>3. DOMAIN cs = 1 .. n /\ \A i \in 1 .. n : cs[i].block \in Block BY <1>2, CallFacts DEF Nested
<1> DEFINE f == [i \in 1 .. n |-> cs[i].block]
<1>4. f \in [1 .. n -> Block] BY <1>3
<1>5. n > 0 => idom[f[1]] = None
 <2> SUFFICES ASSUME n > 0 PROVE idom[f[1]] = None OBVIOUS
 <2>1. cs # <<>> /\ 1 \in 1 .. n BY <1>2
 <2>2. cs[1].block \in Roots(idom) BY <2>1 DEF Nested
 <2> QED BY <2>1, <2>2 DEF Roots
<1>6. \A i \in 1 .. n - 1 : idom[f[i + 1]] = f[i]
 <2> SUFFICES ASSUME NEW i \in 1 .. n - 1 PROVE idom[f[i + 1]] = f[i] OBVIOUS
 <2>1. i \in 1 .. n /\ i + 1 \in 1 .. n OBVIOUS
 <2>2. idom[cs[i + 1].block] = cs[i].block BY <1>3, <2>1 DEF Nested
 <2> QED BY <2>1, <2>2
<1>7. \A i \in 1 .. n : PathUp(idom, r, f, i)
 <2> HIDE DEF f
 <2> QED BY <1>1, <1>4, <1>5, <1>6, PathAncestors
<1>8. \A i \in 1 .. n : \A d : OnPath(f, i, d) <=> Around(cs, i, d)
 <2>1. \A i \in 1 .. n : \A j \in 1 .. i : j \in 1 .. n /\ f[j] = cs[j].block OBVIOUS
 <2> HIDE DEF f
 <2> QED BY <2>1 DEF OnPath, Around
<1>9. \A i \in 1 .. n : f[i] = cs[i].block /\ r[f[i]] \in Nat BY <1>1, <1>4 DEF IsTree
<1>10. ASSUME NEW i \in 1 .. n, NEW j \in 1 .. n, cs[i].block = cs[j].block PROVE i = j
 <2>1. ~(i < j) /\ ~(j < i)
  <3>1. r[f[i]] = r[f[j]] /\ r[f[i]] \in Nat BY <1>9, <1>10
  <3> HIDE DEF f
  <3>2. i < j => r[f[i]] < r[f[j]] BY <1>7 DEF PathUp
  <3>3. j < i => r[f[j]] < r[f[i]] BY <1>7 DEF PathUp
  <3> QED BY <3>1, <3>2, <3>3
 <2> QED BY <2>1
<1>11. \A i \in 1 .. n : \A d : TreeDominates(idom, d, cs[i].block) <=> Around(cs, i, d)
 <2> HIDE DEF f
 <2> QED BY <1>7, <1>8, <1>9 DEF PathUp
<1> QED BY <1>3, <1>10, <1>11

(* None of them is pending. *)
LEMMA CallsNotPending ==
  ASSUME DomTree, NEW cs, NEW rs, Nested(cs, rs) PROVE \A i \in DOMAIN cs : ~Pending(cs, rs, cs[i].block)
<1> SUFFICES ASSUME NEW i \in DOMAIN cs, NEW x \in Block, Waits(cs, rs, x),
                    TreeDominates(idom, x, cs[i].block)
             PROVE  FALSE BY DEF Pending
<1>1. Len(cs) \in Nat /\ DOMAIN cs = 1 .. Len(cs) /\ \A k \in DOMAIN cs : cs[k].block \in Block BY CallFacts DEF Nested
<1>2. PICK j \in 1 .. i : x = cs[j].block
 <2>1. Around(cs, i, x) BY CallPath
 <2> QED BY <2>1 DEF Around
<1>3. j \in DOMAIN cs BY <1>1
<1>4. j # 1 => j - 1 \in DOMAIN cs /\ idom[x] = cs[j - 1].block
                /\ x \notin cs[j - 1].children
 <2> SUFFICES ASSUME j # 1 PROVE j - 1 \in DOMAIN cs /\ idom[x] = cs[j - 1].block
                                  /\ x \notin cs[j - 1].children OBVIOUS
 <2>1. j - 1 \in DOMAIN cs /\ (j - 1) + 1 = j BY <1>1, <1>3
 <2> QED BY <1>2, <1>3, <2>1 DEF Nested
<1>5. CASE x \in rs
 <2>1. idom[x] = None /\ cs # <<>> BY <1>5 DEF Nested, Roots
 <2>2. j = 1 BY <1>1, <1>4, <2>1, BlockFacts
 <2> QED BY <1>2, <1>5, <2>1, <2>2 DEF Nested
<1>6. CASE \E k \in DOMAIN cs : x \in cs[k].children
 <2>1. PICK k \in DOMAIN cs : x \in cs[k].children BY <1>6
 <2>2. idom[x] = cs[k].block BY <2>1 DEF Nested, Children
 <2>3. CASE j = 1
  <3>1. cs # <<>> BY <1>1
  <3>2. idom[x] = None BY <1>2, <2>3, <3>1 DEF Nested, Roots
  <3> QED BY <1>1, <2>2, <3>2, BlockFacts
 <2>4. CASE j # 1
  <3>1. j - 1 = k BY <1>4, <2>2, <2>4, CallPath
  <3> QED BY <1>4, <2>1, <2>4, <3>1
 <2> QED BY <2>3, <2>4
<1> QED BY <1>5, <1>6 DEF Waits
-----------------------------------------------------------------------------
LEMMA StmtFacts ==
  ASSUME NEW s \in Stmt
  PROVE  /\ s.op = "alloca" => s.dst \in Id
         /\ s.op = "load" => s.dst \in Id /\ s.ptr \in Operand
         /\ s.op = "store" => s.src \in Operand /\ s.ptr \in Operand
         /\ s.op \in {"gep", "call"} => s.dst \in Id /\ s.arg \in Operand
         /\ s.op \in {"alloca", "load", "store", "gep", "call"}
         /\ s.op # "store" => s.dst \in Id /\ Defines(s) = {s.dst}
         /\ s.op = "store" => Defines(s) = {}
         /\ ReadOperands(s) \subseteq Operand
<1>1. CASE s \in {Alloca(d, t) : d \in Id, t \in {"i32", "ptr"}}
 <2>1. s.op = "alloca" /\ s.dst \in Id BY <1>1 DEF Alloca
 <2> QED BY <2>1 DEF Defines, ReadOperands, UseOperands
<1>2. CASE s \in [op : {"load"}, dst : Id, ptr : Operand]
 <2>1. s.op = "load" /\ s.dst \in Id /\ s.ptr \in Operand BY <1>2
 <2> QED BY <2>1 DEF Defines, ReadOperands, UseOperands
<1>3. CASE s \in [op : {"store"}, src : Operand, ptr : Operand]
 <2>1. s.op = "store" /\ s.src \in Operand /\ s.ptr \in Operand BY <1>3
 <2> QED BY <2>1 DEF Defines, ReadOperands, UseOperands
<1>4. CASE s \in [op : {"gep", "call"}, dst : Id, arg : Operand]
 <2>1. s.op \in {"gep", "call"} /\ s.dst \in Id /\ s.arg \in Operand BY <1>4
 <2> QED BY <2>1 DEF Defines, ReadOperands, UseOperands
<1> QED BY <1>1, <1>2, <1>3, <1>4 DEF Stmt

LEMMA CodeFacts ==
  ASSUME Fixed, NEW b \in Block
  PROVE  /\ Len(blocks[b]) \in Nat /\ DOMAIN blocks[b] = 1 .. Len(blocks[b])
         /\ End(b) = Len(blocks[b]) + 2 /\ End(b) \in Nat
         /\ \A j \in DOMAIN blocks[b] : blocks[b][j] \in Stmt
<1>1. blocks[b] \in Seq(Stmt) BY DEF Fixed
<1>2. Len(blocks[b]) \in Nat /\ DOMAIN blocks[b] = 1 .. Len(blocks[b]) BY <1>1
<1>3. \A j \in DOMAIN blocks[b] : blocks[b][j] \in Stmt BY <1>1, ElementType
<1> QED BY <1>2, <1>3 DEF End

(* A statement is dealt with. *)
Moved(cs, cs2) ==
  /\ cs # <<>> /\ cs2 \in Seq(CallRecord) /\ Len(cs2) = Len(cs)
  /\ \A i \in DOMAIN cs :
       /\ cs2[i].block = cs[i].block /\ cs2[i].children = cs[i].children
       /\ cs2[i].at = IF i = Len(cs) THEN cs[i].at + 1 ELSE cs[i].at

LEMMA MovedFacts ==
  ASSUME NEW cs, NEW rs, Nested(cs, rs), NEW cs2, Moved(cs, cs2)
  PROVE  \E n \in Nat \ {0} :
           /\ n = Len(cs) /\ n = Len(cs2) /\ DOMAIN cs = 1 .. n /\ DOMAIN cs2 = 1 .. n
           /\ \A i \in 1 .. n : cs[i].at \in Nat /\ cs[i].block \in Block
<1>1. cs \in Seq(CallRecord) /\ cs2 \in Seq(CallRecord) /\ cs # <<>> /\ Len(cs2) = Len(cs) BY DEF Moved, Nested
<1>2. PICK n \in Nat : n = Len(cs) BY <1>1, CallFacts
<1>3. n # 0 /\ DOMAIN cs = 1 .. n /\ DOMAIN cs2 = 1 .. n BY <1>1, <1>2
<1>4. \A i \in 1 .. n : cs[i].at \in Nat /\ cs[i].block \in Block BY <1>1, <1>3, CallFacts
<1> QED BY Zenon, <1>1, <1>2, <1>3, <1>4

LEMMA MovedNested ==
  ASSUME Fixed, NEW cs, NEW rs, Nested(cs, rs), NEW cs2, Moved(cs, cs2),
         cs[Len(cs)].at < End(cs[Len(cs)].block)
  PROVE  Nested(cs2, rs)
<1>1. PICK n \in Nat \ {0} :
        /\ n = Len(cs) /\ n = Len(cs2) /\ DOMAIN cs = 1 .. n /\ DOMAIN cs2 = 1 .. n
        /\ \A i \in 1 .. n : cs[i].at \in Nat /\ cs[i].block \in Block BY MovedFacts
<1>2. cs2 \in Seq(CallRecord) /\ cs # <<>> BY DEF Moved
<1>3. \A b \in Block : End(b) \in Nat BY CodeFacts
<1>4. \A i \in 1 .. n :
        /\ cs2[i].block = cs[i].block /\ cs2[i].children = cs[i].children
        /\ cs2[i].at = IF i = n THEN cs[i].at + 1 ELSE cs[i].at BY Zenon, <1>1 DEF Moved
<1>5. ASSUME NEW i \in 1 .. n
      PROVE  /\ cs2[i].children \subseteq Children(idom, cs2[i].block)
             /\ 1 <= cs2[i].at /\ cs2[i].at <= End(cs2[i].block)
 <2>1. /\ cs[i].children \subseteq Children(idom, cs[i].block)
       /\ 1 <= cs[i].at /\ cs[i].at <= End(cs[i].block) BY <1>1 DEF Nested
 <2>2. i = n => cs[i].at < End(cs[i].block) BY <1>1
 <2>3. cs[i].at \in Nat /\ End(cs[i].block) \in Nat BY <1>1, <1>3
 <2> QED BY <1>4, <2>1, <2>2, <2>3
<1>6. ASSUME NEW i \in 1 .. n, i + 1 \in 1 .. n
      PROVE  /\ cs2[i].at = End(cs2[i].block)
             /\ idom[cs2[i + 1].block] = cs2[i].block
             /\ cs2[i + 1].block \notin cs2[i].children
 <2>1. i # n BY <1>6
 <2>2. /\ cs[i].at = End(cs[i].block)
       /\ idom[cs[i + 1].block] = cs[i].block
       /\ cs[i + 1].block \notin cs[i].children BY <1>1, <1>6 DEF Nested
 <2> QED BY <1>4, <1>6, <2>1, <2>2
<1>7. cs2[1].block \in Roots(idom) \ rs /\ rs \subseteq Roots(idom) BY <1>1, <1>2, <1>4 DEF Nested
<1> QED BY <1>1, <1>2, <1>5, <1>6, <1>7 DEF Nested

LEMMA MovedReached ==
  ASSUME DomTree, NEW cs, NEW rs, Nested(cs, rs), NEW cs2, Moved(cs, cs2)
  PROVE  \A b \in Block : \A k \in Nat :
           Reached(cs2, rs, b, k) <=>
             Reached(cs, rs, b, k) \/ (b = cs[Len(cs)].block /\ k = cs[Len(cs)].at + 1)
<1>1. PICK n \in Nat \ {0} :
        /\ n = Len(cs) /\ n = Len(cs2) /\ DOMAIN cs = 1 .. n /\ DOMAIN cs2 = 1 .. n
        /\ \A i \in 1 .. n : cs[i].at \in Nat /\ cs[i].block \in Block BY MovedFacts
<1>2. \A i \in 1 .. n :
        /\ cs2[i].block = cs[i].block /\ cs2[i].children = cs[i].children
        /\ cs2[i].at = IF i = n THEN cs[i].at + 1 ELSE cs[i].at BY <1>1 DEF Moved
<1>3. \A x : Waits(cs2, rs, x) <=> Waits(cs, rs, x) BY <1>1, <1>2 DEF Waits
<1>4. \A b : Pending(cs2, rs, b) <=> Pending(cs, rs, b) BY <1>3 DEF Pending
<1>5. n \in 1 .. n /\ ~Pending(cs, rs, cs[n].block) BY <1>1, CallsNotPending
<1>6. \A i \in 1 .. n : cs[i].block = cs[n].block => i = n BY <1>1, <1>5, CallPath
<1>7. ASSUME NEW b \in Block, NEW k \in Nat
      PROVE  Reached(cs2, rs, b, k) <=>
               Reached(cs, rs, b, k) \/ (b = cs[n].block /\ k = cs[n].at + 1)
 <2>1. CASE b = cs[n].block
  <3>1. Reached(cs, rs, b, k) <=> k <= cs[n].at BY <1>1, <1>5, <1>6, <2>1 DEF Reached
  <3>2. Reached(cs2, rs, b, k) <=> k <= cs[n].at + 1 BY <1>1, <1>2, <1>4, <1>5, <1>6, <2>1 DEF Reached
  <3>3. cs[n].at \in Nat BY <1>1, <1>5
  <3> QED BY <2>1, <3>1, <3>2, <3>3
 <2>2. CASE b # cs[n].block
  <3>1. \A i \in 1 .. n : cs[i].block = b => cs2[i].at = cs[i].at BY <1>2, <2>2
  <3> QED BY <1>1, <1>2, <1>4, <2>2, <3>1 DEF Reached
 <2> QED BY <2>1, <2>2
<1> QED BY <1>1, <1>7

(* A block is entered: what waited for it waits for its children. *)
Enters(cs, rs, cs2, rs2, c) ==
  /\ c \in Block /\ Waits(cs, rs, c)
  /\ \A x \in Block : Waits(cs2, rs2, x) <=> (Waits(cs, rs, x) /\ x # c) \/ idom[x] = c
  /\ \E n \in Nat :
       /\ DOMAIN cs = 1 .. n /\ DOMAIN cs2 = 1 .. n + 1
       /\ \A i \in 1 .. n : cs2[i].block = cs[i].block /\ cs2[i].at = cs[i].at
       /\ cs2[n + 1].block = c /\ cs2[n + 1].at = 1

LEMMA EnteredReached ==
  ASSUME DomTree, NEW cs, NEW rs, Nested(cs, rs), NEW cs2, NEW rs2, Nested(cs2, rs2),
         NEW c, Enters(cs, rs, cs2, rs2, c)
  PROVE  \A b \in Block : \A k \in Nat :
           Reached(cs2, rs2, b, k) <=> Reached(cs, rs, b, k) \/ (b = c /\ k <= 1)
<1>0. /\ c \in Block /\ Waits(cs, rs, c)
      /\ \A x \in Block : Waits(cs2, rs2, x) <=> (Waits(cs, rs, x) /\ x # c) \/ idom[x] = c BY DEF Enters
<1> PICK n \in Nat :
       /\ DOMAIN cs = 1 .. n /\ DOMAIN cs2 = 1 .. n + 1
       /\ \A i \in 1 .. n : cs2[i].block = cs[i].block /\ cs2[i].at = cs[i].at
       /\ cs2[n + 1].block = c /\ cs2[n + 1].at = 1 BY DEF Enters
<1> USE <1>0
<1>1. PICK r : IsTree(idom, r) BY DEF DomTree
<1>2. ASSUME NEW b \in Block, Pending(cs, rs, b), b # c PROVE Pending(cs2, rs2, b)
 <2>1. PICK x \in Block : Waits(cs, rs, x) /\ TreeDominates(idom, x, b) BY <1>2 DEF Pending
 <2>2. CASE x # c BY <2>1, <2>2 DEF Pending
 <2>3. CASE x = c
  <3>1. PICK y \in Block : idom[y] = c /\ TreeDominates(idom, y, b) BY <1>1, <1>2, <2>1, <2>3, ChildBetween
  <3> QED BY <3>1 DEF Pending
 <2> QED BY <2>2, <2>3
<1>3. ASSUME NEW b \in Block, Pending(cs2, rs2, b) PROVE Pending(cs, rs, b)
 <2>1. PICK x \in Block : Waits(cs2, rs2, x) /\ TreeDominates(idom, x, b) BY <1>3 DEF Pending
 <2>2. CASE Waits(cs, rs, x) BY <2>1, <2>2 DEF Pending
 <2>3. CASE idom[x] = c
  <3>1. TreeDominates(idom, c, c) /\ c # None BY <1>1, AncestorRule, BlockFacts
  <3>2. TreeDominates(idom, c, x) BY <1>1, <2>3, <3>1, AncestorRule
  <3>3. TreeDominates(idom, c, b) BY <1>1, <2>1, <3>2, AncestorsTransitive
  <3> QED BY <3>3 DEF Pending
 <2> QED BY <2>1, <2>2, <2>3
<1>4. Pending(cs, rs, c)
 <2>1. TreeDominates(idom, c, c) BY <1>1, AncestorRule
 <2> QED BY <2>1 DEF Pending
<1>5. ~Pending(cs2, rs2, c)
 <2>1. n + 1 \in DOMAIN cs2 OBVIOUS
 <2> QED BY <2>1, CallsNotPending
<1>6. ASSUME NEW b \in Block, NEW k \in Nat
      PROVE  Reached(cs2, rs2, b, k) <=> Reached(cs, rs, b, k) \/ (b = c /\ k <= 1)
 <2>1. \A i \in 1 .. n + 1 : i = n + 1 \/ i \in 1 .. n OBVIOUS
 <2>2. CASE b # c
  <3>1. Pending(cs2, rs2, b) <=> Pending(cs, rs, b) BY <1>2, <1>3, <2>2
  <3>2. \A i \in 1 .. n : i \in 1 .. n + 1 OBVIOUS
  <3> QED BY <2>1, <2>2, <3>1, <3>2 DEF Reached
 <2>3. CASE b = c
  <3>1. \A i \in 1 .. n : cs[i].block # c BY <1>4, CallsNotPending
  <3>2. n + 1 \in 1 .. n + 1 OBVIOUS
  <3>3. Reached(cs2, rs2, b, k) <=> k <= 1 BY <1>5, <2>1, <2>3, <3>1, <3>2 DEF Reached
  <3> QED BY <1>4, <2>3, <3>3 DEF Reached
 <2> QED BY <2>2, <2>3
<1> QED BY <1>6

(* Renamer::run. *)
LEMMA RootEntered ==
  ASSUME DomTree, Fixed, NEW rs, Nested(<<>>, rs), NEW c \in rs, NEW f \in CallRecord,
         f.block = c, f.at = 1, f.children = Children(idom, c)
  PROVE  /\ Nested(<<f>>, rs \ {c})
         /\ \A b \in Block : \A k \in Nat :
              Reached(<<f>>, rs \ {c}, b, k) <=> Reached(<<>>, rs, b, k) \/ (b = c /\ k <= 1)
<1>1. c \in Block /\ rs \subseteq Roots(idom) BY DEF CallRecord, Nested
<1> DEFINE cs == <<f>>
<1>2. cs \in Seq(CallRecord) /\ DOMAIN cs = 1 .. 1 /\ cs[1] = f /\ cs # <<>> OBVIOUS
<1> HIDE DEF cs
<1>3. Nested(cs, rs \ {c})
 <2>1. End(c) \in Nat /\ 1 <= End(c) BY <1>1, CodeFacts
 <2>2. \A i \in DOMAIN cs : i = 1 /\ i + 1 \notin DOMAIN cs BY <1>2
 <2> QED BY <1>1, <1>2, <2>1, <2>2 DEF Nested
<1>4. \A x : Waits(<<>>, rs, x) <=> x \in rs
 <2>1. DOMAIN <<>> = {} OBVIOUS
 <2> QED BY <2>1 DEF Waits
<1>5. \A x \in Block : Waits(cs, rs \ {c}, x) <=> (x \in rs /\ x # c) \/ idom[x] = c
 <2>1. \A x : Waits(cs, rs \ {c}, x) <=> x \in rs \ {c} \/ x \in f.children BY <1>2 DEF Waits
 <2>2. DOMAIN idom = Block BY DEF DomTree, IsTree
 <2> QED BY <2>1, <2>2 DEF Children
<1>6. DOMAIN <<>> = 1 .. 0 /\ 1 .. 1 = 1 .. 0 + 1 /\ \A i \in 1 .. 0 : FALSE OBVIOUS
<1>7. Enters(<<>>, rs, cs, rs \ {c}, c)
 <2>1. Waits(<<>>, rs, c) /\ DOMAIN cs = 1 .. 0 + 1 /\ cs[0 + 1].block = c /\ cs[0 + 1].at = 1 BY <1>2, <1>4, <1>6
 <2>2. \A x \in Block : Waits(cs, rs \ {c}, x) <=> (Waits(<<>>, rs, x) /\ x # c) \/ idom[x] = c BY <1>4, <1>5
 <2> QED BY <1>1, <1>6, <2>1, <2>2 DEF Enters
<1>8. \A b \in Block : \A k \in Nat :
        Reached(cs, rs \ {c}, b, k) <=> Reached(<<>>, rs, b, k) \/ (b = c /\ k <= 1) BY <1>3, <1>7, EnteredReached
<1> QED BY <1>3, <1>8 DEF cs

(* The last call goes on to one of its children. *)
Without(cs, n, c) == [cs EXCEPT ![n].children = @ \ {c}]

LEMMA WithoutFacts ==
  ASSUME NEW cs \in Seq(CallRecord), NEW n \in DOMAIN cs, NEW c
  PROVE  /\ Without(cs, n, c) \in Seq(CallRecord)
         /\ DOMAIN Without(cs, n, c) = DOMAIN cs /\ Len(Without(cs, n, c)) = Len(cs)
         /\ \A i \in DOMAIN cs : i # n => Without(cs, n, c)[i] = cs[i]
         /\ Without(cs, n, c)[n].block = cs[n].block /\ Without(cs, n, c)[n].at = cs[n].at
         /\ Without(cs, n, c)[n].pushed = cs[n].pushed /\ Without(cs, n, c)[n].added = cs[n].added
         /\ Without(cs, n, c)[n].children = cs[n].children \ {c}
<1>1. cs[n] \in CallRecord BY ElementType
<1> DEFINE g == [cs[n] EXCEPT !.children = @ \ {c}]
<1>2. /\ g \in CallRecord
      /\ g.block = cs[n].block /\ g.at = cs[n].at /\ g.pushed = cs[n].pushed
      /\ g.added = cs[n].added /\ g.children = cs[n].children \ {c} BY <1>1 DEF CallRecord
<1>3. Without(cs, n, c) = [cs EXCEPT ![n] = g] BY DEF Without
<1> HIDE DEF g
<1>4. [cs EXCEPT ![n] = g] \in Seq(CallRecord) BY <1>2
<1> QED BY <1>2, <1>3, <1>4

LEMMA ChildNested ==
  ASSUME DomTree, Fixed, NEW cs, NEW rs, Nested(cs, rs), cs # <<>>,
         cs[Len(cs)].at = End(cs[Len(cs)].block), NEW c \in cs[Len(cs)].children,
         NEW f \in CallRecord, f.block = c, f.at = 1, f.children = Children(idom, c),
         NEW cs2, cs2 = Append(Without(cs, Len(cs), c), f)
  PROVE  Nested(cs2, rs) /\ Enters(cs, rs, cs2, rs, c)
<1>1. PICK n \in Nat : n = Len(cs) BY CallFacts DEF Nested
<1>2. cs \in Seq(CallRecord) /\ DOMAIN cs = 1 .. n /\ n \in 1 .. n BY <1>1 DEF Nested
<1> DEFINE d == Without(cs, n, c)
<1>3. /\ d \in Seq(CallRecord) /\ DOMAIN d = 1 .. n /\ Len(d) = n
      /\ \A i \in 1 .. n : i # n => d[i] = cs[i]
      /\ d[n].block = cs[n].block /\ d[n].at = cs[n].at
      /\ d[n].children = cs[n].children \ {c} BY <1>1, <1>2, WithoutFacts
<1>4. cs2 = Append(d, f) BY <1>1
<1> HIDE DEF d
<1>5. /\ cs2 \in Seq(CallRecord) /\ DOMAIN cs2 = 1 .. n + 1
      /\ \A i \in 1 .. n : cs2[i] = d[i]
      /\ cs2[n + 1] = f BY <1>3, <1>4
<1>6. \A i \in 1 .. n + 1 : i = n + 1 \/ i \in 1 .. n OBVIOUS
<1>7. /\ c \in Block /\ c \in Children(idom, cs[n].block) /\ c \in cs[n].children
      /\ cs[n].at = End(cs[n].block) BY <1>1, <1>2 DEF Nested, CallRecord
<1>8. \A i \in 1 .. n :
        /\ cs2[i].block = cs[i].block /\ cs2[i].at = cs[i].at
        /\ cs2[i].children = IF i = n THEN cs[i].children \ {c} ELSE cs[i].children BY <1>3, <1>5
<1>9. ASSUME NEW i \in 1 .. n + 1
      PROVE  /\ cs2[i].children \subseteq Children(idom, cs2[i].block)
             /\ 1 <= cs2[i].at /\ cs2[i].at <= End(cs2[i].block)
 <2>1. CASE i \in 1 .. n
  <3>1. /\ cs[i].children \subseteq Children(idom, cs[i].block)
        /\ 1 <= cs[i].at /\ cs[i].at <= End(cs[i].block) BY <1>2, <2>1 DEF Nested
  <3> QED BY <1>8, <2>1, <3>1
 <2>2. CASE i = n + 1
  <3>1. End(c) \in Nat /\ 1 <= End(c) BY <1>7, CodeFacts
  <3> QED BY <1>5, <2>2, <3>1
 <2> QED BY <1>6, <2>1, <2>2
<1>10. ASSUME NEW i \in 1 .. n + 1, i + 1 \in 1 .. n + 1
       PROVE  /\ cs2[i].at = End(cs2[i].block)
              /\ idom[cs2[i + 1].block] = cs2[i].block
              /\ cs2[i + 1].block \notin cs2[i].children
 <2>1. i \in 1 .. n BY <1>10
 <2>2. CASE i = n
  <3>1. idom[c] = cs[n].block BY <1>7 DEF Children
  <3> QED BY <1>5, <1>7, <1>8, <2>1, <2>2, <3>1
 <2>3. CASE i # n
  <3>1. i + 1 \in 1 .. n BY <2>1, <2>3
  <3>2. /\ cs[i].at = End(cs[i].block)
        /\ idom[cs[i + 1].block] = cs[i].block
        /\ cs[i + 1].block \notin cs[i].children BY <1>2, <2>1, <3>1 DEF Nested
  <3> QED BY <1>8, <2>1, <2>3, <3>1, <3>2
 <2> QED BY <2>2, <2>3
<1>11. Nested(cs2, rs)
 <2>1. cs2 # <<>> /\ 1 \in 1 .. n BY <1>2, <1>5
 <2>2. cs2[1].block \in Roots(idom) \ rs /\ rs \subseteq Roots(idom) BY <1>8, <2>1 DEF Nested
 <2> QED BY <1>5, <1>9, <1>10, <2>2 DEF Nested
<1>12. c \notin rs
 <2>1. idom[c] # None BY <1>2, <1>7, CallFacts, BlockFacts DEF Children
 <2> QED BY <2>1 DEF Nested, Roots
<1>13. ASSUME NEW i \in 1 .. n, c \in cs[i].children PROVE i = n
 <2>1. idom[c] = cs[i].block /\ idom[c] = cs[n].block BY <1>2, <1>7, <1>13 DEF Nested, Children
 <2> QED BY <1>2, <2>1, CallPath
<1>14. ASSUME NEW x \in Block PROVE Waits(cs2, rs, x) <=> (Waits(cs, rs, x) /\ x # c) \/ idom[x] = c
 <2>1. x \in f.children <=> idom[x] = c
  <3>1. DOMAIN idom = Block BY DEF DomTree, IsTree
  <3> QED BY <3>1 DEF Children
 <2>2. ASSUME NEW i \in 1 .. n PROVE x \in cs2[i].children <=> x \in cs[i].children /\ x # c BY <1>8, <1>13
 <2>3. Waits(cs2, rs, x) <=> x \in rs \/ (\E i \in 1 .. n : x \in cs2[i].children) \/ x \in f.children
  <3>1. n + 1 \in 1 .. n + 1 /\ \A i \in 1 .. n : i \in 1 .. n + 1 OBVIOUS
  <3> QED BY <1>5, <1>6, <3>1 DEF Waits
 <2>4. Waits(cs, rs, x) <=> x \in rs \/ \E i \in 1 .. n : x \in cs[i].children BY <1>2 DEF Waits
 <2> QED BY <1>12, <2>1, <2>2, <2>3, <2>4
<1>15. Waits(cs, rs, c) BY <1>2, <1>7 DEF Waits
<1>16. Enters(cs, rs, cs2, rs, c) BY <1>2, <1>5, <1>7, <1>8, <1>14, <1>15 DEF Enters
<1> QED BY <1>11, <1>16

(* A call ends. *)
LEMMA CallLeft ==
  ASSUME DomTree, NEW cs, NEW rs, Nested(cs, rs), cs # <<>>,
         cs[Len(cs)].at = End(cs[Len(cs)].block), cs[Len(cs)].children = {}
  PROVE  /\ Nested(Front(cs), rs)
         /\ \A b \in Block : \A k \in Nat :
              k <= End(b) => (Reached(Front(cs), rs, b, k) <=> Reached(cs, rs, b, k))
<1>1. PICK n \in Nat : n = Len(cs) BY CallFacts DEF Nested
<1>2. cs \in Seq(CallRecord) /\ DOMAIN cs = 1 .. n /\ n \in 1 .. n BY <1>1 DEF Nested
<1> DEFINE d == Front(cs)
<1>3. d \in Seq(CallRecord) /\ DOMAIN d = 1 .. n - 1 /\ \A i \in 1 .. n - 1 : d[i] = cs[i] BY <1>1, <1>2, FrontFacts
<1> HIDE DEF d
<1>4. \A i \in 1 .. n - 1 : i \in 1 .. n OBVIOUS
<1>5. \A i \in 1 .. n : i = n \/ i \in 1 .. n - 1 OBVIOUS
<1>6. Nested(d, rs)
 <2>1. d # <<>> => d[1].block \in Roots(idom) \ rs
  <3> SUFFICES ASSUME d # <<>> PROVE d[1].block \in Roots(idom) \ rs OBVIOUS
  <3>1. 1 \in 1 .. n - 1 BY <1>3
  <3> QED BY <1>3, <3>1 DEF Nested
 <2>2. ASSUME NEW i \in 1 .. n - 1
       PROVE  /\ d[i].children \subseteq Children(idom, d[i].block)
              /\ 1 <= d[i].at /\ d[i].at <= End(d[i].block) BY <1>2, <1>3, <1>4 DEF Nested
 <2>3. ASSUME NEW i \in 1 .. n - 1, i + 1 \in 1 .. n - 1
       PROVE  /\ d[i].at = End(d[i].block)
              /\ idom[d[i + 1].block] = d[i].block
              /\ d[i + 1].block \notin d[i].children BY <1>2, <1>3, <1>4, <2>3 DEF Nested
 <2>4. rs \subseteq Roots(idom) BY DEF Nested
 <2> QED BY <1>3, <2>1, <2>2, <2>3, <2>4 DEF Nested
<1>7. \A x : Waits(d, rs, x) <=> Waits(cs, rs, x)
 <2>1. \A x : x \notin cs[n].children BY <1>1
 <2> QED BY <1>2, <1>3, <1>4, <1>5, <2>1 DEF Waits
<1>8. \A b : Pending(d, rs, b) <=> Pending(cs, rs, b) BY <1>7 DEF Pending
<1>9. ASSUME NEW b \in Block, NEW k \in Nat, k <= End(b) PROVE Reached(d, rs, b, k) <=> Reached(cs, rs, b, k)
 <2>1. cs[n].block = b => k <= cs[n].at BY <1>1, <1>9
 <2> QED BY <1>2, <1>3, <1>4, <1>5, <1>8, <2>1 DEF Reached
<1> QED BY <1>6, <1>9 DEF d
-----------------------------------------------------------------------------
(* Up to the renaming. *)
LEMMA EarlyInit == Init => EarlyInv /\ phase = "search"
<1> SUFFICES ASSUME Init PROVE EarlyInv /\ phase = "search" OBVIOUS
<1>1. PICK f \in Functions : DominatorsInit(f.succs) /\ blocks = f.blocks /\ next_vreg = f.next_vreg BY DEF Init
<1>2. succs = f.succs /\ phase = "search" BY <1>1 DEF DominatorsInit
<1>3. /\ f.blocks \in [Block -> Seq(Stmt)] /\ f.next_vreg \in Id
      /\ DefinedOnce(f.blocks) /\ DefinedBelow(f.blocks, f.next_vreg)
      /\ DefinedFirst(f.succs, f.blocks) BY FunctionsAssumption
<1>4. next_vreg \in Nat BY <1>1, <1>3 DEF Id
<1> QED BY <1>1, <1>2, <1>3, <1>4 DEF Init, EarlyInv

LEMMA EarlyStep == ASSUME EarlyInv, UNCHANGED mem2regVars, succs' = succs PROVE EarlyInv'
BY DEF EarlyInv, mem2regVars, placing, renaming

(* What does not change. *)
LEMMA FixedKept == ASSUME Fixed, UNCHANGED <<blocks, succs, promotable>> PROVE Fixed'
<1>1. blocks' = blocks /\ succs' = succs /\ promotable' = promotable OBVIOUS
<1>2. \A v : Invalid(v)' <=> Invalid(v) BY <1>1 DEF Invalid
<1> QED BY <1>1, <1>2 DEF Fixed

LEMMA Promoted ==
  PromotableVars \subseteq Id /\ \A v \in PromotableVars : ~Invalid(v)
<1> DEFINE usable == {v \in Candidates : ~Invalid(v) /\ DefBlocks(v) # {} /\ DominatedByDef(v)}
           single == {v \in usable : Cardinality(DefBlocks(v)) <= 1}
<1>1. PromotableVars = usable \/ PromotableVars = usable \ single BY DEF PromotableVars
<1>2. PromotableVars \subseteq usable BY <1>1
<1> QED BY <1>2 DEF Candidates

LEMMA ChooseStep == ASSUME EarlyInv, ChooseVariables PROVE PlaceInv'
<1>1. /\ promotable' = PromotableVars /\ unplaced' = {v \in promotable' : HasLoad(v)}
      /\ roots' = Roots(idom) /\ var_stack' = [v \in promotable' |-> <<>>]
      /\ UNCHANGED <<blocks, next_vreg, worklist, frontier, phis, calls, alias_map, rewritten>>
      /\ succs' = succs /\ idom' = idom BY DEF ChooseVariables, info, graph
<1>2. \A v : Invalid(v)' <=> Invalid(v) BY <1>1 DEF Invalid
<1>3. Fixed' BY <1>1, <1>2, Promoted DEF Fixed, EarlyInv
<1>4. \A b \in Block : phis'[b] = <<>> /\ DOMAIN phis'[b] = {} BY <1>1 DEF EarlyInv
<1>5. phis' \in [Block -> Seq(PhiRecord({})')] BY <1>1 DEF EarlyInv
<1>6. PhisTyped' /\ PhisDistinct' BY <1>4, <1>5 DEF PhisTyped, PhisDistinct
<1>7. StacksTyped'
 <2>1. var_stack' \in [promotable' -> Seq({})] BY <1>1
 <2> QED BY <2>1 DEF StacksTyped
<1>8. unplaced' \subseteq promotable' /\ worklist' = <<>> /\ frontier' = {} BY <1>1 DEF EarlyInv
<1>9. /\ next_vreg' \in Nat /\ DefinedBelow(blocks', next_vreg')
      /\ calls' = <<>> /\ roots' = Roots(idom') /\ alias_map' = <<>>
      /\ rewritten' = [b \in Block |-> <<>>] BY <1>1 DEF EarlyInv
<1>10. \A b \in Block : \A i \in DOMAIN phis'[b] :
         phis'[b][i].dst < next_vreg' /\ phis'[b][i].incomings = <<>> BY <1>4
<1> QED BY <1>3, <1>6, <1>7, <1>8, <1>9, <1>10 DEF PlaceInv

(* The worklist. *)
LEMMA PlaceKept ==
  ASSUME PlaceInv, UNCHANGED <<function, promotable, next_vreg, phis, renaming>>,
         unplaced' \subseteq promotable,
         worklist' # <<>> \/ frontier' # {} => var' \in promotable
  PROVE  PlaceInv'
<1>1. /\ succs' = succs /\ idom' = idom /\ blocks' = blocks /\ promotable' = promotable
      /\ next_vreg' = next_vreg /\ phis' = phis /\ calls' = calls /\ roots' = roots
      /\ var_stack' = var_stack /\ alias_map' = alias_map /\ rewritten' = rewritten
  BY DEF function, dominatorsVars, graph, renaming
<1>2. Fixed' BY <1>1, FixedKept DEF PlaceInv
<1>3. PhisTyped' /\ StacksTyped' BY <1>1 DEF PlaceInv, PhisTyped, PhiRecord, StacksTyped
<1>4. PhisDistinct' BY <1>1 DEF PlaceInv, PhisDistinct
<1> QED BY <1>1, <1>2, <1>3, <1>4 DEF PlaceInv

LEMMA WorklistStep == ASSUME PlaceInv, PlaceVariable \/ PopWorklist PROVE PlaceInv'
<1>1. CASE PlaceVariable
 <2>1. /\ UNCHANGED <<function, promotable, next_vreg, phis, renaming>>
       /\ var' \in unplaced /\ unplaced' \subseteq unplaced BY <1>1 DEF PlaceVariable
 <2>2. unplaced \subseteq promotable BY DEF PlaceInv
 <2> QED BY <2>1, <2>2, PlaceKept
<1>2. CASE PopWorklist
 <2>1. /\ UNCHANGED <<function, promotable, next_vreg, phis, renaming>>
       /\ var' = var /\ unplaced' = unplaced /\ worklist # <<>> BY <1>2 DEF PopWorklist
 <2>2. unplaced \subseteq promotable /\ var \in promotable BY <2>1 DEF PlaceInv
 <2> QED BY <2>1, <2>2, PlaceKept
<1> QED BY <1>1, <1>2

LEMMA ConsiderStep == ASSUME PlaceInv, ConsiderFrontier PROVE PlaceInv'
<1>1. PICK y \in frontier :
        /\ frontier' = frontier \ {y}
        /\ IF y \in LiveIn(var) /\ ~HasPhi(y, var)
           THEN /\ phis' = [phis EXCEPT ![y] =
                              Append(@, [var |-> var, dst |-> next_vreg, incomings |-> <<>>])]
                /\ next_vreg' = next_vreg + 1
                /\ worklist' = Requeue(y)
           ELSE UNCHANGED <<phis, next_vreg, worklist>> BY DEF ConsiderFrontier
<1>2. /\ UNCHANGED <<function, promotable, unplaced, var, renaming>>
      /\ var \in promotable /\ unplaced \subseteq promotable BY <1>1 DEF ConsiderFrontier, PlaceInv
<1>3. CASE ~(y \in LiveIn(var) /\ ~HasPhi(y, var)) BY <1>1, <1>2, <1>3, PlaceKept
<1>4. CASE y \in LiveIn(var) /\ ~HasPhi(y, var)
 <2> DEFINE new == [var |-> var, dst |-> next_vreg, incomings |-> <<>>]
 <2>1. /\ succs' = succs /\ idom' = idom /\ blocks' = blocks /\ promotable' = promotable
       /\ calls' = calls /\ roots' = roots /\ unplaced' = unplaced /\ var' = var
       /\ var_stack' = var_stack /\ alias_map' = alias_map /\ rewritten' = rewritten
       /\ next_vreg' = next_vreg + 1 /\ phis' = [phis EXCEPT ![y] = Append(@, new)]
   BY <1>1, <1>2, <1>4 DEF function, dominatorsVars, graph, renaming
 <2>2. Fixed' BY <2>1, FixedKept DEF PlaceInv
 <2>3. next_vreg \in Nat /\ next_vreg' \in Nat /\ next_vreg < next_vreg' BY <2>1 DEF PlaceInv
 <2>4. DefinedBelow(blocks, next_vreg) /\ DefinedBelow(blocks', next_vreg')
  <3>1. ASSUME NEW b \in Block, NEW j \in DOMAIN blocks[b], NEW i \in Defines(blocks[b][j]) PROVE i \in Int
   <4>1. blocks[b][j] \in Stmt BY CodeFacts DEF PlaceInv
   <4> QED BY <4>1, <3>1 DEF Stmt, Defines, Alloca, Id
  <3>2. DefinedBelow(blocks, next_vreg) BY DEF PlaceInv
  <3>3. DefinedBelow(blocks, next_vreg + 1)
   <4>1. \A i \in Int : i < next_vreg => i < next_vreg + 1 BY <2>3
   <4> QED BY <3>1, <3>2, <4>1 DEF DefinedBelow
  <3> QED BY <2>1, <3>2, <3>3
 <2>5. PICK S : phis \in [Block -> Seq(PhiRecord(S))] BY DEF PlaceInv, PhisTyped
 <2>6. new \in PhiRecord(S) /\ new.var = var /\ new.dst = next_vreg /\ new.incomings = <<>> BY <1>2, <2>3 DEF PhiRecord
 <2> HIDE DEF new
 <2>7. phis' \in [Block -> Seq(PhiRecord(S))]
  <3>1. CASE y \in Block
   <4> DEFINE longer == Append(phis[y], new)
   <4>1. longer \in Seq(PhiRecord(S)) BY <2>5, <2>6, <3>1, AppendFacts
   <4>2. phis' = [phis EXCEPT ![y] = longer] BY <2>1
   <4> HIDE DEF longer
   <4> QED BY <2>5, <4>1, <4>2
  <3>2. CASE y \notin Block BY <2>1, <2>5, <3>2
  <3> QED BY <3>1, <3>2
 <2>8. \A b \in Block : b # y => phis'[b] = phis[b] BY <2>1, <2>5
 <2>9. y \in Block =>
         /\ Len(phis[y]) \in Nat /\ DOMAIN phis[y] = 1 .. Len(phis[y])
         /\ DOMAIN phis'[y] = 1 .. Len(phis[y]) + 1
         /\ \A i \in DOMAIN phis[y] : phis'[y][i] = phis[y][i]
         /\ phis'[y][Len(phis[y]) + 1] = new
  <3> SUFFICES ASSUME y \in Block
               PROVE  /\ Len(phis[y]) \in Nat /\ DOMAIN phis[y] = 1 .. Len(phis[y])
                      /\ DOMAIN phis'[y] = 1 .. Len(phis[y]) + 1
                      /\ \A i \in DOMAIN phis[y] : phis'[y][i] = phis[y][i]
                      /\ phis'[y][Len(phis[y]) + 1] = new OBVIOUS
  <3>1. phis[y] \in Seq(PhiRecord(S)) /\ phis'[y] = Append(phis[y], new) BY <2>1, <2>5
  <3> QED BY <2>6, <3>1, AppendFacts
(* Each phi is one of before or the new one. *)
 <2>10. ASSUME NEW b \in Block, NEW i \in DOMAIN phis'[b]
        PROVE  \/ i \in DOMAIN phis[b] /\ phis'[b][i] = phis[b][i]
               \/ b = y /\ i = Len(phis[y]) + 1 /\ phis'[b][i] = new
  <3>1. CASE b = y BY <2>9, <3>1
  <3>2. CASE b # y BY <2>8, <3>2
  <3> QED BY <3>1, <3>2
 <2>11. \A b \in Block : \A i \in DOMAIN phis[b] :
          phis[b][i].dst < next_vreg /\ phis[b][i].incomings = <<>> /\ phis[b][i].dst \in Nat
  <3>1. \A b \in Block : phis[b] \in Seq(PhiRecord(S)) BY <2>5
  <3>2. \A b \in Block : \A i \in DOMAIN phis[b] : phis[b][i] \in PhiRecord(S) BY <3>1, ElementType
  <3> QED BY <3>2 DEF PlaceInv, PhiRecord
 <2>12. \A b \in Block : \A i \in DOMAIN phis'[b] :
          phis'[b][i].dst < next_vreg' /\ phis'[b][i].incomings = <<>> BY <2>3, <2>6, <2>10, <2>11
 <2>13. ASSUME NEW b \in Block, NEW i \in DOMAIN phis'[b], NEW j \in DOMAIN phis'[b],
               phis'[b][i].var = phis'[b][j].var
        PROVE  i = j
  <3>1. \A k \in DOMAIN phis[y] : phis[y][k].var # var BY <1>4 DEF HasPhi
  <3>2. \A k, l \in DOMAIN phis[b] : phis[b][k].var = phis[b][l].var => k = l BY DEF PlaceInv, PhisDistinct
  <3> QED BY <2>6, <2>10, <2>13, <3>1, <3>2
 <2>14. ASSUME NEW b \in Block, NEW c \in Block, NEW i \in DOMAIN phis'[b], NEW j \in DOMAIN phis'[c],
               phis'[b][i].dst = phis'[c][j].dst
        PROVE  b = c /\ i = j
  <3>1. \A k \in DOMAIN phis[b], l \in DOMAIN phis[c] : phis[b][k].dst = phis[c][l].dst => b = c /\ k = l
    BY DEF PlaceInv, PhisDistinct
  <3>2. \A k \in DOMAIN phis[b] : phis[b][k].dst # next_vreg BY <2>3, <2>11
  <3>3. \A k \in DOMAIN phis[c] : phis[c][k].dst # next_vreg BY <2>3, <2>11
  <3> QED BY <2>6, <2>10, <2>14, <3>1, <3>2, <3>3
 <2>15. ASSUME NEW b \in Block, NEW c \in Block, NEW i \in DOMAIN phis'[b], NEW k \in DOMAIN blocks[c]
        PROVE  phis'[b][i].dst \notin Defines(blocks[c][k])
  <3>1. \A l \in DOMAIN phis[b] : phis[b][l].dst \notin Defines(blocks[c][k]) BY DEF PlaceInv, PhisDistinct
  <3>2. next_vreg \notin Defines(blocks[c][k]) BY <2>3, <2>4 DEF DefinedBelow
  <3> QED BY <2>6, <2>10, <3>1, <3>2
 <2>16. PhisTyped' /\ StacksTyped' BY <2>1, <2>7 DEF PlaceInv, PhisTyped, PhiRecord, StacksTyped
 <2>17. PhisDistinct' BY <2>1, <2>13, <2>14, <2>15 DEF PhisDistinct
 <2> QED BY <1>2, <2>1, <2>2, <2>3, <2>4, <2>12, <2>16, <2>17 DEF PlaceInv
<1> QED BY <1>3, <1>4
-----------------------------------------------------------------------------
(* From the parts of the state after a step to the invariant. *)
Renaming(cs, rs, st, al, ph, rw) ==
  /\ Nested(cs, rs)
  /\ RewrittenFrom(cs, rs, rw) /\ DefinedOnce(rw) /\ Written(cs, rs, rw) /\ Counted(cs, rs, ph)
  /\ StacksKnown(cs, st, ph, rw)
  /\ AliasesKnown(cs, al, ph, rw)
  /\ ReadsKnown(ph, rw) /\ IncomingsKnown(ph, rw)

LEMMA RenameBuilt ==
  ASSUME UNCHANGED <<succs, idom, blocks, promotable>>, frontier' = {},
         Fixed', PhisTyped', PhisDistinct', StacksTyped', RewrittenTyped',
         Renaming(calls', roots', var_stack', alias_map', phis', rewritten')
  PROVE  RenameInv'
<1>1. succs' = succs /\ idom' = idom /\ blocks' = blocks /\ promotable' = promotable OBVIOUS
<1>2. Nested(calls, roots)' BY <1>1 DEF Renaming, Nested, CallRecord, End
<1>3. RewrittenFrom(calls, roots, rewritten)' /\ DefinedOnce(rewritten)'
 <2>1. DefinedOnce(rewritten)' BY DEF Renaming, DefinedOnce
 <2>2. RewrittenFrom(calls', roots', rewritten') BY DEF Renaming
 <2>3. RewrittenFrom(calls, roots, rewritten)' BY <1>1, <2>2 DEF RewrittenFrom, Kept, IsPromoted, Reached, Pending, Waits
 <2> QED BY <2>1, <2>3
<1>4. Written(calls, roots, rewritten)' BY <1>1 DEF Renaming, Written, Kept, IsPromoted, Writes, Reached, Pending, Waits
<1>5. Counted(calls, roots, phis)' BY <1>1 DEF Renaming, Counted, Reached, Pending, Waits, End, Edges
<1>6. StacksKnown(calls, var_stack, phis, rewritten)'
 <2>1. PICK m : /\ Heights(calls', var_stack', m)
                /\ StacksAvail(calls', var_stack', m, phis', rewritten') BY DEF Renaming, StacksKnown
 <2>2. Heights(calls, var_stack, m)' BY <1>1, <2>1 DEF Heights
 <2>3. StacksAvail(calls, var_stack, m, phis, rewritten)' BY <1>1, <2>1 DEF StacksAvail, Live, Avail, DefinedIn
 <2> QED BY <2>2, <2>3 DEF StacksKnown
<1>7. AliasesKnown(calls, alias_map, phis, rewritten)'
  BY <1>1 DEF Renaming, AliasesKnown, LoadedBefore, PromotedLoad, IsPromoted, Live, Avail, DefinedIn
<1>8. ReadsKnown(phis, rewritten)' /\ IncomingsKnown(phis, rewritten)'
  BY <1>1 DEF Renaming, ReadsKnown, IncomingsKnown, ValueKnown, Before, DefinedAbove, DefinedIn
<1> QED BY <1>2, <1>3, <1>4, <1>5, <1>6, <1>7, <1>8 DEF RenameInv

LEMMA AllPending ==
  ASSUME DomTree
  PROVE  /\ Nested(<<>>, Roots(idom))
         /\ \A b \in Block : \A k : ~Reached(<<>>, Roots(idom), b, k)
<1>1. PICK r : IsTree(idom, r) BY DEF DomTree
<1>2. Nested(<<>>, Roots(idom))
 <2>1. <<>> \in Seq(CallRecord) /\ DOMAIN <<>> = {} OBVIOUS
 <2> QED BY <2>1 DEF Nested
<1>3. ASSUME NEW b \in Block PROVE Pending(<<>>, Roots(idom), b)
 <2>1. PICK d \in Block : idom[d] = None /\ TreeDominates(idom, d, b) BY <1>1, RootAbove
 <2>2. d \in Roots(idom) BY <1>1, <2>1 DEF Roots, IsTree
 <2> QED BY <2>1, <2>2 DEF Pending, Waits
<1> QED BY <1>2, <1>3 DEF Reached

LEMMA StartStep == ASSUME DomTree, PlaceInv, StartRenaming PROVE RenameInv'
<1>1. /\ succs' = succs /\ idom' = idom /\ blocks' = blocks /\ promotable' = promotable
      /\ frontier' = {} /\ phis' = phis
      /\ calls' = <<>> /\ roots' = Roots(idom) /\ alias_map' = <<>> /\ var_stack' = var_stack
      /\ rewritten' = [b \in Block |-> <<>>] BY DEF StartRenaming, PlaceInv, info, graph, placing, renaming
<1>2. Fixed' BY <1>1, FixedKept DEF PlaceInv
<1>3. PhisTyped' /\ StacksTyped' BY <1>1 DEF PlaceInv, PhisTyped, PhiRecord, StacksTyped
<1>4. PhisDistinct' BY <1>1 DEF PlaceInv, PhisDistinct
<1>5. RewrittenTyped'
 <2>1. rewritten' \in [Block -> Seq({})] BY <1>1
 <2> QED BY <2>1 DEF RewrittenTyped
<1> DEFINE none == [b \in Block |-> <<>>]
<1>6. \A b \in Block : DOMAIN none[b] = {} OBVIOUS
<1>7. Nested(<<>>, Roots(idom)) /\ \A b \in Block : \A k : ~Reached(<<>>, Roots(idom), b, k) BY AllPending
<1>8. RewrittenFrom(<<>>, Roots(idom), none) /\ DefinedOnce(none) /\ ReadsKnown(phis, none)
 <2>1. Reachable(succs) \subseteq Block BY DEF DomTree
 <2> HIDE DEF none
 <2> QED BY <1>6, <2>1 DEF RewrittenFrom, DefinedOnce, ReadsKnown
<1>9. Written(<<>>, Roots(idom), none) BY <1>7 DEF Written
<1>10. \A y \in Block : \A i \in DOMAIN phis[y] : phis[y][i].incomings = <<>> BY DEF PlaceInv
<1>11. IncomingsKnown(phis, none)
 <2>1. DOMAIN <<>> = {} OBVIOUS
 <2> HIDE DEF none
 <2> QED BY <1>10, <2>1 DEF IncomingsKnown
<1>12. Counted(<<>>, Roots(idom), phis)
 <2>1. \A b : Labelled(<<>>, b) = {} BY DEF Labelled
 <2>2. Cardinality({}) = 0 BY FS_EmptySet
 <2> QED BY <1>7, <1>10, <2>1, <2>2 DEF Counted
<1>13. StacksKnown(<<>>, var_stack, phis, none)
 <2> DEFINE m == [i \in 0 .. 0 |-> [v \in promotable |-> 0]]
 <2>1. m \in [0 .. 0 -> [promotable -> Nat]] /\ \A v \in promotable : m[0][v] = 0 OBVIOUS
 <2>2. Len(<<>>) = 0 /\ DOMAIN <<>> = {} OBVIOUS
 <2> HIDE DEF m, none
 <2> QED BY <2>1, <2>2 DEF StacksKnown, Heights, StacksAvail
<1>14. AliasesKnown(<<>>, <<>>, phis, none)
 <2>1. DOMAIN <<>> = {} OBVIOUS
 <2> HIDE DEF none
 <2> QED BY <2>1 DEF AliasesKnown
<1> HIDE DEF none
<1>15. Renaming(<<>>, Roots(idom), var_stack, <<>>, phis, none) BY <1>7, <1>8, <1>9, <1>11, <1>12, <1>13, <1>14 DEF Renaming
<1>16. rewritten' = none BY <1>1 DEF none
<1> QED BY <1>1, <1>2, <1>3, <1>4, <1>5, <1>15, <1>16, RenameBuilt

-----------------------------------------------------------------------------
(* The end. *)
LEMMA RenamedResult == ASSUME DomTree, RenameInv, calls = <<>>, roots = {} PROVE RunInv
<1>1. SingleDefinitions
 <2>1. \A b, c \in Block : \A i \in DOMAIN phis[b], k \in DOMAIN rewritten[c] :
         phis[b][i].dst \notin Defines(rewritten[c][k]) BY DEF RenameInv, RewrittenFrom, PhisDistinct
 <2> QED BY <2>1 DEF SingleDefinitions, RenameInv, PhisDistinct
<1>2. IsFlow(succs) /\ Reachable(succs) \subseteq Block BY DEF DomTree
<1>3. \A b \in Reachable(succs) : Dominators(succs, b) \subseteq Block BY <1>2, DominanceFacts
<1>4. \A i : \A b \in Reachable(succs) : \A d \in Dominators(succs, b) :
        DefinedIn(phis, rewritten, i, d) => d \in DefinedAt(i) BY <1>3 DEF DefinedAt, DefinedIn
<1>5. PICK S : rewritten \in [Block -> Seq(S)] BY DEF RenameInv, RewrittenTyped
<1>6. \A b \in Block : Len(rewritten[b]) \in Nat /\ DOMAIN rewritten[b] = 1 .. Len(rewritten[b]) BY <1>5
<1>7. ASSUME NEW b \in Reachable(succs), NEW k \in DOMAIN rewritten[b],
             NEW o \in ReadOperands(rewritten[b][k]), o.kind = "local"
      PROVE  DefinedBefore(o.id, b, k)
 <2>1. Before(phis, rewritten, o.id, b, k) BY <1>7 DEF RenameInv, ReadsKnown
 <2> QED BY <1>4, <2>1 DEF Before, DefinedAbove, DefinedBefore
<1>8. ASSUME NEW b \in Reachable(succs), NEW j \in DOMAIN phis[b],
             NEW p \in ToSet(phis[b][j].incomings), p.label \in Reachable(succs), p.value.kind = "local"
      PROVE  DefinedBefore(p.value.id, p.label, Len(rewritten[p.label]) + 1)
 <2>1. PICK k \in DOMAIN phis[b][j].incomings : p = phis[b][j].incomings[k] BY DEF ToSet
 <2>2. PICK d \in Dominators(succs, p.label) : DefinedIn(phis, rewritten, p.value.id, d)
   BY <1>2, <1>8, <2>1 DEF RenameInv, IncomingsKnown, ValueKnown
 <2>3. CASE d = p.label
  <3>1. p.label \in Block BY <1>2, <1>8
  <3>2. DOMAIN rewritten[p.label] = 1 .. (Len(rewritten[p.label]) + 1) - 1 BY <1>6, <3>1
  <3> QED BY <2>2, <2>3, <3>2 DEF DefinedIn, DefinedBefore
 <2>4. CASE d # p.label
  <3>1. d \in DefinedAt(p.value.id) BY <1>4, <1>8, <2>2
  <3> QED BY <2>2, <2>4, <3>1 DEF DefinedBefore
 <2> QED BY <2>3, <2>4
<1>9. UsesDominated BY <1>7, <1>8 DEF UsesDominated
<1>10. \A b \in Block : Reached(calls, roots, b, End(b))
 <2>1. DOMAIN calls = {} OBVIOUS
 <2> QED BY <2>1 DEF Reached, Pending, Waits
<1>11. PhisComplete
 <2> SUFFICES ASSUME NEW y \in Block, NEW i \in DOMAIN phis[y], NEW b \in Block
              PROVE  Cardinality({k \in DOMAIN phis[y][i].incomings :
                                    phis[y][i].incomings[k].label = b}) = Edges(b, y) BY DEF PhisComplete
 <2>1. Cardinality(Labelled(phis[y][i].incomings, b)) = Edges(b, y) BY <1>10 DEF RenameInv, Counted
 <2> QED BY <2>1 DEF Labelled
<1> QED BY <1>1, <1>9, <1>11 DEF RunInv

LEMMA RenameKept ==
  ASSUME RenameInv, UNCHANGED <<succs, idom, blocks, promotable, placing, phis, renaming>> PROVE RenameInv'
<1>1. /\ succs' = succs /\ idom' = idom /\ blocks' = blocks /\ promotable' = promotable
      /\ frontier' = frontier /\ phis' = phis /\ calls' = calls /\ roots' = roots
      /\ var_stack' = var_stack /\ alias_map' = alias_map /\ rewritten' = rewritten
  BY DEF function, dominatorsVars, graph, placing, renaming
<1>2. Fixed' BY <1>1, FixedKept DEF RenameInv
<1>3. PhisTyped' /\ StacksTyped' /\ RewrittenTyped' BY <1>1 DEF RenameInv, PhisTyped, PhiRecord, StacksTyped, RewrittenTyped
<1>4. PhisDistinct' BY <1>1 DEF RenameInv, PhisDistinct
<1>5. Renaming(calls, roots, var_stack, alias_map, phis, rewritten) /\ frontier = {} BY DEF RenameInv, Renaming
<1> QED BY <1>1, <1>2, <1>3, <1>4, <1>5, RenameBuilt
-----------------------------------------------------------------------------
(* The last call goes on by one statement: how the parts follow. *)
Dealt(cs, cs2, p, a) ==
  /\ Moved(cs, cs2)
  /\ \A i \in DOMAIN cs : i # Len(cs) => cs2[i] = cs[i]
  /\ cs2[Len(cs)].pushed = p /\ cs2[Len(cs)].added = a

LEMMA DealtWith ==
  ASSUME NEW cs, NEW rs, Nested(cs, rs), cs # <<>>, NEW g \in CallRecord,
         g.block = cs[Len(cs)].block, g.children = cs[Len(cs)].children, g.at = cs[Len(cs)].at + 1,
         NEW cs2, cs2 = [cs EXCEPT ![Len(cs)] = g]
  PROVE  Dealt(cs, cs2, g.pushed, g.added)
<1>1. PICK n \in Nat : n = Len(cs) BY CallFacts DEF Nested
<1>2. cs \in Seq(CallRecord) /\ DOMAIN cs = 1 .. n /\ n \in 1 .. n BY <1>1 DEF Nested
<1>3. /\ cs2 \in Seq(CallRecord) /\ Len(cs2) = n
      /\ cs2[n] = g /\ \A i \in 1 .. n : i # n => cs2[i] = cs[i] BY <1>1, <1>2
<1> QED BY <1>1, <1>2, <1>3 DEF Dealt, Moved

LEMMA DealtFacts ==
  ASSUME NEW cs, NEW rs, Nested(cs, rs), NEW cs2, NEW p, NEW a, Dealt(cs, cs2, p, a)
  PROVE  \E n \in Nat \ {0} :
           /\ n = Len(cs) /\ n = Len(cs2) /\ DOMAIN cs = 1 .. n /\ DOMAIN cs2 = 1 .. n
           /\ \A i \in 1 .. n : cs[i].at \in Nat /\ cs[i].block \in Block /\ cs2[i].block = cs[i].block
           /\ \A i \in 1 .. n - 1 : cs2[i] = cs[i]
           /\ cs2[n].at = cs[n].at + 1 /\ cs2[n].pushed = p /\ cs2[n].added = a
           /\ cs # <<>> /\ cs2 # <<>> /\ (Live(cs2) <=> Live(cs))
<1>1. Moved(cs, cs2) BY DEF Dealt
<1>2. PICK n \in Nat \ {0} :
        /\ n = Len(cs) /\ n = Len(cs2) /\ DOMAIN cs = 1 .. n /\ DOMAIN cs2 = 1 .. n
        /\ \A i \in 1 .. n : cs[i].at \in Nat /\ cs[i].block \in Block BY <1>1, MovedFacts
<1>3. n \in 1 .. n /\ 1 \in 1 .. n /\ \A i \in 1 .. n - 1 : i \in 1 .. n /\ i # n BY <1>2
<1>4. \A i \in 1 .. n : cs2[i].block = cs[i].block BY <1>1, <1>2 DEF Moved
<1>5. cs2[n].at = cs[n].at + 1 BY Zenon, <1>1, <1>2, <1>3 DEF Moved
<1>6. cs # <<>> /\ cs2 # <<>> BY <1>2
<1> QED BY <1>2, <1>3, <1>4, <1>5, <1>6 DEF Dealt, Live

LEMMA WrittenDealt ==
  ASSUME Fixed, DomTree, NEW cs, NEW rs, Nested(cs, rs), NEW cs2, Moved(cs, cs2),
         NEW rw, Written(cs, rs, rw), NEW rw2, NEW b, NEW k, b = cs[Len(cs)].block, k = cs[Len(cs)].at,
         \A c \in Block : \A j \in DOMAIN blocks[c] : Writes(rw, c, j) => Writes(rw2, c, j),
         k \in DOMAIN blocks[b] /\ Kept(blocks[b][k]) => Writes(rw2, b, k)
  PROVE  Written(cs2, rs, rw2)
<1> SUFFICES ASSUME NEW c \in Block, NEW j \in DOMAIN blocks[c], Kept(blocks[c][j]),
                    Reached(cs2, rs, c, j + 1)
             PROVE  Writes(rw2, c, j) BY DEF Written
<1>1. j \in Nat /\ j + 1 \in Nat /\ k \in Nat
 <2>1. j \in Nat BY CodeFacts
 <2>2. k \in Nat BY MovedFacts
 <2> QED BY <2>1, <2>2
<1>2. Reached(cs, rs, c, j + 1) \/ (c = b /\ j + 1 = k + 1) BY <1>1, MovedReached
<1>3. CASE Reached(cs, rs, c, j + 1) BY <1>3 DEF Written
<1>4. CASE c = b /\ j + 1 = k + 1 BY <1>1, <1>4
<1> QED BY <1>2, <1>3, <1>4

(* What had been reached still is. *)
StillReached(cs, rs, cs2, rs2) ==
  \A b \in Block : \A j \in DOMAIN blocks[b] : Reached(cs, rs, b, j + 1) => Reached(cs2, rs2, b, j + 1)

LEMMA FromReached ==
  ASSUME NEW cs, NEW rs, NEW cs2, NEW rs2, StillReached(cs, rs, cs2, rs2),
         NEW rw, RewrittenFrom(cs, rs, rw)
  PROVE  RewrittenFrom(cs2, rs2, rw)
<1> SUFFICES ASSUME NEW b \in Block, NEW k \in DOMAIN rw[b]
             PROVE  \E j \in DOMAIN blocks[b] :
                      /\ Kept(blocks[b][j]) /\ Defines(rw[b][k]) = Defines(blocks[b][j])
                      /\ Reached(cs2, rs2, b, j + 1) BY DEF RewrittenFrom
<1>1. PICK j \in DOMAIN blocks[b] : /\ Kept(blocks[b][j]) /\ Defines(rw[b][k]) = Defines(blocks[b][j])
                                   /\ Reached(cs, rs, b, j + 1) BY DEF RewrittenFrom
<1> QED BY <1>1 DEF StillReached

LEMMA FromDealt ==
  ASSUME Fixed, DomTree, NEW cs, NEW rs, Nested(cs, rs), NEW cs2, Moved(cs, cs2),
         NEW rw, RewrittenFrom(cs, rs, rw)
  PROVE  StillReached(cs, rs, cs2, rs) /\ RewrittenFrom(cs2, rs, rw)
<1>1. \A b \in Block : \A j \in DOMAIN blocks[b] : j + 1 \in Nat
 <2> SUFFICES ASSUME NEW b \in Block, NEW j \in DOMAIN blocks[b] PROVE j + 1 \in Nat OBVIOUS
 <2>1. j \in Nat BY CodeFacts
 <2> QED BY <2>1
<1>2. StillReached(cs, rs, cs2, rs) BY <1>1, MovedReached DEF StillReached
<1> QED BY <1>2, FromReached

LEMMA CountedDealt ==
  ASSUME Fixed, DomTree, NEW cs, NEW rs, Nested(cs, rs), NEW cs2, Moved(cs, cs2),
         cs[Len(cs)].at + 1 # End(cs[Len(cs)].block), NEW ph, Counted(cs, rs, ph)
  PROVE  Counted(cs2, rs, ph)
<1>1. \A b \in Block : End(b) \in Nat BY CodeFacts
<1>2. \A b \in Block : Reached(cs2, rs, b, End(b)) <=> Reached(cs, rs, b, End(b)) BY <1>1, MovedReached
<1> QED BY <1>2 DEF Counted

(* What is defined stays so. *)
Grows(ph, rw, ph2, rw2) ==
  \A i : \A b \in Block : DefinedIn(ph, rw, i, b) => DefinedIn(ph2, rw2, i, b)

LEMMA AvailGrows ==
  ASSUME IsFlow(succs), NEW ph, NEW rw, NEW ph2, NEW rw2, Grows(ph, rw, ph2, rw2),
         NEW b \in Block, NEW o, Avail(ph, rw, o, b)
  PROVE  Avail(ph2, rw2, o, b)
<1>1. Dominators(succs, b) \subseteq Block BY DominanceFacts
<1> QED BY <1>1 DEF Avail, Grows

LEMMA StacksDealt ==
  ASSUME DomTree, NEW cs, NEW rs, Nested(cs, rs), NEW cs2, NEW a,
         Dealt(cs, cs2, cs[Len(cs)].pushed, a),
         NEW st, NEW ph, NEW rw, StacksKnown(cs, st, ph, rw), NEW ph2, NEW rw2, Grows(ph, rw, ph2, rw2)
  PROVE  StacksKnown(cs2, st, ph2, rw2)
<1>1. PICK n \in Nat \ {0} :
        /\ n = Len(cs) /\ n = Len(cs2) /\ DOMAIN cs = 1 .. n /\ DOMAIN cs2 = 1 .. n
        /\ \A i \in 1 .. n : cs[i].at \in Nat /\ cs[i].block \in Block /\ cs2[i].block = cs[i].block
        /\ \A i \in 1 .. n - 1 : cs2[i] = cs[i]
        /\ cs2[n].at = cs[n].at + 1 /\ cs2[n].pushed = cs[Len(cs)].pushed /\ cs2[n].added = a
        /\ cs # <<>> /\ cs2 # <<>> /\ (Live(cs2) <=> Live(cs)) BY DealtFacts
<1>2. \A i \in 1 .. n : cs2[i].pushed = cs[i].pushed
 <2>1. \A i \in 1 .. n : i = n \/ i \in 1 .. n - 1 OBVIOUS
 <2> QED BY <1>1, <2>1
<1>3. PICK m : Heights(cs, st, m) /\ StacksAvail(cs, st, m, ph, rw) BY DEF StacksKnown
<1>4. Heights(cs2, st, m) BY <1>1, <1>2, <1>3 DEF Heights
<1>5. StacksAvail(cs2, st, m, ph2, rw2)
 <2> SUFFICES ASSUME Live(cs2), NEW i \in 1 .. n, NEW v \in promotable, NEW p \in 1 .. m[i][v]
              PROVE  Avail(ph2, rw2, st[v][p], cs2[i].block) BY <1>1 DEF StacksAvail
 <2>1. Avail(ph, rw, st[v][p], cs[i].block) BY <1>1, <1>3 DEF StacksAvail
 <2>2. cs2[i].block = cs[i].block /\ cs[i].block \in Block /\ IsFlow(succs) BY <1>1 DEF DomTree
 <2> QED BY <2>1, <2>2, AvailGrows
<1> QED BY <1>4, <1>5 DEF StacksKnown

(* Promoted loads. *)
LEMMA LoadsFollow ==
  ASSUME Fixed, NEW b \in Block, NEW k \in Nat
  PROVE  /\ LoadedBefore(b, 1) = {}
         /\ k \in DOMAIN blocks[b] /\ PromotedLoad(blocks[b][k]) =>
              LoadedBefore(b, k + 1) = LoadedBefore(b, k) \cup {blocks[b][k].dst}
         /\ ~(k \in DOMAIN blocks[b] /\ PromotedLoad(blocks[b][k])) =>
              LoadedBefore(b, k + 1) = LoadedBefore(b, k)
<1>1. \A j \in DOMAIN blocks[b] : j \in Nat /\ j > 0 /\ (j < k + 1 <=> j < k \/ j = k) BY CodeFacts
<1>2. LoadedBefore(b, 1) = {} BY <1>1 DEF LoadedBefore
<1>3. \A j \in DOMAIN blocks[b] : PromotedLoad(blocks[b][j]) => blocks[b][j].dst \in Id
 <2>1. \A j \in DOMAIN blocks[b] : blocks[b][j] \in Stmt BY CodeFacts
 <2> QED BY <2>1 DEF PromotedLoad, Stmt, Alloca
<1>4. ASSUME k \in DOMAIN blocks[b], PromotedLoad(blocks[b][k])
      PROVE  LoadedBefore(b, k + 1) = LoadedBefore(b, k) \cup {blocks[b][k].dst} BY <1>1, <1>3, <1>4 DEF LoadedBefore
<1>5. ASSUME ~(k \in DOMAIN blocks[b] /\ PromotedLoad(blocks[b][k]))
      PROVE  LoadedBefore(b, k + 1) = LoadedBefore(b, k) BY <1>1, <1>5 DEF LoadedBefore
<1> QED BY <1>2, <1>4, <1>5

LEMMA AliasesDealt ==
  ASSUME Fixed, DomTree, NEW cs, NEW rs, Nested(cs, rs), NEW cs2, NEW p,
         Dealt(cs, cs2, p, cs[Len(cs)].added),
         NEW b, NEW k, b = cs[Len(cs)].block, k = cs[Len(cs)].at,
         ~(k \in DOMAIN blocks[b] /\ PromotedLoad(blocks[b][k])),
         NEW al, NEW ph, NEW rw, AliasesKnown(cs, al, ph, rw), NEW ph2, NEW rw2, Grows(ph, rw, ph2, rw2)
  PROVE  AliasesKnown(cs2, al, ph2, rw2)
<1>1. PICK n \in Nat \ {0} :
        /\ n = Len(cs) /\ n = Len(cs2) /\ DOMAIN cs = 1 .. n /\ DOMAIN cs2 = 1 .. n
        /\ \A i \in 1 .. n : cs[i].at \in Nat /\ cs[i].block \in Block /\ cs2[i].block = cs[i].block
        /\ \A i \in 1 .. n - 1 : cs2[i] = cs[i]
        /\ cs2[n].at = cs[n].at + 1 /\ cs2[n].pushed = p /\ cs2[n].added = cs[Len(cs)].added
        /\ cs # <<>> /\ cs2 # <<>> /\ (Live(cs2) <=> Live(cs)) BY DealtFacts
<1>2. \A i \in 1 .. n : i = n \/ i \in 1 .. n - 1 OBVIOUS
<1>3. \A i \in 1 .. n : cs2[i].added = cs[i].added BY <1>1, <1>2
<1>4. n \in 1 .. n /\ b \in Block /\ k \in Nat BY <1>1
<1>5. LoadedBefore(b, k + 1) = LoadedBefore(b, k) BY <1>4, LoadsFollow
<1>6. ASSUME NEW i \in 1 .. n PROVE cs2[i].added = LoadedBefore(cs2[i].block, cs2[i].at)
 <2>1. cs[i].added = LoadedBefore(cs[i].block, cs[i].at) BY <1>1 DEF AliasesKnown
 <2>2. CASE i = n BY <1>1, <1>5, <2>1, <2>2
 <2>3. CASE i \in 1 .. n - 1 BY <1>1, <2>1, <2>3
 <2> QED BY <1>2, <2>2, <2>3
<1>7. \A x \in DOMAIN al : \E i \in 1 .. n : x \in cs2[i].added BY <1>1, <1>3 DEF AliasesKnown
<1>8. ASSUME NEW i \in 1 .. n, NEW x \in cs2[i].added
      PROVE  x \in DOMAIN al /\ (Live(cs2) => Avail(ph2, rw2, al[x], cs2[i].block))
 <2>1. x \in DOMAIN al /\ (Live(cs) => Avail(ph, rw, al[x], cs[i].block)) BY <1>1, <1>3, <1>8 DEF AliasesKnown
 <2>2. cs2[i].block = cs[i].block /\ cs[i].block \in Block /\ IsFlow(succs) BY <1>1 DEF DomTree
 <2> QED BY <1>1, <2>1, <2>2, AvailGrows
<1> QED BY <1>1, <1>6, <1>7, <1>8 DEF AliasesKnown

LEMMA BeforeGrows ==
  ASSUME DomTree, NEW ph, NEW rw, NEW ph2, NEW rw2, Grows(ph, rw, ph2, rw2),
         NEW b \in Reachable(succs), NEW i, NEW k \in Int,
         \A x : (\E j \in DOMAIN ph[b] : ph[b][j].dst = x) => \E j \in DOMAIN ph2[b] : ph2[b][j].dst = x,
         \A j \in 1 .. k - 1 : rw2[b][j] = rw[b][j],
         Before(ph, rw, i, b, k)
  PROVE  Before(ph2, rw2, i, b, k)
<1>1. Dominators(succs, b) \subseteq Block BY DominanceFacts DEF DomTree
<1> QED BY <1>1 DEF Before, DefinedAbove, Grows

LEMMA IncomingsGrow ==
  ASSUME DomTree, NEW ph, NEW rw, NEW rw2, Grows(ph, rw, ph, rw2), IncomingsKnown(ph, rw)
  PROVE  IncomingsKnown(ph, rw2)
<1>1. \A b \in Reachable(succs) : Dominators(succs, b) \subseteq Block BY DominanceFacts DEF DomTree
<1> QED BY <1>1 DEF IncomingsKnown, ValueKnown, Grows
-----------------------------------------------------------------------------
(* Below the entry the blocks of the calls are reachable, and they are all that
   dominates the last. *)
LEMMA LiveCalls ==
  ASSUME DomTree, NEW cs, NEW rs, Nested(cs, rs), Live(cs)
  PROVE  \A i \in DOMAIN cs :
           /\ cs[i].block \in Block /\ cs[i].block \in Reachable(succs)
           /\ \A d : d \in Dominators(succs, cs[i].block) <=> Around(cs, i, d)
<1>1. PICK n \in Nat : n = Len(cs) BY CallFacts DEF Nested
<1>2. DOMAIN cs = 1 .. n /\ \A i \in 1 .. n : cs[i].block \in Block BY <1>1, CallFacts DEF Nested
<1> SUFFICES ASSUME NEW i \in 1 .. n
             PROVE  /\ cs[i].block \in Reachable(succs)
                    /\ \A d : d \in Dominators(succs, cs[i].block) <=> Around(cs, i, d) BY <1>2
<1>3. cs[i].block \in Reachable(succs)
 <2>1. CASE i = 1 BY <2>1 DEF Live, DomTree
 <2>2. CASE i # 1
  <3>1. i - 1 \in 1 .. n /\ (i - 1) + 1 = i BY <2>2
  <3>2. idom[cs[i].block] = cs[i - 1].block BY <1>2, <3>1 DEF Nested
  <3>3. idom[cs[i].block] # None /\ cs[i].block \in Block BY <1>2, <3>1, <3>2, BlockFacts
  <3> QED BY <3>3 DEF DomTree
 <2> QED BY <2>1, <2>2
<1>4. \A d : TreeDominates(idom, d, cs[i].block) <=> Around(cs, i, d) BY <1>2, CallPath
<1>5. \A d : Around(cs, i, d) => d \in Block
 <2>1. \A j \in 1 .. i : j \in 1 .. n OBVIOUS
 <2> QED BY <1>2, <2>1 DEF Around
<1>6. Dominators(succs, cs[i].block) \subseteq Block BY <1>2, DominanceFacts DEF DomTree
<1> QED BY <1>3, <1>4, <1>5, <1>6 DEF DomTree

LEMMA ReachableLive ==
  ASSUME DomTree, NEW cs, NEW rs, Nested(cs, rs), cs # <<>>, cs[Len(cs)].block \in Reachable(succs) PROVE Live(cs)
<1>1. PICK n \in Nat : n = Len(cs) BY CallFacts DEF Nested
<1>2. DOMAIN cs = 1 .. n /\ n \in 1 .. n /\ 1 \in 1 .. n /\ cs[1].block \in Block
 <2>1. DOMAIN cs = 1 .. n /\ n # 0 BY <1>1, CallFacts DEF Nested
 <2> QED BY <2>1, CallFacts DEF Nested
<1>3. Around(cs, n, cs[1].block) BY <1>2 DEF Around
<1>4. TreeDominates(idom, cs[1].block, cs[n].block) BY <1>2, <1>3, CallPath
<1>5. cs[1].block \in Reachable(succs) BY <1>1, <1>4 DEF DomTree
<1>6. idom[cs[1].block] = None BY DEF Nested, Roots
<1> QED BY <1>5, <1>6 DEF DomTree, Live

LEMMA AvailBelow ==
  ASSUME DomTree, NEW cs, NEW rs, Nested(cs, rs), Live(cs), NEW i \in DOMAIN cs, NEW k \in DOMAIN cs,
         i <= k, NEW ph, NEW rw, NEW o, Avail(ph, rw, o, cs[i].block)
  PROVE  Avail(ph, rw, o, cs[k].block)
<1>1. i \in Nat /\ k \in Nat BY CallFacts DEF Nested
<1>2. \A d : Around(cs, i, d) => Around(cs, k, d)
 <2>1. \A j \in 1 .. i : j \in 1 .. k BY <1>1
 <2> QED BY <2>1 DEF Around
<1>3. \A d \in Dominators(succs, cs[i].block) : d \in Dominators(succs, cs[k].block) BY <1>2, LiveCalls
<1> QED BY <1>3 DEF Avail

(* The result of a removed load is defined nowhere. *)
Aliased(o) == o.kind = "local" /\ o.id \in DOMAIN alias_map

LEMMA AliasUndefined ==
  ASSUME RenameInv, NEW x \in DOMAIN alias_map, NEW b \in Block PROVE ~DefinedIn(phis, rewritten, x, b)
<1>0. Fixed /\ PhisDistinct /\ RewrittenFrom(calls, roots, rewritten) /\ Nested(calls, roots) BY DEF RenameInv
<1>1. PICK i \in DOMAIN calls : x \in LoadedBefore(calls[i].block, calls[i].at) BY DEF RenameInv, AliasesKnown
<1> DEFINE c == calls[i].block
<1>2. c \in Block BY <1>0, CallFacts DEF Nested
<1> HIDE DEF c
<1>3. PICK j \in DOMAIN blocks[c] : PromotedLoad(blocks[c][j]) /\ x = blocks[c][j].dst BY <1>1 DEF LoadedBefore, c
<1>4. x \in Defines(blocks[c][j]) BY <1>3 DEF PromotedLoad, Defines
<1>5. ~(\E k \in DOMAIN phis[b] : phis[b][k].dst = x) BY <1>0, <1>2, <1>4 DEF PhisDistinct
<1>6. ASSUME NEW k \in DOMAIN rewritten[b], x \in Defines(rewritten[b][k]) PROVE FALSE
 <2>1. PICK l \in DOMAIN blocks[b] :
         Kept(blocks[b][l]) /\ Defines(rewritten[b][k]) = Defines(blocks[b][l]) BY <1>0 DEF RewrittenFrom
 <2>2. Defines(blocks[b][l]) \cap Defines(blocks[c][j]) # {} BY <1>4, <1>6, <2>1
 <2>3. b = c /\ l = j BY <1>0, <1>2, <2>2 DEF Fixed, DefinedOnce
 <2> QED BY <1>3, <2>1, <2>3 DEF Kept, PromotedLoad
<1> QED BY <1>5, <1>6 DEF DefinedIn

LEMMA AvailUnaliased ==
  ASSUME DomTree, RenameInv, NEW b \in Block, NEW o, Avail(phis, rewritten, o, b) PROVE o \in Operand /\ ~Aliased(o)
<1>1. Dominators(succs, b) \subseteq Block BY DominanceFacts DEF DomTree
<1> QED BY <1>1, AliasUndefined DEF Avail, Aliased

(* So an alias is followed once. *)
LEMMA AliasAvail ==
  ASSUME DomTree, RenameInv, Live(calls), NEW x \in DOMAIN alias_map
  PROVE  alias_map[x] \in Operand /\ ~Aliased(alias_map[x])
<1>1. PICK i \in DOMAIN calls : x \in calls[i].added BY DEF RenameInv, AliasesKnown
<1>2. Avail(phis, rewritten, alias_map[x], calls[i].block) BY <1>1 DEF RenameInv, AliasesKnown
<1>3. calls[i].block \in Block BY CallFacts DEF RenameInv, Nested
<1> QED BY <1>2, <1>3, AvailUnaliased

LEMMA ResolveOnce ==
  ASSUME DomTree, RenameInv, Live(calls), NEW o \in Operand
  PROVE  Resolve(o) = IF Aliased(o) THEN alias_map[o.id] ELSE o
<1> DEFINE At(f, p) == IF p.kind = "local" /\ p.id \in DOMAIN alias_map THEN f[alias_map[p.id]] ELSE p
           end == CHOOSE f : f = [p \in Operand |-> At(f, p)]
           g == [p \in Operand |-> IF Aliased(p) THEN alias_map[p.id] ELSE p]
<1>1. \A f : \A p : At(f, p) = IF Aliased(p) THEN f[alias_map[p.id]] ELSE p BY DEF Aliased
<1>2. \A p \in Operand : g[p] = IF Aliased(p) THEN alias_map[p.id] ELSE p OBVIOUS
<1>3. \A p \in Operand : Aliased(p) => alias_map[p.id] \in Operand /\ ~Aliased(alias_map[p.id]) BY AliasAvail DEF Aliased
<1>4. g = [p \in Operand |-> g[p]] OBVIOUS
<1>5. Resolve(o) = end[o] BY DEF Resolve
<1> HIDE DEF At, g
<1>6. \A p \in Operand : At(g, p) = g[p] BY <1>1, <1>2, <1>3
<1>7. g = [p \in Operand |-> At(g, p)] BY <1>4, <1>6
<1>8. end = [p \in Operand |-> At(end, p)] BY <1>7
<1> HIDE DEF end
<1>9. \A p \in Operand : end[p] = At(end, p) BY <1>8
<1> QED BY <1>1, <1>3, <1>5, <1>9

(* What the code reads and stores when it renames is available. *)
LEMMA FrameFacts ==
  ASSUME RenameInv, calls # <<>>
  PROVE  \E n \in Nat \ {0} :
           /\ n = Len(calls) /\ DOMAIN calls = 1 .. n /\ Frame = calls[n] /\ n \in 1 .. n
           /\ Frame \in CallRecord /\ Frame.block \in Block /\ Frame.at \in Nat
           /\ 1 <= Frame.at /\ Frame.at <= End(Frame.block)
<1>1. Nested(calls, roots) /\ calls \in Seq(CallRecord) BY DEF RenameInv, Nested
<1>2. PICK n \in Nat : n = Len(calls) BY <1>1, CallFacts
<1>3. n # 0 /\ DOMAIN calls = 1 .. n /\ n \in 1 .. n BY <1>1, <1>2
<1>4. Frame = calls[n] /\ Frame \in CallRecord /\ Frame.block \in Block /\ Frame.at \in Nat
  BY <1>1, <1>2, <1>3, CallFacts DEF Frame
<1>5. 1 <= Frame.at /\ Frame.at <= End(Frame.block) BY <1>1, <1>3, <1>4 DEF Nested
<1> QED BY <1>2, <1>3, <1>4, <1>5

LEMMA CurrentAvail ==
  ASSUME DomTree, RenameInv, Live(calls), NEW v \in promotable
  PROVE  Avail(phis, rewritten, CurrentValue(v), Frame.block)
<1>0. calls # <<>> BY DEF Live
<1>1. CASE var_stack[v] = <<>>
 <2>1. CurrentValue(v) = Const(0) BY <1>1 DEF CurrentValue
 <2> QED BY <2>1 DEF Const, Avail, Operand
<1>2. CASE var_stack[v] # <<>>
 <2>1. PICK n \in Nat \ {0} :
         /\ n = Len(calls) /\ DOMAIN calls = 1 .. n /\ Frame = calls[n] /\ n \in 1 .. n
         /\ Frame.block \in Block BY <1>0, FrameFacts
 <2>2. PICK S : var_stack \in [promotable -> Seq(S)] BY DEF RenameInv, StacksTyped
 <2>3. PICK h \in Nat : h = Len(var_stack[v]) BY <2>2
 <2>4. h \in 1 .. h /\ Last(var_stack[v]) = var_stack[v][h] BY <1>2, <2>2, <2>3 DEF Last
 <2>5. PICK m : Heights(calls, var_stack, m) /\ StacksAvail(calls, var_stack, m, phis, rewritten) BY DEF RenameInv, StacksKnown
 <2>6. m[n][v] = h BY <1>0, <2>1, <2>3, <2>5 DEF Heights
 <2>7. Avail(phis, rewritten, var_stack[v][h], Frame.block) BY <2>1, <2>4, <2>5, <2>6 DEF StacksAvail
 <2>8. var_stack[v][h] \in Operand /\ ~Aliased(var_stack[v][h]) BY <2>1, <2>7, AvailUnaliased
 <2>9. CurrentValue(v) = var_stack[v][h] BY <1>2, <2>4, <2>8, ResolveOnce DEF CurrentValue
 <2> QED BY <2>7, <2>9
<1> QED BY <1>1, <1>2

(* A local defined earlier in the block or above is available under its name,
   unless it was that of a removed statement. *)
LEMMA EarlierAvail ==
  ASSUME DomTree, RenameInv, Live(calls), NEW i \in DOMAIN calls, NEW j \in DOMAIN blocks[calls[i].block],
         j < calls[i].at, NEW o \in Operand, o.kind = "local", o.id \notin promotable,
         o.id \in Defines(blocks[calls[i].block][j])
  PROVE  Avail(phis, rewritten, Resolve(o), calls[i].block)
<1>1. Fixed /\ Nested(calls, roots) /\ Written(calls, roots, rewritten) BY DEF RenameInv
<1> DEFINE b == calls[i].block
<1>2. b \in Block /\ b \in Dominators(succs, b) /\ Dominators(succs, b) \subseteq Block
 <2>1. b \in Block BY <1>1, CallFacts DEF Nested
 <2> QED BY <2>1, DominanceFacts DEF DomTree
<1>3. j \in Nat /\ calls[i].at \in Nat /\ blocks[b][j] \in Stmt BY <1>1, <1>2, CodeFacts, CallFacts DEF Nested
<1>4. Reached(calls, roots, b, j + 1)
 <2>1. ~Pending(calls, roots, b) BY <1>1, CallsNotPending
 <2>2. \A k \in DOMAIN calls : calls[k].block = b => k = i BY <1>1, CallPath
 <2>3. j + 1 <= calls[i].at BY <1>3
 <2> QED BY <2>1, <2>2, <2>3 DEF Reached
<1>5. CASE Kept(blocks[b][j])
 <2>1. Writes(rewritten, b, j) BY <1>1, <1>2, <1>4, <1>5 DEF Written
 <2>2. DefinedIn(phis, rewritten, o.id, b) BY <2>1 DEF Writes, DefinedIn
 <2>3. Avail(phis, rewritten, o, b) BY <1>2, <2>2 DEF Avail
 <2>4. Resolve(o) = o BY <1>2, <2>3, AvailUnaliased, ResolveOnce
 <2> QED BY <2>3, <2>4
<1>6. CASE ~Kept(blocks[b][j])
 <2>1. blocks[b][j].op # "store" /\ o.id = blocks[b][j].dst BY DEF Defines
 <2>2. PromotedLoad(blocks[b][j]) BY <1>6, <2>1 DEF Kept, PromotedLoad
 <2>3. o.id \in Id BY <1>3, <2>1, StmtFacts
 <2>4. o.id \in LoadedBefore(b, calls[i].at) BY <2>1, <2>2, <2>3 DEF LoadedBefore
 <2>5. o.id \in calls[i].added BY <2>4 DEF RenameInv, AliasesKnown
 <2>6. Aliased(o) /\ Avail(phis, rewritten, alias_map[o.id], b) BY <2>5 DEF RenameInv, AliasesKnown, Aliased
 <2> QED BY <2>6, ResolveOnce
<1> QED BY <1>5, <1>6

LEMMA ResolvedAvail ==
  ASSUME DomTree, RenameInv, Live(calls), Reading, NEW o \in ReadOperands(ThisStmt),
         o \in Operand, ~IsPromoted(o)
  PROVE  Avail(phis, rewritten, Resolve(o), Frame.block)
<1>1. Fixed /\ Nested(calls, roots) BY DEF RenameInv
<1>2. PICK n \in Nat \ {0} :
        /\ n = Len(calls) /\ DOMAIN calls = 1 .. n /\ Frame = calls[n] /\ n \in 1 .. n
        /\ Frame.block \in Block /\ Frame.at \in Nat /\ 1 <= Frame.at BY FrameFacts DEF Reading
<1> DEFINE b == Frame.block
           k == Frame.at
<1>3. k \in DOMAIN blocks[b] /\ ThisStmt = blocks[b][k]
 <2>1. Len(blocks[b]) \in Nat /\ DOMAIN blocks[b] = 1 .. Len(blocks[b]) BY <1>1, <1>2, CodeFacts
 <2> QED BY <1>2, <2>1 DEF Reading, ThisStmt
<1>4. b \in Reachable(succs) /\ \A d : d \in Dominators(succs, b) <=> Around(calls, n, d) BY <1>1, <1>2, LiveCalls
<1>5. CASE o.kind # "local"
 <2>1. Resolve(o) = o BY <1>5, ResolveOnce DEF Aliased
 <2> QED BY <1>5, <2>1 DEF Avail
<1>6. CASE o.kind = "local"
 <2>1. o.id \notin promotable BY <1>6 DEF IsPromoted
 <2>2. \/ \E j \in 1 .. k - 1 : o.id \in Defines(blocks[b][j])
       \/ \E d \in Dominators(succs, b) \ {b} : \E j \in DOMAIN blocks[d] :
            o.id \in Defines(blocks[d][j]) BY <1>1, <1>3, <1>4, <1>6 DEF Fixed, DefinedFirst
 <2>3. CASE \E j \in 1 .. k - 1 : o.id \in Defines(blocks[b][j])
  <3>1. PICK j \in 1 .. k - 1 : o.id \in Defines(blocks[b][j]) BY <2>3
  <3>2. j \in DOMAIN blocks[b] /\ j < k
   <4>1. Len(blocks[b]) \in Nat /\ DOMAIN blocks[b] = 1 .. Len(blocks[b]) BY <1>1, <1>2, CodeFacts
   <4> QED BY <1>2, <1>3, <4>1
  <3> QED BY <1>2, <1>6, <2>1, <3>1, <3>2, EarlierAvail
 <2>4. CASE \E d \in Dominators(succs, b) \ {b} : \E j \in DOMAIN blocks[d] :
              o.id \in Defines(blocks[d][j])
  <3>1. PICK d \in Dominators(succs, b) \ {b} : \E j \in DOMAIN blocks[d] :
               o.id \in Defines(blocks[d][j]) BY <2>4
  <3>2. PICK i \in 1 .. n : d = calls[i].block BY <1>4, <3>1 DEF Around
  <3>3. i # n /\ i \in DOMAIN calls /\ i + 1 \in DOMAIN calls BY <1>2, <3>1, <3>2
  <3>4. calls[i].at = End(d) BY <1>1, <3>2, <3>3 DEF Nested
  <3>5. PICK j \in DOMAIN blocks[d] : o.id \in Defines(blocks[d][j]) BY <3>1
  <3>6. d \in Block BY <1>1, <3>2, <3>3, CallFacts DEF Nested
  <3>7. j < calls[i].at BY <1>1, <3>4, <3>6, CodeFacts
  <3>8. Avail(phis, rewritten, Resolve(o), calls[i].block) BY <1>6, <2>1, <3>2, <3>3, <3>5, <3>7, EarlierAvail
  <3> QED BY <1>1, <1>2, <3>3, <3>8, AvailBelow
 <2> QED BY <2>2, <2>3, <2>4
<1> QED BY <1>5, <1>6
-----------------------------------------------------------------------------
(* The steps of the renaming. *)
LEMMA TypedKept ==
  ASSUME RenameInv, UNCHANGED <<function, promotable, placing>>
  PROVE  /\ UNCHANGED <<succs, idom, blocks, promotable>> /\ frontier' = {} /\ Fixed'
         /\ phis' = phis => PhisTyped' /\ PhisDistinct'
         /\ var_stack' = var_stack => StacksTyped'
         /\ rewritten' = rewritten => RewrittenTyped'
<1>1. /\ succs' = succs /\ idom' = idom /\ blocks' = blocks /\ promotable' = promotable
      /\ frontier' = {} BY DEF function, dominatorsVars, graph, placing, RenameInv
<1>2. Fixed' BY <1>1, FixedKept DEF RenameInv
<1>3. ASSUME phis' = phis PROVE PhisTyped' /\ PhisDistinct'
 <2>1. PhisTyped' BY <1>1, <1>3 DEF RenameInv, PhisTyped, PhiRecord
 <2>2. PhisDistinct' BY <1>1, <1>3 DEF RenameInv, PhisDistinct
 <2> QED BY <2>1, <2>2
<1>4. ASSUME var_stack' = var_stack PROVE StacksTyped' BY <1>1, <1>4 DEF RenameInv, StacksTyped
<1>5. ASSUME rewritten' = rewritten PROVE RewrittenTyped' BY <1>5 DEF RenameInv, RewrittenTyped
<1> QED BY <1>1, <1>2, <1>3, <1>4, <1>5

LEMMA ReadingFacts ==
  ASSUME RenameInv, Reading
  PROVE  /\ calls # <<>> /\ Frame = calls[Len(calls)]
         /\ Frame.at \in DOMAIN blocks[Frame.block] /\ ThisStmt = blocks[Frame.block][Frame.at]
         /\ ThisStmt \in Stmt
         /\ Frame.at < End(Frame.block) /\ Frame.at + 1 # End(Frame.block)
<1>1. calls # <<>> BY DEF Reading
<1>2. Frame.block \in Block /\ Frame.at \in Nat /\ 1 <= Frame.at BY <1>1, FrameFacts
<1>3. /\ Len(blocks[Frame.block]) \in Nat /\ DOMAIN blocks[Frame.block] = 1 .. Len(blocks[Frame.block])
      /\ End(Frame.block) = Len(blocks[Frame.block]) + 2
      /\ \A j \in DOMAIN blocks[Frame.block] : blocks[Frame.block][j] \in Stmt BY <1>2, CodeFacts DEF RenameInv
<1>4. Frame.at <= Len(blocks[Frame.block]) BY DEF Reading
<1> QED BY <1>1, <1>2, <1>3, <1>4 DEF ThisStmt, Frame

LEMMA NothingGrows == ASSUME NEW ph, NEW rw PROVE Grows(ph, rw, ph, rw) BY DEF Grows

LEMMA StepAlloca == ASSUME DomTree, RenameInv, RenameAlloca PROVE RenameInv'
<1>1. /\ Reading /\ ThisStmt.op = "alloca" /\ ThisStmt.dst \in promotable
      /\ calls' = [calls EXCEPT ![Len(calls)].at = @ + 1]
      /\ UNCHANGED <<function, promotable, placing>>
      /\ phis' = phis /\ roots' = roots /\ var_stack' = var_stack
      /\ alias_map' = alias_map /\ rewritten' = rewritten BY DEF RenameAlloca
<1>2. /\ calls # <<>> /\ Frame = calls[Len(calls)]
      /\ Frame.at \in DOMAIN blocks[Frame.block] /\ ThisStmt = blocks[Frame.block][Frame.at]
      /\ Frame.at < End(Frame.block) /\ Frame.at + 1 # End(Frame.block) BY <1>1, ReadingFacts
<1>3. Frame \in CallRecord /\ Frame.at \in Nat BY <1>2, FrameFacts
<1>4. /\ Fixed /\ Nested(calls, roots)
      /\ RewrittenFrom(calls, roots, rewritten) /\ DefinedOnce(rewritten)
      /\ Written(calls, roots, rewritten)
      /\ Counted(calls, roots, phis) /\ StacksKnown(calls, var_stack, phis, rewritten)
      /\ AliasesKnown(calls, alias_map, phis, rewritten)
      /\ ReadsKnown(phis, rewritten) /\ IncomingsKnown(phis, rewritten) BY DEF RenameInv
<1>5. Dealt(calls, calls', Frame.pushed, Frame.added)
 <2> DEFINE g == [Frame EXCEPT !.at = @ + 1]
 <2>1. /\ g \in CallRecord /\ g.block = Frame.block /\ g.children = Frame.children
       /\ g.at = Frame.at + 1 /\ g.pushed = Frame.pushed /\ g.added = Frame.added BY <1>3 DEF CallRecord
 <2>2. calls' = [calls EXCEPT ![Len(calls)] = g] BY <1>1, <1>2
 <2> HIDE DEF g
 <2> QED BY <1>2, <1>4, <2>1, <2>2, DealtWith
<1>6. Moved(calls, calls') BY <1>5 DEF Dealt
<1>7. Nested(calls', roots) BY <1>2, <1>4, <1>6, MovedNested
<1>8. Written(calls', roots, rewritten)
 <2>1. ~Kept(blocks[Frame.block][Frame.at]) BY <1>1, <1>2 DEF Kept
 <2> QED BY <1>2, <1>4, <1>6, <2>1, WrittenDealt
<1>9. Counted(calls', roots, phis) BY <1>2, <1>4, <1>6, CountedDealt
<1>10. StacksKnown(calls', var_stack, phis, rewritten) BY <1>2, <1>4, <1>5, StacksDealt, NothingGrows
<1>11. AliasesKnown(calls', alias_map, phis, rewritten)
 <2>1. ~PromotedLoad(blocks[Frame.block][Frame.at]) BY <1>1, <1>2 DEF PromotedLoad
 <2> QED BY <1>2, <1>4, <1>5, <2>1, AliasesDealt, NothingGrows
<1>12. Renaming(calls', roots', var_stack', alias_map', phis', rewritten')
 <2>1. RewrittenFrom(calls', roots, rewritten) BY <1>4, <1>6, FromDealt
 <2> QED BY <1>1, <1>4, <1>7, <1>8, <1>9, <1>10, <1>11, <2>1 DEF Renaming
<1> QED BY <1>1, <1>12, TypedKept, RenameBuilt

LEMMA LoadedThere ==
  ASSUME Fixed, NEW b \in Block, NEW k, NEW x \in LoadedBefore(b, k),
         NEW c \in Block, NEW j \in DOMAIN blocks[c], x \in Defines(blocks[c][j])
  PROVE  b = c
<1>1. PICK l \in DOMAIN blocks[b] : PromotedLoad(blocks[b][l]) /\ x = blocks[b][l].dst BY DEF LoadedBefore
<1>2. x \in Defines(blocks[b][l]) BY <1>1 DEF PromotedLoad, Defines
<1>3. Defines(blocks[b][l]) \cap Defines(blocks[c][j]) # {} BY <1>2
<1> QED BY <1>3 DEF Fixed, DefinedOnce

Gains(al, al2, x, o) ==
  /\ DOMAIN al2 = DOMAIN al \cup {x} /\ al2[x] = o
  /\ \A y \in DOMAIN al : y # x => al2[y] = al[y]

LEMMA AliasAdded ==
  ASSUME DomTree, RenameInv, Reading, PromotedLoad(ThisStmt), NEW cs2, NEW a, a = Frame.added \cup {ThisStmt.dst},
         Dealt(calls, cs2, Frame.pushed, a),
         NEW al2, Gains(alias_map, al2, ThisStmt.dst, CurrentValue(ThisStmt.ptr.id))
  PROVE  AliasesKnown(cs2, al2, phis, rewritten)
<1> DEFINE b == Frame.block
           k == Frame.at
           x0 == ThisStmt.dst
<1>1. /\ Fixed /\ Nested(calls, roots) /\ AliasesKnown(calls, alias_map, phis, rewritten)
      /\ k \in DOMAIN blocks[b] /\ ThisStmt = blocks[b][k] /\ ThisStmt \in Stmt
      /\ Frame = calls[Len(calls)] /\ a = Frame.added \cup {x0} BY ReadingFacts DEF RenameInv
<1>2. PICK n \in Nat \ {0} :
        /\ n = Len(calls) /\ n = Len(cs2) /\ DOMAIN calls = 1 .. n /\ DOMAIN cs2 = 1 .. n
        /\ \A i \in 1 .. n : calls[i].at \in Nat /\ calls[i].block \in Block /\ cs2[i].block = calls[i].block
        /\ \A i \in 1 .. n - 1 : cs2[i] = calls[i]
        /\ cs2[n].at = calls[n].at + 1 /\ cs2[n].pushed = Frame.pushed
        /\ cs2[n].added = a
        /\ calls # <<>> /\ cs2 # <<>> /\ (Live(cs2) <=> Live(calls)) BY Zenon, <1>1, DealtFacts
<1>3. \A i \in 1 .. n : i = n \/ i \in 1 .. n - 1 OBVIOUS
<1>4. n \in 1 .. n /\ b \in Block /\ k \in Nat /\ Frame = calls[n]
 <2>1. n \in 1 .. n /\ Frame = calls[n]
  <3>1. n \in 1 .. n /\ n = Len(calls) BY <1>2
  <3> QED BY <3>1 DEF Frame
 <2>2. calls[n].block \in Block /\ calls[n].at \in Nat BY <1>2, <2>1
 <2> QED BY <2>1, <2>2
<1>5. LoadedBefore(b, k + 1) = LoadedBefore(b, k) \cup {x0} BY Zenon, <1>1, <1>4, LoadsFollow
<1>6. x0 \in Defines(blocks[b][k]) BY Zenon, <1>1 DEF PromotedLoad, Defines
<1>7. /\ DOMAIN al2 = DOMAIN alias_map \cup {x0} /\ al2[x0] = CurrentValue(ThisStmt.ptr.id)
      /\ \A x \in DOMAIN alias_map : x # x0 => al2[x] = alias_map[x] BY DEF Gains
<1> HIDE DEF b, k, x0
<1>8. ASSUME NEW i \in 1 .. n PROVE cs2[i].added = LoadedBefore(cs2[i].block, cs2[i].at)
 <2>1. calls[i].added = LoadedBefore(calls[i].block, calls[i].at) BY <1>1, <1>2 DEF AliasesKnown
 <2>2. CASE i = n BY Zenon, <1>1, <1>2, <1>4, <1>5, <2>1, <2>2 DEF b, k
 <2>3. CASE i \in 1 .. n - 1 BY <1>2, <2>1, <2>3
 <2> QED BY <1>3, <2>2, <2>3
<1>9. ASSUME NEW x \in DOMAIN al2 PROVE \E i \in 1 .. n : x \in cs2[i].added
 <2>1. CASE x = x0 BY <1>1, <1>2, <1>4, <2>1
 <2>2. CASE x # x0
  <3>1. PICK i \in 1 .. n : x \in calls[i].added BY <1>1, <1>2, <1>7, <2>2 DEF AliasesKnown
  <3>2. x \in cs2[i].added BY <1>1, <1>2, <1>3, <1>4, <3>1
  <3> QED BY <3>2
 <2> QED BY <2>1, <2>2
<1>10. ASSUME NEW i \in 1 .. n, NEW x \in cs2[i].added
       PROVE  x \in DOMAIN al2 /\ (Live(cs2) => Avail(phis, rewritten, al2[x], cs2[i].block))
 <2>1. CASE x = x0
  <3>1. i = n
   <4> SUFFICES ASSUME i # n PROVE FALSE OBVIOUS
   <4>1. x \in calls[i].added BY <1>2, <1>3
   <4>2. x \in LoadedBefore(calls[i].block, calls[i].at) BY <1>1, <1>2, <4>1 DEF AliasesKnown
   <4>3. calls[i].block = b BY Zenon, <1>1, <1>2, <1>4, <1>6, <2>1, <4>2, LoadedThere DEF b, k
   <4> QED BY <1>1, <1>2, <1>4, <4>3, CallPath DEF b
  <3>2. ThisStmt.ptr.id \in promotable BY DEF PromotedLoad, IsPromoted
  <3>3. Live(cs2) => Avail(phis, rewritten, al2[x0], b) BY <1>2, <1>7, <3>2, CurrentAvail DEF b
  <3> QED BY <1>2, <1>4, <1>7, <2>1, <3>1, <3>3 DEF b
 <2>2. CASE x # x0
  <3>1. x \in calls[i].added BY <1>1, <1>2, <1>3, <1>4, <2>2
  <3>2. x \in DOMAIN alias_map /\ (Live(calls) => Avail(phis, rewritten, alias_map[x], calls[i].block))
    BY <1>1, <1>2, <3>1 DEF AliasesKnown
  <3> QED BY <1>2, <1>7, <2>2, <3>2
 <2> QED BY <2>1, <2>2
<1> QED BY <1>2, <1>8, <1>9, <1>10 DEF AliasesKnown

LEMMA StepLoad == ASSUME DomTree, RenameInv, RenameLoad PROVE RenameInv'
<1> DEFINE x0 == ThisStmt.dst
           al2 == [j \in DOMAIN alias_map \cup {x0} |->
                     IF j = x0 THEN CurrentValue(ThisStmt.ptr.id) ELSE alias_map[j]]
<1>1. /\ Reading /\ ThisStmt.op = "load" /\ IsPromoted(ThisStmt.ptr)
      /\ calls' = [calls EXCEPT ![Len(calls)].at = @ + 1, ![Len(calls)].added = @ \cup {x0}]
      /\ alias_map' = al2
      /\ UNCHANGED <<function, promotable, placing>>
      /\ phis' = phis /\ roots' = roots /\ var_stack' = var_stack /\ rewritten' = rewritten BY DEF RenameLoad
<1>2. /\ calls # <<>> /\ Frame = calls[Len(calls)]
      /\ Frame.at \in DOMAIN blocks[Frame.block] /\ ThisStmt = blocks[Frame.block][Frame.at]
      /\ ThisStmt \in Stmt
      /\ Frame.at < End(Frame.block) /\ Frame.at + 1 # End(Frame.block) BY <1>1, ReadingFacts
<1>3. Frame \in CallRecord /\ Frame.at \in Nat /\ Len(calls) \in DOMAIN calls BY <1>2, FrameFacts
<1>4. /\ Fixed /\ Nested(calls, roots)
      /\ RewrittenFrom(calls, roots, rewritten) /\ DefinedOnce(rewritten)
      /\ Written(calls, roots, rewritten)
      /\ Counted(calls, roots, phis) /\ StacksKnown(calls, var_stack, phis, rewritten)
      /\ ReadsKnown(phis, rewritten) /\ IncomingsKnown(phis, rewritten) BY DEF RenameInv
<1>5. Dealt(calls, calls', Frame.pushed, Frame.added \cup {x0})
 <2> DEFINE a == Frame.added \cup {x0}
            g0 == [Frame EXCEPT !.at = @ + 1]
            g == [g0 EXCEPT !.added = a]
 <2>1. a \in SUBSET Id
  <3>1. x0 \in Id BY Zenon, <1>1, <1>2, StmtFacts
  <3>2. Frame.added \subseteq Id BY <1>3 DEF CallRecord
  <3> QED BY <3>1, <3>2
 <2>2. calls' = [calls EXCEPT ![Len(calls)] = g] BY Zenon, <1>1, <1>2, <1>3
 <2> HIDE DEF a
 <2>3. /\ g0 \in CallRecord /\ g0.block = Frame.block /\ g0.children = Frame.children
       /\ g0.at = Frame.at + 1 /\ g0.pushed = Frame.pushed BY <1>3 DEF CallRecord
 <2> HIDE DEF g0
 <2>4. /\ g \in CallRecord /\ g.block = Frame.block /\ g.children = Frame.children
       /\ g.at = Frame.at + 1 /\ g.pushed = Frame.pushed /\ g.added = a BY <2>1, <2>3 DEF CallRecord
 <2> HIDE DEF g
 <2>5. Dealt(calls, calls', Frame.pushed, a) BY <1>2, <1>4, <2>2, <2>4, DealtWith
 <2> QED BY <2>5 DEF a
<1>6. Moved(calls, calls') BY <1>5 DEF Dealt
<1>7. Nested(calls', roots) BY <1>2, <1>4, <1>6, MovedNested
<1>8. Written(calls', roots, rewritten)
 <2>1. ~Kept(blocks[Frame.block][Frame.at]) BY Zenon, <1>1, <1>2 DEF Kept
 <2> QED BY <1>2, <1>4, <1>6, <2>1, WrittenDealt
<1>9. Counted(calls', roots, phis) BY <1>2, <1>4, <1>6, CountedDealt
<1>10. StacksKnown(calls', var_stack, phis, rewritten)
 <2> HIDE DEF x0
 <2> QED BY <1>2, <1>4, <1>5, StacksDealt, NothingGrows
<1>11. AliasesKnown(calls', al2, phis, rewritten)
 <2>1. Gains(alias_map, al2, x0, CurrentValue(ThisStmt.ptr.id)) BY DEF Gains
 <2> HIDE DEF al2
 <2> QED BY <1>1, <1>5, <2>1, AliasAdded DEF PromotedLoad
<1> HIDE DEF al2
<1>12. Renaming(calls', roots', var_stack', alias_map', phis', rewritten')
 <2>1. RewrittenFrom(calls', roots, rewritten) BY <1>4, <1>6, FromDealt
 <2> QED BY <1>1, <1>4, <1>7, <1>8, <1>9, <1>10, <1>11, <2>1 DEF Renaming
<1> QED BY <1>1, <1>12, TypedKept, RenameBuilt

(* A store puts its value on the stack of the variable. *)
LEMMA OccurrencesOf ==
  ASSUME NEW T, NEW l \in Seq(T), NEW w
  PROVE  /\ IsFiniteSet({j \in DOMAIN l : l[j] = w}) /\ Occurrences(l, w) \in Nat
         /\ \A v \in T : Occurrences(Append(l, v), w) = Occurrences(l, w) + (IF v = w THEN 1 ELSE 0)
<1> DEFINE J == {j \in DOMAIN l : l[j] = w}
<1>1. PICK n \in Nat : n = Len(l) OBVIOUS
<1>2. DOMAIN l = 1 .. n BY <1>1
<1>3. IsFiniteSet(J) /\ Cardinality(J) \in Nat
 <2>1. IsFiniteSet(1 .. n) BY FS_Interval
 <2>2. IsFiniteSet(J) BY <1>2, <2>1, FS_Subset
 <2> QED BY <2>2, FS_CardinalityType
<1>4. Occurrences(l, w) = Cardinality(J) BY DEF Occurrences
<1>5. ASSUME NEW v \in T PROVE Occurrences(Append(l, v), w) = Occurrences(l, w) + (IF v = w THEN 1 ELSE 0)
 <2> DEFINE longer == Append(l, v)
            K == {j \in DOMAIN longer : longer[j] = w}
 <2>1. /\ DOMAIN longer = 1 .. n + 1 /\ longer[n + 1] = v
       /\ \A j \in 1 .. n : longer[j] = l[j] BY <1>1, AppendFacts
 <2>2. Occurrences(longer, w) = Cardinality(K) BY DEF Occurrences
 <2> HIDE DEF longer
 <2>3. \A j \in 1 .. n + 1 : j = n + 1 \/ j \in 1 .. n OBVIOUS
 <2>4. n + 1 \notin J /\ n + 1 \in 1 .. n + 1 /\ \A j \in 1 .. n : j \in 1 .. n + 1 BY <1>2
 <2>5. CASE v = w
  <3>1. K = J \cup {n + 1} BY <1>2, <2>1, <2>3, <2>4, <2>5
  <3> HIDE DEF J, K
  <3> QED BY <1>3, <1>4, <2>2, <2>4, <2>5, <3>1, FS_AddElement DEF longer
 <2>6. CASE v # w
  <3>1. K = J BY <1>2, <2>1, <2>3, <2>4, <2>6
  <3> HIDE DEF J, K
  <3> QED BY <1>3, <1>4, <2>2, <2>6, <3>1 DEF longer
 <2> QED BY <2>5, <2>6
<1> QED BY <1>3, <1>4, <1>5

LEMMA HeightsGrow ==
  ASSUME NEW cs \in Seq(CallRecord), NEW st, NEW m, Heights(cs, st, m), NEW v \in promotable
  PROVE  \A k \in 0 .. Len(cs) : m[k][v] \in Nat /\ \A i \in 0 .. k : m[i][v] <= m[k][v]
<1>1. PICK n \in Nat : n = Len(cs) BY CallFacts
<1> DEFINE Good(k) == k \in 0 .. n => m[k][v] \in Nat /\ \A i \in 0 .. k : m[i][v] <= m[k][v]
           S == {k \in Nat : Good(k)}
<1>2. m \in [0 .. n -> [promotable -> Nat]] BY <1>1 DEF Heights
<1>3. 0 \in S
 <2>1. 0 \in 0 .. n /\ 0 .. 0 = {0} OBVIOUS
 <2>2. m[0][v] \in Nat BY <1>2, <2>1
 <2> QED BY <2>1, <2>2
<1>4. ASSUME NEW k \in Nat, k \in S PROVE k + 1 \in S
 <2> SUFFICES ASSUME k + 1 \in 0 .. n
              PROVE  m[k + 1][v] \in Nat /\ \A i \in 0 .. k + 1 : m[i][v] <= m[k + 1][v] OBVIOUS
 <2>1. k \in 0 .. n /\ k + 1 \in DOMAIN cs /\ (k + 1) - 1 = k BY <1>1, CallFacts
 <2>2. m[k][v] \in Nat /\ m[k + 1][v] \in Nat /\ \A i \in 0 .. k : m[i][v] <= m[k][v] BY <1>2, <1>4, <2>1
 <2>3. Occurrences(cs[k + 1].pushed, v) \in Nat
  <3>1. cs[k + 1].pushed \in Seq(promotable) BY <2>1, CallFacts
  <3> QED BY <3>1, OccurrencesOf
 <2>4. m[k + 1][v] = m[k][v] + Occurrences(cs[k + 1].pushed, v) BY <2>1 DEF Heights
 <2>5. m[k][v] <= m[k + 1][v] BY <2>2, <2>3, <2>4
 <2>6. ASSUME NEW i \in 0 .. k + 1 PROVE m[i][v] <= m[k + 1][v]
  <3>1. CASE i = k + 1 BY <2>2, <3>1
  <3>2. CASE i # k + 1
   <4>1. i \in 0 .. k /\ i \in 0 .. n BY <2>1, <3>2
   <4>2. m[i][v] \in Nat /\ m[i][v] <= m[k][v] BY <1>2, <2>2, <4>1
   <4> QED BY <2>2, <2>5, <4>2
  <3> QED BY <3>1, <3>2
 <2> QED BY <2>2, <2>6
<1>5. Nat \subseteq S
 <2> HIDE DEF S
 <2> QED BY <1>3, <1>4, SetInduction
<1> QED BY <1>1, <1>5

Stacked(st, st2, v, e) ==
  \A w \in promotable :
    /\ Len(st[w]) \in Nat
    /\ Len(st2[w]) = Len(st[w]) + (IF v = w THEN 1 ELSE 0)
    /\ \A p \in 1 .. Len(st[w]) : st2[w][p] = st[w][p]
    /\ w = v => st2[w][Len(st[w]) + 1] = e

LEMMA StoreStacks ==
  ASSUME DomTree, NEW cs, NEW rs, Nested(cs, rs), NEW cs2, NEW v \in promotable, NEW p2, NEW a,
         p2 = Append(cs[Len(cs)].pushed, v), Dealt(cs, cs2, p2, a),
         NEW st, NEW st2, NEW e, Stacked(st, st2, v, e), NEW ph, NEW rw, StacksKnown(cs, st, ph, rw),
         Live(cs) => Avail(ph, rw, e, cs[Len(cs)].block)
  PROVE  StacksKnown(cs2, st2, ph, rw)
<1>1. PICK n \in Nat \ {0} :
        /\ n = Len(cs) /\ n = Len(cs2) /\ DOMAIN cs = 1 .. n /\ DOMAIN cs2 = 1 .. n
        /\ \A i \in 1 .. n : cs[i].at \in Nat /\ cs[i].block \in Block /\ cs2[i].block = cs[i].block
        /\ \A i \in 1 .. n - 1 : cs2[i] = cs[i]
        /\ cs2[n].at = cs[n].at + 1 /\ cs2[n].pushed = p2 /\ cs2[n].added = a
        /\ cs # <<>> /\ cs2 # <<>> /\ (Live(cs2) <=> Live(cs)) BY DealtFacts
<1>2. PICK m : Heights(cs, st, m) /\ StacksAvail(cs, st, m, ph, rw) BY DEF StacksKnown
<1>3. /\ m \in [0 .. n -> [promotable -> Nat]]
      /\ \A w \in promotable :
           /\ m[0][w] = 0 /\ m[n][w] = Len(st[w])
           /\ \A i \in 1 .. n : m[i][w] = m[i - 1][w] + Occurrences(cs[i].pushed, w) BY <1>1, <1>2 DEF Heights
<1> DEFINE More(i, w) == IF i = n /\ v = w THEN m[i][w] + 1 ELSE m[i][w]
           m2 == [i \in 0 .. n |-> [w \in promotable |-> More(i, w)]]
<1>4. \A i \in 0 .. n : \A w \in promotable : m[i][w] \in Nat /\ More(i, w) \in Nat BY <1>3
<1>5. /\ \A i \in 0 .. n : \A w \in promotable : m2[i][w] = More(i, w)
      /\ m2 \in [0 .. n -> [promotable -> Nat]]
 <2> HIDE DEF More
 <2> QED BY <1>4
<1> HIDE DEF m2
<1>6. n \in 1 .. n /\ n \in 0 .. n /\ 0 \in 0 .. n /\ n - 1 \in 0 .. n /\ n - 1 # n /\ n # 0 BY <1>1
<1>7. ASSUME NEW w \in promotable
      PROVE  /\ m2[0][w] = 0 /\ m2[n][w] = Len(st2[w])
             /\ \A i \in 1 .. n : m2[i][w] = m2[i - 1][w] + Occurrences(cs2[i].pushed, w)
 <2>1. m2[0][w] = 0 BY <1>3, <1>5, <1>6
 <2>2. m2[n][w] = Len(st2[w])
  <3>1. m2[n][w] = m[n][w] + (IF v = w THEN 1 ELSE 0) BY <1>4, <1>5, <1>6
  <3> QED BY <1>3, <3>1 DEF Stacked
 <2>3. ASSUME NEW i \in 1 .. n PROVE m2[i][w] = m2[i - 1][w] + Occurrences(cs2[i].pushed, w)
  <3>1. i \in 0 .. n /\ i - 1 \in 0 .. n /\ i - 1 # n BY <1>6
  <3>2. m2[i - 1][w] = m[i - 1][w] BY <1>5, <3>1
  <3>3. m[i][w] = m[i - 1][w] + Occurrences(cs[i].pushed, w) BY <1>3
  <3>4. CASE i = n
   <4>1. cs[n].pushed \in Seq(promotable) BY <1>1, <1>6, CallFacts DEF Nested
   <4>2. /\ Occurrences(cs[n].pushed, w) \in Nat
         /\ Occurrences(p2, w) = Occurrences(cs[n].pushed, w) + (IF v = w THEN 1 ELSE 0)
    <5> DEFINE l == cs[n].pushed
    <5>1. l \in Seq(promotable) /\ p2 = Append(l, v) BY <1>1, <4>1
    <5> HIDE DEF l
    <5>2. /\ Occurrences(l, w) \in Nat
          /\ Occurrences(Append(l, v), w) = Occurrences(l, w) + (IF v = w THEN 1 ELSE 0) BY Zenon, <5>1, OccurrencesOf
    <5> QED BY <5>1, <5>2 DEF l
   <4>3. m2[n][w] = m[n][w] + (IF v = w THEN 1 ELSE 0) BY <1>4, <1>5, <1>6
   <4>4. m[i - 1][w] \in Nat BY <1>4, <3>1
   <4>5. cs2[i].pushed = p2 BY <1>1, <3>4
   <4>6. m2[n][w] = m[i - 1][w] + Occurrences(p2, w)
    <5> DEFINE d == IF v = w THEN 1 ELSE 0
    <5>1. d \in Nat OBVIOUS
    <5>2. Occurrences(p2, w) = Occurrences(cs[n].pushed, w) + d /\ m2[n][w] = m[n][w] + d BY <4>2, <4>3
    <5> HIDE DEF d
    <5> QED BY <3>3, <3>4, <4>2, <4>4, <5>1, <5>2
   <4> QED BY <3>2, <3>4, <4>5, <4>6
  <3>5. CASE i # n
   <4>1. cs2[i] = cs[i] BY <1>1, <3>5
   <4>2. m2[i][w] = m[i][w] BY <1>5, <3>1, <3>5
   <4> QED BY <3>2, <3>3, <4>1, <4>2
  <3> QED BY <3>4, <3>5
 <2> QED BY <2>1, <2>2, <2>3
<1>8. Heights(cs2, st2, m2) BY <1>1, <1>5, <1>7 DEF Heights
<1>9. ASSUME Live(cs2), NEW i \in 1 .. n, NEW w \in promotable, NEW p \in 1 .. m2[i][w]
      PROVE  Avail(ph, rw, st2[w][p], cs2[i].block)
 <2>1. i \in 0 .. n /\ n \in 0 .. n BY <1>6
 <2>2. m[i][w] \in Nat /\ m[n][w] \in Nat /\ m[i][w] <= m[n][w]
  <3>1. cs \in Seq(CallRecord) BY DEF Nested
  <3>2. m[n][w] \in Nat /\ \A j \in 0 .. n : m[j][w] <= m[n][w] BY <1>1, <1>2, <2>1, <3>1, HeightsGrow
  <3> QED BY <1>4, <2>1, <3>2
 <2>3. CASE p \in 1 .. m[i][w]
  <3>1. st2[w][p] = st[w][p]
   <4>1. m[n][w] = Len(st[w]) BY <1>3
   <4>2. p \in 1 .. m[n][w] BY <2>2, <2>3
   <4> QED BY <4>1, <4>2 DEF Stacked
  <3>2. Avail(ph, rw, st[w][p], cs[i].block) BY <1>1, <1>2, <1>9, <2>3 DEF StacksAvail
  <3> QED BY <1>1, <3>1, <3>2
 <2>4. CASE p \notin 1 .. m[i][w]
  <3>1. i = n /\ v = w /\ p = m[n][w] + 1
   <4>1. m2[i][w] = IF i = n /\ v = w THEN m[i][w] + 1 ELSE m[i][w] BY <1>5, <2>1 DEF More
   <4>2. p \in 1 .. m2[i][w] /\ m2[i][w] # m[i][w] BY <1>9, <2>4
   <4>3. i = n /\ v = w /\ m2[i][w] = m[i][w] + 1 BY <4>1, <4>2
   <4> QED BY <2>2, <2>4, <4>2, <4>3
  <3>2. st2[w][p] = e BY <1>3, <3>1 DEF Stacked
  <3> QED BY <1>1, <1>6, <1>9, <3>1, <3>2
 <2> QED BY <2>3, <2>4
<1>10. StacksAvail(cs2, st2, m2, ph, rw) BY <1>1, <1>9 DEF StacksAvail
<1> QED BY <1>8, <1>10 DEF StacksKnown

LEMMA SeqLifted == ASSUME NEW S, NEW T, S \subseteq T, NEW s \in Seq(S) PROVE s \in Seq(T)
<1>1. Len(s) \in Nat /\ DOMAIN s = 1 .. Len(s) /\ s = [i \in 1 .. Len(s) |-> s[i]] OBVIOUS
<1>2. \A i \in 1 .. Len(s) : s[i] \in T BY <1>1, ElementType
<1> QED BY <1>1, <1>2, IsASeq

LEMMA StackAppended ==
  ASSUME NEW S, NEW st \in [promotable -> Seq(S)], NEW v \in promotable, NEW e,
         NEW st2, st2 = [st EXCEPT ![v] = Append(@, e)]
  PROVE  Stacked(st, st2, v, e) /\ st2 \in [promotable -> Seq(S \cup {e})]
<1>1. \A s \in Seq(S) : s \in Seq(S \cup {e}) BY SeqLifted
<1>2. st[v] \in Seq(S \cup {e}) /\ e \in S \cup {e} BY <1>1
<1> DEFINE longer == Append(st[v], e)
<1>3. /\ longer \in Seq(S \cup {e}) /\ Len(longer) = Len(st[v]) + 1
      /\ \A k \in 1 .. Len(st[v]) : longer[k] = st[v][k]
      /\ longer[Len(st[v]) + 1] = e
 <2>1. Len(st[v]) \in Nat /\ DOMAIN st[v] = 1 .. Len(st[v]) BY <1>2
 <2> QED BY <1>2, <2>1, AppendFacts
<1>4. st2 = [st EXCEPT ![v] = longer] BY DEF longer
<1> HIDE DEF longer
<1>5. st2[v] = longer /\ \A w \in promotable : w # v => st2[w] = st[w] BY <1>4
<1>6. st2 \in [promotable -> Seq(S \cup {e})]
 <2>1. st \in [promotable -> Seq(S \cup {e})] BY <1>1
 <2> QED BY <1>3, <1>4, <2>1
<1>7. \A w \in promotable : Len(st[w]) \in Nat BY LenProperties
<1>8. Stacked(st, st2, v, e)
 <2> SUFFICES ASSUME NEW w \in promotable
              PROVE  /\ Len(st2[w]) = Len(st[w]) + (IF v = w THEN 1 ELSE 0)
                     /\ \A p \in 1 .. Len(st[w]) : st2[w][p] = st[w][p]
                     /\ w = v => st2[w][Len(st[w]) + 1] = e BY <1>7 DEF Stacked
 <2>1. CASE w = v BY <1>3, <1>5, <2>1
 <2>2. CASE w # v BY <1>5, <1>7, <2>2
 <2> QED BY <2>1, <2>2
<1> QED BY <1>6, <1>8

LEMMA UsesUnpromoted == ASSUME RenameInv, Reading, NEW o \in UseOperands(ThisStmt), o \in Operand PROVE ~IsPromoted(o)
<1> SUFFICES ASSUME o.kind = "local", o.id \in promotable PROVE FALSE BY DEF IsPromoted
<1>1. o = Local(o.id) BY DEF Operand, Local
<1>2. Frame.block \in Block /\ Frame.at \in DOMAIN blocks[Frame.block]
      /\ ThisStmt = blocks[Frame.block][Frame.at] BY ReadingFacts, FrameFacts
<1>3. Invalid(o.id) BY <1>1, <1>2 DEF Invalid
<1> QED BY <1>3 DEF RenameInv, Fixed

LEMMA StepStore == ASSUME DomTree, RenameInv, RenameStore PROVE RenameInv'
<1> DEFINE v == ThisStmt.ptr.id
           e == Resolve(ThisStmt.src)
<1>1. /\ Reading /\ ThisStmt.op = "store" /\ IsPromoted(ThisStmt.ptr)
      /\ calls' = [calls EXCEPT ![Len(calls)].at = @ + 1, ![Len(calls)].pushed = Append(@, v)]
      /\ var_stack' = [var_stack EXCEPT ![v] = Append(@, e)]
      /\ UNCHANGED <<function, promotable, placing>>
      /\ phis' = phis /\ roots' = roots /\ alias_map' = alias_map /\ rewritten' = rewritten BY DEF RenameStore
<1>2. /\ calls # <<>> /\ Frame = calls[Len(calls)]
      /\ Frame.at \in DOMAIN blocks[Frame.block] /\ ThisStmt = blocks[Frame.block][Frame.at]
      /\ ThisStmt \in Stmt
      /\ Frame.at < End(Frame.block) /\ Frame.at + 1 # End(Frame.block) BY <1>1, ReadingFacts
<1>3. Frame \in CallRecord /\ Frame.at \in Nat /\ Len(calls) \in DOMAIN calls BY <1>2, FrameFacts
<1>4. /\ Fixed /\ Nested(calls, roots)
      /\ RewrittenFrom(calls, roots, rewritten) /\ DefinedOnce(rewritten)
      /\ Written(calls, roots, rewritten)
      /\ Counted(calls, roots, phis) /\ StacksKnown(calls, var_stack, phis, rewritten)
      /\ AliasesKnown(calls, alias_map, phis, rewritten)
      /\ ReadsKnown(phis, rewritten) /\ IncomingsKnown(phis, rewritten) BY DEF RenameInv
<1>5. v \in promotable BY <1>1 DEF IsPromoted
<1>6. Live(calls) => Avail(phis, rewritten, e, Frame.block)
 <2>1. ThisStmt.src \in UseOperands(ThisStmt) /\ ThisStmt.src \in ReadOperands(ThisStmt) BY <1>1 DEF UseOperands, ReadOperands
 <2>2. ThisStmt.src \in Operand BY Zenon, <1>1, <1>2, StmtFacts
 <2>3. ~IsPromoted(ThisStmt.src) BY <1>1, <2>1, <2>2, UsesUnpromoted
 <2> QED BY <1>1, <2>1, <2>2, <2>3, ResolvedAvail
<1> HIDE DEF v, e
<1> DEFINE p2 == Append(Frame.pushed, v)
<1>7. Dealt(calls, calls', p2, Frame.added)
 <2> DEFINE g0 == [Frame EXCEPT !.at = @ + 1]
            g == [g0 EXCEPT !.pushed = p2]
 <2>1. p2 \in Seq(promotable)
  <3>1. Frame.pushed \in Seq(promotable) BY <1>3 DEF CallRecord
  <3> QED BY <1>5, <3>1, AppendFacts
 <2>2. calls' = [calls EXCEPT ![Len(calls)] = g] BY <1>1, <1>2, <1>3
 <2> HIDE DEF p2
 <2>3. /\ g0 \in CallRecord /\ g0.block = Frame.block /\ g0.children = Frame.children
       /\ g0.at = Frame.at + 1 /\ g0.added = Frame.added BY <1>3 DEF CallRecord
 <2> HIDE DEF g0
 <2>4. /\ g \in CallRecord /\ g.block = Frame.block /\ g.children = Frame.children
       /\ g.at = Frame.at + 1 /\ g.pushed = p2 /\ g.added = Frame.added BY <2>1, <2>3 DEF CallRecord
 <2> HIDE DEF g
 <2> QED BY <1>2, <1>4, <2>2, <2>4, DealtWith
<1>8. Moved(calls, calls') BY <1>7 DEF Dealt
<1>9. Nested(calls', roots) BY <1>2, <1>4, <1>8, MovedNested
<1>10. Written(calls', roots, rewritten)
 <2>1. ~Kept(blocks[Frame.block][Frame.at]) BY <1>1, <1>2 DEF Kept
 <2> QED BY <1>2, <1>4, <1>8, <2>1, WrittenDealt
<1>11. Counted(calls', roots, phis) BY <1>2, <1>4, <1>8, CountedDealt
<1>12. PICK S : var_stack \in [promotable -> Seq(S)] BY DEF RenameInv, StacksTyped
<1>13. Stacked(var_stack, var_stack', v, e) /\ var_stack' \in [promotable -> Seq(S \cup {e})]
  BY <1>1, <1>5, <1>12, StackAppended
<1>14. StacksTyped'
 <2>1. promotable' = promotable BY <1>1
 <2> QED BY <1>13, <2>1 DEF StacksTyped
<1>15. StacksKnown(calls', var_stack', phis, rewritten) BY <1>2, <1>4, <1>5, <1>6, <1>7, <1>13, StoreStacks
<1>16. AliasesKnown(calls', alias_map, phis, rewritten)
 <2>1. ~PromotedLoad(blocks[Frame.block][Frame.at]) BY <1>1, <1>2 DEF PromotedLoad
 <2> HIDE DEF p2
 <2>2. Dealt(calls, calls', p2, calls[Len(calls)].added) BY <1>2, <1>7
 <2> QED BY <1>2, <1>4, <2>1, <2>2, AliasesDealt, NothingGrows
<1>17. Renaming(calls', roots', var_stack', alias_map', phis', rewritten')
 <2>1. RewrittenFrom(calls', roots, rewritten) BY <1>4, <1>8, FromDealt
 <2> QED BY <1>1, <1>4, <1>9, <1>10, <1>11, <1>15, <1>16, <2>1 DEF Renaming
<1> QED BY <1>1, <1>14, <1>17, TypedKept, RenameBuilt

(* Other statements are kept, with what they read renamed. *)
LEMMA ResolvedFacts ==
  ASSUME NEW s \in Stmt
  PROVE  /\ Defines(Resolved(s)) = Defines(s)
         /\ \A o \in ReadOperands(Resolved(s)) : \E p \in ReadOperands(s) : o = Resolve(p)
<1> DEFINE f == [o \in ReadOperands(s) |-> Resolve(o)]
<1>1. Resolved(s) = MapUses(s, f) /\ \A o \in ReadOperands(s) : f[o] = Resolve(o) BY DEF Resolved
<1> HIDE DEF f
<1>2. CASE s \in {Alloca(d, t) : d \in Id, t \in {"i32", "ptr"}}
 <2>1. s.op = "alloca" BY <1>2 DEF Alloca
 <2>2. Resolved(s) = s /\ ReadOperands(s) = {} BY <1>1, <2>1 DEF MapUses, ReadOperands, UseOperands
 <2> QED BY <2>2
<1>3. CASE s \in [op : {"load"}, dst : Id, ptr : Operand]
 <2>1. s.op = "load" BY <1>3
 <2>2. ReadOperands(s) = {s.ptr} BY <2>1 DEF ReadOperands, UseOperands
 <2>3. Resolved(s) = [s EXCEPT !.ptr = Resolve(s.ptr)] BY <1>1, <2>1, <2>2 DEF MapUses
 <2>4. /\ Resolved(s).op = "load" /\ Resolved(s).dst = s.dst
       /\ Resolved(s).ptr = Resolve(s.ptr) BY <1>3, <2>3
 <2> QED BY <2>1, <2>2, <2>4 DEF Defines, ReadOperands, UseOperands
<1>4. CASE s \in [op : {"store"}, src : Operand, ptr : Operand]
 <2>1. s.op = "store" BY <1>4
 <2>2. ReadOperands(s) = {s.src, s.ptr} BY <2>1 DEF ReadOperands, UseOperands
 <2>3. f[s.src] = Resolve(s.src) /\ f[s.ptr] = Resolve(s.ptr) BY <1>1, <2>2
 <2>4. Resolved(s) = [s EXCEPT !.src = f[@], !.ptr = f[@]] BY <1>1, <2>1 DEF MapUses
 <2>5. /\ Resolved(s).op = "store" /\ Resolved(s).src = Resolve(s.src)
       /\ Resolved(s).ptr = Resolve(s.ptr) BY <1>4, <2>3, <2>4
 <2> QED BY <2>1, <2>2, <2>5 DEF Defines, ReadOperands, UseOperands
<1>5. CASE s \in [op : {"gep", "call"}, dst : Id, arg : Operand]
 <2>1. s.op \in {"gep", "call"} BY <1>5
 <2>2. ReadOperands(s) = {s.arg} BY <2>1 DEF ReadOperands, UseOperands
 <2>3. Resolved(s) = [s EXCEPT !.arg = Resolve(s.arg)] BY <1>1, <2>1, <2>2 DEF MapUses
 <2>4. /\ Resolved(s).op = s.op /\ Resolved(s).dst = s.dst
       /\ Resolved(s).arg = Resolve(s.arg) BY <1>5, <2>3
 <2> QED BY <2>1, <2>2, <2>4 DEF Defines, ReadOperands, UseOperands
<1> QED BY <1>2, <1>3, <1>4, <1>5 DEF Stmt

Lengthened(rw, rw2, b, s) ==
  /\ Len(rw[b]) \in Nat /\ DOMAIN rw[b] = 1 .. Len(rw[b]) /\ DOMAIN rw2[b] = 1 .. Len(rw[b]) + 1
  /\ \A k \in DOMAIN rw[b] : rw2[b][k] = rw[b][k]
  /\ rw2[b][Len(rw[b]) + 1] = s
  /\ \A c \in Block : c # b => rw2[c] = rw[c]

LEMMA CodeAppended ==
  ASSUME NEW S, NEW rw \in [Block -> Seq(S)], NEW b \in Block, NEW s,
         NEW rw2, rw2 = [rw EXCEPT ![b] = Append(@, s)]
  PROVE  Lengthened(rw, rw2, b, s) /\ rw2 \in [Block -> Seq(S \cup {s})]
<1>1. \A l \in Seq(S) : l \in Seq(S \cup {s}) BY SeqLifted
<1>2. rw[b] \in Seq(S \cup {s}) /\ s \in S \cup {s} BY <1>1
<1> DEFINE longer == Append(rw[b], s)
<1>3. /\ longer \in Seq(S \cup {s}) /\ Len(rw[b]) \in Nat
      /\ DOMAIN rw[b] = 1 .. Len(rw[b]) /\ DOMAIN longer = 1 .. Len(rw[b]) + 1
      /\ \A k \in DOMAIN rw[b] : longer[k] = rw[b][k]
      /\ longer[Len(rw[b]) + 1] = s BY <1>2, AppendFacts
<1>4. rw2 = [rw EXCEPT ![b] = longer] BY DEF longer
<1> HIDE DEF longer
<1>5. rw2[b] = longer /\ \A c \in Block : c # b => rw2[c] = rw[c] BY <1>4
<1>6. rw2 \in [Block -> Seq(S \cup {s})]
 <2>1. rw \in [Block -> Seq(S \cup {s})] BY <1>1
 <2> QED BY <1>3, <1>4, <2>1
<1> QED BY <1>3, <1>5, <1>6 DEF Lengthened

Extends(ph, rw, rw2, b, s) ==
  /\ Grows(ph, rw, ph, rw2)
  /\ \A c \in Block : \A j : Writes(rw, c, j) => Writes(rw2, c, j)
  /\ \A c \in Block : \A k \in DOMAIN rw2[c] :
       \/ k \in DOMAIN rw[c] /\ rw2[c][k] = rw[c][k]
       \/ c = b /\ k = Len(rw[b]) + 1 /\ rw2[c][k] = s

LEMMA LongerGrows ==
  ASSUME NEW ph, NEW rw, NEW rw2, NEW b \in Block, NEW s, Lengthened(rw, rw2, b, s) PROVE Extends(ph, rw, rw2, b, s)
<1>1. \A c \in Block : \A k \in DOMAIN rw[c] : k \in DOMAIN rw2[c] /\ rw2[c][k] = rw[c][k] BY DEF Lengthened
<1>2. Grows(ph, rw, ph, rw2) BY <1>1 DEF Grows, DefinedIn
<1>3. \A c \in Block : \A j : Writes(rw, c, j) => Writes(rw2, c, j) BY <1>1 DEF Writes
<1>4. ASSUME NEW c \in Block, NEW k \in DOMAIN rw2[c]
      PROVE  \/ k \in DOMAIN rw[c] /\ rw2[c][k] = rw[c][k]
             \/ c = b /\ k = Len(rw[b]) + 1 /\ rw2[c][k] = s BY DEF Lengthened
<1> QED BY <1>2, <1>3, <1>4 DEF Extends

LEMMA StepOther == ASSUME DomTree, RenameInv, RenameOther PROVE RenameInv'
<1> DEFINE b == Frame.block
           s == Resolved(ThisStmt)
           rw2 == rewritten'
<1>1. /\ Reading
      /\ ~(ThisStmt.op = "alloca" /\ ThisStmt.dst \in promotable)
      /\ ~(ThisStmt.op \in {"load", "store"} /\ IsPromoted(ThisStmt.ptr))
      /\ rw2 = [rewritten EXCEPT ![b] = Append(@, s)]
      /\ calls' = [calls EXCEPT ![Len(calls)].at = @ + 1]
      /\ UNCHANGED <<function, promotable, placing>>
      /\ phis' = phis /\ roots' = roots /\ var_stack' = var_stack /\ alias_map' = alias_map BY DEF RenameOther
<1>2. /\ calls # <<>> /\ Frame = calls[Len(calls)]
      /\ Frame.at \in DOMAIN blocks[b] /\ ThisStmt = blocks[b][Frame.at]
      /\ ThisStmt \in Stmt
      /\ Frame.at < End(b) /\ Frame.at + 1 # End(b) BY <1>1, ReadingFacts
<1>3. Frame \in CallRecord /\ Frame.at \in Nat /\ b \in Block BY <1>2, FrameFacts
<1>4. /\ Fixed /\ Nested(calls, roots)
      /\ RewrittenFrom(calls, roots, rewritten) /\ DefinedOnce(rewritten)
      /\ Written(calls, roots, rewritten)
      /\ Counted(calls, roots, phis) /\ StacksKnown(calls, var_stack, phis, rewritten)
      /\ AliasesKnown(calls, alias_map, phis, rewritten)
      /\ ReadsKnown(phis, rewritten) /\ IncomingsKnown(phis, rewritten) BY DEF RenameInv
<1>5. PICK S : rewritten \in [Block -> Seq(S)] BY DEF RenameInv, RewrittenTyped
<1>6. Lengthened(rewritten, rw2, b, s) /\ rw2 \in [Block -> Seq(S \cup {s})]
 <2> HIDE DEF b, s
 <2> QED BY <1>1, <1>3, <1>5, CodeAppended
<1>7. Kept(ThisStmt) /\ ~PromotedLoad(ThisStmt) BY <1>1 DEF Kept, PromotedLoad
<1>8. /\ Defines(s) = Defines(ThisStmt)
      /\ \A o \in ReadOperands(s) : \E p \in ReadOperands(ThisStmt) : o = Resolve(p) BY <1>2, ResolvedFacts
<1>9. ASSUME Live(calls), NEW o \in ReadOperands(s) PROVE Avail(phis, rewritten, o, b)
 <2>1. PICK p \in ReadOperands(ThisStmt) : o = Resolve(p) BY <1>8
 <2>2. p \in Operand BY <1>2, StmtFacts
 <2>3. ~IsPromoted(p)
  <3>1. CASE p \in UseOperands(ThisStmt) BY <1>1, <2>2, <3>1, UsesUnpromoted
  <3>2. CASE p \notin UseOperands(ThisStmt) BY <1>1, <3>2 DEF ReadOperands
  <3> QED BY <3>1, <3>2
 <2> QED BY <1>1, <1>9, <2>1, <2>2, <2>3, ResolvedAvail
<1> HIDE DEF s, rw2
<1>10. /\ Grows(phis, rewritten, phis, rw2)
       /\ \A c \in Block : \A j : Writes(rewritten, c, j) => Writes(rw2, c, j)
       /\ \A c \in Block : \A k \in DOMAIN rw2[c] :
            \/ k \in DOMAIN rewritten[c] /\ rw2[c][k] = rewritten[c][k]
            \/ c = b /\ k = Len(rewritten[b]) + 1 /\ rw2[c][k] = s
 <2>1. Extends(phis, rewritten, rw2, b, s) BY <1>3, <1>6, LongerGrows
 <2> QED BY <2>1 DEF Extends
<1>11. Dealt(calls, calls', Frame.pushed, Frame.added)
 <2> DEFINE g == [Frame EXCEPT !.at = @ + 1]
 <2>1. /\ g \in CallRecord /\ g.block = Frame.block /\ g.children = Frame.children
       /\ g.at = Frame.at + 1 /\ g.pushed = Frame.pushed /\ g.added = Frame.added BY <1>3 DEF CallRecord
 <2>2. calls' = [calls EXCEPT ![Len(calls)] = g] BY <1>1, <1>2
 <2> HIDE DEF g
 <2> QED BY <1>2, <1>4, <2>1, <2>2, DealtWith
<1>12. Moved(calls, calls') BY <1>11 DEF Dealt
<1>13. Nested(calls', roots) BY <1>2, <1>4, <1>12, MovedNested
<1>14. RewrittenFrom(calls', roots, rw2) /\ DefinedOnce(rw2)
 <2>1. StillReached(calls, roots, calls', roots) BY <1>4, <1>12, FromDealt
 <2>2. Reached(calls', roots, b, Frame.at + 1) /\ ~Reached(calls, roots, b, Frame.at + 1)
  <3>1. Frame.at + 1 \in Nat /\ ~(Frame.at + 1 <= Frame.at) BY <1>3
  <3>2. Reached(calls', roots, b, Frame.at + 1) BY <1>2, <1>3, <1>4, <1>12, <3>1, MovedReached
  <3>3. Len(calls) \in DOMAIN calls BY <1>2, FrameFacts
  <3> QED BY <1>2, <3>1, <3>2, <3>3 DEF Reached
 <2>3. RewrittenFrom(calls', roots, rw2)
  <3> SUFFICES ASSUME NEW c \in Block, NEW k \in DOMAIN rw2[c]
               PROVE  \E j \in DOMAIN blocks[c] :
                        /\ Kept(blocks[c][j]) /\ Defines(rw2[c][k]) = Defines(blocks[c][j])
                        /\ Reached(calls', roots, c, j + 1) BY DEF RewrittenFrom
  <3>1. CASE k \in DOMAIN rewritten[c] /\ rw2[c][k] = rewritten[c][k]
   <4>1. RewrittenFrom(calls', roots, rewritten) BY <1>4, <1>12, FromDealt
   <4> QED BY <3>1, <4>1 DEF RewrittenFrom
  <3>2. CASE c = b /\ k = Len(rewritten[b]) + 1 /\ rw2[c][k] = s BY <1>2, <1>7, <1>8, <2>2, <3>2
  <3> QED BY <1>10, <3>1, <3>2
 <2>4. ASSUME NEW c \in Block, NEW k \in DOMAIN rewritten[c] PROVE Defines(rewritten[c][k]) \cap Defines(s) = {}
  <3> SUFFICES ASSUME Defines(rewritten[c][k]) \cap Defines(s) # {} PROVE FALSE OBVIOUS
  <3>1. PICK j \in DOMAIN blocks[c] : /\ Defines(rewritten[c][k]) = Defines(blocks[c][j])
                                      /\ Reached(calls, roots, c, j + 1) BY <1>4 DEF RewrittenFrom
  <3>2. Defines(blocks[c][j]) \cap Defines(blocks[b][Frame.at]) # {} BY <1>2, <1>8, <3>1
  <3>3. c = b /\ j = Frame.at BY <1>2, <1>3, <1>4, <3>2 DEF Fixed, DefinedOnce
  <3> QED BY <2>2, <3>1, <3>3
 <2>5. ASSUME NEW c \in Block, NEW d \in Block, NEW k \in DOMAIN rw2[c], NEW l \in DOMAIN rw2[d],
              Defines(rw2[c][k]) \cap Defines(rw2[d][l]) # {}
       PROVE  c = d /\ k = l
  <3>1. \/ k \in DOMAIN rewritten[c] /\ rw2[c][k] = rewritten[c][k]
        \/ c = b /\ k = Len(rewritten[b]) + 1 /\ rw2[c][k] = s BY <1>10
  <3>2. \/ l \in DOMAIN rewritten[d] /\ rw2[d][l] = rewritten[d][l]
        \/ d = b /\ l = Len(rewritten[b]) + 1 /\ rw2[d][l] = s BY <1>10
  <3> QED BY <1>4, <2>4, <2>5, <3>1, <3>2 DEF DefinedOnce
 <2>6. DefinedOnce(rw2) BY <2>5 DEF DefinedOnce
 <2> QED BY <2>3, <2>6
<1>15. Written(calls', roots, rw2)
 <2>1. Writes(rw2, b, Frame.at)
  <3>1. Len(rewritten[b]) + 1 \in DOMAIN rw2[b] /\ rw2[b][Len(rewritten[b]) + 1] = s BY <1>6 DEF Lengthened
  <3>2. Defines(s) = Defines(blocks[b][Frame.at]) BY <1>2, <1>8
  <3> QED BY <3>1, <3>2 DEF Writes
 <2> QED BY <1>2, <1>4, <1>10, <1>12, <2>1, WrittenDealt
<1>16. Counted(calls', roots, phis) BY <1>2, <1>4, <1>12, CountedDealt
<1>17. StacksKnown(calls', var_stack, phis, rw2) BY <1>2, <1>4, <1>10, <1>11, StacksDealt
<1>18. AliasesKnown(calls', alias_map, phis, rw2)
 <2>1. ~PromotedLoad(blocks[b][Frame.at]) BY <1>2, <1>7
 <2>2. Dealt(calls, calls', Frame.pushed, calls[Len(calls)].added) BY <1>2, <1>11
 <2> QED BY <1>2, <1>4, <1>10, <2>1, <2>2, AliasesDealt
<1>19. ReadsKnown(phis, rw2)
 <2> SUFFICES ASSUME NEW c \in Reachable(succs), NEW k \in DOMAIN rw2[c],
                     NEW o \in ReadOperands(rw2[c][k]), o.kind = "local"
              PROVE  Before(phis, rw2, o.id, c, k) BY DEF ReadsKnown
 <2>1. c \in Block /\ Dominators(succs, c) \subseteq Block BY DominanceFacts DEF DomTree
 <2>2. Len(rewritten[c]) \in Nat /\ DOMAIN rewritten[c] = 1 .. Len(rewritten[c]) BY <1>5, <2>1
 <2>3. k \in Int /\ \A j \in 1 .. k - 1 : rw2[c][j] = rewritten[c][j]
  <3>1. CASE c = b
   <4>1. k \in 1 .. Len(rewritten[b]) + 1 BY <1>6, <3>1 DEF Lengthened
   <4>2. \A j \in 1 .. k - 1 : j \in DOMAIN rewritten[b] BY <2>2, <3>1, <4>1
   <4> QED BY <1>6, <3>1, <4>1, <4>2 DEF Lengthened
  <3>2. CASE c # b BY <1>6, <2>1, <2>2, <3>2 DEF Lengthened
  <3> QED BY <3>1, <3>2
 <2>4. Before(phis, rewritten, o.id, c, k)
  <3>1. CASE k \in DOMAIN rewritten[c] /\ rw2[c][k] = rewritten[c][k] BY <1>4, <3>1 DEF ReadsKnown
  <3>2. CASE c = b /\ k = Len(rewritten[b]) + 1 /\ rw2[c][k] = s
   <4>1. Live(calls) BY <1>2, <1>4, <3>2, ReachableLive
   <4>2. Avail(phis, rewritten, o, b) BY <1>9, <3>2, <4>1
   <4>3. PICK d \in Dominators(succs, b) : DefinedIn(phis, rewritten, o.id, d) BY <4>2 DEF Avail
   <4>4. CASE d = b
    <5>1. DOMAIN rewritten[b] = 1 .. k - 1 BY <2>2, <3>2
    <5> QED BY <3>2, <4>3, <4>4, <5>1 DEF DefinedIn, Before
   <4>5. CASE d # b BY <3>2, <4>3, <4>5 DEF Before, DefinedAbove
   <4> QED BY <4>4, <4>5
  <3> QED BY <1>10, <2>1, <3>1, <3>2
 <2> QED BY <1>10, <2>3, <2>4, BeforeGrows
<1>20. IncomingsKnown(phis, rw2) BY <1>4, <1>10, IncomingsGrow
<1>21. RewrittenTyped' BY <1>6 DEF RewrittenTyped, rw2
<1>22. Renaming(calls', roots', var_stack', alias_map', phis', rewritten')
  BY <1>1, <1>13, <1>14, <1>15, <1>16, <1>17, <1>18, <1>19, <1>20 DEF Renaming, rw2
<1> QED BY <1>1, <1>21, <1>22, TypedKept, RenameBuilt

(* The phis of the successors learn what the block ends with. *)
Followed(l, l2, b, o, n) ==
  /\ Len(l) \in Nat /\ DOMAIN l = 1 .. Len(l) /\ DOMAIN l2 = 1 .. Len(l) + n
  /\ \A k \in 1 .. Len(l) : l2[k] = l[k]
  /\ \A k \in Len(l) + 1 .. Len(l) + n : l2[k].label = b /\ l2[k].value = o

LEMMA IncomingsFollowed ==
  ASSUME NEW S, NEW l \in Seq([label : Block, value : S]), NEW b \in Block, NEW o \in S, NEW n \in Nat,
         NEW l2, l2 = l \o [e \in 1 .. n |-> [label |-> b, value |-> o]]
  PROVE  l2 \in Seq([label : Block, value : S]) /\ Followed(l, l2, b, o, n)
<1> DEFINE T == [label : Block, value : S]
           p == [label |-> b, value |-> o]
           t == [e \in 1 .. n |-> p]
<1>1. p \in T /\ p.label = b /\ p.value = o OBVIOUS
<1> HIDE DEF T, p
<1>2. t \in Seq(T) /\ Len(t) = n /\ \A e \in 1 .. n : t[e] = p BY <1>1
<1>3. l2 = l \o t /\ l \in Seq(T) BY DEF p, T
<1> HIDE DEF t
<1>4. PICK m \in Nat : m = Len(l) BY <1>3
<1>5. /\ l2 \in Seq(T) /\ Len(l2) = m + n
      /\ \A i \in 1 .. m + n : l2[i] = IF i <= m THEN l[i] ELSE t[i - m] BY <1>2, <1>3, <1>4, ConcatProperties
<1>6. DOMAIN l = 1 .. m /\ DOMAIN l2 = 1 .. m + n BY <1>3, <1>4, <1>5
<1>7. \A k \in 1 .. m : l2[k] = l[k] BY <1>5
<1>8. ASSUME NEW k \in m + 1 .. m + n PROVE l2[k].label = b /\ l2[k].value = o
 <2>1. k \in 1 .. m + n /\ ~(k <= m) /\ k - m \in 1 .. n OBVIOUS
 <2>2. l2[k] = p BY <1>2, <1>5, <2>1
 <2> QED BY <1>1, <2>2
<1> QED BY <1>4, <1>5, <1>6, <1>7, <1>8 DEF Followed, T

LEMMA LabelsFollowed ==
  ASSUME NEW l, NEW l2, NEW b, NEW o, NEW n \in Nat, Followed(l, l2, b, o, n), NEW c
  PROVE  Cardinality(Labelled(l2, c)) = Cardinality(Labelled(l, c)) + (IF c = b THEN n ELSE 0)
<1>1. PICK m \in Nat : m = Len(l) BY Zenon DEF Followed
<1>2. /\ DOMAIN l = 1 .. m /\ DOMAIN l2 = 1 .. m + n
      /\ \A k \in 1 .. m : l2[k] = l[k]
      /\ \A k \in m + 1 .. m + n : l2[k].label = b BY <1>1 DEF Followed
<1>3. \A k \in 1 .. m + n : k \in 1 .. m \/ k \in m + 1 .. m + n OBVIOUS
<1>4. /\ \A k \in 1 .. m : k \in 1 .. m + n /\ k \notin m + 1 .. m + n
      /\ \A k \in m + 1 .. m + n : k \in 1 .. m + n OBVIOUS
<1> DEFINE J == Labelled(l, c)
           I == m + 1 .. m + n
<1>5. J = {k \in 1 .. m : l[k].label = c} BY <1>2 DEF Labelled
<1>6. IsFiniteSet(J) /\ Cardinality(J) \in Nat
 <2>1. IsFiniteSet(1 .. m) BY FS_Interval
 <2>2. IsFiniteSet(J) BY <1>5, <2>1, FS_Subset
 <2> QED BY <2>2, FS_CardinalityType
<1>7. CASE c = b
 <2>1. Labelled(l2, c) = J \cup I BY <1>2, <1>3, <1>4, <1>5, <1>7 DEF Labelled
 <2>2. J \cap I = {} BY <1>4, <1>5
 <2>3. IsFiniteSet(I) /\ Cardinality(I) = n
  <3>1. m + 1 \in Int /\ m + n \in Int OBVIOUS
  <3>2. IsFiniteSet(I) /\ Cardinality(I) = IF m + 1 > m + n THEN 0 ELSE m + n - (m + 1) + 1 BY <3>1, FS_Interval
  <3> QED BY <3>2
 <2> HIDE DEF J, I
 <2>4. Cardinality(J \cup I) = Cardinality(J) + Cardinality(I) - Cardinality(J \cap I) BY <1>6, <2>3, FS_Union
 <2>5. Cardinality(J \cap I) = 0 BY <2>2, FS_EmptySet
 <2> QED BY <1>6, <1>7, <2>1, <2>3, <2>4, <2>5 DEF J
<1>8. CASE c # b
 <2>1. Labelled(l2, c) = J BY <1>2, <1>3, <1>4, <1>5, <1>8 DEF Labelled
 <2> HIDE DEF J
 <2> QED BY <1>6, <1>8, <2>1 DEF J
<1> QED BY <1>7, <1>8

WithEdges(phi, b, o, n) ==
  [phi EXCEPT !.incomings = @ \o [e \in 1 .. n |-> [label |-> b, value |-> o]]]

FilledAs(phi, g, T, b, o, n) ==
  /\ g \in PhiRecord(T) /\ g.var = phi.var /\ g.dst = phi.dst
  /\ Followed(phi.incomings, g.incomings, b, o, n)

LEMMA PhiFilled ==
  ASSUME NEW S, NEW phi \in PhiRecord(S), NEW T, S \subseteq T, NEW b \in Block, NEW o \in T, NEW n \in Nat,
         NEW g, g = WithEdges(phi, b, o, n)
  PROVE  FilledAs(phi, g, T, b, o, n)
<1> DEFINE R == [label : Block, value : T]
           l == phi.incomings
           l2 == l \o [e \in 1 .. n |-> [label |-> b, value |-> o]]
<1>1. phi.incomings \in Seq([label : Block, value : S]) /\ phi.var \in promotable /\ phi.dst \in Nat BY DEF PhiRecord
<1>2. l \in Seq(R)
 <2> DEFINE Q == [label : Block, value : S]
 <2>1. Q \subseteq R /\ l \in Seq(Q) BY <1>1
 <2> HIDE DEF l, Q, R
 <2> QED BY <2>1, SeqLifted
<1>3. l2 \in Seq(R) /\ Followed(l, l2, b, o, n) BY <1>2, IncomingsFollowed
<1>4. g = [phi EXCEPT !.incomings = l2] BY DEF WithEdges
<1> HIDE DEF l2, R
<1>5. g.var = phi.var /\ g.dst = phi.dst /\ g.incomings = l2 BY <1>4 DEF PhiRecord
<1>6. g \in [var : promotable, dst : Nat, incomings : Seq(R)] BY <1>1, <1>3, <1>4 DEF PhiRecord
<1>7. g \in PhiRecord(T) BY <1>6 DEF PhiRecord, R
<1> QED BY <1>3, <1>5, <1>7 DEF FilledAs

FilledFrom(ph, ph2, b) ==
  \A y \in Block :
    /\ DOMAIN ph2[y] = DOMAIN ph[y]
    /\ \A i \in DOMAIN ph[y] :
         /\ ph[y][i].var \in promotable
         /\ ph2[y][i].var = ph[y][i].var /\ ph2[y][i].dst = ph[y][i].dst
         /\ Followed(ph[y][i].incomings, ph2[y][i].incomings, b, CurrentValue(ph[y][i].var), Edges(b, y))

LEMMA EdgesCounted == ASSUME DomTree, NEW b \in Block, NEW y PROVE Edges(b, y) \in Nat
<1>1. succs[b] \in Seq(Block) BY DEF DomTree, IsFlow
<1> QED BY <1>1, OccurrencesCount DEF Edges

LEMMA PhisFilled ==
  ASSUME DomTree, RenameInv, FillSuccessors, Frame.block \in Block
  PROVE  FilledFrom(phis, phis', Frame.block) /\ PhisTyped' /\ PhisDistinct'
<1> DEFINE b == Frame.block
           New(y, i) == [phis[y][i] EXCEPT !.incomings = @ \o
                           [e \in 1 .. Edges(b, y) |-> [label |-> b, value |-> CurrentValue(phis[y][i].var)]]]
           Row(y) == [i \in DOMAIN phis[y] |-> New(y, i)]
<1>1. phis' = [y \in Block |-> Row(y)] BY DEF FillSuccessors
<1>2. PICK S : phis \in [Block -> Seq(PhiRecord(S))] BY DEF RenameInv, PhisTyped
<1> DEFINE T == S \cup {CurrentValue(v) : v \in promotable}
<1>3. S \subseteq T /\ \A v \in promotable : CurrentValue(v) \in T OBVIOUS
<1>4. ASSUME NEW y \in Block, NEW i \in DOMAIN phis[y]
      PROVE  /\ New(y, i) \in PhiRecord(T) /\ phis[y][i].var \in promotable
             /\ New(y, i).var = phis[y][i].var /\ New(y, i).dst = phis[y][i].dst
             /\ Followed(phis[y][i].incomings, New(y, i).incomings, b,
                         CurrentValue(phis[y][i].var), Edges(b, y))
 <2>1. phis[y] \in Seq(PhiRecord(S)) BY <1>2
 <2>2. phis[y][i] \in PhiRecord(S) BY <2>1, ElementType
 <2>3. phis[y][i].var \in promotable BY <2>2 DEF PhiRecord
 <2>4. CurrentValue(phis[y][i].var) \in T BY <1>3, <2>3
 <2>5. Edges(b, y) \in Nat BY EdgesCounted
 <2> DEFINE o == CurrentValue(phis[y][i].var)
            n == Edges(b, y)
 <2>6. New(y, i) = WithEdges(phis[y][i], b, o, n) BY DEF WithEdges
 <2>7. b \in Block /\ o \in T /\ n \in Nat BY <2>4, <2>5
 <2> HIDE DEF T, New, o, n, b
 <2>8. FilledAs(phis[y][i], New(y, i), T, b, o, n) BY <1>3, <2>2, <2>6, <2>7, PhiFilled
 <2> QED BY <2>3, <2>8 DEF o, n, b, FilledAs
<1> HIDE DEF T, New
<1>5. \A y \in Block : phis'[y] = Row(y)
 <2> HIDE DEF Row
 <2> QED BY <1>1
<1>6. \A y \in Block : DOMAIN phis'[y] = DOMAIN phis[y] /\ \A i \in DOMAIN phis[y] : phis'[y][i] = New(y, i) BY <1>5
<1>7. FilledFrom(phis, phis', b) BY <1>4, <1>6 DEF FilledFrom
<1>8. \A y \in Block : Row(y) \in Seq(PhiRecord(T))
 <2> SUFFICES ASSUME NEW y \in Block PROVE Row(y) \in Seq(PhiRecord(T)) OBVIOUS
 <2>1. PICK n \in Nat : n = Len(phis[y]) BY <1>2
 <2>2. DOMAIN phis[y] = 1 .. n BY <1>2, <2>1
 <2>3. \A i \in 1 .. n : New(y, i) \in PhiRecord(T) BY <1>4, <2>2
 <2>4. Row(y) = [i \in 1 .. n |-> New(y, i)] BY <2>2
 <2> HIDE DEF Row
 <2> QED BY <2>3, <2>4, IsASeq
<1>9. phis' \in [Block -> Seq(PhiRecord(T))]
 <2> HIDE DEF Row
 <2> QED BY <1>1, <1>8
<1>10. promotable' = promotable /\ blocks' = blocks BY DEF FillSuccessors, function
<1>11. PhisTyped' BY <1>9, <1>10 DEF PhisTyped, PhiRecord
<1>12. PhisDistinct'
 <2>1. \A y \in Block : /\ DOMAIN phis'[y] = DOMAIN phis[y]
                        /\ \A i \in DOMAIN phis[y] : /\ phis'[y][i].var = phis[y][i].var
                                                     /\ phis'[y][i].dst = phis[y][i].dst BY <1>7 DEF FilledFrom
 <2>2. PhisDistinct BY DEF RenameInv
 <2>3. /\ \A c \in Block : \A i, j \in DOMAIN phis'[c] : phis'[c][i].var = phis'[c][j].var => i = j
       /\ \A c, d \in Block : \A i \in DOMAIN phis'[c], j \in DOMAIN phis'[d] :
            phis'[c][i].dst = phis'[d][j].dst => c = d /\ i = j
       /\ \A c, d \in Block : \A i \in DOMAIN phis'[c], k \in DOMAIN blocks[d] :
            phis'[c][i].dst \notin Defines(blocks[d][k]) BY <2>1, <2>2 DEF PhisDistinct
 <2> QED BY <1>10, <2>3 DEF PhisDistinct
<1> QED BY <1>7, <1>11, <1>12

LEMMA FilledGrows ==
  ASSUME NEW ph, NEW ph2, NEW b, FilledFrom(ph, ph2, b), NEW rw
  PROVE  /\ Grows(ph, rw, ph2, rw)
         /\ \A y \in Block : \A x :
              (\E j \in DOMAIN ph[y] : ph[y][j].dst = x) => \E j \in DOMAIN ph2[y] : ph2[y][j].dst = x
<1>1. ASSUME NEW y \in Block, NEW x, NEW j \in DOMAIN ph[y], ph[y][j].dst = x
      PROVE  \E k \in DOMAIN ph2[y] : ph2[y][k].dst = x
 <2>1. j \in DOMAIN ph2[y] /\ ph2[y][j].dst = x BY <1>1 DEF FilledFrom
 <2> QED BY <2>1
<1>2. Grows(ph, rw, ph2, rw) BY <1>1 DEF Grows, DefinedIn
<1> QED BY <1>1, <1>2

LEMMA StepFill == ASSUME DomTree, RenameInv, FillSuccessors PROVE RenameInv'
<1> DEFINE b == Frame.block
           ph2 == phis'
<1>1. /\ calls # <<>> /\ Frame.at = Len(blocks[b]) + 1
      /\ calls' = [calls EXCEPT ![Len(calls)].at = @ + 1]
      /\ UNCHANGED <<function, promotable, placing>>
      /\ roots' = roots /\ var_stack' = var_stack /\ alias_map' = alias_map /\ rewritten' = rewritten BY DEF FillSuccessors
<1>2. PICK n \in Nat \ {0} :
        /\ n = Len(calls) /\ DOMAIN calls = 1 .. n /\ Frame = calls[n] /\ n \in 1 .. n
        /\ Frame \in CallRecord /\ b \in Block /\ Frame.at \in Nat BY <1>1, FrameFacts
<1>3. Frame = calls[Len(calls)] BY DEF Frame
<1>4. /\ Fixed /\ Nested(calls, roots)
      /\ RewrittenFrom(calls, roots, rewritten) /\ DefinedOnce(rewritten)
      /\ Written(calls, roots, rewritten)
      /\ Counted(calls, roots, phis) /\ StacksKnown(calls, var_stack, phis, rewritten)
      /\ AliasesKnown(calls, alias_map, phis, rewritten)
      /\ ReadsKnown(phis, rewritten) /\ IncomingsKnown(phis, rewritten) BY DEF RenameInv
<1>5. /\ Frame.at + 1 = End(b) /\ Frame.at < End(b) /\ End(b) \in Nat
      /\ Frame.at \notin DOMAIN blocks[b]
 <2>1. Len(blocks[b]) \in Nat /\ DOMAIN blocks[b] = 1 .. Len(blocks[b]) /\ End(b) = Len(blocks[b]) + 2 BY <1>2, <1>4, CodeFacts
 <2> QED BY <1>1, <2>1
<1>6. FilledFrom(phis, ph2, b) /\ PhisTyped' /\ PhisDistinct' BY <1>2, PhisFilled
<1>7. /\ Grows(phis, rewritten, ph2, rewritten)
      /\ \A y \in Block : \A x :
           (\E j \in DOMAIN phis[y] : phis[y][j].dst = x) => \E j \in DOMAIN ph2[y] : ph2[y][j].dst = x BY <1>6, FilledGrows
<1>8. Dealt(calls, calls', Frame.pushed, Frame.added)
 <2> DEFINE g == [Frame EXCEPT !.at = @ + 1]
 <2>1. /\ g \in CallRecord /\ g.block = Frame.block /\ g.children = Frame.children
       /\ g.at = Frame.at + 1 /\ g.pushed = Frame.pushed /\ g.added = Frame.added BY <1>2 DEF CallRecord
 <2>2. calls' = [calls EXCEPT ![Len(calls)] = g] BY <1>1, <1>3
 <2> HIDE DEF g
 <2> QED BY <1>1, <1>3, <1>4, <2>1, <2>2, DealtWith
<1> HIDE DEF ph2
<1>9. Moved(calls, calls') BY <1>8 DEF Dealt
<1>10. Nested(calls', roots) BY <1>3, <1>4, <1>5, <1>9, MovedNested
<1>11. Written(calls', roots, rewritten) BY <1>3, <1>4, <1>5, <1>9, WrittenDealt
<1>12. \A c \in Block : Reached(calls', roots, c, End(c)) <=> Reached(calls, roots, c, End(c)) \/ c = b
 <2>1. \A c \in Block : End(c) \in Nat BY <1>4, CodeFacts
 <2> QED BY <1>3, <1>4, <1>5, <1>9, <2>1, MovedReached
<1>13. ~Reached(calls, roots, b, End(b)) BY <1>2, <1>5 DEF Reached
<1>14. Counted(calls', roots, ph2)
 <2> SUFFICES ASSUME NEW y \in Block, NEW i \in DOMAIN ph2[y], NEW c \in Block
              PROVE  Cardinality(Labelled(ph2[y][i].incomings, c))
                       = IF Reached(calls', roots, c, End(c)) THEN Edges(c, y) ELSE 0 BY DEF Counted
 <2>1. i \in DOMAIN phis[y] BY <1>6 DEF FilledFrom
 <2>2. Followed(phis[y][i].incomings, ph2[y][i].incomings, b, CurrentValue(phis[y][i].var), Edges(b, y))
   BY <1>6, <2>1 DEF FilledFrom
 <2>3. Edges(b, y) \in Nat /\ Edges(c, y) \in Nat BY <1>2, EdgesCounted
 <2>4. Cardinality(Labelled(ph2[y][i].incomings, c))
         = Cardinality(Labelled(phis[y][i].incomings, c)) + (IF c = b THEN Edges(b, y) ELSE 0) BY <2>2, <2>3, LabelsFollowed
 <2>5. Cardinality(Labelled(phis[y][i].incomings, c))
         = IF Reached(calls, roots, c, End(c)) THEN Edges(c, y) ELSE 0 BY <1>4, <2>1 DEF Counted
 <2>6. CASE c = b BY <1>12, <1>13, <2>3, <2>4, <2>5, <2>6
 <2>7. CASE c # b BY <1>12, <2>3, <2>4, <2>5, <2>7
 <2> QED BY <2>6, <2>7
<1>15. StacksKnown(calls', var_stack, ph2, rewritten) BY <1>3, <1>4, <1>7, <1>8, StacksDealt
<1>16. AliasesKnown(calls', alias_map, ph2, rewritten)
 <2>1. Dealt(calls, calls', Frame.pushed, calls[Len(calls)].added) BY <1>3, <1>8
 <2> QED BY <1>3, <1>4, <1>5, <1>7, <2>1, AliasesDealt
<1>17. ReadsKnown(ph2, rewritten)
 <2> SUFFICES ASSUME NEW c \in Reachable(succs), NEW k \in DOMAIN rewritten[c],
                     NEW o \in ReadOperands(rewritten[c][k]), o.kind = "local"
              PROVE  Before(ph2, rewritten, o.id, c, k) BY DEF ReadsKnown
 <2>1. c \in Block BY DEF DomTree
 <2>2. PICK S : rewritten \in [Block -> Seq(S)] BY DEF RenameInv, RewrittenTyped
 <2>3. k \in Int
  <3>1. rewritten[c] \in Seq(S) BY <2>1, <2>2
  <3> QED BY <3>1
 <2>4. Before(phis, rewritten, o.id, c, k) BY <1>4 DEF ReadsKnown
 <2> QED BY <1>7, <2>1, <2>3, <2>4, BeforeGrows
<1>18. IncomingsKnown(ph2, rewritten)
 <2> SUFFICES ASSUME NEW c \in Block, NEW j \in DOMAIN ph2[c], NEW k \in DOMAIN ph2[c][j].incomings
              PROVE  ValueKnown(ph2, rewritten, ph2[c][j].incomings[k]) BY DEF IncomingsKnown
 <2>1. j \in DOMAIN phis[c] /\ phis[c][j].var \in promotable BY <1>6 DEF FilledFrom
 <2> DEFINE l == phis[c][j].incomings
            l2 == ph2[c][j].incomings
            o == CurrentValue(phis[c][j].var)
 <2>2. Followed(l, l2, b, o, Edges(b, c)) BY <1>6, <2>1 DEF FilledFrom
 <2>3. Edges(b, c) \in Nat BY <1>2, EdgesCounted
 <2>4. \A d \in Reachable(succs) : d \in Block /\ Dominators(succs, d) \subseteq Block BY DominanceFacts DEF DomTree
 <2>5. CASE k \in DOMAIN l /\ l2[k] = l[k]
  <3>1. ValueKnown(phis, rewritten, l[k]) BY <1>4, <2>1, <2>5 DEF IncomingsKnown
  <3> HIDE DEF l, l2
  <3>2. ValueKnown(ph2, rewritten, l[k]) BY <1>7, <2>4, <3>1 DEF ValueKnown, Grows
  <3> QED BY <2>5, <3>2 DEF l2
 <2>6. CASE l2[k].label = b /\ l2[k].value = o
  <3> HIDE DEF l2, o
  <3> SUFFICES ASSUME b \in Reachable(succs), o.kind = "local"
               PROVE  \E d \in Dominators(succs, b) : DefinedIn(ph2, rewritten, o.id, d) BY <2>6 DEF ValueKnown, l2
  <3>1. Live(calls) BY <1>1, <1>3, <1>4, ReachableLive
  <3>2. Avail(phis, rewritten, o, b) BY <2>1, <3>1, CurrentAvail DEF o
  <3> QED BY <1>7, <2>4, <3>2 DEF Avail, Grows
 <2>7. (k \in DOMAIN l /\ l2[k] = l[k]) \/ (l2[k].label = b /\ l2[k].value = o)
  <3>1. k \in DOMAIN l2 OBVIOUS
  <3> HIDE DEF l, l2, o, b
  <3>2. PICK m \in Nat : m = Len(l) BY Zenon, <2>2 DEF Followed
  <3>3. k \in 1 .. m + Edges(b, c) BY <2>2, <3>1, <3>2 DEF Followed
  <3>4. CASE k \in 1 .. m BY <2>2, <3>2, <3>4 DEF Followed
  <3>5. CASE k \in m + 1 .. m + Edges(b, c) BY <2>2, <3>2, <3>5 DEF Followed
  <3> QED BY <2>3, <3>3, <3>4, <3>5
 <2> QED BY <2>5, <2>6, <2>7
<1>19. Renaming(calls', roots', var_stack', alias_map', phis', rewritten')
 <2>1. RewrittenFrom(calls', roots, rewritten) BY <1>4, <1>9, FromDealt
 <2> QED BY <1>1, <1>4, <1>10, <1>11, <1>14, <1>15, <1>16, <1>17, <1>18, <2>1 DEF Renaming, ph2
<1> QED BY <1>1, <1>6, <1>19, TypedKept, RenameBuilt

(* A new call: the phis of its block are pushed. *)
Joined(cs, cs2, f) ==
  \E n \in Nat :
    /\ n = Len(cs) /\ DOMAIN cs = 1 .. n /\ Len(cs2) = n + 1 /\ DOMAIN cs2 = 1 .. n + 1
    /\ \A i \in 1 .. n : /\ cs2[i].block = cs[i].block /\ cs2[i].at = cs[i].at
                         /\ cs2[i].pushed = cs[i].pushed /\ cs2[i].added = cs[i].added
    /\ cs2[n + 1] = f

LEMMA CalledFacts ==
  ASSUME DomTree, RenameInv, NEW c \in Block
  PROVE  /\ Called(c) \in CallRecord /\ Called(c).block = c /\ Called(c).at = 1
         /\ Called(c).children = Children(idom, c) /\ Called(c).added = {}
         /\ Called(c).pushed = PhiVars(c)
<1>1. PICK S : phis \in [Block -> Seq(PhiRecord(S))] BY DEF RenameInv, PhisTyped
<1>2. phis[c] \in Seq(PhiRecord(S)) BY <1>1
<1>3. PICK n \in Nat : n = Len(phis[c]) BY <1>2
<1>4. DOMAIN phis[c] = 1 .. n /\ \A i \in 1 .. n : phis[c][i] \in PhiRecord(S) BY <1>2, <1>3, ElementType
<1>5. \A i \in 1 .. n : phis[c][i].var \in promotable BY <1>4 DEF PhiRecord
<1>6. PhiVars(c) = [i \in 1 .. n |-> phis[c][i].var] BY <1>4 DEF PhiVars
<1>7. PhiVars(c) \in Seq(promotable) BY <1>5, <1>6, IsASeq
<1>8. Children(idom, c) \subseteq Block
 <2>1. DOMAIN idom = Block BY DEF DomTree, IsTree
 <2> QED BY <2>1 DEF Children
<1> QED BY <1>7, <1>8 DEF Called, CallRecord

LEMMA PhiOccurrences ==
  ASSUME PhisDistinct, NEW c \in Block, NEW v PROVE Occurrences(PhiVars(c), v) = IF HasPhi(c, v) THEN 1 ELSE 0
<1> DEFINE l == PhiVars(c)
           J == {j \in DOMAIN l : l[j] = v}
<1>1. DOMAIN l = DOMAIN phis[c] /\ \A j \in DOMAIN phis[c] : l[j] = phis[c][j].var BY DEF PhiVars
<1>2. Occurrences(l, v) = Cardinality(J) BY DEF Occurrences
<1> HIDE DEF l
<1>3. CASE HasPhi(c, v)
 <2>1. PICK j \in DOMAIN phis[c] : phis[c][j].var = v BY <1>3 DEF HasPhi
 <2>2. \A k \in DOMAIN phis[c] : phis[c][k].var = v => k = j BY <2>1 DEF PhisDistinct
 <2>3. J = {j} BY <1>1, <2>1, <2>2
 <2>4. Cardinality(J) = 1 BY <2>3, FS_Singleton
 <2> QED BY <1>2, <1>3, <2>4 DEF l
<1>4. CASE ~HasPhi(c, v)
 <2>1. J = {} BY <1>1, <1>4 DEF HasPhi
 <2>2. Cardinality(J) = 0 BY <2>1, FS_EmptySet
 <2> QED BY <1>2, <1>4, <2>2 DEF l
<1> QED BY <1>3, <1>4

PushedOn(st, st2, c) ==
  \A v \in promotable :
    /\ Len(st[v]) \in Nat
    /\ Len(st2[v]) = Len(st[v]) + Occurrences(PhiVars(c), v)
    /\ \A p \in 1 .. Len(st[v]) : st2[v][p] = st[v][p]
    /\ \A p \in Len(st[v]) + 1 .. Len(st2[v]) : Avail(phis, rewritten, st2[v][p], c)

LEMMA PhisPushed ==
  ASSUME DomTree, RenameInv, NEW c \in Block, NEW S, NEW st \in [promotable -> Seq(S)],
         NEW st2, st2 = Pushed(st, c)
  PROVE  PushedOn(st, st2, c) /\ st2 \in [promotable -> Seq(S \cup Operand)]
<1> DEFINE T == S \cup Operand
           R(v) == Local(phis[c][PhiOf(c, v)].dst)
<1>1. ASSUME NEW v \in promotable, HasPhi(c, v) PROVE R(v) \in Operand /\ Avail(phis, rewritten, R(v), c)
 <2>1. PhiOf(c, v) \in DOMAIN phis[c] /\ phis[c][PhiOf(c, v)].var = v BY <1>1 DEF HasPhi, PhiOf
 <2>2. PICK U : phis \in [Block -> Seq(PhiRecord(U))] BY DEF RenameInv, PhisTyped
 <2>3. phis[c] \in Seq(PhiRecord(U)) BY <2>2
 <2>4. phis[c][PhiOf(c, v)] \in PhiRecord(U) BY <2>1, <2>3, ElementType
 <2>5. phis[c][PhiOf(c, v)].dst \in Int BY <2>4 DEF PhiRecord
 <2>6. R(v) \in Operand /\ R(v).id = phis[c][PhiOf(c, v)].dst BY <2>5 DEF Local, Operand
 <2>7. DefinedIn(phis, rewritten, R(v).id, c) BY <2>1, <2>6 DEF DefinedIn
 <2>8. c \in Dominators(succs, c) BY DominanceFacts DEF DomTree
 <2> QED BY <2>6, <2>7, <2>8 DEF Avail
<1>2. \A s \in Seq(S) : s \in Seq(T) BY SeqLifted
<1>3. \A v \in promotable :
        Occurrences(PhiVars(c), v) = IF HasPhi(c, v) THEN 1 ELSE 0 BY PhiOccurrences DEF RenameInv
<1>4. \A v \in promotable : st2[v] = IF HasPhi(c, v) THEN Append(st[v], R(v)) ELSE st[v] BY DEF Pushed
<1>5. st2 = [v \in promotable |-> st2[v]] BY DEF Pushed
<1>6. ASSUME NEW v \in promotable
      PROVE  /\ st2[v] \in Seq(T) /\ Len(st[v]) \in Nat
             /\ Len(st2[v]) = Len(st[v]) + Occurrences(PhiVars(c), v)
             /\ \A p \in 1 .. Len(st[v]) : st2[v][p] = st[v][p]
             /\ \A p \in Len(st[v]) + 1 .. Len(st2[v]) : Avail(phis, rewritten, st2[v][p], c)
 <2>1. st[v] \in Seq(S) /\ st[v] \in Seq(T) BY <1>2
 <2>2. PICK n \in Nat : n = Len(st[v]) BY <2>1
 <2>3. CASE HasPhi(c, v)
  <3>1. R(v) \in T /\ Avail(phis, rewritten, R(v), c) BY <1>1, <2>3
  <3>2. st2[v] = Append(st[v], R(v)) /\ Occurrences(PhiVars(c), v) = 1 BY <1>3, <1>4, <2>3
  <3> HIDE DEF R, T
  <3>3. /\ st2[v] \in Seq(T) /\ Len(st2[v]) = n + 1
        /\ \A p \in 1 .. n : st2[v][p] = st[v][p]
        /\ st2[v][n + 1] = R(v) BY <2>1, <2>2, <3>1, <3>2, AppendFacts
  <3>4. \A p \in n + 1 .. n + 1 : p = n + 1 OBVIOUS
  <3> QED BY <2>2, <3>1, <3>2, <3>3, <3>4
 <2>4. CASE ~HasPhi(c, v)
  <3>1. st2[v] = st[v] /\ Occurrences(PhiVars(c), v) = 0 BY <1>3, <1>4, <2>4
  <3>2. n + 1 .. n = {} OBVIOUS
  <3> HIDE DEF T
  <3> QED BY <2>1, <2>2, <3>1, <3>2
 <2> QED BY <2>3, <2>4
<1> HIDE DEF T, R
<1>7. st2 \in [promotable -> Seq(T)] BY <1>5, <1>6
<1> QED BY <1>6, <1>7 DEF PushedOn, T

LEMMA EnterStacks ==
  ASSUME DomTree, NEW cs, NEW rs, Nested(cs, rs), NEW cs2, NEW rs2, Nested(cs2, rs2), NEW c \in Block, NEW f,
         f.block = c, f.pushed = PhiVars(c), PhiVars(c) \in Seq(promotable), Joined(cs, cs2, f),
         NEW st, NEW st2, PushedOn(st, st2, c), NEW m, Heights(cs, st, m),
         StacksAvail(cs, st, m, phis, rewritten), \A v \in promotable : m[Len(cs)][v] = Len(st[v])
  PROVE  StacksKnown(cs2, st2, phis, rewritten)
<1>1. PICK n \in Nat :
        /\ n = Len(cs) /\ DOMAIN cs = 1 .. n /\ Len(cs2) = n + 1 /\ DOMAIN cs2 = 1 .. n + 1
        /\ \A i \in 1 .. n : /\ cs2[i].block = cs[i].block /\ cs2[i].at = cs[i].at
                             /\ cs2[i].pushed = cs[i].pushed /\ cs2[i].added = cs[i].added
        /\ cs2[n + 1] = f BY DEF Joined
<1> DEFINE G(v) == Occurrences(PhiVars(c), v)
<1>2. \A v \in promotable : G(v) \in Nat BY OccurrencesOf
<1>3. /\ m \in [0 .. n -> [promotable -> Nat]]
      /\ \A v \in promotable :
           /\ m[0][v] = 0 /\ m[n][v] = Len(st[v])
           /\ \A i \in 1 .. n : m[i][v] = m[i - 1][v] + Occurrences(cs[i].pushed, v) BY <1>1 DEF Heights
<1>4. n \in 0 .. n /\ 0 \in 0 .. n /\ n + 1 # 0 /\ n + 1 \notin 0 .. n /\ n + 1 \in 0 .. n + 1 BY <1>1
<1> HIDE DEF G
<1> DEFINE More(i, v) == IF i = n + 1 THEN m[n][v] + G(v) ELSE m[i][v]
           m2 == [i \in 0 .. n + 1 |-> [v \in promotable |-> More(i, v)]]
<1>5. \A i \in 0 .. n + 1 : \A v \in promotable : More(i, v) \in Nat
 <2> SUFFICES ASSUME NEW i \in 0 .. n + 1, NEW v \in promotable PROVE More(i, v) \in Nat OBVIOUS
 <2>1. CASE i = n + 1 BY <1>2, <1>3, <1>4, <2>1
 <2>2. CASE i # n + 1
  <3>1. i \in 0 .. n BY <2>2
  <3> QED BY <1>3, <2>2, <3>1
 <2> QED BY <2>1, <2>2
<1>6. /\ \A i \in 0 .. n + 1 : \A v \in promotable : m2[i][v] = More(i, v)
      /\ m2 \in [0 .. n + 1 -> [promotable -> Nat]]
 <2> HIDE DEF More
 <2> QED BY <1>5
<1> HIDE DEF m2
<1>7. /\ \A i \in 0 .. n : \A v \in promotable : m2[i][v] = m[i][v]
      /\ \A v \in promotable : m2[n + 1][v] = m[n][v] + G(v)
 <2>1. \A i \in 0 .. n : i \in 0 .. n + 1 /\ i # n + 1 OBVIOUS
 <2> QED BY <1>4, <1>6, <2>1
<1>8. ASSUME NEW v \in promotable
      PROVE  /\ m2[0][v] = 0 /\ m2[n + 1][v] = Len(st2[v])
             /\ \A i \in 1 .. n + 1 : m2[i][v] = m2[i - 1][v] + Occurrences(cs2[i].pushed, v)
 <2>1. m2[0][v] = 0 BY <1>3, <1>4, <1>7
 <2>2. m2[n + 1][v] = Len(st2[v])
  <3>1. Len(st2[v]) = Len(st[v]) + G(v) BY DEF PushedOn, G
  <3>2. m2[n + 1][v] = m[n][v] + G(v) /\ m[n][v] = Len(st[v]) BY <1>3, <1>7
  <3> QED BY <3>1, <3>2
 <2>3. ASSUME NEW i \in 1 .. n + 1 PROVE m2[i][v] = m2[i - 1][v] + Occurrences(cs2[i].pushed, v)
  <3>1. CASE i = n + 1
   <4>1. i - 1 = n BY <3>1
   <4> QED BY <1>1, <1>4, <1>7, <3>1, <4>1 DEF G
  <3>2. CASE i # n + 1
   <4>1. i \in 1 .. n /\ i \in 0 .. n /\ i - 1 \in 0 .. n BY <3>2
   <4> QED BY <1>1, <1>3, <1>7, <4>1
  <3> QED BY <3>1, <3>2
 <2> QED BY <2>1, <2>2, <2>3
<1>9. Heights(cs2, st2, m2) BY <1>1, <1>6, <1>8 DEF Heights
<1>10. ASSUME Live(cs2), NEW i \in 1 .. n, NEW v \in promotable, NEW p \in 1 .. m[i][v]
       PROVE  p \in 1 .. m[n][v] /\ Avail(phis, rewritten, st2[v][p], cs2[i].block)
 <2>1. cs # <<>> /\ 1 \in 1 .. n BY <1>1
 <2>2. Live(cs) BY <1>1, <1>10, <2>1 DEF Live
 <2>3. i \in 0 .. n OBVIOUS
 <2>4. m[i][v] \in Nat /\ m[n][v] \in Nat /\ m[i][v] <= m[n][v]
  <3>1. cs \in Seq(CallRecord) BY DEF Nested
  <3>2. m[n][v] \in Nat /\ \A j \in 0 .. n : m[j][v] <= m[n][v] BY <1>1, <1>4, <3>1, HeightsGrow
  <3> QED BY <1>3, <2>3, <3>2
 <2>5. p \in 1 .. m[n][v] BY <2>4
 <2>6. st2[v][p] = st[v][p] BY <1>3, <2>5 DEF PushedOn
 <2>7. Avail(phis, rewritten, st[v][p], cs[i].block) BY <1>1, <2>2 DEF StacksAvail
 <2> QED BY <1>1, <2>5, <2>6, <2>7
<1>11. ASSUME Live(cs2), NEW i \in 1 .. n + 1, NEW v \in promotable, NEW p \in 1 .. m2[i][v]
       PROVE  Avail(phis, rewritten, st2[v][p], cs2[i].block)
 <2>1. CASE i # n + 1
  <3>1. i \in 1 .. n /\ i \in 0 .. n BY <2>1
  <3> QED BY <1>7, <1>10, <1>11, <3>1
 <2>2. CASE i = n + 1
  <3>1. m[n][v] \in Nat /\ G(v) \in Nat /\ m2[i][v] = m[n][v] + G(v) BY <1>2, <1>3, <1>4, <1>7, <2>2
  <3>2. CASE p \in 1 .. m[n][v]
   <4>1. n # 0 BY <1>3, <3>2
   <4>2. n \in 1 .. n /\ n \in DOMAIN cs2 /\ n + 1 \in DOMAIN cs2 /\ n <= n + 1 BY <1>1, <4>1
   <4>3. Avail(phis, rewritten, st2[v][p], cs2[n].block) BY <1>10, <1>11, <3>2, <4>2
   <4> QED BY <1>11, <2>2, <4>2, <4>3, AvailBelow
  <3>3. CASE p \notin 1 .. m[n][v]
   <4>1. p \in Len(st[v]) + 1 .. Len(st2[v]) BY <1>3, <1>8, <2>2, <3>1, <3>3
   <4> QED BY <1>1, <2>2, <4>1 DEF PushedOn
  <3> QED BY <3>2, <3>3
 <2> QED BY <2>1, <2>2
<1>12. StacksAvail(cs2, st2, m2, phis, rewritten) BY <1>1, <1>11 DEF StacksAvail
<1> QED BY <1>9, <1>12 DEF StacksKnown

LEMMA EnterAliases ==
  ASSUME Fixed, NEW cs, NEW cs2, NEW c \in Block, NEW f, f.block = c, f.at = 1, f.added = {},
         Joined(cs, cs2, f), NEW al, NEW ph, NEW rw, AliasesKnown(cs, al, ph, rw)
  PROVE  AliasesKnown(cs2, al, ph, rw)
<1>1. PICK n \in Nat :
        /\ n = Len(cs) /\ DOMAIN cs = 1 .. n /\ Len(cs2) = n + 1 /\ DOMAIN cs2 = 1 .. n + 1
        /\ \A i \in 1 .. n : /\ cs2[i].block = cs[i].block /\ cs2[i].at = cs[i].at
                             /\ cs2[i].pushed = cs[i].pushed /\ cs2[i].added = cs[i].added
        /\ cs2[n + 1] = f BY DEF Joined
<1>2. \A i \in 1 .. n + 1 : i \in 1 .. n \/ i = n + 1 OBVIOUS
<1>3. \A i \in 1 .. n + 1 : cs2[i].added = LoadedBefore(cs2[i].block, cs2[i].at)
 <2>1. \A i \in 1 .. n : cs2[i].added = LoadedBefore(cs2[i].block, cs2[i].at) BY <1>1 DEF AliasesKnown
 <2>2. cs2[n + 1].added = LoadedBefore(cs2[n + 1].block, cs2[n + 1].at) BY <1>1, LoadsFollow
 <2> QED BY <1>2, <2>1, <2>2
<1>4. \A x \in DOMAIN al : \E i \in 1 .. n + 1 : x \in cs2[i].added
 <2>1. \A i \in 1 .. n : i \in 1 .. n + 1 OBVIOUS
 <2> QED BY <1>1, <2>1 DEF AliasesKnown
<1>5. ASSUME NEW i \in 1 .. n + 1, NEW x \in cs2[i].added
      PROVE  x \in DOMAIN al /\ (Live(cs2) => Avail(ph, rw, al[x], cs2[i].block))
 <2>1. i \in 1 .. n BY <1>1, <1>2, <1>5
 <2>2. cs # <<>> /\ 1 \in 1 .. n BY <1>1, <2>1
 <2>3. Live(cs2) => Live(cs) BY <1>1, <2>2 DEF Live
 <2>4. x \in cs[i].added BY <1>1, <1>5, <2>1
 <2>5. x \in DOMAIN al /\ (Live(cs) => Avail(ph, rw, al[x], cs[i].block)) BY <1>1, <2>1, <2>4 DEF AliasesKnown
 <2> QED BY <1>1, <2>1, <2>3, <2>5
<1> QED BY <1>1, <1>3, <1>4, <1>5 DEF AliasesKnown

(* Of a block just called nothing is through yet. *)
OneMore(cs, rs, cs2, rs2, c) ==
  \A b \in Block : \A k \in Nat : Reached(cs2, rs2, b, k) <=> Reached(cs, rs, b, k) \/ (b = c /\ k <= 1)

LEMMA EnterWritten ==
  ASSUME Fixed, NEW cs, NEW rs, NEW cs2, NEW rs2, NEW c, OneMore(cs, rs, cs2, rs2, c),
         NEW ph, NEW rw, RewrittenFrom(cs, rs, rw), Written(cs, rs, rw), Counted(cs, rs, ph)
  PROVE  RewrittenFrom(cs2, rs2, rw) /\ Written(cs2, rs2, rw) /\ Counted(cs2, rs2, ph)
<1>1. \A b \in Block : \A k \in Nat : k > 1 => (Reached(cs2, rs2, b, k) <=> Reached(cs, rs, b, k)) BY DEF OneMore
<1>2. \A b \in Block : \A j \in DOMAIN blocks[b] : j + 1 \in Nat /\ j + 1 > 1
 <2> SUFFICES ASSUME NEW b \in Block, NEW j \in DOMAIN blocks[b] PROVE j + 1 \in Nat /\ j + 1 > 1 OBVIOUS
 <2>1. Len(blocks[b]) \in Nat /\ DOMAIN blocks[b] = 1 .. Len(blocks[b]) BY CodeFacts
 <2> QED BY <2>1
<1>3. \A b \in Block : End(b) \in Nat /\ End(b) > 1
 <2> SUFFICES ASSUME NEW b \in Block PROVE End(b) \in Nat /\ End(b) > 1 OBVIOUS
 <2>1. Len(blocks[b]) \in Nat /\ End(b) = Len(blocks[b]) + 2 BY CodeFacts
 <2> QED BY <2>1
<1>4. Written(cs2, rs2, rw) BY <1>1, <1>2 DEF Written
<1>5. Counted(cs2, rs2, ph) BY <1>1, <1>3 DEF Counted
<1>6. RewrittenFrom(cs2, rs2, rw)
 <2>1. StillReached(cs, rs, cs2, rs2) BY <1>1, <1>2 DEF StillReached
 <2> QED BY <2>1, FromReached
<1> QED BY <1>4, <1>5, <1>6

(* A call that returns: its values and aliases are taken away. *)
Cut(cs, st, st2) ==
  \A v \in promotable :
    /\ Len(st2[v]) = Len(st[v]) - Occurrences(cs[Len(cs)].pushed, v)
    /\ \A p \in 1 .. Len(st2[v]) : st2[v][p] = st[v][p]

LEMMA LeftFacts ==
  ASSUME NEW cs, NEW rs, Nested(cs, rs), cs # <<>>
  PROVE  \E n \in Nat :
           /\ Len(cs) = n + 1 /\ DOMAIN cs = 1 .. n + 1
           /\ Len(Front(cs)) = n /\ DOMAIN Front(cs) = 1 .. n /\ \A i \in 1 .. n : Front(cs)[i] = cs[i]
           /\ Front(cs) \in Seq(CallRecord) /\ (Live(Front(cs)) => Live(cs))
<1>1. cs \in Seq(CallRecord) /\ Len(cs) \in Nat /\ DOMAIN cs = 1 .. Len(cs) BY CallFacts DEF Nested
<1>2. Len(cs) # 0 BY <1>1
<1>3. PICK n \in Nat : Len(cs) = n + 1
 <2>1. Len(cs) - 1 \in Nat /\ Len(cs) = (Len(cs) - 1) + 1 BY <1>1, <1>2
 <2> QED BY Zenon, <2>1
<1>4. Front(cs) = [i \in 1 .. n |-> cs[i]]
 <2>1. Front(cs) = SubSeq(cs, 1, n) BY <1>3 DEF Front
 <2>2. \A i \in 1 .. n : i \in 1 .. Len(cs) BY <1>3
 <2> QED BY <1>1, <1>3, <2>1, <2>2, SubSeqProperties
<1>5. \A i \in 1 .. n : cs[i] \in CallRecord
 <2>1. \A i \in 1 .. n : i \in DOMAIN cs BY <1>1, <1>3
 <2> QED BY <1>1, <2>1, ElementType
<1>6. Front(cs) \in Seq(CallRecord) BY <1>4, <1>5, IsASeq
<1>7. Len(Front(cs)) = n /\ DOMAIN Front(cs) = 1 .. n
 <2> DEFINE l == Front(cs)
 <2>1. l \in Seq(CallRecord) /\ DOMAIN l = 1 .. n BY <1>4, <1>6
 <2> HIDE DEF l
 <2>2. Len(l) = n BY <2>1
 <2> QED BY <2>1, <2>2 DEF l
<1>8. \A i \in 1 .. n : Front(cs)[i] = cs[i] BY <1>4
<1>9. Live(Front(cs)) => Live(cs)
 <2> SUFFICES ASSUME Live(Front(cs)) PROVE Live(cs) OBVIOUS
 <2> DEFINE l == Front(cs)
 <2>1. l # <<>> /\ l[1].block = Entry BY DEF Live
 <2>2. l \in Seq(CallRecord) /\ Len(l) = n /\ \A i \in 1 .. n : l[i] = cs[i] BY <1>6, <1>7, <1>8
 <2> HIDE DEF l
 <2>3. n # 0 BY <2>1, <2>2
 <2>4. 1 \in 1 .. n BY <2>3
 <2> QED BY <2>1, <2>2, <2>4 DEF Live
<1> QED BY <1>1, <1>3, <1>6, <1>7, <1>8, <1>9

LEMMA LeaveStacks ==
  ASSUME NEW cs, NEW rs, Nested(cs, rs), cs # <<>>, NEW st, NEW st2, Cut(cs, st, st2),
         NEW ph, NEW rw, StacksKnown(cs, st, ph, rw)
  PROVE  StacksKnown(Front(cs), st2, ph, rw)
<1> DEFINE l == Front(cs)
<1>1. PICK n \in Nat :
           /\ Len(cs) = n + 1 /\ DOMAIN cs = 1 .. n + 1
           /\ Len(l) = n /\ DOMAIN l = 1 .. n /\ \A i \in 1 .. n : l[i] = cs[i]
           /\ l \in Seq(CallRecord) /\ (Live(l) => Live(cs)) BY LeftFacts
<1> HIDE DEF l
<1>2. PICK m : Heights(cs, st, m) /\ StacksAvail(cs, st, m, ph, rw) BY DEF StacksKnown
<1>3. /\ m \in [0 .. n + 1 -> [promotable -> Nat]]
      /\ \A v \in promotable :
           /\ m[0][v] = 0 /\ m[n + 1][v] = Len(st[v])
           /\ \A i \in 1 .. n + 1 : m[i][v] = m[i - 1][v] + Occurrences(cs[i].pushed, v) BY <1>1, <1>2 DEF Heights
<1>4. \A i \in 0 .. n : i \in 0 .. n + 1 OBVIOUS
<1>5. \A i \in 1 .. n : i \in 1 .. n + 1 OBVIOUS
<1> DEFINE m2 == [i \in 0 .. n |-> m[i]]
<1>6. m2 \in [0 .. n -> [promotable -> Nat]] /\ \A i \in 0 .. n : m2[i] = m[i] BY <1>3, <1>4
<1> HIDE DEF m2
<1>7. n + 1 \in 1 .. n + 1 /\ (n + 1) - 1 = n /\ n \in 0 .. n /\ 0 \in 0 .. n /\ n + 1 \in 0 .. n + 1 OBVIOUS
<1>8. ASSUME NEW v \in promotable
      PROVE  /\ m2[0][v] = 0 /\ m2[n][v] = Len(st2[v])
             /\ \A i \in 1 .. n : m2[i][v] = m2[i - 1][v] + Occurrences(l[i].pushed, v)
 <2>1. m2[0][v] = 0 BY <1>3, <1>6, <1>7
 <2>2. m2[n][v] = Len(st2[v])
  <3> DEFINE d == Occurrences(cs[n + 1].pushed, v)
  <3>1. cs[n + 1].pushed \in Seq(promotable) BY <1>1, <1>7, CallFacts DEF Nested
  <3>2. d \in Nat BY <3>1, OccurrencesOf
  <3>3. Len(st2[v]) = Len(st[v]) - d BY <1>1 DEF Cut
  <3>4. m[n + 1][v] = m[n][v] + d BY <1>3, <1>7
  <3>5. m[n][v] \in Nat BY <1>3, <1>4, <1>7
  <3> HIDE DEF d
  <3>6. Len(st[v]) = m[n + 1][v] /\ m2[n][v] = m[n][v] BY <1>3, <1>6, <1>7
  <3> QED BY <3>2, <3>3, <3>4, <3>5, <3>6
 <2>3. ASSUME NEW i \in 1 .. n PROVE m2[i][v] = m2[i - 1][v] + Occurrences(l[i].pushed, v)
  <3>1. i \in 0 .. n /\ i - 1 \in 0 .. n OBVIOUS
  <3> QED BY <1>1, <1>3, <1>5, <1>6, <3>1
 <2> QED BY <2>1, <2>2, <2>3
<1>9. Heights(l, st2, m2) BY <1>1, <1>6, <1>8 DEF Heights
<1>10. ASSUME Live(l), NEW i \in 1 .. n, NEW v \in promotable, NEW p \in 1 .. m2[i][v]
       PROVE  Avail(ph, rw, st2[v][p], l[i].block)
 <2>1. Live(cs) /\ i \in 1 .. n + 1 /\ i \in 0 .. n /\ l[i] = cs[i] BY <1>1, <1>5, <1>10
 <2>2. p \in 1 .. m[i][v] BY <1>6, <2>1
 <2>3. Avail(ph, rw, st[v][p], cs[i].block) BY <1>1, <1>2, <2>1, <2>2 DEF StacksAvail
 <2>4. m2[i][v] \in Nat /\ m2[n][v] \in Nat /\ m2[i][v] <= m2[n][v]
  <3>1. m2[n][v] \in Nat /\ \A j \in 0 .. n : m2[j][v] <= m2[n][v] BY <1>1, <1>7, <1>9, HeightsGrow
  <3> QED BY <1>6, <2>1, <3>1
 <2>5. p \in 1 .. Len(st2[v]) BY <1>8, <2>4
 <2>6. st2[v][p] = st[v][p] BY <2>5 DEF Cut
 <2> QED BY <2>1, <2>3, <2>6
<1>11. StacksAvail(l, st2, m2, ph, rw) BY <1>1, <1>10 DEF StacksAvail
<1>12. StacksKnown(l, st2, ph, rw) BY <1>9, <1>11 DEF StacksKnown
<1> QED BY <1>12 DEF l

LEMMA LeaveAliases ==
  ASSUME Fixed, DomTree, NEW cs, NEW rs, Nested(cs, rs), cs # <<>>, NEW al, NEW al2,
         al2 = [j \in DOMAIN al \ cs[Len(cs)].added |-> al[j]],
         NEW ph, NEW rw, AliasesKnown(cs, al, ph, rw)
  PROVE  AliasesKnown(Front(cs), al2, ph, rw)
<1> DEFINE l == Front(cs)
<1>1. PICK n \in Nat :
           /\ Len(cs) = n + 1 /\ DOMAIN cs = 1 .. n + 1
           /\ Len(l) = n /\ DOMAIN l = 1 .. n /\ \A i \in 1 .. n : l[i] = cs[i]
           /\ l \in Seq(CallRecord) /\ (Live(l) => Live(cs)) BY LeftFacts
<1> HIDE DEF l
<1>2. \A i \in 1 .. n : i \in 1 .. n + 1 /\ i # n + 1 OBVIOUS
<1>3. \A i \in 1 .. n + 1 : i = n + 1 \/ i \in 1 .. n OBVIOUS
<1>4. DOMAIN al2 = DOMAIN al \ cs[n + 1].added /\ \A x \in DOMAIN al2 : al2[x] = al[x] BY <1>1
<1>5. \A i \in 1 .. n : l[i].added = LoadedBefore(l[i].block, l[i].at) BY <1>1, <1>2 DEF AliasesKnown
<1>6. ASSUME NEW x \in DOMAIN al2 PROVE \E i \in 1 .. n : x \in l[i].added
 <2>1. PICK i \in 1 .. n + 1 : x \in cs[i].added BY <1>1, <1>4 DEF AliasesKnown
 <2>2. i \in 1 .. n BY <1>3, <1>4, <2>1
 <2> QED BY <1>1, <2>1, <2>2
<1>7. ASSUME NEW i \in 1 .. n, NEW x \in l[i].added
      PROVE  x \in DOMAIN al2 /\ (Live(l) => Avail(ph, rw, al2[x], l[i].block))
 <2>1. i \in 1 .. n + 1 /\ i # n + 1 /\ n + 1 \in 1 .. n + 1 /\ x \in cs[i].added BY <1>1, <1>2
 <2>2. x \in DOMAIN al /\ (Live(cs) => Avail(ph, rw, al[x], cs[i].block)) BY <1>1, <2>1 DEF AliasesKnown
 <2>3. x \notin cs[n + 1].added
  <3> SUFFICES ASSUME x \in cs[n + 1].added PROVE FALSE OBVIOUS
  <3>1. /\ x \in LoadedBefore(cs[i].block, cs[i].at)
        /\ x \in LoadedBefore(cs[n + 1].block, cs[n + 1].at) BY <1>1, <2>1 DEF AliasesKnown
  <3>2. cs[i].block \in Block /\ cs[n + 1].block \in Block BY <1>1, <2>1, CallFacts DEF Nested
  <3>3. PICK j \in DOMAIN blocks[cs[n + 1].block] :
          /\ PromotedLoad(blocks[cs[n + 1].block][j])
          /\ x = blocks[cs[n + 1].block][j].dst BY <3>1 DEF LoadedBefore
  <3>4. x \in Defines(blocks[cs[n + 1].block][j])
   <4>1. blocks[cs[n + 1].block][j] \in Stmt BY <3>2, CodeFacts
   <4> QED BY <3>3, <4>1, StmtFacts DEF PromotedLoad
  <3>5. cs[i].block = cs[n + 1].block BY <3>1, <3>2, <3>4, LoadedThere
  <3> QED BY <1>1, <2>1, <3>5, CallPath
 <2> QED BY <1>1, <1>4, <2>1, <2>2, <2>3
<1>8. AliasesKnown(l, al2, ph, rw) BY <1>1, <1>5, <1>6, <1>7 DEF AliasesKnown
<1> QED BY <1>8 DEF l

LEMMA LeastBlock == ASSUME NEW S, S \subseteq Block, S # {} PROVE Least(S) \in S
<1>1. S \in SUBSET Nat BY BlockFacts, SizeAssumption
<1>2. PICK x \in S : \A y \in S : x <= y BY <1>1, LeastNumber
<1> QED BY <1>2 DEF Least

LEMMA StepRoot == ASSUME DomTree, RenameInv, RenameRoot PROVE RenameInv'
<1> DEFINE c == Least(roots)
           f == Called(c)
           st == [v \in promotable |-> <<>>]
<1>1. /\ calls = <<>> /\ roots # {}
      /\ roots' = roots \ {c} /\ calls' = <<f>>
      /\ var_stack' = Pushed(st, c) /\ alias_map' = <<>>
      /\ UNCHANGED <<function, promotable, placing>>
      /\ phis' = phis /\ rewritten' = rewritten BY DEF RenameRoot
<1>2. /\ Fixed /\ Nested(calls, roots)
      /\ RewrittenFrom(calls, roots, rewritten) /\ DefinedOnce(rewritten)
      /\ Written(calls, roots, rewritten)
      /\ Counted(calls, roots, phis)
      /\ ReadsKnown(phis, rewritten) /\ IncomingsKnown(phis, rewritten) BY DEF RenameInv
<1>3. c \in roots /\ c \in Block
 <2>1. roots \subseteq Block BY <1>2 DEF Nested, Roots, DomTree, IsTree
 <2>2. c \in roots BY <1>1, <2>1, LeastBlock
 <2> QED BY <2>1, <2>2
<1> HIDE DEF c
<1>4. /\ f \in CallRecord /\ f.block = c /\ f.at = 1
      /\ f.children = Children(idom, c) /\ f.added = {} /\ f.pushed = PhiVars(c) BY <1>3, CalledFacts
<1> HIDE DEF f
<1>5. /\ Nested(<<f>>, roots \ {c})
      /\ \A b \in Block : \A k \in Nat :
           Reached(<<f>>, roots \ {c}, b, k) <=> Reached(<<>>, roots, b, k) \/ (b = c /\ k <= 1)
  BY <1>1, <1>2, <1>3, <1>4, RootEntered
<1>6. Nested(calls', roots') BY <1>1, <1>5
<1>7. RewrittenFrom(calls', roots', rewritten) /\ Written(calls', roots', rewritten)
      /\ Counted(calls', roots', phis)
 <2>1. OneMore(calls, roots, calls', roots', c) BY <1>1, <1>5 DEF OneMore
 <2> QED BY <1>2, <2>1, EnterWritten
<1>8. Joined(<<>>, calls', f)
 <2>1. Len(<<>>) = 0 /\ DOMAIN <<>> = 1 .. 0 OBVIOUS
 <2>2. Len(calls') = 0 + 1 /\ DOMAIN calls' = 1 .. 0 + 1 /\ calls'[0 + 1] = f BY <1>1
 <2> QED BY <2>1, <2>2 DEF Joined
<1>9. PushedOn(st, var_stack', c) /\ var_stack' \in [promotable -> Seq({} \cup Operand)]
 <2>1. st \in [promotable -> Seq({})] OBVIOUS
 <2> HIDE DEF st
 <2> QED BY <1>1, <1>3, <2>1, PhisPushed
<1>10. StacksTyped'
 <2>1. promotable' = promotable BY <1>1
 <2> QED BY <1>9, <2>1 DEF StacksTyped
<1>11. StacksKnown(calls', var_stack', phis, rewritten)
 <2> DEFINE m == [i \in 0 .. 0 |-> [v \in promotable |-> 0]]
 <2>1. m \in [0 .. 0 -> [promotable -> Nat]] /\ \A v \in promotable : m[0][v] = 0 OBVIOUS
 <2>2. Len(<<>>) = 0 /\ DOMAIN <<>> = {} /\ \A v \in promotable : Len(st[v]) = 0 OBVIOUS
 <2> HIDE DEF m, st
 <2>3. Heights(<<>>, st, m) /\ StacksAvail(<<>>, st, m, phis, rewritten) BY <2>1, <2>2 DEF Heights, StacksAvail, Live
 <2>4. \A v \in promotable : m[Len(<<>>)][v] = Len(st[v]) BY <2>1, <2>2
 <2>5. PhiVars(c) \in Seq(promotable) BY <1>4 DEF CallRecord
 <2>6. Nested(<<>>, roots) BY <1>1, <1>2
 <2> QED BY <1>3, <1>4, <1>6, <1>8, <1>9, <2>3, <2>4, <2>5, <2>6, EnterStacks
<1>12. AliasesKnown(calls', alias_map', phis, rewritten)
 <2>1. DOMAIN <<>> = {} OBVIOUS
 <2>2. AliasesKnown(<<>>, <<>>, phis, rewritten) BY <2>1 DEF AliasesKnown
 <2> QED BY <1>1, <1>2, <1>3, <1>4, <1>8, <2>2, EnterAliases
<1>13. Renaming(calls', roots', var_stack', alias_map', phis', rewritten') BY <1>1, <1>2, <1>6, <1>7, <1>11, <1>12 DEF Renaming
<1> QED BY <1>1, <1>10, <1>13, TypedKept, RenameBuilt

LEMMA StepChild == ASSUME DomTree, RenameInv, RenameChild PROVE RenameInv'
<1> DEFINE c == Least(Frame.children)
           f == Called(c)
<1>1. /\ calls # <<>> /\ Frame.at = Len(blocks[Frame.block]) + 2 /\ Frame.children # {}
      /\ calls' = Append(Without(calls, Len(calls), c), f)
      /\ var_stack' = Pushed(var_stack, c)
      /\ UNCHANGED <<function, promotable, placing>>
      /\ phis' = phis /\ rewritten' = rewritten /\ roots' = roots /\ alias_map' = alias_map BY DEF RenameChild, Filled, Without
<1>2. /\ Fixed /\ Nested(calls, roots)
      /\ RewrittenFrom(calls, roots, rewritten) /\ DefinedOnce(rewritten)
      /\ Written(calls, roots, rewritten)
      /\ Counted(calls, roots, phis) /\ StacksKnown(calls, var_stack, phis, rewritten)
      /\ AliasesKnown(calls, alias_map, phis, rewritten)
      /\ ReadsKnown(phis, rewritten) /\ IncomingsKnown(phis, rewritten) BY DEF RenameInv
<1>3. PICK n \in Nat \ {0} :
        /\ n = Len(calls) /\ DOMAIN calls = 1 .. n /\ Frame = calls[n] /\ n \in 1 .. n
        /\ Frame \in CallRecord /\ Frame.block \in Block /\ Frame.at \in Nat BY <1>1, FrameFacts
<1>4. c \in Frame.children /\ c \in Block
 <2>1. Frame.children \subseteq Block BY <1>3 DEF CallRecord
 <2>2. c \in Frame.children BY <1>1, <2>1, LeastBlock
 <2> QED BY <2>1, <2>2
<1> HIDE DEF c
<1>5. /\ f \in CallRecord /\ f.block = c /\ f.at = 1
      /\ f.children = Children(idom, c) /\ f.added = {} /\ f.pushed = PhiVars(c) BY <1>4, CalledFacts
<1> HIDE DEF f
<1>6. calls[Len(calls)].at = End(calls[Len(calls)].block) /\ c \in calls[Len(calls)].children BY <1>1, <1>3, <1>4 DEF End
<1>7. Nested(calls', roots') /\ Enters(calls, roots, calls', roots', c) BY <1>1, <1>2, <1>5, <1>6, ChildNested
<1>8. RewrittenFrom(calls', roots', rewritten) /\ Written(calls', roots', rewritten)
      /\ Counted(calls', roots', phis)
 <2>1. OneMore(calls, roots, calls', roots', c) BY <1>2, <1>7, EnteredReached DEF OneMore
 <2> QED BY <1>2, <2>1, EnterWritten
<1>9. Joined(calls, calls', f)
 <2> DEFINE w == Without(calls, n, c)
 <2>1. /\ w \in Seq(CallRecord) /\ DOMAIN w = DOMAIN calls /\ Len(w) = Len(calls)
       /\ \A i \in DOMAIN calls : i # n => w[i] = calls[i]
       /\ w[n].block = calls[n].block /\ w[n].at = calls[n].at
       /\ w[n].pushed = calls[n].pushed /\ w[n].added = calls[n].added
  <3>1. calls \in Seq(CallRecord) /\ n \in DOMAIN calls BY <1>2, <1>3 DEF Nested
  <3> QED BY <3>1, WithoutFacts
 <2>2. calls' = Append(w, f) BY <1>1, <1>3
 <2> HIDE DEF w
 <2>3. /\ Len(calls') = n + 1 /\ DOMAIN calls' = 1 .. n + 1 /\ calls'[n + 1] = f
       /\ \A i \in 1 .. n : calls'[i] = w[i] BY <1>3, <1>5, <2>1, <2>2, AppendFacts
 <2>4. \A i \in 1 .. n : /\ calls'[i].block = calls[i].block /\ calls'[i].at = calls[i].at
                         /\ calls'[i].pushed = calls[i].pushed /\ calls'[i].added = calls[i].added BY <1>3, <2>1, <2>3
 <2> QED BY <1>3, <2>3, <2>4 DEF Joined
<1>10. PICK S : var_stack \in [promotable -> Seq(S)] BY DEF RenameInv, StacksTyped
<1>11. PushedOn(var_stack, var_stack', c) /\ var_stack' \in [promotable -> Seq(S \cup Operand)] BY <1>1, <1>4, <1>10, PhisPushed
<1>12. StacksTyped'
 <2>1. promotable' = promotable BY <1>1
 <2> QED BY <1>11, <2>1 DEF StacksTyped
<1>13. StacksKnown(calls', var_stack', phis, rewritten)
 <2>1. PICK m : Heights(calls, var_stack, m) /\ StacksAvail(calls, var_stack, m, phis, rewritten) BY <1>2 DEF StacksKnown
 <2>2. \A v \in promotable : m[Len(calls)][v] = Len(var_stack[v]) BY <1>1, <2>1 DEF Heights
 <2>3. PhiVars(c) \in Seq(promotable) BY <1>5 DEF CallRecord
 <2> QED BY <1>2, <1>4, <1>5, <1>7, <1>9, <1>11, <2>1, <2>2, <2>3, EnterStacks
<1>14. AliasesKnown(calls', alias_map', phis, rewritten) BY <1>1, <1>2, <1>4, <1>5, <1>9, EnterAliases
<1>15. Renaming(calls', roots', var_stack', alias_map', phis', rewritten') BY <1>1, <1>2, <1>7, <1>8, <1>13, <1>14 DEF Renaming
<1> QED BY <1>1, <1>12, <1>15, TypedKept, RenameBuilt

LEMMA StepLeave == ASSUME DomTree, RenameInv, LeaveBlock PROVE RenameInv'
<1>1. /\ calls # <<>> /\ Frame.at = Len(blocks[Frame.block]) + 2 /\ Frame.children = {}
      /\ alias_map' = [j \in DOMAIN alias_map \ Frame.added |-> alias_map[j]]
      /\ var_stack' = Popped /\ calls' = Front(calls)
      /\ UNCHANGED <<function, promotable, placing>>
      /\ phis' = phis /\ rewritten' = rewritten /\ roots' = roots BY DEF LeaveBlock, Filled
<1>2. /\ Fixed /\ Nested(calls, roots)
      /\ RewrittenFrom(calls, roots, rewritten) /\ DefinedOnce(rewritten)
      /\ Written(calls, roots, rewritten)
      /\ Counted(calls, roots, phis) /\ StacksKnown(calls, var_stack, phis, rewritten)
      /\ AliasesKnown(calls, alias_map, phis, rewritten)
      /\ ReadsKnown(phis, rewritten) /\ IncomingsKnown(phis, rewritten) BY DEF RenameInv
<1>3. PICK n \in Nat \ {0} :
        /\ n = Len(calls) /\ DOMAIN calls = 1 .. n /\ Frame = calls[n] /\ n \in 1 .. n
        /\ Frame \in CallRecord /\ Frame.block \in Block /\ Frame.at \in Nat BY <1>1, FrameFacts
<1>4. calls[Len(calls)].at = End(calls[Len(calls)].block) /\ calls[Len(calls)].children = {} BY <1>1, <1>3 DEF End
<1>5. /\ Nested(calls', roots')
      /\ \A b \in Block : \A k \in Nat :
           k <= End(b) => (Reached(calls', roots', b, k) <=> Reached(calls, roots, b, k)) BY <1>1, <1>2, <1>4, CallLeft
<1>6. RewrittenFrom(calls', roots', rewritten) /\ Written(calls', roots', rewritten)
 <2>1. \A b \in Block : \A j \in DOMAIN blocks[b] : j + 1 \in Nat /\ j + 1 <= End(b)
  <3> SUFFICES ASSUME NEW b \in Block, NEW j \in DOMAIN blocks[b] PROVE j + 1 \in Nat /\ j + 1 <= End(b) OBVIOUS
  <3>1. Len(blocks[b]) \in Nat /\ DOMAIN blocks[b] = 1 .. Len(blocks[b]) /\ End(b) = Len(blocks[b]) + 2 BY <1>2, CodeFacts
  <3> QED BY <3>1
 <2>2. StillReached(calls, roots, calls', roots') BY <1>5, <2>1 DEF StillReached
 <2>3. RewrittenFrom(calls', roots', rewritten) BY <1>2, <2>2, FromReached
 <2> QED BY <1>2, <1>5, <2>1, <2>3 DEF Written
<1>7. Counted(calls', roots', phis)
 <2>1. \A b \in Block : End(b) \in Nat /\ End(b) <= End(b) BY <1>2, CodeFacts
 <2> QED BY <1>2, <1>5, <2>1 DEF Counted
<1>8. PICK S : var_stack \in [promotable -> Seq(S)] BY DEF RenameInv, StacksTyped
<1>9. ASSUME NEW v \in promotable
      PROVE  /\ var_stack'[v] \in Seq(S)
             /\ Len(var_stack'[v]) = Len(var_stack[v]) - Occurrences(Frame.pushed, v)
             /\ \A p \in 1 .. Len(var_stack'[v]) : var_stack'[v][p] = var_stack[v][p]
 <2> DEFINE s == var_stack[v]
            d == Occurrences(Frame.pushed, v)
 <2>1. s \in Seq(S) /\ Len(s) \in Nat BY <1>8
 <2>2. d \in Nat
  <3>1. Frame.pushed \in Seq(promotable) BY <1>3 DEF CallRecord
  <3> QED BY <3>1, OccurrencesOf
 <2>3. d <= Len(s)
  <3>1. PICK m : Heights(calls, var_stack, m) BY <1>2 DEF StacksKnown
  <3>2. m \in [0 .. n -> [promotable -> Nat]] BY <1>3, <3>1 DEF Heights
  <3>3. m[n][v] = m[n - 1][v] + d /\ m[n][v] = Len(s) BY <1>1, <1>3, <3>1 DEF Heights
  <3>4. m[n - 1][v] \in Nat
   <4>1. n - 1 \in 0 .. n OBVIOUS
   <4> QED BY <3>2, <4>1
  <3> HIDE DEF s, d
  <3> QED BY <2>1, <2>2, <3>3, <3>4
 <2>4. var_stack'[v] = SubSeq(s, 1, Len(s) - d) BY <1>1 DEF Popped
 <2> HIDE DEF s, d
 <2>5. PICK k \in Nat : k = Len(s) - d /\ k <= Len(s)
  <3>1. Len(s) - d \in Nat /\ Len(s) - d <= Len(s) BY <2>1, <2>2, <2>3
  <3> QED BY <3>1
 <2>6. SubSeq(s, 1, k) = [i \in 1 .. k |-> s[i]] /\ \A i \in 1 .. k : i \in 1 .. Len(s) BY <2>1, <2>5, SubSeqProperties
 <2>7. \A i \in 1 .. k : s[i] \in S BY <2>1, <2>6, ElementType
 <2> DEFINE l == [i \in 1 .. k |-> s[i]]
 <2>8. l \in Seq(S) BY <2>7, IsASeq
 <2>9. Len(l) = k /\ \A i \in 1 .. k : l[i] = s[i]
  <3>1. DOMAIN l = 1 .. k /\ \A i \in 1 .. k : l[i] = s[i] OBVIOUS
  <3> HIDE DEF l
  <3> QED BY <2>8, <3>1
 <2>10. var_stack'[v] = l BY <2>4, <2>5, <2>6
 <2> HIDE DEF l
 <2> QED BY <2>5, <2>8, <2>9, <2>10 DEF s, d
<1>10. StacksTyped'
 <2>1. var_stack' = [v \in promotable |-> var_stack'[v]] /\ promotable' = promotable BY <1>1 DEF Popped
 <2>2. var_stack' \in [promotable -> Seq(S)] BY <1>9, <2>1
 <2> QED BY <2>1, <2>2 DEF StacksTyped
<1>11. StacksKnown(calls', var_stack', phis, rewritten)
 <2>1. Cut(calls, var_stack, var_stack') BY <1>3, <1>9 DEF Cut
 <2> QED BY <1>1, <1>2, <2>1, LeaveStacks
<1>12. AliasesKnown(calls', alias_map', phis, rewritten)
 <2>1. alias_map' = [j \in DOMAIN alias_map \ calls[Len(calls)].added |-> alias_map[j]] BY <1>1, <1>3
 <2> QED BY <1>1, <1>2, <2>1, LeaveAliases
<1>13. Renaming(calls', roots', var_stack', alias_map', phis', rewritten')
  BY <1>1, <1>2, <1>5, <1>6, <1>7, <1>11, <1>12 DEF Renaming
<1> QED BY <1>1, <1>10, <1>13, TypedKept, RenameBuilt

-----------------------------------------------------------------------------
(* Every step of the pass. *)
LEMMA SsaStep == DomInv /\ SsaInv /\ [Next]_vars => SsaInv'
<1> SUFFICES ASSUME DomInv, SsaInv, [Next]_vars PROVE SsaInv' OBVIOUS
<1>1. calls # <<>> => phase = "rename" BY DEF SsaInv, EarlyInv, PlaceInv
<1>2. frontier # {} => phase = "place" BY DEF SsaInv, EarlyInv, RenameInv
<1>3. phase \notin {"search", "iterate"} => DomTree BY TreeKnown
<1>4. ASSUME phase = "rename", phase' = phase, RenameInv' PROVE SsaInv' BY <1>4 DEF SsaInv
<1>5. CASE ComputeDominators
 <2>1. UNCHANGED mem2regVars /\ DominatorsNext BY <1>5 DEF ComputeDominators
 <2>2. /\ phase \in {"search", "iterate"} /\ succs' = succs
       /\ phase' \in {"search", "iterate", "done"}
  <3>1. (stack # <<>> => phase = "search") /\ (fingers # <<>> => phase = "iterate") BY DEF DomInv
  <3>2. CASE Visit BY <3>1, <3>2 DEF Visit, graph
  <3>3. CASE Leave BY <3>1, <3>3 DEF Leave, graph
  <3>4. CASE StartPass BY <3>4 DEF StartPass, graph
  <3>5. CASE TakePredecessor BY <3>5 DEF TakePredecessor, Visiting, graph
  <3>6. CASE WalkUp BY <3>1, <3>6 DEF WalkUp, graph
  <3>7. CASE Meet BY <3>1, <3>7 DEF Meet, graph
  <3>8. CASE Commit BY <3>8 DEF Commit, Visiting, graph
  <3>9. CASE FinishDominators BY <3>9 DEF FinishDominators, graph
  <3> QED BY <2>1, <3>2, <3>3, <3>4, <3>5, <3>6, <3>7, <3>8, <3>9 DEF DominatorsNext
 <2>3. EarlyInv' BY <2>1, <2>2, EarlyStep DEF SsaInv
 <2> QED BY <2>2, <2>3 DEF SsaInv
<1>6. CASE ChooseVariables
 <2>1. phase = "done" /\ phase' = "place" BY <1>6 DEF ChooseVariables, Done
 <2>2. PlaceInv' BY <1>6, <2>1, ChooseStep DEF SsaInv
 <2> QED BY <2>1, <2>2 DEF SsaInv
<1>7. CASE PlaceVariable \/ PopWorklist \/ ConsiderFrontier
 <2>1. phase = "place" /\ phase' = phase
   BY <1>2, <1>7 DEF PlaceVariable, PopWorklist, ConsiderFrontier, function, dominatorsVars
 <2>2. PlaceInv BY <2>1 DEF SsaInv
 <2>3. PlaceInv' BY <1>7, <2>2, WorklistStep, ConsiderStep
 <2> QED BY <2>1, <2>3 DEF SsaInv
<1>8. CASE StartRenaming
 <2>1. phase = "place" /\ phase' = "rename" BY <1>8 DEF StartRenaming
 <2>2. PlaceInv /\ DomTree BY <1>3, <2>1 DEF SsaInv
 <2>3. RenameInv' BY <1>8, <2>2, StartStep
 <2> QED BY <2>1, <2>3 DEF SsaInv
<1>9. CASE RenameRoot \/ RenameAlloca \/ RenameStore \/ RenameLoad \/ RenameOther
             \/ FillSuccessors \/ RenameChild \/ LeaveBlock
 <2>1. phase = "rename" BY <1>1, <1>9 DEF RenameRoot, RenameAlloca, RenameStore, RenameLoad, RenameOther,
                     FillSuccessors, RenameChild, LeaveBlock, Reading, Filled
 <2>2. phase' = phase BY <1>9 DEF RenameRoot, RenameAlloca, RenameStore, RenameLoad, RenameOther,
               FillSuccessors, RenameChild, LeaveBlock, function, dominatorsVars
 <2>3. RenameInv /\ DomTree BY <1>3, <2>1 DEF SsaInv
 <2>4. RenameInv' BY <1>9, <2>3, StepRoot, StepAlloca, StepStore, StepLoad, StepOther, StepFill, StepChild, StepLeave
 <2> QED BY <1>4, <2>1, <2>2, <2>4
<1>10. CASE Finish
 <2>1. /\ phase = "rename" /\ phase' = "run" /\ calls' = <<>> /\ roots' = {}
       /\ UNCHANGED <<info, blocks, promotable, placing, phis, renaming>> BY <1>10 DEF Finish, renaming
 <2>2. RenameInv BY <2>1 DEF SsaInv
 <2>3. RenameInv' BY <2>1, <2>2, RenameKept DEF info, graph
 <2> QED BY <2>1, <2>3 DEF SsaInv
<1>11. CASE RunBlock
 <2>1. /\ phase = "run" /\ phase' = phase /\ calls' = calls /\ roots' = roots
       /\ UNCHANGED <<function, promotable, placing, phis, renaming>> BY <1>11 DEF RunBlock, function, dominatorsVars, renaming
 <2>2. RenameInv /\ calls = <<>> /\ roots = {} BY <2>1 DEF SsaInv
 <2>3. RenameInv' BY <2>1, <2>2, RenameKept DEF function, dominatorsVars, graph
 <2> QED BY <2>1, <2>2, <2>3 DEF SsaInv
<1>12. CASE UNCHANGED vars
 <2>1. UNCHANGED <<function, promotable, next_vreg, placing, phis, renaming>> /\ UNCHANGED mem2regVars
   BY <1>12 DEF vars, mem2regVars, function
 <2>2. phase' = phase /\ succs' = succs /\ calls' = calls /\ roots' = roots
   BY <2>1 DEF function, dominatorsVars, graph, renaming
 <2>3. EarlyInv => EarlyInv' BY <2>1, <2>2, EarlyStep
 <2>4. PlaceInv => PlaceInv'
  <3>1. PlaceInv => unplaced \subseteq promotable /\ (worklist # <<>> \/ frontier # {} => var \in promotable) BY DEF PlaceInv
  <3>2. UNCHANGED <<unplaced, worklist, frontier, var>> BY <2>1 DEF placing
  <3> QED BY <2>1, <3>1, <3>2, PlaceKept
 <2>5. RenameInv => RenameInv' BY <2>1, RenameKept DEF function, dominatorsVars, graph
 <2> QED BY <2>2, <2>3, <2>4, <2>5 DEF SsaInv
<1> QED BY <1>5, <1>6, <1>7, <1>8, <1>9, <1>10, <1>11, <1>12 DEF Next

LEMMA SsaResult == DomInv /\ SsaInv => WellFormedSsa
<1> SUFFICES ASSUME DomInv, SsaInv, phase = "run" PROVE RunInv BY DEF WellFormedSsa, RunInv
<1>1. DomTree BY TreeKnown
<1> QED BY <1>1, RenamedResult DEF SsaInv

(* Mem2RegPass: what promotion leaves is in SSA form, whatever the function and
   whatever order the hash tables give the variables in.  No local is defined
   twice, every use in reachable code is dominated by its definition, and a phi
   lists every predecessor as often as it is one. *)
THEOREM PromotedWellFormed == Spec => []WellFormedSsa
<1>1. Init => SsaInv BY EarlyInit DEF SsaInv
<1>2. DomInv /\ SsaInv /\ [Next]_vars => SsaInv' BY SsaStep
<1>3. DomInv /\ SsaInv => WellFormedSsa BY SsaResult
<1>4. Spec => []DomInv BY DominatorsInvariant
<1> QED BY <1>1, <1>2, <1>3, <1>4, PTL DEF Spec
=============================================================================
